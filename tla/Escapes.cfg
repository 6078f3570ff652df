CONSTANTS
  p = p
  q = q
  r = r
  s = s
  t = t
  u = u
  w = w
  z = z
  A = A
  B = B
  F = F
  G = G
  H = H
  S0 = S0
  S1 = S1
  S2 = S2
  NoClass = none
  MinOffset <- MCMinOffset
  MaxOffset = 3
  DerivedLaneCap = 1
  QueryBudgets = {4, 200}
  MaxRounds = 32
  Spare = {k1, k2, k3, k4, k5, k6, k7, k8, k9, k10, k11, k12}
  Values <- MCValues
  Allocations <- MCAllocations
  Functions <- MCFunctions
  Sites <- MCSites
  Programs <- UnreportedPrograms
SPECIFICATION Spec
INVARIANTS
  KnownAddressesReported
CHECK_DEADLOCK FALSE
