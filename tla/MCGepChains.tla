---- MODULE MCGepChains ----
EXTENDS GepChains, TLC

MCSymmetry == Permutations(Pointers)

MCGep(byte_off, lane) == [byte_off |-> byte_off, lane |-> lane]
MCLane(m, r) == {[modulus |-> m, residue |-> r]}

\* Constant strides that overflow the small i64, array walks of strides that
\* share no, some or all factors, a modulus too wide for i64, and an index
\* about which nothing is known.
MCGeps ==
  { MCGep({3}, {}), MCGep({-5}, {}), MCGep({9}, MCLane(2, 0)),
    MCGep({}, MCLane(4, 1)), MCGep({}, MCLane(6, -1)), MCGep({}, MCLane(3, 2)),
    MCGep({}, MCLane(13, 1)), MCGep({}, {}) }
MCMinOffset == -12
MCWidths == {{}, {0}, {1}, {2}, {4}}
MCWindow == -14 .. 14
====
