--------------------------- MODULE MCClientTools ---------------------------
EXTENDS ClientTools, TLC

CONSTANTS h1, h2, h3, s1, s2, k1, k2

HandlerSymmetry == Permutations({h1, h2, h3})
=============================================================================
