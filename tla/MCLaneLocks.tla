---------------------------- MODULE MCLaneLocks ----------------------------
(* Two lanes, claimed alone, together in either order, or one of them      *)
(* twice, for LaneLocks.                                                   *)
EXTENDS LaneLocks, TLC

CONSTANTS a, b

OneOrBoth == {<<a>>, <<a, b>>, <<b, a>>, <<a, a>>}
Symmetric == Permutations(Session)
=============================================================================
