--------------------------- MODULE MCDailyDigest ----------------------------
(***************************************************************************)
(* Instances of DailyDigest for TLC.                                       *)
(***************************************************************************)
EXTENDS DailyDigest, TLC

CONSTANTS s1, s2

Symmetry == Permutations({s1, s2})

=============================================================================
