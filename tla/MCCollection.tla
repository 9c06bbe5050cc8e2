---------------------------- MODULE MCCollection ----------------------------
(***************************************************************************)
(* Small instances of Collection: two windows, an allowance two calls fit  *)
(* in, two workers and three collections, each of which may make a further *)
(* call, as those of a release, a feedstock or an identity do.             *)
(***************************************************************************)
EXTENDS Collection, TLC

\* Workers are alike, and so are the bodies that read.
Symmetry == Permutations(Workers) \cup Permutations(Bodies \ Unreadable)
=============================================================================
