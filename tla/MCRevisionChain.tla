--------------------------- MODULE MCRevisionChain ---------------------------
(* RevisionChain for TLC. A window of three rows and seven saves on top of an *)
(* older database, so that chains grow to the longest allowed, are cut, and   *)
(* grow again. The documents are alike.                                      *)
EXTENDS RevisionChain, TLC

Symmetry == Permutations(Docs)
=============================================================================
