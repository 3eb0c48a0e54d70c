------------------------- MODULE MCIdentityAnchors -------------------------
(***************************************************************************)
(* Instances of IdentityAnchors for TLC.  Client processes and keys are    *)
(* interchangeable: no property names one of them.                         *)
(***************************************************************************)
EXTENDS IdentityAnchors, TLC

Symmetry == Permutations(Clients) \union Permutations(Keys)
=============================================================================
