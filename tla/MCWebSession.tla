---------------------------- MODULE MCWebSession ----------------------------
(***************************************************************************)
(* WebSession for TLC: ids, tokens and handlers are interchangeable.       *)
(***************************************************************************)
EXTENDS WebSession, TLC

Symmetry ==
  Permutations(ChallengeIds) \union Permutations(Tokens)
    \union Permutations(Dids) \union Permutations(Calls)

=============================================================================
