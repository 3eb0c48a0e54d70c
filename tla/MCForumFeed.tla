---------------------------- MODULE MCForumFeed ----------------------------
(***************************************************************************)
(* ForumFeed for TLC: posts are interchangeable.                           *)
(***************************************************************************)
EXTENDS ForumFeed, TLC

Symmetry == Permutations(Posts)

=============================================================================
