---------------------------- MODULE MCRefreshTimer ----------------------------
(* RefreshTimer with symmetric billets, subscriptions and workers.         *)
EXTENDS RefreshTimer, TLC

Symmetry == Permutations(Billets) \cup Permutations(SubIds)
            \cup Permutations(Workers)

=============================================================================
