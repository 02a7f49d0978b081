------------------------------ MODULE MCDaemon ------------------------------
(* Values of the constants of Daemon that a configuration cannot write.    *)
EXTENDS DaemonRefinement, TLC

CONSTANTS b1, b2, r1, r2, s1, s2

\* One request, for one billet.
OneBilletOf == (r1 :> {b1})
OneIdOf == (r1 :> s1)

\* Two requests for different billets whose ids are the same, as those of
\* "a/b" and "a_b" are.
CollidingBilletsOf == (r1 :> {b1} @@ r2 :> {b2})
CollidingIdOf == (r1 :> s1 @@ r2 :> s1)

\* Two requests for one billet and audiences whose ids are the same.
SharedBilletsOf == (r1 :> {b1} @@ r2 :> {b1})

Symmetry == Permutations(Objects) \cup Permutations(Serials)

\* Requests with the same billets and the same id can be exchanged as well.
RequestSymmetry == Symmetry \cup Permutations(Requests)

=============================================================================
