--------------------------- MODULE MCSessionFamily ---------------------------
(* Instances of SessionFamily for TLC: which operations meet in a run. *)
EXTENDS SessionFamily, TLC

CONSTANTS r1, r2, r3, d1, d2

MCRequests == {r1, r2, r3}
MCDevices == {d1, d2}

\* Devices, and the two requests that only refresh, are interchangeable.
RefreshSymmetry == Permutations(MCDevices) \cup Permutations({r1, r2})

\* Two refreshes meet a third (a replay while the holder rotates takes three),
\* one revocation of any kind, or a lifting of the password restriction.
MeetKinds == (r1 :> {"rotate"}) @@ (r2 :> {"rotate"}) @@ (r3 :> AllKinds)

\* A refresh, a logout and a family revocation.
TwoRevokersKinds == (r1 :> {"rotate"}) @@ (r2 :> {"revoke"}) @@ (r3 :> {"family"})
=============================================================================
