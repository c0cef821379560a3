--------------------------- MODULE MCEventDelivery ---------------------------
(* Instances of EventDelivery for TLC. *)
EXTENDS EventDelivery, TLC

CONSTANTS m1, m2, m3, e1

\* Three emissions of one idempotency key, one of each kind.
MCEmissions == {m1, m2, m3}
MCKey == [m \in MCEmissions |-> e1]
MCMode == (m1 :> "tx") @@ (m2 :> "plain") @@ (m3 :> "sync")
=============================================================================
