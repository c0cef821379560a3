----------------------------- MODULE MCHotReload -----------------------------
(* Instances of HotReload for TLC: which triggers meet in a run. *)
EXTENDS HotReload, TLC

CONSTANTS i1, i2, t1, t2, t3

TwoInstances == {i1, i2}
TwoTriggers == {t1, t2}
Both == {TwoTriggers}

\* One version reaches two instances, or two versions do.
ThreeTriggers == {t1, t2, t3}
MeetHome == (t1 :> i1) @@ (t2 :> i2) @@ (t3 :> i2)
MeetWant == (t1 :> 2) @@ (t2 :> 2) @@ (t3 :> 3)
MeetUploads == {{t1, t2}, {t1, t3}}

\* Two versions reach one instance, or two instances.
LocalHome == (t1 :> i1) @@ (t2 :> i1)
CrossHome == (t1 :> i1) @@ (t2 :> i2)
RisingWant == (t1 :> 2) @@ (t2 :> 3)
=============================================================================
