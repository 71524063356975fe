----------------------------- MODULE ExclusiveLock -----------------------------
(* What store.Lock promises: "an interprocess mutex lock".  Every lock handed *)
(* out is exclusive until it is released, and is released at most once.       *)
CONSTANT Locks

VARIABLES held, released

Init == held = {} /\ released = {}

Obtain(l) ==
    /\ held = {} /\ l \notin released
    /\ held' = {l}
    /\ UNCHANGED released

Release(l) ==
    /\ l \in held
    /\ held' = held \ {l}
    /\ released' = released \cup {l}

Next == \E l \in Locks : Obtain(l) \/ Release(l)

Spec == Init /\ [][Next]_<<held, released>>
================================================================================
