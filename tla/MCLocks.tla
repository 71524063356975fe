-------------------------------- MODULE MCLocks --------------------------------
(* Both lock factories for TLC, each with a lock of its own: a RAM directory  *)
(* and a file system directory in use side by side.                           *)
EXTENDS SingleInstanceLocks, SimpleFSLocks, TLC

CONSTANTS g1, g2, l1, l2, l3

OneCloser == l1 :> {g1} @@ l2 :> {g2} @@ l3 :> {g1}
AnyCloser == [l \in Locks |-> Goroutines]

LocksInit == Init /\ FSInit
LocksNext ==
    \/ Next /\ UNCHANGED fsVars
    \/ FSNext /\ UNCHANGED vars
LocksSpec == LocksInit /\ [][LocksNext]_<<vars, fsVars>>
================================================================================
