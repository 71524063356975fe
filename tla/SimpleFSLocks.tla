----------------------------- MODULE SimpleFSLocks -----------------------------
(* SimpleFSLockFactory: a lock is a file.  ObtainFSLock tests for the file,   *)
(* creates it and reads its creation time in three system calls; EnsureValid  *)
(* compares that time; Close removes the file.  Processes crash, and somebody *)
(* may remove the file by hand.                                               *)
(*                                                                            *)
(* Source: core/store/lock.go.                                                *)
EXTENDS Naturals

CONSTANTS
    Processes,
    MaxTime        \* bound on the clock

ASSUME TimeAssumption == MaxTime \in Nat

VARIABLES
    file,          \* creation time of the lock file, 0 when there is none
    now,           \* the file system's clock
    pc,            \* per process: "none", "create", "stat", "held", "closed"
    creationTime,  \* SimpleFSLock.creationTime
    overlapped     \* history, per process: who was inside ObtainFSLock together
                   \* with its last call

fsVars == <<file, now, pc, creationTime, overlapped>>

FSInit ==
    /\ file = 0 /\ now = 0
    /\ pc = [p \in Processes |-> "none"]
    /\ creationTime = [p \in Processes |-> 0]
    /\ overlapped = [p \in Processes |-> {}]

Obtaining(p) == pc[p] \in {"create", "stat"}

(* A call begins: it overlaps with those under way, and with no earlier one.  *)
BeginObtain(p) ==
    /\ pc' = [pc EXCEPT ![p] = "create"]
    /\ overlapped' = [q \in Processes |->
          IF q = p THEN {r \in Processes \ {p} : Obtaining(r)}
          ELSE IF Obtaining(q) THEN overlapped[q] \cup {p}
          ELSE overlapped[q] \ {p}]
    /\ UNCHANGED <<file, now, creationTime>>

(* os.Stat: the lock is refused when the file is there. *)
StatFileUnchecked(p) == pc[p] \in {"none", "closed"} /\ BeginObtain(p)
StatFile(p) == pc[p] \in {"none", "closed"} /\ file = 0 /\ BeginObtain(p)

(* os.Create truncates a file that appeared in the meantime, which gives it a *)
(* new time.  The clock ticks between two creations.                          *)
CreateFile(p) ==
    /\ pc[p] = "create" /\ now < MaxTime
    /\ now' = now + 1 /\ file' = now + 1
    /\ pc' = [pc EXCEPT ![p] = "stat"]
    /\ UNCHANGED <<creationTime, overlapped>>

(* os.Stat of the file just created: an error when it is gone again. *)
StatCreated(p) ==
    /\ pc[p] = "stat"
    /\ creationTime' = [creationTime EXCEPT ![p] = file]
    /\ pc' = [pc EXCEPT ![p] = IF file = 0 THEN "none" ELSE "held"]
    /\ UNCHANGED <<file, now, overlapped>>

(* EnsureValid: the file has the time it was created with. *)
FSEnsureValidExists(p) == file # 0
FSEnsureValid(p) == file # 0 /\ file = creationTime[p]

(* Close: os.Remove, whoever created the file; closed is never set, and the   *)
(* method may be called again.                                                *)
FSClose(p) ==
    /\ pc[p] \in {"held", "closed"}
    /\ file' = 0
    /\ pc' = [pc EXCEPT ![p] = "closed"]
    /\ UNCHANGED <<now, creationTime, overlapped>>

(* The process exits; its lock file stays. *)
Crash(p) ==
    /\ pc[p] # "none"
    /\ pc' = [pc EXCEPT ![p] = "none"]
    /\ creationTime' = [creationTime EXCEPT ![p] = 0]
    /\ UNCHANGED <<file, now, overlapped>>

RemovedByHand ==
    /\ file # 0
    /\ file' = 0
    /\ UNCHANGED <<now, pc, creationTime, overlapped>>

FSNext ==
    \/ \E p \in Processes : StatFile(p) \/ CreateFile(p) \/ StatCreated(p) \/ FSClose(p) \/ Crash(p)
    \/ RemovedByHand

FSSpec == FSInit /\ [][FSNext]_fsVars

-----------------------------------------------------------------------------
(* The variables are well typed, and a lock that was handed out carries the   *)
(* time of a file that existed.                                               *)
FTypeOK ==
    /\ \A p \in Processes : pc[p] \in {"held", "closed"} => creationTime[p] # 0
    /\ file \in 0..MaxTime /\ now \in 0..MaxTime
    /\ pc \in [Processes -> {"none", "create", "stat", "held", "closed"}]
    /\ creationTime \in [Processes -> 0..MaxTime]
    /\ overlapped \in [Processes -> SUBSET Processes]

Raced(p, q) == q \in overlapped[p] /\ p \in overlapped[q]
HoldsValid(p) == pc[p] = "held" /\ FSEnsureValid(p)

(* "Best effort check that this lock is still valid": how good it is.  Two    *)
(* processes that both hold the lock and find it valid were inside Obtain-    *)
(* FSLock at the same time; whoever came later, after a Close, a crash or a   *)
(* removal by hand, leaves the earlier holder without a valid lock.           *)
OnlyRacersShare ==
    \A p, q \in Processes : HoldsValid(p) /\ HoldsValid(q) => p = q \/ Raced(p, q)

(* A valid lock that is not closed is lost only to a removal by hand, to an   *)
(* ObtainFSLock or a Close of a process that raced for it, or to the Close of *)
(* a lock that is itself not valid any more: no later ObtainFSLock, no crash, *)
(* and no Close by a holder of another valid lock takes it away.              *)
LostToRacersOnly ==
    [][\A p \in Processes :
         HoldsValid(p) /\ pc'[p] = "held" /\ ~FSEnsureValid(p)' =>
            \/ RemovedByHand
            \/ \E q \in Processes \ {p} :
                  \/ CreateFile(q) /\ Raced(p, q)
                  \/ FSClose(q) /\ (FSEnsureValid(q) => Raced(p, q))]_fsVars

(* "An interprocess mutex lock"; ObtainFSLock: "create the file: this will    *)
(* fail if it already exists": of the processes that hold the lock, at most   *)
(* one finds it valid.                                                        *)
AtMostOneValid ==
    \A p, q \in Processes : HoldsValid(p) /\ HoldsValid(q) => p = q

(* Close: "If the stream is already closed then invoking this method has no   *)
(* effect": a second Close takes no other process's lock away.                *)
SecondCloseIsHarmless ==
    [][\A p, q \in Processes :
         HoldsValid(p) /\ pc[q] = "closed" /\ FSClose(q) => FSEnsureValid(p)']_fsVars
================================================================================
