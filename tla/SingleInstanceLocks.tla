-------------------------- MODULE SingleInstanceLocks --------------------------
(* SingleInstanceLockFactory for one lock name: a set guarded by a mutex, and *)
(* lock objects whose Close tests its flag before it takes that mutex.        *)
(*                                                                            *)
(* Source: core/store/lock.go.                                                *)
CONSTANTS
    Locks,        \* the lock objects the factory may hand out
    Goroutines,
    NoLock,       \* not a lock
    Closers       \* Closers[l]: the goroutines that may call Close on lock l

ASSUME ClosersAssumption == Closers \in [Locks -> SUBSET Goroutines]
ASSUME NoLockAssumption == NoLock \notin Locks

VARIABLES
    locked,       \* whether the name is in SingleInstanceLockFactory.locks
    obtained,     \* the lock objects handed out
    closed,       \* the locks whose closed flag is set
    closing       \* the lock a goroutine found open in Close, before Lock()

vars == <<locked, obtained, closed, closing>>

Init ==
    /\ locked = FALSE
    /\ obtained = {}
    /\ closed = {}
    /\ closing = [g \in Goroutines |-> NoLock]

(* ObtainLock runs wholly under the mutex; it fails while the name is there.  *)
ObtainLockUnchecked(l) ==
    /\ l \notin obtained
    /\ locked' = TRUE
    /\ obtained' = obtained \cup {l}
    /\ UNCHANGED <<closed, closing>>
ObtainLock(l) ==
    /\ l \notin obtained /\ ~locked
    /\ locked' = TRUE
    /\ obtained' = obtained \cup {l}
    /\ UNCHANGED <<closed, closing>>

(* Close: "if s.closed" is read without the mutex. *)
CloseReadsFlag(g, l) ==
    /\ closing[g] = NoLock
    /\ l \in obtained \ closed /\ g \in Closers[l]
    /\ closing' = [closing EXCEPT ![g] = l]
    /\ UNCHANGED <<locked, obtained, closed>>

(* The rest of Close, under the mutex: an error if the name is gone. *)
CloseDeletesKeepsFlag(g) ==
    /\ closing[g] # NoLock
    /\ locked' = FALSE
    /\ closed' = closed
    /\ closing' = [closing EXCEPT ![g] = NoLock]
    /\ UNCHANGED obtained
CloseDeletes(g) ==
    /\ closing[g] # NoLock
    /\ locked' = FALSE
    /\ closed' = IF locked THEN closed \cup {closing[g]} ELSE closed
    /\ closing' = [closing EXCEPT ![g] = NoLock]
    /\ UNCHANGED obtained

Next ==
    \/ \E l \in Locks : ObtainLock(l)
    \/ \E g \in Goroutines, l \in Locks : CloseReadsFlag(g, l)
    \/ \E g \in Goroutines : CloseDeletes(g)

Spec == Init /\ [][Next]_vars

-----------------------------------------------------------------------------
(* The variables are well typed; only locks handed out are closed or closing. *)
LTypeOK ==
    /\ locked \in BOOLEAN
    /\ obtained \subseteq Locks
    /\ closed \subseteq obtained
    /\ closing \in [Goroutines -> obtained \cup {NoLock}]

Held == obtained \ closed

(* "An interprocess mutex lock": two locks that were obtained and not closed  *)
(* never exist together, whichever goroutines close them and when.            *)
MutualExclusion == \A l, k \in Held : l = k

(* EnsureValid of a held lock: its name is in the factory's set. *)
EnsureValid == locked

(* EnsureValid succeeds on every lock that is held: no Close of another lock  *)
(* takes the name out of the set.                                             *)
HeldIsValid == Held # {} => EnsureValid

(* The factory implements ExclusiveLock: a lock is obtained only when none is *)
(* held, and released once.                                                   *)
Exclusive == INSTANCE ExclusiveLock WITH held <- Held, released <- closed
ImplementsExclusiveLock == Exclusive!Spec

(* "If the stream is already closed then invoking this method has no effect": *)
(* a Close of a lock that is closed leaves the locks of others alone.         *)
SecondCloseHasNoEffect ==
    [][\A g \in Goroutines :
         closing[g] \in closed /\ closing'[g] = NoLock => locked' = locked]_vars
================================================================================
