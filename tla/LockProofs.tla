------------------------------- MODULE LockProofs -------------------------------
(* SingleInstanceLockFactory keeps its promise for every number of locks and  *)
(* of goroutines, provided every lock object is closed by one goroutine only. *)
(* What SimpleFSLockFactory keeps, for every number of processes, overlapping *)
(* calls, second Closes, crashes and removals by hand, has no hypothesis.     *)
EXTENDS SingleInstanceLocks, SimpleFSLocks, TLAPS

(* Every lock object has at most one goroutine that closes it, as the writer  *)
(* that obtained a lock is the one to close it.                               *)
OneCloserEach == \A l \in Locks : \A g, h \in Closers[l] : g = h

(* A goroutine inside Close is a closer of that lock, and the lock is held.   *)
ClosingIsHeld ==
    \A g \in Goroutines :
        closing[g] # NoLock => closing[g] \in Held /\ g \in Closers[closing[g]]

(* The name is in the set exactly when a lock is held.                        *)
LockedIffHeld == locked <=> Held # {}

LInv == LTypeOK /\ MutualExclusion /\ ClosingIsHeld /\ LockedIffHeld

(* The initial state, before any ObtainLock, satisfies the invariant.         *)
LEMMA InitLInv == Init => LInv
  BY DEF Init, LInv, LTypeOK, MutualExclusion, ClosingIsHeld, LockedIffHeld, Held

(* ObtainLock adds the only held lock, as the name was absent.                *)
LEMMA ObtainLockLInv ==
    ASSUME LInv, NEW l \in Locks, ObtainLock(l)
    PROVE  LInv' /\ Held = {} /\ Held' = {l} /\ closed' = closed /\ l \notin closed
<1> USE DEF LInv, ObtainLock
<1>1. Held = {} /\ Held' = {l} /\ l \notin closed
  BY DEF Held, LockedIffHeld, LTypeOK
<1>2. LTypeOK'
  BY DEF LTypeOK
<1>3. ClosingIsHeld'
  BY <1>1 DEF ClosingIsHeld
<1> QED
  BY <1>1, <1>2, <1>3 DEF MutualExclusion, LockedIffHeld

(* The unlocked test of the flag in Close leaves the invariant alone.         *)
LEMMA CloseReadsFlagLInv ==
    ASSUME LInv, NEW g \in Goroutines, NEW l \in Locks, CloseReadsFlag(g, l)
    PROVE  LInv' /\ Held' = Held /\ closed' = closed
<1> USE DEF LInv, CloseReadsFlag
<1>1. Held' = Held
  BY DEF Held
<1>2. LTypeOK'
  BY DEF LTypeOK
<1>3. ClosingIsHeld'
  BY <1>1 DEF ClosingIsHeld, Held, LTypeOK
<1> QED
  BY <1>1, <1>2, <1>3 DEF MutualExclusion, LockedIffHeld

(* The rest of Close releases the held lock, which only this goroutine was    *)
(* closing.                                                                   *)
LEMMA CloseDeletesLInv ==
    ASSUME OneCloserEach, LInv, NEW g \in Goroutines, CloseDeletes(g)
    PROVE  /\ LInv'
           /\ closing[g] \in Held /\ closing[g] \in Locks
           /\ Held' = Held \ {closing[g]}
           /\ closed' = closed \cup {closing[g]}
<1> USE DEF LInv, CloseDeletes
<1>1. closing[g] \in Held /\ closing[g] \in Locks
  BY DEF ClosingIsHeld, Held, LTypeOK
<1>2. locked
  BY <1>1 DEF LockedIffHeld
<1>3. closed' = closed \cup {closing[g]}
  BY <1>2
<1>4. Held' = Held \ {closing[g]}
  BY <1>3 DEF Held
<1>5. Held = {closing[g]}
  BY <1>1 DEF MutualExclusion
<1>6. Held' = {}
  BY <1>4, <1>5
<1>7. LTypeOK'
  BY <1>1, <1>3 DEF LTypeOK, Held
<1>8. \A h \in Goroutines : closing[h] # NoLock => h = g
  BY <1>1, <1>5 DEF ClosingIsHeld, OneCloserEach
<1>9. \A h \in Goroutines : closing'[h] = NoLock
  BY <1>8 DEF LTypeOK
<1>10. ClosingIsHeld'
  BY <1>9 DEF ClosingIsHeld
<1> QED
  BY <1>1, <1>3, <1>4, <1>6, <1>7, <1>10 DEF MutualExclusion, LockedIffHeld

(* Every step of the factory preserves the invariant.                         *)
LEMMA NextLInv ==
    ASSUME OneCloserEach, LInv, [Next]_vars
    PROVE  LInv'
<1>1. CASE \E l \in Locks : ObtainLock(l)
  BY <1>1, ObtainLockLInv
<1>2. CASE \E g \in Goroutines, l \in Locks : CloseReadsFlag(g, l)
  BY <1>2, CloseReadsFlagLInv
<1>3. CASE \E g \in Goroutines : CloseDeletes(g)
  BY <1>3, CloseDeletesLInv
<1>4. CASE UNCHANGED vars
  BY <1>4 DEF vars, LInv, LTypeOK, MutualExclusion, ClosingIsHeld, LockedIffHeld, Held
<1> QED
  BY <1>1, <1>2, <1>3, <1>4 DEF Next

(* Two locks obtained from SingleInstanceLockFactory and not closed never     *)
(* exist together, when one goroutine closes each.                            *)
THEOREM Exclusion == ASSUME OneCloserEach PROVE Spec => []MutualExclusion
<1>1. LInv /\ [Next]_vars => LInv'
  BY NextLInv
<1>2. LInv => MutualExclusion
  BY DEF LInv
<1> QED
  BY <1>1, <1>2, InitLInv, PTL DEF Spec

(* EnsureValid succeeds on every lock of SingleInstanceLockFactory that is    *)
(* held, when one goroutine closes each.                                      *)
THEOREM HeldLocksValid == ASSUME OneCloserEach PROVE Spec => []HeldIsValid
<1>1. LInv /\ [Next]_vars => LInv'
  BY NextLInv
<1>2. LInv => HeldIsValid
  BY DEF LInv, LockedIffHeld, HeldIsValid, EnsureValid
<1> QED
  BY <1>1, <1>2, InitLInv, PTL DEF Spec

(* SingleInstanceLockFactory implements ExclusiveLock when one goroutine      *)
(* closes each lock: ObtainLock obtains, the locked part of Close releases.   *)
THEOREM FactoryImplementsLock ==
    ASSUME OneCloserEach PROVE Spec => ImplementsExclusiveLock
<1>1. Init => Exclusive!Init
  BY DEF Init, Exclusive!Init, Held
<1>2. ASSUME LInv, [Next]_vars
      PROVE  [Exclusive!Next]_<<Held, closed>>
  <2>1. CASE \E l \in Locks : ObtainLock(l)
    BY <1>2, <2>1, ObtainLockLInv DEF Exclusive!Next, Exclusive!Obtain
  <2>2. CASE \E g \in Goroutines, l \in Locks : CloseReadsFlag(g, l)
    BY <1>2, <2>2, CloseReadsFlagLInv
  <2>3. CASE \E g \in Goroutines : CloseDeletes(g)
    BY <1>2, <2>3, CloseDeletesLInv DEF Exclusive!Next, Exclusive!Release
  <2>4. CASE UNCHANGED vars
    BY <2>4 DEF vars, Held
  <2> QED
    BY <1>2, <2>1, <2>2, <2>3, <2>4 DEF Next
<1>3. LInv /\ [Next]_vars => LInv'
  BY NextLInv
<1> QED
  BY <1>1, <1>2, <1>3, InitLInv, PTL DEF Spec, ImplementsExclusiveLock, Exclusive!Spec
-----------------------------------------------------------------------------
(* The processes whose lock the file may be: those inside ObtainFSLock and    *)
(* those that hold a lock with the file's time.                               *)
Attached(p) == Obtaining(p) \/ (pc[p] = "held" /\ creationTime[p] = file)

(* No creation time lies ahead of the clock.                                  *)
TimesPast == file <= now /\ \A p \in Processes : creationTime[p] <= now

(* A closed lock is not the file's any more.                                  *)
ClosedStale == \A p \in Processes : pc[p] = "closed" => creationTime[p] # file

(* Two processes whose lock the file may be were inside ObtainFSLock together.*)
AttachedRaced ==
    \A p, q \in Processes : Attached(p) /\ Attached(q) /\ p # q => q \in overlapped[p]

FInv == FTypeOK /\ TimesPast /\ ClosedStale /\ AttachedRaced

(* The initial state, with no lock file, satisfies the invariant.             *)
LEMMA InitFInv == FSInit => FInv
  BY TimeAssumption
     DEF FSInit, FInv, FTypeOK, TimesPast, ClosedStale, AttachedRaced, Attached, Obtaining

(* The first os.Stat finds no file, so that no held lock is the file's, and   *)
(* the call overlaps with all those that are under way.                       *)
LEMMA StatFileFInv ==
    ASSUME FInv, NEW p \in Processes, StatFile(p)
    PROVE  FInv'
<1> USE DEF FInv, StatFile, BeginObtain
<1>1. FTypeOK'
  BY DEF FTypeOK
<1>2. TimesPast' /\ ClosedStale'
  BY DEF FTypeOK, TimesPast, ClosedStale
<1>3. \A q \in Processes : Attached(q)' => q = p \/ Obtaining(q)
  BY DEF FTypeOK, Attached, Obtaining
<1>4. \A q \in Processes : Obtaining(q) => Attached(q)
  BY DEF Attached
<1>5. AttachedRaced'
  <2> SUFFICES ASSUME NEW q \in Processes, NEW r \in Processes, q # r,
                      Attached(q)', Attached(r)'
               PROVE  r \in overlapped'[q]
    BY DEF AttachedRaced
  <2>1. CASE q = p
    BY <1>3, <2>1
  <2>2. CASE q # p /\ r = p
    BY <1>3, <2>2
  <2>3. CASE q # p /\ r # p
    <3>1. Obtaining(q) /\ Obtaining(r)
      BY <1>3, <2>3
    <3>2. r \in overlapped[q]
      BY <3>1, <1>4 DEF AttachedRaced
    <3> QED
      BY <2>3, <3>1, <3>2
  <2> QED
    BY <2>1, <2>2, <2>3
<1> QED
  BY <1>1, <1>2, <1>5

(* The other steps attach nobody to the file and change no overlap.           *)
LEMMA NobodyAttaches ==
    ASSUME AttachedRaced, overlapped' = overlapped,
           \A p \in Processes : Attached(p)' => Attached(p)
    PROVE  AttachedRaced'
  BY DEF AttachedRaced

(* os.Create gives the file a time no lock carries.                           *)
LEMMA CreateFileFInv ==
    ASSUME FInv, NEW p \in Processes, CreateFile(p)
    PROVE  FInv'
<1> USE TimeAssumption DEF FInv, CreateFile
<1>1. FTypeOK' /\ TimesPast'
  BY DEF FTypeOK, TimesPast
<1>2. ClosedStale'
  BY DEF FTypeOK, ClosedStale, TimesPast
<1>3. \A q \in Processes : Attached(q)' => Attached(q)
  BY DEF FTypeOK, TimesPast, Attached, Obtaining
<1> QED
  BY <1>1, <1>2, <1>3, NobodyAttaches

(* The second os.Stat hands out a lock, unless the file is gone.              *)
LEMMA StatCreatedFInv ==
    ASSUME FInv, NEW p \in Processes, StatCreated(p)
    PROVE  FInv'
<1> USE DEF FInv, StatCreated
<1>1. FTypeOK' /\ TimesPast' /\ ClosedStale'
  BY DEF FTypeOK, TimesPast, ClosedStale
<1>2. \A q \in Processes : Attached(q)' => Attached(q)
  BY DEF FTypeOK, Attached, Obtaining
<1> QED
  BY <1>1, <1>2, NobodyAttaches

(* Close removes the file, whoever created it, and no lock has time 0.        *)
LEMMA FSCloseFInv ==
    ASSUME FInv, NEW p \in Processes, FSClose(p)
    PROVE  FInv'
<1> USE TimeAssumption DEF FInv, FSClose
<1>1. FTypeOK' /\ TimesPast' /\ ClosedStale'
  BY DEF FTypeOK, TimesPast, ClosedStale
<1>2. \A q \in Processes : Attached(q)' => Attached(q)
  BY DEF FTypeOK, Attached, Obtaining
<1> QED
  BY <1>1, <1>2, NobodyAttaches

(* A crash leaves the file as it is.                                          *)
LEMMA CrashFInv ==
    ASSUME FInv, NEW p \in Processes, Crash(p)
    PROVE  FInv'
<1> USE TimeAssumption DEF FInv, Crash
<1>1. FTypeOK' /\ TimesPast' /\ ClosedStale'
  BY DEF FTypeOK, TimesPast, ClosedStale
<1>2. \A q \in Processes : Attached(q)' => Attached(q)
  BY DEF FTypeOK, Attached, Obtaining
<1> QED
  BY <1>1, <1>2, NobodyAttaches

(* Whoever removes the file leaves no lock with its time, which is 0.         *)
LEMMA RemovedByHandFInv ==
    ASSUME FInv, RemovedByHand
    PROVE  FInv'
<1> USE TimeAssumption DEF FInv, RemovedByHand
<1>1. FTypeOK' /\ TimesPast' /\ ClosedStale'
  BY DEF FTypeOK, TimesPast, ClosedStale
<1>2. \A q \in Processes : Attached(q)' => Attached(q)
  BY DEF FTypeOK, Attached, Obtaining
<1> QED
  BY <1>1, <1>2, NobodyAttaches

(* Every step of the processes preserves the invariant.                       *)
LEMMA NextFInv ==
    ASSUME FInv, [FSNext]_fsVars
    PROVE  FInv'
<1>1. CASE UNCHANGED fsVars
  BY <1>1
     DEF fsVars, FInv, FTypeOK, TimesPast, ClosedStale, AttachedRaced, Attached, Obtaining
<1>2. CASE FSNext
  BY <1>2, StatFileFInv, CreateFileFInv, StatCreatedFInv, FSCloseFInv, CrashFInv,
     RemovedByHandFInv DEF FSNext
<1> QED
  BY <1>1, <1>2

(* Two holders of the file's lock have raced.                                 *)
LEMMA AttachedPairsRaced ==
    ASSUME FInv, NEW p \in Processes, NEW q \in Processes, p # q, Attached(p), Attached(q)
    PROVE  Raced(p, q)
  BY DEF FInv, AttachedRaced, Raced

(* Two processes that both hold a valid SimpleFSLock were inside ObtainFSLock *)
(* at the same time, whatever second Closes, crashes and removals by hand     *)
(* came before.                                                               *)
THEOREM SharersRaced == FSSpec => []OnlyRacersShare
<1>1. FInv /\ [FSNext]_fsVars => FInv'
  BY NextFInv
<1>2. ASSUME FInv PROVE OnlyRacersShare
  <2>1. \A p \in Processes : HoldsValid(p) => Attached(p)
    BY DEF HoldsValid, FSEnsureValid, Attached
  <2> QED
    BY <1>2, <2>1, AttachedPairsRaced DEF OnlyRacersShare
<1> QED
  BY <1>1, <1>2, InitFInv, PTL DEF FSSpec

-----------------------------------------------------------------------------
(* What a step that takes a valid lock from its holder was.                   *)
LEMMA WhoTakesALock ==
    ASSUME FInv, FSNext, NEW p \in Processes,
           HoldsValid(p), pc'[p] = "held", ~FSEnsureValid(p)'
    PROVE  \/ RemovedByHand
           \/ \E q \in Processes \ {p} :
                 \/ CreateFile(q) /\ Raced(p, q)
                 \/ FSClose(q) /\ (FSEnsureValid(q) => Raced(p, q))
<1>1. pc[p] = "held" /\ file # 0 /\ file = creationTime[p] /\ Attached(p)
  BY DEF HoldsValid, FSEnsureValid, Attached
<1>2. file' # file \/ creationTime'[p] # creationTime[p]
  BY <1>1 DEF FSEnsureValid
<1>3. ASSUME NEW q \in Processes, StatFile(q) PROVE FALSE
  BY <1>1, <1>3 DEF StatFile
<1>4. ASSUME NEW q \in Processes, CreateFile(q) PROVE q # p /\ Raced(p, q)
  <2>1. q # p /\ Attached(q)
    BY <1>1, <1>4 DEF CreateFile, Attached, Obtaining
  <2> QED
    BY <1>1, <2>1, AttachedPairsRaced
<1>5. ASSUME NEW q \in Processes, StatCreated(q) PROVE FALSE
  BY <1>1, <1>2, <1>5 DEF StatCreated, FInv, FTypeOK
<1>6. ASSUME NEW q \in Processes, FSClose(q)
      PROVE  q # p /\ (FSEnsureValid(q) => Raced(p, q))
  <2>1. q # p
    BY <1>1, <1>6 DEF FSClose, FInv, FTypeOK
  <2>2. FSEnsureValid(q) => Attached(q)
    BY <1>6 DEF FSClose, FSEnsureValid, Attached, FInv, ClosedStale
  <2> QED
    BY <1>1, <2>1, <2>2, AttachedPairsRaced
<1>7. ASSUME NEW q \in Processes, Crash(q) PROVE FALSE
  BY <1>1, <1>2, <1>7 DEF Crash, FInv, FTypeOK
<1> QED
  BY <1>3, <1>4, <1>5, <1>6, <1>7 DEF FSNext

(* A valid SimpleFSLock is lost only to a removal by hand, to the create or   *)
(* the Close of a process that raced for it, or to the Close of a lock that   *)
(* is not valid any more.                                                     *)
THEOREM LostToRacers == FSSpec => LostToRacersOnly
<1>1. FInv /\ [FSNext]_fsVars => FInv'
  BY NextFInv
<1>2. ASSUME FInv, [FSNext]_fsVars
      PROVE  [\A p \in Processes :
                HoldsValid(p) /\ pc'[p] = "held" /\ ~FSEnsureValid(p)' =>
                   \/ RemovedByHand
                   \/ \E q \in Processes \ {p} :
                         \/ CreateFile(q) /\ Raced(p, q)
                         \/ FSClose(q) /\ (FSEnsureValid(q) => Raced(p, q))]_fsVars
  <2>1. CASE UNCHANGED fsVars
    BY <2>1
  <2>2. CASE FSNext
    BY <1>2, <2>2, WhoTakesALock
  <2> QED
    BY <1>2, <2>1, <2>2
<1> QED
  BY <1>1, <1>2, InitFInv, PTL DEF FSSpec, LostToRacersOnly
================================================================================
