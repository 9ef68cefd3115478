--------------------------- MODULE AutoHealProofs ---------------------------
(***************************************************************************)
(* Proofs about AutoHeal, for any number of versions, crashes and failed   *)
(* writes, and any set of corrupt versions.                                *)
(***************************************************************************)
EXTENDS AutoHeal, WellFoundedInduction, TLAPS

(* RestoreState's "newest version" exists: a nonempty set of versions has  *)
(* a greatest element.                                                     *)
LEMMA NewestExists ==
    ASSUME NEW S, S \subseteq Versions, S # {}
    PROVE  \E v \in S : \A w \in S : w <= v
<1> DEFINE T == {MaxVersion - v : v \in S}
<1>1. T \subseteq Nat
  BY BoundsAssumption DEF Versions
<1>2. T # {}
  OBVIOUS
<1>3. PICK t \in T : \A u \in T : ~(<<u, t>> \in OpToRel(<, Nat))
  BY <1>1, <1>2, NatLessThanWellFounded, WFMin
<1>4. \A u \in T : t <= u
  <2> HIDE DEF T
  <2> SUFFICES ASSUME NEW u \in T, ~(t <= u) PROVE FALSE
    OBVIOUS
  <2>1. u \in Nat /\ t \in Nat
    BY <1>1
  <2>2. <<u, t>> \in OpToRel(<, Nat)
    BY <2>1 DEF OpToRel
  <2>3. QED
    BY <1>3, <2>2
<1>5. PICK v \in S : t = MaxVersion - v
  OBVIOUS
<1>6. \A w \in S : w <= v
  <2> SUFFICES ASSUME NEW w \in S PROVE w <= v
    OBVIOUS
  <2>1. t <= MaxVersion - w
    BY <1>4
  <2>2. QED
    BY <1>5, <2>1, BoundsAssumption DEF Versions
<1>7. QED
  BY <1>6

(* The version a restart makes active is a saved one: the pointer's or,    *)
(* without a pointer, the newest.                                          *)
LEMMA RestoredActiveIsSaved ==
    ASSUME DiskTyped
    PROVE  /\ RestoredActive \in saved \cup {0}
           /\ pointer \in saved => RestoredActive = pointer
           /\ pointer \notin saved => \A v \in saved : v <= RestoredActive
<1>1. CASE pointer \in saved
  BY <1>1 DEF RestoredActive
<1>2. CASE saved = {}
  BY <1>2 DEF RestoredActive
<1>3. CASE pointer \notin saved /\ saved # {}
  <2>1. \E v \in saved : \A w \in saved : w <= v
    BY <1>3, NewestExists DEF DiskTyped
  <2>2. QED
    BY <1>3, <2>1 DEF RestoredActive
<1>4. QED
  BY <1>1, <1>2, <1>3

(* What PerformRollback does, for the version it moves to.                 *)
RolledBackTo(target) ==
    /\ up /\ task.step = "rollback"
    /\ target \in held \ poisoned /\ target < task.version
    /\ active' = target /\ lastActive' = target
    /\ \/ pointer' = target /\ lost' = lost
       \/ pointer' = pointer /\ lost' = TRUE
    /\ errors' \in {errors, errors + 1}
    /\ tracker' = [version |-> target, aborts |-> 0]
    /\ task' = [step |-> "persistTracker", version |-> target, src |-> 0]
    /\ UNCHANGED <<clock, up, held, poisoned, saved, savedPoisoned, nodeState,
                   crashes, suffered>>

(* What performRollback leaves behind, whichever of its ends it takes.     *)
LEMMA RollbackEffect ==
    ASSUME MemoryTyped, DiskTyped, task.version \in Versions, PerformRollback
    PROVE  \E target : RolledBackTo(target)
<1>1. PICK lkg \in {nodeState.lkg, 0} :
         LET target == rollbackTarget(lkg, task.version)
         IN  /\ up /\ task.step = "rollback"
             /\ target \in held \ poisoned
             /\ active' = target /\ lastActive' = target
             /\ \/ pointer' = target /\ lost' = lost
                \/ pointer' = pointer /\ lost' = TRUE
             /\ errors' \in {errors, errors + 1}
             /\ tracker' = [version |-> target, aborts |-> 0]
             /\ task' = [step |-> "persistTracker", version |-> target,
                         src |-> 0]
             /\ UNCHANGED <<clock, up, held, poisoned, saved, savedPoisoned,
                            nodeState, crashes, suffered>>
  BY DEF PerformRollback, CanActivate, Do, Written, Failed, Unread
<1> DEFINE target == rollbackTarget(lkg, task.version)
<1>2. target < task.version
  <2> DEFINE usable == {v \in saved : v < task.version /\ v \notin poisoned}
  <2>1. CASE lkg \in 1..(task.version - 1) /\ lkg \notin poisoned
    BY <2>1, BoundsAssumption DEF rollbackTarget, Versions
  <2>2. CASE /\ ~(lkg \in 1..(task.version - 1) /\ lkg \notin poisoned)
             /\ usable = {}
    <3>1. target = 0
      BY <2>2 DEF rollbackTarget
    <3>2. QED
      BY <1>1, <3>1, BoundsAssumption DEF Versions
  <2>3. CASE /\ ~(lkg \in 1..(task.version - 1) /\ lkg \notin poisoned)
             /\ usable # {}
    <3>1. usable \subseteq Versions
      BY DEF DiskTyped
    <3>2. \E v \in usable : \A w \in usable : w <= v
      BY <2>3, <3>1, NewestExists
    <3>3. target = CHOOSE v \in usable : \A w \in usable : w <= v
      BY <2>3 DEF rollbackTarget
    <3>4. target \in usable
      BY <3>2, <3>3
    <3>5. QED
      BY <3>4
  <2>4. QED
    BY <2>1, <2>2, <2>3
<1> HIDE DEF target
<1>3. RolledBackTo(target)
  BY <1>1, <1>2 DEF RolledBackTo, target
<1>4. QED
  BY <1>3

(***************************************************************************)
(* Type correctness. A task other than "idle" names a version: that is     *)
(* needed to keep the sets of versions free of 0.                          *)
(***************************************************************************)
Typed ==
    /\ TypeOK
    /\ task.step # "idle" => task.version \in Versions

(* The initial states are typed.                                           *)
LEMMA InitTyped == Init => Typed
<1> SUFFICES ASSUME Init PROVE Typed
  OBVIOUS
<1>1. up \in BOOLEAN /\ lost \in BOOLEAN
  BY DEF Init
<1>2. MemoryTyped /\ DiskTyped /\ HistoryTyped
  BY BoundsAssumption
     DEF Init, MemoryTyped, DiskTyped, HistoryTyped, Tracker, NoState
<1>3. TaskTyped /\ task.step = "idle"
  BY DEF Init, TaskTyped, NoTask
<1>4. QED
  BY <1>1, <1>2, <1>3 DEF Typed, TypeOK

(* The flags stay flags.                                                   *)
LEMMA BooleansStep ==
    up \in BOOLEAN /\ lost \in BOOLEAN /\ [Next]_vars
        => up' \in BOOLEAN /\ lost' \in BOOLEAN
BY Zenon DEF Next, Steps, vars, memory, disk, MissRound, CompleteRound,
   OnMPKValidationAbort, SaveKeyShareVersion, InstallVersion,
   RecordSuccessfulReshare, MarkPoisoned, PerformRollback, Floor,
   PersistAbortTracker, Crash, RestoreState, persistAbortTracker,
   SaveNodeState, Written, Failed, Unread

(* Every step keeps the types.                                             *)
LEMMA TypeStep == Typed /\ [Next]_vars => Typed'
<1> SUFFICES ASSUME Typed, [Next]_vars
             PROVE  Typed'
  OBVIOUS
<1> DEFINE Rest == /\ MemoryTyped /\ DiskTyped /\ TaskTyped /\ HistoryTyped
                   /\ task.step # "idle" => task.version \in Versions
<1>a. Rest /\ up \in BOOLEAN /\ lost \in BOOLEAN
  BY DEF Typed, TypeOK
<1> SUFFICES Rest'
  BY <1>a, BooleansStep DEF Typed, TypeOK
<1> HIDE DEF Rest
<1>b. Rest
  BY <1>a
<1> USE BoundsAssumption
    DEF MemoryTyped, DiskTyped, TaskTyped, HistoryTyped, Tracker, Do, NoTask
<1>1. CASE MissRound
  BY <1>b, <1>1 DEF Rest, MissRound, memory, disk
<1>2. CASE CompleteRound
  BY <1>b, <1>2 DEF Rest, CompleteRound, memory, disk, Versions
<1>3. ASSUME NEW src \in 1..clock, OnMPKValidationAbort(src)
      PROVE  Rest'
  <2>1. active \in Versions
    BY <1>b, <1>3 DEF Rest, OnMPKValidationAbort
  <2>2. tracker' \in Tracker
    BY <1>b, <1>3, <2>1
       DEF Rest, OnMPKValidationAbort, recordMPKAbort, Count, More
  <2>3. suffered' \in [Versions -> Nat]
    BY <1>b, <1>3, <2>1 DEF Rest, OnMPKValidationAbort, More
  <2>4. nodeState' \in [version : Versions \cup {0}, aborts : Nat,
                       lkg : Versions \cup {0}]
    BY <1>b, <1>3, <2>2 DEF Rest, OnMPKValidationAbort, persistAbortTracker,
       SaveNodeState, NoState
  <2>5. errors' \in Nat
    BY <1>b, <1>3 DEF Rest, OnMPKValidationAbort, persistAbortTracker,
       SaveNodeState, Written, Failed, Unread
  <2>6. TaskTyped' /\ (task'.step # "idle" => task'.version \in Versions)
    BY <1>b, <1>3, <2>1 DEF Rest, OnMPKValidationAbort
  <2>7. UNCHANGED <<clock, held, active, poisoned, saved, pointer,
                    savedPoisoned, crashes, lastActive>>
    BY <1>3 DEF OnMPKValidationAbort
  <2>8. QED
    BY <1>b, <2>2, <2>3, <2>4, <2>5, <2>6, <2>7 DEF Rest
<1>4. CASE SaveKeyShareVersion
  BY <1>b, <1>4 DEF Rest, SaveKeyShareVersion, memory, Written, Failed
<1>5. CASE InstallVersion
  BY <1>b, <1>5 DEF Rest, InstallVersion, Written, Failed
<1>6. CASE RecordSuccessfulReshare
  BY <1>b, <1>6 DEF Rest, RecordSuccessfulReshare, SaveNodeState, memory,
     NoState, Written, Failed, Unread
<1>7. CASE MarkPoisoned
  BY <1>b, <1>7 DEF Rest, MarkPoisoned, Written, Failed
<1>8. CASE PerformRollback
  <2>1. PICK target : RolledBackTo(target)
    BY <1>b, <1>8, RollbackEffect DEF Rest, PerformRollback
  <2>2. QED
    BY <1>b, <2>1 DEF Rest, RolledBackTo
<1>9. CASE Floor
  BY <1>b, <1>9 DEF Rest, Floor, memory, disk, Written, Unread
<1>10. CASE PersistAbortTracker
  BY <1>b, <1>10 DEF Rest, PersistAbortTracker, persistAbortTracker,
     SaveNodeState, memory, NoState, Written, Failed, Unread
<1>11. CASE Crash
  BY <1>b, <1>11 DEF Rest, Crash, disk
<1>12. CASE RestoreState
  <2>1. RestoredActive \in Versions \cup {0}
    BY <1>b, RestoredActiveIsSaved DEF Rest
  <2>2. RestoredTracker \in Tracker
    BY <1>b, <2>1 DEF Rest, RestoredTracker
  <2>3. QED
    BY <1>b, <1>12, <2>1, <2>2 DEF Rest, RestoreState, disk, Failed
<1>13. CASE UNCHANGED vars
  BY <1>b, <1>13 DEF Rest, vars, memory, disk
<1>14. QED
  BY <1>1, <1>2, <1>3, <1>4, <1>5, <1>6, <1>7, <1>8, <1>9, <1>10, <1>11,
     <1>12, <1>13 DEF Next, Steps

(* The node's state is well typed whatever rounds, failures and crashes    *)
(* happen.                                                                 *)
THEOREM TypeCorrect == Spec => []TypeOK
<1>1. Typed => TypeOK
  BY DEF Typed
<1>2. QED
  BY InitTyped, TypeStep, <1>1, PTL DEF Spec

(***************************************************************************)
(* What relates memory, disk and the task of a node. Versions only grow:   *)
(* a version being written is newer than everything the node has on disk   *)
(* or counts aborts for. The pointer is never behind the version that was  *)
(* active last. A rollback is under way only off the active version, and   *)
(* only once it is poisoned.                                               *)
(***************************************************************************)
BoundInv ==
    /\ \A v \in saved : v <= clock
    /\ tracker.version <= clock /\ nodeState.version <= clock

FreshInv ==
    task.step \in {"saveVersion", "setPointer"} =>
        /\ task.version <= clock
        /\ \A v \in saved : v # task.version => v < task.version
        /\ tracker.version < task.version
        /\ nodeState.version < task.version
        /\ (task.step = "setPointer") <=> (task.version \in saved)
        /\ task.version \notin held

StoreInv ==
    /\ held \subseteq saved
    /\ active \in held \cup {0} /\ pointer \in saved \cup {0}
    /\ lastActive \in saved \cup {0}
    /\ up => lastActive = active
    /\ pointer # 0 => lastActive <= pointer
    /\ ~up => task.step = "idle"

RollbackInv ==
    /\ task.step \in {"poison", "rollback"} => task.version = active
    /\ task.step = "rollback" => task.version \in poisoned
    /\ task.step = "persistTracker"
         => active # 0 /\ tracker.version = active /\ tracker.aborts = 0
    /\ task.step = "recordSuccess" => active # 0 /\ tracker.aborts = 0
    /\ tracker.version = 0 => tracker.aborts = 0

Core == BoundInv /\ FreshInv /\ StoreInv /\ RollbackInv

(* The initial states satisfy Core.                                        *)
LEMMA InitCore == Init => Core
BY DEF Init, Core, BoundInv, FreshInv, StoreInv, RollbackInv, NoState, NoTask

(* What typing says about the numbers the invariants compare.              *)
LEMMA Numbers ==
    ASSUME Typed
    PROVE  /\ clock \in Nat /\ errors \in Nat
           /\ active \in Nat /\ pointer \in Nat /\ lastActive \in Nat
           /\ \A v \in saved : v \in Nat /\ v # 0
           /\ \A v \in held : v \in Nat /\ v # 0
           /\ tracker.version \in Nat /\ tracker.aborts \in Nat
           /\ nodeState.version \in Nat /\ nodeState.aborts \in Nat
           /\ task.version \in Nat
           /\ task.step # "idle" => task.version # 0
BY BoundsAssumption DEF Typed, TypeOK, MemoryTyped, DiskTyped, TaskTyped,
   HistoryTyped, Tracker, Versions

(* Every step preserves Core.                                              *)
LEMMA CoreStep == Typed /\ Core /\ [Next]_vars => Core'
<1> SUFFICES ASSUME Typed, Core, [Next]_vars
             PROVE  Core'
  OBVIOUS
<1> USE Numbers DEF Do, NoTask, Core, BoundInv, FreshInv, StoreInv,
    RollbackInv
<1>1. CASE MissRound
  <2>1. clock' = clock + 1 /\ UNCHANGED <<memory, disk, task, lastActive>>
    BY <1>1 DEF MissRound
  <2>2. BoundInv'
    BY <2>1 DEF memory, disk
  <2>3. FreshInv'
    BY <2>1 DEF memory, disk
  <2>4. StoreInv' /\ RollbackInv'
    BY <2>1 DEF memory, disk
  <2>5. QED
    BY <2>2, <2>3, <2>4
<1>2. CASE CompleteRound
  <2>1. /\ clock' = clock + 1 /\ UNCHANGED <<memory, disk, lastActive>>
        /\ task'.step = "saveVersion" /\ task'.version = clock + 1 /\ up
    BY <1>2 DEF CompleteRound, AtRest
  <2>2. BoundInv'
    BY <2>1 DEF memory, disk
  <2>3. FreshInv'
    BY <2>1 DEF memory, disk
  <2>4. StoreInv' /\ RollbackInv'
    BY <2>1 DEF memory, disk
  <2>5. QED
    BY <2>2, <2>3, <2>4
<1>3. ASSUME NEW src \in 1..clock, OnMPKValidationAbort(src)
      PROVE  Core'
  BY <1>3 DEF OnMPKValidationAbort, AtRest, recordMPKAbort,
     persistAbortTracker, SaveNodeState, NoState, Count
<1>4. CASE SaveKeyShareVersion
  <2>1. /\ UNCHANGED <<clock, memory, pointer, nodeState, lastActive>> /\ up
        /\ task.step = "saveVersion"
        /\ \/ /\ saved' = saved \cup {task.version}
              /\ task' = [step |-> "setPointer", version |-> task.version,
                          src |-> task.src]
           \/ saved' = saved /\ task' = NoTask
    BY <1>4 DEF SaveKeyShareVersion
  <2>2. BoundInv'
    BY <2>1 DEF memory
  <2>3. FreshInv'
    BY <2>1 DEF memory
  <2>4. StoreInv' /\ RollbackInv'
    BY <2>1 DEF memory
  <2>5. QED
    BY <2>2, <2>3, <2>4
<1>5. CASE InstallVersion
  <2>1. /\ UNCHANGED <<clock, up, poisoned, saved, nodeState>> /\ up
        /\ task.step = "setPointer"
        /\ task'.step \in {"idle", "recordSuccess"}
    BY <1>5 DEF InstallVersion
  <2>2. \/ /\ pointer' = task.version /\ active' = task.version
           /\ lastActive' = task.version
           /\ held' = held \cup {task.version}
           /\ tracker'.version = tracker.version
           /\ \/ tracker'.aborts = 0
              \/ tracker'.aborts = tracker.aborts /\ task'.step = "idle"
        \/ /\ UNCHANGED <<pointer, held, active, lastActive, tracker>>
           /\ task'.step = "idle"
    BY <1>5 DEF InstallVersion
  <2>3. BoundInv' /\ FreshInv'
    BY <2>1, <2>2
  <2>4. StoreInv'
    BY <2>1, <2>2
  <2>5. RollbackInv'
    BY <2>1, <2>2
  <2>6. QED
    BY <2>3, <2>4, <2>5
<1>6. CASE RecordSuccessfulReshare
  BY <1>6 DEF RecordSuccessfulReshare, SaveNodeState, memory, NoState
<1>7. CASE MarkPoisoned
  BY <1>7 DEF MarkPoisoned
<1>8. CASE PerformRollback
  <2>1. PICK target : RolledBackTo(target)
    BY <1>8, RollbackEffect DEF PerformRollback, Typed, TypeOK
  <2>2. QED
    BY <2>1 DEF RolledBackTo
<1>9. CASE Floor
  BY <1>9 DEF Floor, memory, disk
<1>10. CASE PersistAbortTracker
  BY <1>10 DEF PersistAbortTracker, persistAbortTracker, SaveNodeState,
     memory, NoState
<1>11. CASE Crash
  BY <1>11 DEF Crash, disk
<1>12. CASE RestoreState
  BY <1>12, RestoredActiveIsSaved
     DEF RestoreState, RestoredTracker, disk, Typed, TypeOK
<1>13. CASE UNCHANGED vars
  BY <1>13 DEF vars, memory, disk
<1>14. QED
  BY <1>1, <1>2, <1>3, <1>4, <1>5, <1>6, <1>7, <1>8, <1>9, <1>10, <1>11,
     <1>12, <1>13 DEF Next, Steps

(***************************************************************************)
(* The active version never goes back.                                     *)
(***************************************************************************)
LEMMA ForwardStep ==
    Typed /\ Core /\ [Next]_vars
        => ((up' /\ active' < lastActive) => lastActive \in poisoned')
<1> SUFFICES ASSUME Typed, Core, [Next]_vars, up', active' < lastActive
             PROVE  lastActive \in poisoned'
  OBVIOUS
<1> USE Numbers DEF Core, StoreInv
<1>1. CASE InstallVersion
  <2>1. task.version >= lastActive
    BY <1>1 DEF InstallVersion, FreshInv
  <2>2. active' \in {task.version, active} /\ up
    BY <1>1 DEF InstallVersion
  <2>3. QED
    BY <2>1, <2>2
<1>2. CASE PerformRollback
  <2>1. PICK target : RolledBackTo(target)
    BY <1>2, RollbackEffect DEF PerformRollback, Typed, TypeOK
  <2>2. QED
    BY <2>1 DEF RolledBackTo, RollbackInv
<1>3. CASE RestoreState
  <2>1. RestoredActive \in Nat /\ RestoredActive >= lastActive
    BY <1>3, RestoredActiveIsSaved DEF Typed, TypeOK
  <2>2. active' = RestoredActive
    BY <1>3 DEF RestoreState
  <2>3. QED
    BY <2>1, <2>2
<1>4. CASE Crash
  BY <1>4 DEF Crash
<1>5. CASE UNCHANGED <<up, active>>
  BY <1>5
<1>6. QED
  BY <1>1, <1>2, <1>3, <1>4, <1>5
     DEF Next, Steps, vars, memory, disk, MissRound, CompleteRound,
         OnMPKValidationAbort, SaveKeyShareVersion, RecordSuccessfulReshare,
         MarkPoisoned, Floor, PersistAbortTracker

(* A rollback or a restart makes an older version active only when the     *)
(* version it leaves is poisoned, however the writes in between failed.    *)
THEOREM NeverBackUnlessPoisoned == Spec => OnlyPoisonIsRolledBack
<1>1. Typed /\ Core /\ [Next]_vars
        => [(up' /\ active' < lastActive) => lastActive \in poisoned']_vars
  BY ForwardStep
<1>2. QED
  BY InitTyped, InitCore, TypeStep, CoreStep, <1>1, PTL
     DEF Spec, OnlyPoisonIsRolledBack

(***************************************************************************)
(* A restart between rounds is invisible. As long as no write failed, the  *)
(* disk follows the memory: the versions but for the one being installed,  *)
(* the active version as the pointer's or the newest, the poisoned set,    *)
(* and the count but for a reset that is still to be written.              *)
(***************************************************************************)
VisibleInv ==
    (up /\ ~lost) =>
        /\ held = saved \ (IF task.step = "setPointer" THEN {task.version}
                                                      ELSE {})
        /\ pointer # 0 => active = pointer
        /\ pointer = 0 => \A v \in held : v <= active
        /\ poisoned = savedPoisoned
        /\ (active # 0 /\ task.step \notin {"recordSuccess", "persistTracker"})
             => Count(tracker, active) = Count(nodeState, active)

(* Nothing was served before the first start.                              *)
LEMMA InitVisible == Init => VisibleInv
BY DEF Init, VisibleInv, NoTask

(* Every step preserves VisibleInv.                                        *)
LEMMA VisibleStep == Typed /\ Core /\ VisibleInv /\ [Next]_vars => VisibleInv'
<1> SUFFICES ASSUME Typed, Core, VisibleInv, [Next]_vars, up', ~lost'
             PROVE  VisibleInv'
  BY DEF VisibleInv
<1> USE Numbers DEF Do, NoTask, Core, StoreInv, VisibleInv
<1>1. CASE MissRound
  BY <1>1 DEF MissRound, memory, disk
<1>2. CASE CompleteRound
  BY <1>2 DEF CompleteRound, AtRest, memory, disk
<1>3. ASSUME NEW src \in 1..clock, OnMPKValidationAbort(src)
      PROVE  VisibleInv'
  BY <1>3 DEF OnMPKValidationAbort, AtRest, recordMPKAbort,
     persistAbortTracker, SaveNodeState, NoState, Count, Written, Unread, Failed
<1>4. CASE SaveKeyShareVersion
  BY <1>4 DEF SaveKeyShareVersion, memory, Written, Failed, FreshInv
<1>5. CASE InstallVersion
  BY <1>5 DEF InstallVersion, Written, Failed, FreshInv, Count
<1>6. CASE RecordSuccessfulReshare
  BY <1>6 DEF RecordSuccessfulReshare, SaveNodeState, memory, NoState,
     Written, Failed, Unread, RollbackInv, Count
<1>7. CASE MarkPoisoned
  BY <1>7 DEF MarkPoisoned, Written, Failed
<1>8. CASE PerformRollback
  <2>1. PICK target : RolledBackTo(target)
    BY <1>8, RollbackEffect DEF PerformRollback, Typed, TypeOK
  <2>2. QED
    BY <2>1 DEF RolledBackTo
<1>9. CASE Floor
  BY <1>9 DEF Floor, memory, disk, Written, Unread
<1>10. CASE PersistAbortTracker
  BY <1>10 DEF PersistAbortTracker, persistAbortTracker, SaveNodeState,
     memory, NoState, Written, Failed, Unread, RollbackInv, Count
<1>11. CASE Crash
  BY <1>11 DEF Crash
<1>12. CASE RestoreState
  BY <1>12, RestoredActiveIsSaved
     DEF RestoreState, RestoredTracker, disk, Typed, TypeOK, Failed, Count
<1>13. CASE UNCHANGED vars
  BY <1>13 DEF vars, memory, disk
<1>14. QED
  BY <1>1, <1>2, <1>3, <1>4, <1>5, <1>6, <1>7, <1>8, <1>9, <1>10, <1>11,
     <1>12, <1>13 DEF Next, Steps

(* When RestoreState's choice is what the node served before, a restart    *)
(* does not show.                                                          *)
LEMMA VisibleSuffices ==
    Typed /\ Core /\ VisibleInv => RestartIsInvisible
<1> SUFFICES ASSUME Typed, Core, VisibleInv, AtRest, ~lost
             PROVE  /\ held = saved
                    /\ active = RestoredActive
                    /\ poisoned = savedPoisoned
                    /\ Count(tracker, active) = Count(RestoredTracker, active)
  BY DEF RestartIsInvisible
<1>1. held = saved /\ poisoned = savedPoisoned
  BY DEF VisibleInv, AtRest
<1>2. active = RestoredActive
  <2>1. /\ RestoredActive \in saved \cup {0}
        /\ pointer \in saved => RestoredActive = pointer
        /\ pointer \notin saved => \A v \in saved : v <= RestoredActive
    BY RestoredActiveIsSaved DEF Typed, TypeOK
  <2>2. CASE pointer # 0
    BY <2>1, <2>2 DEF VisibleInv, AtRest, Core, StoreInv
  <2>3. CASE pointer = 0
    BY <2>1, <2>3, <1>1, Numbers DEF VisibleInv, AtRest, Core, StoreInv
  <2>4. QED
    BY <2>2, <2>3
<1>3. Count(tracker, active) = Count(RestoredTracker, active)
  BY <1>2 DEF Count, RestoredTracker, VisibleInv, AtRest, Core, RollbackInv
<1>4. QED
  BY <1>1, <1>2, <1>3

(* Between two rounds a crash and RestoreState give back the keystore, the *)
(* active version, the poisoned set and the abort count, unless a write    *)
(* failed.                                                                 *)
THEOREM RestartInvisible == Spec => []RestartIsInvisible
BY InitTyped, InitCore, InitVisible, TypeStep, CoreStep, VisibleStep,
   VisibleSuffices, PTL DEF Spec

(***************************************************************************)
(* A demotion is earned. The count in memory never exceeds the aborts the  *)
(* active version suffered. The one on disk may, once a success could not  *)
(* be recorded, but then for a version that is neither active nor the      *)
(* pointer's, and every abort counted in memory since failed to be saved.  *)
(***************************************************************************)
Stale == nodeState.version # 0
         /\ nodeState.aborts > suffered[nodeState.version]

EarnedInv ==
    errors < demotionThreshold =>
        /\ active # 0 => Count(tracker, active) <= suffered[active]
        /\ task.step = "poison"
             => suffered[task.version] >= demotionThreshold
        /\ Stale =>
             /\ pointer # 0 /\ pointer # nodeState.version
             /\ up => /\ active # nodeState.version
                      /\ Count(tracker, active) <= errors
             /\ task.step \notin {"poison", "rollback", "persistTracker"}

(* No version has been demoted initially.                                  *)
LEMMA InitEarned == Init => EarnedInv
BY DEF Init, EarnedInv, Stale, NoState, NoTask

(* Every step preserves EarnedInv.                                         *)
LEMMA EarnedStep == Typed /\ Core /\ EarnedInv /\ [Next]_vars => EarnedInv'
<1> SUFFICES ASSUME Typed, Core, EarnedInv, [Next]_vars
             PROVE  EarnedInv'
  OBVIOUS
<1>a. /\ \A v \in Versions : suffered[v] \in Nat
      /\ \A v \in saved : v \in Versions
      /\ nodeState.version \in Versions \cup {0}
      /\ suffered \in [Versions -> Nat]
  BY DEF Typed, TypeOK, HistoryTyped, DiskTyped
<1> USE Numbers, <1>a
    DEF Do, NoTask, Core, StoreInv, EarnedInv, Stale, demotionThreshold
<1>1. CASE MissRound
  BY <1>1 DEF MissRound, memory, disk
<1>2. CASE CompleteRound
  BY <1>2 DEF CompleteRound, AtRest, memory, disk
<1>3. ASSUME NEW src \in 1..clock, OnMPKValidationAbort(src)
      PROVE  EarnedInv'
  <2> DEFINE old == Count(tracker, active)
             new == IF src = active THEN More(old) ELSE old
  <2>1. active # 0 /\ active \in Versions /\ active' = active /\ up /\ up'
        /\ pointer' = pointer /\ AtRest
    BY <1>3 DEF OnMPKValidationAbort, AtRest
  <2>2. old \in Nat /\ new \in Nat /\ new <= old + 1
    BY BoundsAssumption DEF Count, More
  <2>3. tracker' = [version |-> active, aborts |-> new]
    BY <1>3 DEF OnMPKValidationAbort, recordMPKAbort
  <2>4. /\ suffered' \in [Versions -> Nat]
        /\ \A v \in Versions : suffered[v] <= suffered'[v]
        /\ \A v \in Versions : v # active => suffered'[v] = suffered[v]
    BY <1>3, <2>1, BoundsAssumption DEF OnMPKValidationAbort, More
  <2>5. old <= suffered[active] => new <= suffered'[active]
    BY <1>3, <2>1, <2>2, BoundsAssumption DEF OnMPKValidationAbort, More
  <2>6. \/ /\ nodeState'.version = active /\ nodeState'.aborts = new
           /\ errors' \in {errors, errors + 1}
        \/ nodeState' = nodeState /\ errors' = errors + 1
    BY <1>3, <2>3 DEF OnMPKValidationAbort, persistAbortTracker,
       SaveNodeState, Written, Failed, Unread
  <2>7. /\ task'.step \in {"poison", "idle"}
        /\ task'.step = "poison"
             => src = active /\ task'.version = active /\ new >= 3
    BY <1>3, <2>3 DEF OnMPKValidationAbort
  <2>8. Count(tracker', active') = new
    BY <2>1, <2>3 DEF Count
  <2> HIDE DEF old, new
  <2> SUFFICES ASSUME errors' < 3
               PROVE  EarnedInv'
    OBVIOUS
  <2>9. errors < 3 /\ new <= suffered'[active]
    BY <2>1, <2>5, <2>6 DEF old
  <2>10. ASSUME Stale'
         PROVE  /\ nodeState' = nodeState /\ errors' = errors + 1
                /\ Stale /\ nodeState.version # active
                /\ new <= errors'
    <3>1. nodeState' = nodeState /\ errors' = errors + 1
      BY <2>1, <2>2, <2>4, <2>6, <2>9, <2>10
    <3>2. Stale
      BY <2>4, <2>10, <3>1
    <3>3. QED
      BY <2>1, <2>2, <2>9, <3>1, <3>2 DEF old
  <2>11. QED
    BY <2>1, <2>2, <2>4, <2>7, <2>8, <2>9, <2>10
<1>4. CASE SaveKeyShareVersion
  BY <1>4 DEF SaveKeyShareVersion, memory, Written, Failed, Count
<1>5. CASE InstallVersion
  BY <1>5 DEF InstallVersion, Written, Failed, FreshInv, Count
<1>6. CASE RecordSuccessfulReshare
  BY <1>6 DEF RecordSuccessfulReshare, SaveNodeState, memory, NoState,
     Written, Failed, Unread, Count
<1>7. CASE MarkPoisoned
  BY <1>7 DEF MarkPoisoned, Written, Failed
<1>8. CASE PerformRollback
  <2>1. PICK target : RolledBackTo(target)
    BY <1>8, RollbackEffect DEF PerformRollback, Typed, TypeOK
  <2>2. QED
    BY <2>1 DEF RolledBackTo, Count
<1>9. CASE Floor
  BY <1>9 DEF Floor, memory, disk, Written, Unread
<1>10. CASE PersistAbortTracker
  BY <1>10 DEF PersistAbortTracker, persistAbortTracker, SaveNodeState,
     memory, NoState, Written, Failed, Unread, RollbackInv
<1>11. CASE Crash
  BY <1>11 DEF Crash, disk
<1>12. CASE RestoreState
  BY <1>12, RestoredActiveIsSaved
     DEF RestoreState, RestoredTracker, disk, Typed, TypeOK, Failed, Count
<1>13. CASE UNCHANGED vars
  BY <1>13 DEF vars, memory, disk
<1>14. QED
  BY <1>1, <1>2, <1>3, <1>4, <1>5, <1>6, <1>7, <1>8, <1>9, <1>10, <1>11,
     <1>12, <1>13 DEF Next, Steps

(* A version is declared poisoned only after three aborts it really        *)
(* suffered in a row, whatever crashes happened in between, as long as     *)
(* fewer than three writes failed.                                         *)
THEOREM DemotionIsEarned == Spec => []DemotionEarned
<1>1. EarnedInv => DemotionEarned
  BY DEF EarnedInv, DemotionEarned
<1>2. QED
  BY InitTyped, InitCore, InitEarned, TypeStep, CoreStep, EarnedStep, <1>1,
     PTL DEF Spec
=============================================================================
