------------------------------ MODULE AutoHeal ------------------------------
(***************************************************************************)
(* The key versions of one node: the in-memory keystore (pkg/keystore),    *)
(* what pkg/persistence keeps of them, and the code that changes both:     *)
(* installing the version a round produced, counting MPK-validation aborts *)
(* and rolling back a poisoned version (pkg/node/autoheal.go), and         *)
(* RestoreState after a crash.                                             *)
(*                                                                         *)
(* Each write to the persistence layer is a step: the node may crash       *)
(* before and after it, and the write may fail. What the code does in      *)
(* memory between two writes is done in the step of the write before or    *)
(* after it, since a crash forgets it.                                     *)
(*                                                                         *)
(* The protocol rounds are the environment: a round ends for this node in  *)
(* an installation, in an MPK-validation abort, or in nothing. Versions    *)
(* are numbered in the order of their timestamps.                          *)
(***************************************************************************)
EXTENDS Naturals, FiniteSets

CONSTANTS
    MaxVersion,    \* bound: rounds that produce a version
    MaxAborts,     \* where counts of aborts saturate, over demotionThreshold
    MaxCrashes,    \* bound: crashes
    MaxErrors,     \* bound: failed writes
    Corrupt        \* versions whose reshares keep failing MPK validation

Versions == 1..MaxVersion

ASSUME BoundsAssumption ==
    /\ MaxVersion \in Nat
    /\ MaxAborts \in Nat /\ MaxAborts > 3
    /\ MaxCrashes \in Nat /\ MaxErrors \in Nat
    /\ Corrupt \subseteq Versions

demotionThreshold == 3

VARIABLES
    clock,         \* the newest version any operator may have
    up,            \* whether the node runs
    held,          \* keyStore.keyVersions
    active,        \* keyStore.activeVersion, 0: none
    poisoned,      \* keyStore.poisoned
    tracker,       \* abortTracker: TrackedSourceVersion, ConsecutiveAborts
    saved,         \* persisted key share versions
    pointer,       \* persisted active version timestamp, 0: none
    savedPoisoned, \* persisted poisoned versions
    nodeState,     \* persisted NodeState: tracker and last-known-good
    task,          \* what the round's goroutine writes next
    crashes, errors,
    \* history, for the properties:
    suffered,      \* MPK aborts counted on each version since a success
    lastActive,    \* the active version when the node last ran
    lost           \* a write failed, so disk and memory may differ

memory == <<up, held, active, poisoned, tracker>>
disk   == <<saved, pointer, savedPoisoned, nodeState>>
vars   == <<clock, memory, disk, task, crashes, errors, suffered, lastActive,
            lost>>

NoState == [version |-> 0, aborts |-> 0, lkg |-> 0]

NoTask == [step |-> "idle", version |-> 0, src |-> 0]

Do(step, version, src) ==
    task' = [step |-> step, version |-> version, src |-> src]

Init ==
    /\ clock = 0
    /\ up = TRUE
    /\ held = {} /\ active = 0 /\ poisoned = {}
    /\ tracker = [version |-> 0, aborts |-> 0]
    /\ saved = {} /\ pointer = 0 /\ savedPoisoned = {}
    /\ nodeState = NoState
    /\ task = NoTask
    /\ crashes = 0 /\ errors = 0
    /\ suffered = [v \in Versions |-> 0]
    /\ lastActive = 0
    /\ lost = FALSE

-----------------------------------------------------------------------------
(* A write that succeeds; one that fails and leaves its store alone; and a *)
(* read that fails before a write that succeeds.                           *)
Written == UNCHANGED <<errors, lost>>
Failed  == /\ errors < MaxErrors
           /\ errors' = errors + 1
           /\ lost' = TRUE
Unread  == /\ errors < MaxErrors
           /\ errors' = errors + 1
           /\ UNCHANGED lost

(* Load-merge-save of the NodeState; a state that cannot be loaded is      *)
(* replaced by an empty one.                                               *)
SaveNodeState(Merge(_)) ==
    \/ nodeState' = Merge(nodeState) /\ Written
    \/ nodeState' = Merge(NoState) /\ Unread
    \/ UNCHANGED nodeState /\ Failed

(* No round is writing; a node on the floor goes on taking part in rounds.  *)
AtRest == up /\ task.step \in {"idle", "floored"}

(* A round this node takes no part in, or that fails for it otherwise.     *)
MissRound ==
    /\ clock < MaxVersion
    /\ clock' = clock + 1
    /\ UNCHANGED <<memory, disk, task, crashes, errors, suffered, lastActive,
                   lost>>

(* A round ends with a new version for this node: by DKG or by joining     *)
(* (src = 0) for a node without a key, by a reshare from source version    *)
(* src otherwise. The node need not have held src itself.                  *)
CompleteRound ==
    /\ AtRest
    /\ clock < MaxVersion
    /\ clock' = clock + 1
    /\ \E src \in 0..clock :
         /\ src = 0 <=> active = 0
         /\ src \notin Corrupt
         /\ Do("saveVersion", clock + 1, src)
    /\ UNCHANGED <<memory, disk, crashes, errors, suffered, lastActive, lost>>

(* SaveKeyShareVersion comes first; when it fails the round is given up.   *)
SaveKeyShareVersion ==
    /\ up /\ task.step = "saveVersion"
    /\ \/ /\ saved' = saved \cup {task.version}
          /\ Do("setPointer", task.version, task.src)
          /\ Written
       \/ /\ Failed
          /\ task' = NoTask
          /\ UNCHANGED saved
    /\ UNCHANGED <<clock, memory, pointer, savedPoisoned, nodeState, crashes,
                   suffered, lastActive>>

(* SetActiveVersionTimestamp, then AddVersion makes the version active and *)
(* recordSuccess clears the count (a joining node records no success).     *)
InstallVersion ==
    /\ up /\ task.step = "setPointer"
    /\ \/ /\ pointer' = task.version
          /\ held' = held \cup {task.version}
          /\ active' = task.version
          /\ lastActive' = task.version
          /\ tracker' = IF task.src = 0 THEN tracker
                        ELSE [version |-> tracker.version, aborts |-> 0]
          /\ suffered' = [v \in Versions |-> 0]
          /\ IF task.src = 0 THEN task' = NoTask
             ELSE Do("recordSuccess", task.version, task.src)
          /\ Written
       \/ /\ Failed
          /\ task' = NoTask
          /\ UNCHANGED <<pointer, held, active, lastActive, tracker, suffered>>
    /\ UNCHANGED <<clock, up, poisoned, saved, savedPoisoned, nodeState,
                   crashes>>

(* recordSuccessfulReshare merges its two fields into the NodeState.       *)
RecordSuccessfulReshare ==
    /\ up /\ task.step = "recordSuccess"
    /\ SaveNodeState(LAMBDA st : [version |-> st.version, aborts |-> 0,
                                  lkg |-> task.src])
    /\ task' = NoTask
    /\ UNCHANGED <<clock, memory, saved, pointer, savedPoisoned, crashes,
                   suffered, lastActive>>

-----------------------------------------------------------------------------
(* One more abort. Only whether a count has reached demotionThreshold      *)
(* matters, so counts stop at MaxAborts.                                   *)
More(count) == IF count < MaxAborts THEN count + 1 ELSE count

(* The aborts a tracker has counted on version v.                          *)
Count(t, v) == IF t.version = v THEN t.aborts ELSE 0

(* Mutant: the tracker is never pointed at the active version.             *)
recordUntracked(src) ==
    LET current == Count(tracker, active)
    IN  [version |-> tracker.version,
         aborts  |-> IF src = active THEN More(current) ELSE current]

(* The tracker after an abort of a round whose majority dealt from src.    *)
recordMPKAbort(src) ==
    LET current == Count(tracker, active)
    IN  [version |-> active,
         aborts  |-> IF src = active THEN More(current) ELSE current]

(* Mutant: the tracker stays in memory.                                    *)
forgetAbortTracker(t) == UNCHANGED <<nodeState, errors, lost>>

(* persistAbortTracker, for tracker t.                                     *)
persistAbortTracker(t) ==
    SaveNodeState(LAMBDA st : [version |-> t.version, aborts |-> t.aborts,
                               lkg |-> st.lkg])

(* onMPKValidationAbort: the abort is counted when the majority dealt from *)
(* the node's own active version, and the tracker is persisted.            *)
OnMPKValidationAbort(src) ==
    /\ AtRest
    /\ active # 0
    /\ tracker' = recordMPKAbort(src)
    /\ suffered' = IF src = active THEN [suffered EXCEPT ![active] = More(@)]
                                   ELSE suffered
    /\ persistAbortTracker(tracker')
    /\ IF src = active /\ tracker'.aborts >= demotionThreshold
         THEN Do("poison", active, 0)
         ELSE task' = NoTask
    /\ UNCHANGED <<clock, up, held, active, poisoned, saved, pointer,
                   savedPoisoned, crashes, lastActive>>

MarkPoisoned ==
    /\ up /\ task.step = "poison"
    /\ poisoned' = poisoned \cup {task.version}
    /\ \/ savedPoisoned' = savedPoisoned \cup {task.version} /\ Written
       \/ UNCHANGED savedPoisoned /\ Failed
    /\ Do("rollback", task.version, 0)
    /\ UNCHANGED <<clock, up, held, active, tracker, saved, pointer,
                   nodeState, crashes, suffered, lastActive>>

(* The last-known-good version if it is below the poisoned one and not     *)
(* poisoned; else the highest such persisted version; 0 if there is none.  *)
rollbackTarget(lkg, bad) ==
    LET usable  == {v \in saved : v < bad /\ v \notin poisoned}
        highest == CHOOSE v \in usable : \A w \in usable : w <= v
    IN  IF lkg \in 1..(bad - 1) /\ lkg \notin poisoned THEN lkg
          ELSE IF usable = {} THEN 0 ELSE highest

(* SetActiveVersionByTimestamp finds the target in the keystore.           *)
CanActivate(target) == target \in held \ poisoned

(* A NodeState that cannot be loaded counts as no last-known-good.         *)
PerformRollback ==
    \E lkg \in {nodeState.lkg, 0} :
        LET target == rollbackTarget(lkg, task.version)
        IN  /\ up /\ task.step = "rollback"
            /\ CanActivate(target)
            /\ active' = target
            /\ lastActive' = target
            /\ \/ lkg = nodeState.lkg /\ pointer' = target /\ Written
               \/ lkg = nodeState.lkg /\ UNCHANGED pointer /\ Failed
               \/ lkg = 0 /\ pointer' = target /\ Unread
            /\ tracker' = [version |-> target, aborts |-> 0]
            /\ Do("persistTracker", target, 0)
            /\ UNCHANGED <<clock, up, held, poisoned, saved, savedPoisoned,
                           nodeState, crashes, suffered>>

(* The versions cannot be listed, there is no target, or the keystore does *)
(* not hold it: rotation is halted loudly and the poisoned version stays   *)
(* active to serve decryption.                                             *)
Floor ==
    /\ up /\ task.step = "rollback"
    /\ \/ ~CanActivate(rollbackTarget(nodeState.lkg, task.version)) /\ Written
       \/ Unread
    /\ Do("floored", task.version, 0)
    /\ UNCHANGED <<clock, memory, disk, crashes, suffered, lastActive>>

PersistAbortTracker ==
    /\ up /\ task.step = "persistTracker"
    /\ persistAbortTracker(tracker)
    /\ task' = NoTask
    /\ UNCHANGED <<clock, memory, saved, pointer, savedPoisoned, crashes,
                   suffered, lastActive>>

-----------------------------------------------------------------------------
Crash ==
    /\ up
    /\ crashes < MaxCrashes
    /\ crashes' = crashes + 1
    /\ up' = FALSE
    /\ held' = {} /\ active' = 0 /\ poisoned' = {}
    /\ tracker' = [version |-> 0, aborts |-> 0]
    /\ task' = NoTask
    /\ UNCHANGED <<clock, disk, errors, suffered, lastActive, lost>>

(* Mutant: the oldest version stays active and the pointer is not applied. *)
RestoredOldest ==
    IF saved = {} THEN 0 ELSE CHOOSE v \in saved : \A w \in saved : v <= w

(* The active version RestoreState ends with. Every version was persisted  *)
(* as active, so AddVersion leaves the newest active until the pointer, if *)
(* there is one, is applied.                                               *)
RestoredActive ==
    IF pointer \in saved THEN pointer
    ELSE IF saved = {} THEN 0
    ELSE CHOOSE v \in saved : \A w \in saved : w <= v

(* Mutant: the persisted count is trusted for whatever version is active.  *)
RestoredUnchecked ==
    [version |-> RestoredActive, aborts |-> nodeState.aborts]

(* Mutant: the tracker takes over the whole NodeState.                     *)
RestoredWhole == nodeState

(* The persisted count is trusted only for the version that is active.     *)
RestoredTracker ==
    IF RestoredActive # 0 /\ nodeState.version = RestoredActive
      THEN [version |-> nodeState.version, aborts |-> nodeState.aborts]
      ELSE [version |-> 0, aborts |-> 0]

(* A poisoned set that cannot be read is only warned about: the node runs  *)
(* on without it. Any other failed read keeps the node down.               *)
RestoreState ==
    /\ ~up
    /\ up' = TRUE
    /\ held' = saved
    /\ active' = RestoredActive
    /\ \/ poisoned' = savedPoisoned /\ lost' = FALSE /\ UNCHANGED errors
       \/ poisoned' = {} /\ Failed
    /\ tracker' = RestoredTracker
    /\ lastActive' = RestoredActive
    /\ UNCHANGED <<clock, disk, task, crashes, suffered>>

Steps == \/ SaveKeyShareVersion \/ InstallVersion \/ RecordSuccessfulReshare
         \/ MarkPoisoned \/ PerformRollback \/ Floor
         \/ PersistAbortTracker

Next ==
    \/ MissRound \/ CompleteRound
    \/ \E src \in 1..clock : OnMPKValidationAbort(src)
    \/ Steps
    \/ Crash \/ RestoreState

Spec == Init /\ [][Next]_vars

(* The process is restarted, a round's goroutine runs on, and rounds are   *)
(* attempted at every boundary: while a corrupt version is active and the  *)
(* majority deals from it, they keep aborting.                             *)
CorruptRoundAborts == active \in Corrupt /\ OnMPKValidationAbort(active)

FairSpec == Spec /\ WF_vars(Steps) /\ WF_vars(RestoreState)
                 /\ WF_vars(CorruptRoundAborts)

-----------------------------------------------------------------------------
Tracker == [version : Versions \cup {0}, aborts : Nat]

MemoryTyped ==
    /\ held \subseteq Versions /\ poisoned \subseteq Versions
    /\ active \in Versions \cup {0}
    /\ tracker \in Tracker

DiskTyped ==
    /\ saved \subseteq Versions /\ savedPoisoned \subseteq Versions
    /\ pointer \in Versions \cup {0}
    /\ nodeState \in [version : Versions \cup {0}, aborts : Nat,
                      lkg : Versions \cup {0}]

TaskTyped ==
    task \in [step : {"idle", "saveVersion", "setPointer", "recordSuccess",
                      "poison", "rollback", "floored", "persistTracker"},
              version : Versions \cup {0}, src : Versions \cup {0}]

HistoryTyped ==
    /\ clock \in 0..MaxVersion
    /\ crashes \in Nat /\ errors \in Nat
    /\ suffered \in [Versions -> Nat]
    /\ lastActive \in Versions \cup {0}

TypeOK ==
    /\ up \in BOOLEAN /\ lost \in BOOLEAN
    /\ MemoryTyped /\ DiskTyped /\ TaskTyped /\ HistoryTyped

(* A version is declared poisoned only after demotionThreshold rounds on   *)
(* which the majority dealt from it really failed in a row, however often  *)
(* the node restarted in between: no count carries over from an earlier    *)
(* time at which the version was active, unless as many writes failed as   *)
(* aborts are needed to leave the version in between.                      *)
DemotionEarned ==
    (task.step = "poison" /\ errors < demotionThreshold)
        => suffered[task.version] >= demotionThreshold

(* Between two rounds a restart is invisible: RestoreState would rebuild   *)
(* exactly the keystore, the active version, the poisoned set and the      *)
(* abort count the running node has, unless a write failed.                *)
RestartIsInvisible ==
    (AtRest /\ ~lost) =>
        /\ held = saved
        /\ active = RestoredActive
        /\ poisoned = savedPoisoned
        /\ Count(tracker, active) = Count(RestoredTracker, active)

(* The active version never goes back to an older one, by a rollback or by *)
(* a restart, except off a version that is poisoned.                       *)
OnlyPoisonIsRolledBack ==
    [][(up' /\ active' < lastActive) => lastActive \in poisoned']_vars

(* A corrupt version does not stay active: three aborted rounds, counted   *)
(* across restarts, lead off it or to the floor.                           *)
CorruptVersionAbandoned ==
    \A v \in Corrupt :
        (up /\ active = v) ~> ((up /\ active # v) \/ task.step = "floored")
=============================================================================
