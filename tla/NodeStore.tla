------------------------------ MODULE NodeStore ------------------------------
(***************************************************************************)
(* One node and its store. The goroutines that write to it (protocol       *)
(* rounds, which may overlap, and the chain poller behind its adapter) run *)
(* calls of the persistence interface, which take effect command by        *)
(* command on redis and at once on badger or in memory. A call may fail    *)
(* with any part of it done, a redis command may even take effect after    *)
(* its call has failed, and the process may die at any point and restore   *)
(* itself from what the store lists.                                       *)
(*                                                                         *)
(* The rounds are abstracted to how they end for this node: with a new     *)
(* version, with a demotion of the version they dealt from, or without     *)
(* any. Versions and sessions are numbered in the order of their           *)
(* timestamps, which start at 1; the timestamp 0 is none.                  *)
(***************************************************************************)
EXTENDS StoreCommands, SequencesExt

CONSTANTS
    Backends,      \* the backends a node may be configured with
    Rounds,        \* the goroutines of rounds that may overlap
    MaxRounds,     \* bound: rounds started
    MaxBlock,      \* bound: blocks of the chain
    MaxCrashes,    \* bound: crashes and shutdowns
    MaxErrors      \* bound: failed calls

ASSUME BoundsAssumption ==
    /\ Backends \subseteq {"badger", "redis", "memory"}
    /\ MaxRounds \in Nat /\ MaxBlock \in Nat
    /\ MaxCrashes \in Nat /\ MaxErrors \in Nat
    /\ "main" \notin Rounds /\ "poller" \notin Rounds

Versions == 1..(MaxRounds + 1)
Blocks == 1..MaxBlock
Actors == Rounds \cup {"main", "poller"}

VARIABLES
    backend,       \* the configured backend
    db,            \* what the store holds
    late,          \* redis commands of a failed call, still under way
    at,            \* where each goroutine is
    todo,          \* the commands of its call that are not yet done
    ver, src,      \* a round's session timestamp and the version it started from
    seen, lkg,     \* what a list returned, and the last-known-good version read
    keystore,      \* keyVersions, activeVersion and poisoned in memory
    height,        \* the last block the poller handled
    clock,         \* the newest timestamp of a round
    rounds, crashes, errors,
    overlapped, failed,  \* history: whether rounds overlapped, a call failed
    reorged        \* history: blocks a reorganisation ever removed

roundVars == <<ver, src, seen, lkg>>
bounds == <<rounds, crashes, errors>>
history == <<overlapped, failed, reorged>>
vars == <<backend, db, late, at, todo, roundVars, keystore, height, clock,
          bounds, history>>

-----------------------------------------------------------------------------
(* The backends behind the interface.                                      *)
Badger == INSTANCE BadgerStore
Redis == INSTANCE RedisStore
Memory == INSTANCE MemoryStore

Configured(badger, redis, memory) ==
    CASE backend = "badger" -> badger
      [] backend = "redis"  -> redis
      [] backend = "memory" -> memory

initSchema ==
    Configured(Badger!initSchema(db), Redis!initSchema(db), <<>>)
HealthCheck ==
    Configured(Badger!HealthCheck(db), Redis!HealthCheck(db), TRUE)
SaveKeyShareVersion(v) ==
    Configured(Badger!SaveKeyShareVersion(v), Redis!SaveKeyShareVersion(v),
               Memory!SaveKeyShareVersion(v))
ListKeyShareVersions ==
    Configured(Badger!ListKeyShareVersions(db), Redis!ListKeyShareVersions(db),
               Memory!ListKeyShareVersions(db))
AddPoisonedVersion(v) ==
    Configured(Badger!AddPoisonedVersion(v), Redis!AddPoisonedVersion(v),
               Memory!AddPoisonedVersion(v))
ListPoisonedVersions ==
    Configured(Badger!ListPoisonedVersions(db), Redis!ListPoisonedVersions(db),
               Memory!ListPoisonedVersions(db))
SetActiveVersionTimestamp(v) ==
    Configured(Badger!SetActiveVersionTimestamp(v),
               Redis!SetActiveVersionTimestamp(v),
               Memory!SetActiveVersionTimestamp(v))
GetActiveVersionTimestamp ==
    Configured(Badger!GetActiveVersionTimestamp(db),
               Redis!GetActiveVersionTimestamp(db),
               Memory!GetActiveVersionTimestamp(db))
SaveNodeState(s) ==
    Configured(Badger!SaveNodeState(s), Redis!SaveNodeState(s),
               Memory!SaveNodeState(s))
LoadNodeState ==
    Configured(Badger!LoadNodeState(db), Redis!LoadNodeState(db),
               Memory!LoadNodeState(db))
SaveProtocolSession(s) ==
    Configured(Badger!SaveProtocolSession(s), Redis!SaveProtocolSession(s),
               Memory!SaveProtocolSession(s))
DeleteProtocolSession(s) ==
    Configured(Badger!DeleteProtocolSession(s), Redis!DeleteProtocolSession(s),
               Memory!DeleteProtocolSession(s))
ListProtocolSessions ==
    Configured(Badger!ListProtocolSessions(db), Redis!ListProtocolSessions(db),
               Memory!ListProtocolSessions(db))
SaveBlockRecord(b) ==
    Configured(Badger!SaveBlockRecord(b), Redis!SaveBlockRecord(b),
               Memory!SaveBlockRecord(b))
DeleteBlockRecord(b) ==
    Configured(Badger!DeleteBlockRecord(b), Redis!DeleteBlockRecord(b),
               Memory!DeleteBlockRecord(b))
GetBlockRecord(b) ==
    Configured(Badger!GetBlockRecord(db, b), Redis!GetBlockRecord(db, b),
               Memory!GetBlockRecord(db, b))
GetLastProcessedBlockRecord ==
    Configured(Badger!GetLastProcessedBlockRecord(db),
               Redis!GetLastProcessedBlockRecord(db),
               Memory!GetLastProcessedBlockRecord(db))

-----------------------------------------------------------------------------
(* Calls. Where a goroutine is waiting for one, at names the call and todo *)
(* holds what the store has yet to do of it.                               *)
Up == at["main"] = "up"
Closed == at["main"] = "closing"
Calls == {"opened", "sweep", "session", "share", "pointer", "mark", "poison",
          "members", "listing", "rollback", "cleanup", "block", "unblock"}

Call(p, stage, commands) ==
    /\ at' = [at EXCEPT ![p] = stage]
    /\ todo' = [todo EXCEPT ![p] = commands]

Returned(p, stage) == at[p] = stage /\ todo[p] = <<>> /\ ~Closed

(* A store does (the next part of) a call. A badger transaction and a call *)
(* under the in-memory store's mutex are one step.                         *)
Execute(p) ==
    /\ todo[p] # <<>> /\ ~Closed
    /\ IF backend = "redis"
       THEN /\ db' = Apply(db, Head(todo[p]))
            /\ todo' = [todo EXCEPT ![p] = Tail(@)]
       ELSE /\ db' = ApplyAll(db, todo[p])
            /\ todo' = [todo EXCEPT ![p] = <<>>]
    /\ UNCHANGED <<backend, late, at, roundVars, keystore, height, clock,
                   bounds, history>>

(* The server gets to a command whose caller has given up on it.           *)
ExecuteLate ==
    /\ late # <<>>
    /\ db' = Apply(db, Head(late))
    /\ late' = Tail(late)
    /\ UNCHANGED <<backend, at, todo, roundVars, keystore, height, clock,
                   bounds, history>>

Cleanup(r) == Call(r, "cleanup", DeleteProtocolSession(ver[r]))

(* What the callers do with an error: a session that cannot be saved or    *)
(* deleted is logged, a version or a pointer that cannot be saved ends the *)
(* round, a poisoned version that cannot be saved does not stop the        *)
(* rollback, a list that fails does, and a start-up that fails is over.    *)
AfterError(p) ==
    CASE at[p] = "session" -> Call(p, "running", <<>>)
      [] at[p] \in {"share", "pointer", "mark", "members", "rollback"} ->
            Cleanup(p)
      [] at[p] = "poison" -> Call(p, "poison", <<>>)
      [] at[p] = "listing" -> Call(p, "listing", <<>>)
      [] at[p] = "sweep" -> Call(p, "sweep", <<>>)
      [] at[p] \in {"cleanup", "block", "unblock"} -> Call(p, "idle", <<>>)
      [] at[p] = "opened" -> Call(p, "down", <<>>)

(* A call returns an error. Nothing of a badger transaction was done then; *)
(* of a redis pipeline any part was, and the rest may still be done later. *)
StoreError(p) ==
    /\ at[p] \in Calls /\ errors < MaxErrors /\ ~Closed
    /\ errors' = errors + 1
    /\ failed' = TRUE
    /\ \/ backend = "badger" /\ todo[p] # <<>> /\ UNCHANGED late
       \/ backend = "redis" /\ late = <<>> /\ late' \in {<<>>, todo[p]}
    /\ AfterError(p)
    /\ UNCHANGED <<backend, db, roundVars, keystore, height, clock, rounds, crashes,
                   overlapped, reorged>>

(* Close waits for the calls under way (they hold the read lock). Every    *)
(* call after it is refused, until the process ends.                       *)
Close ==
    /\ Up /\ crashes < MaxCrashes
    /\ \A p \in Actors : at[p] \notin Calls
    /\ crashes' = crashes + 1
    /\ at' = [at EXCEPT !["main"] = "closing"]
    /\ UNCHANGED <<backend, db, late, todo, roundVars, keystore, height, clock,
                   rounds, errors, history>>

RefusedCall(p) ==
    /\ Closed /\ at[p] \in Calls
    /\ IF at[p] = "poison" THEN Cleanup(p) ELSE AfterError(p)
    /\ UNCHANGED <<backend, db, late, roundVars, keystore, height, clock,
                   bounds, history>>

-----------------------------------------------------------------------------
(* Rounds: RunDKG and the two RunReshare functions as far as they store.   *)

StartRound(r) ==
    /\ Up /\ at[r] = "idle" /\ rounds < MaxRounds
    /\ rounds' = rounds + 1 /\ clock' = clock + 1
    /\ ver' = [ver EXCEPT ![r] = clock + 1]
    /\ src' = [src EXCEPT ![r] = keystore.active]
    /\ overlapped' = (overlapped \/ \E q \in Rounds : at[q] # "idle")
    /\ Call(r, "session", SaveProtocolSession(clock + 1))
    /\ UNCHANGED <<backend, db, late, seen, lkg, keystore, height, crashes, errors,
                   failed, reorged>>

SessionSaved(r) ==
    /\ Returned(r, "session")
    /\ Call(r, "running", <<>>)
    /\ UNCHANGED <<backend, db, late, roundVars, keystore, height, clock,
                   bounds, history>>

(* The next phase, and the session is saved again.                         *)
SavePhase(r) ==
    /\ Up /\ at[r] = "running"
    /\ Call(r, "session", SaveProtocolSession(ver[r]))
    /\ UNCHANGED <<backend, db, late, roundVars, keystore, height, clock,
                   bounds, history>>

(* Mutant of AbortRound: no deferred cleanupSession.                       *)
AbortWithoutCleanup(r) ==
    /\ at[r] = "running"
    /\ Call(r, "idle", <<>>)
    /\ UNCHANGED <<backend, db, late, roundVars, keystore, height, clock,
                   bounds, history>>

AbortRound(r) ==
    /\ at[r] = "running"
    /\ Cleanup(r)
    /\ UNCHANGED <<backend, db, late, roundVars, keystore, height, clock,
                   bounds, history>>

(* Mutant of SaveVersion: the keystore serves the version before it is saved. *)
ServeBeforeSave(r) ==
    /\ at[r] = "running"
    /\ keystore' = [keystore EXCEPT !.held = @ \cup {ver[r]}, !.active = ver[r]]
    /\ Call(r, "share", SaveKeyShareVersion(ver[r]))
    /\ UNCHANGED <<backend, db, late, roundVars, height, clock, bounds, history>>

SaveVersion(r) ==
    /\ at[r] = "running"
    /\ Call(r, "share", SaveKeyShareVersion(ver[r]))
    /\ UNCHANGED <<backend, db, late, roundVars, keystore, height, clock,
                   bounds, history>>

MovePointer(r) ==
    /\ Returned(r, "share")
    /\ Call(r, "pointer", SetActiveVersionTimestamp(ver[r]))
    /\ UNCHANGED <<backend, db, late, roundVars, keystore, height, clock,
                   bounds, history>>

(* keyStore.AddVersion, then the last-known-good marker of a reshare.      *)
AddVersion(r) ==
    /\ Returned(r, "pointer")
    /\ keystore' = [keystore EXCEPT !.held = @ \cup {ver[r]}, !.active = ver[r]]
    /\ IF src[r] # 0
       THEN Call(r, "mark", SaveNodeState(src[r]))
       ELSE Cleanup(r)
    /\ UNCHANGED <<backend, db, late, roundVars, height, clock, bounds, history>>

(* performRollback of the version the round dealt from, which its aborts   *)
(* have demoted.                                                           *)
MarkPoisoned(r) ==
    /\ at[r] = "running" /\ src[r] # 0
    /\ keystore' = [keystore EXCEPT !.poisoned = @ \cup {src[r]}]
    /\ Call(r, "poison", AddPoisonedVersion(src[r]))
    /\ UNCHANGED <<backend, db, late, roundVars, height, clock, bounds, history>>

(* LoadNodeState, and the list: at once, or the first of redis's trips.    *)
BeginList(r) ==
    /\ Returned(r, "poison")
    /\ lkg' = [lkg EXCEPT ![r] = LoadNodeState]
    /\ IF backend = "redis"
       THEN /\ seen' = [seen EXCEPT ![r] = Redis!SMembers(db)]
            /\ Call(r, "members", <<>>)
       ELSE /\ seen' = [seen EXCEPT ![r] = ListKeyShareVersions]
            /\ Call(r, "listing", <<>>)
    /\ UNCHANGED <<backend, db, late, ver, src, keystore, height, clock,
                   bounds, history>>

FetchRecords(r) ==
    /\ Returned(r, "members")
    /\ LET found == Redis!MGet(db, seen[r])
       IN  /\ seen' = [seen EXCEPT ![r] = found]
           /\ Call(r, "listing", SetToSeq(Redis!SRem(seen[r], found)))
    /\ UNCHANGED <<backend, db, late, ver, src, lkg, keystore, height, clock,
                   bounds, history>>

(* 0 when there is none.                                                   *)
rollbackTarget(good, poisoned, versions, bad) ==
    LET below == {v \in versions \ bad : v < poisoned}
    IN  IF good > 0 /\ good < poisoned /\ good \notin bad
        THEN good
        ELSE IF below = {} THEN 0 ELSE Max(below)

(* Mutant of RollBack: the pointer is moved in memory only.                *)
RollBackInMemory(r) ==
    /\ Returned(r, "listing")
    /\ LET target == rollbackTarget(lkg[r], src[r], seen[r], keystore.poisoned)
       IN  keystore' = IF target \in keystore.held \ keystore.poisoned
                       THEN [keystore EXCEPT !.active = target]
                       ELSE keystore
    /\ Cleanup(r)
    /\ UNCHANGED <<backend, db, late, roundVars, height, clock, bounds, history>>

(* SetActiveVersionByTimestamp, and then its persistence; otherwise the    *)
(* floor, and the round just ends.                                         *)
RollBack(r) ==
    /\ Returned(r, "listing")
    /\ LET target == rollbackTarget(lkg[r], src[r], seen[r], keystore.poisoned)
       IN  IF target \in keystore.held \ keystore.poisoned
           THEN /\ keystore' = [keystore EXCEPT !.active = target]
                /\ Call(r, "rollback", SetActiveVersionTimestamp(target))
           ELSE /\ Cleanup(r)
                /\ UNCHANGED keystore
    /\ UNCHANGED <<backend, db, late, roundVars, height, clock, bounds, history>>

FinishRound(r) ==
    /\ Returned(r, "mark") \/ Returned(r, "rollback")
    /\ Cleanup(r)
    /\ UNCHANGED <<backend, db, late, roundVars, keystore, height, clock,
                   bounds, history>>

SessionDeleted(r) ==
    /\ Returned(r, "cleanup")
    /\ Call(r, "idle", <<>>)
    /\ UNCHANGED <<backend, db, late, roundVars, keystore, height, clock,
                   bounds, history>>

-----------------------------------------------------------------------------
(* The chain poller, an external library, through chainpolleradapter.      *)

SaveBlock ==
    /\ Up /\ at["poller"] = "idle" /\ height < MaxBlock
    /\ Call("poller", "block", SaveBlockRecord(height + 1))
    /\ UNCHANGED <<backend, db, late, roundVars, keystore, height, clock,
                   bounds, history>>

BlockSaved ==
    /\ Returned("poller", "block")
    /\ height' = height + 1
    /\ Call("poller", "idle", <<>>)
    /\ UNCHANGED <<backend, db, late, roundVars, keystore, clock, bounds, history>>

(* A reorganisation: the stored block is not the chain's any more.         *)
DeleteBlock ==
    /\ Up /\ at["poller"] = "idle" /\ GetBlockRecord(height) # 0
    /\ Call("poller", "unblock", DeleteBlockRecord(height))
    /\ reorged' = reorged \cup {height}
    /\ UNCHANGED <<backend, db, late, roundVars, keystore, height, clock,
                   bounds, overlapped, failed>>

BlockDeleted ==
    /\ Returned("poller", "unblock")
    /\ height' = height - 1
    /\ Call("poller", "idle", <<>>)
    /\ UNCHANGED <<backend, db, late, roundVars, keystore, clock, bounds, history>>

-----------------------------------------------------------------------------
(* The process: it dies, opens its store, and restores itself.             *)

NoKeys == [held |-> {}, active |-> 0, poisoned |-> {}]

(* Whatever was under way stops; of what was already sent to redis, some   *)
(* call may still take effect. The in-memory store goes with the process.  *)
Crash ==
    /\ at["main"] # "down"
    /\ Closed \/ crashes < MaxCrashes
    /\ crashes' = IF Closed THEN crashes ELSE crashes + 1
    /\ at' = [p \in Actors |-> IF p = "main" THEN "down" ELSE "idle"]
    /\ todo' = [p \in Actors |-> <<>>]
    /\ late' \in IF backend = "redis" /\ late = <<>>
                 THEN {<<>>} \cup {todo[p] : p \in Actors}
                 ELSE {late}
    /\ db' = IF backend = "memory" THEN EmptyStore ELSE db
    /\ keystore' = NoKeys
    /\ height' = 0
    /\ ver' = [p \in Actors |-> 0] /\ src' = [p \in Actors |-> 0]
    /\ seen' = [p \in Actors |-> {}] /\ lkg' = [p \in Actors |-> 0]
    /\ UNCHANGED <<backend, clock, rounds, errors, history>>

OpenStore ==
    /\ at["main"] = "down"
    /\ Call("main", "opened", initSchema)
    /\ UNCHANGED <<backend, db, late, roundVars, keystore, height, clock,
                   bounds, history>>

(* The versions are added in ascending order and each was saved as active, *)
(* so the newest is active unless the pointer names another.               *)
RestoredActive ==
    IF GetActiveVersionTimestamp \in ListKeyShareVersions
    THEN GetActiveVersionTimestamp
    ELSE IF ListKeyShareVersions = {} THEN 0 ELSE Max(ListKeyShareVersions)

(* The reads of RestoreState. Nothing else runs yet; a failure to read the *)
(* poisoned set is logged only. Redis drops index members with no record.  *)
RestoreState ==
    /\ Returned("main", "opened") /\ HealthCheck
    /\ \E unread \in BOOLEAN :
          /\ unread => errors < MaxErrors /\ backend # "memory"
          /\ keystore' = [held     |-> ListKeyShareVersions,
                          active   |-> RestoredActive,
                          poisoned |-> IF unread THEN {} ELSE ListPoisonedVersions]
          /\ errors' = IF unread THEN errors + 1 ELSE errors
          /\ failed' = (unread \/ late # <<>>)
    /\ height' = GetLastProcessedBlockRecord
    /\ overlapped' = FALSE
    /\ seen' = [seen EXCEPT !["main"] = ListProtocolSessions]
    /\ db' = [db EXCEPT !.shareIndex = @ \cap db.share,
                        !.sessionIndex = @ \cap db.session]
    /\ Call("main", "sweep", <<>>)
    /\ UNCHANGED <<backend, late, ver, src, lkg, clock, rounds, crashes, reorged>>

(* No session is resumed: each is deleted.                                 *)
SweepSession ==
    /\ Returned("main", "sweep") /\ seen["main"] # {}
    /\ \E s \in seen["main"] :
          /\ seen' = [seen EXCEPT !["main"] = @ \ {s}]
          /\ Call("main", "sweep", DeleteProtocolSession(s))
    /\ UNCHANGED <<backend, db, late, ver, src, lkg, keystore, height, clock,
                   bounds, history>>

Start ==
    /\ Returned("main", "sweep") /\ seen["main"] = {}
    /\ Call("main", "up", <<>>)
    /\ UNCHANGED <<backend, db, late, roundVars, keystore, height, clock,
                   bounds, history>>

(* What an earlier life left that made one key.                            *)
UsedStore ==
    [EmptyStore EXCEPT !.schema = currentSchemaVersion, !.share = {1}, !.active = 1,
                       !.shareIndex = IF backend = "redis" THEN {1} ELSE {}]

Init ==
    /\ backend \in Backends
    /\ \/ db = EmptyStore /\ clock = 0
       \/ db = UsedStore /\ clock = 1 /\ backend # "memory"
    /\ late = <<>>
    /\ at = [p \in Actors |-> IF p = "main" THEN "down" ELSE "idle"]
    /\ todo = [p \in Actors |-> <<>>]
    /\ ver = [p \in Actors |-> 0] /\ src = [p \in Actors |-> 0]
    /\ seen = [p \in Actors |-> {}] /\ lkg = [p \in Actors |-> 0]
    /\ keystore = NoKeys
    /\ height = 0
    /\ rounds = 0 /\ crashes = 0 /\ errors = 0
    /\ overlapped = FALSE /\ failed = FALSE /\ reorged = {}

Round(r) ==
    \/ StartRound(r) \/ SessionSaved(r) \/ SavePhase(r) \/ AbortRound(r)
    \/ SaveVersion(r) \/ MovePointer(r) \/ AddVersion(r)
    \/ MarkPoisoned(r) \/ BeginList(r) \/ FetchRecords(r) \/ RollBack(r)
    \/ FinishRound(r) \/ SessionDeleted(r)

Next ==
    \/ \E r \in Rounds : Round(r)
    \/ \E p \in Actors : Execute(p) \/ StoreError(p) \/ RefusedCall(p)
    \/ SaveBlock \/ BlockSaved \/ DeleteBlock \/ BlockDeleted
    \/ ExecuteLate \/ Close \/ Crash
    \/ OpenStore \/ RestoreState \/ SweepSession \/ Start

Spec == Init /\ [][Next]_vars

-----------------------------------------------------------------------------
(* Whatever the store does in between, a version the node serves partial   *)
(* signatures with is one it would list after a crash in this very moment: *)
(* SaveKeyShareVersion runs before keyStore.AddVersion, and neither an     *)
(* overlapping round's list, which deletes index entries, nor a call that  *)
(* fails half way takes it away again.                                     *)
ServedIsDurable == keystore.held \subseteq ListKeyShareVersions

(* A restart between two calls goes on with the version that is being      *)
(* served: RestoreState's choice is the keystore's active version whenever *)
(* no round is moving it, unless a call failed or rounds overlapped since  *)
(* the last start.                                                         *)
RestartKeepsServing ==
    (/\ Up /\ ~failed /\ ~overlapped
     /\ \A r \in Rounds : at[r] \notin {"share", "pointer", "rollback"})
    => RestoredActive = keystore.active

(* The poller finds where it stopped: the last-processed pointer names a   *)
(* stored record (SaveBlockRecord writes the record first), unless a       *)
(* reorganisation removed that block and the pointer stayed.               *)
LastBlockReadable ==
    db.last # 0 /\ db.last \notin reorged => GetLastProcessedBlockRecord = db.last

(* Every session record an earlier life of the process left behind is gone *)
(* once the node is up (cleanupSession removes the others), unless a call  *)
(* failed: what the store lists are sessions of rounds that run.           *)
SessionsSwept ==
    Up /\ ~failed =>
        ListProtocolSessions \subseteq {ver[r] : r \in {q \in Rounds : at[q] # "idle"}}

(* All three backends, used the way the node uses them, look like one that *)
(* changes key shares, pointer, poison and sessions in single steps, never *)
(* takes back a version and never points to a missing one.                 *)
Durable == INSTANCE DurableState WITH
    NoVersion <- 0, shares <- ListKeyShareVersions, active <- db.active,
    poisoned <- db.poisoned, sessions <- ListProtocolSessions,
    volatile <- backend = "memory"
ImplementsDurableState == Durable!Spec
=============================================================================
