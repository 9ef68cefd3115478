--------------------------- MODULE NodeStoreProofs --------------------------
(***************************************************************************)
(* Proofs about NodeStore, for every choice of backends, any number of     *)
(* overlapping rounds, blocks, crashes and failed calls: that it           *)
(* implements DurableState, and its safety invariants.                     *)
(***************************************************************************)
EXTENDS NodeStore, FiniteSetTheorems, WellFoundedInduction, TLAPS

-----------------------------------------------------------------------------
(***************************************************************************)
(* Stores and commands, apart from the node. In what follows bk is the     *)
(* backend, d a store, and gone the blocks a reorganisation removed.       *)
(***************************************************************************)
Store ==
    [schema : {"none", currentSchemaVersion}, share : SUBSET Versions,
     shareIndex : SUBSET Versions, active : Versions \cup {0},
     poisoned : SUBSET Versions, state : Versions \cup {0},
     session : SUBSET Versions, sessionIndex : SUBSET Versions,
     block : SUBSET (0..MaxBlock), last : 0..MaxBlock]

Listed(bk, d) == IF bk = "redis" THEN d.shareIndex \cap d.share ELSE d.share
Live(bk, d)   == IF bk = "redis" THEN d.sessionIndex \cap d.session
                 ELSE d.session

ShareWrite(bk, v) ==
    IF bk = "redis" THEN <<Add("share", v), Add("shareIndex", v)>>
    ELSE <<Add("share", v)>>
SessionWrite(bk, v) ==
    IF bk = "redis" THEN <<Add("session", v), Add("sessionIndex", v)>>
    ELSE <<Add("session", v)>>
SessionDelete(bk, v) ==
    IF bk = "redis" THEN <<Delete("session", v), Delete("sessionIndex", v)>>
    ELSE <<Delete("session", v)>>

(* A store that may be reached: an indexed share has its record, pointer   *)
(* and poison name listed versions, and the last block can be read.        *)
Sound(bk, d, gone) ==
    /\ d \in Store
    /\ bk = "redis" => d.shareIndex \subseteq d.share
    /\ d.active \in Listed(bk, d) \cup {0}
    /\ d.poisoned \subseteq Listed(bk, d)
    /\ d.last # 0 => d.last \in d.block \cup gone

(* What may be left to do of a call. An index entry comes after its        *)
(* record; a pointer, a poisoning and a last block name what is there.     *)
VersionCall(bk, d, s, v) ==
    \/ s = ShareWrite(bk, v)
    \/ s = <<Add("shareIndex", v)>> /\ v \in d.share /\ bk = "redis"
    \/ s = <<Add("poisoned", v)>> /\ v \in Listed(bk, d)
    \/ s = <<Put("active", v)>> /\ v \in Listed(bk, d)
    \/ s = <<Put("state", v)>>
    \/ s = SessionWrite(bk, v)
    \/ s = <<Add("sessionIndex", v)>> /\ bk = "redis"
    \/ s = SessionDelete(bk, v)
    \/ s = <<Delete("sessionIndex", v)>> /\ bk = "redis"

BlockCall(d, gone, s, b) ==
    \/ s = <<Add("block", b), Put("last", b)>>
    \/ s = <<Put("last", b)>> /\ b \in d.block \cup gone
    \/ s = <<Delete("block", b)>> /\ b \in gone

Pending(bk, d, gone, s) ==
    \/ s = <<>>
    \/ s = <<Put("schema", currentSchemaVersion)>>
    \/ \E v \in Versions : VersionCall(bk, d, s, v)
    \/ \E b \in 0..MaxBlock : BlockCall(d, gone, s, b)

(* Nothing another call relies on is taken away from d.                    *)
Grows(bk, d, e, gone) ==
    /\ d.share \subseteq e.share
    /\ Listed(bk, d) \subseteq Listed(bk, e)
    /\ d.block \subseteq e.block \cup gone

(* What DurableState allows to happen in one step.                         *)
DurableStep(bk, d, e) ==
    /\ \/ Listed(bk, e) = Listed(bk, d)
       \/ /\ \E v \in Versions : Listed(bk, e) = Listed(bk, d) \cup {v}
          /\ e.active = d.active /\ e.poisoned = d.poisoned
          /\ Live(bk, e) = Live(bk, d)
    /\ \/ e.active = d.active
       \/ /\ e.active \in Listed(bk, d) /\ e.poisoned = d.poisoned
          /\ Live(bk, e) = Live(bk, d)
    /\ \/ e.poisoned = d.poisoned
       \/ /\ \E v \in Listed(bk, d) : e.poisoned = d.poisoned \cup {v}
          /\ Live(bk, e) = Live(bk, d)
    /\ \/ Live(bk, e) = Live(bk, d)
       \/ \E v \in Versions : \/ Live(bk, e) = Live(bk, d) \cup {v}
                               \/ Live(bk, e) = Live(bk, d) \ {v}

Progress(bk, d, e, gone) ==
    Sound(bk, e, gone) /\ Grows(bk, d, e, gone) /\ DurableStep(bk, d, e)

(* Commands under way stay in order while others only add to the store.    *)
LEMMA PendingStays ==
    ASSUME NEW bk, NEW d, NEW e, NEW gone, NEW s,
           Pending(bk, d, gone, s), Grows(bk, d, e, gone)
    PROVE  Pending(bk, e, gone, s)
BY DEF Pending, VersionCall, BlockCall, Grows

(* Each kind of command, on its own.                                       *)
LEMMA CommandEffect ==
    ASSUME NEW bk, NEW d, NEW gone, Sound(bk, d, gone)
    PROVE  /\ Progress(bk, d, Apply(d, Put("schema", currentSchemaVersion)), gone)
           /\ \A v \in Versions :
                /\ Progress(bk, d, Apply(d, Add("share", v)), gone)
                /\ v \in d.share
                     => Progress(bk, d, Apply(d, Add("shareIndex", v)), gone)
                /\ v \in Listed(bk, d)
                     => /\ Progress(bk, d, Apply(d, Add("poisoned", v)), gone)
                        /\ Progress(bk, d, Apply(d, Put("active", v)), gone)
                /\ Progress(bk, d, Apply(d, Put("state", v)), gone)
                /\ Progress(bk, d, Apply(d, Add("session", v)), gone)
                /\ Progress(bk, d, Apply(d, Add("sessionIndex", v)), gone)
                /\ Progress(bk, d, Apply(d, Delete("session", v)), gone)
                /\ Progress(bk, d, Apply(d, Delete("sessionIndex", v)), gone)
           /\ \A b \in 0..MaxBlock :
                /\ Progress(bk, d, Apply(d, Add("block", b)), gone)
                /\ b \in d.block \cup gone
                     => Progress(bk, d, Apply(d, Put("last", b)), gone)
                /\ b \in gone
                     => Progress(bk, d, Apply(d, Delete("block", b)), gone)
<1> USE DEF Apply, Add, Put, Delete, Progress, Sound, Grows, DurableStep,
        Listed, Live, Store
<1>1. Progress(bk, d, Apply(d, Put("schema", currentSchemaVersion)), gone)
  OBVIOUS
<1>2. ASSUME NEW v \in Versions
      PROVE  Progress(bk, d, Apply(d, Add("share", v)), gone)
  OBVIOUS
<1>3. ASSUME NEW v \in Versions, v \in d.share
      PROVE  Progress(bk, d, Apply(d, Add("shareIndex", v)), gone)
  BY <1>3
<1>4. ASSUME NEW v \in Versions, v \in Listed(bk, d)
      PROVE  Progress(bk, d, Apply(d, Add("poisoned", v)), gone)
  BY <1>4
<1>5. ASSUME NEW v \in Versions, v \in Listed(bk, d)
      PROVE  Progress(bk, d, Apply(d, Put("active", v)), gone)
  BY <1>5
<1>6. ASSUME NEW v \in Versions
      PROVE  Progress(bk, d, Apply(d, Put("state", v)), gone)
  OBVIOUS
<1>7. ASSUME NEW v \in Versions
      PROVE  Progress(bk, d, Apply(d, Add("session", v)), gone)
  OBVIOUS
<1>8. ASSUME NEW v \in Versions
      PROVE  Progress(bk, d, Apply(d, Add("sessionIndex", v)), gone)
  OBVIOUS
<1>9. ASSUME NEW v \in Versions
      PROVE  Progress(bk, d, Apply(d, Delete("session", v)), gone)
  OBVIOUS
<1>10. ASSUME NEW v \in Versions
      PROVE  Progress(bk, d, Apply(d, Delete("sessionIndex", v)), gone)
  OBVIOUS
<1>11. ASSUME NEW b \in 0..MaxBlock
      PROVE  Progress(bk, d, Apply(d, Add("block", b)), gone)
  OBVIOUS
<1>12. ASSUME NEW b \in 0..MaxBlock, b \in d.block \cup gone
      PROVE  Progress(bk, d, Apply(d, Put("last", b)), gone)
  BY <1>12
<1>13. ASSUME NEW b \in 0..MaxBlock, b \in gone
      PROVE  Progress(bk, d, Apply(d, Delete("block", b)), gone)
  BY <1>13
<1> HIDE DEF Apply, Add, Put, Delete, Progress, Sound, Grows, DurableStep,
        Listed, Live, Store
<1>14. QED
  BY <1>1, <1>2, <1>3, <1>4, <1>5, <1>6, <1>7, <1>8, <1>9, <1>10, <1>11,
     <1>12, <1>13

(* Redis does the first command of a call; what is left may still be done. *)
LEMMA CommandDone ==
    ASSUME NEW d, NEW gone, NEW s, Sound("redis", d, gone),
           Pending("redis", d, gone, s), s # <<>>
    PROVE  /\ Progress("redis", d, Apply(d, Head(s)), gone)
           /\ Pending("redis", Apply(d, Head(s)), gone, Tail(s))
<1> DEFINE e == Apply(d, Head(s))
           Goal == /\ Progress("redis", d, e, gone)
                   /\ Pending("redis", e, gone, Tail(s))
<1>1. ASSUME NEW c, s = <<c>>
      PROVE  Head(s) = c /\ Pending("redis", e, gone, Tail(s))
  BY <1>1 DEF Pending
<1>2. ASSUME NEW v \in Versions, s = ShareWrite("redis", v)
      PROVE  Goal
  <2>1. Head(s) = Add("share", v) /\ Tail(s) = <<Add("shareIndex", v)>>
    BY <1>2 DEF ShareWrite
  <2>2. v \in Apply(d, Add("share", v)).share
    BY DEF Apply, Add, Sound, Store
  <2>3. QED
    BY <2>1, <2>2, CommandEffect DEF Pending, VersionCall, BlockCall
<1>3. ASSUME NEW v \in Versions, s = SessionWrite("redis", v)
      PROVE  Goal
  <2>1. Head(s) = Add("session", v) /\ Tail(s) = <<Add("sessionIndex", v)>>
    BY <1>3 DEF SessionWrite
  <2>2. QED
    BY <2>1, CommandEffect DEF Pending, VersionCall, BlockCall
<1>4. ASSUME NEW v \in Versions, s = SessionDelete("redis", v)
      PROVE  Goal
  <2>1. /\ Head(s) = Delete("session", v)
        /\ Tail(s) = <<Delete("sessionIndex", v)>>
    BY <1>4 DEF SessionDelete
  <2>2. QED
    BY <2>1, CommandEffect DEF Pending, VersionCall, BlockCall
<1>5. ASSUME NEW b \in 0..MaxBlock, s = <<Add("block", b), Put("last", b)>>
      PROVE  Goal
  <2>1. Head(s) = Add("block", b) /\ Tail(s) = <<Put("last", b)>>
    BY <1>5
  <2>2. b \in Apply(d, Add("block", b)).block
    BY DEF Apply, Add, Sound, Store
  <2>3. QED
    BY <2>1, <2>2, CommandEffect DEF Pending, VersionCall, BlockCall
<1>6. ASSUME NEW v \in Versions,
             \/ s = <<Add("shareIndex", v)>> /\ v \in d.share
             \/ s = <<Add("poisoned", v)>> /\ v \in Listed("redis", d)
             \/ s = <<Put("active", v)>> /\ v \in Listed("redis", d)
             \/ s = <<Put("state", v)>>
             \/ s = <<Add("sessionIndex", v)>>
             \/ s = <<Delete("sessionIndex", v)>>
      PROVE  Goal
  BY <1>1, <1>6, CommandEffect
<1>7. ASSUME NEW b \in 0..MaxBlock,
             \/ s = <<Put("last", b)>> /\ b \in d.block \cup gone
             \/ s = <<Delete("block", b)>> /\ b \in gone
      PROVE  Goal
  BY <1>1, <1>7, CommandEffect
<1>8. ASSUME s = <<Put("schema", currentSchemaVersion)>>
      PROVE  Goal
  BY <1>1, <1>8, CommandEffect
<1> HIDE DEF Goal
<1>9. ASSUME NEW v \in Versions, VersionCall("redis", d, s, v)
      PROVE  Goal
  BY <1>2, <1>3, <1>4, <1>6, <1>9 DEF VersionCall
<1>10. ASSUME NEW b \in 0..MaxBlock, BlockCall(d, gone, s, b)
       PROVE  Goal
  BY <1>5, <1>7, <1>10 DEF BlockCall
<1>11. Goal
  BY <1>8, <1>9, <1>10 DEF Pending
<1>12. QED
  BY <1>11 DEF Goal

(* The other backends do a whole call at once.                             *)
LEMMA CallDone ==
    ASSUME NEW bk, NEW d, NEW gone, NEW s, Sound(bk, d, gone),
           Pending(bk, d, gone, s), s # <<>>, bk # "redis"
    PROVE  Progress(bk, d, ApplyAll(d, s), gone)
<1>1. ASSUME NEW c, s = <<c>>
      PROVE  ApplyAll(d, s) = Apply(d, c)
  BY <1>1 DEF ApplyAll
<1>2. ASSUME NEW b \in 0..MaxBlock, s = <<Add("block", b), Put("last", b)>>
      PROVE  Progress(bk, d, ApplyAll(d, s), gone)
  <2>1. ApplyAll(d, s) = Apply(Apply(d, Add("block", b)), Put("last", b))
    BY <1>2 DEF ApplyAll
  <2>2. QED
    BY <2>1 DEF Apply, Add, Put, Progress, Sound, Grows, DurableStep, Listed,
       Live, Store
<1>3. ASSUME NEW v \in Versions,
             \/ s = <<Add("share", v)>>
             \/ s = <<Add("poisoned", v)>> /\ v \in Listed(bk, d)
             \/ s = <<Put("active", v)>> /\ v \in Listed(bk, d)
             \/ s = <<Put("state", v)>>
             \/ s = <<Add("session", v)>>
             \/ s = <<Delete("session", v)>>
      PROVE  Progress(bk, d, ApplyAll(d, s), gone)
  BY <1>1, <1>3, CommandEffect
<1>4. ASSUME NEW b \in 0..MaxBlock,
             \/ s = <<Put("last", b)>> /\ b \in d.block \cup gone
             \/ s = <<Delete("block", b)>> /\ b \in gone
      PROVE  Progress(bk, d, ApplyAll(d, s), gone)
  BY <1>1, <1>4, CommandEffect
<1>5. CASE s = <<Put("schema", currentSchemaVersion)>>
  BY <1>1, <1>5, CommandEffect
<1>6. QED
  BY <1>2, <1>3, <1>4, <1>5
     DEF Pending, VersionCall, BlockCall, ShareWrite, SessionWrite, SessionDelete

-----------------------------------------------------------------------------
(* The calls of the persistence interface, as the backends give them.      *)
BackendTyped == backend \in {"badger", "redis", "memory"}

(* What the configured backend's reads return, in one form for all three.  *)
LEMMA Lists ==
    ASSUME BackendTyped
    PROVE  /\ ListKeyShareVersions = Listed(backend, db)
           /\ ListProtocolSessions = Live(backend, db)
           /\ GetActiveVersionTimestamp = db.active
           /\ ListPoisonedVersions = db.poisoned
           /\ LoadNodeState = db.state
           /\ GetLastProcessedBlockRecord = IF db.last \in db.block THEN db.last ELSE 0
           /\ \A b : GetBlockRecord(b) = IF b \in db.block THEN b ELSE 0
BY DEF BackendTyped, Listed, Live, ListKeyShareVersions, ListProtocolSessions,
   GetActiveVersionTimestamp, ListPoisonedVersions, LoadNodeState,
   GetLastProcessedBlockRecord, GetBlockRecord, Configured,
   Badger!ListKeyShareVersions, Redis!ListKeyShareVersions,
   Memory!ListKeyShareVersions, Badger!ListProtocolSessions,
   Redis!ListProtocolSessions, Memory!ListProtocolSessions,
   Badger!GetActiveVersionTimestamp, Redis!GetActiveVersionTimestamp,
   Memory!GetActiveVersionTimestamp, Badger!ListPoisonedVersions,
   Redis!ListPoisonedVersions, Memory!ListPoisonedVersions,
   Badger!LoadNodeState, Redis!LoadNodeState, Memory!LoadNodeState,
   Badger!GetLastProcessedBlockRecord, Redis!GetLastProcessedBlockRecord,
   Memory!GetLastProcessedBlockRecord, Badger!GetBlockRecord,
   Redis!GetBlockRecord, Memory!GetBlockRecord

(* What its writes to single records send.                                 *)
LEMMA Writes ==
    ASSUME BackendTyped
    PROVE  /\ \A v : AddPoisonedVersion(v) = <<Add("poisoned", v)>>
           /\ \A v : SetActiveVersionTimestamp(v) = <<Put("active", v)>>
           /\ \A v : SaveNodeState(v) = <<Put("state", v)>>
           /\ \A b : SaveBlockRecord(b) = <<Add("block", b), Put("last", b)>>
           /\ \A b : DeleteBlockRecord(b) = <<Delete("block", b)>>
BY DEF BackendTyped, AddPoisonedVersion, SetActiveVersionTimestamp,
   SaveNodeState, SaveBlockRecord, DeleteBlockRecord, Configured,
   Badger!AddPoisonedVersion, Redis!AddPoisonedVersion,
   Memory!AddPoisonedVersion, Badger!SetActiveVersionTimestamp,
   Redis!SetActiveVersionTimestamp, Memory!SetActiveVersionTimestamp,
   Badger!SaveNodeState, Redis!SaveNodeState, Memory!SaveNodeState,
   Badger!SaveBlockRecord, Redis!SaveBlockRecord, Memory!SaveBlockRecord,
   Badger!DeleteBlockRecord, Redis!DeleteBlockRecord,
   Memory!DeleteBlockRecord, Add, Put, Delete,
   Badger!Add, Redis!Add, Memory!Add, Badger!Put, Redis!Put, Memory!Put,
   Badger!Delete, Redis!Delete, Memory!Delete

(* What its writes to indexed records send.                                *)
LEMMA IndexedWrites ==
    ASSUME BackendTyped, NEW v
    PROVE  /\ SaveKeyShareVersion(v) = ShareWrite(backend, v)
           /\ SaveProtocolSession(v) = SessionWrite(backend, v)
           /\ DeleteProtocolSession(v) = SessionDelete(backend, v)
BY DEF BackendTyped, ShareWrite, SessionWrite, SessionDelete,
   SaveKeyShareVersion, SaveProtocolSession,
   DeleteProtocolSession, Configured,
   Badger!SaveKeyShareVersion, Redis!SaveKeyShareVersion,
   Memory!SaveKeyShareVersion, Badger!SaveProtocolSession,
   Redis!SaveProtocolSession, Memory!SaveProtocolSession,
   Badger!DeleteProtocolSession, Redis!DeleteProtocolSession,
   Memory!DeleteProtocolSession, Add, Put, Delete,
   Badger!Add, Redis!Add, Memory!Add, Badger!Put, Redis!Put, Memory!Put,
   Badger!Delete, Redis!Delete, Memory!Delete

-----------------------------------------------------------------------------
(***************************************************************************)
(* Control: where each goroutine can be. Only rounds and the poller are    *)
(* at work, and only once the node has started; no call is left over where *)
(* none was made; timestamps and blocks stay in range.                     *)
(***************************************************************************)
MainStages == {"down", "opened", "sweep", "up", "closing"}
PollerStages == {"idle", "block", "unblock"}
RoundStages == {"idle", "session", "running", "share", "pointer", "mark",
                "poison", "members", "listing", "rollback", "cleanup"}
Quiet == {"down", "up", "closing", "idle", "running", "members"}

PlaceInv ==
    /\ BackendTyped
    /\ at \in [Actors -> MainStages \cup PollerStages \cup RoundStages]
    /\ at["main"] \in MainStages
    /\ at["poller"] \in PollerStages
    /\ \A r \in Rounds : at[r] \in RoundStages
    /\ at["main"] \notin {"up", "closing"}
         => \A p \in Actors : p # "main" => at[p] = "idle"
    /\ todo = [p \in Actors |-> todo[p]]
    /\ \A p \in Actors : at[p] \in Quiet => todo[p] = <<>>

ShapeInv ==
    /\ ver = [p \in Actors |-> ver[p]]
    /\ src = [p \in Actors |-> src[p]]
    /\ seen = [p \in Actors |-> seen[p]]

ClockInv ==
    /\ clock \in Nat /\ rounds \in Nat /\ rounds <= MaxRounds
    /\ clock <= rounds + 1

StampInv == \A r \in Rounds : at[r] # "idle" => ver[r] \in 1..clock

HeightInv ==
    /\ height \in 0..MaxBlock
    /\ at["poller"] = "unblock" => height # 0
    /\ at["poller"] = "block" => height < MaxBlock

CountInv == ShapeInv /\ ClockInv /\ StampInv /\ HeightInv

(* Initially every actor is where it may be.                               *)
LEMMA InitPlace == Init => PlaceInv
BY BoundsAssumption DEF Init, PlaceInv, BackendTyped, MainStages,
   PollerStages, RoundStages, Actors

(* The outcomes of AfterError, as alternatives.                            *)
ErrorMoves(p) ==
    \/ at[p] = "session" /\ p \in Rounds /\ Call(p, "running", <<>>)
    \/ /\ at[p] \in {"share", "pointer", "mark", "members", "rollback"}
       /\ p \in Rounds /\ Cleanup(p)
    \/ at[p] \in {"poison", "listing"} /\ p \in Rounds /\ Call(p, at[p], <<>>)
    \/ at[p] = "sweep" /\ p = "main" /\ Call(p, "sweep", <<>>)
    \/ at[p] = "cleanup" /\ p \in Rounds /\ Call(p, "idle", <<>>)
    \/ at[p] \in {"block", "unblock"} /\ p = "poller" /\ Call(p, "idle", <<>>)
    \/ at[p] = "opened" /\ p = "main" /\ Call(p, "down", <<>>)

(* Where a failed call leaves the actor that made it.                      *)
LEMMA AfterErrorMoves ==
    ASSUME PlaceInv, NEW p \in Actors, at[p] \in Calls, AfterError(p)
    PROVE  ErrorMoves(p)
<1>1. p \in Rounds \/ p = "main" \/ p = "poller"
  BY DEF Actors
<1>2. CASE p \in Rounds
  <2>1. at[p] \in RoundStages
    BY <1>2 DEF PlaceInv
  <2>2. QED
    BY <1>2, <2>1 DEF AfterError, ErrorMoves, Calls, RoundStages
<1>3. CASE p = "main"
  <2>1. at[p] \in MainStages
    BY <1>3 DEF PlaceInv
  <2>2. QED
    BY <1>3, <2>1 DEF AfterError, ErrorMoves, Calls, MainStages
<1>4. CASE p = "poller"
  <2>1. at[p] \in PollerStages
    BY <1>4 DEF PlaceInv
  <2>2. QED
    BY <1>4, <2>1 DEF AfterError, ErrorMoves, Calls, PollerStages
<1>5. QED
  BY <1>1, <1>2, <1>3, <1>4

(* A call that a goroutine may make next.                                  *)
Legal(p, stage, s) ==
    /\ p \in Rounds => stage \in RoundStages
    /\ p = "poller" => stage \in PollerStages
    /\ p = "main" => stage \in MainStages
    /\ p # "main" => at["main"] \in {"up", "closing"}
    /\ p = "main" /\ stage \notin {"up", "closing"}
         => at["main"] \notin {"up", "closing"}
    /\ stage \in Quiet => s = <<>>

(* A legal call leaves every actor where it may be.                        *)
LEMMA CallKeepsPlace ==
    ASSUME PlaceInv, NEW p \in Actors, NEW stage, NEW s, Call(p, stage, s),
           Legal(p, stage, s), backend' = backend
    PROVE  PlaceInv'
BY BoundsAssumption DEF PlaceInv, Legal, Call, Actors, BackendTyped

(* The calls a round makes are legal.                                      *)
LEMMA RoundIsLegal ==
    ASSUME PlaceInv, NEW r \in Rounds, Round(r)
    PROVE  \E stage, s : Call(r, stage, s) /\ Legal(r, stage, s)
<1> DEFINE Goal == \E stage, s : Call(r, stage, s) /\ Legal(r, stage, s)
<1>a. r \in Actors /\ r # "main" /\ r # "poller"
  BY BoundsAssumption DEF Actors
<1>b. at[r] # "idle" => at["main"] \in {"up", "closing"}
  BY <1>a DEF PlaceInv
<1> SUFFICES Goal
  OBVIOUS
<1> USE <1>a, <1>b DEF Legal, RoundStages, Quiet, Cleanup, Returned, Up
<1>1. CASE StartRound(r)
  BY <1>1 DEF StartRound
<1>2. CASE SessionSaved(r) \/ SavePhase(r) \/ AbortRound(r) \/ SaveVersion(r)
  BY <1>2 DEF SessionSaved, SavePhase, AbortRound, SaveVersion
<1>3. CASE MovePointer(r)
  BY <1>3 DEF MovePointer
<1>4. CASE AddVersion(r)
  BY <1>4 DEF AddVersion
<1>5. CASE MarkPoisoned(r)
  BY <1>5 DEF MarkPoisoned
<1>6. CASE BeginList(r)
  BY <1>6 DEF BeginList
<1>7. CASE FetchRecords(r)
  BY <1>7 DEF FetchRecords
<1>8. CASE RollBack(r)
  BY <1>8 DEF RollBack
<1>9. CASE FinishRound(r) \/ SessionDeleted(r)
  BY <1>9 DEF FinishRound, SessionDeleted
<1>10. QED
  BY <1>1, <1>2, <1>3, <1>4, <1>5, <1>6, <1>7, <1>8, <1>9 DEF Round

(* So is what follows an error, or a call that is refused.                 *)
LEMMA ErrorIsLegal ==
    ASSUME PlaceInv, NEW p \in Actors, at[p] \in Calls,
           ErrorMoves(p) \/ (at[p] = "poison" /\ Cleanup(p))
    PROVE  \E stage, s : Call(p, stage, s) /\ Legal(p, stage, s)
<1> DEFINE Goal == \E stage, s : Call(p, stage, s) /\ Legal(p, stage, s)
<1>a. p \in Rounds \/ p = "main" \/ p = "poller"
  BY DEF Actors
<1>b. p # "main" => at["main"] \in {"up", "closing"}
  BY DEF PlaceInv, Calls
<1>c. p \in Rounds => p # "main" /\ p # "poller"
  BY BoundsAssumption
<1> SUFFICES Goal
  OBVIOUS
<1> USE <1>b, <1>c DEF Legal
<1>1. CASE at[p] = "session" /\ p \in Rounds /\ Call(p, "running", <<>>)
  BY <1>1 DEF RoundStages, Quiet
<1>2. CASE p \in Rounds /\ Cleanup(p)
  BY <1>2 DEF Cleanup, RoundStages, Quiet
<1>3. CASE at[p] \in {"poison", "listing"} /\ p \in Rounds /\ Call(p, at[p], <<>>)
  BY <1>3 DEF RoundStages, Quiet
<1>4. CASE at[p] = "sweep" /\ p = "main" /\ Call(p, "sweep", <<>>)
  BY <1>4 DEF MainStages, Quiet
<1>5. CASE at[p] = "cleanup" /\ p \in Rounds /\ Call(p, "idle", <<>>)
  BY <1>5 DEF RoundStages, Quiet
<1>6. CASE at[p] \in {"block", "unblock"} /\ p = "poller" /\ Call(p, "idle", <<>>)
  BY <1>6 DEF PollerStages, Quiet
<1>7. CASE at[p] = "opened" /\ p = "main" /\ Call(p, "down", <<>>)
  BY <1>7 DEF MainStages, Quiet
<1>8. at[p] = "poison" => p \in Rounds
  BY <1>a DEF PlaceInv, MainStages, PollerStages
<1>9. QED
  BY <1>1, <1>2, <1>3, <1>4, <1>5, <1>6, <1>7, <1>8 DEF ErrorMoves

(* Every step preserves PlaceInv.                                          *)
LEMMA PlaceStep == PlaceInv /\ [Next]_vars => PlaceInv'
<1> SUFFICES ASSUME PlaceInv, [Next]_vars PROVE PlaceInv'
  OBVIOUS
<1>1. ASSUME NEW r \in Rounds, Round(r)
      PROVE  PlaceInv'
  <2>1. backend' = backend
    BY <1>1 DEF Round, StartRound, SessionSaved, SavePhase, AbortRound,
       SaveVersion, MovePointer, AddVersion, MarkPoisoned, BeginList,
       FetchRecords, RollBack, FinishRound, SessionDeleted
  <2>2. PICK stage, s : Call(r, stage, s) /\ Legal(r, stage, s)
    BY <1>1, RoundIsLegal
  <2>3. QED
    BY <2>1, <2>2, CallKeepsPlace DEF Actors
<1>2. ASSUME NEW p \in Actors, Execute(p)
      PROVE  PlaceInv'
  BY <1>2, BoundsAssumption DEF Execute, PlaceInv, BackendTyped, MainStages,
     PollerStages, RoundStages, Actors, Quiet
<1>3. ASSUME NEW p \in Actors, StoreError(p)
      PROVE  PlaceInv'
  <2>1. ErrorMoves(p) /\ backend' = backend /\ at[p] \in Calls
    BY <1>3, AfterErrorMoves DEF StoreError
  <2>2. QED
    BY <2>1, ErrorIsLegal, CallKeepsPlace
<1>4. ASSUME NEW p \in Actors, RefusedCall(p)
      PROVE  PlaceInv'
  <2>1. backend' = backend /\ at[p] \in Calls
    BY <1>4 DEF RefusedCall
  <2>2. ErrorMoves(p) \/ (at[p] = "poison" /\ Cleanup(p))
    BY <1>4, <2>1, AfterErrorMoves DEF RefusedCall
  <2>3. QED
    BY <2>1, <2>2, ErrorIsLegal, CallKeepsPlace
<1> USE BoundsAssumption DEF PlaceInv, MainStages, PollerStages, RoundStages,
        Actors, Quiet, Call
<1>5. CASE SaveBlock \/ BlockSaved \/ DeleteBlock \/ BlockDeleted
  BY <1>5 DEF SaveBlock, BlockSaved, DeleteBlock, BlockDeleted, Up, Returned,
     BackendTyped
<1>6. CASE ExecuteLate
  BY <1>6 DEF ExecuteLate, BackendTyped
<1>7. CASE Close
  BY <1>7 DEF Close, Up, BackendTyped
<1>8. CASE Crash
  BY <1>8 DEF Crash, BackendTyped
<1>9. CASE OpenStore \/ RestoreState \/ SweepSession \/ Start
  BY <1>9 DEF OpenStore, RestoreState, SweepSession, Start, Returned,
     BackendTyped
<1>10. CASE UNCHANGED vars
  BY <1>10 DEF vars, BackendTyped
<1>11. QED
  BY <1>1, <1>2, <1>3, <1>4, <1>5, <1>6, <1>7, <1>8, <1>9, <1>10 DEF Next

(* What a round's step other than its first leaves alone.                  *)
LEMMA RoundFrame ==
    ASSUME PlaceInv, CountInv, NEW r \in Rounds, Round(r), ~StartRound(r)
    PROVE  /\ at[r] # "idle"
           /\ UNCHANGED <<backend, db, late, ver, src, height, clock, bounds,
                          history>>
           /\ \A q \in Actors : q # r => /\ at'[q] = at[q]
                                       /\ todo'[q] = todo[q]
                                       /\ seen'[q] = seen[q]
           /\ seen' = [p \in Actors |-> seen'[p]]
<1> DEFINE Frame == /\ at[r] # "idle"
                    /\ UNCHANGED <<backend, db, late, ver, src, height, clock,
                                   bounds, history>>
                    /\ \A q \in Actors : q # r => /\ at'[q] = at[q]
                                                /\ todo'[q] = todo[q]
                                                /\ seen'[q] = seen[q]
                    /\ seen' = [p \in Actors |-> seen'[p]]
<1>a. /\ r \in Actors
      /\ seen = [p \in Actors |-> seen[p]]
      /\ at = [p \in Actors |-> at[p]] /\ todo = [p \in Actors |-> todo[p]]
  BY DEF PlaceInv, CountInv, ShapeInv, Actors
<1> SUFFICES Frame
  OBVIOUS
<1> USE <1>a DEF Call, Cleanup, Returned, roundVars
<1>1. CASE SessionSaved(r) \/ SavePhase(r) \/ AbortRound(r) \/ SaveVersion(r)
  BY <1>1 DEF SessionSaved, SavePhase, AbortRound, SaveVersion
<1>2. CASE MovePointer(r) \/ FinishRound(r) \/ SessionDeleted(r)
  BY <1>2 DEF MovePointer, FinishRound, SessionDeleted
<1>3. CASE AddVersion(r)
  BY <1>3 DEF AddVersion
<1>4. CASE MarkPoisoned(r)
  BY <1>4 DEF MarkPoisoned
<1>5. CASE BeginList(r)
  BY <1>5 DEF BeginList
<1>6. CASE FetchRecords(r)
  BY <1>6 DEF FetchRecords
<1>7. CASE RollBack(r)
  BY <1>7 DEF RollBack
<1>8. QED
  BY <1>1, <1>2, <1>3, <1>4, <1>5, <1>6, <1>7 DEF Round

(* What an error leaves alone, and where it may lead.                      *)
LEMMA ErrorFrame ==
    ASSUME PlaceInv, NEW p \in Actors, StoreError(p) \/ RefusedCall(p)
    PROVE  /\ ErrorMoves(p) \/ (at[p] = "poison" /\ p \in Rounds /\ Cleanup(p))
           /\ UNCHANGED <<backend, db, ver, src, seen, keystore, height, clock,
                          rounds, overlapped, reorged>>
           /\ late' \in {late, <<>>, todo[p]} /\ (backend # "redis" => late' = late)
           /\ StoreError(p) => failed'
           /\ RefusedCall(p) => Closed /\ UNCHANGED <<failed, late>>
<1>1. CASE StoreError(p)
  <2>1. ErrorMoves(p)
    BY <1>1, AfterErrorMoves DEF StoreError
  <2>2. /\ UNCHANGED <<backend, db, ver, src, seen, keystore, height, clock,
                       rounds, overlapped, reorged>>
        /\ late' \in {late, <<>>, todo[p]} /\ (backend # "redis" => late' = late)
        /\ failed' /\ ~Closed
    BY <1>1 DEF StoreError, roundVars
  <2>3. QED
    BY <2>1, <2>2 DEF RefusedCall
<1>2. CASE RefusedCall(p)
  <2>1. at[p] = "poison" => p \in Rounds
    BY DEF PlaceInv, MainStages, PollerStages, Actors
  <2>2. ErrorMoves(p) \/ (at[p] = "poison" /\ p \in Rounds /\ Cleanup(p))
    BY <1>2, <2>1, AfterErrorMoves DEF RefusedCall
  <2>3. /\ UNCHANGED <<backend, db, late, ver, src, seen, keystore, height,
                       clock, rounds, overlapped, failed, reorged>>
        /\ Closed
    BY <1>2 DEF RefusedCall, roundVars, history, bounds
  <2>4. QED
    BY <2>2, <2>3 DEF StoreError
<1>3. QED
  BY <1>1, <1>2

(* Initially the counters are within their bounds.                         *)
LEMMA InitCount == Init => CountInv
BY BoundsAssumption DEF Init, CountInv, ShapeInv, ClockInv, StampInv, HeightInv,
   Actors

(* Every step preserves CountInv.                                          *)
LEMMA CountStep ==
    /\ PlaceInv /\ CountInv /\ Sound(backend, db, reorged)
    /\ [Next]_vars
    => CountInv'
<1> SUFFICES ASSUME PlaceInv, CountInv, Sound(backend, db, reorged), [Next]_vars
             PROVE  CountInv'
  OBVIOUS
<1>a. at = [p \in Actors |-> at[p]]
  BY DEF PlaceInv
<1>b. \A r \in Rounds : r \in Actors /\ r # "main" /\ r # "poller"
  BY BoundsAssumption DEF Actors
<1>c. "main" \in Actors /\ "poller" \in Actors
  BY DEF Actors
<1>d. ShapeInv /\ ClockInv /\ StampInv /\ HeightInv
  BY DEF CountInv
<1>e. \A n \in Nat : \A m \in 1..n : m \in 1..(n + 1)
  OBVIOUS
<1> USE <1>a, <1>b, <1>c, <1>d
(* A step that leaves the counters alone.                                  *)
<1>f. ASSUME UNCHANGED <<ver, src, clock, rounds, height>>,
             seen' = [p \in Actors |-> seen'[p]],
             \A r \in Rounds : at[r] = "idle" => at'[r] = "idle",
             at'["poller"] \in {at["poller"], "idle"}
      PROVE  CountInv'
  <2>1. ShapeInv' /\ ClockInv'
    BY <1>f DEF ShapeInv, ClockInv
  <2>2. StampInv'
    BY <1>f DEF StampInv
  <2>3. HeightInv'
    BY <1>f DEF HeightInv
  <2>4. QED
    BY <2>1, <2>2, <2>3 DEF CountInv
<1>1. ASSUME NEW r \in Rounds, StartRound(r)
      PROVE  CountInv'
  <2>1. /\ at' = [at EXCEPT ![r] = "session"] /\ rounds < MaxRounds
        /\ rounds' = rounds + 1 /\ clock' = clock + 1
        /\ ver' = [ver EXCEPT ![r] = clock + 1]
        /\ src' = [src EXCEPT ![r] = keystore.active]
        /\ UNCHANGED <<seen, height>>
    BY <1>1 DEF StartRound, Call
  <2>2. ShapeInv'
    BY <2>1 DEF ShapeInv
  <2>3. ClockInv'
    BY <2>1, BoundsAssumption DEF ClockInv
  <2>4. HeightInv'
    BY <2>1 DEF HeightInv
  <2>5. clock' \in 1..clock' /\ clock \in Nat
    BY <2>1 DEF ClockInv
  <2>6. ver'[r] = clock' /\ \A q \in Rounds : q # r => ver'[q] = ver[q]
    BY <2>1 DEF ShapeInv
  <2>7. \A q \in Rounds : q # r => at'[q] = at[q]
    BY <2>1
  <2>8. StampInv'
    <3> SUFFICES ASSUME NEW q \in Rounds, at'[q] # "idle"
                 PROVE  ver'[q] \in 1..clock'
      BY DEF StampInv
    <3>1. CASE q = r
      BY <3>1, <2>5, <2>6
    <3>2. CASE q # r
      <4>1. ver[q] \in 1..clock
        BY <3>2, <2>7 DEF StampInv
      <4>2. ver[q] \in 1..(clock + 1)
        BY <4>1, <2>5, <1>e
      <4>3. QED
        BY <4>2, <3>2, <2>1, <2>6
    <3>3. QED
      BY <3>1, <3>2
  <2>9. QED
    BY <2>2, <2>3, <2>4, <2>8 DEF CountInv
<1>2. ASSUME NEW r \in Rounds, Round(r), ~StartRound(r)
      PROVE  CountInv'
  <2>1. /\ at[r] # "idle"
        /\ UNCHANGED <<ver, src, height, clock, rounds>>
        /\ \A q \in Actors : q # r => at'[q] = at[q]
        /\ seen' = [p \in Actors |-> seen'[p]]
    BY <1>2, RoundFrame DEF bounds
  <2>2. QED
    BY <2>1, <1>f
<1>3. ASSUME NEW p \in Actors, Execute(p)
      PROVE  CountInv'
  BY <1>3, <1>f DEF Execute, roundVars, bounds, ShapeInv
<1>4. ASSUME NEW p \in Actors, StoreError(p) \/ RefusedCall(p)
      PROVE  CountInv'
  <2>1. ErrorMoves(p) \/ (at[p] = "poison" /\ p \in Rounds /\ Cleanup(p))
    BY <1>4, ErrorFrame
  <2>2. UNCHANGED <<ver, src, seen, height, clock, rounds>>
    BY <1>4, ErrorFrame
  <2>3. \A q \in Actors : at'[q] \in {at[q], "idle"} \/ at[q] # "idle"
    BY <2>1 DEF ErrorMoves, Cleanup, Call
  <2>4. at'["poller"] \in {at["poller"], "idle"}
    BY <2>1 DEF ErrorMoves, Cleanup, Call
  <2>5. QED
    BY <2>2, <2>3, <2>4, <1>f DEF ShapeInv
<1>5. ASSUME SaveBlock \/ BlockSaved \/ DeleteBlock \/ BlockDeleted
      PROVE  CountInv'
  <2>1. /\ UNCHANGED <<ver, src, seen, clock, rounds>>
        /\ \A q \in Rounds : at'[q] = at[q]
    BY <1>5 DEF SaveBlock, BlockSaved, DeleteBlock, BlockDeleted, Call,
       roundVars, bounds
  <2>2. ShapeInv' /\ ClockInv' /\ StampInv'
    BY <2>1 DEF ShapeInv, ClockInv, StampInv
  <2>3. GetBlockRecord(0) = 0
    BY Lists DEF PlaceInv
  <2>4. \/ at'["poller"] = "block" /\ height < MaxBlock /\ height' = height
        \/ at'["poller"] = "unblock" /\ height # 0 /\ height' = height
        \/ /\ at'["poller"] = "idle"
           /\ \/ at["poller"] = "block" /\ height' = height + 1
              \/ at["poller"] = "unblock" /\ height' = height - 1
    BY <1>5, <2>3 DEF SaveBlock, BlockSaved, DeleteBlock, BlockDeleted, Call,
       Returned
  <2>5. HeightInv'
    BY <2>4, BoundsAssumption DEF HeightInv
  <2>6. QED
    BY <2>2, <2>5 DEF CountInv
<1>6. CASE ExecuteLate \/ Close
  BY <1>6, <1>f DEF ExecuteLate, Close, roundVars, bounds, ShapeInv
<1>7. CASE Crash
  <2>1. /\ UNCHANGED <<clock, rounds>> /\ height' = 0
        /\ at' = [p \in Actors |-> IF p = "main" THEN "down" ELSE "idle"]
        /\ ver' = [p \in Actors |-> 0] /\ src' = [p \in Actors |-> 0]
        /\ seen' = [p \in Actors |-> {}]
    BY <1>7 DEF Crash
  <2>2. QED
    BY <2>1, BoundsAssumption
       DEF CountInv, ShapeInv, ClockInv, StampInv, HeightInv
<1>8. CASE OpenStore \/ SweepSession \/ Start
  <2>1. UNCHANGED <<ver, src, clock, rounds, height>>
    BY <1>8 DEF OpenStore, SweepSession, Start, roundVars, bounds
  <2>2. seen' = [p \in Actors |-> seen'[p]]
    BY <1>8 DEF OpenStore, SweepSession, Start, roundVars, ShapeInv
  <2>3. \A q \in Actors : q # "main" => at'[q] = at[q]
    BY <1>8 DEF OpenStore, SweepSession, Start, Call
  <2>4. QED
    BY <2>1, <2>2, <2>3, <1>f
<1>9. CASE RestoreState
  <2>1. /\ UNCHANGED <<ver, src, clock, rounds>>
        /\ seen' = [seen EXCEPT !["main"] = ListProtocolSessions]
        /\ at' = [at EXCEPT !["main"] = "sweep"]
        /\ height' = GetLastProcessedBlockRecord
        /\ at["main"] = "opened"
    BY <1>9 DEF RestoreState, Call, Returned
  <2>2. ShapeInv' /\ ClockInv' /\ StampInv'
    BY <2>1 DEF ShapeInv, ClockInv, StampInv
  <2>3. GetLastProcessedBlockRecord \in 0..MaxBlock
    BY Lists, BoundsAssumption DEF PlaceInv, Sound, Store
  <2>4. at["poller"] = "idle"
    BY <2>1 DEF PlaceInv
  <2>5. HeightInv'
    BY <2>1, <2>3, <2>4 DEF HeightInv
  <2>6. QED
    BY <2>2, <2>5 DEF CountInv
<1>10. CASE UNCHANGED vars
  BY <1>10, <1>f DEF vars, roundVars, bounds, ShapeInv
<1>11. QED
  BY <1>1, <1>2, <1>3, <1>4, <1>5, <1>6, <1>7, <1>8, <1>9, <1>10 DEF Next

-----------------------------------------------------------------------------
(* Two facts about the operators of the library the model uses.            *)

(* A non-empty set of versions has a newest one.                           *)
LEMMA Newest ==
    ASSUME NEW N \in Nat, NEW S, S \subseteq 1..N, S # {}
    PROVE  Max(S) \in S /\ \A v \in S : Max(S) >= v
<1> DEFINE R == OpToRel(<, Nat)
           T == {N - x : x \in S}
<1>1. \A x \in S : N - x \in Nat
  OBVIOUS
<1>2. T \subseteq Nat /\ T # {}
  BY <1>1, Zenon
<1>3. PICK m \in T : \A y \in T : ~ (<<y, m>> \in R)
  <2>1. IsWellFoundedOn(R, Nat)
    BY NatLessThanWellFounded
  <2> HIDE DEF R, T
  <2>2. QED
    BY <1>2, <2>1, WFMin
<1>4. \A a, b \in Nat : a < b => <<a, b>> \in R
  BY DEF OpToRel
<1>5. PICK x \in S : m = N - x
  OBVIOUS
<1>6. ASSUME NEW y \in S
      PROVE  x >= y
  <2>1. N - y \in T /\ N - y \in Nat /\ m \in Nat
    BY <1>1, <1>2
  <2>2. ~(N - y < m)
    BY <2>1, <1>3, <1>4
  <2>3. QED
    BY <2>2, <1>5
<1>7. QED
  BY <1>6 DEF Max

(* An empty set of records needs no commands.                              *)
LEMMA NothingToSend == SetToSeq({}) = <<>>
<1>1. 1..Cardinality({}) = {}
  BY FS_EmptySet
<1>2. SetToSeq({}) = CHOOSE f \in [{} -> {}] : IsInjective(f)
  BY <1>1 DEF SetToSeq
<1>3. <<>> \in [{} -> {}] /\ \A f \in [{} -> {}] : f = <<>>
  OBVIOUS
<1>4. IsInjective(<<>>)
  BY DEF IsInjective
<1>5. QED
  BY <1>2, <1>3, <1>4

-----------------------------------------------------------------------------
(***************************************************************************)
(* The invariant. Everything that is still to be done (a call under way,   *)
(* or what a failed call may yet do) is harmless to what the store lists   *)
(* now; a round's version is listed once its share is saved; and the       *)
(* keystore holds listed versions only.                                    *)
(***************************************************************************)
StoreInv == Sound(backend, db, reorged)

WorkInv ==
    /\ \A p \in Actors : Pending(backend, db, reorged, todo[p])
    /\ Pending(backend, db, reorged, late)
    /\ backend # "redis" => late = <<>>

RoundOK(r) ==
    /\ src[r] \in Listed(backend, db) \cup {0}
    /\ at[r] = "share" => \/ todo[r] = ShareWrite(backend, ver[r])
                          \/ /\ todo[r] = <<Add("shareIndex", ver[r])>>
                             /\ ver[r] \in db.share
                          \/ todo[r] = <<>> /\ ver[r] \in Listed(backend, db)
    /\ at[r] = "pointer" => ver[r] \in Listed(backend, db)
    /\ at[r] = "members" => seen[r] \subseteq db.share /\ backend = "redis"

RoundInv == \A r \in Rounds : RoundOK(r)

KeyInv ==
    /\ keystore \in [held : SUBSET Versions, active : Versions \cup {0},
                      poisoned : SUBSET Versions]
    /\ keystore.held \subseteq Listed(backend, db)
    /\ keystore.active \in keystore.held \cup {0}
    /\ at["main"] \in {"down", "opened"} => keystore = NoKeys
    /\ seen["main"] \subseteq Versions

Core == PlaceInv /\ CountInv /\ StoreInv /\ WorkInv /\ RoundInv /\ KeyInv

(* What is listed is a version.                                            *)
LEMMA ListedVersions == StoreInv => Listed(backend, db) \subseteq Versions
BY DEF StoreInv, Sound, Store, Listed

(* A round at work has the time stamp of a version.                        *)
LEMMA StampIsVersion ==
    ASSUME Core, NEW r \in Rounds, at[r] # "idle"
    PROVE  ver[r] \in Versions
<1>1. ver[r] \in 1..clock /\ clock \in Nat /\ clock <= MaxRounds + 1
  BY BoundsAssumption DEF Core, CountInv, StampInv, ClockInv
<1>2. QED
  BY <1>1, BoundsAssumption DEF Versions

(* The initial states satisfy Core.                                        *)
LEMMA InitCore == Init => Core
<1> SUFFICES ASSUME Init PROVE Core
  OBVIOUS
<1>1. PlaceInv /\ CountInv
  BY InitPlace, InitCount
<1>2. db = EmptyStore \/ (db = UsedStore /\ backend # "memory")
  BY DEF Init
<1>3. 1 \in Versions
  BY BoundsAssumption DEF Versions
<1>4. StoreInv
  <2>1. CASE db = EmptyStore
    BY <2>1, BoundsAssumption
       DEF StoreInv, Sound, Store, Listed, EmptyStore
  <2>2. CASE db = UsedStore
    <3> DEFINE index == IF backend = "redis" THEN {1} ELSE {}
    <3>1. UsedStore = [schema |-> currentSchemaVersion, share |-> {1},
                       shareIndex |-> index,
                       active |-> 1, poisoned |-> {}, state |-> 0,
                       session |-> {}, sessionIndex |-> {}, block |-> {},
                       last |-> 0]
      <4>1. UsedStore = [EmptyStore EXCEPT !.schema = currentSchemaVersion,
                                           !.share = {1}, !.active = 1,
                                           !.shareIndex = index]
        BY DEF UsedStore
      <4> HIDE DEF index
      <4>2. QED
        BY <4>1 DEF EmptyStore
    <3>2. {1} \subseteq Versions /\ {} \subseteq Versions /\ 0 \in 0..MaxBlock
      BY <1>3, BoundsAssumption
    <3>3. CASE backend = "redis"
      BY <2>2, <3>1, <3>2, <3>3, <1>3 DEF StoreInv, Sound, Store, Listed
    <3>4. CASE backend # "redis"
      BY <2>2, <3>1, <3>2, <3>4, <1>3 DEF StoreInv, Sound, Store, Listed
    <3>5. QED
      BY <3>3, <3>4
  <2>3. QED
    BY <1>2, <2>1, <2>2
<1>5. WorkInv
  BY DEF Init, WorkInv, Pending
<1>6. RoundInv
  BY BoundsAssumption DEF Init, RoundInv, RoundOK, Actors
<1>7. KeyInv
  BY DEF Init, KeyInv, NoKeys, Actors
<1>8. QED
  BY <1>1, <1>4, <1>5, <1>6, <1>7 DEF Core

(* Calls a goroutine can make, given what it knows to be listed.           *)
LEMMA MayCall ==
    /\ Pending(backend, db, reorged, <<>>)
    /\ \A v \in Versions :
         /\ Pending(backend, db, reorged, ShareWrite(backend, v))
         /\ Pending(backend, db, reorged, SessionWrite(backend, v))
         /\ Pending(backend, db, reorged, SessionDelete(backend, v))
         /\ Pending(backend, db, reorged, <<Put("state", v)>>)
         /\ v \in Listed(backend, db) =>
              /\ Pending(backend, db, reorged, <<Put("active", v)>>)
              /\ Pending(backend, db, reorged, <<Add("poisoned", v)>>)
    /\ \A b \in 0..MaxBlock :
         Pending(backend, db, reorged, <<Add("block", b), Put("last", b)>>)
BY DEF Pending, VersionCall, BlockCall

(* A round's own step.                                                     *)
LEMMA RoundKeeps ==
    ASSUME Core, NEW r \in Rounds, Round(r)
    PROVE  /\ Pending(backend, db, reorged, todo'[r])
           /\ RoundOK(r)' /\ KeyInv'
<1> DEFINE Goal == Pending(backend, db, reorged, todo'[r]) /\ RoundOK(r)' /\ KeyInv'
           L == Listed(backend, db)
<1>a. /\ r \in Actors /\ r # "main" /\ "main" \in Actors
      /\ at = [p \in Actors |-> at[p]] /\ todo = [p \in Actors |-> todo[p]]
      /\ seen = [p \in Actors |-> seen[p]]
      /\ src = [p \in Actors |-> src[p]] /\ ver = [p \in Actors |-> ver[p]]
  BY BoundsAssumption DEF Core, PlaceInv, CountInv, ShapeInv, Actors
<1>b. BackendTyped
  BY DEF Core, PlaceInv
<1>c. /\ L \subseteq Versions /\ RoundOK(r) /\ KeyInv
      /\ at[r] # "idle" => ver[r] \in Versions
  BY ListedVersions, StampIsVersion DEF Core, RoundInv
(* The keystore stays as it is.                                            *)
<1>d. ASSUME UNCHANGED <<backend, db, keystore>>, at'["main"] = at["main"],
             seen'["main"] = seen["main"]
      PROVE  KeyInv'
  BY <1>c, <1>d DEF KeyInv
(* A place where nothing is owed.                                          *)
<1>e. ASSUME UNCHANGED <<backend, db>>, src'[r] \in L \cup {0},
             at'[r] \notin {"share", "pointer", "members"}
      PROVE  RoundOK(r)'
  BY <1>e DEF RoundOK
<1> SUFFICES Goal
  OBVIOUS
<1> HIDE DEF L
<1>1. CASE StartRound(r)
  <2>1. /\ at' = [at EXCEPT ![r] = "session"]
        /\ todo' = [todo EXCEPT ![r] = SessionWrite(backend, clock + 1)]
        /\ src' = [src EXCEPT ![r] = keystore.active]
        /\ UNCHANGED <<backend, db, keystore, seen>> /\ rounds < MaxRounds
    BY <1>1, <1>b, IndexedWrites DEF StartRound, Call
  <2>2. clock + 1 \in Versions
    BY <2>1, BoundsAssumption DEF Core, CountInv, ClockInv, Versions
  <2>3. keystore.active \in L \cup {0}
    BY <1>c DEF KeyInv, L
  <2>4. QED
    BY <1>a, <1>d, <1>e, <2>1, <2>2, <2>3, MayCall
<1>f. ASSUME ~StartRound(r)
      PROVE  /\ at[r] # "idle" /\ ver[r] \in Versions
             /\ UNCHANGED <<backend, db, ver, src>>
             /\ at'["main"] = at["main"] /\ seen'["main"] = seen["main"]
             /\ src'[r] \in L \cup {0} /\ src[r] \in L \cup {0}
  <2>1. PlaceInv /\ CountInv
    BY DEF Core
  <2>2. /\ at[r] # "idle" /\ UNCHANGED <<backend, db, ver, src>>
        /\ at'["main"] = at["main"] /\ seen'["main"] = seen["main"]
    BY <1>a, <1>f, <2>1, RoundFrame
  <2>3. QED
    BY <2>2, <1>c DEF RoundOK, L
<1>g. ASSUME Cleanup(r), ~StartRound(r), UNCHANGED keystore
      PROVE  Goal
  <2>1. todo'[r] = SessionDelete(backend, ver[r]) /\ at'[r] = "cleanup"
    BY <1>a, <1>b, <1>g, IndexedWrites DEF Cleanup, Call
  <2>2. QED
    BY <1>g, <1>d, <1>e, <1>f, <2>1, MayCall
<1>2. CASE SessionSaved(r) /\ ~StartRound(r)
  <2>1. todo'[r] = <<>> /\ at'[r] = "running" /\ UNCHANGED keystore
    BY <1>2, <1>a DEF SessionSaved, Call
  <2>2. QED
    BY <2>1, <1>2, <1>d, <1>e, <1>f, MayCall
<1>3. CASE SavePhase(r) /\ ~StartRound(r)
  <2>1. /\ todo'[r] = SessionWrite(backend, ver[r]) /\ at'[r] = "session"
        /\ UNCHANGED keystore
    BY <1>3, <1>a, <1>b, IndexedWrites DEF SavePhase, Call
  <2>2. QED
    BY <2>1, <1>3, <1>d, <1>e, <1>f, MayCall
<1>4. CASE (AbortRound(r) \/ FinishRound(r)) /\ ~StartRound(r)
  BY <1>4, <1>g DEF AbortRound, FinishRound
<1>5. CASE SaveVersion(r) /\ ~StartRound(r)
  <2>1. /\ todo'[r] = ShareWrite(backend, ver[r]) /\ at'[r] = "share"
        /\ UNCHANGED keystore
    BY <1>5, <1>a, <1>b, IndexedWrites DEF SaveVersion, Call
  <2>2. Pending(backend, db, reorged, todo'[r]) /\ KeyInv'
    BY <2>1, <1>5, <1>d, <1>f, MayCall
  <2>3. RoundOK(r)'
    BY <2>1, <1>5, <1>f DEF RoundOK, L
  <2>4. QED
    BY <2>2, <2>3
<1>6. CASE MovePointer(r) /\ ~StartRound(r)
  <2>1. /\ at[r] = "share" /\ todo[r] = <<>>
        /\ todo'[r] = <<Put("active", ver[r])>> /\ at'[r] = "pointer"
        /\ UNCHANGED keystore
    BY <1>6, <1>a, <1>b, Writes DEF MovePointer, Call, Returned
  <2>2. ver[r] \in L
    <3>1. ShareWrite(backend, ver[r]) # <<>>
      BY DEF ShareWrite
    <3>2. QED
      BY <2>1, <3>1, <1>c DEF RoundOK, L
  <2>3. Pending(backend, db, reorged, todo'[r]) /\ KeyInv'
    BY <2>1, <2>2, <1>6, <1>d, <1>f, MayCall DEF L
  <2>4. RoundOK(r)'
    BY <2>1, <2>2, <1>6, <1>f DEF RoundOK, L
  <2>5. QED
    BY <2>3, <2>4
<1>7. CASE AddVersion(r) /\ ~StartRound(r)
  <2>1. /\ at[r] = "pointer"
        /\ keystore' = [keystore EXCEPT !.held = @ \cup {ver[r]},
                                        !.active = ver[r]]
    BY <1>7 DEF AddVersion, Returned
  <2>2. ver[r] \in L
    BY <2>1, <1>c DEF RoundOK, L
  <2>3. at["main"] \notin {"down", "opened"}
    BY <2>1, <1>a DEF Core, PlaceInv
  <2>4. KeyInv'
    BY <2>1, <2>2, <2>3, <1>7, <1>c, <1>f DEF KeyInv, L
  <2>5. \/ src[r] # 0 /\ todo'[r] = <<Put("state", src[r])>> /\ at'[r] = "mark"
        \/ todo'[r] = SessionDelete(backend, ver[r]) /\ at'[r] = "cleanup"
    BY <1>7, <1>a, <1>b, Writes, IndexedWrites DEF AddVersion, Call, Cleanup
  <2>6. src[r] # 0 => src[r] \in Versions
    BY <1>7, <1>f, <1>c
  <2>7. QED
    BY <2>4, <2>5, <2>6, <1>7, <1>e, <1>f, MayCall
<1>8. CASE MarkPoisoned(r) /\ ~StartRound(r)
  <2>1. /\ src[r] # 0 /\ at'[r] = "poison"
        /\ todo'[r] = <<Add("poisoned", src[r])>>
        /\ keystore' = [keystore EXCEPT !.poisoned = @ \cup {src[r]}]
        /\ at[r] # "idle"
    BY <1>8, <1>a, <1>b, Writes DEF MarkPoisoned, Call
  <2>2. src[r] \in L /\ src[r] \in Versions
    BY <2>1, <1>8, <1>f, <1>c
  <2>3. at["main"] \notin {"down", "opened"}
    BY <2>1, <1>a DEF Core, PlaceInv
  <2>4. KeyInv'
    BY <2>1, <2>2, <2>3, <1>8, <1>c, <1>f DEF KeyInv, L
  <2>5. QED
    BY <2>1, <2>2, <2>4, <1>8, <1>e, <1>f, MayCall DEF L
<1>9. CASE BeginList(r) /\ ~StartRound(r)
  <2>1. todo'[r] = <<>> /\ UNCHANGED keystore
    BY <1>9, <1>a DEF BeginList, Call
  <2>2. \/ backend = "redis" /\ at'[r] = "members" /\ seen'[r] = db.shareIndex
        \/ at'[r] = "listing"
    BY <1>9, <1>a DEF BeginList, Call, Redis!SMembers
  <2>3. backend = "redis" => db.shareIndex \subseteq db.share
    BY DEF Core, StoreInv, Sound
  <2>4. RoundOK(r)'
    BY <2>2, <2>3, <1>9, <1>f DEF RoundOK, L
  <2>5. QED
    BY <2>1, <2>4, <1>9, <1>d, <1>f, MayCall
<1>10. CASE FetchRecords(r) /\ ~StartRound(r)
  <2>1. seen[r] \subseteq db.share
    BY <1>10, <1>c DEF FetchRecords, Returned, RoundOK
  <2>2. Redis!SRem(seen[r], Redis!MGet(db, seen[r])) = {}
    BY <2>1 DEF Redis!SRem, Redis!MGet
  <2>3. todo'[r] = <<>> /\ at'[r] = "listing" /\ UNCHANGED keystore
    BY <1>10, <1>a, <2>2, NothingToSend DEF FetchRecords, Call
  <2>4. QED
    BY <2>3, <1>10, <1>d, <1>e, <1>f, MayCall
<1>11. CASE RollBack(r) /\ ~StartRound(r)
  <2>1. CASE Cleanup(r) /\ UNCHANGED keystore
    BY <1>11, <2>1, <1>g
  <2>2. CASE \E target \in keystore.held \ keystore.poisoned :
               /\ keystore' = [keystore EXCEPT !.active = target]
               /\ Call(r, "rollback", SetActiveVersionTimestamp(target))
    <3>1. PICK target \in keystore.held :
               /\ keystore' = [keystore EXCEPT !.active = target]
               /\ Call(r, "rollback", SetActiveVersionTimestamp(target))
      BY <2>2
    <3>2. todo'[r] = <<Put("active", target)>> /\ at'[r] = "rollback"
      BY <3>1, <1>a, <1>b, Writes DEF Call
    <3>3. target \in L /\ target \in Versions
      BY <1>c DEF KeyInv, L
    <3>4. at["main"] \notin {"down", "opened"}
      BY <1>11, <1>f, <1>a DEF Core, PlaceInv
    <3>5. KeyInv'
      BY <3>1, <3>3, <3>4, <1>11, <1>c, <1>f DEF KeyInv, L
    <3>6. QED
      BY <3>2, <3>3, <3>5, <1>11, <1>e, <1>f, MayCall DEF L
  <2>3. QED
    BY <1>11, <2>1, <2>2 DEF RollBack
<1>12. CASE SessionDeleted(r) /\ ~StartRound(r)
  <2>1. todo'[r] = <<>> /\ at'[r] = "idle" /\ UNCHANGED keystore
    BY <1>12, <1>a DEF SessionDeleted, Call
  <2>2. QED
    BY <2>1, <1>12, <1>d, <1>e, <1>f, MayCall
<1>13. QED
  BY <1>1, <1>2, <1>3, <1>4, <1>5, <1>6, <1>7, <1>8, <1>9, <1>10, <1>11, <1>12
     DEF Round

(* Blocks that a reorganisation removes only make a store sounder.         *)
LEMMA MoreGone ==
    ASSUME NEW bk, NEW d, NEW gone, NEW more, gone \subseteq more
    PROVE  /\ Sound(bk, d, gone) => Sound(bk, d, more)
           /\ \A s : Pending(bk, d, gone, s) => Pending(bk, d, more, s)
<1>1. Sound(bk, d, gone) => Sound(bk, d, more)
  BY DEF Sound
<1>2. ASSUME NEW s, Pending(bk, d, gone, s)
      PROVE  Pending(bk, d, more, s)
  BY <1>2 DEF Pending, BlockCall
<1>3. QED
  BY <1>1, <1>2

(* A store that does not change makes no illegal progress.                 *)
LEMMA NoProgress ==
    ASSUME NEW bk, NEW d, NEW gone, Sound(bk, d, gone)
    PROVE  Progress(bk, d, d, gone)
BY DEF Progress, Grows, DurableStep

(* What a step does to the store: nothing, one command of a call, a whole  *)
(* call, the clean-up of the indexes by a list, or the loss of the memory. *)
LEMMA StoreChange ==
    ASSUME Core, [Next]_vars
    PROVE  /\ backend' = backend /\ reorged \subseteq reorged'
           /\ \/ Progress(backend, db, db', reorged)
              \/ Crash /\ backend = "memory" /\ db' = EmptyStore
<1> DEFINE Goal == /\ backend' = backend /\ reorged \subseteq reorged'
                   /\ \/ Progress(backend, db, db', reorged)
                      \/ Crash /\ backend = "memory" /\ db' = EmptyStore
<1>a. Sound(backend, db, reorged) /\ PlaceInv /\ CountInv
  BY DEF Core, StoreInv
<1>b. ASSUME UNCHANGED <<backend, db>>, reorged \subseteq reorged'
      PROVE  Goal
  BY <1>a, <1>b, NoProgress
<1> SUFFICES Goal
  OBVIOUS
<1> HIDE DEF Goal
<1>1. ASSUME NEW r \in Rounds, Round(r)
      PROVE  Goal
  <2>1. StartRound(r) => UNCHANGED <<backend, db, reorged>>
    BY DEF StartRound
  <2>2. ~StartRound(r) => UNCHANGED <<backend, db, reorged>>
    BY <1>1, <1>a, RoundFrame DEF history
  <2>3. QED
    BY <2>1, <2>2, <1>b
<1>2. ASSUME NEW p \in Actors, Execute(p)
      PROVE  Goal
  <2>1. Pending(backend, db, reorged, todo[p])
    BY DEF Core, WorkInv
  <2>2. todo[p] # <<>> /\ UNCHANGED <<backend, reorged>>
    BY <1>2 DEF Execute, history
  <2>3. CASE backend = "redis"
    <3>1. db' = Apply(db, Head(todo[p]))
      BY <1>2, <2>3 DEF Execute
    <3>2. Progress(backend, db, db', reorged)
      BY <3>1, <2>1, <2>2, <2>3, <1>a, CommandDone
    <3>3. QED
      BY <3>2, <2>2 DEF Goal
  <2>4. CASE backend # "redis"
    <3>1. db' = ApplyAll(db, todo[p])
      BY <1>2, <2>4 DEF Execute
    <3>2. Progress(backend, db, db', reorged)
      BY <3>1, <2>1, <2>2, <2>4, <1>a, CallDone
    <3>3. QED
      BY <3>2, <2>2 DEF Goal
  <2>5. QED
    BY <2>3, <2>4
<1>3. ASSUME NEW p \in Actors, StoreError(p) \/ RefusedCall(p)
      PROVE  Goal
  BY <1>3, <1>a, <1>b, ErrorFrame
<1>4. CASE SaveBlock \/ BlockSaved \/ DeleteBlock \/ BlockDeleted
  BY <1>4, <1>b DEF SaveBlock, BlockSaved, DeleteBlock, BlockDeleted, history
<1>5. CASE ExecuteLate
  <2>1. Pending(backend, db, reorged, late) /\ backend = "redis"
    BY <1>5 DEF Core, WorkInv, ExecuteLate
  <2>2. /\ late # <<>> /\ UNCHANGED <<backend, reorged>>
        /\ db' = Apply(db, Head(late))
    BY <1>5 DEF ExecuteLate, history
  <2>3. Progress(backend, db, db', reorged)
    BY <2>1, <2>2, <1>a, CommandDone
  <2>4. QED
    BY <2>2, <2>3 DEF Goal
<1>6. CASE Close \/ OpenStore \/ SweepSession \/ Start
  BY <1>6, <1>b DEF Close, OpenStore, SweepSession, Start, history
<1>7. CASE Crash
  <2>1. UNCHANGED <<backend, reorged>>
    BY <1>7 DEF Crash, history
  <2>2. \/ backend = "memory" /\ db' = EmptyStore
        \/ db' = db
    BY <1>7 DEF Crash
  <2>3. QED
    BY <1>7, <2>1, <2>2, <1>b DEF Goal
<1>8. CASE RestoreState
  <2>1. /\ UNCHANGED <<backend, reorged>>
        /\ db' = [db EXCEPT !.shareIndex = @ \cap db.share,
                            !.sessionIndex = @ \cap db.session]
    BY <1>8 DEF RestoreState
  <2>2. Progress(backend, db, db', reorged)
    BY <2>1, <1>a DEF Progress, Sound, Grows, DurableStep, Listed, Live, Store
  <2>3. QED
    BY <2>1, <2>2 DEF Goal
<1>9. CASE UNCHANGED vars
  BY <1>9, <1>b DEF vars, history
<1>10. QED
  BY <1>1, <1>2, <1>3, <1>4, <1>5, <1>6, <1>7, <1>8, <1>9 DEF Next

(* What goroutines that do not move keep, when the store moves on.         *)
LEMMA Carried ==
    ASSUME Core, backend' = backend, reorged \subseteq reorged',
           Progress(backend, db, db', reorged)
    PROVE  /\ StoreInv'
           /\ \A s : Pending(backend, db, reorged, s)
                      => Pending(backend, db, reorged, s)'
           /\ \A r \in Rounds :
                /\ at'[r] = at[r] /\ todo'[r] = todo[r] /\ ver'[r] = ver[r]
                /\ src'[r] = src[r] /\ seen'[r] = seen[r]
                => RoundOK(r)'
           /\ /\ keystore' = keystore /\ seen'["main"] \subseteq Versions
              /\ at'["main"] \in {"down", "opened"} => at["main"] \in {"down", "opened"}
              => KeyInv'
<1>1. Sound(backend, db', reorged) /\ Grows(backend, db, db', reorged)
  BY DEF Progress
<1>2. StoreInv'
  BY <1>1, MoreGone DEF StoreInv
<1>3. ASSUME NEW s, Pending(backend, db, reorged, s)
      PROVE  Pending(backend, db, reorged, s)'
  <2>1. Pending(backend, db', reorged, s)
    BY <1>1, <1>3, PendingStays
  <2>2. Pending(backend, db', reorged', s)
    BY <2>1, MoreGone
  <2>3. QED
    BY <2>2
<1>4. /\ db.share \subseteq db'.share
      /\ Listed(backend, db) \subseteq Listed(backend, db)'
  BY <1>1 DEF Grows
<1>5. ASSUME NEW r \in Rounds,
             at'[r] = at[r], todo'[r] = todo[r], ver'[r] = ver[r],
             src'[r] = src[r], seen'[r] = seen[r]
      PROVE  RoundOK(r)'
  BY <1>4, <1>5 DEF Core, RoundInv, RoundOK
<1>6. ASSUME keystore' = keystore, seen'["main"] \subseteq Versions,
             at'["main"] \in {"down", "opened"} => at["main"] \in {"down", "opened"}
      PROVE  KeyInv'
  BY <1>4, <1>6 DEF Core, KeyInv, NoKeys
<1>7. QED
  BY <1>2, <1>3, <1>5, <1>6

(* The store works on the call of p.                                       *)
LEMMA ExecuteKeeps ==
    ASSUME Core, NEW p \in Actors, Execute(p)
    PROVE  /\ Pending(backend, db, reorged, todo[p])'
           /\ p \in Rounds => RoundOK(p)'
<1>1. /\ Pending(backend, db, reorged, todo[p]) /\ todo[p] # <<>>
      /\ Sound(backend, db, reorged)
      /\ UNCHANGED <<backend, reorged, late, at, ver, src, seen, keystore>>
      /\ todo = [q \in Actors |-> todo[q]]
  BY DEF Core, WorkInv, StoreInv, PlaceInv, Execute, history, roundVars
<1>2. backend = "redis" => /\ db' = Apply(db, Head(todo[p]))
                           /\ todo'[p] = Tail(todo[p])
  BY <1>1 DEF Execute
<1>3. backend # "redis" => db' = ApplyAll(db, todo[p]) /\ todo'[p] = <<>>
  BY <1>1 DEF Execute
<1>4. Pending(backend, db', reorged, todo'[p])
  <2>1. CASE backend = "redis"
    BY <2>1, <1>1, <1>2, CommandDone
  <2>2. CASE backend # "redis"
    BY <2>2, <1>3 DEF Pending
  <2>3. QED
    BY <2>1, <2>2
<1>5. ASSUME p \in Rounds
      PROVE  RoundOK(p)'
  <2>1. Progress(backend, db, db', reorged)
    <3>1. ~Crash
      BY <1>1 DEF Crash, Actors
    <3>2. QED
      BY <3>1, StoreChange DEF Next
  <2>2. /\ db.share \subseteq db'.share
        /\ Listed(backend, db) \subseteq Listed(backend, db')
        /\ RoundOK(p)
    BY <2>1, <1>5 DEF Progress, Grows, Core, RoundInv
  <2>3. CASE at[p] # "share"
    BY <2>2, <2>3, <1>1 DEF RoundOK
  <2>4. CASE at[p] = "share"
    <3>1. CASE backend = "redis" /\ todo[p] = ShareWrite(backend, ver[p])
      <4>1. /\ Head(todo[p]) = Add("share", ver[p])
            /\ Tail(todo[p]) = <<Add("shareIndex", ver[p])>>
        BY <3>1 DEF ShareWrite
      <4>2. ver[p] \in Apply(db, Add("share", ver[p])).share
        BY <1>1 DEF Apply, Add, Sound, Store
      <4>3. QED
        BY <4>1, <4>2, <3>1, <2>2, <2>4, <1>1, <1>2 DEF RoundOK
    <3>2. CASE backend # "redis" /\ todo[p] = ShareWrite(backend, ver[p])
      <4>1. ApplyAll(db, todo[p]) = Apply(db, Add("share", ver[p]))
        BY <3>2 DEF ShareWrite, ApplyAll
      <4>2. ver[p] \in Listed(backend, Apply(db, Add("share", ver[p])))
        BY <1>1, <3>2 DEF Apply, Add, Sound, Store, Listed
      <4>3. QED
        BY <4>1, <4>2, <3>2, <2>2, <2>4, <1>1, <1>3 DEF RoundOK
    <3>3. CASE todo[p] = <<Add("shareIndex", ver[p])>> /\ ver[p] \in db.share
      <4> DEFINE c == Add("shareIndex", ver[p])
      <4>1. Head(<<c>>) = c /\ Tail(<<c>>) = <<>> /\ ApplyAll(db, <<c>>) = Apply(db, c)
        BY DEF ApplyAll
      <4>2. db' = Apply(db, c) /\ todo'[p] = <<>>
        BY <3>3, <4>1, <1>2, <1>3
      <4>3. ver[p] \in Listed(backend, Apply(db, Add("shareIndex", ver[p])))
        BY <3>3, <1>1 DEF Apply, Add, Sound, Store, Listed
      <4>4. QED
        BY <4>2, <4>3, <2>2, <2>4, <1>1 DEF RoundOK
    <3>4. QED
      BY <3>1, <3>2, <3>3, <2>2, <2>4, <1>1 DEF RoundOK
  <2>5. QED
    BY <2>3, <2>4
<1>6. QED
  BY <1>1, <1>4, <1>5

(* Opening a store writes at most its schema version.                      *)
LEMMA SchemaCall ==
    ASSUME BackendTyped
    PROVE  initSchema \in {<<>>, <<Put("schema", currentSchemaVersion)>>}
BY DEF initSchema, Configured, BackendTyped, Badger!initSchema,
   Redis!initSchema, Badger!Put, Redis!Put, Put, Badger!currentSchemaVersion,
   Redis!currentSchemaVersion, currentSchemaVersion

(* RestoreState finds an active version among those it lists.              *)
LEMMA RestoredIsListed ==
    ASSUME StoreInv, BackendTyped
    PROVE  RestoredActive \in Listed(backend, db) \cup {0}
<1>1. /\ ListKeyShareVersions = Listed(backend, db)
      /\ GetActiveVersionTimestamp = db.active
  BY Lists
<1>2. MaxRounds + 1 \in Nat /\ Listed(backend, db) \subseteq 1..(MaxRounds + 1)
  BY ListedVersions, BoundsAssumption DEF Versions
<1>3. Listed(backend, db) # {}
        => Max(Listed(backend, db)) \in Listed(backend, db)
  BY <1>2, Newest
<1>4. QED
  BY <1>1, <1>3 DEF RestoredActive

(* Every step preserves Core.                                              *)
LEMMA CoreStep == Core /\ [Next]_vars => Core'
<1> SUFFICES ASSUME Core, [Next]_vars PROVE Core'
  OBVIOUS
<1> DEFINE Goal == WorkInv' /\ RoundInv' /\ KeyInv'
           Prog == Progress(backend, db, db', reorged)
<1>a. PlaceInv' /\ CountInv'
  BY PlaceStep, CountStep DEF Core, StoreInv
<1>b. /\ PlaceInv /\ CountInv /\ BackendTyped /\ KeyInv /\ WorkInv /\ StoreInv
      /\ at = [q \in Actors |-> at[q]] /\ todo = [q \in Actors |-> todo[q]]
      /\ ver = [q \in Actors |-> ver[q]] /\ src = [q \in Actors |-> src[q]]
      /\ seen = [q \in Actors |-> seen[q]]
  BY DEF Core, PlaceInv, CountInv, ShapeInv
<1>c. /\ \A r \in Rounds : r \in Actors /\ r # "main" /\ r # "poller"
      /\ "main" \in Actors /\ "poller" \in Actors
  BY BoundsAssumption DEF Actors
<1>d. seen["main"] \subseteq Versions
  BY DEF Core, KeyInv
<1>e. (~Crash \/ db' = db \/ backend # "memory") => Prog
  BY StoreChange, NoProgress DEF Core, StoreInv
<1>f. backend' = backend /\ reorged \subseteq reorged'
  BY StoreChange
(* A step in which only p moves.                                           *)
<1>g. ASSUME NEW p \in Actors, Prog,
             \A q \in Actors : q # p =>
                /\ at'[q] = at[q] /\ todo'[q] = todo[q] /\ ver'[q] = ver[q]
                /\ src'[q] = src[q] /\ seen'[q] = seen[q],
             Pending(backend, db, reorged, todo[p])',
             Pending(backend, db, reorged, late)',
             backend # "redis" => late' = <<>>,
             p \in Rounds => RoundOK(p)'
      PROVE  WorkInv' /\ RoundInv'
  <2>1. \A q \in Actors : Pending(backend, db, reorged, todo[q])'
    <3> TAKE q \in Actors
    <3>1. CASE q = p
      BY <3>1, <1>g
    <3>2. CASE q # p
      <4>1. Pending(backend, db, reorged, todo[q])
        BY DEF Core, WorkInv
      <4>2. Pending(backend', db', reorged', todo[q])
        BY <4>1, <1>e, <1>f, <1>g, Carried DEF Prog
      <4>3. QED
        BY <3>2, <4>2, <1>g
    <3>3. QED
      BY <3>1, <3>2
  <2>2. WorkInv'
    BY <2>1, <1>f, <1>g DEF WorkInv
  <2>3. \A q \in Rounds : q # p => RoundOK(q)'
    BY <1>c, <1>e, <1>f, <1>g, Carried DEF Prog
  <2>4. QED
    BY <2>2, <2>3, <1>g DEF RoundInv
(* What was to be done late still may be.                                  *)
<1>h. ASSUME Prog, late' = late
      PROVE  /\ Pending(backend, db, reorged, late)'
             /\ backend # "redis" => late' = <<>>
  <2>1. Pending(backend, db, reorged, late) /\ (backend # "redis" => late = <<>>)
    BY DEF Core, WorkInv
  <2>2. QED
    BY <2>1, <1>e, <1>f, <1>h, Carried DEF Prog
<1>i. ASSUME Prog, keystore' = keystore, seen'["main"] \subseteq Versions,
             at'["main"] \in {"down", "opened"} => at["main"] \in {"down", "opened"}
      PROVE  KeyInv'
  BY <1>e, <1>f, <1>i, Carried DEF Prog
<1>j. ASSUME Prog, NEW s, Pending(backend, db, reorged, s)
      PROVE  Pending(backend', db', reorged', s)
  BY <1>e, <1>f, <1>j, Carried DEF Prog
<1> HIDE DEF Prog
<1>1. ASSUME NEW r \in Rounds, Round(r)
      PROVE  Goal
  <2>1. /\ \A q \in Actors : q # r =>
              /\ at'[q] = at[q] /\ todo'[q] = todo[q] /\ ver'[q] = ver[q]
              /\ src'[q] = src[q] /\ seen'[q] = seen[q]
        /\ late' = late
    <3>1. CASE StartRound(r)
      BY <3>1, <1>b DEF StartRound, Call
    <3>2. CASE ~StartRound(r)
      BY <3>2, <1>1, <1>b, RoundFrame
    <3>3. QED
      BY <3>1, <3>2
  <2>2. Prog
    <3>1. ~Crash
      BY <2>1, <1>c DEF Crash
    <3>2. QED
      BY <3>1, <1>e
  <2>3. /\ Pending(backend, db, reorged, todo'[r])
        /\ RoundOK(r)' /\ KeyInv'
    BY <1>1, RoundKeeps
  <2>4. QED
    BY <2>1, <2>2, <2>3, <1>c, <1>g, <1>h, <1>j
<1>2. ASSUME NEW p \in Actors, Execute(p)
      PROVE  Goal
  <2>1. /\ UNCHANGED <<late, at, ver, src, seen, keystore>>
        /\ \A q \in Actors : q # p => todo'[q] = todo[q]
    BY <1>2, <1>b DEF Execute, roundVars
  <2>2. Prog
    <3>1. ~Crash
      BY <2>1, <1>c DEF Crash
    <3>2. QED
      BY <3>1, <1>e
  <2>3. Pending(backend, db, reorged, todo[p])' /\ (p \in Rounds => RoundOK(p)')
    BY <1>2, ExecuteKeeps
  <2>4. QED
    BY <2>1, <2>2, <2>3, <1>d, <1>g, <1>h, <1>i
<1>3. ASSUME NEW p \in Actors, StoreError(p) \/ RefusedCall(p)
      PROVE  Goal
  <2>1. /\ ErrorMoves(p) \/ (at[p] = "poison" /\ p \in Rounds /\ Cleanup(p))
        /\ UNCHANGED <<backend, db, ver, src, seen, keystore, reorged>>
        /\ late' \in {late, <<>>, todo[p]} /\ (backend # "redis" => late' = late)
    BY <1>3, <1>b, ErrorFrame
  <2>2. at[p] # "idle"
    BY <1>3 DEF StoreError, RefusedCall, Calls
  <2>3. /\ \A q \in Actors : q # p => at'[q] = at[q] /\ todo'[q] = todo[q]
        /\ \/ todo'[p] = <<>>
           \/ p \in Rounds /\ todo'[p] = SessionDelete(backend, ver[p])
        /\ at'[p] \notin {"share", "pointer", "members"}
        /\ p = "main" /\ at'[p] \in {"down", "opened"} => at[p] = "opened"
    BY <2>1, <1>b, IndexedWrites DEF ErrorMoves, Cleanup, Call
  <2>4. Prog
    BY <2>1, <1>e
  <2>5. Pending(backend, db, reorged, todo[p])'
    <3>1. p \in Rounds => ver[p] \in Versions
      BY <2>2, StampIsVersion
    <3>2. Pending(backend, db, reorged, todo'[p])
      BY <2>3, <3>1, MayCall
    <3>3. QED
      BY <3>2, <2>4, <1>j
  <2>6. Pending(backend, db, reorged, late)' /\ (backend # "redis" => late' = <<>>)
    <3>1. Pending(backend, db, reorged, late') /\ (backend # "redis" => late' = <<>>)
      BY <2>1, MayCall DEF Core, WorkInv
    <3>2. QED
      BY <3>1, <2>4, <1>j
  <2>7. p \in Rounds => RoundOK(p)'
    BY <2>1, <2>3 DEF Core, RoundInv, RoundOK
  <2>8. KeyInv'
    BY <2>1, <2>3, <2>4, <1>c, <1>d, <1>i
  <2>9. QED
    BY <2>1, <2>3, <2>4, <2>5, <2>6, <2>7, <2>8, <1>g
<1>4. ASSUME SaveBlock \/ BlockSaved \/ DeleteBlock \/ BlockDeleted
      PROVE  Goal
  <2>1. /\ UNCHANGED <<db, late, ver, src, seen, keystore>>
        /\ \A q \in Actors : q # "poller" => at'[q] = at[q] /\ todo'[q] = todo[q]
    BY <1>4, <1>b DEF SaveBlock, BlockSaved, DeleteBlock, BlockDeleted, Call,
       roundVars
  <2>2. Prog
    BY <2>1, <1>e
  <2>3. Pending(backend, db', reorged', todo'["poller"])
    <3>1. CASE SaveBlock
      <4>1. todo'["poller"] = <<Add("block", height + 1), Put("last", height + 1)>>
        BY <3>1, <1>b, <1>c, Writes DEF SaveBlock, Call
      <4>2. height + 1 \in 0..MaxBlock
        BY <3>1, <1>b, BoundsAssumption DEF SaveBlock, CountInv, HeightInv
      <4>3. Pending(backend, db, reorged, todo'["poller"])
        BY <4>1, <4>2, MayCall
      <4>4. QED
        BY <4>3, <2>2, <1>j, <1>f
    <3>2. CASE DeleteBlock
      <4>1. todo'["poller"] = <<Delete("block", height)>> /\ height \in reorged'
        BY <3>2, <1>b, <1>c, Writes DEF DeleteBlock, Call
      <4>2. height \in 0..MaxBlock
        BY <1>b DEF CountInv, HeightInv
      <4>3. QED
        BY <4>1, <4>2 DEF Pending, BlockCall
    <3>3. CASE BlockSaved \/ BlockDeleted
      <4>1. todo'["poller"] = <<>>
        BY <3>3, <1>b, <1>c DEF BlockSaved, BlockDeleted, Call
      <4>2. QED
        BY <4>1 DEF Pending
    <3>4. QED
      BY <1>4, <3>1, <3>2, <3>3
  <2>4. QED
    BY <2>1, <2>2, <2>3, <1>c, <1>d, <1>f, <1>g, <1>h, <1>i
<1>5. ASSUME ExecuteLate
      PROVE  Goal
  <2>1. /\ UNCHANGED <<at, todo, ver, src, seen, keystore, reorged>>
        /\ db' = Apply(db, Head(late)) /\ late' = Tail(late) /\ late # <<>>
    BY <1>5 DEF ExecuteLate, roundVars, history
  <2>2. Prog
    <3>1. ~Crash
      BY <2>1, <1>c DEF Crash
    <3>2. QED
      BY <3>1, <1>e
  <2>3. /\ backend = "redis" /\ Pending(backend, db, reorged, late)
        /\ Sound(backend, db, reorged) /\ Pending(backend, db, reorged, todo["main"])
    BY <2>1, <1>b, <1>c DEF WorkInv, StoreInv
  <2>4. Pending(backend, db', reorged, late')
    BY <2>1, <2>3, CommandDone
  <2>5. Pending(backend', db', reorged', late') /\ (backend # "redis" => late' = <<>>)
    BY <2>1, <2>3, <2>4, <1>f
  <2>6. Pending(backend', db', reorged', todo'["main"])
    BY <2>1, <2>2, <2>3, <1>j
  <2>7. QED
    BY <2>1, <2>2, <2>5, <2>6, <1>c, <1>d, <1>g, <1>i
<1>6. ASSUME Close \/ OpenStore \/ SweepSession \/ Start
      PROVE  Goal
  <2>1. /\ UNCHANGED <<db, late, ver, src, keystore>>
        /\ \A q \in Actors : q # "main" => /\ at'[q] = at[q] /\ todo'[q] = todo[q]
                                         /\ seen'[q] = seen[q]
        /\ seen'["main"] \subseteq seen["main"]
        /\ at'["main"] \in {"down", "opened"} => at["main"] \in {"down", "opened"}
    BY <1>6, <1>b, <1>c DEF Close, OpenStore, SweepSession, Start, Call, roundVars
  <2>2. Prog
    BY <2>1, <1>e
  <2>3. Pending(backend, db, reorged, todo'["main"])
    <3>1. CASE SweepSession
      <4>1. PICK s \in seen["main"] : todo'["main"] = SessionDelete(backend, s)
        BY <3>1, <1>b, <1>c, IndexedWrites DEF SweepSession, Call
      <4>2. QED
        BY <4>1, <1>d, MayCall
    <3>2. CASE OpenStore
      <4>1. initSchema \in {<<>>, <<Put("schema", currentSchemaVersion)>>}
        BY <1>b, SchemaCall
      <4>2. todo'["main"] = initSchema
        BY <3>2, <1>b, <1>c DEF OpenStore, Call
      <4>3. QED
        BY <4>1, <4>2 DEF Pending
    <3>3. CASE Close
      BY <3>3, <1>b, <1>c DEF Close, WorkInv
    <3>4. CASE Start
      BY <3>4, <1>b, <1>c, MayCall DEF Start, Call
    <3>5. QED
      BY <1>6, <3>1, <3>2, <3>3, <3>4
  <2>4. Pending(backend', db', reorged', todo'["main"])
    BY <2>2, <2>3, <1>j
  <2>5. QED
    BY <2>1, <2>2, <2>4, <1>c, <1>d, <1>g, <1>h, <1>i
<1>7. ASSUME Crash
      PROVE  Goal
  <2>1. /\ at' = [q \in Actors |-> IF q = "main" THEN "down" ELSE "idle"]
        /\ todo' = [q \in Actors |-> <<>>] /\ src' = [q \in Actors |-> 0]
        /\ seen' = [q \in Actors |-> {}] /\ keystore' = NoKeys
        /\ db' = IF backend = "memory" THEN EmptyStore ELSE db
    BY <1>7 DEF Crash
  <2>2. RoundInv'
    BY <2>1, <1>c DEF RoundInv, RoundOK
  <2>3. KeyInv'
    BY <2>1, <1>c DEF KeyInv, NoKeys
  <2>4. Pending(backend', db', reorged', late') /\ (backend # "redis" => late' = <<>>)
    <3>1. CASE backend = "redis"
      <4>1. late' \in {late, <<>>} \/ \E q \in Actors : late' = todo[q]
        BY <3>1, <1>7 DEF Crash
      <4>2. Pending(backend, db, reorged, late')
        BY <4>1, <1>b, MayCall DEF WorkInv
      <4>3. QED
        BY <3>1, <4>2, <1>e, <1>j
    <3>2. CASE backend # "redis"
      <4>1. late' = <<>>
        BY <3>2, <1>7, <1>b DEF Crash, WorkInv
      <4>2. QED
        BY <4>1 DEF Pending
    <3>3. QED
      BY <3>1, <3>2
  <2>5. WorkInv'
    BY <2>1, <2>4, <1>f DEF WorkInv, Pending
  <2>6. QED
    BY <2>2, <2>3, <2>5
<1>8. ASSUME RestoreState
      PROVE  Goal
  <2>1. /\ UNCHANGED <<late, ver, src>>
        /\ at' = [at EXCEPT !["main"] = "sweep"]
        /\ todo' = [todo EXCEPT !["main"] = <<>>]
        /\ seen' = [seen EXCEPT !["main"] = Live(backend, db)]
        /\ \E poison \in {{}, db.poisoned} :
              keystore' = [held |-> Listed(backend, db), active |-> RestoredActive,
                           poisoned |-> poison]
    BY <1>8, <1>b, Lists DEF RestoreState, Call
  <2>2. Prog
    <3>1. ~Crash
      BY <2>1, <1>b, <1>c DEF Crash
    <3>2. QED
      BY <3>1, <1>e
  <2>3. Pending(backend', db', reorged', todo'["main"])
    BY <2>1, <1>b, <1>c DEF Pending
  <2>4. WorkInv' /\ RoundInv'
    BY <2>1, <2>2, <2>3, <1>b, <1>c, <1>g, <1>h
  <2>5. /\ Listed(backend, db) \subseteq Listed(backend', db')
        /\ Listed(backend, db) \subseteq Versions
        /\ RestoredActive \in Listed(backend, db) \cup {0}
    BY <2>2, <1>b, <1>f, RestoredIsListed, ListedVersions DEF Prog, Progress, Grows
  <2>6. Live(backend, db) \subseteq Versions /\ db.poisoned \subseteq Versions
    BY <1>b DEF StoreInv, Sound, Store, Live
  <2>7. KeyInv'
    BY <2>1, <2>5, <2>6, <1>b, <1>c DEF KeyInv
  <2>8. QED
    BY <2>4, <2>7
<1>9. ASSUME UNCHANGED vars
      PROVE  Goal
  <2>1. UNCHANGED <<db, late, at, todo, ver, src, seen, keystore>>
    BY <1>9 DEF vars, roundVars
  <2>2. Prog
    BY <2>1, <1>e
  <2>3. Pending(backend', db', reorged', todo'["main"])
    BY <2>1, <2>2, <1>b, <1>c, <1>j DEF WorkInv
  <2>4. QED
    BY <2>1, <2>2, <2>3, <1>c, <1>d, <1>g, <1>h, <1>i
<1>10. Goal
  BY <1>1, <1>2, <1>3, <1>4, <1>5, <1>6, <1>7, <1>8, <1>9 DEF Next
<1>11. StoreInv'
  <2>1. CASE Progress(backend, db, db', reorged)
    BY <2>1, <1>f, Carried
  <2>2. CASE db' = EmptyStore
    BY <2>2, BoundsAssumption DEF StoreInv, Sound, Store, Listed, EmptyStore
  <2>3. QED
    BY <2>1, <2>2, StoreChange
<1>12. QED
  BY <1>a, <1>10, <1>11 DEF Core

(* The inductive invariant holds: wherever the goroutines are in their     *)
(* calls, the store is sound and whatever is left to execute, a pipeline   *)
(* that is running late included, keeps it so.                             *)
THEOREM CoreHolds == Spec => []Core
BY InitCore, CoreStep, PTL DEF Spec

-----------------------------------------------------------------------------
(* A version the node serves with survives a crash in this very moment,    *)
(* for every backend, any number of rounds that overlap and list, and any  *)
(* number of calls that fail half way or take effect late: what            *)
(* SaveKeyShareVersion wrote before keyStore.AddVersion stays listed.      *)
THEOREM ServedSurvivesCrash == Spec => []ServedIsDurable
<1>1. Core => ServedIsDurable
  BY Lists DEF Core, KeyInv, PlaceInv, ServedIsDurable
<1>2. QED
  BY <1>1, CoreHolds, PTL

(* The poller can go on from where it stopped: GetLastProcessedBlock finds *)
(* the record the pointer names, whatever crashed or failed in between,    *)
(* except for a block that a reorganisation removed.                       *)
THEOREM PollerFindsItsPlace == Spec => []LastBlockReadable
<1>1. Core => LastBlockReadable
  BY Lists DEF Core, StoreInv, Sound, PlaceInv, LastBlockReadable
<1>2. QED
  BY <1>1, CoreHolds, PTL

(* What a restart would list, before and after a step.                     *)
LEMMA ListsBefore ==
    BackendTyped => /\ ListKeyShareVersions = Listed(backend, db)
                    /\ ListProtocolSessions = Live(backend, db)
BY Lists

(* Lists, in the state after a step.                                       *)
LEMMA ListsAfter ==
    (BackendTyped => /\ ListKeyShareVersions = Listed(backend, db)
                     /\ ListProtocolSessions = Live(backend, db))'
BY ListsBefore, PTL

(* A step of the node is one of DurableState, or none.                     *)
LEMMA RefinedStep ==
    ASSUME Core, [Next]_vars
    PROVE  [Durable!Next]_(Durable!vars)
<1> DEFINE L == ListKeyShareVersions
           S == ListProtocolSessions
<1>a. /\ backend' = backend /\ BackendTyped /\ BackendTyped'
      /\ \/ Progress(backend, db, db', reorged)
         \/ backend = "memory" /\ db' = EmptyStore
  BY StoreChange DEF Core, PlaceInv, BackendTyped
<1>b. /\ L = Listed(backend, db) /\ L' = Listed(backend, db')
      /\ S = Live(backend, db) /\ S' = Live(backend, db')
  BY <1>a, ListsBefore, ListsAfter
<1>1. CASE Progress(backend, db, db', reorged)
  <2>1. DurableStep(backend, db, db')
    BY <1>1 DEF Progress
  <2>2. \/ /\ L' = L /\ S' = S
           /\ db'.active = db.active /\ db'.poisoned = db.poisoned
        \/ \E v \in Versions :
             /\ L' = L \cup {v} /\ S' = S
             /\ db'.active = db.active /\ db'.poisoned = db.poisoned
        \/ /\ db'.active \in L /\ L' = L /\ S' = S
           /\ db'.poisoned = db.poisoned
        \/ \E v \in L :
             /\ db'.poisoned = db.poisoned \cup {v} /\ L' = L /\ S' = S
             /\ db'.active = db.active
        \/ \E v \in Versions :
             /\ S' = S \cup {v} \/ S' = S \ {v}
             /\ L' = L /\ db'.active = db.active /\ db'.poisoned = db.poisoned
    BY <2>1, <1>b DEF DurableStep
  <2>3. L \subseteq Versions
    BY <1>b, ListedVersions DEF Core
  <2> HIDE DEF L, S
  <2>4. QED
    BY <1>a, <2>2, <2>3 DEF Durable!Next, Durable!vars,
       Durable!SaveKeyShareVersion, Durable!SetActiveVersionTimestamp,
       Durable!AddPoisonedVersion, Durable!SaveProtocolSession,
       Durable!DeleteProtocolSession, L, S
<1>2. CASE backend = "memory" /\ db' = EmptyStore
  <2>1. /\ L' = {} /\ S' = {} /\ db'.active = 0 /\ db'.poisoned = {}
    BY <1>2, <1>b DEF Listed, Live, EmptyStore
  <2>2. QED
    BY <1>a, <1>2, <2>1 DEF Durable!Next, Durable!Forget
<1>3. QED
  BY <1>a, <1>1, <1>2

(* DurableState is what a node may rely on: all three backends implement   *)
(* it as the node uses them, though redis does calls command by command,   *)
(* fails half way and goes on late, and though rounds and restarts drop    *)
(* index entries of their own.                                             *)
THEOREM StoreIsDurableState == Spec => ImplementsDurableState
<1>1. Init => Durable!Init
  <2> SUFFICES ASSUME Init PROVE Durable!Init
    OBVIOUS
  <2>1. StoreInv /\ BackendTyped
    BY InitCore DEF Core, PlaceInv
  <2>2. /\ ListKeyShareVersions = Listed(backend, db)
        /\ ListProtocolSessions = Live(backend, db)
        /\ Listed(backend, db) \subseteq Versions
        /\ db.active \in Listed(backend, db) \cup {0}
    BY <2>1, ListsBefore, ListedVersions DEF StoreInv, Sound
  <2>3. db.poisoned = {} /\ db.session = {}
    <3>1. CASE db = EmptyStore
      BY <3>1 DEF EmptyStore
    <3>2. CASE db = UsedStore
      BY <3>2 DEF UsedStore, EmptyStore
    <3>3. QED
      BY <3>1, <3>2 DEF Init
  <2>4. ListProtocolSessions = {}
    BY <2>2, <2>3 DEF Live
  <2>5. (backend = "memory") \in BOOLEAN
    BY Zenon
  <2>6. QED
    BY <2>2, <2>3, <2>4, <2>5, Zenon DEF Durable!Init
<1>2. Core /\ [Next]_vars => [Durable!Next]_(Durable!vars)
  BY RefinedStep
<1>3. QED
  BY <1>1, <1>2, CoreHolds, PTL DEF Spec, ImplementsDurableState, Durable!Spec

(* RestoreState can always follow the active pointer: on each backend, and *)
(* whatever rounds, failures and crashes there are, the pointer and the    *)
(* poisoned set name versions the store lists.                             *)
THEOREM StoreIsConsistent == Spec => []Durable!Consistent
<1> USE DEF Durable!Consistent
<1>1. Durable!Init => Durable!Consistent
  BY DEF Durable!Init
<1>2. ASSUME Durable!Consistent, [Durable!Next]_(Durable!vars)
      PROVE  Durable!Consistent'
  <2>1. CASE \E v \in Versions : Durable!SaveKeyShareVersion(v)
    BY <1>2, <2>1 DEF Durable!SaveKeyShareVersion
  <2>2. CASE \E v \in Versions : Durable!SetActiveVersionTimestamp(v)
    BY <1>2, <2>2 DEF Durable!SetActiveVersionTimestamp
  <2>3. CASE \E v \in Versions : Durable!AddPoisonedVersion(v)
    BY <1>2, <2>3 DEF Durable!AddPoisonedVersion
  <2>4. CASE \E v \in Versions : Durable!SaveProtocolSession(v) \/ Durable!DeleteProtocolSession(v)
    BY <1>2, <2>4 DEF Durable!SaveProtocolSession, Durable!DeleteProtocolSession
  <2>5. CASE Durable!Forget
    BY <1>2, <2>5 DEF Durable!Forget
  <2>6. CASE UNCHANGED Durable!vars
    BY <1>2, <2>6 DEF Durable!vars
  <2>7. QED
    BY <1>2, <2>1, <2>2, <2>3, <2>4, <2>5, <2>6, Zenon DEF Durable!Next
<1>3. QED
  BY <1>1, <1>2, StoreIsDurableState, PTL DEF ImplementsDurableState, Durable!Spec

(* A version a node saved, and the poison on one, outlive every later call *)
(* of overlapping rounds, every crash and every late pipeline, except the  *)
(* loss of a store in memory: what a rollback may go back to stays there.  *)
THEOREM StoreKeepsWhatItSaved == Spec => Durable!KeepsWhatItSaved
<1> DEFINE Keeps == ~(backend = "memory") =>
              ListKeyShareVersions \subseteq ListKeyShareVersions'
                /\ db.poisoned \subseteq db.poisoned'
<1>1. [Durable!Next]_(Durable!vars) => [Keeps]_(Durable!vars)
  BY DEF Durable!Next, Durable!vars, Durable!SaveKeyShareVersion,
     Durable!SetActiveVersionTimestamp, Durable!AddPoisonedVersion,
     Durable!SaveProtocolSession, Durable!DeleteProtocolSession, Durable!Forget
<1>2. QED
  BY <1>1, StoreIsDurableState, PTL
     DEF ImplementsDurableState, Durable!Spec, Durable!KeepsWhatItSaved

-----------------------------------------------------------------------------
(***************************************************************************)
(* Which call touches what. Aside(s, K): none of the commands of s is      *)
(* about a key of K.                                                       *)
(***************************************************************************)
Aside(s, K) ==
    \/ s = <<>>
    \/ \E c : s = <<c>> /\ c.key \notin K
    \/ \E c, e : s = <<c, e>> /\ c.key \notin K /\ e.key \notin K

SessionKeys == {"session", "sessionIndex"}
ShareKeys == {"share", "shareIndex"}
PointerKeys == {"active"}

Keyed(d) ==
    d = [k \in DOMAIN d |-> d[k]] /\ SessionKeys \cup ShareKeys \cup PointerKeys \subseteq DOMAIN d

(* A command changes the record it names and no other.                     *)
LEMMA OtherKey ==
    ASSUME NEW d, Keyed(d), NEW c
    PROVE  /\ Keyed(Apply(d, c))
           /\ c.key # "session" => Apply(d, c).session = d.session
           /\ c.key # "sessionIndex" => Apply(d, c).sessionIndex = d.sessionIndex
           /\ c.key # "share" => Apply(d, c).share = d.share
           /\ c.key # "shareIndex" => Apply(d, c).shareIndex = d.shareIndex
           /\ c.key # "active" => Apply(d, c).active = d.active
<1>1. PICK x : Apply(d, c) = [d EXCEPT ![c.key] = x]
  BY Zenon DEF Apply
<1>2. /\ d = [k \in DOMAIN d |-> d[k]]
      /\ {"session", "sessionIndex", "share", "shareIndex", "active"} \subseteq DOMAIN d
  BY DEF Keyed, SessionKeys, ShareKeys, PointerKeys
<1>3. DOMAIN Apply(d, c) = DOMAIN d
  BY <1>1
<1>4. \A k \in DOMAIN d : c.key # k => Apply(d, c)[k] = d[k]
  BY <1>1, <1>2
<1>5. Apply(d, c) = [k \in DOMAIN d |-> Apply(d, c)[k]]
  BY <1>1, <1>2
<1>6. Keyed(Apply(d, c))
  BY <1>3, <1>5 DEF Keyed
<1>7. QED
  BY <1>2, <1>4, <1>6

(* A store is a record of its keys.                                        *)
LEMMA StoreKeyed ==
    ASSUME NEW d \in Store
    PROVE  Keyed(d)
<1>1. d = [k \in DOMAIN d |-> d[k]]
  BY DEF Store
<1>2. SessionKeys \cup ShareKeys \cup PointerKeys \subseteq DOMAIN d
  BY DEF Store, SessionKeys, ShareKeys, PointerKeys
<1>3. QED
  BY <1>1, <1>2 DEF Keyed

Same(d, e, K) ==
    /\ "session" \in K => d.session = e.session
    /\ "sessionIndex" \in K => d.sessionIndex = e.sessionIndex
    /\ "share" \in K => d.share = e.share
    /\ "shareIndex" \in K => d.shareIndex = e.shareIndex
    /\ "active" \in K => d.active = e.active

(* A part of such a call, or all of it, changes nothing under K.           *)
LEMMA AsideDone ==
    ASSUME NEW d, Keyed(d), NEW s, s # <<>>,
           NEW K \in {SessionKeys, ShareKeys, PointerKeys}, Aside(s, K)
    PROVE  /\ Same(d, Apply(d, Head(s)), K) /\ Aside(Tail(s), K)
           /\ Same(d, ApplyAll(d, s), K)
<1>1. ASSUME NEW e, Keyed(e), NEW c, c.key \notin K
      PROVE  Keyed(Apply(e, c)) /\ Same(e, Apply(e, c), K)
  BY <1>1, OtherKey DEF Same, SessionKeys, ShareKeys, PointerKeys
<1>2. ASSUME NEW c, s = <<c>>, c.key \notin K
      PROVE  /\ Same(d, Apply(d, Head(s)), K) /\ Aside(Tail(s), K)
             /\ Same(d, ApplyAll(d, s), K)
  <2>1. Head(s) = c /\ Tail(s) = <<>> /\ ApplyAll(d, s) = Apply(d, c)
    BY <1>2 DEF ApplyAll
  <2>2. QED
    BY <2>1, <1>1, <1>2 DEF Aside
<1>3. ASSUME NEW c, NEW e, s = <<c, e>>, c.key \notin K, e.key \notin K
      PROVE  /\ Same(d, Apply(d, Head(s)), K) /\ Aside(Tail(s), K)
             /\ Same(d, ApplyAll(d, s), K)
  <2>1. /\ Head(s) = c /\ Tail(s) = <<e>>
        /\ ApplyAll(d, s) = Apply(Apply(d, c), e)
    BY <1>3 DEF ApplyAll
  <2>2. Keyed(Apply(d, c)) /\ Same(d, Apply(d, c), K)
    BY <1>1, <1>3
  <2>3. Same(Apply(d, c), Apply(Apply(d, c), e), K)
    BY <2>2, <1>1, <1>3
  <2>4. Same(d, Apply(Apply(d, c), e), K)
    BY <2>2, <2>3 DEF Same
  <2>5. Aside(<<e>>, K)
    BY <1>3 DEF Aside
  <2>6. QED
    BY <2>1, <2>2, <2>4, <2>5
<1>4. QED
  BY <1>2, <1>3 DEF Aside

(* The calls of the node.                                                  *)
LEMMA AsideCalls ==
    ASSUME NEW K, NEW v
    PROVE  /\ Aside(<<>>, K)
           /\ K = SessionKeys =>
                /\ Aside(ShareWrite(backend, v), K) /\ Aside(<<Put("active", v)>>, K)
                /\ Aside(<<Put("state", v)>>, K) /\ Aside(<<Add("poisoned", v)>>, K)
                /\ Aside(<<Add("block", v), Put("last", v)>>, K)
                /\ Aside(<<Delete("block", v)>>, K)
                /\ Aside(<<Put("schema", currentSchemaVersion)>>, K)
           /\ K = ShareKeys \/ K = PointerKeys =>
                /\ Aside(SessionWrite(backend, v), K)
                /\ Aside(SessionDelete(backend, v), K)
                /\ Aside(<<Put("state", v)>>, K) /\ Aside(<<Add("poisoned", v)>>, K)
                /\ Aside(<<Add("block", v), Put("last", v)>>, K)
                /\ Aside(<<Delete("block", v)>>, K)
                /\ Aside(<<Put("schema", currentSchemaVersion)>>, K)
           /\ K = ShareKeys => Aside(<<Put("active", v)>>, K)
           /\ K = PointerKeys => Aside(ShareWrite(backend, v), K)
<1>1. \A k, x : /\ Add(k, x).key = k /\ Delete(k, x).key = k /\ Put(k, x).key = k
  BY DEF Add, Delete, Put
<1>2. /\ \A c : c.key \notin K => Aside(<<c>>, K)
      /\ \A c, e : c.key \notin K /\ e.key \notin K => Aside(<<c, e>>, K)
      /\ Aside(<<>>, K)
  BY DEF Aside
<1>3. QED
  BY <1>1, <1>2 DEF SessionKeys, ShareKeys, PointerKeys, ShareWrite,
     SessionWrite, SessionDelete

(* The steps of a round in one view: where it goes, with which call, and   *)
(* what becomes of the active version.                                     *)
Moves(r) ==
    /\ \/ at'[r] \in {"running", "idle", "members", "listing"} /\ todo'[r] = <<>>
       \/ at'[r] = "session" /\ todo'[r] = SessionWrite(backend, ver'[r])
       \/ at'[r] = "cleanup" /\ todo'[r] = SessionDelete(backend, ver'[r])
       \/ at'[r] = "share" /\ todo'[r] = ShareWrite(backend, ver'[r])
       \/ at'[r] = "pointer" /\ todo'[r] = <<Put("active", ver'[r])>>
       \/ at'[r] = "mark" /\ todo'[r] = <<Put("state", src'[r])>>
       \/ at'[r] = "poison" /\ todo'[r] = <<Add("poisoned", src'[r])>>
       \/ /\ at'[r] = "rollback" /\ todo'[r] = <<Put("active", keystore'.active)>>
          /\ keystore'.active \in keystore'.held
    /\ at'[r] = "idle" => at[r] = "cleanup" /\ todo[r] = <<>>
    /\ at[r] = "share" => at'[r] = "pointer"
    /\ at[r] \in {"pointer", "rollback"} => todo[r] = <<>>
    /\ at[r] = "pointer" => keystore'.active = ver[r]
    /\ at[r] # "pointer" /\ at'[r] # "rollback"
         => keystore'.active = keystore.active

(* What a step of a round changes.                                         *)
LEMMA RoundMoves ==
    ASSUME Core, NEW r \in Rounds, Round(r)
    PROVE  Moves(r)
<1>a. /\ r \in Actors /\ BackendTyped
      /\ at = [p \in Actors |-> at[p]] /\ todo = [p \in Actors |-> todo[p]]
      /\ ver = [p \in Actors |-> ver[p]]
      /\ keystore \in [held : SUBSET Versions, active : Versions \cup {0},
                        poisoned : SUBSET Versions]
  BY DEF Core, PlaceInv, CountInv, ShapeInv, KeyInv, Actors
<1> USE <1>a DEF Moves, Call, Returned, roundVars
<1>1. CASE StartRound(r)
  BY <1>1, IndexedWrites DEF StartRound
<1>2. CASE SessionSaved(r) \/ SavePhase(r)
  BY <1>2, IndexedWrites DEF SessionSaved, SavePhase
<1>3. CASE AbortRound(r) \/ SaveVersion(r)
  BY <1>3, IndexedWrites DEF AbortRound, SaveVersion, Cleanup
<1>4. CASE MovePointer(r)
  BY <1>4, Writes DEF MovePointer
<1>5. CASE AddVersion(r)
  <2>1. /\ at[r] = "pointer" /\ todo[r] = <<>> /\ UNCHANGED <<ver, src>>
        /\ keystore'.active = ver[r]
    BY <1>5 DEF AddVersion
  <2>2. \/ at'[r] = "mark" /\ todo'[r] = <<Put("state", src[r])>>
        \/ at'[r] = "cleanup" /\ todo'[r] = SessionDelete(backend, ver[r])
    BY <1>5, Writes, IndexedWrites DEF AddVersion, Cleanup
  <2>3. QED
    BY <2>1, <2>2
<1>6. CASE MarkPoisoned(r)
  BY <1>6, Writes DEF MarkPoisoned
<1>7. CASE BeginList(r)
  BY <1>7 DEF BeginList
<1>8. CASE FetchRecords(r)
  <2>1. seen[r] \subseteq db.share
    BY <1>8 DEF FetchRecords, Core, RoundInv, RoundOK
  <2>2. Redis!SRem(seen[r], Redis!MGet(db, seen[r])) = {}
    BY <2>1 DEF Redis!SRem, Redis!MGet
  <2>3. todo'[r] = <<>> /\ at'[r] = "listing" /\ UNCHANGED keystore
    BY <1>8, <2>2, NothingToSend DEF FetchRecords
  <2>4. QED
    BY <1>8, <2>3 DEF FetchRecords
<1>9. CASE RollBack(r)
  <2>1. at[r] = "listing" /\ UNCHANGED <<ver, src>>
    BY <1>9 DEF RollBack
  <2>2. CASE Cleanup(r) /\ UNCHANGED keystore
    BY <2>1, <2>2, IndexedWrites DEF Cleanup
  <2>3. CASE \E target \in keystore.held :
               /\ keystore' = [keystore EXCEPT !.active = target]
               /\ Call(r, "rollback", SetActiveVersionTimestamp(target))
    BY <2>1, <2>3, Writes
  <2>4. QED
    BY <1>9, <2>2, <2>3 DEF RollBack
<1>10. CASE FinishRound(r)
  BY <1>10, IndexedWrites DEF FinishRound, Cleanup
<1>11. CASE SessionDeleted(r)
  BY <1>11 DEF SessionDeleted
<1>12. QED
  BY <1>1, <1>2, <1>3, <1>4, <1>5, <1>6, <1>7, <1>8, <1>9, <1>10, <1>11 DEF Round

(* Only a session being saved or deleted touches the sessions, only a      *)
(* version being saved the key shares, and only the pointer being moved    *)
(* the pointer.                                                            *)
Apart(p) ==
    /\ at[p] \notin {"session", "cleanup", "sweep"} => Aside(todo[p], SessionKeys)
    /\ at[p] # "share" => Aside(todo[p], ShareKeys)
    /\ at[p] \notin {"pointer", "rollback"} => Aside(todo[p], PointerKeys)

ApartInv == \A p \in Actors : Apart(p)

(* Every step preserves ApartInv.                                          *)
LEMMA ApartStep == Core /\ ApartInv /\ [Next]_vars => ApartInv'
<1> SUFFICES ASSUME Core, ApartInv, [Next]_vars PROVE ApartInv'
  OBVIOUS
<1>a. /\ at = [q \in Actors |-> at[q]] /\ todo = [q \in Actors |-> todo[q]]
      /\ seen = [q \in Actors |-> seen[q]] /\ BackendTyped
      /\ PlaceInv /\ CountInv
  BY DEF Core, PlaceInv, CountInv, ShapeInv
<1>b. /\ \A r \in Rounds : r \in Actors /\ r # "main" /\ r # "poller"
      /\ "main" \in Actors /\ "poller" \in Actors
  BY BoundsAssumption DEF Actors
(* A step in which only p moves.                                           *)
<1>c. ASSUME NEW p \in Actors, Apart(p)',
             \A q \in Actors : q # p => at'[q] = at[q] /\ todo'[q] = todo[q]
      PROVE  ApartInv'
  BY <1>c DEF ApartInv, Apart
<1>d. ASSUME NEW p \in Actors, todo'[p] = <<>>
      PROVE  Apart(p)'
  BY <1>d, AsideCalls DEF Apart
<1>1. ASSUME NEW r \in Rounds, Round(r)
      PROVE  ApartInv'
  <2>1. \A q \in Actors : q # r => at'[q] = at[q] /\ todo'[q] = todo[q]
    <3>1. CASE StartRound(r)
      BY <3>1, <1>a DEF StartRound, Call
    <3>2. CASE ~StartRound(r)
      BY <3>2, <1>1, <1>a, RoundFrame
    <3>3. QED
      BY <3>1, <3>2
  <2>2. Moves(r)
    BY <1>1, RoundMoves
  <2>3. Apart(r)'
    BY <2>2, AsideCalls DEF Moves, Apart
  <2>4. QED
    BY <2>1, <2>3, <1>b, <1>c
<1>2. ASSUME NEW p \in Actors, Execute(p)
      PROVE  ApartInv'
  <2>1. /\ todo[p] # <<>> /\ at' = at
        /\ \A q \in Actors : q # p => todo'[q] = todo[q]
        /\ todo'[p] \in {Tail(todo[p]), <<>>}
    BY <1>2, <1>a DEF Execute
  <2>2. Keyed(db) /\ Apart(p)
    BY StoreKeyed DEF Core, StoreInv, Sound, ApartInv
  <2>3. \A K \in {SessionKeys, ShareKeys, PointerKeys} :
           Aside(todo[p], K) => Aside(todo'[p], K)
    BY <2>1, <2>2, AsideDone, AsideCalls
  <2>4. Apart(p)'
    BY <2>1, <2>2, <2>3 DEF Apart
  <2>5. QED
    BY <2>1, <2>4, <1>c
<1>3. ASSUME NEW p \in Actors, StoreError(p) \/ RefusedCall(p)
      PROVE  ApartInv'
  <2>1. /\ ErrorMoves(p) \/ (at[p] = "poison" /\ p \in Rounds /\ Cleanup(p))
    BY <1>3, <1>a, ErrorFrame
  <2>2. /\ \A q \in Actors : q # p => at'[q] = at[q] /\ todo'[q] = todo[q]
        /\ \/ todo'[p] = <<>>
           \/ at'[p] = "cleanup" /\ todo'[p] = SessionDelete(backend, ver[p])
    BY <2>1, <1>a, IndexedWrites DEF ErrorMoves, Cleanup, Call
  <2>3. Apart(p)'
    BY <2>2, AsideCalls DEF Apart
  <2>4. QED
    BY <2>2, <2>3, <1>c
<1>4. CASE SaveBlock \/ BlockSaved \/ DeleteBlock \/ BlockDeleted
  <2>1. \A q \in Actors : q # "poller" => at'[q] = at[q] /\ todo'[q] = todo[q]
    BY <1>4, <1>a DEF SaveBlock, BlockSaved, DeleteBlock, BlockDeleted, Call
  <2>2. \/ todo'["poller"] = <<>>
        \/ todo'["poller"] = <<Add("block", height + 1), Put("last", height + 1)>>
        \/ todo'["poller"] = <<Delete("block", height)>>
    BY <1>4, <1>a, <1>b, Writes DEF SaveBlock, BlockSaved, DeleteBlock,
       BlockDeleted, Call
  <2>3. Apart("poller")'
    BY <2>2, AsideCalls DEF Apart
  <2>4. QED
    BY <2>1, <2>3, <1>b, <1>c
<1>5. CASE ExecuteLate \/ UNCHANGED vars
  BY <1>5 DEF ExecuteLate, vars, ApartInv, Apart
<1>6. CASE Close \/ OpenStore \/ RestoreState \/ SweepSession \/ Start
  <2>1. \A q \in Actors : q # "main" => at'[q] = at[q] /\ todo'[q] = todo[q]
    BY <1>6, <1>a DEF Close, OpenStore, RestoreState, SweepSession, Start, Call
  <2>2. initSchema \in {<<>>, <<Put("schema", currentSchemaVersion)>>}
    BY <1>a, SchemaCall
  <2>3. \/ todo'["main"] = <<>>
        \/ todo'["main"] = <<Put("schema", currentSchemaVersion)>>
        \/ at'["main"] = "sweep" /\ \E s : todo'["main"] = SessionDelete(backend, s)
    <3>1. CASE Close
      BY <3>1, <1>a, <1>b DEF Close, Up, PlaceInv, Quiet
    <3>2. CASE OpenStore
      BY <3>2, <2>2, <1>a, <1>b DEF OpenStore, Call
    <3>3. CASE RestoreState \/ Start
      BY <3>3, <1>a, <1>b DEF RestoreState, Start, Call
    <3>4. CASE SweepSession
      BY <3>4, <1>a, <1>b, IndexedWrites DEF SweepSession, Call
    <3>5. QED
      BY <1>6, <3>1, <3>2, <3>3, <3>4
  <2>4. Apart("main")'
    BY <2>3, AsideCalls DEF Apart
  <2>5. QED
    BY <2>1, <2>4, <1>b, <1>c
<1>7. CASE Crash
  BY <1>7, AsideCalls DEF Crash, ApartInv, Apart
<1>8. QED
  BY <1>1, <1>2, <1>3, <1>4, <1>5, <1>6, <1>7 DEF Next

-----------------------------------------------------------------------------
(***************************************************************************)
(* Sessions. In a life of the process in which no call failed, nothing is  *)
(* done late; rounds have sessions of their own; and a session that the    *)
(* store lists is being swept, or is that of a round that still runs.      *)
(***************************************************************************)
QuietInv == at["main"] \in {"sweep", "up", "closing"} /\ ~failed => late = <<>>

DistinctInv ==
    \A r, q \in Rounds :
        at[r] # "idle" /\ at[q] # "idle" /\ ver[r] = ver[q] => r = q

SavesSession(bk, s, v) ==
    s = <<>> \/ s = SessionWrite(bk, v) \/ s = <<Add("sessionIndex", v)>>
DeletesSession(bk, s, v) ==
    s = <<>> \/ s = SessionDelete(bk, v) \/ s = <<Delete("sessionIndex", v)>>

SessionCall(p) ==
    /\ p \in Rounds /\ at[p] = "session" => SavesSession(backend, todo[p], ver[p])
    /\ p \in Rounds /\ at[p] = "cleanup" => DeletesSession(backend, todo[p], ver[p])
    /\ at[p] = "sweep" => \E s : DeletesSession(backend, todo[p], s)

SessionCallInv == \A p \in Actors : SessionCall(p)

SweepInv ==
    at["main"] = "sweep" /\ ~failed =>
        \A s \in Live(backend, db) :
            s \in seen["main"] \/ todo["main"] = SessionDelete(backend, s)

LiveInv ==
    Up /\ ~failed =>
        /\ \A s \in Live(backend, db) :
             \E r \in Rounds : at[r] # "idle" /\ ver[r] = s
        /\ \A r \in Rounds :
             at[r] = "cleanup" => \/ todo[r] = SessionDelete(backend, ver[r])
                                 \/ ver[r] \notin db.session

(* The initial states satisfy the invariants about sessions.               *)
LEMMA InitSessions ==
    Init => ApartInv /\ QuietInv /\ DistinctInv /\ SessionCallInv /\ SweepInv
            /\ LiveInv
<1>1. Init => ApartInv
  BY AsideCalls DEF Init, ApartInv, Apart
<1>2. Init => QuietInv /\ DistinctInv /\ SessionCallInv /\ SweepInv /\ LiveInv
  BY BoundsAssumption DEF Init, QuietInv, DistinctInv, SessionCallInv,
     SessionCall, SavesSession, DeletesSession, SweepInv, LiveInv, Actors, Up
<1>3. QED
  BY <1>1, <1>2

(* Every step preserves DistinctInv.                                       *)
LEMMA DistinctStep == Core /\ DistinctInv /\ [Next]_vars => DistinctInv'
<1> SUFFICES ASSUME Core, DistinctInv, [Next]_vars PROVE DistinctInv'
  OBVIOUS
<1>a. /\ at = [q \in Actors |-> at[q]] /\ ver = [q \in Actors |-> ver[q]]
      /\ PlaceInv /\ CountInv
  BY DEF Core, PlaceInv, CountInv, ShapeInv
<1>b. \A r \in Rounds : r \in Actors /\ r # "main" /\ r # "poller"
  BY BoundsAssumption DEF Actors
(* No round starts.                                                        *)
<1>c. ASSUME ver' = ver, \A r \in Rounds : at[r] = "idle" => at'[r] = "idle"
      PROVE  DistinctInv'
  BY <1>c DEF DistinctInv
<1>1. ASSUME NEW r \in Rounds, Round(r)
      PROVE  DistinctInv'
  <2>1. CASE ~StartRound(r)
    BY <2>1, <1>1, <1>a, <1>b, <1>c, RoundFrame
  <2>2. CASE StartRound(r)
    <3>1. /\ \A q \in Rounds : q # r => at'[q] = at[q] /\ ver'[q] = ver[q]
          /\ ver'[r] = clock + 1
      BY <2>2, <1>a, <1>b DEF StartRound, Call
    <3>2. \A q \in Rounds : at[q] # "idle" => ver[q] # clock + 1
      <4>1. clock \in Nat /\ \A n \in 1..clock : n # clock + 1
        BY DEF Core, CountInv, ClockInv
      <4>2. QED
        BY <4>1 DEF Core, CountInv, StampInv
    <3>3. QED
      BY <3>1, <3>2 DEF DistinctInv
  <2>3. QED
    BY <2>1, <2>2
<1>2. ASSUME NEW p \in Actors, StoreError(p) \/ RefusedCall(p)
      PROVE  DistinctInv'
  <2>1. /\ ErrorMoves(p) \/ (at[p] = "poison" /\ p \in Rounds /\ Cleanup(p))
        /\ ver' = ver
    BY <1>2, <1>a, ErrorFrame
  <2>2. \A q \in Rounds : at[q] = "idle" => at'[q] = "idle"
    BY <2>1, <1>a, <1>b DEF ErrorMoves, Cleanup, Call
  <2>3. QED
    BY <2>1, <2>2, <1>c
<1>3. CASE SaveBlock \/ BlockSaved \/ DeleteBlock \/ BlockDeleted
  BY <1>3, <1>a, <1>b, <1>c DEF SaveBlock, BlockSaved, DeleteBlock,
     BlockDeleted, Call, roundVars
<1>4. CASE Close \/ OpenStore \/ RestoreState \/ SweepSession \/ Start
  <2>1. ver' = ver /\ \A q \in Rounds : at'[q] = at[q]
    BY <1>4, <1>a, <1>b DEF Close, OpenStore, RestoreState, SweepSession, Start,
       Call, roundVars
  <2>2. QED
    BY <2>1, <1>c
<1>5. CASE Crash
  BY <1>5, <1>b DEF Crash, DistinctInv
<1>6. CASE (\E p \in Actors : Execute(p)) \/ ExecuteLate \/ UNCHANGED vars
  BY <1>6, <1>c DEF Execute, ExecuteLate, vars, roundVars
<1>7. QED
  BY <1>1, <1>2, <1>3, <1>4, <1>5, <1>6 DEF Next

(* Every step preserves QuietInv.                                          *)
LEMMA QuietStep == Core /\ QuietInv /\ [Next]_vars => QuietInv'
<1> SUFFICES ASSUME Core, QuietInv, [Next]_vars PROVE QuietInv'
  OBVIOUS
<1>a. at = [q \in Actors |-> at[q]] /\ PlaceInv /\ CountInv
  BY DEF Core, PlaceInv
<1>b. /\ \A r \in Rounds : r \in Actors /\ r # "main"
      /\ "main" \in Actors /\ "poller" # "main"
  BY BoundsAssumption DEF Actors
<1>1. ASSUME NEW r \in Rounds, Round(r)
      PROVE  QuietInv'
  <2>1. at'["main"] = at["main"] /\ UNCHANGED <<late, failed>>
    <3>1. CASE StartRound(r)
      BY <3>1, <1>a, <1>b DEF StartRound, Call
    <3>2. CASE ~StartRound(r)
      BY <3>2, <1>1, <1>a, <1>b, RoundFrame DEF history
    <3>3. QED
      BY <3>1, <3>2
  <2>2. QED
    BY <2>1 DEF QuietInv
<1>2. ASSUME NEW p \in Actors, StoreError(p)
      PROVE  QuietInv'
  BY <1>2 DEF StoreError, QuietInv
<1>3. ASSUME NEW p \in Actors, RefusedCall(p)
      PROVE  QuietInv'
  BY <1>3, <1>a, ErrorFrame DEF QuietInv, Closed
<1>4. CASE SaveBlock \/ BlockSaved \/ DeleteBlock \/ BlockDeleted
  <2>1. at'["main"] = at["main"] /\ UNCHANGED <<late, failed>>
    BY <1>4, <1>a, <1>b DEF SaveBlock, BlockSaved, DeleteBlock, BlockDeleted,
       Call, history
  <2>2. QED
    BY <2>1 DEF QuietInv
<1>5. CASE (\E p \in Actors : Execute(p)) \/ UNCHANGED vars
  BY <1>5 DEF Execute, vars, history, QuietInv
<1>6. CASE ExecuteLate
  BY <1>6 DEF ExecuteLate, history, QuietInv
<1>7. CASE Close \/ SweepSession \/ Start
  BY <1>7, <1>a, <1>b DEF Close, SweepSession, Start, Up, Returned, history,
     QuietInv
<1>8. CASE OpenStore
  BY <1>8, <1>a, <1>b DEF OpenStore, Call, QuietInv
<1>9. CASE RestoreState
  <2>1. PICK unread \in BOOLEAN : failed' = (unread \/ late # <<>>)
    BY <1>9 DEF RestoreState
  <2>2. late' = late
    BY <1>9 DEF RestoreState
  <2>3. QED
    BY <2>1, <2>2, Zenon DEF QuietInv
<1>10. CASE Crash
  BY <1>10, <1>b DEF Crash, QuietInv
<1>11. QED
  BY <1>1, <1>2, <1>3, <1>4, <1>5, <1>6, <1>7, <1>8, <1>9, <1>10 DEF Next

(* The steps within a life of the process in which no call failed.         *)
LEMMA LifeStep ==
    ASSUME Core, QuietInv, [Next]_vars,
           at'["main"] \in {"sweep", "up"}, ~failed'
    PROVE  \/ RestoreState
           \/ /\ at["main"] \in {"sweep", "up"} /\ ~failed
              /\ \/ \E r \in Rounds : Round(r)
                 \/ \E p \in Actors : Execute(p)
                 \/ SaveBlock \/ BlockSaved \/ DeleteBlock \/ BlockDeleted
                 \/ SweepSession \/ Start
                 \/ UNCHANGED vars
<1> DEFINE Alive == at["main"] \in {"sweep", "up"} /\ ~failed
<1>a. at = [q \in Actors |-> at[q]] /\ PlaceInv /\ CountInv
  BY DEF Core, PlaceInv
<1>b. /\ \A r \in Rounds : r \in Actors /\ r # "main"
      /\ "main" \in Actors /\ "poller" # "main"
  BY BoundsAssumption DEF Actors
<1>c. at'["main"] = at["main"] /\ failed' = failed => Alive
  OBVIOUS
<1>1. ASSUME NEW r \in Rounds, Round(r)
      PROVE  Alive
  <2>1. CASE StartRound(r)
    BY <2>1, <1>a, <1>b, <1>c DEF StartRound, Call
  <2>2. CASE ~StartRound(r)
    BY <2>2, <1>1, <1>a, <1>b, <1>c, RoundFrame DEF history
  <2>3. QED
    BY <2>1, <2>2
<1>2. \A p \in Actors : ~StoreError(p)
  BY DEF StoreError
<1>3. ASSUME NEW p \in Actors, RefusedCall(p)
      PROVE  FALSE
  <2>1. at["main"] = "closing" /\ at[p] \in Calls
    BY <1>3 DEF RefusedCall, Closed
  <2>2. p # "main"
    BY <2>1 DEF Calls
  <2>3. ErrorMoves(p) \/ (at[p] = "poison" /\ p \in Rounds /\ Cleanup(p))
    BY <1>3, <1>a, ErrorFrame
  <2>4. at'["main"] = at["main"]
    BY <2>2, <2>3, <1>a, <1>b DEF ErrorMoves, Cleanup, Call
  <2>5. QED
    BY <2>1, <2>4
<1>4. ASSUME SaveBlock \/ BlockSaved \/ DeleteBlock \/ BlockDeleted
      PROVE  Alive
  BY <1>4, <1>a, <1>b, <1>c DEF SaveBlock, BlockSaved, DeleteBlock,
     BlockDeleted, Call, history
<1>5. ASSUME (\E p \in Actors : Execute(p)) \/ UNCHANGED vars
      PROVE  Alive
  BY <1>5, <1>c DEF Execute, vars, history
<1>6. ~ExecuteLate
  <2>1. ASSUME ExecuteLate
        PROVE  Alive /\ late # <<>>
    BY <2>1, <1>c DEF ExecuteLate, history
  <2>2. QED
    BY <2>1 DEF QuietInv
<1>7. ASSUME SweepSession \/ Start
      PROVE  Alive
  BY <1>7 DEF SweepSession, Start, Returned, history
<1>8. ~Close /\ ~OpenStore /\ ~Crash
  BY <1>a, <1>b DEF Close, OpenStore, Crash, Call
<1> HIDE DEF Alive
<1>9. RestoreState \/ /\ Alive
                      /\ \/ \E r \in Rounds : Round(r)
                         \/ \E p \in Actors : Execute(p)
                         \/ SaveBlock \/ BlockSaved \/ DeleteBlock \/ BlockDeleted
                         \/ SweepSession \/ Start
                         \/ UNCHANGED vars
  BY <1>1, <1>2, <1>3, <1>4, <1>5, <1>6, <1>7, <1>8 DEF Next
<1>10. QED
  BY <1>9 DEF Alive

(* What is left of such a call after (a part of) it, and what it has done. *)
After(bk, d, s) == IF bk = "redis" THEN Apply(d, Head(s)) ELSE ApplyAll(d, s)
Rest(bk, s) == IF bk = "redis" THEN Tail(s) ELSE <<>>

(* What the next command of a session's save or deletion changes.          *)
LEMMA SessionCommand ==
    ASSUME NEW bk, NEW d \in Store, NEW s, s # <<>>, NEW v
    PROVE  /\ SavesSession(bk, s, v) =>
                /\ SavesSession(bk, Rest(bk, s), v)
                /\ After(bk, d, s).session \subseteq d.session \cup {v}
                /\ Live(bk, After(bk, d, s)) \subseteq Live(bk, d) \cup {v}
           /\ DeletesSession(bk, s, v) =>
                /\ DeletesSession(bk, Rest(bk, s), v)
                /\ After(bk, d, s).session \subseteq d.session
                /\ Live(bk, After(bk, d, s)) \subseteq Live(bk, d)
                /\ s = SessionDelete(bk, v) => v \notin After(bk, d, s).session
<1> DEFINE e == After(bk, d, s)
           rest == Rest(bk, s)
<1>0. /\ bk = "redis" => e = Apply(d, Head(s)) /\ rest = Tail(s)
      /\ bk # "redis" => e = ApplyAll(d, s) /\ rest = <<>>
  BY DEF After, Rest
<1> HIDE DEF e, rest
<1>a. \A c : Head(<<c>>) = c /\ Tail(<<c>>) = <<>> /\ ApplyAll(d, <<c>>) = Apply(d, c)
  BY DEF ApplyAll
<1>b. \A c, f : Head(<<c, f>>) = c /\ Tail(<<c, f>>) = <<f>>
  OBVIOUS
<1>c. /\ Apply(d, Add("session", v)).session = d.session \cup {v}
      /\ Apply(d, Add("session", v)).sessionIndex = d.sessionIndex
      /\ Apply(d, Add("sessionIndex", v)).session = d.session
      /\ Apply(d, Add("sessionIndex", v)).sessionIndex = d.sessionIndex \cup {v}
      /\ Apply(d, Delete("session", v)).session = d.session \ {v}
      /\ Apply(d, Delete("session", v)).sessionIndex = d.sessionIndex
      /\ Apply(d, Delete("sessionIndex", v)).session = d.session
      /\ Apply(d, Delete("sessionIndex", v)).sessionIndex = d.sessionIndex \ {v}
  BY DEF Apply, Add, Delete, Store
<1>1. CASE s = SessionWrite(bk, v)
  <2>1. e = Apply(d, Add("session", v)) /\ SavesSession(bk, rest, v)
    BY <1>0, <1>1, <1>a, <1>b DEF SessionWrite, SavesSession
  <2>2. ~DeletesSession(bk, s, v)
    BY <1>1 DEF SessionWrite, DeletesSession, SessionDelete, Add, Delete
  <2>3. QED
    BY <2>1, <2>2, <1>c DEF Live, e, rest
<1>2. CASE s = <<Add("sessionIndex", v)>>
  <2>1. e = Apply(d, Add("sessionIndex", v)) /\ SavesSession(bk, rest, v)
    BY <1>0, <1>2, <1>a DEF SavesSession
  <2>2. ~DeletesSession(bk, s, v)
    BY <1>2 DEF DeletesSession, SessionDelete, Add, Delete
  <2>3. QED
    BY <2>1, <2>2, <1>c DEF Live, e, rest
<1>3. CASE s = SessionDelete(bk, v)
  <2>1. e = Apply(d, Delete("session", v)) /\ DeletesSession(bk, rest, v)
    BY <1>0, <1>3, <1>a, <1>b DEF SessionDelete, DeletesSession
  <2>2. ~SavesSession(bk, s, v)
    BY <1>3 DEF SessionWrite, SavesSession, SessionDelete, Add, Delete
  <2>3. QED
    BY <2>1, <2>2, <1>c DEF Live, e, rest
<1>4. CASE s = <<Delete("sessionIndex", v)>>
  <2>1. e = Apply(d, Delete("sessionIndex", v)) /\ DeletesSession(bk, rest, v)
    BY <1>0, <1>4, <1>a DEF DeletesSession
  <2>2. ~SavesSession(bk, s, v) /\ s # SessionDelete(bk, v)
    BY <1>4 DEF SavesSession, SessionWrite, SessionDelete, Add, Delete
  <2>3. QED
    BY <2>1, <2>2, <1>c DEF Live, e, rest
<1>5. QED
  BY <1>1, <1>2, <1>3, <1>4 DEF SavesSession, DeletesSession

(* Every step preserves SessionCallInv.                                    *)
LEMMA SessionCallStep ==
    Core /\ SessionCallInv /\ [Next]_vars => SessionCallInv'
<1> SUFFICES ASSUME Core, SessionCallInv, [Next]_vars PROVE SessionCallInv'
  OBVIOUS
<1>a. /\ at = [q \in Actors |-> at[q]] /\ todo = [q \in Actors |-> todo[q]]
      /\ ver = [q \in Actors |-> ver[q]] /\ BackendTyped
      /\ PlaceInv /\ CountInv /\ db \in Store /\ backend' = backend
  BY StoreChange DEF Core, PlaceInv, CountInv, ShapeInv, StoreInv, Sound
<1>b. /\ \A r \in Rounds : r \in Actors /\ r # "main" /\ r # "poller"
      /\ "main" \in Actors /\ "poller" \in Actors /\ "poller" \notin Rounds
      /\ "main" \notin Rounds
  BY BoundsAssumption DEF Actors
<1>c. ASSUME NEW p \in Actors, SessionCall(p)',
             \A q \in Actors : q # p => /\ at'[q] = at[q] /\ todo'[q] = todo[q]
                                     /\ ver'[q] = ver[q]
      PROVE  SessionCallInv'
  BY <1>a, <1>c DEF SessionCallInv, SessionCall
<1>1. ASSUME NEW r \in Rounds, Round(r)
      PROVE  SessionCallInv'
  <2>1. \A q \in Actors : q # r => /\ at'[q] = at[q] /\ todo'[q] = todo[q]
                                 /\ ver'[q] = ver[q]
    <3>1. CASE StartRound(r)
      BY <3>1, <1>a DEF StartRound, Call
    <3>2. CASE ~StartRound(r)
      BY <3>2, <1>1, <1>a, RoundFrame
    <3>3. QED
      BY <3>1, <3>2
  <2>2. Moves(r)
    BY <1>1, RoundMoves
  <2>3. SessionCall(r)'
    BY <2>2, <1>a DEF Moves, SessionCall, SavesSession, DeletesSession
  <2>4. QED
    BY <2>1, <2>3, <1>b, <1>c
<1>2. ASSUME NEW p \in Actors, Execute(p)
      PROVE  SessionCallInv'
  <2>1. /\ todo[p] # <<>> /\ UNCHANGED <<at, ver>>
        /\ \A q \in Actors : q # p => todo'[q] = todo[q]
        /\ todo'[p] = Rest(backend, todo[p])
    BY <1>2, <1>a DEF Execute, roundVars, Rest
  <2>2. \A v : /\ SavesSession(backend, todo[p], v) => SavesSession(backend, todo'[p], v)
               /\ DeletesSession(backend, todo[p], v)
                    => DeletesSession(backend, todo'[p], v)
    <3> TAKE v
    <3>1. /\ SavesSession(backend, todo[p], v)
               => SavesSession(backend, Rest(backend, todo[p]), v)
          /\ DeletesSession(backend, todo[p], v)
               => DeletesSession(backend, Rest(backend, todo[p]), v)
      BY <2>1, <1>a, SessionCommand
    <3>2. QED
      BY <2>1, <3>1
  <2>3. SessionCall(p)'
    BY <2>1, <2>2, <1>a DEF SessionCallInv, SessionCall
  <2>4. QED
    BY <2>1, <2>3, <1>c
<1>3. ASSUME NEW p \in Actors, StoreError(p) \/ RefusedCall(p)
      PROVE  SessionCallInv'
  <2>1. /\ ErrorMoves(p) \/ (at[p] = "poison" /\ p \in Rounds /\ Cleanup(p))
        /\ ver' = ver
    BY <1>3, <1>a, ErrorFrame
  <2>2. /\ \A q \in Actors : q # p => at'[q] = at[q] /\ todo'[q] = todo[q]
        /\ \/ todo'[p] = <<>>
           \/ at'[p] = "cleanup" /\ todo'[p] = SessionDelete(backend, ver[p])
    BY <2>1, <1>a, IndexedWrites DEF ErrorMoves, Cleanup, Call
  <2>3. SessionCall(p)'
    BY <2>1, <2>2, <1>a DEF SessionCall, SavesSession, DeletesSession
  <2>4. QED
    BY <2>1, <2>2, <2>3, <1>c
<1>4. CASE SaveBlock \/ BlockSaved \/ DeleteBlock \/ BlockDeleted
  <2>1. /\ \A q \in Actors : q # "poller" => at'[q] = at[q] /\ todo'[q] = todo[q]
        /\ ver' = ver /\ at'["poller"] # "sweep"
    BY <1>4, <1>a, <1>b DEF SaveBlock, BlockSaved, DeleteBlock, BlockDeleted,
       Call, roundVars
  <2>2. SessionCall("poller")'
    BY <2>1, <1>b DEF SessionCall
  <2>3. QED
    BY <2>1, <2>2, <1>b, <1>c
<1>5. CASE ExecuteLate \/ UNCHANGED vars
  BY <1>5, <1>a DEF ExecuteLate, vars, roundVars, SessionCallInv, SessionCall
<1>6. CASE Close \/ OpenStore \/ RestoreState \/ SweepSession \/ Start
  <2>1. /\ \A q \in Actors : q # "main" => at'[q] = at[q] /\ todo'[q] = todo[q]
        /\ ver' = ver
    BY <1>6, <1>a DEF Close, OpenStore, RestoreState, SweepSession, Start, Call,
       roundVars
  <2>2. at'["main"] = "sweep" => \E s : DeletesSession(backend, todo'["main"], s)
    <3>1. CASE Close \/ OpenStore \/ Start
      BY <3>1, <1>a, <1>b DEF Close, OpenStore, Start, Call
    <3>2. CASE RestoreState
      BY <3>2, <1>a, <1>b DEF RestoreState, Call, DeletesSession
    <3>3. CASE SweepSession
      <4>1. \E s : todo'["main"] = SessionDelete(backend, s)
        BY <3>3, <1>a, <1>b, IndexedWrites DEF SweepSession, Call
      <4>2. QED
        BY <4>1 DEF DeletesSession
    <3>4. QED
      BY <1>6, <3>1, <3>2, <3>3
  <2>3. SessionCall("main")'
    BY <2>2, <1>a, <1>b DEF SessionCall
  <2>4. QED
    BY <2>1, <2>3, <1>b, <1>c
<1>7. CASE Crash
  BY <1>7, <1>b DEF Crash, SessionCallInv, SessionCall, SavesSession, DeletesSession
<1>8. QED
  BY <1>1, <1>2, <1>3, <1>4, <1>5, <1>6, <1>7 DEF Next

Sessions == /\ Core /\ ApartInv /\ QuietInv /\ DistinctInv /\ SessionCallInv
            /\ SweepInv /\ LiveInv

(* Every step preserves SweepInv and LiveInv.                              *)
LEMMA LiveStep == Sessions /\ [Next]_vars => SweepInv' /\ LiveInv'
<1> SUFFICES ASSUME Sessions, [Next]_vars,
                    at'["main"] \in {"sweep", "up"}, ~failed'
             PROVE  SweepInv' /\ LiveInv'
  BY DEF SweepInv, LiveInv, Up
<1> DEFINE L == Live(backend, db)
<1>a. /\ at = [q \in Actors |-> at[q]] /\ todo = [q \in Actors |-> todo[q]]
      /\ ver = [q \in Actors |-> ver[q]] /\ seen = [q \in Actors |-> seen[q]]
      /\ Core /\ BackendTyped /\ PlaceInv /\ CountInv /\ db \in Store
      /\ backend' = backend
  BY StoreChange DEF Sessions, Core, PlaceInv, CountInv, ShapeInv, StoreInv, Sound
<1>b. /\ \A r \in Rounds : r \in Actors /\ r # "main" /\ r # "poller"
      /\ "main" \in Actors /\ "poller" \in Actors /\ "poller" # "main"
  BY BoundsAssumption DEF Actors
<1>c. \A s : SessionDelete(backend, s) # <<>>
  BY DEF SessionDelete
<1>d. at["main"] = "sweep" => \A q \in Actors : q # "main" => at[q] = "idle"
  BY <1>a DEF PlaceInv
<1>e. \A q \in Actors : at[q] \in {"idle", "up"} => todo[q] = <<>>
  BY <1>a DEF PlaceInv, Quiet
<1>f. L \subseteq db.session /\ Live(backend, db') \subseteq db'.session
  BY DEF Live
<1>1. CASE RestoreState
  <2>1. /\ at'["main"] = "sweep" /\ seen'["main"] = L
        /\ db' = [db EXCEPT !.shareIndex = @ \cap db.share,
                            !.sessionIndex = @ \cap db.session]
    BY <1>1, <1>a, <1>b, Lists DEF RestoreState, Call
  <2>2. Live(backend, db') = L
    BY <2>1, <1>a DEF Live, Store
  <2>3. QED
    BY <2>1, <2>2, <1>a DEF SweepInv, LiveInv, Up
<1> DEFINE Alive == at["main"] \in {"sweep", "up"} /\ ~failed
<1>2. ASSUME NEW r \in Rounds, Round(r), Alive
      PROVE  SweepInv' /\ LiveInv'
  <2>1. /\ \A q \in Actors : q # r => /\ at'[q] = at[q] /\ todo'[q] = todo[q]
                                    /\ ver'[q] = ver[q]
        /\ db' = db /\ (at[r] # "idle" => ver'[r] = ver[r])
        /\ at[r] = "idle" => at["main"] = "up"
    <3>1. CASE StartRound(r)
      BY <3>1, <1>a DEF StartRound, Call, Up
    <3>2. CASE ~StartRound(r)
      BY <3>2, <1>2, <1>a, RoundFrame
    <3>3. QED
      BY <3>1, <3>2
  <2>2. Moves(r)
    BY <1>2, <1>a, RoundMoves
  <2>3. at["main"] = "up" /\ at'["main"] = "up"
    BY <2>1, <1>2, <1>b, <1>d
  <2>4. /\ \A s \in L : \E q \in Rounds : at[q] # "idle" /\ ver[q] = s
        /\ \A q \in Rounds :
             at[q] = "cleanup" => \/ todo[q] = SessionDelete(backend, ver[q])
                                 \/ ver[q] \notin db.session
    BY <2>3, <1>2 DEF Sessions, LiveInv, Up
  <2>5. ASSUME NEW s \in L
        PROVE  \E q \in Rounds : at'[q] # "idle" /\ ver'[q] = s
    <3>1. PICK q \in Rounds : at[q] # "idle" /\ ver[q] = s
      BY <2>4
    <3>2. CASE q # r
      BY <3>1, <3>2, <2>1, <1>b
    <3>3. CASE q = r
      <4>1. at'[r] # "idle"
        <5>1. ASSUME at'[r] = "idle"
              PROVE  FALSE
          <6>1. at[r] = "cleanup" /\ todo[r] = <<>>
            BY <5>1, <2>2 DEF Moves
          <6>2. ver[r] \notin db.session
            BY <6>1, <2>4, <1>c
          <6>3. QED
            BY <6>2, <3>1, <3>3, <1>f
        <5>2. QED
          BY <5>1
      <4>2. QED
        BY <4>1, <3>1, <3>3, <2>1
    <3>4. QED
      BY <3>2, <3>3
  <2>6. ASSUME NEW q \in Rounds, at'[q] = "cleanup"
        PROVE  todo'[q] = SessionDelete(backend, ver'[q]) \/ ver'[q] \notin db.session
    <3>1. CASE q = r
      BY <3>1, <2>2, <2>6 DEF Moves
    <3>2. CASE q # r
      BY <3>2, <2>1, <2>4, <2>6, <1>b
    <3>3. QED
      BY <3>1, <3>2
  <2>7. QED
    BY <2>1, <2>3, <2>5, <2>6, <1>a DEF SweepInv, LiveInv
<1>3. ASSUME NEW p \in Actors, Execute(p), Alive
      PROVE  SweepInv' /\ LiveInv'
  <2>1. /\ todo[p] # <<>> /\ UNCHANGED <<at, ver, seen>>
        /\ \A q \in Actors : q # p => todo'[q] = todo[q]
        /\ db' = After(backend, db, todo[p])
    BY <1>3, <1>a DEF Execute, roundVars, After
  <2>2. \A v :
          /\ SavesSession(backend, todo[p], v) =>
               /\ db'.session \subseteq db.session \cup {v}
               /\ Live(backend, db') \subseteq L \cup {v}
          /\ DeletesSession(backend, todo[p], v) =>
               /\ db'.session \subseteq db.session
               /\ Live(backend, db') \subseteq L
               /\ todo[p] = SessionDelete(backend, v) => v \notin db'.session
    <3> TAKE v
    <3>1. LET e == After(backend, db, todo[p])
          IN  /\ SavesSession(backend, todo[p], v) =>
                   /\ e.session \subseteq db.session \cup {v}
                   /\ Live(backend, e) \subseteq L \cup {v}
              /\ DeletesSession(backend, todo[p], v) =>
                   /\ e.session \subseteq db.session
                   /\ Live(backend, e) \subseteq L
                   /\ todo[p] = SessionDelete(backend, v) => v \notin e.session
      BY <2>1, <1>a, SessionCommand
    <3>2. QED
      BY <2>1, <3>1
  <2> HIDE DEF L
  <2>3. CASE at["main"] = "sweep"
    <3>1. p = "main"
      BY <2>1, <2>3, <1>d, <1>e
    <3>2. PICK s : DeletesSession(backend, todo[p], s)
      BY <2>3, <3>1, <1>b DEF Sessions, SessionCallInv, SessionCall
    <3>3. Live(backend, db') \subseteq L
      BY <3>2, <2>2
    <3>4. \A v \in L : v \in seen["main"] \/ todo[p] = SessionDelete(backend, v)
      BY <2>3, <3>1, <1>3 DEF Sessions, SweepInv, L
    <3>5. \A v : todo[p] = SessionDelete(backend, v) => v \notin db'.session
      BY <2>2 DEF DeletesSession
    <3>6. \A v \in Live(backend, db') : v \in seen'["main"]
      BY <3>3, <3>4, <3>5, <2>1, <1>f
    <3>7. QED
      BY <3>6, <2>1, <2>3, <1>a DEF SweepInv, LiveInv, Up
  <2>4. CASE at["main"] = "up"
    <3>1. /\ \A s \in L : \E q \in Rounds : at[q] # "idle" /\ ver[q] = s
          /\ \A q \in Rounds :
               at[q] = "cleanup" => \/ todo[q] = SessionDelete(backend, ver[q])
                                   \/ ver[q] \notin db.session
      BY <2>4, <1>3 DEF Sessions, LiveInv, Up, L
    <3>2. at[p] # "idle" /\ at[p] # "sweep" /\ p # "main"
      BY <2>1, <2>4, <1>a, <1>b, <1>e DEF PlaceInv, RoundStages, PollerStages, Actors
    <3>3. ASSUME \A s \in Live(backend, db') :
                     s \in L \/ \E q \in Rounds : at[q] # "idle" /\ ver[q] = s,
                 \A q \in Rounds : at[q] = "cleanup" =>
                     IF q = p THEN ver[q] \notin db'.session
                     ELSE ver[q] \in db'.session => ver[q] \in db.session
          PROVE  SweepInv' /\ LiveInv'
      <4>1. \A s \in Live(backend, db') : \E q \in Rounds : at[q] # "idle" /\ ver[q] = s
        BY <3>1, <3>3
      <4>2. \A q \in Rounds : at[q] = "cleanup" =>
               todo'[q] = SessionDelete(backend, ver[q]) \/ ver[q] \notin db'.session
        BY <3>1, <3>3, <2>1, <1>b
      <4>3. QED
        BY <4>1, <4>2, <2>1, <2>4, <1>a DEF SweepInv, LiveInv
    <3>4. CASE p \in Rounds /\ at[p] = "session"
      <4>1. SavesSession(backend, todo[p], ver[p])
        BY <3>4, <1>b DEF Sessions, SessionCallInv, SessionCall
      <4>2. /\ db'.session \subseteq db.session \cup {ver[p]}
            /\ Live(backend, db') \subseteq L \cup {ver[p]}
        BY <4>1, <2>2
      <4>3. \A q \in Rounds : at[q] = "cleanup" => q # p /\ ver[q] # ver[p]
        BY <3>4 DEF Sessions, DistinctInv
      <4>4. QED
        BY <4>2, <4>3, <3>3, <3>4
    <3>5. CASE p \in Rounds /\ at[p] = "cleanup"
      <4>1. DeletesSession(backend, todo[p], ver[p])
        BY <3>5, <1>b DEF Sessions, SessionCallInv, SessionCall
      <4>2. /\ db'.session \subseteq db.session /\ Live(backend, db') \subseteq L
            /\ todo[p] = SessionDelete(backend, ver[p]) => ver[p] \notin db'.session
        BY <4>1, <2>2
      <4>3. QED
        BY <4>2, <3>1, <3>3, <3>5
    <3>6. CASE at[p] \notin {"session", "cleanup"}
      <4>1. Aside(todo[p], SessionKeys)
        BY <3>2, <3>6 DEF Sessions, ApartInv, Apart
      <4>2. Same(db, db', SessionKeys)
        BY <4>1, <2>1, <1>a, StoreKeyed, AsideDone DEF After
      <4>3. db'.session = db.session /\ Live(backend, db') = L
        BY <4>2 DEF Same, SessionKeys, Live, L
      <4>4. QED
        BY <4>3, <3>3, <3>6
    <3>7. p \in Rounds \/ at[p] \notin {"session", "cleanup"}
      BY <3>2, <1>a DEF PlaceInv, PollerStages, Actors
    <3>8. QED
      BY <3>4, <3>5, <3>6, <3>7
  <2>5. QED
    BY <2>3, <2>4, <1>3
<1>4. ASSUME Alive, SaveBlock \/ BlockSaved \/ DeleteBlock \/ BlockDeleted
      PROVE  SweepInv' /\ LiveInv'
  <2>1. /\ UNCHANGED <<db, ver, seen>>
        /\ \A q \in Actors : q # "poller" => at'[q] = at[q] /\ todo'[q] = todo[q]
    BY <1>4, <1>a DEF SaveBlock, BlockSaved, DeleteBlock, BlockDeleted, Call,
       roundVars
  <2>2. /\ \A q \in Rounds : at'[q] = at[q] /\ todo'[q] = todo[q]
        /\ at'["main"] = at["main"] /\ todo'["main"] = todo["main"]
    BY <2>1, <1>b
  <2>3. SweepInv'
    BY <2>1, <2>2, <1>4, <1>a DEF Sessions, SweepInv
  <2>4. LiveInv'
    BY <2>1, <2>2, <1>4, <1>a DEF Sessions, LiveInv, Up
  <2>5. QED
    BY <2>3, <2>4
<1>5. ASSUME Alive, SweepSession
      PROVE  SweepInv' /\ LiveInv'
  <2>0. PICK s \in seen["main"] :
           /\ seen' = [seen EXCEPT !["main"] = @ \ {s}]
           /\ Call("main", "sweep", DeleteProtocolSession(s))
    BY <1>5 DEF SweepSession
  <2>1. /\ seen'["main"] = seen["main"] \ {s}
        /\ todo'["main"] = SessionDelete(backend, s)
    BY <2>0, <1>a, <1>b, IndexedWrites DEF Call
  <2>2. /\ at["main"] = "sweep" /\ todo["main"] = <<>> /\ db' = db
        /\ at'["main"] = "sweep"
    BY <1>5, <1>a, <1>b DEF SweepSession, Returned, Call
  <2>3. \A v \in L : v \in seen["main"]
    BY <2>2, <1>5, <1>c DEF Sessions, SweepInv
  <2>4. \A v \in L : v \in seen'["main"] \/ todo'["main"] = SessionDelete(backend, v)
    BY <2>1, <2>3, <1>a, <1>b
  <2>5. QED
    BY <2>2, <2>4, <1>a DEF SweepInv, LiveInv, Up
<1>6. ASSUME Alive, Start
      PROVE  SweepInv' /\ LiveInv'
  <2>1. /\ at["main"] = "sweep" /\ todo["main"] = <<>> /\ db' = db
        /\ at'["main"] = "up" /\ seen["main"] = {}
        /\ \A r \in Rounds : at'[r] = at[r]
    BY <1>6, <1>a, <1>b DEF Start, Returned, Call
  <2>2. L = {}
    BY <2>1, <1>6, <1>c DEF Sessions, SweepInv
  <2>3. \A r \in Rounds : at'[r] = "idle"
    BY <2>1, <1>b, <1>d
  <2>4. QED
    BY <2>1, <2>2, <2>3, <1>a DEF SweepInv, LiveInv
<1>7. ASSUME Alive, UNCHANGED vars
      PROVE  SweepInv' /\ LiveInv'
  BY <1>7, <1>a DEF vars, roundVars, Sessions, SweepInv, LiveInv, Up
<1>8. RestoreState \/ /\ Alive
                      /\ \/ \E r \in Rounds : Round(r)
                         \/ \E p \in Actors : Execute(p)
                         \/ SaveBlock \/ BlockSaved \/ DeleteBlock \/ BlockDeleted
                         \/ SweepSession \/ Start
                         \/ UNCHANGED vars
  BY LifeStep DEF Sessions
<1> HIDE DEF Alive
<1>9. QED
  BY <1>1, <1>2, <1>3, <1>4, <1>5, <1>6, <1>7, <1>8

(* The initial states satisfy Sessions.                                    *)
LEMMA InitAll == Init => Sessions
BY InitCore, InitSessions DEF Sessions

(* Every step preserves Sessions.                                          *)
LEMMA SessionsStep == Sessions /\ [Next]_vars => Sessions'
BY CoreStep, ApartStep, QuietStep, DistinctStep, SessionCallStep, LiveStep
   DEF Sessions

(* No session record outlives the process that made it: whatever a crash   *)
(* left is swept before the node is up, and every round, however it ends,  *)
(* deletes its own, so that without failed calls the store lists sessions  *)
(* of running rounds only, for every backend and any overlap of rounds.    *)
THEOREM NoSessionLeftBehind == Spec => []SessionsSwept
<1>1. Sessions => SessionsSwept
  BY Lists DEF Sessions, Core, PlaceInv, LiveInv, SessionsSwept
<1>2. Spec => []Sessions
  BY InitAll, SessionsStep, PTL DEF Spec
<1>3. QED
  BY <1>1, <1>2, PTL

-----------------------------------------------------------------------------
(***************************************************************************)
(* The active version. While no call failed and no rounds overlap, at most *)
(* one round is at work; what a restart would choose is what is served,    *)
(* except while that round saves its version or moves the pointer; and     *)
(* once the pointer has been moved it names what the round is to serve.    *)
(***************************************************************************)
Restored(L, a) == IF a \in L THEN a ELSE IF L = {} THEN 0 ELSE Max(L)
Chosen(bk, d) == Restored(Listed(bk, d), d.active)

Undisturbed == at["main"] \in {"sweep", "up"} /\ ~failed /\ ~overlapped
Switching == {"share", "pointer", "rollback"}

AloneInv ==
    Undisturbed =>
        \A r, q \in Rounds : at[r] # "idle" /\ at[q] # "idle" => r = q

Points(s, d, v) == s = <<Put("active", v)>> \/ (s = <<>> /\ d.active = v)

ActiveInv ==
    Undisturbed =>
        /\ (\A r \in Rounds : at[r] \notin Switching)
             => Chosen(backend, db) = keystore.active
        /\ \A r \in Rounds :
             /\ at[r] = "pointer" => Points(todo[r], db, ver[r])
             /\ at[r] = "rollback" => /\ Points(todo[r], db, keystore.active)
                                      /\ keystore.active \in keystore.held

(* RestoreState activates the version that Chosen names.                   *)
LEMMA ChosenIsRestored == BackendTyped => RestoredActive = Chosen(backend, db)
BY Lists DEF RestoredActive, Chosen, Restored

(* The initial states satisfy AloneInv and ActiveInv.                      *)
LEMMA InitServing == Init => AloneInv /\ ActiveInv
BY DEF Init, AloneInv, ActiveInv, Undisturbed, Actors

(* Every step preserves AloneInv and ActiveInv.                            *)
LEMMA ServingStep ==
    Sessions /\ AloneInv /\ ActiveInv /\ [Next]_vars => AloneInv' /\ ActiveInv'
<1> SUFFICES ASSUME Sessions, AloneInv, ActiveInv, [Next]_vars, Undisturbed'
             PROVE  AloneInv' /\ ActiveInv'
  BY DEF AloneInv, ActiveInv
<1> DEFINE Goal == AloneInv' /\ ActiveInv'
<1>a. /\ at = [q \in Actors |-> at[q]] /\ todo = [q \in Actors |-> todo[q]]
      /\ ver = [q \in Actors |-> ver[q]]
      /\ Core /\ BackendTyped /\ PlaceInv /\ CountInv /\ db \in Store
      /\ backend' = backend
  BY StoreChange DEF Sessions, Core, PlaceInv, CountInv, ShapeInv, StoreInv, Sound
<1>b. /\ \A r \in Rounds : r \in Actors /\ r # "main" /\ r # "poller"
      /\ "main" \in Actors /\ "poller" \in Actors /\ "poller" # "main"
  BY BoundsAssumption DEF Actors
<1>c. at["main"] \notin {"up", "closing"} => \A q \in Rounds : at[q] = "idle"
  BY <1>a, <1>b DEF PlaceInv
<1>d. \A q \in Actors : at[q] \in {"idle", "up"} => todo[q] = <<>>
  BY <1>a DEF PlaceInv, Quiet
(* The pointer names a listed version.                                     *)
<1>e. ASSUME NEW v \in Listed(backend, db), db.active = v
      PROVE  Chosen(backend, db) = v
  BY <1>e DEF Chosen, Restored
(* A step that concerns neither the rounds nor the active version.         *)
<1>f. ASSUME Undisturbed, UNCHANGED <<ver, keystore>>,
             Chosen(backend, db') = Chosen(backend, db), db'.active = db.active,
             \A q \in Rounds : at'[q] = at[q] /\ todo'[q] = todo[q]
      PROVE  Goal
  <2>1. AloneInv'
    BY <1>f DEF AloneInv
  <2>2. ActiveInv'
    BY <1>a, <1>f DEF ActiveInv, Points
  <2>3. QED
    BY <2>1, <2>2
<1>1. ASSUME RestoreState
      PROVE  Goal
  <2>1. /\ at["main"] = "opened" /\ \A q \in Rounds : at'[q] = at[q]
        /\ keystore'.active = RestoredActive
        /\ db' = [db EXCEPT !.shareIndex = @ \cap db.share,
                            !.sessionIndex = @ \cap db.session]
    BY <1>1, <1>a, <1>b DEF RestoreState, Returned, Call
  <2>2. Listed(backend, db') = Listed(backend, db) /\ db'.active = db.active
    BY <2>1, <1>a DEF Listed, Store
  <2>3. Chosen(backend, db') = keystore'.active
    BY <2>1, <2>2, <1>a, ChosenIsRestored DEF Chosen
  <2>4. \A q \in Rounds : at'[q] = "idle"
    BY <2>1, <1>c
  <2>5. QED
    BY <2>3, <2>4, <1>a DEF AloneInv, ActiveInv
<1> DEFINE Alive == at["main"] \in {"sweep", "up"} /\ ~failed
<1>2. ASSUME NEW r \in Rounds, Round(r), Alive
      PROVE  Goal
  <2>1. /\ \A q \in Rounds : q # r => at'[q] = at[q]
        /\ db' = db /\ (at[r] # "idle" => ver'[r] = ver[r]) /\ ~overlapped
        /\ at[r] = "idle" => \A q \in Rounds : at[q] = "idle"
    <3>1. CASE StartRound(r)
      <4>1. /\ overlapped' = (overlapped \/ \E q \in Rounds : at[q] # "idle")
            /\ db' = db /\ at[r] = "idle"
            /\ \A q \in Rounds : q # r => at'[q] = at[q]
        BY <3>1, <1>a, <1>b DEF StartRound, Call
      <4>2. ~overlapped'
        BY DEF Undisturbed
      <4>3. ~overlapped /\ \A q \in Rounds : at[q] = "idle"
        BY <4>1, <4>2, Zenon
      <4>4. QED
        BY <4>1, <4>3
    <3>2. CASE ~StartRound(r)
      <4>1. /\ at[r] # "idle" /\ db' = db /\ ver' = ver /\ overlapped' = overlapped
            /\ \A q \in Rounds : q # r => at'[q] = at[q]
        BY <3>2, <1>2, <1>a, <1>b, RoundFrame DEF history
      <4>2. QED
        BY <4>1 DEF Undisturbed
    <3>3. QED
      BY <3>1, <3>2
  <2>2. Moves(r)
    BY <1>2, <1>a, RoundMoves
  <2>3. Undisturbed
    BY <2>1, <1>2 DEF Undisturbed
  <2>4. \A q \in Rounds : q # r => at[q] = "idle" /\ at'[q] = "idle"
    BY <2>1, <2>3 DEF AloneInv
  <2>5. AloneInv'
    BY <2>4 DEF AloneInv
  <2>6. /\ at'[r] = "pointer" => todo'[r] = <<Put("active", ver'[r])>>
        /\ at'[r] = "rollback" => /\ todo'[r] = <<Put("active", keystore'.active)>>
                                  /\ keystore'.active \in keystore'.held
    BY <2>2 DEF Moves
  <2>7. ASSUME at'[r] \notin Switching
        PROVE  Chosen(backend, db) = keystore'.active
    <3>1. at[r] # "share"
      BY <2>2, <2>7 DEF Moves, Switching
    <3>2. CASE at[r] = "pointer"
      <4>1. keystore'.active = ver[r] /\ todo[r] = <<>>
        BY <3>2, <2>2 DEF Moves
      <4>2. Points(todo[r], db, ver[r])
        BY <3>2, <2>3 DEF ActiveInv
      <4>3. db.active = ver[r]
        BY <4>1, <4>2 DEF Points
      <4>4. ver[r] \in Listed(backend, db)
        BY <3>2, <1>a DEF Core, RoundInv, RoundOK
      <4>5. QED
        BY <4>1, <4>3, <4>4, <1>e
    <3>3. CASE at[r] = "rollback"
      <4>1. keystore'.active = keystore.active /\ todo[r] = <<>>
        BY <3>3, <2>2, <2>7 DEF Moves, Switching
      <4>2. /\ Points(todo[r], db, keystore.active)
            /\ keystore.active \in keystore.held
        BY <3>3, <2>3 DEF ActiveInv
      <4>3. db.active = keystore.active
        BY <4>1, <4>2 DEF Points
      <4>4. keystore.active \in Listed(backend, db)
        BY <4>2, <1>a DEF Core, KeyInv
      <4>5. QED
        BY <4>1, <4>3, <4>4, <1>e
    <3>4. CASE at[r] \notin Switching
      <4>1. keystore'.active = keystore.active
        BY <3>4, <2>2, <2>7 DEF Moves, Switching
      <4>2. \A q \in Rounds : at[q] \notin Switching
        BY <3>4, <2>4 DEF Switching
      <4>3. QED
        BY <4>1, <4>2, <2>3 DEF ActiveInv
    <3>5. QED
      BY <3>1, <3>2, <3>3, <3>4 DEF Switching
  <2>8. ActiveInv'
    <3>1. (\A q \in Rounds : at'[q] \notin Switching)
            => Chosen(backend, db') = keystore'.active
      BY <2>1, <2>7
    <3>2. \A q \in Rounds :
             /\ at'[q] = "pointer" => Points(todo'[q], db', ver'[q])
             /\ at'[q] = "rollback" => /\ Points(todo'[q], db', keystore'.active)
                                       /\ keystore'.active \in keystore'.held
      BY <2>4, <2>6 DEF Points
    <3>3. QED
      BY <3>1, <3>2, <1>a DEF ActiveInv
  <2>9. QED
    BY <2>5, <2>8
<1>3. ASSUME NEW p \in Actors, Execute(p), Alive
      PROVE  Goal
  <2>1. /\ todo[p] # <<>> /\ UNCHANGED <<at, ver, keystore, overlapped>>
        /\ \A q \in Actors : q # p => todo'[q] = todo[q]
        /\ db' = After(backend, db, todo[p]) /\ todo'[p] = Rest(backend, todo[p])
    BY <1>3, <1>a DEF Execute, roundVars, history, After, Rest
  <2>2. Undisturbed
    BY <2>1, <1>3 DEF Undisturbed
  <2>3. AloneInv'
    BY <2>1, <2>2 DEF AloneInv
  <2>4. at[p] \notin {"pointer", "rollback"} => db'.active = db.active
    <3> SUFFICES ASSUME at[p] \notin {"pointer", "rollback"}
                 PROVE  db'.active = db.active
      OBVIOUS
    <3>1. Aside(todo[p], PointerKeys)
      BY DEF Sessions, ApartInv, Apart
    <3>2. Same(db, db', PointerKeys)
      BY <3>1, <2>1, <1>a, StoreKeyed, AsideDone DEF After
    <3>3. QED
      BY <3>2 DEF Same, PointerKeys
  <2>5. at[p] # "share" => Listed(backend, db') = Listed(backend, db)
    <3> SUFFICES ASSUME at[p] # "share"
                 PROVE  Listed(backend, db') = Listed(backend, db)
      OBVIOUS
    <3>1. Aside(todo[p], ShareKeys)
      BY DEF Sessions, ApartInv, Apart
    <3>2. Same(db, db', ShareKeys)
      BY <3>1, <2>1, <1>a, StoreKeyed, AsideDone DEF After
    <3>3. QED
      BY <3>2 DEF Same, ShareKeys, Listed
  <2>6. at[p] \in Switching => p \in Rounds
    BY <1>a DEF Switching, PlaceInv, MainStages, PollerStages, Actors
  <2>7. ASSUME \A q \in Rounds : at[q] \notin Switching
        PROVE  Chosen(backend, db') = keystore'.active
    <3>1. at[p] \notin Switching
      BY <2>6, <2>7
    <3>2. Chosen(backend, db') = Chosen(backend, db)
      BY <3>1, <2>4, <2>5 DEF Switching, Chosen
    <3>3. QED
      BY <3>2, <2>1, <2>2, <2>7 DEF ActiveInv
  <2>8. ASSUME NEW q \in Rounds, NEW v, at[q] \in {"pointer", "rollback"},
               Points(todo[q], db, v)
        PROVE  Points(todo'[q], db', v)
    <3>1. CASE q = p
      <4>1. todo[p] = <<Put("active", v)>>
        BY <3>1, <2>1, <2>8 DEF Points
      <4>2. \A c : Head(<<c>>) = c /\ Tail(<<c>>) = <<>> /\ ApplyAll(db, <<c>>) = Apply(db, c)
        BY DEF ApplyAll
      <4>3. db' = Apply(db, Put("active", v)) /\ todo'[p] = <<>>
        BY <4>1, <4>2, <2>1 DEF After, Rest
      <4>4. Apply(db, Put("active", v)).active = v
        BY <1>a DEF Apply, Put, Store
      <4>5. QED
        BY <4>3, <4>4, <3>1 DEF Points
    <3>2. CASE q # p
      <4>1. at[p] \notin {"pointer", "rollback"}
        <5>1. ASSUME p \in Rounds
              PROVE  at[p] = "idle"
          BY <5>1, <3>2, <2>2, <2>8 DEF AloneInv
        <5>2. QED
          BY <5>1, <2>6 DEF Switching
      <4>2. QED
        BY <4>1, <3>2, <2>1, <2>4, <2>8, <1>b DEF Points
    <3>3. QED
      BY <3>1, <3>2
  <2>9. ActiveInv'
    <3>1. \A q \in Rounds :
             /\ at[q] = "pointer" => Points(todo'[q], db', ver[q])
             /\ at[q] = "rollback" => /\ Points(todo'[q], db', keystore.active)
                                      /\ keystore.active \in keystore.held
      BY <2>2, <2>8 DEF ActiveInv
    <3>2. QED
      BY <3>1, <2>1, <2>7, <1>a DEF ActiveInv
  <2>10. QED
    BY <2>3, <2>9
<1>4. ASSUME Alive, SaveBlock \/ BlockSaved \/ DeleteBlock \/ BlockDeleted
      PROVE  Goal
  <2>1. /\ UNCHANGED <<db, ver, keystore, overlapped>>
        /\ \A q \in Actors : q # "poller" => at'[q] = at[q] /\ todo'[q] = todo[q]
    BY <1>4, <1>a DEF SaveBlock, BlockSaved, DeleteBlock, BlockDeleted, Call,
       roundVars, history
  <2>2. Undisturbed
    BY <2>1, <1>4 DEF Undisturbed
  <2>3. QED
    BY <2>1, <2>2, <1>b, <1>f
<1>5. ASSUME Alive, SweepSession \/ Start
      PROVE  Goal
  <2>1. /\ UNCHANGED <<db, ver, keystore, overlapped>>
        /\ \A q \in Actors : q # "main" => at'[q] = at[q] /\ todo'[q] = todo[q]
    BY <1>5, <1>a DEF SweepSession, Start, Call, roundVars, history
  <2>2. Undisturbed
    BY <2>1, <1>5 DEF Undisturbed
  <2>3. QED
    BY <2>1, <2>2, <1>b, <1>f
<1>6. ASSUME Alive, UNCHANGED vars
      PROVE  Goal
  <2>1. UNCHANGED <<db, at, todo, ver, keystore, overlapped>>
    BY <1>6 DEF vars, roundVars, history
  <2>2. Undisturbed
    BY <2>1, <1>6 DEF Undisturbed
  <2>3. QED
    BY <2>1, <2>2, <1>f
<1>7. RestoreState \/ /\ Alive
                      /\ \/ \E r \in Rounds : Round(r)
                         \/ \E p \in Actors : Execute(p)
                         \/ SaveBlock \/ BlockSaved \/ DeleteBlock \/ BlockDeleted
                         \/ SweepSession \/ Start
                         \/ UNCHANGED vars
  BY LifeStep DEF Sessions, Undisturbed
<1> HIDE DEF Alive, Goal
<1>8. Goal
  BY <1>1, <1>2, <1>3, <1>4, <1>5, <1>6, <1>7
<1>9. QED
  BY <1>8 DEF Goal

(* A restart goes on with the version that is being served, for every      *)
(* backend and however often the process died before: as long as no call   *)
(* has failed and no rounds overlapped since the last start, RestoreState  *)
(* would choose the keystore's active version at every moment in which no  *)
(* round is saving a version or moving the pointer.                        *)
THEOREM RestartGoesOn == Spec => []RestartKeepsServing
<1> DEFINE Inv == Sessions /\ AloneInv /\ ActiveInv
<1>1. Init => Inv
  BY InitAll, InitServing
<1>2. Inv /\ [Next]_vars => Inv'
  BY SessionsStep, ServingStep
<1>3. Inv => RestartKeepsServing
  <2> SUFFICES ASSUME Inv, Up, ~failed, ~overlapped,
                      \A r \in Rounds : at[r] \notin Switching
               PROVE  RestoredActive = keystore.active
    BY DEF RestartKeepsServing, Switching
  <2>1. Chosen(backend, db) = keystore.active
    BY DEF ActiveInv, Undisturbed, Up
  <2>2. QED
    BY <2>1, ChosenIsRestored DEF Sessions, Core, PlaceInv
<1> HIDE DEF Inv
<1>4. QED
  BY <1>1, <1>2, <1>3, PTL DEF Spec
=============================================================================
