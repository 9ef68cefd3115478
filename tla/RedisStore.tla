----------------------------- MODULE RedisStore -----------------------------
(***************************************************************************)
(* pkg/persistence/redis: a server shared over the network. A pipeline is  *)
(* sent at once but is no transaction: the server runs its commands one by *)
(* one, others' commands may come in between, and a broken connection cuts *)
(* it anywhere. Redis has no prefix iteration: key shares and sessions are *)
(* found through an index set, and a list drops index members that have no *)
(* record.                                                                 *)
(***************************************************************************)
EXTENDS StoreCommands

-----------------------------------------------------------------------------
\* Variants of the pipelines below that a slip in their code would give.

(* The index is written before the record.                                 *)
IndexBeforeRecord(v) == <<Add("shareIndex", v), Add("share", v)>>

(* The pointer is written before the record it points to.                  *)
PointerBeforeRecord(b) == <<Put("last", b), Add("block", b)>>
-----------------------------------------------------------------------------

initSchema(d) ==
    IF d.schema = "none" THEN <<Put("schema", currentSchemaVersion)>> ELSE <<>>
HealthCheck(d) == d.schema # "none"

SaveKeyShareVersion(v) == <<Add("share", v), Add("shareIndex", v)>>
ListKeyShareVersions(d) == d.shareIndex \cap d.share
AddPoisonedVersion(v) == <<Add("poisoned", v)>>
ListPoisonedVersions(d) == d.poisoned
SetActiveVersionTimestamp(v) == <<Put("active", v)>>
GetActiveVersionTimestamp(d) == d.active
SaveNodeState(s) == <<Put("state", s)>>
LoadNodeState(d) == d.state

SaveProtocolSession(s) == <<Add("session", s), Add("sessionIndex", s)>>
DeleteProtocolSession(s) == <<Delete("session", s), Delete("sessionIndex", s)>>
ListProtocolSessions(d) == d.sessionIndex \cap d.session

SaveBlockRecord(b) == <<Add("block", b), Put("last", b)>>
DeleteBlockRecord(b) == <<Delete("block", b)>>
GetBlockRecord(d, b) == IF b \in d.block THEN b ELSE 0
GetLastProcessedBlockRecord(d) == GetBlockRecord(d, d.last)

(* ListKeyShareVersions in its three round trips: SMEMBERS, MGET of the    *)
(* members' records, and an SREM for each member without one.              *)
SMembers(d) == d.shareIndex
MGet(d, members) == members \cap d.share
SRem(members, found) == {Delete("shareIndex", v) : v \in members \ found}

=============================================================================
