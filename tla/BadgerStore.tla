----------------------------- MODULE BadgerStore -----------------------------
(***************************************************************************)
(* pkg/persistence/badger: an embedded database. A call that writes is one *)
(* transaction, synced before it returns; lists iterate over a key prefix, *)
(* so a record is listed as soon as it exists. The JSON of the records     *)
(* (and the skipping of records that do not parse) is abstracted: nothing  *)
(* but this code writes them.                                              *)
(***************************************************************************)
EXTENDS StoreCommands

initSchema(d) ==
    IF d.schema = "none" THEN <<Put("schema", currentSchemaVersion)>> ELSE <<>>
HealthCheck(d) == d.schema # "none"

SaveKeyShareVersion(v) == <<Add("share", v)>>
ListKeyShareVersions(d) == d.share
AddPoisonedVersion(v) == <<Add("poisoned", v)>>
ListPoisonedVersions(d) == d.poisoned
SetActiveVersionTimestamp(v) == <<Put("active", v)>>
GetActiveVersionTimestamp(d) == d.active
SaveNodeState(s) == <<Put("state", s)>>
LoadNodeState(d) == d.state

SaveProtocolSession(s) == <<Add("session", s)>>
DeleteProtocolSession(s) == <<Delete("session", s)>>
ListProtocolSessions(d) == d.session

SaveBlockRecord(b) == <<Add("block", b), Put("last", b)>>
DeleteBlockRecord(b) == <<Delete("block", b)>>
GetBlockRecord(d, b) == IF b \in d.block THEN b ELSE 0
GetLastProcessedBlockRecord(d) == GetBlockRecord(d, d.last)
=============================================================================
