----------------------------- MODULE MemoryStore -----------------------------
(***************************************************************************)
(* pkg/persistence/memory: maps under a mutex. A call is one step and does *)
(* not fail while the store is open; the process takes it all down with    *)
(* it. The deep copies that keep callers from changing stored records are  *)
(* what makes a record a value here.                                       *)
(***************************************************************************)
EXTENDS StoreCommands

SaveKeyShareVersion(v) == <<Add("share", v)>>
ListKeyShareVersions(d) == d.share
AddPoisonedVersion(v) == <<Add("poisoned", v)>>
ListPoisonedVersions(d) == d.poisoned
SetActiveVersionTimestamp(v) == <<Put("active", v)>>
GetActiveVersionTimestamp(d) == d.active
SaveNodeState(s) == <<Put("state", s)>>
LoadNodeState(d) == d.state

SaveProtocolSession(s) == <<Add("session", s)>>
DeleteProtocolSession(s) == <<Delete("session", s)>>
ListProtocolSessions(d) == d.session

SaveBlockRecord(b) == <<Add("block", b), Put("last", b)>>
DeleteBlockRecord(b) == <<Delete("block", b)>>
GetBlockRecord(d, b) == IF b \in d.block THEN b ELSE 0
GetLastProcessedBlockRecord(d) == GetBlockRecord(d, d.last)
=============================================================================
