--------------------------- MODULE StoreCommands ---------------------------
(***************************************************************************)
(* What the three storage backends are made of: the records a node keeps   *)
(* (pkg/persistence/types.go), as one record of sets and scalars, and the  *)
(* primitive commands that change them. A call of the persistence          *)
(* interface is a sequence of commands; how much of it one step executes   *)
(* depends on the backend.                                                 *)
(***************************************************************************)
EXTENDS Naturals, Sequences

Add(key, value) == [op |-> "add", key |-> key, value |-> value]
Delete(key, value) == [op |-> "delete", key |-> key, value |-> value]
Put(key, value) == [op |-> "put", key |-> key, value |-> value]

(* The store after one command.                                            *)
Apply(d, c) ==
    [d EXCEPT ![c.key] = CASE c.op = "add"    -> @ \cup {c.value}
                           [] c.op = "delete" -> @ \ {c.value}
                           [] c.op = "put"    -> c.value]

(* The store after a sequence of at most two commands.                     *)
ApplyAll(d, s) ==
    CASE Len(s) = 0 -> d
      [] Len(s) = 1 -> Apply(d, s[1])
      [] Len(s) = 2 -> Apply(Apply(d, s[1]), s[2])

(* A store that was never written: no schema version, no records. Only     *)
(* redis uses the two index sets.                                          *)
EmptyStore ==
    [schema |-> "none", share |-> {}, shareIndex |-> {}, active |-> 0,
     poisoned |-> {}, state |-> 0, session |-> {}, sessionIndex |-> {},
     block |-> {}, last |-> 0]

currentSchemaVersion == "v1"
=============================================================================
