---------------------------- MODULE DurableState ----------------------------
(***************************************************************************)
(* What a node may rely on after a restart, whatever backend keeps it: the *)
(* key share versions it lists, the pointer to the active one, the         *)
(* poisoned versions and the unfinished protocol sessions, each changed in *)
(* one step. Key shares and poison are never taken back, the pointer and   *)
(* the poison only ever name a version that is listed, and only a store    *)
(* that lives in memory forgets.                                           *)
(***************************************************************************)
CONSTANTS Versions, NoVersion

VARIABLES shares, active, poisoned, sessions, volatile

vars == <<shares, active, poisoned, sessions, volatile>>

Init ==
    /\ shares \subseteq Versions /\ poisoned = {} /\ sessions = {}
    /\ active \in shares \cup {NoVersion}
    /\ volatile \in BOOLEAN

SaveKeyShareVersion(v) ==
    /\ shares' = shares \cup {v}
    /\ UNCHANGED <<active, poisoned, sessions, volatile>>

SetActiveVersionTimestamp(v) ==
    /\ v \in shares
    /\ active' = v
    /\ UNCHANGED <<shares, poisoned, sessions, volatile>>

AddPoisonedVersion(v) ==
    /\ v \in shares
    /\ poisoned' = poisoned \cup {v}
    /\ UNCHANGED <<shares, active, sessions, volatile>>

SaveProtocolSession(s) ==
    /\ sessions' = sessions \cup {s}
    /\ UNCHANGED <<shares, active, poisoned, volatile>>

DeleteProtocolSession(s) ==
    /\ sessions' = sessions \ {s}
    /\ UNCHANGED <<shares, active, poisoned, volatile>>

(* The process that held the store is gone.                                *)
Forget ==
    /\ volatile
    /\ shares' = {} /\ poisoned' = {} /\ sessions' = {}
    /\ active' = NoVersion
    /\ UNCHANGED volatile

Next ==
    \/ \E v \in Versions :
          \/ SaveKeyShareVersion(v)
          \/ SetActiveVersionTimestamp(v)
          \/ AddPoisonedVersion(v)
          \/ SaveProtocolSession(v)
          \/ DeleteProtocolSession(v)
    \/ Forget

Spec == Init /\ [][Next]_vars

(* RestoreState finds the version the active pointer names: the pointer    *)
(* and the poisoned set never name a version the store does not list.      *)
Consistent ==
    /\ shares \subseteq Versions
    /\ active \in shares \cup {NoVersion}
    /\ poisoned \subseteq shares

(* No version the store lists is ever taken off the list, and none is      *)
(* unpoisoned, except by the loss of a store that lives in memory: what a  *)
(* rollback may go back to stays there.                                    *)
KeepsWhatItSaved ==
    [][~volatile => shares \subseteq shares' /\ poisoned \subseteq poisoned']_vars
=============================================================================
