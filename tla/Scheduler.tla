----------------------------- MODULE Scheduler ------------------------------
(***************************************************************************)
(* How one node turns blocks into protocol rounds and how its HTTP         *)
(* handlers find the session of a round: pkg/blockHandler, and in          *)
(* pkg/node/node.go checkScheduledOperations, persistBoundary,             *)
(* createSession, cleanupSession and waitForSession.                       *)
(*                                                                         *)
(* The scheduler handles one block at a time but runs each round in a      *)
(* goroutine of its own, which registers its session only after it has     *)
(* fetched the operator set. A request that arrives before the session     *)
(* waits for a notification.                                               *)
(*                                                                         *)
(* A block's timestamp, which names its round, is its number. What happens *)
(* in a round is ReshareRound's subject; here a round starts and ends.     *)
(***************************************************************************)
EXTENDS Naturals, Sequences

CONSTANTS
    blockInterval,    \* a round is due at every multiple of it
    ChannelCapacity,  \* blocks the handler's channel holds (100 in the code)
    MaxBlock,         \* bound: blocks the chain produces
    MaxCrashes,       \* bound: crashes
    Requests,         \* protocol messages that arrive at the node
    NoRequest

Blocks == 1..MaxBlock
Boundaries == {b \in Blocks : b % blockInterval = 0}

ASSUME SchedulerAssumption ==
    /\ blockInterval \in Nat \ {0}
    /\ ChannelCapacity \in Nat /\ MaxBlock \in Nat /\ MaxCrashes \in Nat
    /\ NoRequest \notin Requests

VARIABLES
    up,
    polled,                \* the last block the chain poller handed over
    stored,                \* the last block it recorded as processed
    blockChannel,
    lastProcessedBoundary, \* 0: none since the node was set up
    savedBoundary,         \* its persisted copy
    handling,              \* the boundary the scheduler is working on, 0: none
    keyed,                 \* hasExistingShares
    round,                 \* the goroutine of each boundary's round
    sessionNotify,         \* the channel of a session's waiters, named by the
                           \* request that made it
    request,               \* where each message's handler is
    crashes,
    launches,              \* history: rounds launched for each boundary
    unsaved                \* history: a boundary was not persisted

Stages == {"none", "dkg", "join", "reshare", "running", "over"}

(* Launched, but its session is not registered yet.                        *)
Starting(b) == round[b] \in {"dkg", "join", "reshare"}

activeSessions == {b \in Boundaries : round[b] = "running"}

chainVars   == <<polled, stored, blockChannel>>
boundary    == <<lastProcessedBoundary, savedBoundary, handling, unsaved>>
roundVars   == <<round, keyed, launches>>
requestVars == <<sessionNotify, request>>
vars == <<up, chainVars, boundary, roundVars, requestVars, crashes>>

NotArrived == [stage |-> "none", session |-> 0, channel |-> NoRequest]

Init ==
    /\ up = TRUE
    /\ polled = 0 /\ stored = 0 /\ blockChannel = <<>>
    /\ lastProcessedBoundary = 0 /\ savedBoundary = 0 /\ handling = 0
    /\ keyed \in BOOLEAN
    /\ round = [b \in Boundaries |-> "none"]
    /\ sessionNotify = [b \in Boundaries |-> NoRequest]
    /\ request = [r \in Requests |-> NotArrived]
    /\ crashes = 0
    /\ launches = [b \in Boundaries |-> 0]
    /\ unsaved = FALSE

-----------------------------------------------------------------------------
(* Mutant: the channel takes every block.                                  *)
HandleEveryBlock ==
    /\ up
    /\ polled < MaxBlock /\ stored = polled
    /\ polled' = polled + 1
    /\ blockChannel' = Append(blockChannel, polled + 1)
    /\ UNCHANGED <<up, stored, boundary, roundVars, requestVars, crashes>>

(* The poller hands over the next block; a full channel drops it.          *)
HandleBlock ==
    /\ up
    /\ polled < MaxBlock /\ stored = polled
    /\ polled' = polled + 1
    /\ blockChannel' = IF Len(blockChannel) < ChannelCapacity
                         THEN Append(blockChannel, polled + 1)
                         ELSE blockChannel
    /\ UNCHANGED <<up, stored, boundary, roundVars, requestVars, crashes>>

(* The poller records the block through SaveBlock. When that fails it      *)
(* resumes from the block it recorded last and hands this one over again.  *)
RecordBlock ==
    /\ up
    /\ stored < polled
    /\ \/ stored' = polled /\ UNCHANGED polled
       \/ polled' = stored /\ UNCHANGED stored
    /\ UNCHANGED <<up, blockChannel, boundary, roundVars, requestVars, crashes>>

(* checkScheduledOperations returns early: the block is no boundary, or    *)
(* the first one ever seen, which is only remembered in memory, or the one *)
(* handled last.                                                           *)
PassOverBlock ==
    /\ up /\ handling = 0 /\ blockChannel # <<>>
    /\ blockChannel' = Tail(blockChannel)
    /\ LET b == Head(blockChannel)
       IN  \/ /\ b \notin Boundaries
              /\ UNCHANGED lastProcessedBoundary
           \/ /\ b \in Boundaries
              /\ lastProcessedBoundary \in {0, b}
              /\ lastProcessedBoundary' = b
    /\ UNCHANGED <<up, polled, stored, savedBoundary, handling, unsaved,
                   roundVars, requestVars, crashes>>

(* A failure to save the boundary is logged only.                          *)
persistBoundary(b) ==
    \/ savedBoundary' = b /\ UNCHANGED unsaved
    \/ UNCHANGED savedBoundary /\ unsaved' = TRUE

(* Mutant: a boundary that was handled already is due again.               *)
ReachAnyBoundary ==
    /\ up /\ handling = 0 /\ blockChannel # <<>>
    /\ Head(blockChannel) \in Boundaries
    /\ lastProcessedBoundary # 0
    /\ lastProcessedBoundary' = Head(blockChannel)
    /\ handling' = Head(blockChannel)
    /\ blockChannel' = Tail(blockChannel)
    /\ persistBoundary(Head(blockChannel))
    /\ UNCHANGED <<up, polled, stored, roundVars, requestVars, crashes>>

(* A boundary is due: it is remembered, and persisted unless that fails.   *)
ReachBoundary ==
    /\ up /\ handling = 0 /\ blockChannel # <<>>
    /\ Head(blockChannel) \in Boundaries
    /\ lastProcessedBoundary \notin {0, Head(blockChannel)}
    /\ lastProcessedBoundary' = Head(blockChannel)
    /\ handling' = Head(blockChannel)
    /\ blockChannel' = Tail(blockChannel)
    /\ persistBoundary(Head(blockChannel))
    /\ UNCHANGED <<up, polled, stored, roundVars, requestVars, crashes>>

(* The operator set could not be fetched, or a session is registered.      *)
SkipBoundary ==
    /\ up /\ handling # 0
    /\ handling' = 0
    /\ UNCHANGED <<up, chainVars, lastProcessedBoundary, savedBoundary,
                   unsaved, roundVars, requestVars, crashes>>

(* Of a node without a key: a DKG if no peer answers with one, else a join.*)
detectClusterState == {"dkg", "join"}

(* No session is registered: the round is launched, a reshare if the node  *)
(* has a key.                                                              *)
LaunchRound ==
    /\ up /\ handling # 0
    /\ activeSessions = {}
    /\ \E kind \in IF keyed THEN {"reshare"} ELSE detectClusterState :
         round' = [round EXCEPT ![handling] = kind]
    /\ launches' = [launches EXCEPT ![handling] = @ + 1]
    /\ handling' = 0
    /\ UNCHANGED <<up, chainVars, lastProcessedBoundary, savedBoundary,
                   unsaved, keyed, requestVars, crashes>>

-----------------------------------------------------------------------------
(* Request r at another stage.                                             *)
At(r, stage) == [stage |-> stage, session |-> request[r].session,
                 channel |-> request[r].channel]

(* createSession: the session is registered and, a step later, whoever     *)
(* waits for it notified; both are one step here, Register being the       *)
(* handler's step that may come before, or too late after it.              *)
CreateSession(b) ==
    /\ up
    /\ Starting(b)
    /\ round' = [round EXCEPT ![b] = "running"]
    /\ request' = [r \in Requests |->
                     IF /\ request[r].stage = "waiting"
                        /\ sessionNotify[b] # NoRequest
                        /\ request[r].channel = sessionNotify[b]
                       THEN At(r, "notified") ELSE request[r]]
    /\ sessionNotify' = [sessionNotify EXCEPT ![b] = NoRequest]
    /\ UNCHANGED <<up, chainVars, boundary, keyed, launches, crashes>>

(* The round ends, before or after it had a session: with a key share, or  *)
(* with an error.                                                          *)
EndRound(b) ==
    /\ up
    /\ Starting(b) \/ round[b] = "running"
    /\ round' = [round EXCEPT ![b] = "over"]
    /\ keyed' \in IF round[b] = "running" THEN {keyed, TRUE} ELSE {keyed}
    /\ UNCHANGED <<up, chainVars, boundary, launches, requestVars, crashes>>

-----------------------------------------------------------------------------
Moves(r, stage) == request' = [request EXCEPT ![r] = At(r, stage)]

(* waitForSession's first look: the session is there, or it is not.        *)
GetSession(r, b) ==
    /\ up
    /\ request[r].stage = "none"
    /\ request' = [request EXCEPT ![r] =
                     [stage   |-> IF b \in activeSessions THEN "served"
                                  ELSE "absent",
                      session |-> b,
                      channel |-> NoRequest]]
    /\ UNCHANGED <<up, chainVars, boundary, roundVars, sessionNotify, crashes>>

(* Get or create the session's notification channel and wait on it.        *)
Register(r) ==
    LET b  == request[r].session
        ch == IF sessionNotify[b] = NoRequest THEN r ELSE sessionNotify[b]
    IN  /\ up
        /\ request[r].stage = "absent"
        /\ sessionNotify' = [sessionNotify EXCEPT ![b] = ch]
        /\ request' = [request EXCEPT ![r] =
                         [stage |-> "waiting", session |-> b, channel |-> ch]]
        /\ UNCHANGED <<up, chainVars, boundary, roundVars, crashes>>

(* The channel was closed: the session is retrieved, if it still exists.   *)
Retrieve(r) ==
    /\ up
    /\ request[r].stage = "notified"
    /\ Moves(r, IF request[r].session \in activeSessions THEN "served"
                ELSE "refused")
    /\ UNCHANGED <<up, chainVars, boundary, roundVars, sessionNotify, crashes>>

(* Mutant: the channel of a session that never came is kept.               *)
LeaveChannel(r) ==
    /\ up
    /\ request[r].stage \in {"waiting", "notified"}
    /\ Moves(r, "refused")
    /\ UNCHANGED <<up, chainVars, boundary, roundVars, sessionNotify, crashes>>

(* The wait times out; the channel goes too if it is still the session's.  *)
TimeOut(r) ==
    LET b == request[r].session
    IN  /\ up
        /\ request[r].stage \in {"waiting", "notified"}
        /\ Moves(r, "refused")
        /\ sessionNotify' = IF sessionNotify[b] = request[r].channel
                              THEN [sessionNotify EXCEPT ![b] = NoRequest]
                              ELSE sessionNotify
        /\ UNCHANGED <<up, chainVars, boundary, roundVars, crashes>>

-----------------------------------------------------------------------------
(* Everything in memory is lost: queued blocks, sessions, waiters.         *)
Crash ==
    /\ up
    /\ crashes < MaxCrashes
    /\ crashes' = crashes + 1
    /\ up' = FALSE
    /\ blockChannel' = <<>>
    /\ lastProcessedBoundary' = 0
    /\ handling' = 0
    /\ round' = [b \in Boundaries |->
                   IF round[b] = "none" THEN "none" ELSE "over"]
    /\ sessionNotify' = [b \in Boundaries |-> NoRequest]
    /\ request' = [r \in Requests |->
                     IF request[r].stage = "none" THEN request[r]
                     ELSE At(r, "refused")]
    /\ UNCHANGED <<polled, stored, savedBoundary, keyed, launches, unsaved>>

(* RestoreState; the poller goes on after the last block it recorded, and  *)
(* so hands over once more one it did not record.                          *)
Restart ==
    /\ ~up
    /\ up' = TRUE
    /\ lastProcessedBoundary' = savedBoundary
    /\ polled' = stored
    /\ UNCHANGED <<stored, blockChannel, savedBoundary, handling, unsaved, roundVars,
                   requestVars, crashes>>

Next ==
    \/ HandleBlock \/ RecordBlock \/ PassOverBlock \/ ReachBoundary
    \/ SkipBoundary \/ LaunchRound
    \/ \E b \in Boundaries : CreateSession(b) \/ EndRound(b)
    \/ \E r \in Requests :
         \/ \E b \in Boundaries : GetSession(r, b)
         \/ Register(r) \/ Retrieve(r) \/ TimeOut(r)
    \/ Crash \/ Restart

Spec == Init /\ [][Next]_vars

-----------------------------------------------------------------------------
ChainTyped ==
    /\ polled \in 0..MaxBlock /\ stored \in 0..MaxBlock
    /\ blockChannel \in Seq(Blocks) /\ Len(blockChannel) <= ChannelCapacity

BoundaryTyped ==
    {lastProcessedBoundary, savedBoundary, handling} \subseteq Boundaries \cup {0}

RoundTyped ==
    /\ round \in [Boundaries -> Stages]
    /\ launches \in [Boundaries -> Nat]

RequestTyped ==
    /\ sessionNotify \in [Boundaries -> Requests \cup {NoRequest}]
    /\ request \in [Requests ->
           [stage : {"none", "absent", "waiting", "notified", "served",
                     "refused"},
            session : Boundaries \cup {0},
            channel : Requests \cup {NoRequest}]]

TypeOK ==
    /\ up \in BOOLEAN /\ keyed \in BOOLEAN /\ unsaved \in BOOLEAN
    /\ ChainTyped /\ BoundaryTyped /\ RoundTyped /\ RequestTyped
    /\ crashes \in 0..MaxCrashes

(* A boundary starts at most one round, although blocks are dropped, the   *)
(* node restarts and the poller hands a block over again, as long as the   *)
(* boundary was persisted: a second round of the same timestamp would      *)
(* deal again under a commitment the registry already holds.               *)
RoundOncePerBoundary ==
    ~unsaved => \A b \in Boundaries : launches[b] <= 1

(* sessionNotify holds no channel of a session nobody waits for: the       *)
(* handler that made it is still waiting on it.                            *)
ChannelHasWaiter ==
    \A b \in Boundaries : sessionNotify[b] # NoRequest =>
        /\ request[sessionNotify[b]].stage = "waiting"
        /\ request[sessionNotify[b]].session = b
=============================================================================
