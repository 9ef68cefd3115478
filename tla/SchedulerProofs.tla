--------------------------- MODULE SchedulerProofs --------------------------
(***************************************************************************)
(* Proofs about Scheduler, for any interval, capacity of the block         *)
(* channel, number of blocks and crashes, and set of requests.             *)
(***************************************************************************)
EXTENDS Scheduler, TLAPS

(***************************************************************************)
(* Type correctness. A request that has arrived names a boundary: that is  *)
(* needed to know what sessionNotify holds for it.                         *)
(***************************************************************************)
Arrived == \A r \in Requests : request[r].stage # "none"
                               => request[r].session \in Boundaries

Typed == TypeOK /\ Arrived

(* The initial states are typed.                                           *)
LEMMA InitTyped == Init => Typed
<1> SUFFICES ASSUME Init PROVE Typed
  OBVIOUS
<1>1. up \in BOOLEAN /\ keyed \in BOOLEAN /\ unsaved \in BOOLEAN
  BY DEF Init
<1>2. ChainTyped /\ crashes \in 0..MaxCrashes
  BY SchedulerAssumption DEF Init, ChainTyped
<1>3. BoundaryTyped /\ RoundTyped
  BY DEF Init, BoundaryTyped, RoundTyped, Stages
<1>4. /\ RequestTyped
      /\ \A r \in Requests : request[r].stage = "none"
  BY DEF Init, RequestTyped, NotArrived
<1>5. QED
  BY <1>1, <1>2, <1>3, <1>4 DEF Typed, TypeOK, Arrived

(* The flags stay flags.                                                   *)
LEMMA BooleansStep ==
    up \in BOOLEAN /\ keyed \in BOOLEAN /\ unsaved \in BOOLEAN /\ [Next]_vars
        => up' \in BOOLEAN /\ keyed' \in BOOLEAN /\ unsaved' \in BOOLEAN
<1> SUFFICES ASSUME up \in BOOLEAN, keyed \in BOOLEAN, unsaved \in BOOLEAN,
                    [Next]_vars
             PROVE  up' \in BOOLEAN /\ keyed' \in BOOLEAN /\ unsaved' \in BOOLEAN
  OBVIOUS
<1>1. ASSUME NEW b \in Boundaries, EndRound(b)
      PROVE  up' \in BOOLEAN /\ keyed' \in BOOLEAN /\ unsaved' \in BOOLEAN
  BY <1>1, Zenon DEF EndRound, boundary
<1>2. QED
  BY <1>1, Zenon DEF Next, vars, chainVars, boundary, roundVars, requestVars, HandleBlock,
     RecordBlock, PassOverBlock, ReachBoundary, persistBoundary, SkipBoundary,
     LaunchRound, CreateSession, GetSession, Register, Retrieve, TimeOut,
     Crash, Restart

(* Every step keeps the types of chain, poller and block channel,          *)
LEMMA ChainStep == ChainTyped /\ [Next]_vars => ChainTyped'
<1> SUFFICES ASSUME ChainTyped, [Next]_vars PROVE ChainTyped'
  OBVIOUS
<1> USE SchedulerAssumption DEF ChainTyped
<1>1. CASE HandleBlock
  <2>1. polled + 1 \in Blocks /\ polled' \in 0..MaxBlock /\ stored' = stored
    BY <1>1 DEF HandleBlock, Blocks
  <2>2. CASE Len(blockChannel) < ChannelCapacity
    <3>1. blockChannel' = Append(blockChannel, polled + 1)
      BY <1>1, <2>2 DEF HandleBlock
    <3>2. /\ Append(blockChannel, polled + 1) \in Seq(Blocks)
          /\ Len(Append(blockChannel, polled + 1)) = Len(blockChannel) + 1
      BY <2>1
    <3>3. QED
      BY <2>1, <2>2, <3>1, <3>2
  <2>3. CASE ~(Len(blockChannel) < ChannelCapacity)
    BY <1>1, <2>1, <2>3 DEF HandleBlock
  <2>4. QED
    BY <2>2, <2>3
<1>2. CASE RecordBlock
  BY <1>2 DEF RecordBlock
<1>3. CASE PassOverBlock \/ ReachBoundary
  <2>1. /\ blockChannel # <<>> /\ blockChannel' = Tail(blockChannel)
        /\ UNCHANGED <<polled, stored>>
    BY <1>3 DEF PassOverBlock, ReachBoundary
  <2>2. /\ Tail(blockChannel) \in Seq(Blocks)
        /\ Len(Tail(blockChannel)) = Len(blockChannel) - 1
    BY <2>1
  <2>3. QED
    BY <2>1, <2>2
<1>4. CASE Crash \/ Restart
  <2>1. /\ polled' \in {polled, stored} /\ stored' = stored
        /\ blockChannel' \in {<<>>, blockChannel}
    BY <1>4 DEF Crash, Restart
  <2>2. <<>> \in Seq(Blocks) /\ Len(<<>>) = 0
    OBVIOUS
  <2>3. CASE blockChannel' = <<>>
    BY <2>1, <2>2, <2>3
  <2>4. CASE blockChannel' = blockChannel
    BY <2>1, <2>4
  <2>5. QED
    BY <2>1, <2>3, <2>4
<1>5. CASE UNCHANGED chainVars
  BY <1>5 DEF chainVars
<1>6. QED
  BY <1>1, <1>2, <1>3, <1>4, <1>5
     DEF Next, vars, SkipBoundary, LaunchRound, CreateSession, EndRound,
         GetSession, Register, Retrieve, TimeOut

(* of the boundaries,                                                      *)
LEMMA BoundaryStep ==
    ChainTyped /\ BoundaryTyped /\ [Next]_vars => BoundaryTyped'
<1> SUFFICES ASSUME ChainTyped, BoundaryTyped, [Next]_vars
             PROVE  BoundaryTyped'
  OBVIOUS
<1> USE DEF BoundaryTyped
<1>1. CASE PassOverBlock
  BY <1>1 DEF PassOverBlock
<1>2. CASE ReachBoundary
  BY <1>2 DEF ReachBoundary, persistBoundary
<1>3. CASE SkipBoundary \/ LaunchRound
  BY <1>3 DEF SkipBoundary, LaunchRound
<1>4. CASE Crash \/ Restart
  BY <1>4 DEF Crash, Restart
<1>5. CASE UNCHANGED boundary
  BY <1>5 DEF boundary
<1>6. QED
  BY <1>1, <1>2, <1>3, <1>4, <1>5
     DEF Next, vars, HandleBlock, RecordBlock, CreateSession, EndRound,
         GetSession, Register, Retrieve, TimeOut

(* of the rounds,                                                          *)
LEMMA RoundStep ==
    BoundaryTyped /\ RoundTyped /\ [Next]_vars => RoundTyped'
<1> SUFFICES ASSUME BoundaryTyped, RoundTyped, [Next]_vars PROVE RoundTyped'
  OBVIOUS
<1> USE DEF RoundTyped, Stages
<1>1. CASE LaunchRound
  BY <1>1 DEF LaunchRound, BoundaryTyped, detectClusterState
<1>2. ASSUME NEW b \in Boundaries, CreateSession(b) \/ EndRound(b)
      PROVE  RoundTyped'
  BY <1>2 DEF CreateSession, EndRound
<1>3. CASE Crash
  BY <1>3 DEF Crash
<1>4. CASE UNCHANGED roundVars
  BY <1>4 DEF roundVars
<1>5. QED
  BY <1>1, <1>2, <1>3, <1>4
     DEF Next, vars, HandleBlock, RecordBlock, PassOverBlock, ReachBoundary,
         SkipBoundary, GetSession, Register, Retrieve, TimeOut, Restart

(* and of the requests, which arrived before they wait.                    *)
LEMMA RequestStep ==
    RequestTyped /\ Arrived /\ [Next]_vars => RequestTyped' /\ Arrived'
<1> SUFFICES ASSUME RequestTyped, Arrived, [Next]_vars
             PROVE  RequestTyped' /\ Arrived'
  OBVIOUS
<1> USE DEF RequestTyped, Arrived, At
<1>1. ASSUME NEW b \in Boundaries, CreateSession(b)
      PROVE  RequestTyped' /\ Arrived'
  BY <1>1 DEF CreateSession
<1>2. ASSUME NEW r \in Requests, NEW b \in Boundaries, GetSession(r, b)
      PROVE  RequestTyped' /\ Arrived'
  BY <1>2 DEF GetSession
<1>3. ASSUME NEW r \in Requests, Register(r)
      PROVE  RequestTyped' /\ Arrived'
  BY <1>3 DEF Register
<1>4. ASSUME NEW r \in Requests, Retrieve(r)
      PROVE  RequestTyped' /\ Arrived'
  BY <1>4 DEF Retrieve, Moves
<1>5. ASSUME NEW r \in Requests, TimeOut(r)
      PROVE  RequestTyped' /\ Arrived'
  BY <1>5 DEF TimeOut, Moves
<1>6. CASE Crash
  BY <1>6 DEF Crash
<1>7. CASE UNCHANGED requestVars
  BY <1>7 DEF requestVars
<1>8. QED
  BY <1>1, <1>2, <1>3, <1>4, <1>5, <1>6, <1>7
     DEF Next, vars, HandleBlock, RecordBlock, PassOverBlock, ReachBoundary,
         SkipBoundary, LaunchRound, EndRound, Restart

(* So every step keeps the types.                                          *)
LEMMA TypeStep == Typed /\ [Next]_vars => Typed'
<1> SUFFICES ASSUME Typed, [Next]_vars PROVE Typed'
  OBVIOUS
<1>1. crashes' \in 0..MaxCrashes
  <2>1. CASE Crash
    BY <2>1, SchedulerAssumption DEF Crash, Typed, TypeOK
  <2>2. CASE UNCHANGED crashes
    BY <2>2 DEF Typed, TypeOK
  <2>3. QED
    BY <2>1, <2>2
       DEF Next, vars, HandleBlock, RecordBlock, PassOverBlock, ReachBoundary,
           SkipBoundary, LaunchRound, CreateSession, EndRound, GetSession,
           Register, Retrieve, TimeOut, Restart
<1>2. QED
  BY <1>1, BooleansStep, ChainStep, BoundaryStep, RoundStep, RequestStep
     DEF Typed, TypeOK, Arrived

(* Blocks, boundaries, rounds and requests stay well typed, the channel    *)
(* within its capacity, whatever the interleaving.                         *)
THEOREM TypeCorrect == Spec => []TypeOK
<1>1. Typed => TypeOK
  BY DEF Typed
<1>2. QED
  BY InitTyped, TypeStep, <1>1, PTL DEF Spec

(***************************************************************************)
(* One round per boundary. The channel holds the blocks in order, so every *)
(* block still to be handled is at least as new as the last boundary, and  *)
(* a restart does not go back further than one block.                      *)
(***************************************************************************)
ChainInv ==
    /\ stored <= polled /\ polled <= stored + 1
    /\ \A i, j \in 1..Len(blockChannel) :
         i <= j => blockChannel[i] <= blockChannel[j]
    /\ \A i \in 1..Len(blockChannel) :
         lastProcessedBoundary <= blockChannel[i] /\ blockChannel[i] <= stored + 1
    /\ lastProcessedBoundary <= stored + 1 /\ savedBoundary <= stored + 1
    /\ ~up => blockChannel = <<>> /\ handling = 0

(* Rounds were launched only for boundaries that were persisted, and the   *)
(* one being handled is newer than those.                                  *)
OnceInv ==
    ~unsaved =>
        /\ up /\ savedBoundary # 0 => lastProcessedBoundary = savedBoundary
        /\ handling # 0 => handling = savedBoundary /\ launches[handling] = 0
        /\ \A b \in Boundaries : launches[b] <= 1
        /\ \A b \in Boundaries : launches[b] # 0 => b <= savedBoundary

(* The initial states satisfy ChainInv and OnceInv.                        *)
LEMMA InitOnce == Init => ChainInv /\ OnceInv
BY DEF Init, ChainInv, OnceInv

(* What typing says about the numbers the invariants compare.              *)
LEMMA Numbers ==
    ASSUME Typed
    PROVE  /\ polled \in Nat /\ stored \in Nat
           /\ lastProcessedBoundary \in Nat /\ savedBoundary \in Nat
           /\ Len(blockChannel) \in Nat
           /\ \A i \in 1..Len(blockChannel) : blockChannel[i] \in Nat \ {0}
           /\ \A b \in Boundaries : launches[b] \in Nat /\ b \in Nat \ {0}
<1>1. ChainTyped /\ BoundaryTyped /\ RoundTyped
  BY DEF Typed, TypeOK
<1>2. Blocks \subseteq Nat \ {0} /\ Boundaries \subseteq Nat \ {0}
  BY SchedulerAssumption DEF Blocks, Boundaries
<1>3. \A i \in 1..Len(blockChannel) : blockChannel[i] \in Blocks
  BY <1>1 DEF ChainTyped
<1>4. polled \in Nat /\ stored \in Nat /\ Len(blockChannel) \in Nat
  BY <1>1, SchedulerAssumption DEF ChainTyped
<1>5. lastProcessedBoundary \in Nat /\ savedBoundary \in Nat
  <2>1. /\ lastProcessedBoundary \in Boundaries \cup {0}
        /\ savedBoundary \in Boundaries \cup {0}
    BY <1>1 DEF BoundaryTyped
  <2>2. QED
    BY <1>2, <2>1
<1>6. \A b \in Boundaries : launches[b] \in Nat
  BY <1>1 DEF RoundTyped
<1>7. QED
  BY <1>2, <1>3, <1>4, <1>5, <1>6

(* Taking the block at the head leaves the rest, all of it as new.         *)
LEMMA TailOfChannel ==
    ASSUME Typed, ChainInv, blockChannel # <<>>
    PROVE  /\ Head(blockChannel) = blockChannel[1]
           /\ Len(Tail(blockChannel)) = Len(blockChannel) - 1
           /\ Len(blockChannel) >= 1
           /\ \A i \in 1..Len(Tail(blockChannel)) :
                /\ i + 1 \in 1..Len(blockChannel)
                /\ Tail(blockChannel)[i] = blockChannel[i + 1]
                /\ Head(blockChannel) <= Tail(blockChannel)[i]
<1>1. blockChannel \in Seq(Blocks)
  BY DEF Typed, TypeOK, ChainTyped
<1>2. /\ Head(blockChannel) = blockChannel[1]
      /\ Len(Tail(blockChannel)) = Len(blockChannel) - 1
      /\ Len(blockChannel) \in Nat /\ Len(blockChannel) >= 1
      /\ \A i \in 1..Len(Tail(blockChannel)) :
           Tail(blockChannel)[i] = blockChannel[i + 1]
  BY <1>1
<1>3. \A i \in 1..(Len(blockChannel) - 1) :
         /\ i + 1 \in 1..Len(blockChannel) /\ 1 \in 1..Len(blockChannel)
         /\ 1 <= i + 1
  BY <1>2
<1>4. \A i \in 1..(Len(blockChannel) - 1) :
         blockChannel[1] <= blockChannel[i + 1]
  <2> SUFFICES ASSUME NEW i \in 1..(Len(blockChannel) - 1)
               PROVE  blockChannel[1] <= blockChannel[i + 1]
    OBVIOUS
  <2>1. /\ i + 1 \in 1..Len(blockChannel) /\ 1 \in 1..Len(blockChannel)
        /\ 1 <= i + 1
    BY <1>3
  <2>2. QED
    BY <2>1 DEF ChainInv
<1>5. QED
  BY <1>2, <1>3, <1>4

(* Every step preserves ChainInv.                                          *)
LEMMA ChainInvStep == Typed /\ ChainInv /\ [Next]_vars => ChainInv'
<1> SUFFICES ASSUME Typed, ChainInv, [Next]_vars PROVE ChainInv'
  OBVIOUS
<1> USE Numbers
<1>1. CASE HandleBlock
  <2> DEFINE b == stored + 1
  <2>1. /\ polled = stored /\ polled' = b
        /\ UNCHANGED <<up, stored, lastProcessedBoundary, savedBoundary, handling>>
        /\ \/ blockChannel' = Append(blockChannel, b)
           \/ blockChannel' = blockChannel
        /\ up
    BY <1>1 DEF HandleBlock, boundary
  <2>2. CASE blockChannel' = Append(blockChannel, b)
    <3>1. blockChannel \in Seq(Blocks)
      BY DEF Typed, TypeOK, ChainTyped
    <3>2. /\ Len(blockChannel') = Len(blockChannel) + 1
          /\ blockChannel'[Len(blockChannel) + 1] = b
          /\ \A i \in 1..Len(blockChannel) : blockChannel'[i] = blockChannel[i]
      BY <2>2, <3>1
    <3>3. \A i \in 1..Len(blockChannel') :
             i \in 1..Len(blockChannel) \/ i = Len(blockChannel) + 1
      BY <3>2
    <3>4. \A i \in 1..Len(blockChannel') :
             lastProcessedBoundary <= blockChannel'[i] /\ blockChannel'[i] <= b
      BY <3>2, <3>3 DEF ChainInv
    <3>5. \A i, j \in 1..Len(blockChannel') :
             i <= j => blockChannel'[i] <= blockChannel'[j]
      BY <3>2, <3>3, <3>4 DEF ChainInv
    <3>6. QED
      BY <2>1, <3>4, <3>5 DEF ChainInv
  <2>3. CASE blockChannel' = blockChannel
    BY <2>1, <2>3 DEF ChainInv
  <2>4. QED
    BY <2>1, <2>2, <2>3
<1>2. CASE RecordBlock
  <2>1. /\ stored' \in {stored, stored + 1} /\ polled' = stored'
        /\ UNCHANGED <<up, blockChannel, lastProcessedBoundary, savedBoundary, handling>>
    BY <1>2 DEF RecordBlock, boundary, ChainInv
  <2>2. QED
    BY <2>1 DEF ChainInv
<1>3. CASE PassOverBlock \/ ReachBoundary
  <2> DEFINE head == Head(blockChannel)
             tail == Tail(blockChannel)
  <2>1. /\ blockChannel # <<>> /\ blockChannel' = tail /\ up
        /\ UNCHANGED <<up, polled, stored>>
        /\ lastProcessedBoundary' \in {lastProcessedBoundary, head}
        /\ savedBoundary' \in {savedBoundary, head}
    BY <1>3 DEF PassOverBlock, ReachBoundary, persistBoundary
  <2>2. /\ head = blockChannel[1] /\ 1 \in 1..Len(blockChannel)
        /\ Len(tail) = Len(blockChannel) - 1
        /\ \A i \in 1..Len(tail) :
             /\ i + 1 \in 1..Len(blockChannel)
             /\ tail[i] = blockChannel[i + 1]
             /\ head <= tail[i]
    BY <2>1, TailOfChannel
  <2> HIDE DEF head, tail
  <2>3. head <= stored + 1 /\ lastProcessedBoundary <= head
    BY <2>2 DEF ChainInv
  <2>4. \A i, j \in 1..Len(tail) : i <= j => tail[i] <= tail[j]
    <3> SUFFICES ASSUME NEW i \in 1..Len(tail), NEW j \in 1..Len(tail), i <= j
                 PROVE  tail[i] <= tail[j]
      OBVIOUS
    <3>1. /\ i + 1 \in 1..Len(blockChannel) /\ j + 1 \in 1..Len(blockChannel)
          /\ tail[i] = blockChannel[i + 1] /\ tail[j] = blockChannel[j + 1]
      BY <2>2
    <3>2. i + 1 <= j + 1
      BY <2>2
    <3>3. QED
      BY <3>1, <3>2 DEF ChainInv
  <2>5. \A i \in 1..Len(tail) :
          lastProcessedBoundary' <= tail[i] /\ tail[i] <= stored + 1
    BY <2>1, <2>2 DEF ChainInv
  <2>6. QED
    BY <2>1, <2>3, <2>4, <2>5 DEF ChainInv
<1>4. CASE SkipBoundary \/ LaunchRound
  BY <1>4 DEF SkipBoundary, LaunchRound, ChainInv, chainVars
<1>5. CASE Crash
  BY <1>5 DEF Crash, ChainInv
<1>6. CASE Restart
  BY <1>6 DEF Restart, ChainInv
<1>7. CASE UNCHANGED <<up, chainVars, boundary>>
  BY <1>7 DEF chainVars, boundary, ChainInv
<1>8. QED
  BY <1>1, <1>2, <1>3, <1>4, <1>5, <1>6, <1>7
     DEF Next, vars, CreateSession, EndRound, GetSession, Register, Retrieve,
         TimeOut

(* Every step preserves OnceInv.                                           *)
LEMMA OnceStep == Typed /\ ChainInv /\ OnceInv /\ [Next]_vars => OnceInv'
<1> SUFFICES ASSUME Typed, ChainInv, OnceInv, [Next]_vars, ~unsaved'
             PROVE  OnceInv'
  BY DEF OnceInv
<1> USE Numbers DEF OnceInv
<1>1. CASE PassOverBlock
  BY <1>1, TailOfChannel DEF PassOverBlock, roundVars
<1>2. CASE ReachBoundary
  <2> DEFINE head == Head(blockChannel)
  <2>a. ~unsaved /\ savedBoundary' = head
    BY <1>2 DEF ReachBoundary, persistBoundary
  <2>1. /\ head \in Boundaries /\ lastProcessedBoundary # 0
        /\ head # lastProcessedBoundary
        /\ lastProcessedBoundary' = head /\ handling' = head
        /\ launches' = launches /\ up /\ blockChannel # <<>>
    BY <1>2 DEF ReachBoundary, persistBoundary, roundVars
  <2>2. lastProcessedBoundary <= head /\ head \in Nat
    BY <2>1, TailOfChannel DEF ChainInv
  <2> HIDE DEF head
  <2>3. savedBoundary < head
    BY <2>a, <2>1, <2>2
  <2>4. \A b \in Boundaries : launches[b] # 0 => b < head
    BY <2>a, <2>2, <2>3
  <2>5. QED
    BY <2>a, <2>1, <2>2, <2>3, <2>4
<1>3. CASE SkipBoundary
  BY <1>3 DEF SkipBoundary, roundVars
<1>4. CASE LaunchRound
  BY <1>4 DEF LaunchRound, Typed, TypeOK, BoundaryTyped, RoundTyped
<1>5. CASE Crash
  BY <1>5 DEF Crash
<1>6. CASE Restart
  BY <1>6 DEF Restart, ChainInv, roundVars
<1>7. CASE UNCHANGED <<up, boundary, launches>>
  BY <1>7 DEF boundary
<1>8. QED
  BY <1>1, <1>2, <1>3, <1>4, <1>5, <1>6, <1>7
     DEF Next, vars, roundVars, HandleBlock, RecordBlock, CreateSession,
         EndRound, GetSession, Register, Retrieve, TimeOut

(* However blocks are dropped or handed over again and however often the   *)
(* node restarts, a boundary launches at most one round, provided it was   *)
(* persisted.                                                              *)
THEOREM OneRoundPerBoundary == Spec => []RoundOncePerBoundary
<1>1. OnceInv => RoundOncePerBoundary
  BY DEF OnceInv, RoundOncePerBoundary
<1>2. QED
  BY InitTyped, InitOnce, TypeStep, ChainInvStep, OnceStep, <1>1, PTL DEF Spec

(***************************************************************************)
(* No channel is left behind. The channel of a session is named by the     *)
(* request that made it, which itself waits on it.                         *)
(***************************************************************************)
WaiterInv ==
    \A b \in Boundaries : sessionNotify[b] # NoRequest =>
        /\ request[sessionNotify[b]].stage = "waiting"
        /\ request[sessionNotify[b]].session = b
        /\ request[sessionNotify[b]].channel = sessionNotify[b]

(* There is no channel initially.                                          *)
LEMMA InitWaiter == Init => WaiterInv
BY DEF Init, WaiterInv

(* Every step preserves WaiterInv.                                         *)
LEMMA WaiterStep == Typed /\ WaiterInv /\ [Next]_vars => WaiterInv'
<1> SUFFICES ASSUME Typed, WaiterInv, [Next]_vars PROVE WaiterInv'
  OBVIOUS
<1>a. RequestTyped /\ Arrived
  BY DEF Typed, TypeOK
<1> USE <1>a, SchedulerAssumption DEF RequestTyped, Arrived, At, WaiterInv
<1>1. ASSUME NEW b \in Boundaries, CreateSession(b)
      PROVE  WaiterInv'
  BY <1>1 DEF CreateSession
<1>2. ASSUME NEW r \in Requests, NEW b \in Boundaries, GetSession(r, b)
      PROVE  WaiterInv'
  BY <1>2 DEF GetSession
<1>3. ASSUME NEW r \in Requests, Register(r)
      PROVE  WaiterInv'
  BY <1>3 DEF Register
<1>4. ASSUME NEW r \in Requests, Retrieve(r)
      PROVE  WaiterInv'
  BY <1>4 DEF Retrieve, Moves
<1>5. ASSUME NEW r \in Requests, TimeOut(r)
      PROVE  WaiterInv'
  BY <1>5 DEF TimeOut, Moves
<1>6. CASE Crash
  BY <1>6 DEF Crash
<1>7. CASE UNCHANGED requestVars
  BY <1>7 DEF requestVars
<1>8. QED
  BY <1>1, <1>2, <1>3, <1>4, <1>5, <1>6, <1>7
     DEF Next, vars, HandleBlock, RecordBlock, PassOverBlock, ReachBoundary,
         SkipBoundary, LaunchRound, EndRound, Restart

(* sessionNotify never keeps a channel nobody waits on, whatever order     *)
(* registration, time-outs, sessions and crashes come in.                  *)
THEOREM NoLeakedChannel == Spec => []ChannelHasWaiter
<1>1. WaiterInv => ChannelHasWaiter
  BY DEF WaiterInv, ChannelHasWaiter
<1>2. QED
  BY InitTyped, InitWaiter, TypeStep, WaiterStep, <1>1, PTL DEF Spec
=============================================================================
