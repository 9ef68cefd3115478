-------------------------- MODULE CDHHelperProofs --------------------------
(***************************************************************************)
(* Proofs about the helper processes of one pod, for any number of them,   *)
(* any requests, init data and sequence of the platform's secrets, and any *)
(* number of failures, kills and reboots.                                  *)
(***************************************************************************)
EXTENDS CDHHelper, TLAPS

Bound == initData.config.stack
AtWork == {"lookup", "attest", "discover", "retrieve", "recovered", "store", "write", "rename",
           "emit"}
HasEnv == {"store", "write", "rename", "emit"}

(* Secrets the platform had in this boot, all sealed to the bound stack.   *)
Ours(env, stack, moments) ==
    \E n \in moments :
        /\ env = Opened(n)
        /\ \A name \in DOMAIN Snapshots[n] : Snapshots[n][name].to = stack

(* What a process may emit for its key: such secrets, or a root key that   *)
(* was checked, the stack's if a voted public key was the check.           *)
TrueEnv(key, via, env, stack, moments) ==
    IF key = appPrivateKeyKey
    THEN via # "error" /\ (via = "vote" => env = RootEnv(KeyOf(stack)))
    ELSE Ours(env, stack, moments)

(* A process at work: it serves the bound stack; a key it recovered and    *)
(* checked by vote is the stack's; what it resolved is true; it writes to the     *)
(* cache only what may be cached; and when the cache was there at its      *)
(* start, it is still there and only an uncacheable key went past it.      *)
JobFit(h, stack, moments, cache) ==
    /\ h.stack = stack
    /\ h.phase = "recovered" /\ h.via = "vote" => h.secret = KeyOf(stack)
    /\ h.phase \in HasEnv => TrueEnv(h.key, h.via, h.env, stack, moments)
    /\ h.phase \in {"write", "rename"} => cacheable(h.key)
    /\ h.late => IF h.phase = "lookup" THEN stack \in DOMAIN cache ELSE ~cacheable(h.key)

(* What a process has emitted is true.                                     *)
OutFit(h, stack, moments) ==
    IF h.key = appPrivateKeyKey
    THEN h.via # "error" /\ (h.via = "vote" => h.out = KeyOf(stack))
    ELSE \E n \in moments : /\ h.key \in DOMAIN Snapshots[n]
                            /\ Snapshots[n][h.key].to = stack
                            /\ Snapshots[n][h.key].value = h.out

Fit(h, stack, moments, cache) ==
    /\ h.phase \in AtWork => JobFit(h, stack, moments, cache)
    /\ h.phase = "done" => OutFit(h, stack, moments)

HelpersInv ==
    /\ DOMAIN helper = Helpers
    /\ \A p \in Helpers : Fit(helper[p], Bound, seen, final)

CacheInv ==
    /\ current \in seen
    /\ \A stack \in DOMAIN final : 
          /\ stack = Bound
          /\ final[stack].whole /\ Ours(final[stack].env, Bound, seen)

Inv == HelpersInv /\ CacheInv

(* The fields of a job are what it was made of.                            *)
LEMMA JobFields ==
    ASSUME NEW phase, NEW key, NEW stack, NEW late, NEW evidence, NEW secret, NEW via,
           NEW env, NEW h, h = Job(phase, key, stack, late, evidence, secret, via, env)
    PROVE  /\ h.phase = phase /\ h.key = key /\ h.stack = stack /\ h.late = late
           /\ h.evidence = evidence /\ h.secret = secret /\ h.via = via
           /\ h.env = env
BY DEF Job

(* One process moves and the others stay.                                  *)
LEMMA Moved ==
    ASSUME HelpersInv, NEW p \in Helpers, NEW new, Becomes(p, new),
           UNCHANGED <<initData, seen, final>>, Fit(new, Bound, seen, final)
    PROVE  HelpersInv'
<1>1. helper' = [helper EXCEPT ![p] = new]
  BY DEF Becomes
<1>2. DOMAIN helper' = Helpers
  BY <1>1 DEF HelpersInv
<1>3. ASSUME NEW q \in Helpers
      PROVE  Fit(helper'[q], Bound, seen, final)
  <2>1. helper'[q] = new \/ helper'[q] = helper[q]
    BY <1>1, <1>3 DEF HelpersInv
  <2>2. QED
    BY <1>3, <2>1, Zenon DEF HelpersInv
<1>4. Bound' = Bound /\ seen' = seen /\ final' = final
  BY DEF Bound
<1>5. QED
  BY <1>2, <1>3, <1>4, Zenon DEF HelpersInv

(* A process that has ended without a value claims nothing.                *)
LEMMA EndedFit ==
    ASSUME NEW new, new.phase \notin AtWork, new.phase # "done",
           NEW stack, NEW moments, NEW cache
    PROVE  Fit(new, stack, moments, cache)
BY DEF Fit

(* A failed process is one that may be.                                    *)
LEMMA FailFit ==
    ASSUME NEW p \in Helpers, NEW why, Fail(p, why)
    PROVE  \E new : Becomes(p, new) /\ Fit(new, Bound, seen, final)
<1> DEFINE new == [phase |-> "failed", why |-> why]
<1>1. new.phase = "failed"
  OBVIOUS
<1>2. Becomes(p, new)
  BY DEF Fail
<1> HIDE DEF new
<1>3. new.phase \notin AtWork /\ new.phase # "done"
  BY <1>1 DEF AtWork
<1>4. QED
  BY <1>2, <1>3, EndedFit, Zenon

(* A job that keeps its fields and changes its phase.                      *)
LEMMA PhaseFields ==
    ASSUME NEW p \in Helpers, NEW phase, To(p, phase)
    PROVE  \E new : /\ Becomes(p, new) /\ new.phase = phase /\ new.key = helper[p].key
                    /\ new.stack = helper[p].stack /\ new.late = helper[p].late
                    /\ new.env = helper[p].env /\ new.via = helper[p].via
                    /\ new.evidence = helper[p].evidence
<1> DEFINE h == helper[p]
           new == Job(phase, h.key, h.stack, h.late, h.evidence, h.secret, h.via, h.env)
<1>1. Becomes(p, new)
  BY DEF To
<1>2. /\ new.phase = phase /\ new.key = h.key /\ new.stack = h.stack /\ new.late = h.late
      /\ new.env = h.env /\ new.via = h.via /\ new.evidence = h.evidence
  BY JobFields
<1> HIDE DEF new
<1>3. QED
  BY <1>1, <1>2

-----------------------------------------------------------------------------
(* The steps of a process.                                                 *)

(* The process serves the bound stack, whatever stack its request names.   *)
LEMMA StartFit ==
    ASSUME CacheInv, NEW p \in Helpers, NEW request, Start(p, request)
    PROVE  \E new : Becomes(p, new) /\ Fit(new, Bound, seen, final)
<1> DEFINE config == parseInitdataKMSConfig(initData)
           phase == "lookup"
           new == Job(phase, request.key, BoundStack(request, config),
                      DOMAIN final # {}, None, None, None, None)
<1>1. CASE Fail(p, "request")
  BY <1>1, FailFit, Zenon
<1>2. CASE applyInitdataKMSConfig(config) /\ Becomes(p, new)
  <2>1. config = initData.config
    BY <1>2, Zenon DEF applyInitdataKMSConfig, parseInitdataKMSConfig
  <2>2. BoundStack(request, config) = Bound
    BY <2>1, Zenon DEF BoundStack, Bound
  <2> DEFINE late == DOMAIN final # {}
  <2>3. late => Bound \in DOMAIN final
    BY DEF CacheInv
  <2>4. Becomes(p, new) /\ new = Job(phase, request.key, Bound, late, None, None, None, None)
    BY <1>2, <2>2, Zenon
  <2> HIDE DEF phase, late, new
  <2>5. new.phase = phase /\ new.stack = Bound /\ new.late = late
    BY <2>4, JobFields
  <2>6. Fit(new, Bound, seen, final)
    BY <2>3, <2>5 DEF Fit, JobFit, phase, HasEnv
  <2>7. QED
    BY <2>4, <2>6
<1>3. QED
  BY <1>1, <1>2, Zenon DEF Start

(* A process at work has a fitting job.                                    *)
LEMMA RunningFit ==
    ASSUME HelpersInv, NEW p \in Helpers, helper[p].phase \in AtWork
    PROVE  JobFit(helper[p], Bound, seen, final)
BY DEF HelpersInv, Fit

(* A value taken from a true environment is true.                          *)
LEMMA EmitFit ==
    ASSUME NEW p \in Helpers, NEW env, emitKey(p, env),
           TrueEnv(helper[p].key, helper[p].via, env, Bound, seen)
    PROVE  \E new : Becomes(p, new) /\ Fit(new, Bound, seen, final)
<1> DEFINE key == helper[p].key  via == helper[p].via
           new == [phase |-> "done", key |-> key, via |-> via, out |-> env[key]]
<1>1. CASE Fail(p, "no such key")
  BY <1>1, FailFit, Zenon
<1>2. CASE key \in DOMAIN env /\ Becomes(p, new)
  <2>1. new.phase = "done" /\ new.key = key /\ new.via = via /\ new.out = env[key]
    OBVIOUS
  <2> HIDE DEF new, key, via
  <2>2. OutFit(new, Bound, seen)
    <3>1. CASE key = appPrivateKeyKey
      <4>1. via # "error" /\ (via = "vote" => env = RootEnv(KeyOf(Bound)))
        BY <3>1 DEF TrueEnv, key, via
      <4>2. via = "vote" => env[key] = KeyOf(Bound)
        BY <3>1, <4>1 DEF RootEnv
      <4>3. QED
        BY <2>1, <3>1, <4>1, <4>2 DEF OutFit
    <3>2. CASE key # appPrivateKeyKey
      <4>1. PICK n \in seen :
               /\ env = Opened(n)
               /\ \A name \in DOMAIN Snapshots[n] : Snapshots[n][name].to = Bound
        BY <3>2 DEF TrueEnv, Ours, key
      <4>2. key \in DOMAIN Snapshots[n] /\ env[key] = Snapshots[n][key].value
        BY <1>2, <4>1 DEF Opened
      <4>3. QED
        BY <2>1, <3>2, <4>1, <4>2, Zenon DEF OutFit
    <3>3. QED
      BY <3>1, <3>2
  <2>3. Fit(new, Bound, seen, final)
    BY <2>1, <2>2 DEF Fit, AtWork
  <2>4. QED
    BY <1>2, <2>3
<1>3. QED
  BY <1>1, <1>2, Zenon DEF emitKey

(* A cache lookup leaves the process fit: what it found is one of the      *)
(* published environments.                                                 *)
LEMMA LookupFit ==
    ASSUME Inv, NEW p \in Helpers, loadCachedEnv(p)
    PROVE  \E new : Becomes(p, new) /\ Fit(new, Bound, seen, final)
<1> DEFINE h == helper[p]
<1>1. h.phase = "lookup"
  BY DEF loadCachedEnv
<1>2. JobFit(h, Bound, seen, final)
  BY <1>1, RunningFit DEF AtWork, Inv
<1>3. CASE cacheable(h.key) /\ Cached(h.stack) /\ emitKey(p, final[h.stack].env)
  <2>1. h.key # appPrivateKeyKey /\ Ours(final[h.stack].env, Bound, seen)
    BY <1>3 DEF cacheable, Cached, Inv, CacheInv
  <2>2. TrueEnv(h.key, h.via, final[h.stack].env, Bound, seen)
    BY <2>1, Zenon DEF TrueEnv
  <2>3. QED
    BY <1>3, <2>2, EmitFit, Zenon
<1>4. CASE ~(cacheable(h.key) /\ Cached(h.stack)) /\ To(p, "attest")
  <2> DEFINE phase == "attest"
  <2>1. PICK new : /\ Becomes(p, new) /\ new.phase = phase /\ new.key = h.key
                   /\ new.stack = h.stack /\ new.late = h.late
    <3>1. To(p, phase)
      BY <1>4, Zenon
    <3> HIDE DEF phase
    <3>2. QED
      BY <3>1, PhaseFields
  <2>2. Fit(new, Bound, seen, final)
    <3>1. Bound \in DOMAIN final => Cached(Bound)
      BY DEF Inv, CacheInv, Cached
    <3>2. QED
      BY <1>1, <1>2, <1>4, <2>1, <3>1 DEF Fit, JobFit, HasEnv
  <2>3. QED
    BY <2>1, <2>2
<1>5. QED
  BY <1>3, <1>4, Zenon DEF loadCachedEnv

(* Fetching evidence leaves the process fit.                               *)
LEMMA EvidenceFit ==
    ASSUME HelpersInv, NEW p \in Helpers, NEW answer, fetchAAEvidence(p, answer)
    PROVE  \E new : Becomes(p, new) /\ Fit(new, Bound, seen, final)
<1> DEFINE h == helper[p]  phase == "discover"
           evidence == transformAAEvidence(answer,
                          buildReportData(generateRSAKeypair(p), "", initData))
           new == Job(phase, h.key, h.stack, h.late, evidence, None, None, None)
<1>1. h.phase = "attest" /\ (Fail(p, "report") \/ Becomes(p, new))
  BY Zenon DEF fetchAAEvidence
<1>2. JobFit(h, Bound, seen, final)
  BY <1>1, RunningFit DEF AtWork
<1> HIDE DEF phase, evidence
<1>3. new.phase = phase /\ new.key = h.key /\ new.stack = h.stack /\ new.late = h.late
  BY JobFields
<1> HIDE DEF new
<1>4. Fit(new, Bound, seen, final)
  BY <1>1, <1>2, <1>3 DEF Fit, JobFit, HasEnv, phase
<1>5. QED
  BY <1>1, <1>4, FailFit, Zenon

(* So does finding the operators.                                          *)
LEMMA DiscoverFit ==
    ASSUME HelpersInv, NEW p \in Helpers, GetOperators(p)
    PROVE  \E new : Becomes(p, new) /\ Fit(new, Bound, seen, final)
<1> DEFINE h == helper[p]  phase == "retrieve"
<1>1. h.phase = "discover" /\ To(p, phase)
  BY DEF GetOperators
<1>2. JobFit(h, Bound, seen, final)
  BY <1>1, RunningFit DEF AtWork
<1> HIDE DEF phase
<1>3. PICK new : /\ Becomes(p, new) /\ new.phase = phase /\ new.key = h.key
                 /\ new.stack = h.stack /\ new.late = h.late
  BY <1>1, PhaseFields
<1>4. Fit(new, Bound, seen, final)
  BY <1>1, <1>2, <1>3 DEF Fit, JobFit, HasEnv, phase
<1>5. QED
  BY <1>3, <1>4

(* Retrieving the key leaves the process fit: a key checked by vote is the *)
(* stack's.                                                                *)
LEMMA RetrieveFit ==
    ASSUME HelpersInv, NEW p \in Helpers, NEW key, NEW via,
           RetrieveSecrets(p, key, via)
    PROVE  \E new : Becomes(p, new) /\ Fit(new, Bound, seen, final)
<1> DEFINE h == helper[p]  phase == "recovered"
           new == Job(phase, h.key, h.stack, h.late, None, key, via, None)
<1>1. /\ h.phase = "retrieve" /\ (Fail(p, "refused") \/ Becomes(p, new))
      /\ via = "vote" => key = KeyOf(h.stack)
  BY Zenon DEF RetrieveSecrets
<1>2. JobFit(h, Bound, seen, final)
  BY <1>1, RunningFit DEF AtWork
<1> HIDE DEF phase
<1>3. /\ new.phase = phase /\ new.key = h.key /\ new.stack = h.stack /\ new.late = h.late
      /\ new.secret = key /\ new.via = via
  BY JobFields
<1> HIDE DEF new
<1>4. Fit(new, Bound, seen, final)
  BY <1>1, <1>2, <1>3 DEF Fit, JobFit, HasEnv, phase
<1>5. QED
  BY <1>1, <1>4, FailFit, Zenon

(* The secrets fetched are the platform's current ones, and each of them   *)
(* opened, so each was sealed to the bound stack; the root key goes on     *)
(* only when it was checked.                                               *)
LEMMA ResolveFit ==
    ASSUME Inv, NEW p \in Helpers, resolveEnv(p)
    PROVE  \E new : Becomes(p, new) /\ Fit(new, Bound, seen, final)
<1> DEFINE h == helper[p]  phase == "store"
           New(env) == Job(phase, h.key, h.stack, h.late, h.evidence, h.secret, h.via, env)
<1>1. h.phase = "recovered"
  BY DEF resolveEnv
<1>2. JobFit(h, Bound, seen, final)
  BY <1>1, RunningFit DEF AtWork, Inv
<1>3. ASSUME NEW env, Resolved(p, env), TrueEnv(h.key, h.via, env, Bound, seen)
      PROVE  \E new : Becomes(p, new) /\ Fit(new, Bound, seen, final)
  <2>1. Becomes(p, New(env))
    BY <1>3, Zenon DEF Resolved
  <2> DEFINE new == New(env)
  <2> HIDE DEF phase
  <2>2. /\ new.phase = phase /\ new.key = h.key /\ new.stack = h.stack /\ new.late = h.late
        /\ new.env = env /\ new.via = h.via
    BY JobFields
  <2> HIDE DEF new
  <2>3. Fit(new, Bound, seen, final)
    BY <1>1, <1>2, <1>3, <2>2 DEF Fit, JobFit, HasEnv, phase
  <2>4. Becomes(p, new)
    BY <2>1 DEF new
  <2>5. QED
    BY <2>3, <2>4
<1>4. CASE h.key = appPrivateKeyKey /\ Verified(h) /\ Resolved(p, RootEnv(h.secret))
  <2>1. h.via # "error" /\ (h.via = "vote" => RootEnv(h.secret) = RootEnv(KeyOf(Bound)))
    BY <1>1, <1>2, <1>4 DEF JobFit, Verified
  <2>2. TrueEnv(h.key, h.via, RootEnv(h.secret), Bound, seen)
    BY <1>4, <2>1, Zenon DEF TrueEnv
  <2>3. QED
    BY <1>3, <1>4, <2>2, Zenon
<1>5. CASE /\ h.key # appPrivateKeyKey
           /\ \A name \in DOMAIN Snapshots[current] :
                 DecryptForApp(h.stack, h.secret, Snapshots[current][name])
           /\ Resolved(p, Opened(current))
  <2>1. h.stack = Bound
    BY <1>2 DEF JobFit
  <2>2. \A name \in DOMAIN Snapshots[current] : Snapshots[current][name].to = Bound
    BY <1>5, <2>1, Zenon DEF DecryptForApp
  <2>3. Ours(Opened(current), Bound, seen)
    BY <2>2, Zenon DEF Ours, Inv, CacheInv
  <2>4. TrueEnv(h.key, h.via, Opened(current), Bound, seen)
    BY <1>5, <2>3, Zenon DEF TrueEnv
  <2>5. QED
    BY <1>3, <1>5, <2>4, Zenon
<1>6. QED
  BY <1>4, <1>5, FailFit, Zenon
     DEF resolveEnv, emitAppPrivateKey, assembleEnvFromSecrets, fetchStackSecrets, Opened

(* A process that has its environment keeps it on its way to the cache.    *)
LEMMA KeepsEnv ==
    ASSUME HelpersInv, NEW p \in Helpers, helper[p].phase \in HasEnv,
           NEW phase \in HasEnv, To(p, phase),
           phase \in {"write", "rename"} => cacheable(helper[p].key)
    PROVE  \E new : Becomes(p, new) /\ Fit(new, Bound, seen, final)
<1>1. JobFit(helper[p], Bound, seen, final)
  BY RunningFit DEF AtWork, HasEnv
<1>2. PICK new : /\ Becomes(p, new) /\ new.phase = phase /\ new.key = helper[p].key
                 /\ new.stack = helper[p].stack /\ new.late = helper[p].late
                 /\ new.env = helper[p].env /\ new.via = helper[p].via
  BY PhaseFields
<1>3. Fit(new, Bound, seen, final)
  BY <1>1, <1>2 DEF Fit, JobFit, HasEnv
<1>4. QED
  BY <1>2, <1>3

(* What stays true of a process when the platform changes its secrets or   *)
(* another process replaces the cache.                                     *)
LEMMA FitGrows ==
    ASSUME NEW h, NEW stack, NEW moments, NEW more, NEW cache, NEW fuller,
           moments \subseteq more, DOMAIN cache \subseteq DOMAIN fuller,
           Fit(h, stack, moments, cache)
    PROVE  Fit(h, stack, more, fuller)
<1>1. ASSUME h.phase = "done"
      PROVE  OutFit(h, stack, more)
  <2>1. OutFit(h, stack, moments)
    BY <1>1 DEF Fit
  <2>2. QED
    BY <2>1, Zenon DEF OutFit
<1>2. ASSUME h.phase \in AtWork
      PROVE  JobFit(h, stack, more, fuller)
  <2>1. JobFit(h, stack, moments, cache)
    BY <1>2 DEF Fit
  <2>2. ASSUME TrueEnv(h.key, h.via, h.env, stack, moments)
        PROVE  TrueEnv(h.key, h.via, h.env, stack, more)
    BY <2>2, Zenon DEF TrueEnv, Ours
  <2>3. QED
    BY <2>1, <2>2 DEF JobFit
<1>3. QED
  BY <1>1, <1>2 DEF Fit

-----------------------------------------------------------------------------
(* The invariant.                                                          *)

(* The initial states satisfy Inv.                                         *)
LEMMA InitInv == Init => Inv
<1> SUFFICES ASSUME Init
             PROVE  Inv
  OBVIOUS
<1>1. DOMAIN helper = Helpers /\ \A p \in Helpers : helper[p].phase = "idle"
  BY DEF Init, Idle
<1>2. HelpersInv
  BY <1>1 DEF HelpersInv, Fit, AtWork
<1>3. CacheInv
  BY DEF Init, CacheInv
<1>4. QED
  BY <1>2, <1>3 DEF Inv

(* A step in which one process moves and the cache stays.                  *)
LEMMA MovedInv ==
    ASSUME Inv, NEW p \in Helpers, UNCHANGED <<initData, current, seen, final>>,
           \E new : Becomes(p, new) /\ Fit(new, Bound, seen, final)
    PROVE  Inv'
<1>1. HelpersInv'
  BY Moved, Zenon DEF Inv
<1>2. Bound' = Bound
  BY DEF Bound
<1>3. CacheInv'
  BY <1>2 DEF Inv, CacheInv, Ours, Opened
<1>4. QED
  BY <1>1, <1>3 DEF Inv

(* The rename puts a true environment in the cache, which no process takes *)
(* out again: those that were started after it still find it.              *)
LEMMA RenameInv ==
    ASSUME Inv, NEW p \in Helpers, RenameTemp(p)
    PROVE  Inv'
<1> DEFINE h == helper[p]  phase == "emit"
<1>1. /\ h.phase = "rename" /\ To(p, phase) /\ final' = With(final, h.stack, Whole(h.env))
      /\ UNCHANGED <<initData, current, seen>>
  BY DEF RenameTemp
<1>2. JobFit(h, Bound, seen, final)
  BY <1>1, RunningFit DEF AtWork, Inv
<1>3. h.stack = Bound /\ Ours(h.env, Bound, seen)
  BY <1>1, <1>2 DEF JobFit, HasEnv, TrueEnv, cacheable
<1>4. /\ DOMAIN final' = DOMAIN final \cup {Bound}
      /\ \A stack \in DOMAIN final' :
            final'[stack] = IF stack = Bound THEN Whole(h.env) ELSE final[stack]
  <2>1. final' = With(final, Bound, Whole(h.env))
    BY <1>1, <1>3, Zenon
  <2>2. QED
    BY <2>1 DEF With
<1>5. Bound' = Bound /\ seen' = seen /\ current' = current
  BY <1>1 DEF Bound
<1>6. CacheInv'
  <2>1. Whole(h.env).whole /\ Whole(h.env).env = h.env
    BY DEF Whole
  <2>2. \A stack \in DOMAIN final' :
           /\ stack = Bound
           /\ final'[stack].whole /\ Ours(final'[stack].env, Bound, seen)
    BY <1>3, <1>4, <2>1 DEF Inv, CacheInv
  <2>3. QED
    BY <1>5, <2>2 DEF Inv, CacheInv, Ours, Opened
<1>7. HelpersInv'
  <2>1. PICK new : Becomes(p, new) /\ Fit(new, Bound, seen, final)
    <3>1. phase \in HasEnv /\ h.phase \in HasEnv /\ phase \notin {"write", "rename"}
      BY <1>1 DEF HasEnv
    <3> HIDE DEF phase
    <3>2. QED
      BY <1>1, <3>1, KeepsEnv DEF Inv
  <2>2. DOMAIN helper' = Helpers
    BY <2>1 DEF Becomes, Inv, HelpersInv
  <2>3. ASSUME NEW q \in Helpers
        PROVE  Fit(helper'[q], Bound, seen, final')
    <3>1. helper'[q] = new \/ helper'[q] = helper[q]
      BY <2>1, <2>3 DEF Becomes, Inv, HelpersInv
    <3>2. Fit(helper'[q], Bound, seen, final)
      BY <2>1, <2>3, <3>1, Zenon DEF Inv, HelpersInv
    <3>3. DOMAIN final \subseteq DOMAIN final'
      BY <1>4
    <3>4. QED
      BY <3>2, <3>3, FitGrows, Zenon
  <2>4. QED
    BY <1>5, <2>2, <2>3, Zenon DEF HelpersInv
<1>8. QED
  BY <1>6, <1>7 DEF Inv

(* A reboot empties the cache and ends every process.                      *)
LEMMA RebootInv ==
    ASSUME Inv, Reboot
    PROVE  Inv'
<1>1. DOMAIN helper' = Helpers /\ \A p \in Helpers : helper'[p].phase = "idle"
  BY DEF Reboot, Idle
<1>2. HelpersInv'
  BY <1>1 DEF HelpersInv, Fit, AtWork
<1>3. CacheInv'
  BY DEF Reboot, CacheInv
<1>4. QED
  BY <1>2, <1>3 DEF Inv

(* New secrets on the platform leave what processes and cache hold among   *)
(* those published.                                                        *)
LEMMA UpdateInv ==
    ASSUME Inv, UpdateSecrets
    PROVE  Inv'
<1>1. /\ seen \subseteq seen' /\ current' \in seen' /\ UNCHANGED <<initData, final, helper>>
  BY DEF UpdateSecrets
<1>2. Bound' = Bound
  BY <1>1 DEF Bound
<1>3. HelpersInv'
  <2>1. ASSUME NEW p \in Helpers
        PROVE  Fit(helper[p], Bound, seen', final)
    BY <1>1, <2>1, FitGrows, Zenon DEF Inv, HelpersInv
  <2>2. QED
    BY <1>1, <1>2, <2>1, Zenon DEF Inv, HelpersInv
<1>4. CacheInv'
  <2>1. ASSUME NEW env, Ours(env, Bound, seen)
        PROVE  Ours(env, Bound, seen')
    BY <1>1, <2>1, Zenon DEF Ours
  <2>2. QED
    BY <1>1, <1>2, <2>1, Zenon DEF Inv, CacheInv
<1>5. QED
  BY <1>3, <1>4 DEF Inv

(* A process's own steps preserve Inv.                                     *)
LEMMA StepInv ==
    ASSUME Inv, NEW p \in Helpers, Step(p)
    PROVE  Inv'
<1>1. CASE loadCachedEnv(p)
  BY <1>1, LookupFit, MovedInv DEF loadCachedEnv
<1>2. CASE \E answer \in Reports : fetchAAEvidence(p, answer)
  BY <1>2, EvidenceFit, MovedInv DEF fetchAAEvidence, Inv
<1>3. CASE \E key \in {KeyOf(helper[p].stack), WrongKey}, via \in {"vote", "sum", "error"} :
              RetrieveSecrets(p, key, via)
  BY <1>3, RetrieveFit, MovedInv DEF RetrieveSecrets, Inv
<1>4. CASE resolveEnv(p)
  BY <1>4, ResolveFit, MovedInv DEF resolveEnv
<1>5. CASE LockCache(p)
  <2> DEFINE phase == "write"
  <2>1. /\ helper[p].phase = "store" /\ cacheable(helper[p].key) /\ To(p, phase)
        /\ UNCHANGED <<initData, current, seen, final>>
    BY <1>5 DEF LockCache
  <2>2. helper[p].phase \in HasEnv /\ phase \in HasEnv
    BY <2>1 DEF HasEnv
  <2> HIDE DEF phase
  <2>3. QED
    BY <2>1, <2>2, KeepsEnv, MovedInv DEF Inv
<1>6. CASE WriteTemp(p)
  <2> DEFINE phase == "rename"
  <2>1. /\ helper[p].phase = "write" /\ To(p, phase)
        /\ UNCHANGED <<initData, current, seen, final>>
    BY <1>6 DEF WriteTemp
  <2>2. JobFit(helper[p], Bound, seen, final)
    BY <2>1, RunningFit DEF AtWork, Inv
  <2>3. cacheable(helper[p].key)
    BY <2>1, <2>2 DEF JobFit
  <2>4. helper[p].phase \in HasEnv /\ phase \in HasEnv
    BY <2>1 DEF HasEnv
  <2> HIDE DEF phase
  <2>5. QED
    BY <2>1, <2>3, <2>4, KeepsEnv, MovedInv DEF Inv
<1>7. CASE RenameTemp(p)
  BY <1>7, RenameInv
<1>8. CASE Emit(p)
  <2>1. helper[p].phase \in HasEnv /\ emitKey(p, helper[p].env)
        /\ UNCHANGED <<initData, current, seen, final>>
    BY <1>8 DEF Emit, HasEnv
  <2>2. JobFit(helper[p], Bound, seen, final)
    BY <2>1, RunningFit DEF AtWork, HasEnv, Inv
  <2>3. TrueEnv(helper[p].key, helper[p].via, helper[p].env, Bound, seen)
    BY <2>1, <2>2 DEF JobFit
  <2>4. QED
    BY <2>1, <2>3, EmitFit, MovedInv
<1>9. QED
  BY <1>1, <1>2, <1>3, <1>4, <1>5, <1>6, <1>7, <1>8, Zenon DEF Step

(* Failures and kills preserve Inv.                                        *)
LEMMA FaultInv ==
    ASSUME Inv, NEW p \in Helpers, StoreFails(p) \/ CallFails(p) \/ Kill(p)
    PROVE  Inv'
<1>1. CASE StoreFails(p)
  <2> DEFINE phase == "emit"
  <2>1. /\ helper[p].phase \in {"store", "write", "rename"} /\ To(p, phase)
        /\ UNCHANGED <<initData, current, seen, final>>
    BY <1>1 DEF StoreFails
  <2>2. helper[p].phase \in HasEnv /\ phase \in HasEnv /\ phase \notin {"write", "rename"}
    BY <2>1 DEF HasEnv
  <2> HIDE DEF phase
  <2>3. QED
    BY <2>1, <2>2, KeepsEnv, MovedInv DEF Inv
<1>2. CASE CallFails(p)
  BY <1>2, FailFit, MovedInv, Zenon DEF CallFails
<1>3. CASE Kill(p)
  <2> DEFINE new == [phase |-> "killed"]
  <2>1. new.phase \notin AtWork /\ new.phase # "done"
    BY DEF AtWork
  <2>2. Becomes(p, new) /\ UNCHANGED <<initData, current, seen, final>>
    BY <1>3 DEF Kill
  <2> HIDE DEF new
  <2>3. QED
    BY <2>1, <2>2, EndedFit, MovedInv, Zenon
<1>4. QED
  BY <1>1, <1>2, <1>3

(* Every step preserves Inv.                                               *)
LEMMA NextInv == Inv /\ [Next]_vars => Inv'
<1> SUFFICES ASSUME Inv, [Next]_vars
             PROVE  Inv'
  OBVIOUS
<1>1. ASSUME NEW p \in Helpers, NEW request \in Requests, Start(p, request)
      PROVE  Inv'
  BY <1>1, StartFit, MovedInv DEF Start, Inv
<1>2. ASSUME NEW p \in Helpers, GetOperators(p)
      PROVE  Inv'
  BY <1>2, DiscoverFit, MovedInv DEF GetOperators, Inv
<1>3. CASE UNCHANGED vars
  BY <1>3 DEF vars, Inv, HelpersInv, CacheInv, Bound, Fit, JobFit, OutFit, TrueEnv, Ours, Opened
<1>4. QED
  BY <1>1, <1>2, <1>3, StepInv, FaultInv, RebootInv, UpdateInv, Zenon DEF Next

(* Inv holds throughout.                                                   *)
LEMMA InvHolds == Spec => []Inv
BY InitInv, NextInv, PTL DEF Spec

-----------------------------------------------------------------------------
(* What a process emits is true: for any number of processes over one      *)
(* cache, failures, kills, reboots and changes of the platform's secrets,  *)
(* each value was the platform's in this boot and sealed to the bound      *)
(* stack, even if the request names another stack or the recovered key is  *)
(* wrong. A root key is emitted only if it was checked against a public    *)
(* key, and is the bound stack's if operators voted for that public key;   *)
(* of one checked against a sum of commitments nothing more is claimed.    *)
THEOREM EmittedValuesAreTrue == Spec => []EmittedIsTrue
<1>1. Inv => EmittedIsTrue
  <2> SUFFICES ASSUME Inv, NEW p \in Helpers, helper[p].phase = "done"
               PROVE  OutFit(helper[p], Bound, seen)
    BY Zenon DEF EmittedIsTrue, OutFit, Bound
  <2>1. QED
    BY DEF Inv, HelpersInv, Fit
<1>2. QED
  BY <1>1, InvHolds, PTL

(* The cache file of storeCachedEnv always holds all secrets of one moment *)
(* of this boot, for the bound stack only, whoever fails or is killed      *)
(* between the lock and the rename.                                        *)
THEOREM CacheHoldsOneSnapshot == Spec => []CacheIsOneSnapshot
<1>1. Inv => CacheIsOneSnapshot
  BY Zenon DEF Inv, CacheInv, CacheIsOneSnapshot, Ours, Bound
<1>2. QED
  BY <1>1, InvHolds, PTL

(* A process that finds a cache at its start never replaces it: it reads   *)
(* its value there, or resolves the root key, which is not cached.         *)
THEOREM CacheIsReplacedByEarlyProcessesOnly == Spec => CacheSettles
<1> DEFINE Early == \E p \in Helpers : helper[p].phase = "rename" /\ ~helper[p].late
           Settles == final' # final => Reboot \/ Early
<1>1. ASSUME Inv, Next
      PROVE  Settles
  <2>1. ASSUME NEW p \in Helpers, RenameTemp(p)
        PROVE  Early
    <3>1. helper[p].phase = "rename"
      BY <2>1 DEF RenameTemp
    <3>2. JobFit(helper[p], Bound, seen, final)
      BY <1>1, <3>1, RunningFit DEF Inv, AtWork
    <3>3. ~helper[p].late
      BY <3>1, <3>2 DEF JobFit
    <3>4. QED
      BY <3>1, <3>3
  <2>2. ASSUME NEW p \in Helpers, Step(p), ~RenameTemp(p)
        PROVE  final' = final
    BY <2>2 DEF Step, loadCachedEnv, fetchAAEvidence, RetrieveSecrets, resolveEnv, LockCache,
       WriteTemp, Emit
  <2>3. ASSUME NEW p \in Helpers,
               GetOperators(p) \/ StoreFails(p) \/ CallFails(p) \/ Kill(p)
        PROVE  final' = final
    BY <2>3 DEF GetOperators, StoreFails, CallFails, Kill
  <2>4. ASSUME NEW p \in Helpers, NEW request \in Requests, Start(p, request)
        PROVE  final' = final
    BY <2>4 DEF Start
  <2>5. UpdateSecrets => final' = final
    BY DEF UpdateSecrets
  <2>6. QED
    BY <1>1, <2>1, <2>2, <2>3, <2>4, <2>5, Zenon DEF Next
<1>2. Inv /\ [Next]_vars => [Settles]_vars
  BY <1>1
<1>3. QED
  BY <1>2, InvHolds, PTL DEF Spec, CacheSettles

-----------------------------------------------------------------------------
(* The operators' answer to the evidence.                                  *)

(* Evidence made for this process and this boot's init data from a report  *)
(* the helper supports.                                                    *)
Genuine(evidence, p, data) ==
    \E report \in Reports :
        /\ aaReportToProto(report)
        /\ evidence = transformAAEvidence(report, <<generateRSAKeypair(p), "", data>>)

EvidenceFitFor(h, p, data) ==
    /\ h.phase \in {"discover", "retrieve"} => Genuine(h.evidence, p, data)
    /\ h.phase = "failed" => h.why # "refused"

EvidenceInv ==
    /\ initData \in InitDatas
    /\ DOMAIN helper = Helpers
    /\ \A p \in Helpers : EvidenceFitFor(helper[p], p, initData)

(* The operators' verifier undoes the helper's encoding and recomputes the *)
(* report data from the same key and init data.                            *)
LEMMA GenuineIsAccepted ==
    ASSUME GenuinePods, NEW p \in Helpers, initData \in InitDatas,
           Genuine(helper[p].evidence, p, initData)
    PROVE  ~IsRefused(SNPVerify(createEigenXSNPAttestationRequest(p)))
<1> DEFINE request == createEigenXSNPAttestationRequest(p)
           evidence == helper[p].evidence
           refs == parseInitDataPolicy(initData)
<1>1. PICK report \in Reports :
         /\ aaReportToProto(report)
         /\ evidence = transformAAEvidence(report, <<generateRSAKeypair(p), "", initData>>)
  BY DEF Genuine
<1>2. GenuineHost(report) /\ refs # <<>>
  BY <1>1 DEF GenuinePods
<1>3. /\ request.attestation = evidence /\ request.ccInitData = initData
      /\ ExpectedReportData(request) = <<generateRSAKeypair(p), "", initData>>
  BY DEF createEigenXSNPAttestationRequest, ExpectedReportData
<1>4. /\ evidence.type = "snp" /\ evidence.certs = presentCerts(report)
      /\ evidence.genuine
      /\ evidence.measurement = report.measurement /\ evidence.debug = report.debug
      /\ evidence.migrateMA = report.migrateMA /\ evidence.vmpl = report.vmpl
      /\ evidence.reportData = <<generateRSAKeypair(p), "", initData>>
  <2> DEFINE data == <<generateRSAKeypair(p), "", initData>>
             genuine == report.genuine /\ packLegacyTcb(report.tcb) = report.wireTcb
             kept == presentCerts(report)
  <2>1. genuine
    BY <1>2, Zenon DEF GenuineHost
  <2>2. evidence = [type |-> "snp", certs |-> kept, genuine |-> genuine,
                    measurement |-> report.measurement, debug |-> report.debug,
                    migrateMA |-> report.migrateMA, vmpl |-> report.vmpl,
                    reportData |-> data]
    BY <1>1, Zenon DEF transformAAEvidence
  <2> HIDE DEF data, genuine, kept, evidence
  <2>3. /\ evidence.type = "snp" /\ evidence.certs = kept /\ evidence.genuine
        /\ evidence.measurement = report.measurement /\ evidence.debug = report.debug
        /\ evidence.migrateMA = report.migrateMA /\ evidence.vmpl = report.vmpl
        /\ evidence.reportData = data
    BY <2>1, <2>2
  <2>4. QED
    BY <2>3 DEF data, kept
<1> HIDE DEF request, evidence, refs
<1>5. SnpAttestation(evidence, buildCertChain(evidence.certs))
  BY <1>2, <1>4, Zenon DEF GenuineHost, SnpAttestation
<1>6. checkMeasurementAllowed(evidence) /\ validReportFields(evidence)
  BY <1>2, <1>4, Zenon DEF GenuineHost, checkMeasurementAllowed, validReportFields
<1>7. Len(evidence.certs) <= maxCertChainLen
  BY <1>2, <1>4, Zenon DEF GenuineHost
<1>8. evidence.reportData = ExpectedReportData(request)
  BY <1>3, <1>4, Zenon
<1>9. parseInitDataPolicy(request.ccInitData) # <<>>
  BY <1>2, <1>3, Zenon DEF refs
<1>10. SNPVerify(request) = SNPClaims(request, parseInitDataPolicy(request.ccInitData)[1])
  BY <1>3, <1>4, <1>5, <1>6, <1>7, <1>8, <1>9, Zenon DEF SNPVerify
<1>11. \A image : ~IsRefused(SNPClaims(request, image))
  BY DEF SNPClaims, Claims, IsRefused
<1>12. QED
  BY <1>10, <1>11, Zenon DEF request

(* One process moves and the others stay.                                  *)
LEMMA MovedEvidence ==
    ASSUME EvidenceInv, NEW p \in Helpers, NEW new, Becomes(p, new), initData' = initData,
           EvidenceFitFor(new, p, initData)
    PROVE  EvidenceInv'
<1>1. helper' = [helper EXCEPT ![p] = new]
  BY DEF Becomes
<1>2. DOMAIN helper' = Helpers
  BY <1>1 DEF EvidenceInv
<1>3. ASSUME NEW q \in Helpers
      PROVE  EvidenceFitFor(helper'[q], q, initData)
  <2>1. CASE q = p
    <3>1. helper'[q] = new
      BY <1>1, <2>1 DEF EvidenceInv
    <3>2. QED
      BY <2>1, <3>1, Zenon
  <2>2. CASE q # p
    <3>1. helper'[q] = helper[q]
      BY <1>1, <1>3, <2>2 DEF EvidenceInv
    <3>2. QED
      BY <1>3, <3>1, Zenon DEF EvidenceInv
  <2>3. QED
    BY <2>1, <2>2
<1>4. QED
  BY <1>2, <1>3, Zenon DEF EvidenceInv

(* Most steps neither fetch evidence nor are refused.                      *)
LEMMA Elsewhere ==
    ASSUME EvidenceInv, NEW p \in Helpers, NEW new, Becomes(p, new), initData' = initData,
           new.phase \notin {"discover", "retrieve"}, new.phase = "failed" => new.why # "refused"
    PROVE  EvidenceInv'
<1>1. EvidenceFitFor(new, p, initData)
  BY DEF EvidenceFitFor
<1>2. QED
  BY <1>1, MovedEvidence

(* A failure for another reason than a refusal says nothing of the         *)
(* evidence.                                                               *)
LEMMA FailsElsewhere ==
    ASSUME EvidenceInv, NEW p \in Helpers, NEW why, why # "refused", Fail(p, why),
           initData' = initData
    PROVE  EvidenceInv'
<1> DEFINE new == [phase |-> "failed", why |-> why]
<1>1. new.phase = "failed" /\ new.why = why
  OBVIOUS
<1>2. Becomes(p, new)
  BY DEF Fail
<1> HIDE DEF new
<1>3. QED
  BY <1>1, <1>2, Elsewhere

(* Nor does a job outside the retrieval.                                   *)
LEMMA JobElsewhere ==
    ASSUME EvidenceInv, NEW p \in Helpers, initData' = initData,
           NEW phase, phase \notin {"discover", "retrieve", "failed"},
           NEW key, NEW stack, NEW late, NEW evidence, NEW secret, NEW via, NEW env,
           Becomes(p, Job(phase, key, stack, late, evidence, secret, via, env))
    PROVE  EvidenceInv'
<1> DEFINE new == Job(phase, key, stack, late, evidence, secret, via, env)
<1>1. new.phase = phase
  BY JobFields
<1> HIDE DEF new
<1>2. Becomes(p, new)
  BY DEF new
<1>3. QED
  BY <1>1, <1>2, Elsewhere

(* Nor does emitting a value.                                              *)
LEMMA EmitElsewhere ==
    ASSUME EvidenceInv, NEW p \in Helpers, NEW env, emitKey(p, env), initData' = initData
    PROVE  EvidenceInv'
<1> DEFINE new == [phase |-> "done", key |-> helper[p].key, via |-> helper[p].via,
                   out |-> env[helper[p].key]]
           why == "no such key"
<1>1. new.phase = "done" /\ why # "refused"
  OBVIOUS
<1>2. Becomes(p, new) \/ Fail(p, why)
  BY Zenon DEF emitKey
<1> HIDE DEF new, why
<1>3. QED
  BY <1>1, <1>2, Elsewhere, FailsElsewhere

(* Nor does going on to another phase.                                     *)
LEMMA ToElsewhere ==
    ASSUME EvidenceInv, NEW p \in Helpers, initData' = initData,
           NEW phase, phase \notin {"discover", "retrieve", "failed"}, To(p, phase)
    PROVE  EvidenceInv'
<1> DEFINE h == helper[p]
<1>1. Becomes(p, Job(phase, h.key, h.stack, h.late, h.evidence, h.secret, h.via, h.env))
  BY Zenon DEF To
<1>2. QED
  BY <1>1, JobElsewhere

(* Nor does resolving the environment.                                     *)
LEMMA ResolveElsewhere ==
    ASSUME EvidenceInv, NEW p \in Helpers, resolveEnv(p)
    PROVE  EvidenceInv'
<1> DEFINE h == helper[p]  phase == "store"  unverified == "unverified"  sealed == "sealed"
           New(env) == Job(phase, h.key, h.stack, h.late, h.evidence, h.secret, h.via, env)
<1>1. /\ initData' = initData
      /\ (\E env : Becomes(p, New(env))) \/ Fail(p, unverified) \/ Fail(p, sealed)
  BY Zenon DEF resolveEnv, emitAppPrivateKey, assembleEnvFromSecrets, Resolved
<1>2. phase \notin {"discover", "retrieve", "failed"} /\ unverified # "refused" /\ sealed # "refused"
  OBVIOUS
<1> HIDE DEF phase, unverified, sealed
<1>3. ASSUME NEW env, Becomes(p, New(env))
      PROVE  EvidenceInv'
  BY <1>1, <1>2, <1>3, JobElsewhere
<1>4. QED
  BY <1>1, <1>2, <1>3, FailsElsewhere

(* Evidence at hand is what this guest's attestation agent reported.       *)
LEMMA FetchEvidence ==
    ASSUME EvidenceInv, NEW p \in Helpers, NEW answer \in Reports, fetchAAEvidence(p, answer)
    PROVE  EvidenceInv'
<1> DEFINE h == helper[p]  phase == "discover"  why == "report"
           data == <<generateRSAKeypair(p), "", initData>>
           evidence == transformAAEvidence(answer, data)
           new == Job(phase, h.key, h.stack, h.late, evidence, None, None, None)
<1>1. /\ initData' = initData
      /\ Fail(p, why) \/ (aaReportToProto(answer) /\ Becomes(p, new))
  BY Zenon DEF fetchAAEvidence, buildReportData
<1>2. ASSUME Fail(p, why)
      PROVE  EvidenceInv'
  <2>1. why # "refused"
    OBVIOUS
  <2> HIDE DEF why
  <2>2. QED
    BY <1>1, <1>2, <2>1, FailsElsewhere
<1>3. ASSUME aaReportToProto(answer), Becomes(p, new)
      PROVE  EvidenceInv'
  <2>1. Genuine(evidence, p, initData)
    BY <1>3, Zenon DEF Genuine
  <2>2. phase # "failed"
    OBVIOUS
  <2> HIDE DEF phase, evidence
  <2>3. new.phase = phase /\ new.evidence = evidence
    BY JobFields
  <2> HIDE DEF new
  <2>4. EvidenceFitFor(new, p, initData)
    BY <2>1, <2>2, <2>3 DEF EvidenceFitFor
  <2>5. QED
    BY <1>1, <1>3, <2>4, MovedEvidence
<1>4. QED
  BY <1>1, <1>2, <1>3

(* It is the same when the operators have been found.                      *)
LEMMA DiscoverEvidence ==
    ASSUME EvidenceInv, NEW p \in Helpers, GetOperators(p)
    PROVE  EvidenceInv'
<1> DEFINE h == helper[p]  phase == "retrieve"
<1>1. h.phase = "discover" /\ To(p, phase) /\ initData' = initData /\ phase # "failed"
  BY DEF GetOperators
<1>2. Genuine(h.evidence, p, initData)
  BY <1>1 DEF EvidenceInv, EvidenceFitFor
<1> HIDE DEF phase
<1>3. PICK new : Becomes(p, new) /\ new.phase = phase /\ new.evidence = h.evidence
  BY <1>1, PhaseFields
<1>4. EvidenceFitFor(new, p, initData)
  BY <1>1, <1>2, <1>3 DEF EvidenceFitFor
<1>5. QED
  BY <1>1, <1>3, <1>4, MovedEvidence

(* A genuine guest's evidence is not refused.                              *)
LEMMA RetrieveElsewhere ==
    ASSUME GenuinePods, EvidenceInv, NEW p \in Helpers, NEW key, NEW via,
           RetrieveSecrets(p, key, via)
    PROVE  EvidenceInv'
<1> DEFINE h == helper[p]  phase == "recovered"
<1>1. h.phase = "retrieve" /\ initData' = initData
  BY DEF RetrieveSecrets
<1>2. Genuine(h.evidence, p, initData)
  BY <1>1 DEF EvidenceInv, EvidenceFitFor
<1>3. ~IsRefused(SNPVerify(createEigenXSNPAttestationRequest(p)))
  BY <1>2, GenuineIsAccepted, Zenon DEF EvidenceInv
<1>4. Becomes(p, Job(phase, h.key, h.stack, h.late, None, key, via, None))
  BY <1>3, Zenon DEF RetrieveSecrets
<1>5. phase \notin {"discover", "retrieve", "failed"}
  OBVIOUS
<1> HIDE DEF phase
<1>6. QED
  BY <1>1, <1>4, <1>5, JobElsewhere

(* A starting process has no evidence.                                     *)
LEMMA StartElsewhere ==
    ASSUME EvidenceInv, NEW p \in Helpers, NEW request, Start(p, request)
    PROVE  EvidenceInv'
<1> DEFINE stack == BoundStack(request, parseInitdataKMSConfig(initData))
           late == DOMAIN final # {}
           phase == "lookup"  why == "request"
<1>1. /\ initData' = initData
      /\ \/ Becomes(p, Job(phase, request.key, stack, late, None, None, None, None))
         \/ Fail(p, why)
  BY Zenon DEF Start
<1>2. phase \notin {"discover", "retrieve", "failed"} /\ why # "refused"
  OBVIOUS
<1> HIDE DEF stack, late, phase, why
<1>3. QED
  BY <1>1, <1>2, JobElsewhere, FailsElsewhere

(* The step of a process in the cache: it goes to another phase.           *)
LEMMA StoreElsewhere ==
    ASSUME EvidenceInv, NEW p \in Helpers,
           loadCachedEnv(p) \/ LockCache(p) \/ WriteTemp(p) \/ RenameTemp(p) \/ StoreFails(p)
             \/ Emit(p)
    PROVE  EvidenceInv'
<1> DEFINE attest == "attest"  write == "write"  rename == "rename"  emit == "emit"
<1>1. /\ initData' = initData
      /\ \/ \E env : emitKey(p, env)
         \/ To(p, attest) \/ To(p, write) \/ To(p, rename) \/ To(p, emit)
  BY Zenon DEF loadCachedEnv, LockCache, WriteTemp, RenameTemp, StoreFails, Emit
<1>2. \A phase \in {attest, write, rename, emit} : phase \notin {"discover", "retrieve", "failed"}
  OBVIOUS
<1> HIDE DEF attest, write, rename, emit
<1>3. ASSUME NEW phase \in {attest, write, rename, emit}, To(p, phase)
      PROVE  EvidenceInv'
  BY <1>1, <1>2, <1>3, ToElsewhere
<1>4. QED
  BY <1>1, <1>3, EmitElsewhere, Zenon

(* Every step preserves EvidenceInv.                                       *)
LEMMA EvidenceStep ==
    ASSUME GenuinePods, EvidenceInv, [Next]_vars
    PROVE  EvidenceInv'
<1>1. ASSUME NEW p \in Helpers, Step(p)
      PROVE  EvidenceInv'
  BY <1>1, StoreElsewhere, FetchEvidence, RetrieveElsewhere, ResolveElsewhere, Zenon DEF Step
<1>2. ASSUME NEW p \in Helpers, CallFails(p)
      PROVE  EvidenceInv'
  <2> DEFINE why == "call"
  <2>1. Fail(p, why) /\ initData' = initData /\ why # "refused"
    BY <1>2 DEF CallFails
  <2> HIDE DEF why
  <2>2. QED
    BY <2>1, FailsElsewhere
<1>3. ASSUME NEW p \in Helpers, Kill(p)
      PROVE  EvidenceInv'
  <2> DEFINE new == [phase |-> "killed"]
  <2>1. Becomes(p, new) /\ initData' = initData /\ new.phase = "killed"
    BY <1>3 DEF Kill
  <2> HIDE DEF new
  <2>2. QED
    BY <2>1, Elsewhere
<1>4. CASE Reboot
  <2>1. /\ initData' \in InitDatas /\ DOMAIN helper' = Helpers
        /\ \A p \in Helpers : helper'[p].phase = "idle"
    BY <1>4 DEF Reboot, Idle
  <2>2. QED
    BY <2>1 DEF EvidenceInv, EvidenceFitFor
<1>5. CASE UpdateSecrets \/ UNCHANGED vars
  <2>1. initData' = initData /\ helper' = helper
    BY <1>5 DEF UpdateSecrets, vars
  <2>2. QED
    BY <2>1, Zenon DEF EvidenceInv
<1>6. QED
  BY <1>1, <1>2, <1>3, <1>4, <1>5, StartElsewhere, StoreElsewhere, DiscoverEvidence, Zenon
     DEF Next

(* Operators never refuse the evidence the helper makes of a genuine host: *)
(* transformAAEvidence and buildReportData give what SNPVerify undoes, and *)
(* the init data sent is the one the evidence was bound to, whatever other *)
(* processes do and through reboots that change the init data.             *)
THEOREM GenuineHostsAreAccepted ==
    ASSUME GenuinePods
    PROVE  Spec => []GenuineEvidenceAccepted
<1>1. Init => EvidenceInv
  <2> SUFFICES ASSUME Init
               PROVE  EvidenceInv
    OBVIOUS
  <2>1. /\ initData \in InitDatas /\ DOMAIN helper = Helpers
        /\ \A p \in Helpers : helper[p].phase = "idle"
    BY DEF Init, Idle
  <2>2. QED
    BY <2>1 DEF EvidenceInv, EvidenceFitFor
<1>2. EvidenceInv /\ [Next]_vars => EvidenceInv'
  BY EvidenceStep
<1>3. EvidenceInv => GenuineEvidenceAccepted
  BY Zenon DEF EvidenceInv, EvidenceFitFor, GenuineEvidenceAccepted
<1>4. QED
  BY <1>1, <1>2, <1>3, PTL DEF Spec
=============================================================================
