--------------------------- MODULE BrokerCounting ---------------------------
(* Theorems about what the broker counts: gauges, finished jobs, wakeups. *)
EXTENDS BrokerProofs

(* A pool has finitely many workers, one for each of its connections. *)
LEMMA WorkersFinite == \A p \in Pools : IsFiniteSet(WorkersOf(p))
<1> SUFFICES ASSUME NEW p \in Pools PROVE IsFiniteSet(WorkersOf(p))
  OBVIOUS
<1>1. Conns(p) \in Nat
  <2> DEFINE Cfg == [name : STRING, service : {"stt", "tts"}, conns : Nat]
  <2>1. \A c \in Cfg : c.conns \in Nat
    OBVIOUS
  <2>2. PoolCfgs \in Seq(Cfg) /\ p \in DOMAIN PoolCfgs
    BY PoolCfgsAssumption DEF Pools
  <2> HIDE DEF Cfg
  <2>3. PoolCfgs[p] \in Cfg
    BY <2>2
  <2> QED BY <2>1, <2>3 DEF Conns
<1>2. IsFiniteSet({p} \X (1 .. Conns(p)))
  <2>1. IsFiniteSet({p})
    BY FS_Singleton
  <2>2. IsFiniteSet(1 .. Conns(p))
    BY <1>1, FS_Interval
  <2> QED BY <2>1, <2>2, FS_Product
<1>3. WorkersOf(p) \subseteq {p} \X (1 .. Conns(p))
  BY DEF WorkersOf, Workers, PoolOf
<1> QED BY <1>2, <1>3, FS_Subset

-----------------------------------------------------------------------------
(* p.active and p.idle *)

Running(p) == {w \in WorkersOf(p) : wpc[w] = "running"}
Armed(p) == {w \in WorkersOf(p) : ServiceOf(w) = "stt" /\ wpc[w] \in Waiting}

One(b) == IF b THEN 1 ELSE 0

(* A worker that moves both gauges by what its own move is worth. *)
LEMMA GaugeMove ==
    ASSUME TypeOK, GaugesExact, NEW w \in Workers,
           \A v \in Workers \ {w} : wpc'[v] = wpc[v],
           \A p \in Pools \ {PoolOf(w)} : active'[p] = active[p] /\ idle'[p] = idle[p],
           active'[PoolOf(w)] = active[PoolOf(w)] + One(wpc'[w] = "running") - One(wpc[w] = "running"),
           idle'[PoolOf(w)] = idle[PoolOf(w)]
               + One(ServiceOf(w) = "stt" /\ wpc'[w] \in Waiting)
               - One(ServiceOf(w) = "stt" /\ wpc[w] \in Waiting)
    PROVE  GaugesExact'
<1> SUFFICES ASSUME NEW p \in Pools
             PROVE  active'[p] = Cardinality(Running(p)') /\ idle'[p] = Cardinality(Armed(p)')
  BY DEF GaugesExact, Running, Armed
<1>1. active[p] = Cardinality(Running(p)) /\ idle[p] = Cardinality(Armed(p))
  BY DEF GaugesExact, Running, Armed
<1>2. IsFiniteSet(Running(p)) /\ IsFiniteSet(Armed(p))
  BY WorkersFinite, FS_Subset DEF Running, Armed
<1>3. active[p] \in Int /\ idle[p] \in Int
  BY DEF TypeOK
<1>4. CASE p # PoolOf(w)
  <2>1. Running(p)' = Running(p) /\ Armed(p)' = Armed(p)
    BY <1>4 DEF Running, Armed, WorkersOf
  <2> QED BY <1>1, <1>4, <2>1
<1>5. CASE p = PoolOf(w)
  <2>1. /\ \A y : y # w => (y \in Running(p) <=> y \in Running(p)')
        /\ \A y : y # w => (y \in Armed(p) <=> y \in Armed(p)')
    BY DEF Running, Armed, WorkersOf
  <2>2. /\ w \in Running(p) <=> wpc[w] = "running"
        /\ w \in Running(p)' <=> wpc'[w] = "running"
        /\ w \in Armed(p) <=> ServiceOf(w) = "stt" /\ wpc[w] \in Waiting
        /\ w \in Armed(p)' <=> ServiceOf(w) = "stt" /\ wpc'[w] \in Waiting
    BY <1>5 DEF Running, Armed, WorkersOf
  <2>3. active'[p] = Cardinality(Running(p)')
    <3> DEFINE S == Running(p)
               T == Running(p)'
    <3>1. /\ Cardinality(S) \in Nat /\ Cardinality(T) \in Nat
          /\ (w \in S <=> w \in T) => T = S
          /\ w \notin S /\ w \in T => Cardinality(T) = Cardinality(S) + 1
          /\ w \in S /\ w \notin T => Cardinality(T) = Cardinality(S) - 1
      <4> HIDE DEF S, T
      <4>1. IsFiniteSet(S) /\ \A y : y # w => (y \in S <=> y \in T)
        BY <1>2, <2>1 DEF S, T
      <4> QED BY <4>1, CountOne
    <3> QED BY <1>1, <1>3, <1>5, <2>2, <3>1 DEF One
  <2>4. idle'[p] = Cardinality(Armed(p)')
    <3> DEFINE S == Armed(p)
               T == Armed(p)'
    <3>1. /\ Cardinality(S) \in Nat /\ Cardinality(T) \in Nat
          /\ (w \in S <=> w \in T) => T = S
          /\ w \notin S /\ w \in T => Cardinality(T) = Cardinality(S) + 1
          /\ w \in S /\ w \notin T => Cardinality(T) = Cardinality(S) - 1
      <4> HIDE DEF S, T
      <4>1. IsFiniteSet(S) /\ \A y : y # w => (y \in S <=> y \in T)
        BY <1>2, <2>1 DEF S, T
      <4> QED BY <4>1, CountOne
    <3> QED BY <1>1, <1>3, <1>5, <2>2, <3>1 DEF One
  <2> QED BY <2>3, <2>4
<1> QED BY <1>4, <1>5

(* Waking a sleeper does not change how busy it is. *)
LEMMA GaugeWake ==
    ASSUME GaugesExact, UNCHANGED <<active, idle>>,
           \A v \in Workers : wpc'[v] = wpc[v] \/ (wpc[v] = "waiting" /\ wpc'[v] = "pop")
    PROVE  GaugesExact'
<1>1. \A v \in Workers : /\ (wpc'[v] = "running") <=> (wpc[v] = "running")
                         /\ (wpc'[v] \in Waiting) <=> (wpc[v] \in Waiting)
  BY DEF Waiting
<1>2. \A p : Running(p)' = Running(p) /\ Armed(p)' = Armed(p)
  BY <1>1 DEF Running, Armed, WorkersOf
<1> QED BY <1>2 DEF GaugesExact, Running, Armed

(* What a counter is after one of its moves. *)
LEMMA BumpAt ==
    ASSUME NEW f \in [Pools -> Int], NEW p \in Pools, NEW d \in Int
    PROVE  Bump(f, p, d)[p] = f[p] + d /\ \A q \in Pools \ {p} : Bump(f, p, d)[q] = f[q]
BY DEF Bump

(* The same for p.idle, which only STT workers move. *)
LEMMA IdleAt ==
    ASSUME TypeOK, NEW w \in Workers, NEW d \in Int, IdleStep(w, d)
    PROVE  /\ idle'[PoolOf(w)] = idle[PoolOf(w)] + (IF ServiceOf(w) = "stt" THEN d ELSE 0)
           /\ \A q \in Pools \ {PoolOf(w)} : idle'[q] = idle[q]
<1>1. PoolOf(w) \in Pools /\ idle \in [Pools -> Int]
  BY PoolFacts DEF TypeOK
<1> QED BY <1>1 DEF IdleStep, Bump

(* Every path through Start, pop and the worker loops keeps the gauges exact. *)
LEMMA GaugeWorker ==
    ASSUME TypeOK, GaugesExact, NEW w \in Workers, StartWorker(w) \/ Pop(w) \/ Work(w)
    PROVE  GaugesExact'
<1> DEFINE p == PoolOf(w)
<1>0. /\ p \in Pools /\ active \in [Pools -> Int] /\ idle \in [Pools -> Int]
      /\ wpc \in [Workers -> WorkerStates]
  BY PoolFacts DEF TypeOK
<1>1. \A v \in Workers \ {w} : wpc'[v] = wpc[v]
  BY <1>0 DEF Goto, StartWorker, Pop, Work, PopTake, PopExit, PopBlock, Park, WrongPayload, Begin,
     FinishTTS, FinishSTT, DropBeforeStart, DropDuringJob, CtxStop, AfterDrop, Redial,
     DialCancelled, Finish
<1>2. ASSUME NEW pc, Goto(w, pc) PROVE wpc'[w] = pc
  BY <1>0, <1>2 DEF Goto
<1>3. ASSUME NEW d \in Int, active' = Bump(active, p, d)
      PROVE  active'[p] = active[p] + d /\ \A q \in Pools \ {p} : active'[q] = active[q]
  BY <1>0, <1>3, BumpAt
<1>4. ASSUME NEW d \in Int, IdleStep(w, d)
      PROVE  /\ idle'[p] = idle[p] + (IF ServiceOf(w) = "stt" THEN d ELSE 0)
             /\ \A q \in Pools \ {p} : idle'[q] = idle[q]
  BY <1>4, IdleAt
<1>5. active[p] \in Int /\ idle[p] \in Int
  BY <1>0
<1> HIDE DEF p
<1>6. CASE StartWorker(w) \/ Redial(w)
  <2>1. /\ wpc[w] \in {"down", "dialing"} /\ wpc'[w] = "pop" /\ IdleStep(w, 1)
        /\ UNCHANGED active
    BY <1>2, <1>6 DEF StartWorker, NextToDial, Redial
  <2> QED BY <1>1, <1>4, <1>5, <2>1, GaugeMove DEF One, Waiting, p
<1>7. CASE PopExit(w)
  <2>1. /\ wpc[w] = "pop" /\ wpc'[w] \in Exits /\ IdleStep(w, -1) /\ UNCHANGED active
    BY <1>2, <1>7 DEF PopExit, Exits, PopFrame
  <2> QED BY <1>1, <1>4, <1>5, <2>1, GaugeMove DEF One, Waiting, Exits, p
<1>8. CASE PopTake(w) \/ PopBlock(w) \/ Park(w) \/ WrongPayload(w)
  <2>1. wpc[w] \in Waiting /\ wpc'[w] \in Waiting /\ UNCHANGED <<active, idle>>
    BY <1>2, <1>8 DEF PopTake, PopBlock, Park, WrongPayload, PopFrame, counters, Waiting
  <2> QED BY <1>1, <1>5, <2>1, GaugeMove DEF One, Waiting, p
<1>9. CASE Begin(w)
  <2>1. /\ wpc[w] = "taken" /\ wpc'[w] = "running" /\ IdleStep(w, -1)
        /\ active' = Bump(active, p, 1)
    BY <1>2, <1>9 DEF Begin, p
  <2> QED BY <1>1, <1>3, <1>4, <1>5, <2>1, GaugeMove DEF One, Waiting, p
<1>10. ASSUME NEW out, NEW pc \in {"dropped", "ctxExit"}, Finish(w, out, pc), UNCHANGED idle
       PROVE  GaugesExact'
  <2>1. wpc[w] = "running" /\ wpc'[w] = pc /\ active' = Bump(active, p, -1)
    BY <1>2, <1>10 DEF Finish, p
  <2> QED BY <1>1, <1>3, <1>5, <1>10, <2>1, GaugeMove DEF One, Waiting, p
<1>11. CASE DropBeforeStart(w) \/ DropDuringJob(w) \/ CtxStop(w)
  BY <1>10, <1>11 DEF DropBeforeStart, DropDuringJob, CtxStop
<1>12. CASE FinishTTS(w)
  <2>1. /\ wpc[w] = "running" /\ wpc'[w] = "pop" /\ active' = Bump(active, p, -1)
        /\ ServiceOf(w) = "tts" /\ UNCHANGED idle
    BY <1>2, <1>12 DEF FinishTTS, Finish, p
  <2> QED BY <1>1, <1>3, <1>5, <2>1, GaugeMove DEF One, Waiting, p
<1>13. CASE FinishSTT(w)
  <2>1. /\ wpc[w] = "running" /\ wpc'[w] = "pop" /\ active' = Bump(active, p, -1)
        /\ IdleStep(w, 1)
    BY <1>2, <1>13 DEF FinishSTT, Finish, p
  <2> QED BY <1>1, <1>3, <1>4, <1>5, <2>1, GaugeMove DEF One, Waiting, p
<1>14. CASE AfterDrop(w) \/ DialCancelled(w)
  <2>1. /\ wpc[w] \in {"dropped", "dialing"} /\ wpc'[w] \in {"dropExit", "dialing", "ctxExit"}
        /\ UNCHANGED <<active, idle>>
    BY <1>2, <1>14 DEF AfterDrop, DialCancelled, counters
  <2> QED BY <1>1, <1>5, <2>1, GaugeMove DEF One, Waiting, p
<1> QED BY <1>6, <1>7, <1>8, <1>9, <1>11, <1>12, <1>13, <1>14 DEF Pop, Work

(* Steps of submitters and of main at most wake sleepers. *)
LEMMA OnlyWakes ==
    ASSUME TypeOK,
           \/ \E j \in Jobs : SubmitStep(j) \/ \E r \in Requests : Admit(j, r)
           \/ StartFails \/ Started \/ DrainBegin \/ DrainStep \/ UNCHANGED vars
    PROVE  /\ UNCHANGED counters
           /\ \A v \in Workers : wpc'[v] = wpc[v] \/ (wpc[v] = "waiting" /\ wpc'[v] = "pop")
<1>1. ASSUME NEW j \in Jobs, SubmitStep(j) \/ \E r \in Requests : Admit(j, r)
      PROVE  /\ UNCHANGED counters
             /\ \A v \in Workers : wpc'[v] = wpc[v] \/ (wpc[v] = "waiting" /\ wpc'[v] = "pop")
  BY <1>1 DEF TypeOK, SubmitStep, Admit, Resolve, CheckBacklog, ScanStep, Scanned, Push,
     SubmitFrame, Signal, Asleep, WorkersOf
<1>2. ASSUME StartFails \/ Started \/ DrainBegin \/ DrainStep \/ UNCHANGED vars
      PROVE  /\ UNCHANGED counters
             /\ \A v \in Workers : wpc'[v] = wpc[v] \/ (wpc[v] = "waiting" /\ wpc'[v] = "pop")
  BY <1>2 DEF StartFails, Started, DrainBegin, DrainStep, DrainWake, DrainWait, DrainDone,
     DrainTimeout, Cancel, CtxWake, DrainFrame, Broadcast, Asleep, vars
<1> QED BY <1>1, <1>2

(* The gauges that /metrics shows and Submit routes by are exact after     *)
(* every step, on every path through the worker loops, for any number of   *)
(* pools and connections.                                                  *)
THEOREM GaugesAreExact == Spec => []GaugesExact
<1>1. Init => GaugesExact
  <2> SUFFICES ASSUME Init, NEW p \in Pools
               PROVE  active[p] = Cardinality(Running(p)) /\ idle[p] = Cardinality(Armed(p))
    BY DEF GaugesExact, Running, Armed
  <2>1. Running(p) = {} /\ Armed(p) = {}
    BY DEF Init, Running, Armed, WorkersOf, Waiting
  <2> QED BY <2>1, FS_EmptySet DEF Init
<1>2. TypeOK /\ GaugesExact /\ [Next]_vars => GaugesExact'
  <2> SUFFICES ASSUME TypeOK, GaugesExact, [Next]_vars PROVE GaugesExact'
    OBVIOUS
  <2>1. ASSUME NEW w \in Workers, StartWorker(w) \/ Pop(w) \/ Work(w) PROVE GaugesExact'
    BY <2>1, GaugeWorker
  <2>2. CASE \/ \E j \in Jobs : SubmitStep(j) \/ \E r \in Requests : Admit(j, r)
             \/ StartFails \/ Started \/ DrainBegin \/ DrainStep \/ UNCHANGED vars
    BY <2>2, OnlyWakes, GaugeWake DEF counters
  <2> QED BY <2>1, <2>2 DEF Next
<1> QED BY <1>1, <1>2, TypeCorrect, PTL DEF Spec

-----------------------------------------------------------------------------
(* p.completed and p.errors *)

Answered(p) == {j \in ClosedIn(p) : "final" \in outcome[j]}

(* Only finitely many jobs are finished at any time, whatever Jobs is. *)
CountInv == CountedOnce /\ \A p \in Pools : IsFiniteSet(ClosedIn(p))

(* A worker closes its job and counts it at most once. *)
LEMMA CloseCounts ==
    ASSUME IInv, CountInv, NEW w \in Workers, NEW out, wpc[w] \in Holding, Close(w, out),
           UNCHANGED target,
           \A q \in Pools \ {PoolOf(w)} : completed'[q] = completed[q] /\ errors'[q] = errors[q],
           NEW c \in {0, 1}, NEW e \in {0, 1}, c + e <= 1, c = 1 => "final" \in out,
           completed'[PoolOf(w)] = completed[PoolOf(w)] + c,
           errors'[PoolOf(w)] = errors[PoolOf(w)] + e
    PROVE  CountInv'
<1>1. PICK j \in Jobs : j = cur[w]
  BY DEF IInv, JobInOnePlace, WorkersHoldHeld
<1>2. jpc[j] = "held" /\ target[j] = PoolOf(w)
  BY <1>1, NoneAssumption DEF IInv, JobInOnePlace, WorkersHoldHeld
<1>3. /\ jpc'[j] = "closed" /\ outcome'[j] = out
      /\ \A k \in Jobs \ {j} : jpc'[k] = jpc[k] /\ outcome'[k] = outcome[k]
  BY <1>1 DEF IInv, TypeOK, Close
<1>4. ASSUME NEW p \in Pools
      PROVE  /\ IsFiniteSet(ClosedIn(p)')
             /\ completed'[p] + errors'[p] <= Cardinality(ClosedIn(p)')
             /\ completed'[p] <= Cardinality(Answered(p)')
  <2> DEFINE S == ClosedIn(p)
             T == ClosedIn(p)'
             A == Answered(p)
             B == Answered(p)'
  <2>1. /\ completed[p] + errors[p] <= Cardinality(S) /\ completed[p] <= Cardinality(A)
        /\ IsFiniteSet(S) /\ completed[p] \in Int /\ errors[p] \in Int
    BY DEF CountInv, CountedOnce, Answered, IInv, TypeOK
  <2>2. IsFiniteSet(A)
    BY <2>1, FS_Subset DEF Answered
  <2>3. CASE p # PoolOf(w)
    <3>1. T = S /\ B = A
      BY <1>2, <1>3, <2>3 DEF ClosedIn, Answered
    <3> QED BY <2>1, <2>3, <3>1
  <2>4. CASE p = PoolOf(w)
    <3>1. /\ \A y : y # j => (y \in S <=> y \in T) /\ (y \in A <=> y \in B)
          /\ j \notin S /\ j \in T /\ j \notin A /\ (j \in B <=> "final" \in out)
      BY <1>2, <1>3, <2>4 DEF ClosedIn, Answered
    <3> HIDE DEF S, T, A, B
    <3>2. IsFiniteSet(T) /\ Cardinality(S) \in Nat /\ Cardinality(T) = Cardinality(S) + 1
      BY <2>1, <3>1, CountOne
    <3>3. /\ Cardinality(A) \in Nat /\ Cardinality(B) \in Nat
          /\ j \in B => Cardinality(B) = Cardinality(A) + 1
          /\ j \notin B => B = A
      BY <2>2, <3>1, CountOne
    <3>4. completed'[p] = completed[p] + c /\ errors'[p] = errors[p] + e
      BY <2>4
    <3>5. completed'[p] + errors'[p] <= Cardinality(T)
      BY <2>1, <3>2, <3>4
    <3>6. completed'[p] <= Cardinality(B)
      <4>1. CASE c = 1 BY <2>1, <3>1, <3>3, <3>4, <4>1
      <4>2. CASE c = 0
        <5>1. Cardinality(A) <= Cardinality(B)
          BY <3>3
        <5> QED BY <2>1, <3>3, <3>4, <4>2, <5>1
      <4> QED BY <4>1, <4>2
    <3> QED BY <3>2, <3>5, <3>6 DEF T, B
  <2> QED BY <2>3, <2>4
<1> QED BY <1>4 DEF CountInv, CountedOnce, Answered

(* A step that finishes no job and counts none. *)
LEMMA CountQuiet ==
    ASSUME CountInv, UNCHANGED <<outcome, completed, errors>>,
           \A k \in Jobs : (jpc'[k] = "closed") <=> (jpc[k] = "closed"),
           \A k \in Jobs : jpc[k] = "closed" => target'[k] = target[k]
    PROVE  CountInv'
<1>1. \A p : ClosedIn(p)' = ClosedIn(p)
  BY DEF ClosedIn
<1>2. \A p : Answered(p)' = Answered(p)
  BY <1>1 DEF Answered
<1> QED BY <1>1, <1>2 DEF CountInv, CountedOnce, Answered

(* Every end of a job counts it at most once, a final result only if one was sent. *)
LEMMA CountWorker ==
    ASSUME IInv, CountInv, NEW w \in Workers, StartWorker(w) \/ Pop(w) \/ Work(w)
    PROVE  CountInv'
<1> DEFINE p == PoolOf(w)
<1>0. p \in Pools /\ completed \in [Pools -> Int] /\ errors \in [Pools -> Int]
  BY PoolFacts DEF IInv, TypeOK
<1>1. ASSUME StartWorker(w) \/ PopExit(w) \/ PopBlock(w) \/ Park(w) \/ Begin(w)
             \/ AfterDrop(w) \/ Redial(w) \/ DialCancelled(w)
      PROVE  CountInv'
  <2>1. UNCHANGED <<jpc, target, outcome, completed, errors>>
    BY <1>1 DEF StartWorker, PopExit, PopBlock, Park, Begin, AfterDrop, Redial, DialCancelled,
       PopFrame, WorkFrame, submitVars, counters
  <2> QED BY <2>1, CountQuiet
<1>2. CASE PopTake(w)
  <2>1. PICK i \in queue[p] : jpc' = [jpc EXCEPT ![i.job] = "held"]
    BY <1>2 DEF PopTake
  <2>2. jpc[i.job] = "queued"
    BY <1>0, <2>1 DEF IInv, JobInOnePlace, QueuesHoldQueued
  <2>3. \A k \in Jobs : (jpc'[k] = "closed") <=> (jpc[k] = "closed")
    BY <2>1, <2>2 DEF IInv, TypeOK
  <2>4. UNCHANGED <<target, outcome, completed, errors>>
    BY <1>2 DEF PopTake, PopFrame, submitVars
  <2> QED BY <2>3, <2>4, CountQuiet
<1>3. /\ Bump(completed, p, 1)[p] = completed[p] + 1 /\ Bump(errors, p, 1)[p] = errors[p] + 1
      /\ \A q \in Pools \ {p} : /\ Bump(completed, p, 1)[q] = completed[q]
                                /\ Bump(errors, p, 1)[q] = errors[q]
      /\ completed[p] = completed[p] + 0 /\ errors[p] = errors[p] + 0
  BY <1>0 DEF Bump
<1>4. CASE WrongPayload(w)
  <2>1. wpc[w] \in Holding /\ Close(w, {}) /\ UNCHANGED <<target, completed, errors>>
    BY <1>4 DEF WrongPayload, Holding, WorkFrame, submitVars, counters
  <2> QED BY <1>3, <2>1, CloseCounts
<1>5. ASSUME NEW out, NEW pc, Finish(w, out, pc)
      PROVE  wpc[w] \in Holding /\ Close(w, out) /\ UNCHANGED target
  BY <1>5 DEF Finish, Holding, WorkFrame, submitVars
<1>6. ASSUME NEW out, NEW pc, Finish(w, out, pc),
             \/ UNCHANGED <<completed, errors>>
             \/ UNCHANGED completed /\ errors' = Bump(errors, p, 1)
             \/ "final" \in out /\ completed' = Bump(completed, p, 1) /\ UNCHANGED errors
      PROVE  CountInv'
  <2>1. wpc[w] \in Holding /\ Close(w, out) /\ UNCHANGED target
    BY <1>5, <1>6
  <2>2. CASE UNCHANGED <<completed, errors>>
    BY <1>3, <2>1, <2>2, CloseCounts
  <2>3. CASE UNCHANGED completed /\ errors' = Bump(errors, p, 1)
    BY <1>3, <2>1, <2>3, CloseCounts
  <2>4. CASE "final" \in out /\ completed' = Bump(completed, p, 1) /\ UNCHANGED errors
    BY <1>3, <2>1, <2>4, CloseCounts
  <2> QED BY <1>6, <2>2, <2>3, <2>4
<1> QED BY <1>1, <1>2, <1>4, <1>6
        DEF Pop, Work, FinishTTS, FinishSTT, DropBeforeStart, DropDuringJob, CtxStop

(* A job moves p.completed or p.errors at most once, and p.completed only  *)
(* when a final result was sent, for any number of jobs: a session that    *)
(* drops after its final result is not counted twice.                      *)
THEOREM JobsCountedOnce == Spec => []CountedOnce
<1>1. Init => CountInv
  <2> SUFFICES ASSUME Init PROVE CountInv
    OBVIOUS
  <2>1. \A p : ClosedIn(p) = {} /\ Answered(p) = {}
    BY DEF Init, ClosedIn, Answered
  <2>2. CountedOnce
    <3>1. \A p \in Pools : completed[p] = 0 /\ errors[p] = 0
      BY DEF Init
    <3>2. Cardinality({}) = 0
      BY FS_EmptySet
    <3> QED BY <2>1, <3>1, <3>2 DEF CountedOnce, Answered
  <2> QED BY <2>1, <2>2, FS_EmptySet DEF CountInv
<1>2. IInv /\ CountInv /\ [Next]_vars => CountInv'
  <2> SUFFICES ASSUME IInv, CountInv, [Next]_vars PROVE CountInv'
    OBVIOUS
  <2>1. ASSUME NEW j \in Jobs, SubmitStep(j) \/ \E r \in Requests : Admit(j, r) PROVE CountInv'
    <3>1. UNCHANGED <<outcome, completed, errors>>
      BY <2>1 DEF SubmitStep, Admit, Resolve, CheckBacklog, ScanStep, Scanned, Push, SubmitFrame,
         counters
    <3>2. jpc[j] # "closed" /\ jpc'[j] # "closed"
      BY <2>1 DEF SubmitStep, Admit, Resolve, NoService, NoTag, NameMissing, NamedPool,
         LeastLoaded, CheckBacklog, ScanStep, Scanned, Push, IInv, TypeOK
    <3>3. \A k \in Jobs \ {j} : jpc'[k] = jpc[k] /\ target'[k] = target[k]
      BY <2>1, OtherRoutes
    <3> QED BY <3>1, <3>2, <3>3, CountQuiet
  <2>2. ASSUME StartFails \/ Started \/ DrainBegin \/ DrainStep \/ UNCHANGED vars
        PROVE  CountInv'
    <3>1. UNCHANGED <<jpc, target, outcome, completed, errors>>
      BY <2>2 DEF StartFails, Started, DrainBegin, DrainStep, DrainWake, DrainWait, DrainDone,
         DrainTimeout, Cancel, CtxWake, DrainFrame, submitVars, counters, vars
    <3> QED BY <3>1, CountQuiet
  <2> QED BY <2>1, <2>2, CountWorker DEF Next
<1>3. CountInv => CountedOnce
  BY DEF CountInv
<1> QED BY <1>1, <1>2, <1>3, Inductive, PTL DEF Spec

-----------------------------------------------------------------------------
(* cond.Wait and cond.Signal *)

Ready(p) == {w \in WorkersOf(p) : wpc[w] = "pop"}

(* One Signal per push is enough because a worker that holds pq.mu between *)
(* its test and cond.Wait still has the empty queue it saw.                *)
WakeOK(p) ==
    /\ IsFiniteSet(queue[p])
    /\ (\E w \in WorkersOf(p) : wpc[w] = "parking") => queue[p] = {}
    /\ Asleep(p) # {} => Cardinality(queue[p]) <= Cardinality(Ready(p))

WakeInv == \A p \in Pools : WakeOK(p)

(* A step that neither touches the queue nor lets a worker arrive at, leave *)
(* or sleep before it.                                                      *)
LEMMA WakeSame ==
    ASSUME NEW p, WakeOK(p), queue'[p] = queue[p],
           \A v \in WorkersOf(p) :
               \/ wpc'[v] = wpc[v]
               \/ wpc[v] \notin {"pop", "parking", "waiting"} /\ wpc'[v] \notin {"pop", "parking", "waiting"}
    PROVE  WakeOK(p)'
<1>1. \A v \in WorkersOf(p) : /\ (wpc'[v] = "pop") <=> (wpc[v] = "pop")
                              /\ (wpc'[v] = "waiting") <=> (wpc[v] = "waiting")
                              /\ (wpc'[v] = "parking") <=> (wpc[v] = "parking")
  OBVIOUS
<1>2. Ready(p)' = Ready(p) /\ Asleep(p)' = Asleep(p)
  BY <1>1 DEF Ready, Asleep
<1> QED BY <1>1, <1>2 DEF WakeOK

(* Whoever sleeps before an empty queue sleeps rightly. *)
LEMMA WakeEmpty ==
    ASSUME NEW p \in Pools, queue'[p] = {}
    PROVE  WakeOK(p)'
<1>1. Ready(p)' \in SUBSET WorkersOf(p)
  BY DEF Ready
<1>2. Cardinality(Ready(p)') \in Nat
  BY <1>1, WorkersFinite, FS_Subset, FS_CardinalityType
<1>3. IsFiniteSet(queue'[p]) /\ Cardinality(queue'[p]) = 0
  BY FS_EmptySet
<1> QED BY <1>2, <1>3 DEF WakeOK

(* A worker comes back to the queue. *)
LEMMA WakeArrive ==
    ASSUME NEW p \in Pools, WakeOK(p), queue'[p] = queue[p], NEW w \in WorkersOf(p),
           \A v \in WorkersOf(p) \ {w} : wpc'[v] = wpc[v],
           wpc[w] \notin {"pop", "parking", "waiting"}, wpc'[w] = "pop"
    PROVE  WakeOK(p)'
<1> DEFINE S == Ready(p)
           T == Ready(p)'
<1>1. IsFiniteSet(S)
  BY WorkersFinite, FS_Subset DEF Ready
<1>2. \A y : y # w => (y \in S <=> y \in T)
  BY DEF Ready
<1>3. w \notin S /\ w \in T
  BY DEF Ready
<1>4. Cardinality(S) \in Nat /\ Cardinality(T) = Cardinality(S) + 1
  <2> HIDE DEF S, T
  <2> QED BY <1>1, <1>2, <1>3, CountOne
<1>5. Asleep(p)' = Asleep(p)
  BY DEF Asleep
<1>6. IsFiniteSet(queue[p]) /\ Cardinality(queue[p]) \in Nat
  BY FS_CardinalityType DEF WakeOK
<1>7. (\E v \in WorkersOf(p) : wpc'[v] = "parking") => (\E v \in WorkersOf(p) : wpc[v] = "parking")
  OBVIOUS
<1>8. Asleep(p)' # {} => Cardinality(queue'[p]) <= Cardinality(Ready(p)')
  BY <1>4, <1>5, <1>6 DEF WakeOK
<1> QED BY <1>6, <1>7, <1>8 DEF WakeOK

(* A worker takes one job: one worker and one job fewer. *)
LEMMA WakeTake ==
    ASSUME TypeOK, NEW w \in Workers, PopTake(w), WakeOK(PoolOf(w))
    PROVE  WakeOK(PoolOf(w))'
<1> DEFINE p == PoolOf(w)
           S == Ready(p)
           T == Ready(p)'
           Q == queue[p]
           R == queue'[p]
<1>1. p \in Pools /\ w \in WorkersOf(p)
  BY PoolFacts DEF WorkersOf
<1>2. PICK i \in Q : queue' = [queue EXCEPT ![p] = @ \ {i}]
  BY DEF PopTake
<1>3. R = Q \ {i}
  BY <1>1, <1>2 DEF TypeOK
<1>4. wpc[w] = "pop" /\ wpc' = [wpc EXCEPT ![w] = "taken"] /\ wpc \in [Workers -> WorkerStates]
  BY DEF PopTake, Goto, TypeOK
<1>5. /\ \A y : y # w => (y \in S <=> y \in T)
      /\ w \in S /\ w \notin T
  BY <1>1, <1>4 DEF Ready, WorkersOf
<1>6. IsFiniteSet(S)
  BY <1>1, WorkersFinite, FS_Subset DEF Ready
<1>7. Cardinality(S) \in Nat /\ Cardinality(T) = Cardinality(S) - 1
  <2> HIDE DEF S, T, p
  <2> QED BY <1>5, <1>6, CountOne
<1>8. IsFiniteSet(Q)
  BY DEF WakeOK
<1>9. IsFiniteSet(R) /\ Cardinality(Q) \in Nat /\ Cardinality(R) = Cardinality(Q) - 1
  <2> HIDE DEF Q, R
  <2> QED BY <1>2, <1>3, <1>8, FS_RemoveElement, FS_CardinalityType
<1>10. Asleep(p)' = Asleep(p)
  BY <1>4 DEF Asleep, WorkersOf
<1>11. Asleep(p)' # {} => Cardinality(R) <= Cardinality(T)
  BY <1>7, <1>9, <1>10 DEF WakeOK
<1>12. (\E v \in WorkersOf(p) : wpc'[v] = "parking") => R = {}
  <2>1. (\E v \in WorkersOf(p) : wpc'[v] = "parking") => \E v \in WorkersOf(p) : wpc[v] = "parking"
    BY <1>4 DEF WorkersOf
  <2> QED BY <1>3, <2>1 DEF WakeOK
<1> QED BY <1>9, <1>11, <1>12 DEF WakeOK

(* push: one job more, and one sleeper, if there is any, is on its way. *)
LEMMA WakePush ==
    ASSUME TypeOK, NEW j \in Jobs, NEW p \in Pools, p = target[j], Push(j), WakeOK(p)
    PROVE  WakeOK(p)'
<1> DEFINE S == Ready(p)
           T == Ready(p)'
           Q == queue[p]
           R == queue'[p]
<1>1. PICK i : R = Q \cup {i}
  BY DEF Push, TypeOK
<1>2. IsFiniteSet(Q)
  BY DEF WakeOK
<1>3. /\ IsFiniteSet(R) /\ Cardinality(R) \in Nat /\ Cardinality(Q) \in Nat
      /\ Cardinality(R) <= Cardinality(Q) + 1
  <2> HIDE DEF Q, R
  <2>1. Cardinality(Q) \in Nat /\ IsFiniteSet(R)
    BY <1>1, <1>2, FS_AddElement, FS_CardinalityType
  <2>2. Cardinality(R) = IF i \in Q THEN Cardinality(Q) ELSE Cardinality(Q) + 1
    BY <1>1, <1>2, FS_AddElement
  <2> QED BY <2>1, <2>2
<1>4. \A v \in WorkersOf(p) : wpc'[v] # "parking"
  BY DEF Push, MuFree, Signal, Asleep, TypeOK, WorkersOf
<1>5. CASE Asleep(p) = {} /\ UNCHANGED wpc
  <2>1. Asleep(p)' = {}
    BY <1>5 DEF Asleep
  <2> QED BY <1>3, <1>4, <2>1 DEF WakeOK
<1>6. ASSUME NEW w \in Asleep(p), wpc' = [wpc EXCEPT ![w] = "pop"]
      PROVE  WakeOK(p)'
  <2>1. Cardinality(Q) <= Cardinality(S)
    BY <1>6 DEF WakeOK
  <2>2. w \in WorkersOf(p) /\ w \in Workers /\ wpc[w] = "waiting" /\ p \in Pools
    BY <1>6 DEF Asleep, WorkersOf
  <2>3. /\ \A y : y # w => (y \in S <=> y \in T)
        /\ w \notin S /\ w \in T
    BY <1>6, <2>2 DEF Ready, WorkersOf, TypeOK
  <2>4. IsFiniteSet(S)
    BY <2>2, WorkersFinite, FS_Subset DEF Ready
  <2>5. Cardinality(S) \in Nat /\ Cardinality(T) = Cardinality(S) + 1
    <3> HIDE DEF S, T
    <3> QED BY <2>3, <2>4, CountOne
  <2>6. Cardinality(R) <= Cardinality(T)
    BY <1>3, <2>1, <2>5
  <2> QED BY <1>3, <1>4, <2>6 DEF WakeOK
<1> QED BY <1>5, <1>6 DEF Push, Signal

(* Every step of a worker leaves the sleepers of its pool enough wakers. *)
LEMMA WakeWorker ==
    ASSUME TypeOK, WakeInv, NEW w \in Workers, StartWorker(w) \/ Pop(w) \/ Work(w)
    PROVE  WakeInv'
<1> SUFFICES ASSUME NEW p \in Pools PROVE WakeOK(p)'
  BY DEF WakeInv
<1>0. WakeOK(p) /\ wpc \in [Workers -> WorkerStates] /\ queue \in [Pools -> SUBSET Items]
  BY DEF WakeInv, TypeOK
<1>1. \A v \in Workers \ {w} : wpc'[v] = wpc[v]
  BY <1>0 DEF Goto, StartWorker, Pop, Work, PopTake, PopExit, PopBlock, Park, WrongPayload, Begin,
     FinishTTS, FinishSTT, DropBeforeStart, DropDuringJob, CtxStop, AfterDrop, Redial,
     DialCancelled, Finish
<1>2. CASE p # PoolOf(w)
  <2>1. \A v \in WorkersOf(p) : wpc'[v] = wpc[v]
    BY <1>1, <1>2 DEF WorkersOf
  <2>2. queue'[p] = queue[p]
    BY <1>0, <1>2 DEF StartWorker, Pop, Work, PopTake, PopExit, PopBlock, Park, WrongPayload, Begin,
       FinishTTS, FinishSTT, DropBeforeStart, DropDuringJob, CtxStop, AfterDrop, Redial,
       DialCancelled, Finish, PopFrame, WorkFrame, queueVars
  <2> QED BY <1>0, <2>1, <2>2, WakeSame
<1>3. CASE p = PoolOf(w)
  <2>0. w \in WorkersOf(p) /\ \A v \in WorkersOf(p) \ {w} : wpc'[v] = wpc[v]
    BY <1>1, <1>3 DEF WorkersOf
  <2>1. CASE PopTake(w)
    BY <1>0, <1>3, <2>1, WakeTake
  <2>2. CASE PopExit(w) \/ PopBlock(w)
    <3>1. queue'[p] = {}
      BY <1>3, <2>2 DEF PopExit, PopBlock, queueVars
    <3> QED BY <3>1, WakeEmpty
  <2>3. CASE Park(w)
    <3>1. wpc[w] = "parking" /\ UNCHANGED queue
      BY <2>3 DEF Park, queueVars
    <3>2. queue'[p] = {}
      BY <1>0, <2>0, <3>1 DEF WakeOK
    <3> QED BY <3>2, WakeEmpty
  <2>4. CASE StartWorker(w) \/ Redial(w) \/ WrongPayload(w) \/ FinishTTS(w) \/ FinishSTT(w)
    <3>1. /\ wpc[w] \in {"down", "dialing", "taken", "running"} /\ wpc'[w] = "pop"
          /\ UNCHANGED queue
      BY <1>0, <2>4 DEF StartWorker, NextToDial, Redial, WrongPayload, FinishTTS, FinishSTT, Finish,
         Goto, WorkFrame, queueVars
    <3> QED BY <1>0, <2>0, <3>1, WakeArrive
  <2>5. CASE \/ Begin(w) \/ DropBeforeStart(w) \/ DropDuringJob(w) \/ CtxStop(w)
             \/ AfterDrop(w) \/ DialCancelled(w)
    <3>1. /\ wpc[w] \notin {"pop", "parking", "waiting"}
          /\ wpc'[w] \notin {"pop", "parking", "waiting"}
          /\ UNCHANGED queue
      BY <1>0, <2>5 DEF Begin, DropBeforeStart, DropDuringJob, CtxStop, AfterDrop, DialCancelled,
         Finish, Goto, WorkFrame, queueVars
    <3> QED BY <1>0, <2>0, <3>1, WakeSame
  <2> QED BY <2>1, <2>2, <2>3, <2>4, <2>5 DEF Pop, Work
<1> QED BY <1>2, <1>3

(* Submit touches a queue only in push. *)
LEMMA WakeSubmit ==
    ASSUME IInv, WakeInv, NEW j \in Jobs, SubmitStep(j) \/ \E r \in Requests : Admit(j, r)
    PROVE  WakeInv'
<1> SUFFICES ASSUME NEW p \in Pools PROVE WakeOK(p)'
  BY DEF WakeInv
<1>0. WakeOK(p)
  BY DEF WakeInv
<1>1. CASE Push(j)
  <2>1. target[j] \in Pools
    BY <1>1 DEF IInv, TargetChosen, Push, Routed
  <2>2. CASE p = target[j]
    BY <1>0, <1>1, <2>1, <2>2, WakePush DEF IInv
  <2>3. CASE p # target[j]
    <3>1. queue'[p] = queue[p] /\ \A v \in WorkersOf(p) : wpc'[v] = wpc[v]
      BY <1>1, <2>3 DEF Push, Signal, Asleep, WorkersOf, IInv, TypeOK
    <3> QED BY <1>0, <3>1, WakeSame
  <2> QED BY <2>2, <2>3
<1>2. CASE ~Push(j)
  <2>1. UNCHANGED <<queue, wpc>>
    BY <1>2 DEF SubmitStep, Admit, Resolve, CheckBacklog, ScanStep, Scanned, SubmitFrame, queueVars
  <2> QED BY <1>0, <2>1, WakeSame
<1> QED BY <1>1, <1>2

(* After a Broadcast nobody of that pool sleeps. *)
LEMMA WakeMain ==
    ASSUME WakeInv, StartFails \/ Started \/ DrainBegin \/ DrainStep \/ UNCHANGED vars
    PROVE  WakeInv'
<1> SUFFICES ASSUME NEW p \in Pools PROVE WakeOK(p)'
  BY DEF WakeInv
<1>0. WakeOK(p)
  BY DEF WakeInv
<1>1. UNCHANGED queue /\ (UNCHANGED wpc \/ \E q : Broadcast(q))
  BY DEF StartFails, Started, DrainBegin, DrainStep, DrainWake, DrainWait, DrainDone, DrainTimeout,
     Cancel, CtxWake, DrainFrame, queueVars, vars
<1>2. CASE UNCHANGED wpc
  BY <1>0, <1>1, <1>2, WakeSame
<1>3. ASSUME NEW q, Broadcast(q) PROVE WakeOK(p)'
  <2>1. CASE q = p
    <3>1. Asleep(p)' = {}
      BY <1>3, <2>1 DEF Broadcast, Asleep, WorkersOf
    <3>2. (\E v \in WorkersOf(p) : wpc'[v] = "parking") => \E v \in WorkersOf(p) : wpc[v] = "parking"
      BY <1>3 DEF Broadcast, WorkersOf
    <3> QED BY <1>0, <1>1, <3>1, <3>2 DEF WakeOK
  <2>2. CASE q # p
    <3>1. \A v \in WorkersOf(p) : wpc'[v] = wpc[v]
      BY <1>3, <2>2 DEF Broadcast, Asleep, WorkersOf
    <3> QED BY <1>0, <1>1, <3>1, WakeSame
  <2> QED BY <2>1, <2>2
<1> QED BY <1>1, <1>2, <1>3

(* One Signal per push wakes enough workers: while somebody sleeps, the    *)
(* awake workers on their way to the queue are at least as many as its     *)
(* jobs, for any number of workers and jobs and at any moment of a drain.  *)
THEOREM SignalsSuffice == Spec => []WakeupsSuffice
<1>1. Init => WakeInv
  <2> SUFFICES ASSUME Init, NEW p \in Pools PROVE WakeOK(p)
    BY DEF WakeInv
  <2>1. queue[p] = {} /\ Asleep(p) = {}
    BY DEF Init, Asleep, WorkersOf
  <2> QED BY <2>1, FS_EmptySet DEF WakeOK
<1>2. IInv /\ WakeInv /\ [Next]_vars => WakeInv'
  BY WakeWorker, WakeSubmit, WakeMain DEF Next, IInv
<1>3. WakeInv => WakeupsSuffice
  BY DEF WakeInv, WakeOK, WakeupsSuffice, Ready
<1> QED BY <1>1, <1>2, <1>3, Inductive, PTL DEF Spec
=============================================================================
