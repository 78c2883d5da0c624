---------------------------- MODULE BrokerProofs ----------------------------
(* Theorems about Broker, for every set of jobs, requests and pools. *)
EXTENDS Broker, DataLemmas, TLAPS

(* Pool numbers are positive; services, registry and workers name pools only. *)
LEMMA PoolFacts ==
    /\ Pools \subseteq Nat \ {0}
    /\ Registered \subseteq Pools
    /\ \A w \in Workers : PoolOf(w) \in Registered /\ PoolOf(w) \in Pools
    /\ \A s : SvcPools(s) \subseteq Pools
    /\ \A p : WorkersOf(p) \subseteq Workers
<1>1. Pools \subseteq Nat \ {0}
  BY PoolCfgsAssumption DEF Pools
<1>2. Registered \subseteq Pools
  BY DEF Registered
<1>3. ASSUME NEW w \in Workers PROVE PoolOf(w) \in Registered
  BY <1>3 DEF Workers, PoolOf
<1> QED BY <1>1, <1>2, <1>3 DEF SvcPools, WorkersOf

(* The priority that push copies into the heap item is an integer. *)
LEMMA RequestFacts == \A r \in Requests \cup {NoReq} : r.pri \in Int
<1>1. NoReq.pri \in Int
  BY DEF NoReq
<1> QED BY <1>1, RequestsAssumption

(* Raising the push number pq.seq of one pool keeps every one a natural. *)
LEMMA BumpNat ==
    ASSUME NEW f \in [Pools -> Nat], NEW p
    PROVE  Bump(f, p, 1) \in [Pools -> Nat]
<1>1. CASE p \in Pools BY <1>1 DEF Bump
<1>2. CASE p \notin Pools BY <1>2 DEF Bump
<1> QED BY <1>1, <1>2

(* A counter stays a counter. *)
LEMMA CountersInt ==
    ASSUME TypeOK, NEW w \in Workers
    PROVE  /\ Bump(active, PoolOf(w), 1) \in [Pools -> Int]
           /\ Bump(active, PoolOf(w), -1) \in [Pools -> Int]
           /\ Bump(completed, PoolOf(w), 1) \in [Pools -> Int]
           /\ Bump(errors, PoolOf(w), 1) \in [Pools -> Int]
<1>1. /\ active \in [Pools -> Int] /\ completed \in [Pools -> Int] /\ errors \in [Pools -> Int]
      /\ PoolOf(w) \in Pools
  BY PoolFacts DEF TypeOK
<1> QED BY <1>1 DEF Bump

(* p.idle stays a counter, whichever service the worker has. *)
LEMMA IdleInt ==
    ASSUME TypeOK, NEW w \in Workers, NEW d \in Int, IdleStep(w, d)
    PROVE  idle' \in [Pools -> Int]
<1>1. idle \in [Pools -> Int] /\ PoolOf(w) \in Pools
  BY PoolFacts DEF TypeOK
<1> QED BY <1>1 DEF IdleStep, Bump

(* Every pc that an action assigns is one. *)
LEMMA States ==
    /\ \A s \in {"new", "admitted", "backlog", "scan", "routed", "rejected", "queued",
              "held", "closed"} : s \in JobStates
    /\ \A s \in {"down", "dropped", "dialing", "running", "pop", "parking", "waiting", "taken",
              "drainExit", "dropExit", "ctxExit"} : s \in WorkerStates
BY DEF JobStates, WorkerStates, Waiting, Exits

(* The state that New returns is well typed. *)
LEMMA InitTypeOK == Init => TypeOK
<1> SUFFICES ASSUME Init PROVE TypeOK
  OBVIOUS
<1>1. /\ req \in [Jobs -> Requests \cup {NoReq}]
      /\ jpc \in [Jobs -> JobStates]
      /\ wpc \in [Workers -> WorkerStates]
  BY States DEF Init
<1>2. /\ target \in [Jobs -> Pools \cup {0}]
      /\ left \in [Jobs -> SUBSET Pools]
      /\ warning \in [Jobs -> {None, "missing", "congested"}]
      /\ outcome \in [Jobs -> SUBSET Kinds]
      /\ queue \in [Pools -> SUBSET Items]
      /\ seq \in [Pools -> Nat]
  BY DEF Init
<1>3. /\ cur \in [Workers -> Jobs \cup {None}]
      /\ active \in [Pools -> Int] /\ idle \in [Pools -> Int]
      /\ completed \in [Pools -> Int] /\ errors \in [Pools -> Int]
  BY DEF Init
<1> QED BY <1>1, <1>2, <1>3 DEF Init, TypeOK

(* leastLoaded chooses a pool and leaves pools to compare. *)
LEMMA LeastLoadedType ==
    ASSUME TypeOK, NEW j \in Jobs, NEW warn \in {None, "missing", "congested"},
           LeastLoaded(j, warn)
    PROVE  /\ target' \in [Jobs -> Pools \cup {0}]
           /\ left' \in [Jobs -> SUBSET Pools]
           /\ warning' \in [Jobs -> {None, "missing", "congested"}]
           /\ jpc' \in [Jobs -> JobStates]
<1>1. PICK p \in SvcPools(req[j].service) :
          /\ target' = [target EXCEPT ![j] = p]
          /\ left' = [left EXCEPT ![j] = SvcPools(req[j].service) \ {p}]
          /\ warning' = [warning EXCEPT ![j] = warn]
          /\ jpc' = [jpc EXCEPT ![j] = "scan"]
  BY DEF LeastLoaded
<1>2. p \in Pools /\ SvcPools(req[j].service) \ {p} \in SUBSET Pools
  BY PoolFacts
<1> QED BY <1>1, <1>2, States DEF TypeOK

(* The steps of Submit preserve the type invariant. *)
LEMMA SubmitTypeOK ==
    ASSUME TypeOK, NEW j \in Jobs,
           SubmitStep(j) \/ \E r \in Requests : Admit(j, r)
    PROVE  TypeOK'
<1> USE PoolFacts, States DEF TypeOK, SubmitFrame, shutdownVars, queueVars, counters, submitVars
<1>1. ASSUME NEW r \in Requests, Admit(j, r) PROVE TypeOK'
  BY <1>1 DEF Admit
<1>2. CASE Resolve(j)
  <2>1. CASE NoTag(j) \/ NameMissing(j)
    BY <1>2, <2>1, LeastLoadedType DEF Resolve, NoTag, NameMissing
  <2>2. CASE NoService(j) \/ NamedPool(j)
    <3>1. target' \in [Jobs -> Pools \cup {0}] /\ jpc' \in [Jobs -> JobStates]
      <4>1. CASE NoService(j) BY <4>1 DEF NoService
      <4>2. CASE NamedPool(j)
        <5>1. PICK n \in Registered :
                /\ target' = [target EXCEPT ![j] = n]
                /\ jpc' = [jpc EXCEPT ![j] = IF active[n] >= Conns(n) THEN "backlog" ELSE "routed"]
          BY <4>2 DEF NamedPool
        <5>2. n \in Pools /\ (IF active[n] >= Conns(n) THEN "backlog" ELSE "routed") \in JobStates
          OBVIOUS
        <5> QED BY <5>1, <5>2
      <4> QED BY <2>2, <4>1, <4>2
    <3> QED BY <1>2, <2>2, <3>1 DEF Resolve, NoService, NamedPool
  <2> QED BY <1>2, <2>1, <2>2 DEF Resolve
<1>3. CASE CheckBacklog(j)
  BY <1>3, LeastLoadedType DEF CheckBacklog
<1>4. CASE ScanStep(j)
  BY <1>4 DEF ScanStep
<1>5. CASE Scanned(j)
  BY <1>5 DEF Scanned
<1>6. CASE Push(j)
  <2>1. seq' \in [Pools -> Nat]
    BY <1>6, BumpNat DEF Push
  <2>2. queue' \in [Pools -> SUBSET Items]
    <3>1. CASE target[j] \in Pools
      <4>1. [job |-> j, pri |-> req[j].pri, seq |-> seq'[target[j]]] \in Items
        BY <2>1, <3>1, RequestFacts DEF Items
      <4> QED BY <1>6, <4>1 DEF Push
    <3>2. CASE target[j] \notin Pools
      BY <1>6, <3>2 DEF Push
    <3> QED BY <3>1, <3>2
  <2>3. wpc' \in [Workers -> WorkerStates]
    BY <1>6 DEF Push, Signal, Asleep
  <2>4. jpc' \in [Jobs -> JobStates] /\ late' \subseteq Jobs
    BY <1>6 DEF Push
  <2> QED BY <1>6, <2>1, <2>2, <2>3, <2>4 DEF Push
<1> QED BY <1>1, <1>2, <1>3, <1>4, <1>5, <1>6 DEF SubmitStep

(* Closing ResultCh keeps the types of job states, outcomes and workers. *)
LEMMA CloseType ==
    ASSUME TypeOK, NEW w \in Workers, NEW out \in SUBSET Kinds, Close(w, out)
    PROVE  /\ jpc' \in [Jobs -> JobStates]
           /\ outcome' \in [Jobs -> SUBSET Kinds]
           /\ cur' \in [Workers -> Jobs \cup {None}]
BY States DEF TypeOK, Close

(* All that TypeOK says, but for the counters a finished job may move. *)
LEMMA FinishType ==
    ASSUME TypeOK, NEW w \in Workers, NEW out \in SUBSET Kinds,
           NEW pc \in WorkerStates, Finish(w, out, pc),
           idle' \in [Pools -> Int], completed' \in [Pools -> Int], errors' \in [Pools -> Int]
    PROVE  TypeOK'
<1>1. active' \in [Pools -> Int]
  BY CountersInt DEF Finish
<1>2. wpc' \in [Workers -> WorkerStates]
  BY DEF Finish, Goto, TypeOK
<1>3. /\ jpc' \in [Jobs -> JobStates]
      /\ outcome' \in [Jobs -> SUBSET Kinds]
      /\ cur' \in [Workers -> Jobs \cup {None}]
  BY CloseType DEF Finish
<1> QED BY <1>1, <1>2, <1>3 DEF Finish, WorkFrame, TypeOK, shutdownVars, submitVars, queueVars

(* Start, pop and the worker loops preserve the type invariant. *)
LEMMA WorkerTypeOK ==
    ASSUME TypeOK, NEW w \in Workers, StartWorker(w) \/ Pop(w) \/ Work(w)
    PROVE  TypeOK'
<1> USE PoolFacts, States DEF TypeOK, PopFrame, WorkFrame, shutdownVars, queueVars, counters,
        submitVars, Goto
<1>0. ASSUME NEW d \in Int, IdleStep(w, d) PROVE idle' \in [Pools -> Int]
  BY <1>0, IdleInt
<1>1. CASE StartWorker(w) BY CountersInt, <1>0, <1>1 DEF StartWorker
<1>2. CASE PopTake(w)
  <2>1. PICK i \in queue[PoolOf(w)] :
            /\ queue' = [queue EXCEPT ![PoolOf(w)] = @ \ {i}]
            /\ cur' = [cur EXCEPT ![w] = i.job]
            /\ jpc' = [jpc EXCEPT ![i.job] = "held"]
    BY <1>2 DEF PopTake
  <2>2. i.job \in Jobs
    <3>1. queue[PoolOf(w)] \subseteq Items
      OBVIOUS
    <3> QED BY <3>1 DEF Items
  <2> QED BY <1>2, <2>1, <2>2 DEF PopTake
<1>3. CASE PopExit(w) BY CountersInt, <1>0, <1>3 DEF PopExit
<1>4. CASE PopBlock(w) BY <1>4 DEF PopBlock
<1>5. CASE Park(w) BY <1>5 DEF Park
<1>6. CASE WrongPayload(w) BY <1>6, CloseType DEF WrongPayload
<1>7. CASE Begin(w)
  <2>1. active' \in [Pools -> Int] /\ idle' \in [Pools -> Int]
    BY CountersInt, <1>0, <1>7 DEF Begin
  <2> QED BY <1>7, <2>1 DEF Begin
<1>8. CASE FinishTTS(w)
  <2>1. {"final"} \in SUBSET Kinds /\ {"error"} \in SUBSET Kinds
    BY DEF Kinds
  <2>2. /\ completed' \in [Pools -> Int] /\ errors' \in [Pools -> Int]
        /\ idle' \in [Pools -> Int]
    BY CountersInt, <1>0, <1>8 DEF FinishTTS
  <2> QED BY <1>8, <2>1, <2>2, FinishType DEF FinishTTS
<1>9. CASE FinishSTT(w)
  <2>1. /\ completed' \in [Pools -> Int] /\ errors' \in [Pools -> Int]
        /\ idle' \in [Pools -> Int]
    BY CountersInt, <1>0, <1>9 DEF FinishSTT
  <2> QED BY <1>9, <2>1, FinishType DEF FinishSTT
<1>10. CASE DropBeforeStart(w)
  <2>1. {"error"} \in SUBSET Kinds
    BY DEF Kinds
  <2> QED BY <1>10, <2>1, FinishType DEF DropBeforeStart
<1>11. CASE DropDuringJob(w)
  <2>1. errors' \in [Pools -> Int]
    BY CountersInt, <1>0, <1>11 DEF DropDuringJob
  <2> QED BY <1>11, <2>1, FinishType DEF DropDuringJob
<1>12. CASE CtxStop(w) BY <1>12, FinishType DEF CtxStop
<1>13. CASE AfterDrop(w) BY <1>13 DEF AfterDrop
<1>14. CASE Redial(w) BY CountersInt, <1>0, <1>14 DEF Redial
<1>15. CASE DialCancelled(w) BY <1>15 DEF DialCancelled
<1> QED BY <1>1, <1>2, <1>3, <1>4, <1>5, <1>6, <1>7, <1>8, <1>9, <1>10, <1>11, <1>12,
           <1>13, <1>14, <1>15 DEF Pop, Work

(* Drain and the cancellation preserve the type invariant. *)
LEMMA MainTypeOK ==
    ASSUME TypeOK, StartFails \/ Started \/ DrainBegin \/ DrainStep
    PROVE  TypeOK'
<1> USE PoolFacts, States DEF TypeOK, DrainFrame, shutdownVars, queueVars, counters, submitVars
<1>1. CASE StartFails \/ Started BY <1>1 DEF StartFails, Started
<1>2. CASE DrainBegin BY <1>2 DEF DrainBegin
<1>3. CASE DrainWake BY <1>3 DEF DrainWake, Broadcast
<1>4. CASE DrainWait \/ DrainDone \/ DrainTimeout BY <1>4 DEF DrainWait, DrainDone, DrainTimeout
<1>5. CASE Cancel BY <1>5 DEF Cancel
<1>6. CASE CtxWake BY <1>6 DEF CtxWake, Broadcast
<1> QED BY <1>1, <1>2, <1>3, <1>4, <1>5, <1>6 DEF DrainStep

(* The type invariant is inductive. *)
LEMMA TypeStep == TypeOK /\ [Next]_vars => TypeOK'
<1> SUFFICES ASSUME TypeOK, [Next]_vars PROVE TypeOK'
  OBVIOUS
<1>1. CASE UNCHANGED vars
  BY <1>1 DEF TypeOK, vars, shutdownVars, queueVars, counters, submitVars
<1>2. CASE Next
  BY <1>2, SubmitTypeOK, WorkerTypeOK, MainTypeOK DEF Next
<1> QED BY <1>1, <1>2

(* Every state of the broker is well typed: no step of Start, Submit, a    *)
(* worker or Drain leaves the state space that TypeOK describes.           *)
THEOREM TypeCorrect == Spec => []TypeOK
BY InitTypeOK, TypeStep, PTL DEF Spec

-----------------------------------------------------------------------------
(* Jobs are neither lost nor duplicated *)

(* resolvePool never hands out a pool that does not exist. *)
TargetChosen == \A j \in Jobs : jpc[j] \in {"backlog", "scan"} \cup Routed => target[j] \in Pools

IInv == TypeOK /\ TargetChosen /\ JobInOnePlace

(* A step that moves no job and neither starts nor ends a worker's job. *)
LEMMA QuietStep ==
    ASSUME IInv, UNCHANGED <<jpc, target, queue, seq, cur>>,
           \A w \in Workers : (wpc'[w] \in Holding) <=> (wpc[w] \in Holding)
    PROVE  TargetChosen' /\ JobInOnePlace'
<1>1. TargetChosen'
  BY DEF IInv, TargetChosen
<1>2. QueuesHoldQueued'
  BY DEF IInv, JobInOnePlace, QueuesHoldQueued
<1>3. WorkersHoldHeld'
  BY DEF IInv, JobInOnePlace, WorkersHoldHeld
<1> QED BY <1>1, <1>2, <1>3 DEF JobInOnePlace

(* A step of Submit before push. *)
LEMMA RoutingStep ==
    ASSUME IInv, NEW j \in Jobs, UNCHANGED <<queue, seq, cur, wpc>>,
           jpc[j] \in {"new", "admitted", "backlog", "scan"},
           jpc'[j] \in {"admitted", "rejected", "backlog", "scan", "routed"},
           \A k \in Jobs \ {j} : jpc'[k] = jpc[k] /\ target'[k] = target[k]
    PROVE  JobInOnePlace'
<1> USE DEF IInv
<1>1. \A p \in Pools : \A i \in queue[p] : i.job \in Jobs \ {j}
  BY DEF JobInOnePlace, QueuesHoldQueued, TypeOK, Items
<1>2. \A w \in Workers : cur[w] # None => cur[w] \in Jobs \ {j}
  BY DEF JobInOnePlace, WorkersHoldHeld, TypeOK
<1>3. QueuesHoldQueued'
  BY <1>1 DEF JobInOnePlace, QueuesHoldQueued
<1>4. WorkersHoldHeld'
  BY <1>2 DEF JobInOnePlace, WorkersHoldHeld
<1> QED BY <1>3, <1>4 DEF JobInOnePlace

(* leastLoaded leaves the job with a pool chosen. *)
LEMMA LeastLoadedTarget ==
    ASSUME TypeOK, NEW j \in Jobs, NEW warn, LeastLoaded(j, warn)
    PROVE  /\ jpc'[j] = "scan" /\ target'[j] \in Pools
           /\ \A k \in Jobs \ {j} : jpc'[k] = jpc[k] /\ target'[k] = target[k]
<1>1. PICK p \in SvcPools(req[j].service) :
          /\ target' = [target EXCEPT ![j] = p]
          /\ jpc' = [jpc EXCEPT ![j] = "scan"]
  BY DEF LeastLoaded
<1> QED BY <1>1, PoolFacts DEF TypeOK

(* push puts a job that was nowhere into one item with a new number. *)
LEMMA PushKeepsPlaces ==
    ASSUME IInv, NEW j \in Jobs, Push(j)
    PROVE  TargetChosen' /\ JobInOnePlace'
<1> DEFINE p == target[j]
           new == [job |-> j, pri |-> req[j].pri, seq |-> seq[p] + 1]
<1>1. p \in Pools
  BY DEF IInv, TargetChosen, Push, Routed
<1>2. /\ seq' = [seq EXCEPT ![p] = seq[p] + 1]
      /\ queue' = [queue EXCEPT ![p] = queue[p] \cup {new}]
      /\ jpc' = [jpc EXCEPT ![j] = "queued"]
      /\ UNCHANGED <<target, cur>>
  BY <1>1 DEF IInv, TypeOK, Push, Bump, submitVars
<1>3. \A q \in Pools : \A i \in queue[q] : i.job \in Jobs \ {j} /\ i.seq \in Nat
  BY DEF IInv, JobInOnePlace, QueuesHoldQueued, TypeOK, Items, Push
<1>4. \A w \in Workers : cur[w] # None => cur[w] \in Jobs \ {j}
  BY DEF IInv, JobInOnePlace, WorkersHoldHeld, TypeOK, Push
<1>5. TargetChosen'
  BY <1>1, <1>2 DEF IInv, TargetChosen, TypeOK, Routed
<1>6. QueuesHoldQueued'
  <2>1. \A k \in Jobs \ {j} : jpc'[k] = jpc[k]
    BY <1>2 DEF IInv, TypeOK
  <2>2. jpc'[j] = "queued"
    BY <1>2 DEF IInv, TypeOK
  <2>3. ASSUME NEW q \in Pools, NEW i \in queue'[q]
        PROVE  /\ jpc'[i.job] = "queued" /\ target'[i.job] = q /\ i.seq <= seq'[q]
               /\ \A k \in queue'[q] : i.job = k.job \/ i.seq = k.seq => i = k
    <3>1. CASE q = p
      <4>1. queue'[q] = queue[q] \cup {new} /\ seq'[q] = seq[q] + 1 /\ seq[q] \in Nat
        BY <1>1, <1>2, <3>1 DEF IInv, TypeOK
      <4>2. \A k \in queue[q] : k.job # j /\ k.seq <= seq[q] /\ k.seq \in Nat
        BY <1>3 DEF IInv, JobInOnePlace, QueuesHoldQueued
      <4>3. new.job = j /\ new.seq = seq[q] + 1
        BY <3>1
      <4>4. CASE i = new
        BY <1>2, <2>2, <3>1, <4>1, <4>2, <4>3, <4>4
      <4>5. CASE i \in queue[q]
        <5>1. /\ jpc[i.job] = "queued" /\ target[i.job] = q /\ i.seq <= seq[q]
              /\ \A k \in queue[q] : i.job = k.job \/ i.seq = k.seq => i = k
          BY <4>5 DEF IInv, JobInOnePlace, QueuesHoldQueued
        <5> QED BY <1>2, <1>3, <2>1, <4>1, <4>2, <4>3, <4>5, <5>1
      <4> QED BY <4>1, <4>4, <4>5
    <3>2. CASE q # p
      <4>1. queue'[q] = queue[q] /\ seq'[q] = seq[q]
        BY <1>2, <3>2 DEF IInv, TypeOK
      <4> QED BY <1>2, <1>3, <2>1, <4>1 DEF IInv, JobInOnePlace, QueuesHoldQueued
    <3> QED BY <3>1, <3>2
  <2>4. ASSUME NEW k \in Jobs, jpc'[k] = "queued"
        PROVE  \E i \in queue'[target'[k]] : i.job = k
    <3>1. CASE k = j
      <4>1. new \in queue'[p] /\ new.job = j
        BY <1>1, <1>2 DEF IInv, TypeOK
      <4> QED BY <1>2, <3>1, <4>1
    <3>2. CASE k # j
      <4>1. target[k] \in Pools /\ \E i \in queue[target[k]] : i.job = k
        BY <2>1, <2>4, <3>2 DEF IInv, TargetChosen, Routed, JobInOnePlace, QueuesHoldQueued
      <4>2. queue[target[k]] \subseteq queue'[target[k]]
        BY <1>1, <1>2, <4>1 DEF IInv, TypeOK
      <4> QED BY <1>2, <4>1, <4>2
    <3> QED BY <3>1, <3>2
  <2> QED BY <2>3, <2>4 DEF QueuesHoldQueued
<1>7. \A w \in Workers : (wpc'[w] \in Holding) <=> (wpc[w] \in Holding)
  BY DEF IInv, TypeOK, Push, Signal, Asleep, Holding
<1>8. WorkersHoldHeld'
  BY <1>2, <1>4, <1>7 DEF IInv, JobInOnePlace, WorkersHoldHeld, TypeOK
<1> QED BY <1>5, <1>6, <1>8 DEF JobInOnePlace

(* pop moves a job from its only item to one worker that had none. *)
LEMMA TakeKeepsPlaces ==
    ASSUME IInv, NEW w \in Workers, PopTake(w)
    PROVE  TargetChosen' /\ JobInOnePlace'
<1> DEFINE p == PoolOf(w)
<1>1. PICK i \in queue[p] :
          /\ queue' = [queue EXCEPT ![p] = queue[p] \ {i}]
          /\ cur' = [cur EXCEPT ![w] = i.job]
          /\ jpc' = [jpc EXCEPT ![i.job] = "held"]
  BY PoolFacts DEF PopTake, IInv, TypeOK
<1>2. /\ p \in Pools /\ i \in Items /\ i.job \in Jobs /\ i.job # None
      /\ jpc[i.job] = "queued" /\ target[i.job] = p
      /\ \A k \in queue[p] : k.job = i.job => k = i
      /\ wpc[w] = "pop" /\ cur[w] = None
      /\ wpc' = [wpc EXCEPT ![w] = "taken"]
      /\ UNCHANGED <<target, seq>>
  <2>1. p \in Pools
    BY PoolFacts
  <2>2. i \in Items
    BY <2>1 DEF IInv, TypeOK
  <2>3. i.job \in Jobs /\ i.job # None
    BY <2>2, NoneAssumption DEF Items
  <2>4. wpc[w] = "pop" /\ wpc' = [wpc EXCEPT ![w] = "taken"] /\ UNCHANGED <<target, seq>>
    BY DEF PopTake, Goto, PopFrame, submitVars
  <2>5. cur[w] = None
    BY <2>4 DEF IInv, JobInOnePlace, WorkersHoldHeld, Holding
  <2> QED BY <2>1, <2>2, <2>3, <2>4, <2>5 DEF IInv, JobInOnePlace, QueuesHoldQueued
<1>3. \A k \in Jobs \ {i.job} : jpc'[k] = jpc[k]
  BY <1>1 DEF IInv, TypeOK
<1>4. jpc'[i.job] = "held"
  BY <1>1, <1>2 DEF IInv, TypeOK
<1>5. TargetChosen'
  BY <1>2, <1>3, <1>4 DEF IInv, TargetChosen, Routed
<1>6. QueuesHoldQueued'
  <2>1. ASSUME NEW q \in Pools, NEW k \in queue'[q]
        PROVE  /\ k \in queue[q] /\ k.job \in Jobs \ {i.job}
    <3>1. k \in queue[q] /\ k # i
      <4>1. CASE q = p
        BY <1>1, <1>2, <4>1 DEF IInv, TypeOK
      <4>2. CASE q # p
        <5>1. k \in queue[q]
          BY <1>1, <4>2 DEF IInv, TypeOK
        <5>2. target[k.job] = q
          BY <5>1 DEF IInv, JobInOnePlace, QueuesHoldQueued
        <5> QED BY <1>2, <4>2, <5>1, <5>2
      <4> QED BY <4>1, <4>2
    <3>2. k.job \in Jobs /\ target[k.job] = q
      BY <3>1 DEF IInv, JobInOnePlace, QueuesHoldQueued, TypeOK, Items
    <3> QED BY <1>2, <3>1, <3>2
  <2>2. ASSUME NEW k \in Jobs, jpc'[k] = "queued"
        PROVE  \E x \in queue'[target[k]] : x.job = k
    <3>1. k # i.job
      BY <1>4, <2>2
    <3>2. PICK x \in queue[target[k]] : x.job = k
      BY <1>3, <2>2, <3>1 DEF IInv, JobInOnePlace, QueuesHoldQueued
    <3>3. target[k] \in Pools
      BY <1>3, <2>2, <3>1 DEF IInv, TargetChosen, Routed
    <3>4. x \in queue'[target[k]]
      BY <1>1, <1>2, <3>1, <3>2, <3>3 DEF IInv, TypeOK
    <3> QED BY <3>2, <3>4
  <2> QED BY <1>2, <1>3, <2>1, <2>2 DEF IInv, JobInOnePlace, QueuesHoldQueued
<1>7. WorkersHoldHeld'
  <2>1. cur'[w] = i.job /\ \A v \in Workers \ {w} : cur'[v] = cur[v] /\ wpc'[v] = wpc[v]
    BY <1>1, <1>2 DEF IInv, TypeOK
  <2>2. wpc'[w] = "taken"
    BY <1>2 DEF IInv, TypeOK
  <2>3. \A v \in Workers : cur[v] # None => cur[v] \in Jobs \ {i.job}
    BY <1>2 DEF IInv, JobInOnePlace, WorkersHoldHeld, TypeOK
  <2>4. ASSUME NEW v \in Workers
        PROVE  /\ wpc'[v] \in Holding => cur'[v] \in Jobs
               /\ wpc'[v] \notin Holding => cur'[v] = None
               /\ cur'[v] # None => jpc'[cur'[v]] = "held" /\ target'[cur'[v]] = PoolOf(v)
    <3>1. CASE v = w BY <1>2, <1>4, <2>1, <2>2, <3>1 DEF Holding
    <3>2. CASE v # w BY <1>2, <1>3, <2>1, <2>3, <3>2 DEF IInv, JobInOnePlace, WorkersHoldHeld
    <3> QED BY <3>1, <3>2
  <2>5. ASSUME NEW u \in Workers, NEW v \in Workers, cur'[u] = cur'[v], cur'[u] # None
        PROVE  u = v
    BY <2>1, <2>3, <2>5 DEF IInv, JobInOnePlace, WorkersHoldHeld
  <2>6. ASSUME NEW j \in Jobs, jpc'[j] = "held"
        PROVE  \E v \in Workers : cur'[v] = j
    <3>1. CASE j = i.job BY <2>1, <3>1
    <3>2. CASE j # i.job
      <4>1. PICK v \in Workers : cur[v] = j
        BY <1>3, <2>6, <3>2 DEF IInv, JobInOnePlace, WorkersHoldHeld
      <4>2. v # w
        BY <1>2, <4>1, NoneAssumption
      <4> QED BY <2>1, <4>1, <4>2
    <3> QED BY <3>1, <3>2
  <2> QED BY <2>4, <2>5, <2>6 DEF WorkersHoldHeld
<1> QED BY <1>5, <1>6, <1>7 DEF JobInOnePlace

(* A worker closes its job and lets go of it. *)
LEMMA CloseKeepsPlaces ==
    ASSUME IInv, NEW w \in Workers, NEW out, NEW pc, wpc[w] \in Holding, pc \notin Holding,
           Close(w, out), Goto(w, pc), UNCHANGED <<target, queue, seq>>
    PROVE  TargetChosen' /\ JobInOnePlace'
<1>1. cur[w] \in Jobs /\ cur[w] # None /\ jpc[cur[w]] = "held" /\ target[cur[w]] = PoolOf(w)
  BY NoneAssumption DEF IInv, JobInOnePlace, WorkersHoldHeld
<1>2. jpc'[cur[w]] = "closed" /\ \A k \in Jobs \ {cur[w]} : jpc'[k] = jpc[k]
  BY <1>1 DEF IInv, TypeOK, Close
<1>3. /\ cur'[w] = None /\ wpc'[w] = pc
      /\ \A v \in Workers \ {w} : cur'[v] = cur[v] /\ wpc'[v] = wpc[v]
  BY DEF IInv, TypeOK, Close, Goto
<1>4. TargetChosen'
  BY <1>1, <1>2, PoolFacts DEF IInv, TargetChosen, Routed
<1>5. QueuesHoldQueued'
  <2>1. \A q \in Pools : \A i \in queue[q] : i.job \in Jobs \ {cur[w]}
    BY <1>1 DEF IInv, JobInOnePlace, QueuesHoldQueued, TypeOK, Items
  <2> QED BY <1>2, <2>1 DEF IInv, JobInOnePlace, QueuesHoldQueued
<1>6. WorkersHoldHeld'
  <2>1. \A v \in Workers \ {w} : cur[v] # None => cur[v] \in Jobs \ {cur[w]}
    BY <1>1 DEF IInv, JobInOnePlace, WorkersHoldHeld, TypeOK
  <2>2. ASSUME NEW j \in Jobs, jpc'[j] = "held"
        PROVE  \E v \in Workers : cur'[v] = j
    <3>1. j # cur[w] /\ jpc[j] = "held"
      BY <1>2, <2>2
    <3> QED BY <1>3, <3>1 DEF IInv, JobInOnePlace, WorkersHoldHeld
  <2>3. ASSUME NEW v \in Workers
        PROVE  /\ wpc'[v] \in Holding => cur'[v] \in Jobs
               /\ wpc'[v] \notin Holding => cur'[v] = None
               /\ cur'[v] # None => jpc'[cur'[v]] = "held" /\ target'[cur'[v]] = PoolOf(v)
    <3>1. CASE v = w BY <1>3, <3>1
    <3>2. CASE v # w BY <1>2, <1>3, <2>1, <3>2 DEF IInv, JobInOnePlace, WorkersHoldHeld
    <3> QED BY <3>1, <3>2
  <2>4. ASSUME NEW u \in Workers, NEW v \in Workers, cur'[u] = cur'[v], cur'[u] # None
        PROVE  u = v
    BY <1>3, <2>4 DEF IInv, JobInOnePlace, WorkersHoldHeld
  <2> QED BY <2>2, <2>3, <2>4 DEF WorkersHoldHeld
<1> QED BY <1>4, <1>5, <1>6 DEF JobInOnePlace

(* The steps of Submit preserve JobInOnePlace. *)
LEMMA SubmitKeepsPlaces ==
    ASSUME IInv, NEW j \in Jobs, SubmitStep(j) \/ \E r \in Requests : Admit(j, r)
    PROVE  TargetChosen' /\ JobInOnePlace'
<1> USE DEF IInv, SubmitFrame, queueVars
<1>1. ASSUME NEW r \in Requests, Admit(j, r) PROVE TargetChosen' /\ JobInOnePlace'
  <2>1. /\ jpc[j] = "new" /\ jpc'[j] \in {"admitted", "rejected"}
        /\ \A k \in Jobs \ {j} : jpc'[k] = jpc[k]
        /\ UNCHANGED <<target, queue, seq, cur, wpc>>
    BY <1>1 DEF Admit, TypeOK
  <2>2. JobInOnePlace'
    BY <2>1, RoutingStep
  <2> QED BY <2>1, <2>2 DEF TargetChosen, Routed
<1>2. CASE Resolve(j)
  <2>1. jpc[j] = "admitted" /\ UNCHANGED <<queue, seq, cur, wpc>>
    BY <1>2 DEF Resolve
  <2>2. /\ jpc'[j] \in {"rejected", "scan", "backlog", "routed"}
        /\ jpc'[j] # "rejected" => target'[j] \in Pools
        /\ \A k \in Jobs \ {j} : jpc'[k] = jpc[k] /\ target'[k] = target[k]
    <3>1. CASE NoService(j) BY <3>1 DEF NoService, TypeOK
    <3>2. CASE NoTag(j) \/ NameMissing(j)
      BY <3>2, LeastLoadedTarget DEF NoTag, NameMissing
    <3>3. CASE NamedPool(j)
      <4>1. PICK n \in Registered :
              /\ target' = [target EXCEPT ![j] = n]
              /\ jpc' = [jpc EXCEPT ![j] = IF active[n] >= Conns(n) THEN "backlog" ELSE "routed"]
        BY <3>3 DEF NamedPool
      <4> QED BY <4>1, PoolFacts DEF TypeOK
    <3> QED BY <1>2, <3>1, <3>2, <3>3 DEF Resolve
  <2>3. JobInOnePlace'
    BY <2>1, <2>2, RoutingStep
  <2> QED BY <2>2, <2>3 DEF TargetChosen, Routed
<1>3. CASE CheckBacklog(j)
  <2>1. jpc[j] = "backlog" /\ UNCHANGED <<queue, seq, cur, wpc>>
    BY <1>3 DEF CheckBacklog
  <2>2. /\ jpc'[j] \in {"scan", "routed"} /\ target'[j] \in Pools
        /\ \A k \in Jobs \ {j} : jpc'[k] = jpc[k] /\ target'[k] = target[k]
    <3>1. CASE LeastLoaded(j, "congested") BY <3>1, LeastLoadedTarget
    <3>2. CASE jpc' = [jpc EXCEPT ![j] = "routed"] /\ UNCHANGED target
      BY <2>1, <3>2 DEF TypeOK, TargetChosen
    <3> QED BY <1>3, <3>1, <3>2 DEF CheckBacklog
  <2>3. JobInOnePlace'
    BY <2>1, <2>2, RoutingStep
  <2> QED BY <2>2, <2>3 DEF TargetChosen, Routed
<1>4. CASE ScanStep(j)
  <2>1. /\ jpc[j] = "scan" /\ UNCHANGED <<jpc, queue, seq, cur, wpc>>
        /\ target'[j] \in Pools /\ \A k \in Jobs \ {j} : target'[k] = target[k]
    BY <1>4 DEF ScanStep, TypeOK, TargetChosen
  <2>2. JobInOnePlace'
    BY <2>1, RoutingStep
  <2> QED BY <2>1, <2>2 DEF TargetChosen
<1>5. CASE Scanned(j)
  <2>1. /\ jpc[j] = "scan" /\ jpc'[j] = "routed" /\ UNCHANGED <<queue, seq, cur, wpc>>
        /\ \A k \in Jobs \ {j} : jpc'[k] = jpc[k]
    BY <1>5 DEF Scanned, TypeOK
  <2>2. target'[j] \in Pools /\ \A k \in Jobs \ {j} : target'[k] = target[k]
    BY <1>5, <2>1, PoolFacts DEF Scanned, TypeOK, TargetChosen
  <2>3. JobInOnePlace'
    BY <2>1, <2>2, RoutingStep
  <2> QED BY <2>1, <2>2, <2>3 DEF TargetChosen, Routed
<1>6. CASE Push(j)
  BY <1>6, PushKeepsPlaces
<1> QED BY <1>1, <1>2, <1>3, <1>4, <1>5, <1>6 DEF SubmitStep

(* Pop and the worker loops preserve JobInOnePlace. *)
LEMMA WorkerKeepsPlaces ==
    ASSUME IInv, NEW w \in Workers, StartWorker(w) \/ Pop(w) \/ Work(w)
    PROVE  TargetChosen' /\ JobInOnePlace'
<1> USE DEF PopFrame, WorkFrame, submitVars, queueVars, Holding
<1>1. ASSUME StartWorker(w) \/ PopExit(w) \/ PopBlock(w) \/ Park(w) \/ Begin(w)
             \/ AfterDrop(w) \/ Redial(w) \/ DialCancelled(w)
      PROVE  TargetChosen' /\ JobInOnePlace'
  <2>1. UNCHANGED <<jpc, target, queue, seq, cur>>
    BY <1>1 DEF StartWorker, PopExit, PopBlock, Park, Begin, AfterDrop, Redial, DialCancelled
  <2>2. \A v \in Workers : (wpc'[v] \in Holding) <=> (wpc[v] \in Holding)
    BY <1>1 DEF IInv, TypeOK, StartWorker, NextToDial, PopExit, PopBlock, Park, Begin, AfterDrop,
                Redial, DialCancelled, Goto
  <2> QED BY <2>1, <2>2, QuietStep
<1>2. CASE PopTake(w)
  BY <1>2, TakeKeepsPlaces
<1>3. CASE WrongPayload(w)
  BY <1>3, CloseKeepsPlaces DEF WrongPayload
<1>4. ASSUME NEW out, NEW pc \in {"pop", "dropped", "ctxExit"}, Finish(w, out, pc)
      PROVE  TargetChosen' /\ JobInOnePlace'
  BY <1>4, CloseKeepsPlaces DEF Finish
<1> QED BY <1>1, <1>2, <1>3, <1>4
        DEF Pop, Work, FinishTTS, FinishSTT, DropBeforeStart, DropDuringJob, CtxStop

(* Start, Drain and the cancellation move no job. *)
LEMMA MainKeepsPlaces ==
    ASSUME IInv, StartFails \/ Started \/ DrainBegin \/ DrainStep
    PROVE  TargetChosen' /\ JobInOnePlace'
<1> USE DEF DrainFrame, submitVars, queueVars
<1>1. UNCHANGED <<jpc, target, queue, seq, cur>>
  BY DEF StartFails, Started, DrainBegin, DrainStep, DrainWake, DrainWait, DrainDone,
         DrainTimeout, Cancel, CtxWake
<1>2. \A v \in Workers : (wpc'[v] \in Holding) <=> (wpc[v] \in Holding)
  BY DEF StartFails, Started, DrainBegin, DrainStep, DrainWake, DrainWait, DrainDone,
         DrainTimeout, Cancel, CtxWake, Broadcast, Asleep, Holding
<1> QED BY <1>1, <1>2, QuietStep

(* IInv is an invariant of the broker. *)
LEMMA Inductive == Spec => []IInv
<1>1. Init => IInv
  <2> SUFFICES ASSUME Init PROVE IInv
    OBVIOUS
  <2>1. TargetChosen /\ QueuesHoldQueued
    BY DEF Init, TargetChosen, Routed, QueuesHoldQueued
  <2>2. WorkersHoldHeld
    BY DEF Init, WorkersHoldHeld, Holding
  <2> QED BY <2>1, <2>2, InitTypeOK DEF IInv, JobInOnePlace
<1>2. IInv /\ [Next]_vars => IInv'
  <2> SUFFICES ASSUME IInv, [Next]_vars PROVE IInv'
    OBVIOUS
  <2>1. TypeOK'
    BY TypeStep DEF IInv
  <2>2. CASE UNCHANGED vars
    BY <2>1, <2>2, QuietStep DEF IInv, vars, submitVars, queueVars
  <2>3. CASE Next
    BY <2>1, <2>3, SubmitKeepsPlaces, WorkerKeepsPlaces, MainKeepsPlaces DEF Next, IInv
  <2> QED BY <2>2, <2>3
<1> QED BY <1>1, <1>2, PTL DEF Spec

(* Whatever interleaving of submitters, workers and shutdown: an accepted  *)
(* job is in one queue item, or with one worker, or closed, and never in   *)
(* two places. In particular no ResultCh is closed twice.                  *)
THEOREM JobsInOnePlace == Spec => []JobInOnePlace
<1>1. IInv => JobInOnePlace
  BY DEF IInv
<1> QED BY <1>1, Inductive, PTL

-----------------------------------------------------------------------------
(* What Drain leaves behind *)

Gone == {"drainExit", "dropExit"}

ShutdownOrder ==
    /\ drain # "idle" => draining
    /\ cancelled => drain \in {"drained", "timedout"}
    /\ \A w \in Workers : wpc[w] \in Gone => draining
    /\ \A w \in Workers : wpc[w] = "ctxExit" => cancelled
    /\ drain = "drained" => \A w \in Workers : wpc[w] \in Gone

(* A worker leaves through pop only when its queue is empty, and what      *)
(* comes into the queue after that is late.                                *)
OnlyLateRemains ==
    \A w \in Workers : wpc[w] = "drainExit" => \A i \in queue[PoolOf(w)] : i.job \in late

SInv == ShutdownOrder /\ OnlyLateRemains

(* No step of the broker disturbs the order of a shutdown. *)
LEMMA ShutdownOrderStep ==
    ASSUME IInv, SInv, [Next]_vars
    PROVE  ShutdownOrder'
<1> USE DEF IInv, SInv, ShutdownOrder, TypeOK, Gone, Goto, shutdownVars
<1>1. ASSUME NEW w \in Workers, StartWorker(w) \/ Pop(w) \/ Work(w) PROVE ShutdownOrder'
  <2>1. UNCHANGED <<draining, cancelled, drain>>
    BY <1>1 DEF StartWorker, Pop, Work, PopTake, PopExit, PopBlock, Park, WrongPayload, Begin,
       FinishTTS, FinishSTT, DropBeforeStart, DropDuringJob, CtxStop, AfterDrop, Redial,
       DialCancelled, Finish, PopFrame, WorkFrame
  <2>2. /\ \A v \in Workers \ {w} : wpc'[v] = wpc[v]
        /\ wpc[w] \notin Exits
        /\ wpc'[w] \in Gone => cancelled \/ draining
        /\ wpc'[w] = "ctxExit" => cancelled
    BY <1>1 DEF StartWorker, NextToDial, Pop, Work, PopTake, PopExit, PopBlock, Park,
       WrongPayload, Begin, FinishTTS, FinishSTT, DropBeforeStart, DropDuringJob, CtxStop,
       AfterDrop, Redial, DialCancelled, Finish, Exits
  <2> QED BY <2>1, <2>2 DEF Exits
<1>2. ASSUME NEW j \in Jobs, SubmitStep(j) \/ \E r \in Requests : Admit(j, r)
      PROVE  ShutdownOrder'
  <2>1. UNCHANGED <<draining, cancelled, drain>>
    BY <1>2 DEF SubmitStep, Admit, Resolve, CheckBacklog, ScanStep, Scanned, Push, SubmitFrame
  <2>2. \A v \in Workers : wpc'[v] = wpc[v] \/ (wpc[v] = "waiting" /\ wpc'[v] = "pop")
    BY <1>2 DEF SubmitStep, Admit, Resolve, CheckBacklog, ScanStep, Scanned, Push, SubmitFrame,
       Signal, Asleep
  <2> QED BY <2>1, <2>2
<1>3. CASE StartFails \/ Started
  BY <1>3 DEF StartFails, Started
<1>4. CASE DrainBegin
  BY <1>4 DEF DrainBegin
<1>5. CASE DrainWake \/ CtxWake
  <2>1. \A v \in Workers : wpc'[v] = wpc[v] \/ (wpc[v] = "waiting" /\ wpc'[v] = "pop")
    BY <1>5 DEF DrainWake, CtxWake, Broadcast, Asleep
  <2> QED BY <1>5, <2>1 DEF DrainWake, CtxWake
<1>6. CASE DrainWait \/ DrainDone \/ DrainTimeout \/ Cancel
  BY <1>6 DEF DrainWait, DrainDone, DrainTimeout, Cancel, Exits
<1>7. CASE UNCHANGED vars
  BY <1>7 DEF vars
<1> QED BY <1>1, <1>2, <1>3, <1>4, <1>5, <1>6, <1>7 DEF Next, DrainStep

(* Once a worker has left through pop, only jobs pushed late remain in its queue. *)
LEMMA OnlyLateStep ==
    ASSUME IInv, SInv, [Next]_vars
    PROVE  OnlyLateRemains'
<1> USE DEF IInv, SInv, OnlyLateRemains, TypeOK, queueVars
<1>1. ASSUME NEW w \in Workers, StartWorker(w) \/ Pop(w) \/ Work(w) PROVE OnlyLateRemains'
  <2>1. CASE PopTake(w)
    <3>1. UNCHANGED late /\ wpc' = [wpc EXCEPT ![w] = "taken"]
      BY <2>1 DEF PopTake, Goto
    <3>2. \A v \in Workers : queue'[PoolOf(v)] \subseteq queue[PoolOf(v)]
      BY <2>1, PoolFacts DEF PopTake
    <3> QED BY <3>1, <3>2
  <2>2. CASE PopExit(w)
    BY <2>2 DEF PopExit, Goto
  <2>3. ASSUME ~PopTake(w), ~PopExit(w)
        PROVE  /\ UNCHANGED <<queue, late>>
               /\ wpc'[w] # "drainExit" /\ \A v \in Workers \ {w} : wpc'[v] = wpc[v]
    BY <1>1, <2>3 DEF StartWorker, Pop, Work, PopBlock, Park, WrongPayload, Begin, FinishTTS,
       FinishSTT, DropBeforeStart, DropDuringJob, CtxStop, AfterDrop, Redial, DialCancelled,
       Finish, WorkFrame, Goto
  <2> QED BY <2>1, <2>2, <2>3
<1>2. ASSUME NEW j \in Jobs, Push(j) PROVE OnlyLateRemains'
  <2>1. \A v \in Workers : wpc'[v] = "drainExit" => wpc[v] = "drainExit"
    BY <1>2 DEF Push, Signal, Asleep
  <2>2. \A v \in Workers : \A i \in queue'[PoolOf(v)] : i \in queue[PoolOf(v)] \/ i.job = j
    BY <1>2, PoolFacts DEF Push
  <2>3. late \subseteq late' /\ (draining => j \in late')
    BY <1>2 DEF Push
  <2>4. \A v \in Workers : wpc[v] = "drainExit" => draining
    BY DEF ShutdownOrder, Gone
  <2> QED BY <2>1, <2>2, <2>3, <2>4
<1>3. ASSUME NEW j \in Jobs, SubmitStep(j) \/ \E r \in Requests : Admit(j, r), ~Push(j)
      PROVE  OnlyLateRemains'
  BY <1>3 DEF SubmitStep, Admit, Resolve, CheckBacklog, ScanStep, Scanned, SubmitFrame
<1>4. CASE StartFails \/ Started \/ DrainBegin \/ DrainStep
  <2>1. UNCHANGED <<queue, late>>
    BY <1>4 DEF StartFails, Started, DrainBegin, DrainStep, DrainWake, DrainWait, DrainDone,
       DrainTimeout, Cancel, CtxWake, DrainFrame
  <2>2. \A v \in Workers : wpc'[v] = "drainExit" => wpc[v] = "drainExit"
    BY <1>4 DEF StartFails, Started, DrainBegin, DrainStep, DrainWake, DrainWait, DrainDone,
       DrainTimeout, Cancel, CtxWake, Broadcast
  <2> QED BY <2>1, <2>2
<1>5. CASE UNCHANGED vars
  BY <1>5 DEF vars
<1> QED BY <1>1, <1>2, <1>3, <1>4, <1>5 DEF Next

(* When Drain returns nil no worker has a job, and a job pushed before the *)
(* drain began is left in a queue only if every worker of that pool exited *)
(* because its connection dropped. TTS pools, whose workers never exit     *)
(* that way, leave nothing but late jobs.                                  *)
THEOREM DrainLeavesOnlyDropped == Spec => []StrandedOnlyByDrop
<1>1. Init => SInv
  BY DEF Init, SInv, ShutdownOrder, OnlyLateRemains, Gone
<1>2. IInv /\ SInv /\ [Next]_vars => SInv'
  BY ShutdownOrderStep, OnlyLateStep DEF SInv
<1>3. IInv /\ SInv => StrandedOnlyByDrop
  <2> SUFFICES ASSUME IInv, SInv, drain = "drained", NEW j \in Jobs
               PROVE  /\ jpc[j] # "held"
                      /\ jpc[j] = "queued" /\ j \notin late =>
                             \A w \in WorkersOf(target[j]) : wpc[w] = "dropExit"
    BY DEF StrandedOnlyByDrop
  <2>1. \A w \in Workers : wpc[w] \in Gone
    BY DEF SInv, ShutdownOrder
  <2>2. jpc[j] # "held"
    <3>1. \A w \in Workers : cur[w] = None
      BY <2>1 DEF IInv, JobInOnePlace, WorkersHoldHeld, Holding, Gone
    <3> QED BY <3>1, NoneAssumption DEF IInv, JobInOnePlace, WorkersHoldHeld
  <2>3. ASSUME jpc[j] = "queued", j \notin late, NEW w \in WorkersOf(target[j])
        PROVE  wpc[w] = "dropExit"
    <3>1. \E i \in queue[target[j]] : i.job = j
      BY <2>3 DEF IInv, JobInOnePlace, QueuesHoldQueued
    <3>2. w \in Workers /\ PoolOf(w) = target[j]
      BY DEF WorkersOf
    <3>3. wpc[w] # "drainExit"
      BY <2>3, <3>1, <3>2 DEF SInv, OnlyLateRemains
    <3> QED BY <2>1, <3>2, <3>3 DEF Gone
  <2> QED BY <2>2, <2>3
<1> QED BY <1>1, <1>2, <1>3, Inductive, PTL DEF Spec

-----------------------------------------------------------------------------
(* Where Submit sends a job *)

(* Of the pools with one name, b.pools keeps one. *)
LEMMA NameRegistered == \A p \in Pools : \E n \in Registered : Name(n) = Name(p)
<1> SUFFICES ASSUME NEW p \in Pools PROVE \E n \in Registered : Name(n) = Name(p)
  OBVIOUS
<1> DEFINE T == {q \in Pools : Name(q) = Name(p)}
<1>1. Len(PoolCfgs) \in Nat /\ Pools = 1 .. Len(PoolCfgs)
  BY PoolCfgsAssumption DEF Pools
<1>2. T \in SUBSET (1 .. Len(PoolCfgs)) /\ T # {}
  BY <1>1
<1>3. PICK n \in T : \A q \in T : q <= n
  <2> HIDE DEF T
  <2> QED BY <1>1, <1>2, GreatestPosition
<1> QED BY <1>3 DEF Registered

(* What resolvePool has established by the time a job is in a given state. *)
WarnedLater(j) == jpc[j] \in {"new", "admitted", "backlog"} => warning[j] = None

NamedInBacklog(j) ==
    jpc[j] = "backlog" =>
        target[j] \in Registered /\ Name(target[j]) = req[j].pool /\ req[j].pool # ""

ScanOfService(j) ==
    jpc[j] = "scan" =>
        /\ target[j] \in SvcPools(req[j].service) /\ left[j] \subseteq SvcPools(req[j].service)
        /\ warning[j] = None => req[j].pool = ""
        /\ warning[j] = "missing" => req[j].pool # "" /\ \A n \in Registered : Name(n) # req[j].pool
        /\ warning[j] = "congested" => req[j].pool # ""

RoutedRight(j) ==
    jpc[j] \in Routed =>
        /\ warning[j] = None <=> req[j].pool \in {"", Name(target[j])}
        /\ PoolCfgs[target[j]].service # req[j].service => req[j].pool = Name(target[j])

RouteOK(j) == WarnedLater(j) /\ NamedInBacklog(j) /\ ScanOfService(j) /\ RoutedRight(j)

RouteInv == \A j \in Jobs : RouteOK(j)

(* A job keeps what Submit decided about it while it moves from push to close. *)
LEMMA SameRoute ==
    ASSUME NEW j, RouteOK(j),
           req'[j] = req[j], target'[j] = target[j], left'[j] = left[j], warning'[j] = warning[j],
           jpc'[j] = jpc[j] \/ (jpc[j] \in Routed /\ jpc'[j] \in Routed)
    PROVE  RouteOK(j)'
<1>1. CASE jpc'[j] = jpc[j]
  BY <1>1 DEF RouteOK, WarnedLater, NamedInBacklog, ScanOfService, RoutedRight
<1>2. CASE jpc[j] \in Routed /\ jpc'[j] \in Routed
  <2>1. jpc'[j] \notin {"new", "admitted", "backlog", "scan"}
    BY <1>2 DEF Routed
  <2> QED BY <1>2, <2>1 DEF RouteOK, WarnedLater, NamedInBacklog, ScanOfService, RoutedRight
<1> QED BY <1>1, <1>2

(* leastLoaded starts from the first pool of the job's own service. *)
LEMMA LeastLoadedRoute ==
    ASSUME TypeOK, NEW j \in Jobs, NEW warn \in {None, "missing", "congested"},
           LeastLoaded(j, warn), UNCHANGED req,
           warn = None => req[j].pool = "",
           warn # None => req[j].pool # "",
           warn = "missing" => \A n \in Registered : Name(n) # req[j].pool
    PROVE  RouteOK(j)'
<1>1. PICK p \in SvcPools(req[j].service) :
          /\ target' = [target EXCEPT ![j] = p]
          /\ left' = [left EXCEPT ![j] = SvcPools(req[j].service) \ {p}]
          /\ warning' = [warning EXCEPT ![j] = warn]
          /\ jpc' = [jpc EXCEPT ![j] = "scan"]
  BY DEF LeastLoaded
<1>2. target'[j] = p /\ left'[j] = SvcPools(req[j].service) \ {p} /\ warning'[j] = warn /\ jpc'[j] = "scan"
  BY <1>1 DEF TypeOK
<1> QED BY <1>2 DEF RouteOK, WarnedLater, NamedInBacklog, ScanOfService, RoutedRight, Routed, None

(* Every step of Submit on the job itself. *)
LEMMA SubmitRoute ==
    ASSUME IInv, NEW j \in Jobs, RouteOK(j), SubmitStep(j) \/ \E r \in Requests : Admit(j, r)
    PROVE  RouteOK(j)'
<1> USE DEF IInv, SubmitFrame, submitVars
<1>1. ASSUME NEW r \in Requests, Admit(j, r) PROVE RouteOK(j)'
  <2>1. jpc[j] = "new" /\ jpc'[j] \in {"admitted", "rejected"} /\ UNCHANGED warning
    BY <1>1 DEF Admit, TypeOK
  <2> QED BY <2>1 DEF RouteOK, WarnedLater, NamedInBacklog, ScanOfService, RoutedRight, Routed
<1>2. CASE Resolve(j)
  <2>1. jpc[j] = "admitted" /\ UNCHANGED req /\ warning[j] = None
    BY <1>2 DEF Resolve, RouteOK, WarnedLater
  <2>2. CASE NoService(j)
    <3>1. jpc'[j] = "rejected"
      BY <2>2 DEF NoService, TypeOK
    <3> QED BY <3>1 DEF RouteOK, WarnedLater, NamedInBacklog, ScanOfService, RoutedRight, Routed
  <2>3. CASE NoTag(j)
    BY <2>1, <2>3, LeastLoadedRoute DEF NoTag, None
  <2>4. CASE NameMissing(j)
    BY <2>1, <2>4, LeastLoadedRoute DEF NameMissing, None
  <2>5. CASE NamedPool(j)
    <3>1. PICK n \in Registered :
            /\ Name(n) = req[j].pool
            /\ target' = [target EXCEPT ![j] = n]
            /\ jpc' = [jpc EXCEPT ![j] = IF active[n] >= Conns(n) THEN "backlog" ELSE "routed"]
      BY <2>5 DEF NamedPool
    <3>2. /\ target'[j] = n /\ jpc'[j] \in {"backlog", "routed"} /\ warning'[j] = None
          /\ req'[j].pool = Name(n) /\ req'[j].pool # ""
      BY <2>1, <2>5, <3>1 DEF NamedPool, TypeOK
    <3> QED BY <3>2 DEF RouteOK, WarnedLater, NamedInBacklog, ScanOfService, RoutedRight, Routed
  <2> QED BY <1>2, <2>2, <2>3, <2>4, <2>5 DEF Resolve
<1>3. CASE CheckBacklog(j)
  <2>1. jpc[j] = "backlog" /\ UNCHANGED req
    BY <1>3 DEF CheckBacklog
  <2>2. target[j] \in Registered /\ Name(target[j]) = req[j].pool /\ req[j].pool # "" /\ warning[j] = None
    BY <2>1 DEF RouteOK, WarnedLater, NamedInBacklog
  <2>3. CASE LeastLoaded(j, "congested")
    BY <2>1, <2>2, <2>3, LeastLoadedRoute DEF None
  <2>4. CASE jpc' = [jpc EXCEPT ![j] = "routed"] /\ UNCHANGED <<target, left, warning>>
    <3>1. jpc'[j] = "routed"
      BY <2>4 DEF TypeOK
    <3> QED BY <2>1, <2>2, <2>4, <3>1
            DEF RouteOK, WarnedLater, NamedInBacklog, ScanOfService, RoutedRight, Routed
  <2> QED BY <1>3, <2>3, <2>4 DEF CheckBacklog
<1>4. CASE ScanStep(j)
  <2>1. jpc[j] = "scan" /\ UNCHANGED <<jpc, req, warning>>
    BY <1>4 DEF ScanStep
  <2>2. left'[j] \subseteq left[j] /\ target'[j] \in left[j] \cup {target[j]}
    BY <1>4 DEF ScanStep, TypeOK
  <2> QED BY <2>1, <2>2 DEF RouteOK, WarnedLater, NamedInBacklog, ScanOfService, RoutedRight, Routed
<1>5. CASE Scanned(j)
  <2>1. jpc[j] = "scan" /\ jpc'[j] = "routed" /\ UNCHANGED req
    BY <1>5 DEF Scanned, TypeOK
  <2>2. target[j] \in Pools /\ PoolCfgs[target[j]].service = req[j].service
    BY <2>1, PoolFacts DEF RouteOK, ScanOfService, SvcPools
  <2>3. CASE warning[j] = "congested" /\ Name(target[j]) = req[j].pool
    <3>1. Name(target'[j]) = req[j].pool /\ warning'[j] = None
      BY <1>5, <2>3, PoolFacts DEF Scanned, TypeOK
    <3> QED BY <2>1, <3>1 DEF RouteOK, WarnedLater, NamedInBacklog, ScanOfService, RoutedRight, Routed
  <2>4. CASE ~(warning[j] = "congested" /\ Name(target[j]) = req[j].pool)
    <3>1. UNCHANGED <<target, warning>>
      BY <1>5, <2>4 DEF Scanned
    <3>2. warning[j] = "missing" => req[j].pool # Name(target[j])
      BY <2>1, <2>2, NameRegistered DEF RouteOK, ScanOfService
    <3>3. /\ warning[j] \in {None, "missing", "congested"}
          /\ warning[j] = None => req[j].pool = ""
          /\ warning[j] # None => req[j].pool \notin {"", Name(target[j])}
      BY <2>1, <2>4, <3>2 DEF RouteOK, ScanOfService, TypeOK, None
    <3> QED BY <2>1, <2>2, <3>1, <3>3
            DEF RouteOK, WarnedLater, NamedInBacklog, ScanOfService, RoutedRight, Routed
  <2> QED BY <2>3, <2>4
<1>6. CASE Push(j)
  <2>1. UNCHANGED submitVars /\ jpc[j] = "routed" /\ jpc'[j] = "queued"
    BY <1>6 DEF Push, TypeOK
  <2> QED BY <2>1, SameRoute DEF Routed
<1> QED BY <1>1, <1>2, <1>3, <1>4, <1>5, <1>6 DEF SubmitStep

(* A step of one submitter leaves what the others decided alone. *)
LEMMA OtherRoutes ==
    ASSUME IInv, NEW j \in Jobs, SubmitStep(j) \/ \E r \in Requests : Admit(j, r),
           NEW k \in Jobs \ {j}
    PROVE  /\ jpc'[k] = jpc[k] /\ req'[k] = req[k] /\ target'[k] = target[k]
           /\ left'[k] = left[k] /\ warning'[k] = warning[k]
BY DEF SubmitStep, Admit, Resolve, NoService, NoTag, NameMissing, NamedPool, LeastLoaded,
   CheckBacklog, ScanStep, Scanned, Push, submitVars, IInv, TypeOK

(* Workers and main change nothing that Submit decided. *)
LEMMA WorkerRoutes ==
    ASSUME IInv, NEW k \in Jobs,
           \/ \E w \in Workers : StartWorker(w) \/ Pop(w) \/ Work(w)
           \/ StartFails \/ Started \/ DrainBegin \/ DrainStep \/ UNCHANGED vars
    PROVE  /\ UNCHANGED submitVars
           /\ jpc'[k] = jpc[k] \/ (jpc[k] \in Routed /\ jpc'[k] \in Routed)
<1> USE DEF PopFrame, WorkFrame, DrainFrame
<1>1. UNCHANGED submitVars
  BY DEF StartWorker, Pop, Work, PopTake, PopExit, PopBlock, Park, WrongPayload, Begin, FinishTTS,
     FinishSTT, DropBeforeStart, DropDuringJob, CtxStop, AfterDrop, Redial, DialCancelled, Finish,
     StartFails, Started, DrainBegin, DrainStep, DrainWake, DrainWait, DrainDone, DrainTimeout,
     Cancel, CtxWake, vars
<1>2. ASSUME NEW w \in Workers, PopTake(w)
      PROVE  jpc'[k] = jpc[k] \/ (jpc[k] \in Routed /\ jpc'[k] \in Routed)
  <2>1. PICK i \in queue[PoolOf(w)] : jpc' = [jpc EXCEPT ![i.job] = "held"]
    BY <1>2 DEF PopTake
  <2>2. jpc[i.job] = "queued"
    BY <2>1, PoolFacts DEF IInv, JobInOnePlace, QueuesHoldQueued
  <2> QED BY <2>1, <2>2 DEF IInv, TypeOK, Routed
<1>3. ASSUME NEW w \in Workers, NEW out, wpc[w] \in Holding, Close(w, out)
      PROVE  jpc'[k] = jpc[k] \/ (jpc[k] \in Routed /\ jpc'[k] \in Routed)
  <2>1. jpc[cur[w]] = "held"
    BY <1>3, NoneAssumption DEF IInv, JobInOnePlace, WorkersHoldHeld
  <2> QED BY <1>3, <2>1 DEF Close, IInv, TypeOK, Routed
<1>4. ASSUME NEW w \in Workers, StartWorker(w) \/ Pop(w) \/ Work(w), ~PopTake(w),
             ~\E out : wpc[w] \in Holding /\ Close(w, out)
      PROVE  UNCHANGED jpc
  BY <1>4 DEF StartWorker, Pop, Work, PopExit, PopBlock, Park, WrongPayload, Begin, FinishTTS,
     FinishSTT, DropBeforeStart, DropDuringJob, CtxStop, AfterDrop, Redial, DialCancelled, Finish,
     Holding
<1>5. ASSUME StartFails \/ Started \/ DrainBegin \/ DrainStep \/ UNCHANGED vars
      PROVE  UNCHANGED jpc
  BY <1>5 DEF StartFails, Started, DrainBegin, DrainStep, DrainWake, DrainWait, DrainDone,
     DrainTimeout, Cancel, CtxWake, vars
<1> QED BY <1>1, <1>2, <1>3, <1>4, <1>5

(* RouteInv is an invariant of the broker. *)
LEMMA RouteInductive == Spec => []RouteInv
<1>1. Init => RouteInv
  BY DEF Init, RouteInv, RouteOK, WarnedLater, NamedInBacklog, ScanOfService, RoutedRight, Routed
<1>2. IInv /\ RouteInv /\ [Next]_vars => RouteInv'
  <2> SUFFICES ASSUME IInv, RouteInv, [Next]_vars, NEW k \in Jobs PROVE RouteOK(k)'
    BY DEF RouteInv
  <2>1. RouteOK(k)
    BY DEF RouteInv
  <2>2. ASSUME NEW j \in Jobs, SubmitStep(j) \/ \E r \in Requests : Admit(j, r)
        PROVE  RouteOK(k)'
    <3>1. CASE k = j BY <2>1, <2>2, <3>1, SubmitRoute
    <3>2. CASE k # j BY <2>1, <2>2, <3>2, OtherRoutes, SameRoute
    <3> QED BY <3>1, <3>2
  <2>3. CASE \/ \E w \in Workers : StartWorker(w) \/ Pop(w) \/ Work(w)
             \/ StartFails \/ Started \/ DrainBegin \/ DrainStep \/ UNCHANGED vars
    <3>1. /\ UNCHANGED submitVars
          /\ jpc'[k] = jpc[k] \/ (jpc[k] \in Routed /\ jpc'[k] \in Routed)
      BY <2>3, WorkerRoutes
    <3> QED BY <2>1, <3>1, SameRoute DEF submitVars
  <2> QED BY <2>2, <2>3 DEF Next
<1> QED BY <1>1, <1>2, Inductive, PTL DEF Spec

(* SubmitResult.Warning is set exactly when the job named a pool and went  *)
(* to another, however long the routing took and whatever the workers did  *)
(* to the counters it reads.                                               *)
THEOREM WarnedExactly == Spec => []WarnedIffRerouted
<1>1. RouteInv => WarnedIffRerouted
  BY DEF RouteInv, RouteOK, RoutedRight, WarnedIffRerouted
<1> QED BY <1>1, RouteInductive, PTL

(* No fallback of resolvePool sends a job to a pool of the other service;  *)
(* only the job's own tag does.                                            *)
THEOREM ForeignByTagOnly == Spec => []ForeignOnlyByTag
<1>1. RouteInv => ForeignOnlyByTag
  BY DEF RouteInv, RouteOK, RoutedRight, ForeignOnlyByTag
<1> QED BY <1>1, RouteInductive, PTL

-----------------------------------------------------------------------------
(* The broker implements JobContract *)

(* Nothing is sent on a ResultCh that the worker does not also close. *)
OpenIsEmpty == \A j \in Jobs : jpc[j] # "closed" => outcome[j] = {}

(* A step of the broker that changes one job's status is that step of the  *)
(* contract, and one that changes none is a stutter.                       *)
LEMMA StatusStep ==
    ASSUME TypeOK, NEW j \in Jobs, \A k \in Jobs \ {j} : jpc'[k] = jpc[k]
    PROVE  statusOf' = [statusOf EXCEPT ![j] = Status(j)']
<1>1. \A k \in Jobs \ {j} : Status(k)' = Status(k)
  BY DEF Status
<1> QED BY <1>1 DEF statusOf

(* A step that keeps job states and outcomes is a stutter of the contract. *)
LEMMA SameStatus ==
    ASSUME \A k \in Jobs : Status(k)' = Status(k), UNCHANGED outcome
    PROVE  UNCHANGED Contract!contractVars
BY DEF statusOf, Contract!contractVars

(* A worker that closes a job takes the CloseResults step of the contract. *)
LEMMA CloseRefines ==
    ASSUME IInv, OpenIsEmpty, NEW w \in Workers, NEW out \in SUBSET Kinds,
           wpc[w] \in Holding, Close(w, out)
    PROVE  Contract!ContractNext /\ OpenIsEmpty'
<1>0. PICK j \in Jobs : j = cur[w]
  BY DEF IInv, JobInOnePlace, WorkersHoldHeld
<1>1. jpc[j] = "held" /\ outcome[j] = {}
  <2>1. jpc[j] = "held"
    BY <1>0, NoneAssumption DEF IInv, JobInOnePlace, WorkersHoldHeld
  <2> QED BY <2>1 DEF OpenIsEmpty
<1>2. /\ jpc'[j] = "closed" /\ outcome' = [outcome EXCEPT ![j] = out]
      /\ \A k \in Jobs \ {j} : jpc'[k] = jpc[k] /\ outcome'[k] = outcome[k]
  BY <1>0 DEF IInv, TypeOK, Close
<1>3. statusOf' = [statusOf EXCEPT ![j] = "closed"] /\ statusOf[j] = "accepted"
  <2>1. Status(j)' = "closed" /\ Status(j) = "accepted"
    BY <1>1, <1>2 DEF Status
  <2>2. statusOf' = [statusOf EXCEPT ![j] = Status(j)']
    BY <1>1, <1>2, StatusStep DEF IInv
  <2> QED BY <1>1, <2>1, <2>2 DEF statusOf
<1>4. outcome' = [outcome EXCEPT ![j] = outcome[j] \cup out]
  BY <1>1, <1>2
<1>5. Contract!CloseResults(j)
  BY <1>3, <1>4 DEF Contract!CloseResults
<1>6. OpenIsEmpty'
  BY <1>2 DEF OpenIsEmpty
<1> QED BY <1>1, <1>5, <1>6 DEF Contract!ContractNext

(* Admit and Resolve may reject, push accepts, the rest of Submit stutters. *)
LEMMA SubmitRefines ==
    ASSUME IInv, OpenIsEmpty, NEW j \in Jobs, SubmitStep(j) \/ \E r \in Requests : Admit(j, r)
    PROVE  [Contract!ContractNext]_(Contract!contractVars) /\ OpenIsEmpty'
<1> DEFINE early == {"new", "admitted", "backlog", "scan", "routed"}
<1>1. UNCHANGED outcome /\ \A k \in Jobs \ {j} : jpc'[k] = jpc[k]
  BY DEF SubmitStep, Admit, Resolve, NoService, NoTag, NameMissing, NamedPool, LeastLoaded,
     CheckBacklog, ScanStep, Scanned, Push, SubmitFrame, IInv, TypeOK
<1>2. jpc[j] \in early /\ jpc'[j] \in early \cup {"rejected", "queued"}
  BY DEF SubmitStep, Admit, Resolve, NoService, NoTag, NameMissing, NamedPool, LeastLoaded,
     CheckBacklog, ScanStep, Scanned, Push, IInv, TypeOK
<1>3. OpenIsEmpty'
  BY <1>1, <1>2 DEF OpenIsEmpty
<1>4. Status(j) = "submitting" /\ statusOf[j] = "submitting"
  BY <1>2 DEF Status, statusOf
<1>5. statusOf' = [statusOf EXCEPT ![j] = Status(j)']
  BY <1>1, StatusStep DEF IInv
<1>6. CASE jpc'[j] \in early
  <2>1. Status(j)' = "submitting"
    BY <1>6 DEF Status
  <2>2. \A k \in Jobs : Status(k)' = Status(k)
    BY <1>1, <1>4, <2>1 DEF Status
  <2> QED BY <1>1, <1>3, <2>2, SameStatus
<1>7. CASE jpc'[j] = "rejected"
  <2>1. Status(j)' = "rejected"
    BY <1>7 DEF Status
  <2>2. Contract!Reject(j)
    BY <1>1, <1>4, <1>5, <2>1 DEF Contract!Reject
  <2> QED BY <1>3, <2>2 DEF Contract!ContractNext
<1>8. CASE jpc'[j] = "queued"
  <2>1. Status(j)' = "accepted"
    BY <1>8 DEF Status
  <2>2. Contract!Accept(j)
    BY <1>1, <1>4, <1>5, <2>1 DEF Contract!Accept
  <2> QED BY <1>3, <2>2 DEF Contract!ContractNext
<1> QED BY <1>2, <1>6, <1>7, <1>8

(* Pop stutters, and the end of a job is its CloseResults step. *)
LEMMA WorkerRefines ==
    ASSUME IInv, OpenIsEmpty, NEW w \in Workers, StartWorker(w) \/ Pop(w) \/ Work(w)
    PROVE  [Contract!ContractNext]_(Contract!contractVars) /\ OpenIsEmpty'
<1>1. ASSUME StartWorker(w) \/ PopExit(w) \/ PopBlock(w) \/ Park(w) \/ Begin(w)
             \/ AfterDrop(w) \/ Redial(w) \/ DialCancelled(w)
      PROVE  [Contract!ContractNext]_(Contract!contractVars) /\ OpenIsEmpty'
  <2>1. UNCHANGED <<jpc, outcome>>
    BY <1>1 DEF StartWorker, PopExit, PopBlock, Park, Begin, AfterDrop, Redial, DialCancelled,
       PopFrame, WorkFrame
  <2> QED BY <2>1, SameStatus DEF Status, OpenIsEmpty
<1>2. CASE PopTake(w)
  <2>1. PICK i \in queue[PoolOf(w)] : jpc' = [jpc EXCEPT ![i.job] = "held"]
    BY <1>2 DEF PopTake
  <2>2. PoolOf(w) \in Pools
    BY PoolFacts
  <2>3. jpc[i.job] = "queued"
    BY <2>1, <2>2 DEF IInv, JobInOnePlace, QueuesHoldQueued
  <2>4. \A k \in Jobs : jpc'[k] = jpc[k] \/ (jpc[k] = "queued" /\ jpc'[k] = "held")
    <3>1. i.job \in Jobs
      BY <2>1, <2>2 DEF IInv, TypeOK, Items
    <3>2. jpc \in [Jobs -> JobStates]
      BY DEF IInv, TypeOK
    <3> QED BY <2>1, <2>3, <3>1, <3>2
  <2>5. UNCHANGED outcome
    BY <1>2 DEF PopTake, PopFrame
  <2>6. \A k \in Jobs : Status(k)' = Status(k)
    BY <2>4 DEF Status
  <2> QED BY <2>4, <2>5, <2>6, SameStatus DEF OpenIsEmpty
<1>3. CASE WrongPayload(w)
  BY <1>3, CloseRefines DEF WrongPayload, Holding
<1>4. ASSUME NEW out \in SUBSET Kinds, NEW pc, Finish(w, out, pc)
      PROVE  Contract!ContractNext /\ OpenIsEmpty'
  BY <1>4, CloseRefines DEF Finish, Holding
<1>5. {"final"} \in SUBSET Kinds /\ {"error"} \in SUBSET Kinds
  BY DEF Kinds
<1> QED BY <1>1, <1>2, <1>3, <1>4, <1>5
        DEF Pop, Work, FinishTTS, FinishSTT, DropBeforeStart, DropDuringJob, CtxStop

(* Start, Drain and the cancellation stutter. *)
LEMMA MainRefines ==
    ASSUME OpenIsEmpty, StartFails \/ Started \/ DrainBegin \/ DrainStep \/ UNCHANGED vars
    PROVE  [Contract!ContractNext]_(Contract!contractVars) /\ OpenIsEmpty'
<1>1. UNCHANGED <<jpc, outcome>>
  BY DEF StartFails, Started, DrainBegin, DrainStep, DrainWake, DrainWait, DrainDone,
     DrainTimeout, Cancel, CtxWake, DrainFrame, vars
<1> QED BY <1>1, SameStatus DEF Status, OpenIsEmpty

(* The broker's code paths, from Submit to the last close, show each       *)
(* submitter a behaviour of JobContract: one answer, Results only on an    *)
(* accepted job, one close, and silence after it.                          *)
THEOREM BrokerKeepsContract == Spec => KeepsContract
<1>1. Init => Contract!ContractInit /\ OpenIsEmpty
  <2> SUFFICES ASSUME Init PROVE Contract!ContractInit /\ OpenIsEmpty
    OBVIOUS
  <2>1. \A j \in Jobs : Status(j) = "submitting"
    BY DEF Init, Status
  <2> QED BY <2>1 DEF Init, Contract!ContractInit, statusOf, OpenIsEmpty
<1>2. IInv /\ OpenIsEmpty /\ [Next]_vars
          => [Contract!ContractNext]_(Contract!contractVars) /\ OpenIsEmpty'
  BY SubmitRefines, WorkerRefines, MainRefines DEF Next
<1> QED BY <1>1, <1>2, Inductive, PTL DEF Spec, KeepsContract, Contract!ContractSpec
=============================================================================
