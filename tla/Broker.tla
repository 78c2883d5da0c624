------------------------------- MODULE Broker -------------------------------
(***************************************************************************)
(* internal/broker: named pools of backend connections, a priority queue   *)
(* per pool, the workers that empty the queues, Submit's routing and the   *)
(* two-phase shutdown (Drain, then cancellation of the broker context).    *)
(*                                                                         *)
(* Threads: one submitter per job (a gateway goroutine inside Submit), one *)
(* worker per configured connection, and main (Start, Drain, cancel).      *)
(* What a worker does with a job on its connection is one step here, with  *)
(* every outcome the code has; module SttSession opens that step up.       *)
(***************************************************************************)
EXTENDS Integers, Sequences, FiniteSets

CONSTANTS Jobs,      \* jobs; each is handed to Submit at most once
          Requests,  \* what a gateway may put into a job: service, pool tag, priority
          PoolCfgs   \* the pools section of the configuration file, in order

ASSUME PoolCfgsAssumption ==
    PoolCfgs \in Seq([name : STRING, service : {"stt", "tts"}, conns : Nat])

ASSUME RequestsAssumption ==
    Requests \subseteq [service : STRING, pool : STRING, pri : Int]

Pools == DOMAIN PoolCfgs
Conns(p) == PoolCfgs[p].conns
Name(p) == PoolCfgs[p].name

(* b.pools is a map: of two configurations with one name the later stays.  *)
Registered == {p \in Pools : \A q \in Pools : Name(q) = Name(p) => q <= p}

(* b.services[s] lists every pool of the service in configuration order,   *)
(* which is the order of the pool numbers.                                 *)
SvcPools(s) == {p \in Pools : PoolCfgs[p].service = s}

(* Start launches one worker per connection of each pool in b.pools.       *)
Workers == UNION {{p} \X (1 .. Conns(p)) : p \in Registered}
PoolOf(w) == w[1]
ServiceOf(w) == PoolCfgs[PoolOf(w)].service
WorkersOf(p) == {w \in Workers : PoolOf(w) = p}

None == "none"

ASSUME NoneAssumption == None \notin Jobs

VARIABLES
    phase,      \* main: "starting", "serving", or "fatal" after log.Fatalf
    draining,   \* b.draining
    cancelled,  \* the broker context is done
    drain,      \* where Drain is
    toWake,     \* pools Drain has still to Broadcast to
    ctxWake,    \* pools whose <-ctx.Done() goroutine has still to Broadcast
    req,        \* the request of each job
    jpc,        \* where each job is
    target,     \* pool chosen so far by resolvePool; 0 before that
    left,       \* pools leastLoaded has still to look at
    warning,    \* SubmitResult.Warning: None, "missing" or "congested"
    outcome,    \* kinds of Result sent on ResultCh before it was closed
    queue,      \* pq.h of each pool
    seq,        \* pq.seq of each pool
    wpc,        \* where each worker is
    cur,        \* the job a worker holds
    active, idle, completed, errors,  \* the atomic counters of each pool
    late        \* history: jobs pushed after draining was set

shutdownVars == <<draining, cancelled, drain, toWake, ctxWake>>
submitVars == <<req, target, left, warning>>
counters == <<active, idle, completed, errors>>
queueVars == <<queue, seq, late>>
vars == <<phase, shutdownVars, submitVars, jpc, outcome, queueVars, wpc, cur, counters>>

NoReq == [service |-> "", pool |-> "", pri |-> 0]
Items == [job : Jobs, pri : Int, seq : Nat]
Kinds == {"final", "error"}
JobStates == {"new", "admitted", "backlog", "scan", "routed", "rejected",
              "queued", "held", "closed"}
Exits == {"drainExit", "dropExit", "ctxExit"}
Holding == {"taken", "running"}

(* A worker's connection is up and it is between two jobs. *)
Waiting == {"pop", "parking", "waiting", "taken"}

WorkerStates == {"down", "dropped", "dialing", "running"} \cup Waiting \cup Exits

(* One type invariant for the whole broker state. *)
TypeOK ==
    /\ phase \in {"starting", "serving", "fatal"}
    /\ draining \in BOOLEAN /\ cancelled \in BOOLEAN
    /\ drain \in {"idle", "waking", "waiting", "drained", "timedout"}
    /\ toWake \subseteq Registered /\ ctxWake \subseteq Registered
    /\ req \in [Jobs -> Requests \cup {NoReq}]
    /\ jpc \in [Jobs -> JobStates]
    /\ target \in [Jobs -> Pools \cup {0}]
    /\ left \in [Jobs -> SUBSET Pools]
    /\ warning \in [Jobs -> {None, "missing", "congested"}]
    /\ outcome \in [Jobs -> SUBSET Kinds]
    /\ queue \in [Pools -> SUBSET Items]
    /\ seq \in [Pools -> Nat]
    /\ wpc \in [Workers -> WorkerStates]
    /\ cur \in [Workers -> Jobs \cup {None}]
    /\ active \in [Pools -> Int] /\ idle \in [Pools -> Int]
    /\ completed \in [Pools -> Int] /\ errors \in [Pools -> Int]
    /\ late \subseteq Jobs

Init ==
    /\ phase = "starting"
    /\ draining = FALSE /\ cancelled = FALSE
    /\ drain = "idle" /\ toWake = {} /\ ctxWake = {}
    /\ req = [j \in Jobs |-> NoReq]
    /\ jpc = [j \in Jobs |-> "new"]
    /\ target = [j \in Jobs |-> 0]
    /\ left = [j \in Jobs |-> {}]
    /\ warning = [j \in Jobs |-> None]
    /\ outcome = [j \in Jobs |-> {}]
    /\ queue = [p \in Pools |-> {}]
    /\ seq = [p \in Pools |-> 0]
    /\ wpc = [w \in Workers |-> "down"]
    /\ cur = [w \in Workers |-> None]
    /\ active = [p \in Pools |-> 0] /\ idle = [p \in Pools |-> 0]
    /\ completed = [p \in Pools |-> 0] /\ errors = [p \in Pools |-> 0]
    /\ late = {}

-----------------------------------------------------------------------------
(* Helpers *)

(* pq.mu is held across two steps only between the last test of pop's loop *)
(* and the registration of the waiter inside cond.Wait.                    *)
MuFree(p) == \A w \in WorkersOf(p) : wpc[w] # "parking"

(* jobHeap.Less *)
Less(a, b) == IF a.pri # b.pri THEN a.pri > b.pri ELSE a.seq < b.seq

Asleep(p) == {w \in WorkersOf(p) : wpc[w] = "waiting"}

(* Fault: push does not signal. *)
SignalForgotten(p) == UNCHANGED wpc

(* Fault: push signals only when it finds the queue empty. *)
SignalWhenEmpty(p) ==
    \/ (Asleep(p) = {} \/ queue[p] # {}) /\ UNCHANGED wpc
    \/ queue[p] = {} /\ \E w \in Asleep(p) : wpc' = [wpc EXCEPT ![w] = "pop"]

(* cond.Signal: one sleeper, if there is any, goes back to pop's test. *)
Signal(p) ==
    \/ Asleep(p) = {} /\ UNCHANGED wpc
    \/ \E w \in Asleep(p) : wpc' = [wpc EXCEPT ![w] = "pop"]

(* cond.Broadcast, which none of its callers makes under pq.mu. *)
Broadcast(p) == wpc' = [w \in Workers |-> IF w \in Asleep(p) THEN "pop" ELSE wpc[w]]

(* close(job.ResultCh), after the Results in out were sent on it. *)
Close(w, out) ==
    /\ jpc' = [jpc EXCEPT ![cur[w]] = "closed"]
    /\ outcome' = [outcome EXCEPT ![cur[w]] = out]
    /\ cur' = [cur EXCEPT ![w] = None]

Goto(w, pc) == wpc' = [wpc EXCEPT ![w] = pc]
Bump(f, p, d) == [f EXCEPT ![p] = @ + d]

(* p.idle counts STT sessions only; the TTS worker never touches it. *)
IdleStep(w, d) == idle' = IF ServiceOf(w) = "stt" THEN Bump(idle, PoolOf(w), d) ELSE idle

-----------------------------------------------------------------------------
(* Start *)

(* Start dials one connection after the other: the pools in map order, so  *)
(* in any order, the connections of a pool in the order of their numbers.  *)
NextToDial(w) ==
    /\ wpc[w] = "down"
    /\ \A v \in WorkersOf(PoolOf(w)) : v[2] < w[2] => wpc[v] # "down"
    /\ \A p \in Registered \ {PoolOf(w)} :
           \A u, v \in WorkersOf(p) : (wpc[u] = "down") <=> (wpc[v] = "down")

(* A connection comes up and its worker enters the job loop. dialSTT       *)
(* retries until it succeeds, so a failed attempt changes nothing.         *)
StartWorker(w) ==
    /\ phase = "starting" /\ NextToDial(w)
    /\ Goto(w, "pop")
    /\ IdleStep(w, 1)
    /\ UNCHANGED <<phase, shutdownVars, submitVars, jpc, outcome, queueVars, cur,
                   active, completed, errors>>

(* A TTS connection fails within its 15 s: Start returns, main is fatal. *)
StartFails ==
    /\ phase = "starting"
    /\ \E w \in Workers : ServiceOf(w) = "tts" /\ NextToDial(w)
    /\ phase' = "fatal"
    /\ UNCHANGED <<shutdownVars, submitVars, jpc, outcome, queueVars, wpc, cur, counters>>

Started ==
    /\ phase = "starting" /\ \A w \in Workers : wpc[w] # "down"
    /\ phase' = "serving"
    /\ UNCHANGED <<shutdownVars, submitVars, jpc, outcome, queueVars, wpc, cur, counters>>

-----------------------------------------------------------------------------
(* Submit, one step per access to shared state *)

SubmitFrame == <<phase, shutdownVars, outcome, wpc, cur, counters>>

(* A gateway calls Submit, which tests the drain flag first. *)
Admit(j, r) ==
    /\ phase = "serving" /\ jpc[j] = "new"
    /\ req' = [req EXCEPT ![j] = r]
    /\ jpc' = [jpc EXCEPT ![j] = IF draining THEN "rejected" ELSE "admitted"]
    /\ UNCHANGED <<SubmitFrame, target, left, warning, queueVars>>

(* Fault: leastLoaded starts from all pools, whatever they serve. *)
LeastLoadedOfAll(j, warn) ==
    \E p \in Pools :
        /\ \A q \in Pools : p <= q
        /\ target' = [target EXCEPT ![j] = p]
        /\ left' = [left EXCEPT ![j] = Pools \ {p}]
        /\ warning' = [warning EXCEPT ![j] = warn]
        /\ jpc' = [jpc EXCEPT ![j] = "scan"]

(* leastLoaded: best := pools[0], and the others are still to be compared. *)
LeastLoaded(j, warn) ==
    \E p \in SvcPools(req[j].service) :
        /\ \A q \in SvcPools(req[j].service) : p <= q
        /\ target' = [target EXCEPT ![j] = p]
        /\ left' = [left EXCEPT ![j] = SvcPools(req[j].service) \ {p}]
        /\ warning' = [warning EXCEPT ![j] = warn]
        /\ jpc' = [jpc EXCEPT ![j] = "scan"]

NoService(j) ==
    /\ SvcPools(req[j].service) = {}
    /\ jpc' = [jpc EXCEPT ![j] = "rejected"]
    /\ UNCHANGED <<target, left, warning>>

(* The pool tag names a registered pool: isCongested reads active first.   *)
(* Nothing compares the pool's service with the job's.                     *)
NamedPool(j) ==
    /\ SvcPools(req[j].service) # {} /\ req[j].pool # ""
    /\ \E n \in Registered :
        /\ Name(n) = req[j].pool
        /\ target' = [target EXCEPT ![j] = n]
        /\ jpc' = [jpc EXCEPT ![j] = IF active[n] >= Conns(n) THEN "backlog" ELSE "routed"]
    /\ UNCHANGED <<left, warning>>

NoTag(j) == req[j].pool = "" /\ LeastLoaded(j, None)

NameMissing(j) ==
    /\ req[j].pool # "" /\ \A n \in Registered : Name(n) # req[j].pool
    /\ LeastLoaded(j, "missing")

(* resolvePool, up to the first read of shared state *)
Resolve(j) ==
    /\ jpc[j] = "admitted"
    /\ NoService(j) \/ NoTag(j) \/ NameMissing(j) \/ NamedPool(j)
    /\ UNCHANGED <<SubmitFrame, req, queueVars>>

(* The other half of isCongested: the queue length, under pq.mu. *)
CheckBacklog(j) ==
    /\ jpc[j] = "backlog" /\ MuFree(target[j])
    /\ \/ /\ queue[target[j]] # {}
          /\ LeastLoaded(j, "congested")
       \/ /\ queue[target[j]] = {}
          /\ jpc' = [jpc EXCEPT ![j] = "routed"]
          /\ UNCHANGED <<target, left, warning>>
    /\ UNCHANGED <<SubmitFrame, req, queueVars>>

(* One turn of leastLoaded's loop. *)
ScanStep(j) ==
    /\ jpc[j] = "scan"
    /\ \E p \in left[j] :
        /\ \A q \in left[j] : p <= q
        /\ left' = [left EXCEPT ![j] = @ \ {p}]
        /\ target' = [target EXCEPT ![j] = IF active[p] < active[@] THEN p ELSE @]
    /\ UNCHANGED <<SubmitFrame, req, warning, jpc, queueVars>>

(* Fault: no comparison of the chosen pool with the named one. *)
ScannedAlwaysWarns(j) ==
    /\ jpc[j] = "scan" /\ left[j] = {}
    /\ jpc' = [jpc EXCEPT ![j] = "routed"]
    /\ UNCHANGED <<SubmitFrame, req, target, left, warning, queueVars>>

(* leastLoaded returns. A congested pool that is the least loaded one too  *)
(* is kept, without a warning.                                             *)
Scanned(j) ==
    /\ jpc[j] = "scan" /\ left[j] = {}
    /\ jpc' = [jpc EXCEPT ![j] = "routed"]
    /\ \/ /\ warning[j] = "congested" /\ Name(target[j]) = req[j].pool
          /\ \E n \in Registered : Name(n) = req[j].pool /\ target' = [target EXCEPT ![j] = n]
          /\ warning' = [warning EXCEPT ![j] = None]
       \/ /\ warning[j] = "congested" => Name(target[j]) # req[j].pool
          /\ UNCHANGED <<target, warning>>
    /\ UNCHANGED <<SubmitFrame, req, left, queueVars>>

(* priorityQueue.push; Submit then returns the pool and the warning. *)
Push(j) ==
    /\ jpc[j] = "routed" /\ MuFree(target[j])
    /\ seq' = Bump(seq, target[j], 1)
    /\ queue' = [queue EXCEPT ![target[j]] =
                    @ \cup {[job |-> j, pri |-> req[j].pri, seq |-> seq'[target[j]]]}]
    /\ jpc' = [jpc EXCEPT ![j] = "queued"]
    /\ late' = IF draining THEN late \cup {j} ELSE late
    /\ Signal(target[j])
    /\ UNCHANGED <<phase, shutdownVars, submitVars, outcome, cur, counters>>

-----------------------------------------------------------------------------
(* priorityQueue.pop, called by the worker that holds no job *)

PopFrame == <<phase, shutdownVars, submitVars, outcome, active, completed, errors>>

(* Fault: the first item is read and stays in the heap. *)
PopPeeks(w) ==
    /\ wpc[w] = "pop" /\ MuFree(PoolOf(w))
    /\ \E i \in queue[PoolOf(w)] :
        /\ \A k \in queue[PoolOf(w)] \ {i} : Less(i, k)
        /\ cur' = [cur EXCEPT ![w] = i.job]
        /\ jpc' = [jpc EXCEPT ![i.job] = "held"]
    /\ Goto(w, "taken")
    /\ UNCHANGED <<PopFrame, idle, queueVars>>

(* heap.Pop: the item before all others. The drain flag and the context    *)
(* are not looked at while there are jobs.                                 *)
PopTake(w) ==
    /\ wpc[w] = "pop" /\ MuFree(PoolOf(w))
    /\ \E i \in queue[PoolOf(w)] :
        /\ \A k \in queue[PoolOf(w)] \ {i} : Less(i, k)
        /\ queue' = [queue EXCEPT ![PoolOf(w)] = @ \ {i}]
        /\ cur' = [cur EXCEPT ![w] = i.job]
        /\ jpc' = [jpc EXCEPT ![i.job] = "held"]
    /\ Goto(w, "taken")
    /\ UNCHANGED <<PopFrame, idle, seq, late>>

(* Fault: pop looks at the drain flag before it looks at the queue. *)
PopExitEager(w) ==
    /\ wpc[w] = "pop" /\ MuFree(PoolOf(w))
    /\ cancelled \/ draining
    /\ Goto(w, IF cancelled THEN "ctxExit" ELSE "drainExit")
    /\ IdleStep(w, -1)
    /\ UNCHANGED <<PopFrame, jpc, queueVars, cur>>

(* Empty queue in shutdown: pop returns false and the worker exits. *)
PopExit(w) ==
    /\ wpc[w] = "pop" /\ MuFree(PoolOf(w)) /\ queue[PoolOf(w)] = {}
    /\ cancelled \/ draining
    /\ Goto(w, IF cancelled THEN "ctxExit" ELSE "drainExit")
    /\ IdleStep(w, -1)
    /\ UNCHANGED <<PopFrame, jpc, queueVars, cur>>

(* Empty queue, no shutdown seen: the worker is about to call cond.Wait,   *)
(* still holding pq.mu.                                                    *)
PopBlock(w) ==
    /\ wpc[w] = "pop" /\ MuFree(PoolOf(w)) /\ queue[PoolOf(w)] = {}
    /\ ~cancelled /\ ~draining
    /\ Goto(w, "parking")
    /\ UNCHANGED <<PopFrame, idle, jpc, queueVars, cur>>

(* cond.Wait joins the wait set and releases pq.mu. *)
Park(w) ==
    /\ wpc[w] = "parking"
    /\ Goto(w, "waiting")
    /\ UNCHANGED <<PopFrame, idle, jpc, queueVars, cur>>

-----------------------------------------------------------------------------
(* The worker and its job *)

WorkFrame == <<phase, shutdownVars, submitVars, queueVars>>

(* The payload's type is tested. A job of the other service is closed      *)
(* without a Result and without touching a counter.                        *)
WrongPayload(w) ==
    /\ wpc[w] = "taken" /\ req[cur[w]].service # ServiceOf(w)
    /\ Close(w, {}) /\ Goto(w, "pop")
    /\ UNCHANGED <<WorkFrame, counters>>

Begin(w) ==
    /\ wpc[w] = "taken" /\ req[cur[w]].service = ServiceOf(w)
    /\ Goto(w, "running")
    /\ IdleStep(w, -1)
    /\ active' = Bump(active, PoolOf(w), 1)
    /\ UNCHANGED <<WorkFrame, jpc, outcome, cur, completed, errors>>

(* The worker is done with its job: it sent the Results in out, closed     *)
(* ResultCh, and goes to pc.                                               *)
Finish(w, out, pc) ==
    /\ wpc[w] = "running"
    /\ Close(w, out)
    /\ Goto(w, pc)
    /\ active' = Bump(active, PoolOf(w), -1)
    /\ UNCHANGED WorkFrame

(* SynthesizeWithOptions returned; a failure leaves the connection in use. *)
FinishTTS(w) ==
    /\ ServiceOf(w) = "tts"
    /\ \/ /\ Finish(w, {"final"}, "pop")
          /\ completed' = Bump(completed, PoolOf(w), 1) /\ UNCHANGED errors
       \/ /\ Finish(w, {"error"}, "pop")
          /\ errors' = Bump(errors, PoolOf(w), 1) /\ UNCHANGED completed
    /\ UNCHANGED idle

(* Fault: the session is not counted as idle again. *)
FinishSTTNotIdle(w) ==
    /\ ServiceOf(w) = "stt"
    /\ \E out \in SUBSET Kinds : "final" \in out /\ Finish(w, out, "pop")
    /\ completed' = Bump(completed, PoolOf(w), 1)
    /\ UNCHANGED <<idle, errors>>

(* A final result arrived, errors may have come before it. *)
FinishSTT(w) ==
    /\ ServiceOf(w) = "stt"
    /\ \E out \in SUBSET Kinds : "final" \in out /\ Finish(w, out, "pop")
    /\ completed' = Bump(completed, PoolOf(w), 1)
    /\ IdleStep(w, 1)
    /\ UNCHANGED errors

(* The connection fails before the server listens, or StartRecognition     *)
(* fails: an error Result is sent, p.errors is not touched.                *)
DropBeforeStart(w) ==
    /\ ServiceOf(w) = "stt"
    /\ Finish(w, {"error"}, "dropped")
    /\ UNCHANGED <<idle, completed, errors>>

(* Fault: a final result is counted when it comes, and the drop again. *)
DropDuringJobTwice(w) ==
    /\ ServiceOf(w) = "stt"
    /\ \E out \in SUBSET Kinds :
        /\ Finish(w, out, "dropped")
        /\ completed' = IF "final" \in out THEN Bump(completed, PoolOf(w), 1) ELSE completed
    /\ errors' = Bump(errors, PoolOf(w), 1)
    /\ UNCHANGED idle

(* The 30 s timer or a read error ends the job: p.errors counts it, what   *)
(* was sent so far stays sent (it may be nothing, or the final result).    *)
DropDuringJob(w) ==
    /\ ServiceOf(w) = "stt"
    /\ \E out \in SUBSET Kinds : Finish(w, out, "dropped")
    /\ errors' = Bump(errors, PoolOf(w), 1)
    /\ UNCHANGED <<idle, completed>>

(* The broker context ends while the job waits or runs. *)
CtxStop(w) ==
    /\ ServiceOf(w) = "stt" /\ cancelled
    /\ \E out \in SUBSET Kinds : Finish(w, out, "ctxExit")
    /\ UNCHANGED <<idle, completed, errors>>

(* runSTTWorker after a drop: exit in shutdown, whatever is queued, else   *)
(* dial again.                                                             *)
AfterDrop(w) ==
    /\ wpc[w] = "dropped"
    /\ Goto(w, IF cancelled \/ draining THEN "dropExit" ELSE "dialing")
    /\ UNCHANGED <<WorkFrame, jpc, outcome, cur, counters>>

(* dialSTT succeeds and the next runArmedSession begins. *)
Redial(w) ==
    /\ wpc[w] = "dialing"
    /\ Goto(w, "pop") /\ IdleStep(w, 1)
    /\ UNCHANGED <<WorkFrame, jpc, outcome, cur, active, completed, errors>>

(* dialSTT gives up for the context only; it does not know the drain flag. *)
DialCancelled(w) ==
    /\ wpc[w] = "dialing" /\ cancelled
    /\ Goto(w, "ctxExit")
    /\ UNCHANGED <<WorkFrame, jpc, outcome, cur, counters>>

-----------------------------------------------------------------------------
(* Shutdown, driven by main *)

DrainFrame == <<phase, submitVars, jpc, outcome, queueVars, cur, counters>>

DrainBegin ==
    /\ phase = "serving" /\ drain = "idle"
    /\ draining' = TRUE /\ drain' = "waking" /\ toWake' = Registered
    /\ UNCHANGED <<DrainFrame, cancelled, ctxWake, wpc>>

DrainWake ==
    /\ drain = "waking"
    /\ \E p \in toWake : toWake' = toWake \ {p} /\ Broadcast(p)
    /\ UNCHANGED <<DrainFrame, draining, cancelled, drain, ctxWake>>

DrainWait ==
    /\ drain = "waking" /\ toWake = {}
    /\ drain' = "waiting"
    /\ UNCHANGED <<DrainFrame, draining, cancelled, toWake, ctxWake, wpc>>

(* workerWg.Wait returned: Drain returns nil, "all jobs drained". *)
DrainDone ==
    /\ drain = "waiting" /\ \A w \in Workers : wpc[w] \in Exits
    /\ drain' = "drained"
    /\ UNCHANGED <<DrainFrame, draining, cancelled, toWake, ctxWake, wpc>>

(* The 30 s of main's drainCtx are over. *)
DrainTimeout ==
    /\ drain = "waiting"
    /\ drain' = "timedout"
    /\ UNCHANGED <<DrainFrame, draining, cancelled, toWake, ctxWake, wpc>>

(* brokerCancel *)
Cancel ==
    /\ drain \in {"drained", "timedout"} /\ ~cancelled
    /\ cancelled' = TRUE /\ ctxWake' = Registered
    /\ UNCHANGED <<DrainFrame, draining, drain, toWake, wpc>>

(* The goroutine Start left behind for each pool wakes the pool's sleepers. *)
CtxWake ==
    /\ \E p \in ctxWake : ctxWake' = ctxWake \ {p} /\ Broadcast(p)
    /\ UNCHANGED <<DrainFrame, draining, cancelled, drain, toWake>>

-----------------------------------------------------------------------------
SubmitStep(j) == Resolve(j) \/ CheckBacklog(j) \/ ScanStep(j) \/ Scanned(j) \/ Push(j)

Pop(w) ==
    /\ phase # "fatal"
    /\ PopTake(w) \/ PopExit(w) \/ PopBlock(w) \/ Park(w)

Work(w) ==
    \/ WrongPayload(w) \/ Begin(w) \/ FinishTTS(w) \/ FinishSTT(w)
    \/ DropBeforeStart(w) \/ DropDuringJob(w) \/ CtxStop(w)
    \/ AfterDrop(w) \/ Redial(w) \/ DialCancelled(w)

DrainStep == DrainWake \/ DrainWait \/ DrainDone \/ DrainTimeout \/ Cancel \/ CtxWake

Next ==
    \/ \E w \in Workers : StartWorker(w) \/ Pop(w) \/ Work(w)
    \/ \E j \in Jobs : SubmitStep(j) \/ \E r \in Requests : Admit(j, r)
    \/ StartFails \/ Started \/ DrainBegin \/ DrainStep

Spec == Init /\ [][Next]_vars

(* Go runs every runnable goroutine, a backend answers or fails in the end *)
(* (STT jobs have a 30 s timer), and dialling succeeds in the end. When    *)
(* jobs come, whether Start fails and when the signal comes is open.       *)
Fairness ==
    /\ \A w \in Workers : WF_vars(StartWorker(w)) /\ WF_vars(Pop(w)) /\ WF_vars(Work(w))
    /\ \A j \in Jobs : WF_vars(SubmitStep(j))
    /\ WF_vars(Started) /\ WF_vars(DrainStep)
-----------------------------------------------------------------------------
(* Properties that hold *)

(* An item of a queue is a job in state "queued" routed to that pool; each *)
(* queued job is in one item only, and push numbers are never reused.      *)
QueuesHoldQueued ==
    /\ \A p \in Pools : \A i \in queue[p] :
        /\ jpc[i.job] = "queued" /\ target[i.job] = p /\ i.seq <= seq[p]
        /\ \A k \in queue[p] : i.job = k.job \/ i.seq = k.seq => i = k
    /\ \A j \in Jobs : jpc[j] = "queued" => \E i \in queue[target[j]] : i.job = j

(* A worker has a job exactly while it works on it; the job is of its pool *)
(* and no other worker has it.                                             *)
WorkersHoldHeld ==
    /\ \A w \in Workers :
        /\ wpc[w] \in Holding => cur[w] \in Jobs
        /\ wpc[w] \notin Holding => cur[w] = None
        /\ cur[w] # None => jpc[cur[w]] = "held" /\ target[cur[w]] = PoolOf(w)
    /\ \A v, w \in Workers : cur[v] = cur[w] /\ cur[v] # None => v = w
    /\ \A j \in Jobs : jpc[j] = "held" => \E w \in Workers : cur[w] = j

(* A job that Submit accepted is in one place: one item of one queue, or   *)
(* with one worker, or closed. So push, pop and the worker loops together  *)
(* neither lose a job nor run it twice, and ResultCh is closed at most     *)
(* once (a second close would panic).                                      *)
JobInOnePlace == QueuesHoldQueued /\ WorkersHoldHeld

(* p.active and p.idle, which /metrics shows and Submit routes by, count   *)
(* the pool's workers that run a job and its STT workers that wait for     *)
(* one, on every path through the worker loops: errors, reconnects, exits. *)
GaugesExact ==
    \A p \in Pools :
        /\ active[p] = Cardinality({w \in WorkersOf(p) : wpc[w] = "running"})
        /\ idle[p] = Cardinality({w \in WorkersOf(p) : ServiceOf(w) = "stt" /\ wpc[w] \in Waiting})

ClosedIn(p) == {j \in Jobs : jpc[j] = "closed" /\ target[j] = p}

(* A job moves p.completed or p.errors at most once, and p.completed only  *)
(* when its submitter got a final result.                                  *)
CountedOnce ==
    \A p \in Pools :
        /\ completed[p] + errors[p] <= Cardinality(ClosedIn(p))
        /\ completed[p] <= Cardinality({j \in ClosedIn(p) : "final" \in outcome[j]})

Routed == {"routed", "queued", "held", "closed"}

(* Submit's caller gets a warning exactly when the job named a pool and    *)
(* was sent to another one, whichever of resolvePool's returns was taken.  *)
WarnedIffRerouted ==
    \A j \in Jobs : jpc[j] \in Routed =>
        (warning[j] = None <=> req[j].pool \in {"", Name(target[j])})

(* A job goes to a pool of another service only when its own tag names     *)
(* that pool; no fallback of resolvePool leads there. (The worker closes   *)
(* such a job without a Result.)                                           *)
ForeignOnlyByTag ==
    \A j \in Jobs : jpc[j] \in Routed /\ PoolCfgs[target[j]].service # req[j].service =>
        req[j].pool = Name(target[j])

(* While a worker of p sleeps in cond.Wait, there are at least as many     *)
(* awake workers on their way to the queue as there are jobs in it: one    *)
(* Signal per push is enough, and no job waits beside a sleeping worker.   *)
WakeupsSuffice ==
    \A p \in Pools : Asleep(p) # {} =>
        Cardinality(queue[p]) <= Cardinality({w \in WorkersOf(p) : wpc[w] = "pop"})

(* When Drain has returned nil, no worker still has a job, and a job       *)
(* pushed before the drain flag was set is unfinished only if every worker *)
(* of its pool lost its connection during the drain (or the pool never had *)
(* a worker).                                                              *)
StrandedOnlyByDrop ==
    drain = "drained" =>
        \A j \in Jobs :
            /\ jpc[j] # "held"
            /\ jpc[j] = "queued" /\ j \notin late =>
                   \A w \in WorkersOf(target[j]) : wpc[w] = "dropExit"

(* What the submitter sees of a job. *)
Status(j) ==
    CASE jpc[j] \in {"queued", "held"} -> "accepted"
      [] jpc[j] \in {"rejected", "closed"} -> jpc[j]
      [] OTHER -> "submitting"

statusOf == [j \in Jobs |-> Status(j)]

Contract == INSTANCE JobContract WITH status <- statusOf, results <- outcome

(* The broker implements the contract: whatever submitters, workers and    *)
(* shutdown do, no job is answered twice, reopened, or written to after    *)
(* its ResultCh was closed.                                                *)
KeepsContract == Contract!ContractSpec

-----------------------------------------------------------------------------
(* What the documentation says and the code does not do *)

(* Drain: "Wake all idle workers so they see the drain flag and exit."     *)
(* After its last Broadcast nobody sleeps.                                 *)
IdleWorkersWoken == drain \in {"waiting", "drained", "timedout"} => \A p \in Pools : Asleep(p) = {}
=============================================================================
