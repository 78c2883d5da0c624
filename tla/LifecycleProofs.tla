-------------------------- MODULE LifecycleProofs --------------------------
(* Theorems about Lifecycle, for every set of jobs, requests and pools. *)
EXTENDS Lifecycle, BrokerProofs

(* What main and the servers do is, to the broker, a step or nothing. *)
LEMMA LifeStep == [LifeNext]_allVars => [Next]_vars
<1> SUFFICES ASSUME [LifeNext]_allVars PROVE [Next]_vars
  OBVIOUS
<1>1. CASE UNCHANGED allVars
  BY <1>1 DEF allVars
<1>2. CASE BrokerStep
  BY <1>2 DEF BrokerStep, Next
<1>3. ASSUME NEW j \in Jobs, NEW r \in Requests, Call(j, r) PROVE Next
  BY <1>3 DEF Call, Next
<1>4. ASSUME NEW j \in Jobs, Leave(j) \/ \E t \in Transports : Arrive(j, t)
      PROVE  UNCHANGED vars
  BY <1>4 DEF Leave, Arrive
<1>5. CASE StartFatal \/ BeginDrain
  BY <1>5 DEF StartFatal, BeginDrain, Next
<1>6. CASE \/ SignalArrives \/ GrpcUp \/ GatewayUp \/ ListenFails \/ Shutdown
           \/ ShutdownDone \/ ShutdownTimeout \/ GrpcStop \/ Exit
  BY <1>6 DEF SignalArrives, GrpcUp, GatewayUp, ListenFails, Shutdown, ShutdownDone,
     ShutdownTimeout, GrpcStop, Exit
<1> QED BY <1>1, <1>2, <1>3, <1>4, <1>5, <1>6 DEF LifeNext

(* The serve command runs the broker as module Broker describes it: main   *)
(* and the servers only choose when jobs come and when the drain begins,   *)
(* so every safety theorem about the broker holds in the whole process.    *)
THEOREM LifecycleRunsBroker == LifeSpec => Spec
<1>1. LifeInit => Init
  BY DEF LifeInit
<1> QED BY <1>1, LifeStep, PTL DEF LifeSpec, Spec

-----------------------------------------------------------------------------
(* Who can be late *)

(* The drain begins with the HTTP server closed, a closed server has no    *)
(* open request, and whoever is inside Submit has its connection open.     *)
QuietBeforeDrain ==
    /\ draining => gw = "closed"
    /\ gw = "closed" => Requesting = {}
    /\ \A j \in Jobs : jpc[j] \in Submitting => conn[j] = "open"
    /\ \A j \in Jobs : IF conn[j] = None THEN via[j] = None ELSE via[j] \in Transports

LifeInv == LifeTypeOK /\ QuietBeforeDrain /\ LateOnlyByStreams

(* A step of the broker alone does not begin the drain, does not take a    *)
(* new job into Submit, and makes a job late only by pushing it into a     *)
(* draining broker.                                                        *)
LEMMA BrokerStepEffect ==
    ASSUME TypeOK, BrokerStep
    PROVE  /\ draining' = draining
           /\ \A j \in Jobs : jpc'[j] \in Submitting => jpc[j] \in Submitting
           /\ \A j \in late' : j \in late \/ (j \in Jobs /\ jpc[j] \in Submitting /\ draining)
<1> USE DEF shutdownVars, queueVars
<1> DEFINE Effect ==
      /\ draining' = draining
      /\ \A j \in Jobs : jpc'[j] \in Submitting => jpc[j] \in Submitting
      /\ \A j \in late' : j \in late \/ (j \in Jobs /\ jpc[j] \in Submitting /\ draining)
<1>1. ASSUME NEW w \in Workers, StartWorker(w) \/ Pop(w) \/ Work(w) PROVE Effect
  <2>1. UNCHANGED <<draining, late>>
    BY <1>1 DEF StartWorker, Pop, Work, PopTake, PopExit, PopBlock, Park, WrongPayload, Begin,
       FinishTTS, FinishSTT, DropBeforeStart, DropDuringJob, CtxStop, AfterDrop, Redial,
       DialCancelled, Finish, PopFrame, WorkFrame
  <2>2. \A j \in Jobs : jpc'[j] = jpc[j] \/ jpc'[j] \in {"held", "closed"}
    <3>1. CASE PopTake(w)
      BY <3>1 DEF PopTake, TypeOK
    <3>2. ASSUME NEW out, Close(w, out) PROVE \A j \in Jobs : jpc'[j] = jpc[j] \/ jpc'[j] = "closed"
      BY <3>2 DEF Close, TypeOK
    <3>3. CASE WrongPayload(w) \/ \E out, pc : Finish(w, out, pc)
      BY <3>2, <3>3 DEF WrongPayload, Finish
    <3>4. CASE StartWorker(w) \/ PopExit(w) \/ PopBlock(w) \/ Park(w) \/ Begin(w)
               \/ AfterDrop(w) \/ Redial(w) \/ DialCancelled(w)
      BY <3>4 DEF StartWorker, PopExit, PopBlock, Park, Begin, AfterDrop, Redial, DialCancelled
    <3> QED BY <1>1, <3>1, <3>3, <3>4
            DEF Pop, Work, FinishTTS, FinishSTT, DropBeforeStart, DropDuringJob, CtxStop
  <2> QED BY <2>1, <2>2 DEF Submitting
<1>2. ASSUME NEW j \in Jobs, SubmitStep(j) PROVE Effect
  <2>1. draining' = draining /\ jpc[j] \in Submitting
    BY <1>2 DEF SubmitStep, Resolve, CheckBacklog, ScanStep, Scanned, Push, SubmitFrame, Submitting
  <2>2. \A k \in Jobs \ {j} : jpc'[k] = jpc[k]
    BY <1>2 DEF SubmitStep, Resolve, NoService, NamedPool, NoTag, NameMissing, LeastLoaded,
       CheckBacklog, ScanStep, Scanned, Push, TypeOK
  <2>3. late' = late \/ (late' = late \cup {j} /\ draining)
    BY <1>2 DEF SubmitStep, Resolve, CheckBacklog, ScanStep, Scanned, Push
  <2> QED BY <2>1, <2>2, <2>3
<1>3. CASE Started \/ DrainStep
  BY <1>3 DEF Started, DrainStep, DrainWake, DrainWait, DrainDone, DrainTimeout, Cancel, CtxWake,
     DrainFrame
<1> QED BY <1>1, <1>2, <1>3 DEF BrokerStep

(* Connections, handlers and main preserve LifeInv. *)
LEMMA LifeInvStep ==
    ASSUME TypeOK, LifeInv, [LifeNext]_allVars
    PROVE  LifeInv'
<1> USE DEF LifeInv
<1>1. ASSUME UNCHANGED <<draining, jpc, late>>,
             gw' = gw, UNCHANGED connVars, LifeTypeOK'
      PROVE  LifeInv'
  BY <1>1 DEF QuietBeforeDrain, LateOnlyByStreams, Requesting, connVars
<1>2. CASE UNCHANGED allVars
  BY <1>1, <1>2 DEF allVars, vars, lifeVars, mainVars, connVars, shutdownVars, queueVars, LifeTypeOK
<1>3. CASE BrokerStep
  <2>1. UNCHANGED lifeVars
    BY <1>3 DEF BrokerStep
  <2>2. LifeTypeOK'
    BY <2>1 DEF lifeVars, mainVars, connVars, LifeTypeOK
  <2>3. QuietBeforeDrain'
    BY <1>3, <2>1, BrokerStepEffect DEF QuietBeforeDrain, Requesting, lifeVars, mainVars, connVars
  <2>4. \A j \in Jobs : jpc[j] \in Submitting /\ draining => via[j] \in {"ws", "grpc"}
    BY DEF QuietBeforeDrain, Requesting, Transports, None
  <2>5. LateOnlyByStreams'
    BY <1>3, <2>1, <2>4, BrokerStepEffect DEF LateOnlyByStreams, lifeVars, connVars
  <2> QED BY <2>2, <2>3, <2>5
<1>4. ASSUME NEW j \in Jobs, NEW t \in Transports, Arrive(j, t) PROVE LifeInv'
  <2>1. UNCHANGED <<draining, jpc, late, gw>>
    BY <1>4 DEF Arrive, vars, shutdownVars, queueVars, mainVars
  <2>2. LifeTypeOK'
    BY <1>4 DEF Arrive, mainVars, LifeTypeOK
  <2>3. /\ via'[j] = t /\ conn'[j] = "open"
        /\ \A k \in Jobs \ {j} : via'[k] = via[k] /\ conn'[k] = conn[k]
    BY <1>4 DEF Arrive, LifeTypeOK
  <2>4. QuietBeforeDrain'
    <3>1. gw = "closed" => t = "grpc"
      BY <1>4 DEF Arrive
    <3>2. (gw = "closed" => Requesting = {})'
      BY <2>1, <2>3, <3>1 DEF QuietBeforeDrain, Requesting
    <3> QED BY <2>1, <2>3, <3>2 DEF QuietBeforeDrain, None
  <2>5. j \notin late
    BY <1>4 DEF Arrive, LateOnlyByStreams, QuietBeforeDrain, None
  <2> QED BY <1>4, <2>1, <2>2, <2>4, <2>5 DEF Arrive, LateOnlyByStreams, LifeTypeOK
<1>5. ASSUME NEW j \in Jobs, NEW r \in Requests, Call(j, r) PROVE LifeInv'
  <2>1. UNCHANGED <<lifeVars, draining, late>> /\ conn[j] = "open"
    BY <1>5 DEF Call, Admit, SubmitFrame, shutdownVars, queueVars
  <2>2. \A k \in Jobs \ {j} : jpc'[k] = jpc[k]
    BY <1>5 DEF Call, Admit, TypeOK
  <2> QED BY <2>1, <2>2 DEF LifeTypeOK, QuietBeforeDrain, LateOnlyByStreams, Requesting,
             lifeVars, mainVars, connVars
<1>6. ASSUME NEW j \in Jobs, Leave(j) PROVE LifeInv'
  <2>1. UNCHANGED <<draining, jpc, late, gw, via>>
    BY <1>6 DEF Leave, vars, shutdownVars, queueVars, mainVars
  <2>2. LifeTypeOK' /\ Requesting' \subseteq Requesting
    BY <1>6 DEF Leave, mainVars, LifeTypeOK, Requesting
  <2> QED BY <1>6, <2>1, <2>2 DEF Leave, QuietBeforeDrain, LateOnlyByStreams, LifeTypeOK, None
<1>7. CASE StartFatal
  BY <1>1, <1>7 DEF StartFatal, StartFails, shutdownVars, queueVars, LifeTypeOK, connVars
<1>8. CASE SignalArrives \/ GrpcUp \/ ListenFails \/ ShutdownTimeout \/ GrpcStop \/ Exit
  BY <1>1, <1>8 DEF SignalArrives, GrpcUp, ListenFails, ShutdownTimeout, GrpcStop, Exit, vars,
     shutdownVars, queueVars, mainVars, connVars, LifeTypeOK
<1>9. CASE GatewayUp \/ Shutdown \/ ShutdownDone
  BY <1>9 DEF GatewayUp, Shutdown, ShutdownDone, vars, shutdownVars, queueVars, connVars,
     LifeTypeOK, QuietBeforeDrain, LateOnlyByStreams, Requesting
<1>10. CASE BeginDrain
  BY <1>10 DEF BeginDrain, DrainBegin, DrainFrame, queueVars, lifeVars, mainVars, connVars,
     LifeTypeOK, QuietBeforeDrain, LateOnlyByStreams, Requesting
<1> QED BY <1>2, <1>3, <1>4, <1>5, <1>6, <1>7, <1>8, <1>9, <1>10 DEF LifeNext

(* A job that enters a draining broker, between Submit's test of the flag  *)
(* and its push, never belongs to an HTTP request: main begins the drain   *)
(* only after server.Shutdown has seen the last of them return.            *)
THEOREM OnlyStreamsAreLate == LifeSpec => []LateOnlyByStreams
<1>1. LifeInit => LifeInv
  <2> SUFFICES ASSUME LifeInit PROVE LifeInv
    OBVIOUS
  <2>1. LifeTypeOK /\ LateOnlyByStreams
    BY DEF LifeInit, Init, LifeTypeOK, LateOnlyByStreams
  <2>2. QuietBeforeDrain
    BY DEF LifeInit, Init, QuietBeforeDrain, Requesting, Submitting, None
  <2> QED BY <2>1, <2>2 DEF LifeInv
<1>2. LifeSpec => []TypeOK
  BY LifecycleRunsBroker, TypeCorrect, PTL
<1>3. LifeInv => LateOnlyByStreams
  BY DEF LifeInv
<1> QED BY <1>1, <1>2, <1>3, LifeInvStep, PTL DEF LifeSpec
=============================================================================
