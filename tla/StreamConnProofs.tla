-------------------------- MODULE StreamConnProofs --------------------------
(* Theorems about one streaming client, for every number of starts and of  *)
(* results, every set of pools and both transports.                        *)
EXTENDS StreamConn, DataLemmas, TLAPS

(* A job never has more Results waiting than were sent. *)
InboxBounded == \A k \in Starts : inbox[k] <= emitted[k]

TInv == TypeOK /\ InboxBounded

(* What one write does to the frames of the client. *)
LEMMA WriteOut ==
    ASSUME TypeOK, NEW type, NEW k, Frame(type, k) \in Frames, Write(type, k)
    PROVE  /\ out' \in Seq(Frames)
           /\ ~conn => out' = out
           /\ conn => /\ Len(out') = Len(out) + 1
                      /\ out'[Len(out) + 1] = Frame(type, k)
                      /\ \A n \in 1 .. Len(out) : out'[n] = out[n]
<1>1. out \in Seq(Frames) /\ Len(out) \in Nat
  BY DEF TypeOK
<1> DEFINE f == Frame(type, k)
<1>2. f \in Frames /\ out' = IF conn THEN out \o <<f>> ELSE out
  BY DEF Write, Writes
<1> HIDE DEF f
<1>3. CASE ~conn BY <1>1, <1>2, <1>3
<1>4. CASE conn
  <2>1. out' = out \o <<f>>
    BY <1>2, <1>4
  <2>2. <<f>> \in Seq(Frames) /\ Len(<<f>>) = 1 /\ <<f>>[1] = f
    BY <1>2
  <2>3. out' \in Seq(Frames) /\ Len(out') = Len(out) + 1
    BY <1>1, <2>1, <2>2
  <2>4. out'[Len(out) + 1] = f /\ \A n \in 1 .. Len(out) : out'[n] = out[n]
    BY <1>1, <2>1, <2>2
  <2> QED BY <1>4, <2>3, <2>4 DEF f
<1> QED BY <1>3, <1>4

(* The frames of the goroutines and of the handler are frames. *)
LEMMA FrameType ==
    ASSUME NEW type \in {"connected", "warning", "ready", "result", "error", "done"},
           NEW k \in 0 .. MaxStarts
    PROVE  Frame(type, k) \in Frames
BY DEF Frame, Frames

(* An empty write writes nothing. *)
LEMMA NoWrite ==
    ASSUME TypeOK, Writes(<<>>)
    PROVE  out' = out
BY DEF TypeOK, Writes

(* What a start message changes before Submit answers. *)
LEMMA PrepareType ==
    ASSUME TypeOK, NEW svc \in Services \cup {"unknown"}, NEW wanted \in BOOLEAN, Prepare(svc, wanted)
    PROVE  /\ starts' = starts + 1 /\ starts' \in Starts /\ starts < starts'
           /\ session' \in BOOLEAN /\ registered' \in BOOLEAN /\ eager' \in BOOLEAN
           /\ hb' \in {"none", "running", "failed"}
           /\ service' \in [Starts -> Services \cup {"unknown", None}]
           /\ inSession' \subseteq 1 .. starts' /\ audio' \in 0 .. starts'
<1>1. starts \in Nat /\ MaxStarts \in Nat /\ starts < MaxStarts
  BY StreamAssumption DEF TypeOK, Prepare, AcceptsStart
<1>2. starts' = starts + 1 /\ starts' \in Starts /\ starts < starts' /\ 1 .. starts \subseteq 1 .. starts'
  BY <1>1 DEF Prepare, Starts
<1>3. session' \in BOOLEAN /\ registered' \in BOOLEAN /\ hb' \in {"none", "running", "failed"}
  BY DEF Prepare, OpenSession, TypeOK
<1>4. eager' \in BOOLEAN
  BY DEF Prepare, AcceptsStart, AllDone
<1>5. service' \in [Starts -> Services \cup {"unknown", None}]
  BY <1>2 DEF Prepare, TypeOK
<1>6. inSession' \subseteq 1 .. starts'
  BY <1>1, <1>2 DEF Prepare, TypeOK
<1>7. audio' \in 0 .. starts'
  BY <1>1, <1>2 DEF Prepare, TypeOK
<1> QED BY <1>2, <1>3, <1>4, <1>5, <1>6, <1>7

(* The type invariant holds at first. *)
LEMMA InitType == Init => TInv
<1> SUFFICES ASSUME Init PROVE TInv
  OBVIOUS
<1>1. MaxStarts \in Nat /\ MaxResults \in Nat
  BY StreamAssumption
<1>2. [type |-> "connected", of |-> 0] \in Frames
  BY <1>1 DEF Frames
<1>3. out \in Seq(Frames)
  BY <1>2 DEF Init
<1>4. transport \in {"ws", "grpc"}
  BY StreamAssumption DEF Init
<1>5. InboxBounded
  BY <1>1 DEF Init, InboxBounded
<1>6. /\ starts \in 0 .. MaxStarts /\ audio \in 0 .. starts
      /\ service \in [Starts -> Services \cup {"unknown", None}]
      /\ pool \in [Starts -> Pools \cup {None}]
      /\ jobs \in [Starts -> {"none", "queued", "ready", "closed"}]
      /\ inbox \in [Starts -> 0 .. MaxResults]
      /\ emitted \in [Starts -> 0 .. MaxResults]
      /\ rpc \in [Starts -> {"none", "wait", "end"}]
      /\ gpc \in [Starts -> {"none", "range", "stored", "done", "end"}]
  BY <1>1 DEF Init
<1> QED BY <1>3, <1>4, <1>5, <1>6 DEF Init, TypeOK, TInv

(* The handler preserves the type invariant. *)
LEMMA HandlerType ==
    ASSUME TInv, Receive \/ StoreActive \/ HandlerEnds \/ HalfClosed
    PROVE  TInv'
<1>0. TypeOK /\ starts \in Nat /\ MaxStarts \in Nat /\ audio \in 0 .. starts
  BY StreamAssumption DEF TInv, TypeOK
<1>1. ASSUME NEW wanted \in BOOLEAN, NEW svc \in Services, Start(svc, wanted) PROVE TInv'
  <2>1. /\ starts' = starts + 1 /\ starts' \in Starts /\ starts < starts'
        /\ session' \in BOOLEAN /\ registered' \in BOOLEAN /\ eager' \in BOOLEAN
        /\ hb' \in {"none", "running", "failed"}
        /\ service' \in [Starts -> Services \cup {"unknown", None}]
        /\ inSession' \subseteq 1 .. starts' /\ audio' \in 0 .. starts'
    BY <1>0, <1>1, PrepareType DEF Start
  <2>2. pool' \in [Starts -> Pools \cup {None}]
    BY <1>1, <1>0 DEF Start, TypeOK
  <2>3. sticky' \in Pools \cup {None}
    BY <1>0, <1>1, <2>1, <2>2 DEF Start, Stick, TypeOK
  <2>4. /\ jobs' \in [Starts -> {"none", "queued", "ready", "closed"}]
        /\ rpc' \in [Starts -> {"none", "wait", "end"}]
        /\ gpc' \in [Starts -> {"none", "range", "stored", "done", "end"}]
    BY <1>0, <1>1 DEF Start, TypeOK
  <2>5. out' \in Seq(Frames)
    <3>1. Frame("warning", starts') \in Frames
      BY <1>0, <2>1, FrameType DEF Starts
    <3>2. CASE Writes(<<>>) BY <1>0, <3>2, NoWrite DEF TypeOK
    <3>3. CASE Write("warning", starts') BY <1>0, <3>1, <3>3, WriteOut
    <3> QED BY <1>1, <3>2, <3>3 DEF Start
  <2>6. starts' \in 0 .. MaxStarts /\ shut' \subseteq 1 .. starts'
    BY <1>0, <1>1, <2>1 DEF Start, Starts, TypeOK
  <2> QED BY <1>0, <1>1, <2>1, <2>2, <2>3, <2>4, <2>5, <2>6
          DEF Start, connVars, TInv, TypeOK, InboxBounded
<1>2. ASSUME NEW wanted \in BOOLEAN, NEW svc \in Services \cup {"unknown"}, StartRejected(svc, wanted)
      PROVE  TInv'
  <2>1. /\ starts' = starts + 1 /\ starts' \in Starts /\ starts < starts'
        /\ session' \in BOOLEAN /\ registered' \in BOOLEAN /\ eager' \in BOOLEAN
        /\ hb' \in {"none", "running", "failed"}
        /\ service' \in [Starts -> Services \cup {"unknown", None}]
        /\ inSession' \subseteq 1 .. starts' /\ audio' \in 0 .. starts'
    BY <1>0, <1>2, PrepareType DEF StartRejected
  <2>2. out' \in Seq(Frames)
    <3>1. Frame("error", starts') \in Frames
      BY <1>0, <2>1, FrameType DEF Starts
    <3> QED BY <1>0, <1>2, <3>1, WriteOut DEF StartRejected
  <2>3. starts' \in 0 .. MaxStarts /\ shut' \subseteq 1 .. starts'
    BY <1>0, <1>2, <2>1 DEF StartRejected, Starts, TypeOK
  <2>4. hpc' \in {"read", "store", "ended", "panicked"} /\ conn' \in BOOLEAN /\ ctxDone' \in BOOLEAN
    BY <1>0, <1>2 DEF StartRejected, TypeOK
  <2> QED BY <1>0, <1>2, <2>1, <2>2, <2>3, <2>4
          DEF StartRejected, jobVars, TInv, TypeOK, InboxBounded
<1>3. CASE StartBadText
  <2>1. Frame("error", 0) \in Frames
    BY <1>0, FrameType
  <2>2. out' \in Seq(Frames)
    BY <1>0, <1>3, <2>1, WriteOut DEF StartBadText
  <2>3. /\ session' \in BOOLEAN /\ registered' \in BOOLEAN /\ hb' \in {"none", "running", "failed"}
        /\ eager' \in BOOLEAN
    BY <1>0, <1>3 DEF StartBadText, OpenSession, TypeOK, AcceptsStart, AllDone
  <2> QED BY <1>0, <1>3, <2>2, <2>3
          DEF StartBadText, jobVars, connVars, TInv, TypeOK, InboxBounded
<1>4. CASE Stop \/ AudioAfterStop \/ StoreActive
  <2>1. shut' \subseteq 1 .. starts
    BY <1>0, <1>4 DEF Stop, AudioAfterStop, StoreActive, CloseAudio, TypeOK
  <2> QED BY <1>0, <1>4, <2>1
          DEF Stop, AudioAfterStop, StoreActive, jobVars, connVars, heartVars, TInv, TypeOK, InboxBounded
<1>5. CASE HandlerEnds \/ HalfClosed
  <2>1. Return /\ CloseAudio
    BY <1>5 DEF HandlerEnds, HalfClosed
  <2>2. shut' \subseteq 1 .. starts
    BY <1>0, <2>1 DEF CloseAudio, TypeOK
  <2> QED BY <1>0, <2>1, <2>2 DEF Return, jobVars, heartVars, TInv, TypeOK, InboxBounded
<1> QED BY <1>1, <1>2, <1>3, <1>4, <1>5 DEF Receive

(* So do the goroutines of a job, the heartbeat, the client and the broker. *)
LEMMA OthersType ==
    ASSUME TInv,
           \/ Pong \/ PingFails \/ ClientLeaves \/ ClientHangs
           \/ \E k \in Starts : Ready(k) \/ Results(k) \/ Job(k)
    PROVE  TInv'
<1>0. TypeOK /\ starts \in Nat /\ MaxStarts \in Nat /\ MaxResults \in Nat /\ Starts = 1 .. MaxStarts
  BY StreamAssumption DEF TInv, TypeOK, Starts
<1> USE DEF handlerVars, jobVars, connVars, heartVars
<1>1. CASE Pong \/ PingFails
  BY <1>0, <1>1 DEF Pong, PingFails, HeartFrame, TInv, TypeOK, InboxBounded
<1>2. CASE ClientLeaves \/ ClientHangs
  BY <1>0, <1>2 DEF ClientLeaves, ClientHangs, WorldFrame, TInv, TypeOK, InboxBounded
<1>3. ASSUME NEW k \in Starts, Ready(k) PROVE TInv'
  <2>1. Frame("ready", k) \in Frames
    BY <1>0, FrameType
  <2>2. out' \in Seq(Frames)
    BY <1>0, <1>3, <2>1, WriteOut DEF Ready, SendReady, ReadyCancelled, TypeOK
  <2>3. rpc' \in [Starts -> {"none", "wait", "end"}]
    BY <1>0, <1>3 DEF Ready, SendReady, ReadyCancelled, TypeOK
  <2> QED BY <1>0, <1>3, <2>2, <2>3
          DEF Ready, SendReady, ReadyCancelled, ReadyFrame, TInv, TypeOK, InboxBounded
<1>4. ASSUME NEW k \in Starts, Results(k) PROVE TInv'
  <2>1. Frame("result", k) \in Frames /\ Frame("done", k) \in Frames
    BY <1>0, FrameType
  <2>2. out' \in Seq(Frames)
    BY <1>0, <1>4, <2>1, WriteOut
       DEF Results, Forward, StoreInactive, SendDone, CloseShortLived, TypeOK
  <2>3. inbox' \in [Starts -> 0 .. MaxResults] /\ InboxBounded'
    <3>1. inbox \in [Starts -> 0 .. MaxResults] /\ emitted \in [Starts -> 0 .. MaxResults]
      BY <1>0 DEF TypeOK
    <3>2. CASE Forward(k)
      <4>1. UNCHANGED emitted /\ inbox[k] > 0 /\ inbox' = [inbox EXCEPT ![k] = inbox[k] - 1]
        BY <3>2 DEF Forward, ForwardFrame
      <4>2. inbox[k] - 1 \in 0 .. MaxResults
        BY <1>0, <3>1, <4>1
      <4>3. \A i \in Starts : inbox'[i] <= inbox[i] /\ inbox'[i] \in Nat /\ inbox[i] \in Nat
                             /\ emitted[i] \in Nat
        BY <1>0, <3>1, <4>1
      <4> QED BY <3>1, <4>1, <4>2, <4>3 DEF TInv, InboxBounded
    <3>3. CASE ~Forward(k)
      BY <1>4, <3>1, <3>3 DEF Results, StoreInactive, SendDone, CloseShortLived, ForwardFrame, TInv,
         InboxBounded
    <3> QED BY <3>2, <3>3
  <2>4. gpc' \in [Starts -> {"none", "range", "stored", "done", "end"}] /\ jobActive' \in BOOLEAN
        /\ conn' \in BOOLEAN
    BY <1>0, <1>4 DEF Results, Forward, StoreInactive, SendDone, CloseShortLived, TypeOK
  <2> QED BY <1>0, <1>4, <2>2, <2>3, <2>4
          DEF Results, Forward, StoreInactive, SendDone, CloseShortLived, ForwardFrame, TInv, TypeOK
<1>5. ASSUME NEW k \in Starts, Job(k) PROVE TInv'
  <2>1. jobs' \in [Starts -> {"none", "queued", "ready", "closed"}]
    BY <1>0, <1>5 DEF Job, JobReady, JobResult, JobCloses, TypeOK
  <2>2. /\ inbox' \in [Starts -> 0 .. MaxResults] /\ emitted' \in [Starts -> 0 .. MaxResults]
        /\ InboxBounded'
    <3>1. CASE JobResult(k)
      <4>1. inbox \in [Starts -> 0 .. MaxResults] /\ emitted \in [Starts -> 0 .. MaxResults]
        BY <1>0 DEF TypeOK
      <4>2. \A i \in Starts : inbox[i] \in Nat /\ emitted[i] \in Nat /\ inbox[i] <= emitted[i]
        BY <4>1 DEF TInv, InboxBounded
      <4>3. /\ emitted[k] < MaxResults
            /\ inbox' = [inbox EXCEPT ![k] = inbox[k] + 1]
            /\ emitted' = [emitted EXCEPT ![k] = emitted[k] + 1]
        BY <3>1 DEF JobResult
      <4>4. inbox[k] + 1 \in 0 .. MaxResults /\ emitted[k] + 1 \in 0 .. MaxResults
        BY <1>0, <4>2, <4>3
      <4>5. \A i \in Starts : inbox'[i] <= emitted'[i]
        BY <4>1, <4>2, <4>3
      <4> QED BY <4>1, <4>3, <4>4, <4>5 DEF InboxBounded
    <3>2. CASE JobReady(k) \/ JobCloses(k)
      BY <1>0, <3>2 DEF JobReady, JobCloses, TypeOK, TInv, InboxBounded
    <3> QED BY <1>5, <3>1, <3>2 DEF Job
  <2> QED BY <1>0, <1>5, <2>1, <2>2
          DEF Job, JobReady, JobResult, JobCloses, WorldFrame, TInv, TypeOK
<1> QED BY <1>1, <1>2, <1>3, <1>4, <1>5

(* The type invariant is inductive together with InboxBounded. *)
LEMMA TypeStep == TInv /\ [Next]_vars => TInv'
<1> SUFFICES ASSUME TInv, [Next]_vars PROVE TInv'
  OBVIOUS
<1>1. CASE UNCHANGED vars
  BY <1>1 DEF vars, handlerVars, jobVars, connVars, heartVars, TInv, TypeOK, InboxBounded
<1>2. CASE Next
  BY <1>2, HandlerType, OthersType DEF Next
<1> QED BY <1>1, <1>2

(* Every state of a streaming client is well typed; in particular a job's  *)
(* audio channel and its place in the session are those of a start that    *)
(* was made, and ResultCh never holds more than the job sent.              *)
THEOREM ConnTypeCorrect == Spec => []TypeOK
<1>1. TInv => TypeOK
  BY DEF TInv
<1> QED BY <1>1, InitType, TypeStep, PTL DEF Spec

-----------------------------------------------------------------------------
(* One job at a time *)

(* Where a start and its goroutine may be. *)
Life(k) ==
    /\ k > starts => gpc[k] = "none" /\ jobs[k] = "none" /\ pool[k] = None
    /\ Open(k) => gpc[k] = "range"
    /\ gpc[k] \in {"stored", "done", "end"} => jobs[k] = "closed" /\ inbox[k] = 0
    /\ gpc[k] # "none" => pool[k] # None

(* jobActive is false in a reading handler only when no goroutine ranges   *)
(* over a ResultCh: whoever clears it was the only one.                    *)
ActiveGuards ==
    /\ \A j, k \in Starts : gpc[j] = "range" /\ gpc[k] = "range" => j = k
    /\ hpc = "read" /\ ~jobActive => \A k \in Starts : gpc[k] # "range"

LifeInv == ActiveGuards /\ \A k \in Starts : Life(k)

(* The audio channel of an open STT job is closed, or the handler still    *)
(* has it and will close it.                                               *)
AudioHeld ==
    \A k \in Starts : Open(k) /\ service[k] = "stt" =>
        k \in shut \/ (hpc \in {"read", "store"} /\ audio = k)

(* Before the affinity is set, no job of the session was accepted. *)
StickyInv == StickyIsFirst /\ (sticky = None => \A j \in inSession : pool[j] = None)

(* Results of k that were written. *)
Told(k) == {n \in 1 .. Len(out) : out[n] = Frame("result", k)}

(* While the connection is up, what was sent is written or waits. *)
ToldInv ==
    \A k \in Starts :
        /\ conn => Cardinality(Told(k)) + inbox[k] = emitted[k]
        /\ Wrote("done", k) => gpc[k] \in {"done", "end"} /\ Cardinality(Told(k)) = emitted[k]

(* The frames are numbered by starts that were made, in order. *)
InOrder == (\A n \in 1 .. Len(out) : out[n].of <= starts) /\ FramesOfOneJob

(* No goroutine but that of the last start writes results or done. *)
LastSpeaks == ~eager => \A k \in Starts : gpc[k] \in {"range", "stored"} => k = starts

ConnInv == TInv /\ LifeInv /\ AudioHeld /\ StickyInv /\ ToldInv /\ InOrder /\ LastSpeaks

(* The first state has no job. *)
LEMMA InitConn == Init => ConnInv
<1> SUFFICES ASSUME Init PROVE ConnInv
  OBVIOUS
<1>0. TInv /\ TypeOK
  BY InitType DEF TInv
<1>1. LifeInv /\ AudioHeld /\ StickyInv
  BY <1>0 DEF Init, LifeInv, ActiveGuards, Life, Open, AudioHeld, StickyInv, StickyIsFirst
<1>2. Len(out) = 1 /\ out[1] = [type |-> "connected", of |-> 0]
  BY DEF Init
<1>3. \A k : Told(k) = {} /\ ~Wrote("done", k)
  BY <1>2 DEF Told, Wrote, Contains, Frame
<1>4. ToldInv
  <2>1. Cardinality({}) = 0
    BY FS_EmptySet
  <2> QED BY <1>3, <2>1 DEF Init, ToldInv
<1>5. InOrder /\ LastSpeaks
  BY <1>2 DEF Init, InOrder, LastSpeaks, FramesOfOneJob
<1> QED BY <1>0, <1>1, <1>4, <1>5 DEF ConnInv

(* A step that leaves jobs and goroutines alone, and does not let a start in. *)
LEMMA LifeSame ==
    ASSUME LifeInv, UNCHANGED <<starts, gpc, jobs, pool, inbox>>, UNCHANGED jobActive \/ jobActive',
           hpc' = "read" => hpc = "read" \/ jobActive'
    PROVE  LifeInv'
BY DEF LifeInv, ActiveGuards, Life, Open

(* jobActive, set by the handler and cleared by a goroutine, keeps two     *)
(* jobs of a connection apart.                                             *)
LEMMA LifeStep ==
    ASSUME TInv, LifeInv, [Next]_vars
    PROVE  LifeInv'
<1> USE DEF handlerVars, jobVars, connVars, heartVars
<1>0. /\ TypeOK /\ starts \in Nat /\ MaxStarts \in Nat /\ Starts = 1 .. MaxStarts
      /\ gpc \in [Starts -> {"none", "range", "stored", "done", "end"}]
      /\ jobs \in [Starts -> {"none", "queued", "ready", "closed"}]
      /\ pool \in [Starts -> Pools \cup {None}] /\ inbox \in [Starts -> 0 .. MaxResults]
  BY StreamAssumption DEF TInv, TypeOK, Starts
<1>1. ASSUME NEW wanted \in BOOLEAN, NEW svc \in Services, Start(svc, wanted) PROVE LifeInv'
  <2>1. starts' = starts + 1 /\ starts' \in Starts
    BY <1>0, <1>1, PrepareType DEF Start
  <2>2. PICK p \in Pools : pool' = [pool EXCEPT ![starts'] = p]
    BY <1>1 DEF Start
  <2>3. /\ jobs' = [jobs EXCEPT ![starts'] = "queued"] /\ gpc' = [gpc EXCEPT ![starts'] = "range"]
        /\ hpc = "read" /\ ~jobActive /\ hpc' = "store" /\ UNCHANGED inbox
    BY <1>1 DEF Start, Prepare, AcceptsStart, ClientSpeaks
  <2>4. \A k \in Starts : gpc[k] # "range"
    BY <2>3 DEF LifeInv, ActiveGuards
  <2>5. ASSUME NEW k \in Starts PROVE Life(k)'
    <3>1. CASE k = starts'
      <4>1. jobs'[k] = "queued" /\ gpc'[k] = "range" /\ pool'[k] = p
        BY <1>0, <2>1, <2>2, <2>3, <3>1
      <4> QED BY <1>0, <2>1, <3>1, <4>1, NoneAssumption DEF Life, Open
    <3>2. CASE k # starts'
      <4>1. jobs'[k] = jobs[k] /\ gpc'[k] = gpc[k] /\ pool'[k] = pool[k] /\ inbox'[k] = inbox[k]
        BY <1>0, <2>1, <2>2, <2>3, <3>2
      <4>2. k > starts' => k > starts
        BY <1>0, <2>1
      <4> QED BY <4>1, <4>2 DEF LifeInv, Life, Open
    <3> QED BY <3>1, <3>2
  <2>6. ActiveGuards'
    BY <1>0, <2>1, <2>3, <2>4 DEF ActiveGuards
  <2> QED BY <2>5, <2>6 DEF LifeInv
<1>2. ASSUME NEW wanted \in BOOLEAN, NEW svc \in Services \cup {"unknown"}, StartRejected(svc, wanted)
      PROVE  LifeInv'
  <2>1. starts' = starts + 1 /\ starts' \in Starts
    BY <1>0, <1>2, PrepareType DEF StartRejected
  <2>2. UNCHANGED <<gpc, jobs, pool, inbox, jobActive>> /\ hpc' \in {hpc, "ended"}
    BY <1>2 DEF StartRejected
  <2>3. \A k \in Starts : k > starts' => k > starts
    BY <1>0, <2>1
  <2> QED BY <2>2, <2>3 DEF LifeInv, ActiveGuards, Life, Open
<1>3. CASE StartBadText \/ Stop \/ AudioAfterStop \/ StoreActive
  BY <1>3, LifeSame DEF StartBadText, Stop, AudioAfterStop, StoreActive
<1>4. CASE HandlerEnds \/ HalfClosed
  <2>1. Return
    BY <1>4 DEF HandlerEnds, HalfClosed
  <2> QED BY <2>1, LifeSame DEF Return
<1>5. CASE Pong \/ PingFails \/ ClientLeaves \/ ClientHangs \/ UNCHANGED vars
  BY <1>5, LifeSame DEF Pong, PingFails, ClientLeaves, ClientHangs, HeartFrame, WorldFrame, vars
<1>6. ASSUME NEW k \in Starts, Ready(k) PROVE LifeInv'
  BY <1>6, LifeSame DEF Ready, SendReady, ReadyCancelled, ReadyFrame
<1>7. ASSUME NEW k \in Starts, Results(k) PROVE LifeInv'
  <2>1. UNCHANGED <<hpc, starts, pool, jobs>>
    BY <1>7 DEF Results, Forward, StoreInactive, SendDone, CloseShortLived, ForwardFrame
  <2>2. CASE Forward(k)
    <3>1. gpc[k] = "range" /\ UNCHANGED <<gpc, jobActive>> /\ \A i \in Starts \ {k} : inbox'[i] = inbox[i]
      BY <1>0, <2>2 DEF Forward
    <3> QED BY <2>1, <3>1 DEF LifeInv, ActiveGuards, Life, Open
  <2>3. CASE StoreInactive(k)
    <3>1. /\ gpc[k] = "range" /\ inbox[k] = 0 /\ jobs[k] = "closed"
          /\ gpc' = [gpc EXCEPT ![k] = "stored"] /\ UNCHANGED inbox
      BY <2>3 DEF StoreInactive
    <3>2. gpc'[k] = "stored" /\ \A i \in Starts \ {k} : gpc'[i] = gpc[i] /\ gpc'[i] # "range"
      BY <1>0, <3>1 DEF LifeInv, ActiveGuards
    <3> QED BY <2>1, <3>1, <3>2 DEF LifeInv, ActiveGuards, Life, Open
  <2>4. CASE SendDone(k) \/ CloseShortLived(k)
    <3>1. /\ gpc[k] \in {"stored", "done"} /\ gpc'[k] \in {"done", "end"}
          /\ UNCHANGED <<inbox, jobActive>> /\ \A i \in Starts \ {k} : gpc'[i] = gpc[i]
      BY <1>0, <2>4 DEF SendDone, CloseShortLived
    <3> QED BY <2>1, <3>1 DEF LifeInv, ActiveGuards, Life, Open
  <2> QED BY <1>7, <2>2, <2>3, <2>4 DEF Results
<1>8. ASSUME NEW k \in Starts, Job(k) PROVE LifeInv'
  <2>1. UNCHANGED <<hpc, starts, pool, gpc, jobActive>>
    BY <1>8 DEF Job, JobReady, JobResult, JobCloses, WorldFrame
  <2>2. /\ jobs[k] \in {"queued", "ready"} /\ jobs'[k] \in {"queued", "ready", "closed"}
        /\ \A i \in Starts \ {k} : jobs'[i] = jobs[i] /\ inbox'[i] = inbox[i]
    BY <1>0, <1>8 DEF Job, JobReady, JobResult, JobCloses, Open
  <2> QED BY <2>1, <2>2 DEF LifeInv, ActiveGuards, Life, Open
<1> QED BY <1>1, <1>2, <1>3, <1>4, <1>5, <1>6, <1>7, <1>8 DEF Next, Receive

(* A connection never has two jobs with the broker, although the flag that *)
(* keeps them apart is set and cleared by different goroutines, for any    *)
(* number of starts.                                                       *)
THEOREM OneJobAtATime == Spec => []OneOpenJob
<1>1. Init => LifeInv
  BY InitConn DEF ConnInv
<1>2. Init => TInv
  BY InitType
<1>3. LifeInv => OneOpenJob
  BY DEF LifeInv, ActiveGuards, Life, OneOpenJob
<1> QED BY <1>1, <1>2, <1>3, LifeStep, TypeStep, PTL DEF Spec

-----------------------------------------------------------------------------
(* The audio channel and the affinity *)

(* Whatever ends the handler closes the channel of the job that is open. *)
LEMMA AudioStep ==
    ASSUME TInv, LifeInv, AudioHeld, [Next]_vars
    PROVE  AudioHeld'
<1> USE DEF handlerVars, jobVars, connVars, heartVars
<1>0. /\ TypeOK /\ starts \in Nat /\ Starts = 1 .. MaxStarts /\ audio \in Nat
      /\ jobs \in [Starts -> {"none", "queued", "ready", "closed"}]
      /\ service \in [Starts -> Services \cup {"unknown", None}] /\ shut \subseteq 1 .. starts
  BY StreamAssumption DEF TInv, TypeOK, Starts
<1>1. hpc = "read" /\ ~jobActive => \A k \in Starts : ~Open(k)
  BY DEF LifeInv, ActiveGuards, Life
<1>2. ASSUME NEW wanted \in BOOLEAN, NEW svc \in Services, Start(svc, wanted) PROVE AudioHeld'
  <2>1. starts' \in Starts
    BY <1>0, <1>2, PrepareType DEF Start
  <2>2. \A k \in Starts : ~Open(k)
    BY <1>1, <1>2 DEF Start, Prepare, AcceptsStart, ClientSpeaks
  <2>3. /\ jobs' = [jobs EXCEPT ![starts'] = "queued"] /\ hpc' = "store"
        /\ service' = [service EXCEPT ![starts'] = svc]
        /\ svc = "stt" => audio' = starts'
    BY <1>2 DEF Start, Prepare
  <2>4. \A k \in Starts : Open(k)' => k = starts'
    BY <1>0, <2>2, <2>3 DEF Open
  <2>5. service'[starts'] = svc
    BY <1>0, <2>1, <2>3
  <2> QED BY <2>3, <2>4, <2>5 DEF AudioHeld
<1>3. ASSUME NEW wanted \in BOOLEAN, NEW svc \in Services \cup {"unknown"}, StartRejected(svc, wanted)
      PROVE  AudioHeld'
  <2>1. \A k \in Starts : ~Open(k)
    BY <1>1, <1>3 DEF StartRejected, Prepare, AcceptsStart, ClientSpeaks
  <2>2. UNCHANGED jobs
    BY <1>3 DEF StartRejected
  <2> QED BY <2>1, <2>2 DEF AudioHeld, Open
<1>4. CASE StartBadText \/ Stop \/ StoreActive
  <2>1. UNCHANGED <<jobs, service, audio>> /\ shut \subseteq shut'
    BY <1>4 DEF StartBadText, Stop, StoreActive, CloseAudio
  <2>2. hpc \in {"read", "store"} => hpc' \in {"read", "store"}
    BY <1>4 DEF StartBadText, Stop, StoreActive
  <2> QED BY <2>1, <2>2 DEF AudioHeld, Open
<1>5. CASE AudioAfterStop
  BY <1>5 DEF AudioAfterStop, AudioHeld, Open
<1>6. CASE HandlerEnds \/ HalfClosed
  <2>1. Return /\ CloseAudio
    BY <1>6 DEF HandlerEnds, HalfClosed
  <2>2. UNCHANGED <<jobs, service>> /\ shut' = IF audio = 0 THEN shut ELSE shut \cup {audio}
    BY <2>1 DEF Return, CloseAudio
  <2>3. \A k \in Starts : k # 0
    BY <1>0
  <2> QED BY <2>2, <2>3 DEF AudioHeld, Open
<1>7. CASE Pong \/ PingFails \/ ClientLeaves \/ ClientHangs \/ UNCHANGED vars
  BY <1>7 DEF Pong, PingFails, ClientLeaves, ClientHangs, HeartFrame, WorldFrame, vars, AudioHeld, Open
<1>8. ASSUME NEW k \in Starts, Ready(k) \/ Results(k) PROVE AudioHeld'
  <2>1. UNCHANGED <<jobs, service, audio, shut, hpc>>
    BY <1>8 DEF Ready, SendReady, ReadyCancelled, ReadyFrame, Results, Forward, StoreInactive,
       SendDone, CloseShortLived, ForwardFrame
  <2> QED BY <2>1 DEF AudioHeld, Open
<1>9. ASSUME NEW k \in Starts, Job(k) PROVE AudioHeld'
  <2>1. UNCHANGED <<service, audio, shut, hpc>>
    BY <1>9 DEF Job, JobReady, JobResult, JobCloses, WorldFrame
  <2>2. \A i \in Starts : Open(i)' => Open(i)
    BY <1>0, <1>9 DEF Job, JobReady, JobResult, JobCloses, Open
  <2> QED BY <2>1, <2>2 DEF AudioHeld
<1> QED BY <1>2, <1>3, <1>4, <1>5, <1>6, <1>7, <1>8, <1>9 DEF Next, Receive

(* However the handler ends (the client leaves, falls silent, half-closes, *)
(* is refused, or a send on a closed channel panics), no job that still    *)
(* runs is left with an open audio channel.                                *)
THEOREM AudioAlwaysClosed == Spec => []AudioClosedOnExit
<1>1. Init => TInv /\ LifeInv /\ AudioHeld
  BY InitConn DEF ConnInv
<1>2. AudioHeld => AudioClosedOnExit
  BY DEF AudioHeld, AudioClosedOnExit
<1> QED BY <1>1, <1>2, AudioStep, LifeStep, TypeStep, PTL DEF Spec

(* Only an accepted start of a session moves the affinity. *)
LEMMA StickyStep ==
    ASSUME TInv, LifeInv, StickyInv, [Next]_vars
    PROVE  StickyInv'
<1> USE DEF handlerVars, jobVars, connVars, heartVars
<1>0. /\ TypeOK /\ starts \in Nat /\ Starts = 1 .. MaxStarts /\ inSession \subseteq 1 .. starts
      /\ pool \in [Starts -> Pools \cup {None}]
      /\ \A k \in Starts : k > starts => pool[k] = None
  BY StreamAssumption DEF TInv, TypeOK, Starts, LifeInv, Life
<1>1. ASSUME NEW wanted \in BOOLEAN, NEW svc \in Services, Start(svc, wanted) PROVE StickyInv'
  <2>1. starts' = starts + 1 /\ starts' \in Starts
    BY <1>0, <1>1, PrepareType DEF Start
  <2>2. PICK p \in Pools : pool' = [pool EXCEPT ![starts'] = p]
    BY <1>1 DEF Start
  <2>3. /\ inSession' = IF session' THEN inSession \cup {starts'} ELSE inSession
        /\ sticky' = IF session' /\ sticky = None THEN pool'[starts'] ELSE sticky
    BY <1>1 DEF Start, Prepare, Stick
  <2>4. /\ pool'[starts'] = p /\ p # None
        /\ \A j \in inSession : pool'[j] = pool[j] /\ j < starts'
    BY <1>0, <2>1, <2>2, NoneAssumption
  <2>5. CASE session' /\ sticky = None
    <3>1. \A j \in inSession' : j < starts' => pool'[j] = None
      BY <1>0, <2>1, <2>3, <2>4, <2>5 DEF StickyInv
    <3>2. starts' \in inSession' /\ pool'[starts'] = sticky' /\ sticky' # None
      BY <2>3, <2>4, <2>5
    <3> QED BY <3>1, <3>2 DEF StickyInv, StickyIsFirst
  <2>6. CASE session' /\ sticky # None
    <3>1. PICK k \in inSession : pool[k] = sticky /\ \A j \in inSession : j < k => pool[j] = None
      BY <2>6 DEF StickyInv, StickyIsFirst
    <3>2. k \in inSession' /\ pool'[k] = sticky' /\ sticky' = sticky
      BY <2>3, <2>4, <2>6, <3>1
    <3>3. \A j \in inSession' : j < k => pool'[j] = None
      BY <1>0, <2>1, <2>3, <2>4, <2>6, <3>1
    <3> QED BY <2>6, <3>2, <3>3 DEF StickyInv, StickyIsFirst
  <2>7. CASE ~session'
    BY <2>3, <2>4, <2>7 DEF StickyInv, StickyIsFirst
  <2> QED BY <2>5, <2>6, <2>7
<1>2. ASSUME NEW wanted \in BOOLEAN, NEW svc \in Services \cup {"unknown"}, StartRejected(svc, wanted)
      PROVE  StickyInv'
  <2>1. starts' = starts + 1 /\ starts' \in Starts
    BY <1>0, <1>2, PrepareType DEF StartRejected
  <2>2. /\ inSession' = IF session' THEN inSession \cup {starts'} ELSE inSession
        /\ UNCHANGED <<sticky, pool>>
    BY <1>2 DEF StartRejected, Prepare
  <2>3. pool[starts'] = None /\ \A j \in inSession : j < starts'
    BY <1>0, <2>1
  <2>4. \A j \in inSession' : j \in inSession \/ pool[j] = None
    BY <2>2, <2>3
  <2>5. inSession \subseteq inSession'
    BY <2>2
  <2> QED BY <2>2, <2>4, <2>5 DEF StickyInv, StickyIsFirst
<1>3. ASSUME UNCHANGED <<sticky, pool, inSession>> PROVE StickyInv'
  BY <1>3 DEF StickyInv, StickyIsFirst
<1>4. CASE StartBadText \/ Stop \/ AudioAfterStop \/ StoreActive
  BY <1>3, <1>4 DEF StartBadText, Stop, AudioAfterStop, StoreActive
<1>5. CASE HandlerEnds \/ HalfClosed
  <2>1. Return
    BY <1>5 DEF HandlerEnds, HalfClosed
  <2> QED BY <1>3, <2>1 DEF Return
<1>6. CASE Pong \/ PingFails \/ ClientLeaves \/ ClientHangs \/ UNCHANGED vars
  BY <1>3, <1>6 DEF Pong, PingFails, ClientLeaves, ClientHangs, HeartFrame, WorldFrame, vars
<1>7. ASSUME NEW k \in Starts, Ready(k) \/ Results(k) \/ Job(k) PROVE StickyInv'
  BY <1>3, <1>7 DEF Ready, SendReady, ReadyCancelled, ReadyFrame, Results, Forward, StoreInactive,
     SendDone, CloseShortLived, ForwardFrame, Job, JobReady, JobResult, JobCloses, WorldFrame
<1> QED BY <1>1, <1>2, <1>4, <1>5, <1>6, <1>7 DEF Next, Receive

(* The affinity of a session is the pool of its first accepted job and     *)
(* stays that, for any number of jobs and refusals.                        *)
THEOREM AffinityIsFirst == Spec => []StickyIsFirst
<1>1. Init => TInv /\ LifeInv /\ StickyInv
  BY InitConn DEF ConnInv
<1>2. StickyInv => StickyIsFirst
  BY DEF StickyInv
<1> QED BY <1>1, <1>2, StickyStep, LifeStep, TypeStep, PTL DEF Spec

-----------------------------------------------------------------------------
(* What the client reads *)

(* What one write adds to the results and the ends that were told. *)
LEMMA WriteTold ==
    ASSUME TypeOK, NEW type, NEW k, Frame(type, k) \in Frames, Write(type, k), NEW i
    PROVE  /\ Cardinality(Told(i)) \in Nat
           /\ conn /\ type = "result" /\ i = k => Cardinality(Told(i)') = Cardinality(Told(i)) + 1
           /\ ~(conn /\ type = "result" /\ i = k) => Told(i)' = Told(i)
           /\ Wrote("done", i)' <=> Wrote("done", i) \/ (conn /\ type = "done" /\ i = k)
<1>1. Len(out) \in Nat
  BY DEF TypeOK
<1>2. /\ ~conn => out' = out
      /\ conn => /\ Len(out') = Len(out) + 1
                 /\ out'[Len(out) + 1] = Frame(type, k)
                 /\ \A n \in 1 .. Len(out) : out'[n] = out[n]
  BY WriteOut
<1>3. /\ Frame(type, k) = Frame("result", i) <=> type = "result" /\ i = k
      /\ Frame(type, k) = Frame("done", i) <=> type = "done" /\ i = k
  BY DEF Frame
<1>4. Cardinality(Told(i)) \in Nat
  <2>1. IsFiniteSet(1 .. Len(out)) /\ Told(i) \in SUBSET (1 .. Len(out))
    BY <1>1, FS_Interval DEF Told
  <2> QED BY <2>1, FS_Subset, FS_CardinalityType
<1>5. CASE ~conn
  BY <1>2, <1>4, <1>5 DEF Told, Wrote, Contains, Frame
<1>6. CASE conn
  <2> DEFINE A == Told(i)
             B == Told(i)'
             x == Len(out) + 1
  <2>1. /\ IsFiniteSet(A) /\ x \notin A /\ (x \in B <=> Frame(type, k) = Frame("result", i))
        /\ \A y : y # x => (y \in A <=> y \in B)
    <3>1. IsFiniteSet(1 .. Len(out)) /\ A \in SUBSET (1 .. Len(out))
      BY <1>1, FS_Interval DEF Told
    <3>2. IsFiniteSet(A)
      BY <3>1, FS_Subset
    <3>3. x \notin A /\ (x \in B <=> Frame(type, k) = Frame("result", i))
      BY <1>1, <1>2, <1>6 DEF Told, Frame
    <3>4. \A y : y # x => (y \in A <=> y \in B)
      BY <1>1, <1>2, <1>6 DEF Told, Frame
    <3> QED BY <3>2, <3>3, <3>4
  <2>2. /\ Frame(type, k) = Frame("result", i) => Cardinality(B) = Cardinality(A) + 1
        /\ Frame(type, k) # Frame("result", i) => B = A
    <3> HIDE DEF A, B, x
    <3> QED BY <2>1, CountOne
  <2>3. Wrote("done", i)' <=> Wrote("done", i) \/ Frame(type, k) = Frame("done", i)
    <3>1. Wrote("done", i)' => Wrote("done", i) \/ Frame(type, k) = Frame("done", i)
      BY <1>1, <1>2, <1>6 DEF Wrote, Contains, Frame
    <3>2. Wrote("done", i) => Wrote("done", i)'
      BY <1>1, <1>2, <1>6 DEF Wrote, Contains, Frame
    <3>3. ASSUME Frame(type, k) = Frame("done", i) PROVE Wrote("done", i)'
      <4>1. Len(out) + 1 \in 1 .. Len(out') /\ out'[Len(out) + 1] = Frame("done", i)
        BY <1>1, <1>2, <1>6, <3>3
      <4>2. \E n \in 1 .. Len(out') : out'[n] = Frame("done", i)
        BY <4>1
      <4> QED BY <4>2 DEF Wrote, Contains, Frame
    <3> QED BY <3>1, <3>2, <3>3
  <2>4. /\ type = "result" /\ i = k => Cardinality(Told(i)') = Cardinality(Told(i)) + 1
        /\ ~(type = "result" /\ i = k) => Told(i)' = Told(i)
    BY <1>3, <2>2
  <2> QED BY <1>3, <1>4, <1>6, <2>3, <2>4
<1> QED BY <1>5, <1>6

(* A step that tells no result and no end of a job. *)
LEMMA ToldKept ==
    ASSUME ToldInv, UNCHANGED <<inbox, emitted>>, conn' => conn,
           \A i \in Starts : Told(i)' = Told(i) /\ (Wrote("done", i)' => Wrote("done", i)),
           \A i \in Starts : gpc[i] \in {"done", "end"} => gpc'[i] \in {"done", "end"}
    PROVE  ToldInv'
BY DEF ToldInv

(* A write of neither a result nor an end. *)
LEMMA OtherWrite ==
    ASSUME TypeOK, NEW type \in {"warning", "ready", "error"}, NEW k \in 0 .. MaxStarts,
           Writes(<<>>) \/ Write(type, k)
    PROVE  \A i \in Starts : Told(i)' = Told(i) /\ (Wrote("done", i)' => Wrote("done", i))
<1>1. Frame(type, k) \in Frames
  BY FrameType
<1>2. CASE Writes(<<>>)
  BY <1>2, NoWrite DEF Told, Wrote, Contains, Frame
<1>3. CASE Write(type, k)
  BY <1>1, <1>3, WriteTold
<1> QED BY <1>2, <1>3

(* No step loses a Result between ResultCh and the client, or writes done  *)
(* before the last of them.                                                *)
LEMMA ToldStep ==
    ASSUME TInv, LifeInv, ToldInv, [Next]_vars
    PROVE  ToldInv'
<1> USE DEF handlerVars, jobVars, connVars, heartVars
<1>0. /\ TypeOK /\ starts \in Nat /\ MaxStarts \in Nat /\ Starts = 1 .. MaxStarts
      /\ gpc \in [Starts -> {"none", "range", "stored", "done", "end"}]
      /\ inbox \in [Starts -> 0 .. MaxResults] /\ emitted \in [Starts -> 0 .. MaxResults]
      /\ MaxResults \in Nat
  BY StreamAssumption DEF TInv, TypeOK, Starts
<1>1. ASSUME NEW wanted \in BOOLEAN, NEW svc \in Services, Start(svc, wanted) PROVE ToldInv'
  <2>1. starts' = starts + 1 /\ starts' \in Starts
    BY <1>0, <1>1, PrepareType DEF Start
  <2>2. \A i \in Starts : Told(i)' = Told(i) /\ (Wrote("done", i)' => Wrote("done", i))
    BY <1>0, <1>1, <2>1, OtherWrite DEF Start
  <2>3. UNCHANGED <<inbox, emitted, conn>> /\ gpc' = [gpc EXCEPT ![starts'] = "range"]
    BY <1>1 DEF Start
  <2>4. gpc[starts'] = "none"
    BY <1>0, <2>1 DEF LifeInv, Life
  <2>5. \A i \in Starts : gpc[i] \in {"done", "end"} => gpc'[i] \in {"done", "end"}
    BY <1>0, <2>3, <2>4
  <2> QED BY <2>2, <2>3, <2>5, ToldKept
<1>2. ASSUME NEW wanted \in BOOLEAN, NEW svc \in Services \cup {"unknown"}, StartRejected(svc, wanted)
      PROVE  ToldInv'
  <2>1. starts' \in Starts
    BY <1>0, <1>2, PrepareType DEF StartRejected
  <2>2. \A i \in Starts : Told(i)' = Told(i) /\ (Wrote("done", i)' => Wrote("done", i))
    BY <1>0, <1>2, <2>1, OtherWrite DEF StartRejected
  <2>3. UNCHANGED <<inbox, emitted, gpc>> /\ (conn' => conn)
    BY <1>2 DEF StartRejected
  <2> QED BY <2>2, <2>3, ToldKept
<1>3. CASE StartBadText
  <2>1. \A i \in Starts : Told(i)' = Told(i) /\ (Wrote("done", i)' => Wrote("done", i))
    BY <1>0, <1>3, OtherWrite DEF StartBadText
  <2> QED BY <1>3, <2>1, ToldKept DEF StartBadText
<1>4. ASSUME UNCHANGED out
      PROVE  \A i \in Starts : Told(i)' = Told(i) /\ (Wrote("done", i)' => Wrote("done", i))
  BY <1>4 DEF Told, Wrote, Contains, Frame
<1>5. CASE Stop \/ AudioAfterStop \/ StoreActive
  BY <1>4, <1>5, ToldKept DEF Stop, AudioAfterStop, StoreActive
<1>6. CASE HandlerEnds \/ HalfClosed
  <2>1. Return
    BY <1>6 DEF HandlerEnds, HalfClosed
  <2> QED BY <1>4, <2>1, ToldKept DEF Return
<1>7. CASE Pong \/ PingFails \/ ClientLeaves \/ ClientHangs \/ UNCHANGED vars
  BY <1>4, <1>7, ToldKept DEF Pong, PingFails, ClientLeaves, ClientHangs, HeartFrame, WorldFrame, vars
<1>8. ASSUME NEW k \in Starts, Ready(k) PROVE ToldInv'
  <2>1. UNCHANGED <<inbox, emitted, conn, gpc>>
    BY <1>8 DEF Ready, SendReady, ReadyCancelled, ReadyFrame
  <2>2. CASE SendReady(k)
    <3>1. \A i \in Starts : Told(i)' = Told(i) /\ (Wrote("done", i)' => Wrote("done", i))
      BY <1>0, <2>2, OtherWrite DEF SendReady
    <3> QED BY <2>1, <3>1, ToldKept
  <2>3. CASE ReadyCancelled(k)
    BY <1>4, <2>1, <2>3, ToldKept DEF ReadyCancelled
  <2> QED BY <1>8, <2>2, <2>3 DEF Ready
<1>9. ASSUME NEW k \in Starts, Forward(k) PROVE ToldInv'
  <2>1. /\ gpc[k] = "range" /\ inbox[k] > 0 /\ inbox' = [inbox EXCEPT ![k] = @ - 1]
        /\ UNCHANGED <<emitted, gpc, conn>> /\ Write("result", k)
    BY <1>9 DEF Forward, ForwardFrame
  <2>2. Frame("result", k) \in Frames
    BY <1>0, FrameType
  <2>3. ASSUME NEW i \in Starts
        PROVE  /\ Cardinality(Told(i)) \in Nat
               /\ conn /\ i = k => Cardinality(Told(i)') = Cardinality(Told(i)) + 1
               /\ ~(conn /\ i = k) => Told(i)' = Told(i)
               /\ Wrote("done", i)' <=> Wrote("done", i)
    BY <1>0, <2>1, <2>2, WriteTold
  <2>4. ASSUME NEW i \in Starts, conn' PROVE Cardinality(Told(i)') + inbox'[i] = emitted'[i]
    <3>1. Cardinality(Told(i)) + inbox[i] = emitted[i]
      BY <2>1, <2>4 DEF ToldInv
    <3>2. inbox'[i] = (IF i = k THEN inbox[i] - 1 ELSE inbox[i]) /\ inbox[i] \in Nat
      BY <1>0, <2>1
    <3>3. Cardinality(Told(i)') = (IF i = k THEN Cardinality(Told(i)) + 1 ELSE Cardinality(Told(i)))
      BY <2>1, <2>3, <2>4
    <3> QED BY <2>1, <2>3, <3>1, <3>2, <3>3
  <2>5. ASSUME NEW i \in Starts, Wrote("done", i)'
        PROVE  gpc'[i] \in {"done", "end"} /\ Cardinality(Told(i)') = emitted'[i]
    <3>1. Wrote("done", i) /\ i # k
      BY <2>1, <2>3, <2>5 DEF ToldInv
    <3> QED BY <2>1, <2>3, <3>1 DEF ToldInv
  <2> QED BY <2>4, <2>5 DEF ToldInv
<1>10. ASSUME NEW k \in Starts, StoreInactive(k) PROVE ToldInv'
  <2>1. /\ gpc[k] = "range" /\ gpc' = [gpc EXCEPT ![k] = "stored"]
        /\ UNCHANGED <<inbox, emitted, conn, out>>
    BY <1>10 DEF StoreInactive, ForwardFrame
  <2>2. \A i \in Starts : gpc[i] \in {"done", "end"} => gpc'[i] \in {"done", "end"}
    BY <1>0, <2>1
  <2> QED BY <1>4, <2>1, <2>2, ToldKept
<1>11. ASSUME NEW k \in Starts, SendDone(k) PROVE ToldInv'
  <2>1. /\ gpc[k] = "stored" /\ gpc'[k] \in {"done", "end"} /\ \A i \in Starts \ {k} : gpc'[i] = gpc[i]
        /\ UNCHANGED <<inbox, emitted, conn>> /\ Write("done", k)
    BY <1>0, <1>11 DEF SendDone, ForwardFrame
  <2>2. Frame("done", k) \in Frames /\ inbox[k] = 0
    BY <1>0, <2>1, FrameType DEF LifeInv, Life
  <2>3. ASSUME NEW i \in Starts
        PROVE  /\ Cardinality(Told(i)) \in Nat /\ Told(i)' = Told(i)
               /\ Wrote("done", i)' <=> Wrote("done", i) \/ (conn /\ i = k)
    BY <1>0, <2>1, <2>2, WriteTold
  <2>4. ASSUME NEW i \in Starts PROVE conn' => Cardinality(Told(i)') + inbox'[i] = emitted'[i]
    BY <2>1, <2>3 DEF ToldInv
  <2>5. ASSUME NEW i \in Starts, Wrote("done", i)'
        PROVE  gpc'[i] \in {"done", "end"} /\ Cardinality(Told(i)') = emitted'[i]
    <3>1. CASE Wrote("done", i)
      BY <2>1, <2>3, <3>1 DEF ToldInv
    <3>2. CASE conn /\ i = k
      <4>1. Cardinality(Told(k)) + 0 = emitted[k]
        BY <2>2, <3>2 DEF ToldInv
      <4> QED BY <2>1, <2>3, <3>2, <4>1
    <3> QED BY <2>3, <2>5, <3>1, <3>2
  <2> QED BY <2>4, <2>5 DEF ToldInv
<1>12. ASSUME NEW k \in Starts, CloseShortLived(k) PROVE ToldInv'
  <2>1. /\ gpc[k] = "done" /\ gpc' = [gpc EXCEPT ![k] = "end"]
        /\ UNCHANGED <<inbox, emitted, out>> /\ ~conn'
    BY <1>12 DEF CloseShortLived, ForwardFrame
  <2>2. \A i \in Starts : gpc[i] \in {"done", "end"} => gpc'[i] \in {"done", "end"}
    BY <1>0, <2>1
  <2> QED BY <1>4, <2>1, <2>2, ToldKept
<1>13. ASSUME NEW k \in Starts, Job(k) PROVE ToldInv'
  <2>1. UNCHANGED <<out, gpc, conn>>
    BY <1>13 DEF Job, JobReady, JobResult, JobCloses, WorldFrame
  <2>2. CASE JobReady(k) \/ JobCloses(k)
    BY <1>4, <2>1, <2>2, ToldKept DEF JobReady, JobCloses
  <2>3. CASE JobResult(k)
    <3>1. /\ gpc[k] = "range" /\ inbox' = [inbox EXCEPT ![k] = @ + 1]
          /\ emitted' = [emitted EXCEPT ![k] = @ + 1]
      BY <2>3 DEF JobResult, LifeInv, Life
    <3>2. \A i \in Starts : /\ Told(i)' = Told(i) /\ Cardinality(Told(i)) \in Nat
                            /\ Wrote("done", i)' => Wrote("done", i)
      <4>1. Len(out) \in Nat
        BY <1>0 DEF TypeOK
      <4>2. \A i \in Starts : IsFiniteSet(1 .. Len(out)) /\ Told(i) \in SUBSET (1 .. Len(out))
        BY <4>1, FS_Interval DEF Told
      <4>3. \A i \in Starts : Cardinality(Told(i)) \in Nat
        BY <4>2, FS_Subset, FS_CardinalityType
      <4> QED BY <1>4, <2>1, <4>3
    <3>3. ASSUME NEW i \in Starts PROVE conn' => Cardinality(Told(i)') + inbox'[i] = emitted'[i]
      BY <1>0, <2>1, <3>1, <3>2 DEF ToldInv
    <3>4. ASSUME NEW i \in Starts, Wrote("done", i)'
          PROVE  gpc'[i] \in {"done", "end"} /\ Cardinality(Told(i)') = emitted'[i]
      BY <1>0, <2>1, <3>1, <3>2, <3>4 DEF ToldInv
    <3> QED BY <3>3, <3>4 DEF ToldInv
  <2> QED BY <1>13, <2>2, <2>3 DEF Job
<1> QED BY <1>1, <1>2, <1>3, <1>5, <1>6, <1>7, <1>8, <1>9, <1>10, <1>11, <1>12, <1>13
        DEF Next, Receive, Results

(* done is written after every Result of the job, however the goroutines,  *)
(* the client and the broker interleave and for any number of Results.     *)
THEOREM DoneComesLast == Spec => []DoneIsComplete
<1>1. Init => TInv /\ LifeInv /\ ToldInv
  BY InitConn DEF ConnInv
<1>2. ToldInv => DoneIsComplete
  BY DEF ToldInv, DoneIsComplete, Told
<1> QED BY <1>1, <1>2, ToldStep, LifeStep, TypeStep, PTL DEF Spec

-----------------------------------------------------------------------------
(* Which job a frame is of *)

(* A frame of a start that is not an earlier one keeps the order. *)
LEMMA WriteOrder ==
    ASSUME TypeOK, InOrder, NEW type, NEW k, Frame(type, k) \in Frames, Write(type, k),
           starts' \in Nat, starts <= starts', k <= starts', eager => eager',
           ~eager' /\ type # "ready" /\ k # 0 => starts <= k
    PROVE  InOrder'
<1>0. starts \in Nat /\ MaxStarts \in Nat /\ k \in Nat /\ Len(out) \in Nat
      /\ \A n \in 1 .. Len(out) : out[n].of \in Nat
  <2>1. starts \in Nat /\ MaxStarts \in Nat /\ k \in Nat /\ out \in Seq(Frames)
    BY StreamAssumption DEF TypeOK, Frame, Frames
  <2>2. \A n \in 1 .. Len(out) : out[n] \in Frames
    BY <2>1
  <2> QED BY <2>1, <2>2 DEF Frames
<1>1. /\ ~conn => out' = out
      /\ conn => /\ Len(out') = Len(out) + 1
                 /\ out'[Len(out) + 1] = Frame(type, k)
                 /\ \A n \in 1 .. Len(out) : out'[n] = out[n]
  BY WriteOut
<1>2. CASE ~conn
  BY <1>0, <1>1, <1>2 DEF InOrder, FramesOfOneJob
<1>3. CASE conn
  <2> DEFINE l == Len(out) + 1
  <2>1. /\ Len(out') = l /\ l \in Nat /\ out'[l].of = k /\ out'[l].type = type
        /\ \A n \in 1 .. l : n # l => n \in 1 .. Len(out) /\ out'[n] = out[n]
        /\ \A n \in 1 .. Len(out) : n < l
    BY <1>0, <1>1, <1>3 DEF Frame
  <2> HIDE DEF l
  <2>2. \A n \in 1 .. Len(out') : out'[n].of <= starts'
    BY <1>0, <2>1 DEF InOrder
  <2>3. ASSUME ~eager', NEW m \in 1 .. l, NEW n \in 1 .. l, m < n, out'[n].type # "ready", out'[n].of # 0
        PROVE  out'[m].of <= out'[n].of
    <3>1. m # l /\ m \in 1 .. Len(out) /\ out'[m] = out[m]
      <4>1. m # l
        BY <2>1, <2>3
      <4> QED BY <2>1, <4>1
    <3>2. CASE n = l
      <4>1. starts <= k /\ out[m].of <= starts /\ out[m].of \in Nat
        BY <1>0, <2>1, <2>3, <3>1, <3>2 DEF InOrder
      <4> QED BY <1>0, <2>1, <3>1, <3>2, <4>1
    <3>3. CASE n # l
      <4>1. n \in 1 .. Len(out) /\ out'[n] = out[n]
        BY <2>1, <3>3
      <4> QED BY <2>3, <3>1, <4>1 DEF InOrder, FramesOfOneJob
    <3> QED BY <3>2, <3>3
  <2> QED BY <2>1, <2>2, <2>3 DEF InOrder, FramesOfOneJob
<1> QED BY <1>2, <1>3

(* A client that waits for done before a start leaves nothing to say to    *)
(* the goroutines of its earlier jobs.                                     *)
LEMMA PatientStart ==
    ASSUME TInv, LifeInv, ToldInv, AcceptsStart
    PROVE  /\ eager => eager'
           /\ ~eager' => \A k \in Starts : gpc[k] \notin {"range", "stored"}
<1>1. eager' = (eager \/ ~AllDone)
  BY DEF AcceptsStart
<1>2. eager \in BOOLEAN /\ starts \in Nat /\ MaxStarts \in Nat
  BY StreamAssumption DEF TInv, TypeOK
<1>3. ASSUME AllDone, NEW k \in Starts, gpc[k] # "none" PROVE gpc[k] \in {"done", "end"}
  <2>1. k \in 1 .. starts /\ pool[k] # None
    BY <1>2, <1>3 DEF LifeInv, Life, Starts
  <2> QED BY <1>3, <2>1 DEF AllDone, ToldInv
<1>4. eager => eager'
  BY <1>1, <1>2
<1>5. ~eager' => AllDone
  BY <1>1, <1>2
<1> QED BY <1>3, <1>4, <1>5

(* Frames of a patient client stay in the order of its starts. *)
LEMMA OrderStep ==
    ASSUME TInv, LifeInv, ToldInv, InOrder, LastSpeaks, [Next]_vars
    PROVE  InOrder' /\ LastSpeaks'
<1> USE DEF handlerVars, jobVars, connVars, heartVars
<1>0. /\ TypeOK /\ starts \in Nat /\ MaxStarts \in Nat /\ Starts = 1 .. MaxStarts
      /\ gpc \in [Starts -> {"none", "range", "stored", "done", "end"}] /\ eager \in BOOLEAN
  BY StreamAssumption DEF TInv, TypeOK, Starts
<1>1. ASSUME NEW wanted \in BOOLEAN, NEW svc \in Services, Start(svc, wanted)
      PROVE  InOrder' /\ LastSpeaks'
  <2>1. starts' = starts + 1 /\ starts' \in Starts /\ AcceptsStart
    BY <1>0, <1>1, PrepareType DEF Start, Prepare
  <2>2. /\ eager => eager'
        /\ ~eager' => \A k \in Starts : gpc[k] \notin {"range", "stored"}
    BY <2>1, PatientStart
  <2>3. gpc' = [gpc EXCEPT ![starts'] = "range"]
    BY <1>1 DEF Start
  <2>4. LastSpeaks'
    BY <1>0, <2>1, <2>2, <2>3 DEF LastSpeaks
  <2>5. CASE Writes(<<>>)
    <3>1. out' = out
      BY <1>0, <2>5, NoWrite
    <3>2. \A n \in 1 .. Len(out) : out[n].of <= starts'
      <4>1. \A n \in 1 .. Len(out) : out[n] \in Frames
        BY <1>0 DEF TypeOK
      <4>2. \A n \in 1 .. Len(out) : out[n].of \in Nat /\ out[n].of <= starts
        BY <1>0, <4>1 DEF Frames, InOrder
      <4> QED BY <1>0, <2>1, <4>2
    <3> QED BY <2>2, <2>4, <3>1, <3>2 DEF InOrder, FramesOfOneJob
  <2>6. CASE Write("warning", starts')
    <3>1. Frame("warning", starts') \in Frames
      BY <1>0, <2>1, FrameType
    <3> QED BY <1>0, <2>1, <2>2, <2>4, <2>6, <3>1, WriteOrder
  <2> QED BY <1>1, <2>5, <2>6 DEF Start
<1>2. ASSUME NEW wanted \in BOOLEAN, NEW svc \in Services \cup {"unknown"}, StartRejected(svc, wanted)
      PROVE  InOrder' /\ LastSpeaks'
  <2>1. starts' = starts + 1 /\ starts' \in Starts /\ AcceptsStart
    BY <1>0, <1>2, PrepareType DEF StartRejected, Prepare
  <2>2. /\ eager => eager'
        /\ ~eager' => \A k \in Starts : gpc[k] \notin {"range", "stored"}
    BY <2>1, PatientStart
  <2>3. UNCHANGED gpc /\ Write("error", starts')
    BY <1>2 DEF StartRejected
  <2>4. Frame("error", starts') \in Frames
    BY <1>0, <2>1, FrameType
  <2>5. InOrder'
    BY <1>0, <2>1, <2>2, <2>3, <2>4, WriteOrder
  <2> QED BY <2>2, <2>3, <2>5 DEF LastSpeaks
<1>3. CASE StartBadText
  <2>1. AcceptsStart /\ UNCHANGED <<gpc, starts>> /\ Write("error", 0)
    BY <1>3 DEF StartBadText
  <2>2. Frame("error", 0) \in Frames /\ (eager => eager')
    BY <1>0, <2>1, FrameType, PatientStart
  <2>3. InOrder'
    BY <1>0, <2>1, <2>2, WriteOrder
  <2> QED BY <2>1, <2>2, <2>3 DEF LastSpeaks
<1>4. ASSUME UNCHANGED <<starts, eager, out>> PROVE InOrder'
  BY <1>4 DEF InOrder, FramesOfOneJob
<1>5. ASSUME UNCHANGED <<starts, eager, gpc>> PROVE LastSpeaks'
  BY <1>5 DEF LastSpeaks
<1>6. CASE Stop \/ AudioAfterStop \/ StoreActive
  BY <1>4, <1>5, <1>6 DEF Stop, AudioAfterStop, StoreActive
<1>7. CASE HandlerEnds \/ HalfClosed
  <2>1. Return
    BY <1>7 DEF HandlerEnds, HalfClosed
  <2> QED BY <1>4, <1>5, <2>1 DEF Return
<1>8. CASE Pong \/ PingFails \/ ClientLeaves \/ ClientHangs \/ UNCHANGED vars
  BY <1>4, <1>5, <1>8 DEF Pong, PingFails, ClientLeaves, ClientHangs, HeartFrame, WorldFrame, vars
<1>9. ASSUME NEW k \in Starts, Ready(k) PROVE InOrder' /\ LastSpeaks'
  <2>1. UNCHANGED <<starts, eager, gpc>>
    BY <1>9 DEF Ready, SendReady, ReadyCancelled, ReadyFrame
  <2>2. CASE SendReady(k)
    <3>1. Write("ready", k) /\ rpc[k] = "wait" /\ jobs[k] = "ready"
      BY <2>2 DEF SendReady
    <3>2. k <= starts /\ Frame("ready", k) \in Frames
      BY <1>0, <3>1, FrameType DEF LifeInv, Life
    <3> QED BY <1>0, <1>5, <2>1, <3>1, <3>2, WriteOrder
  <2>3. CASE ReadyCancelled(k)
    BY <1>4, <1>5, <2>1, <2>3 DEF ReadyCancelled
  <2> QED BY <1>9, <2>2, <2>3 DEF Ready
<1>10. ASSUME NEW k \in Starts, Results(k) PROVE InOrder' /\ LastSpeaks'
  <2>1. /\ UNCHANGED <<starts, eager>>
        /\ \A i \in Starts : gpc'[i] \in {"range", "stored"} => gpc[i] \in {"range", "stored"}
    BY <1>0, <1>10 DEF Results, Forward, StoreInactive, SendDone, CloseShortLived, ForwardFrame
  <2>2. LastSpeaks'
    BY <2>1 DEF LastSpeaks
  <2>3. ASSUME NEW type \in {"result", "done"}, gpc[k] \in {"range", "stored"}, Write(type, k)
        PROVE  InOrder'
    <3>1. k <= starts /\ Frame(type, k) \in Frames
      BY <1>0, <2>3, FrameType DEF LifeInv, Life
    <3>2. ~eager' => starts <= k
      BY <1>0, <2>1, <2>3 DEF LastSpeaks
    <3> QED BY <1>0, <2>1, <2>3, <3>1, <3>2, WriteOrder
  <2>4. CASE Forward(k)
    BY <2>2, <2>3, <2>4 DEF Forward
  <2>5. CASE SendDone(k)
    BY <2>2, <2>3, <2>5 DEF SendDone
  <2>6. CASE StoreInactive(k) \/ CloseShortLived(k)
    BY <1>4, <2>1, <2>2, <2>6 DEF StoreInactive, CloseShortLived
  <2> QED BY <1>10, <2>4, <2>5, <2>6 DEF Results
<1>11. ASSUME NEW k \in Starts, Job(k) PROVE InOrder' /\ LastSpeaks'
  BY <1>4, <1>5, <1>11 DEF Job, JobReady, JobResult, JobCloses, WorldFrame
<1> QED BY <1>1, <1>2, <1>3, <1>6, <1>7, <1>8, <1>9, <1>10, <1>11 DEF Next, Receive

(* A client that starts a job only after the done of the one before can    *)
(* tell every frame but ready by the order alone.                          *)
THEOREM FramesAreTold == Spec => []FramesOfOneJob
<1>1. Init => TInv /\ LifeInv /\ ToldInv /\ InOrder /\ LastSpeaks
  BY InitConn DEF ConnInv
<1>2. InOrder => FramesOfOneJob
  BY DEF InOrder
<1> QED BY <1>1, <1>2, OrderStep, ToldStep, LifeStep, TypeStep, PTL DEF Spec
=============================================================================
