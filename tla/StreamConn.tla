----------------------------- MODULE StreamConn -----------------------------
(***************************************************************************)
(* One streaming client of the gateway: handleWS of internal/gateway, or   *)
(* Stream of internal/grpcgateway, which mirrors it. The handler reads the *)
(* client's messages one by one; for each accepted start it leaves behind  *)
(* a goroutine that waits for ReadyCh and one that forwards the results,   *)
(* and a WebSocket session has a heartbeat. The broker's side of a job is  *)
(* its ReadyCh and its ResultCh, used the way module JobContract says.     *)
(***************************************************************************)
EXTENDS Naturals, Sequences, SequencesExt

CONSTANTS Transports,    \* "ws", "grpc" or both
          MaxStarts,     \* bound: start messages that reach Submit
          MaxResults,    \* bound: results of a job
          Services,      \* services the client asks for; pools serve all of them
          Pools          \* pools Submit may choose

ASSUME StreamAssumption ==
    /\ Transports \subseteq {"ws", "grpc"}
    /\ MaxStarts \in Nat /\ MaxResults \in Nat
    /\ Services \subseteq {"stt", "tts"}

None == "none"

ASSUME NoneAssumption == None \notin Pools

Starts == 1 .. MaxStarts

(* "result" stands for the result, audio and upstream error frames alike,  *)
(* "error" for a start that was refused.                                   *)
Frames == [type : {"connected", "warning", "ready", "result", "error", "done"}, of : 0 .. MaxStarts]

VARIABLES
    transport,  \* how the client is connected
    hpc,        \* the handler: "read", "store", "ended", "panicked"
    conn,       \* the connection is open
    hung,       \* the client is silent: it sends nothing and answers no ping
    ctxDone,    \* connCtx (stream.Context()) is done
    jobActive,
    starts,     \* start messages handed to Submit so far
    service,    \* their services
    session,    \* sess # nil
    registered, \* the session is in the registry
    sticky,     \* sess.stickyPool
    pool,       \* the pool Submit returned; None for a rejected start
    inSession,  \* history: the start was made with sess # nil
    audio,      \* the start whose channel curAudioCh is and closeAudio closes; 0 = nil
    shut,       \* starts whose audioCh is closed
    jobs,       \* the broker's side: "none", "queued", "ready", "closed"
    inbox,      \* how many Results wait in ResultCh
    emitted,    \* history: how many results were sent on ResultCh
    rpc,        \* the goroutine that waits for ReadyCh
    gpc,        \* the goroutine that forwards the results
    hb,         \* the heartbeat: "none", "running", "failed"
    deadline,   \* a read deadline is set
    eager,      \* history: the client has started a job without waiting for done
    out         \* frames written to the client

handlerVars == <<hpc, jobActive, starts, service, session, registered, sticky, pool, inSession,
                 audio, shut, eager>>
jobVars == <<jobs, inbox, emitted>>
connVars == <<transport, conn, hung, ctxDone>>
heartVars == <<hb, deadline>>
vars == <<handlerVars, jobVars, connVars, heartVars, rpc, gpc, out>>

TypeOK ==
    /\ hpc \in {"read", "store", "ended", "panicked"}
    /\ transport \in {"ws", "grpc"}
    /\ {conn, hung, ctxDone, jobActive, session, registered, deadline, eager} \subseteq BOOLEAN
    /\ starts \in 0 .. MaxStarts /\ audio \in 0 .. starts
    /\ service \in [Starts -> Services \cup {"unknown", None}]
    /\ sticky \in Pools \cup {None} /\ pool \in [Starts -> Pools \cup {None}]
    /\ inSession \subseteq 1 .. starts /\ shut \subseteq 1 .. starts
    /\ jobs \in [Starts -> {"none", "queued", "ready", "closed"}]
    /\ inbox \in [Starts -> 0 .. MaxResults]
    /\ emitted \in [Starts -> 0 .. MaxResults]
    /\ rpc \in [Starts -> {"none", "wait", "end"}]
    /\ gpc \in [Starts -> {"none", "range", "stored", "done", "end"}]
    /\ hb \in {"none", "running", "failed"}
    /\ out \in Seq(Frames)

Init ==
    /\ transport \in Transports
    /\ hpc = "read" /\ conn = TRUE /\ hung = FALSE /\ ctxDone = FALSE
    /\ jobActive = FALSE /\ starts = 0 /\ service = [k \in Starts |-> None]
    /\ session = FALSE /\ registered = FALSE /\ sticky = None
    /\ pool = [k \in Starts |-> None] /\ inSession = {}
    /\ audio = 0 /\ shut = {} /\ eager = FALSE
    /\ jobs = [k \in Starts |-> "none"]
    /\ inbox = [k \in Starts |-> 0] /\ emitted = [k \in Starts |-> 0]
    /\ rpc = [k \in Starts |-> "none"] /\ gpc = [k \in Starts |-> "none"]
    /\ hb = "none" /\ deadline = FALSE
    /\ out = <<[type |-> "connected", of |-> 0]>>

-----------------------------------------------------------------------------
(* Helpers *)

Frame(type, k) == [type |-> type, of |-> k]
Wrote(type, k) == Contains(out, Frame(type, k))

(* A write to a connection that is gone fails, and nobody looks. *)
Writes(frames) == out' = IF conn THEN out \o frames ELSE out
Write(type, k) == Writes(<<Frame(type, k)>>)

(* What the handler's defers and its error return do. *)
CloseAudio == shut' = IF audio = 0 THEN shut ELSE shut \cup {audio}

Open(k) == jobs[k] \in {"queued", "ready"}

(* The client has seen the end of every job it started. *)
AllDone == \A k \in 1 .. starts : pool[k] # None => Wrote("done", k)

(* A session comes to life with the first start that names a session type; *)
(* over WebSocket it gets a heartbeat.                                     *)
OpenSession(wanted) ==
    /\ session' = (session \/ wanted)
    /\ registered' = (registered \/ (wanted /\ ~session))
    /\ hb' = IF transport = "ws" /\ wanted /\ ~session THEN "running" ELSE hb

-----------------------------------------------------------------------------
(* The handler *)

ClientSpeaks == hpc = "read" /\ conn /\ ~hung

(* A start is looked at while no job is active; any other is skipped.      *)
AcceptsStart ==
    /\ ClientSpeaks /\ starts < MaxStarts /\ ~jobActive
    /\ eager' = (eager \/ ~AllDone)

(* A tts start without text: a session may come to life, nothing is        *)
(* submitted. (In a session, or for none, it is an error frame only.)      *)
StartBadText ==
    /\ AcceptsStart
    /\ "tts" \in Services /\ ~session
    /\ OpenSession(TRUE)
    /\ Write("error", 0)
    /\ UNCHANGED <<hpc, jobActive, starts, service, sticky, pool, inSession, audio, shut, jobVars,
                   connVars, deadline, rpc, gpc>>

(* Fault: the channel is recorded under the number of the next start. *)
PrepareOffByOne(svc, wanted) ==
    /\ AcceptsStart
    /\ OpenSession(wanted)
    /\ starts' = starts + 1
    /\ service' = [service EXCEPT ![starts'] = svc]
    /\ inSession' = IF session' THEN inSession \cup {starts'} ELSE inSession
    /\ audio' = starts' + 1

(* What start does before it calls Submit. For a service it does not know, *)
(* the gRPC handler leaves curAudioCh and closeAudio as they are.          *)
Prepare(svc, wanted) ==
    /\ AcceptsStart
    /\ OpenSession(wanted)
    /\ starts' = starts + 1
    /\ service' = [service EXCEPT ![starts'] = svc]
    /\ inSession' = IF session' THEN inSession \cup {starts'} ELSE inSession
    /\ audio' = CASE svc = "stt" -> starts'
                  [] svc = "unknown" /\ transport = "grpc" -> audio
                  [] OTHER -> 0

(* Fault: every job moves the affinity. *)
StickLast == sticky' = IF session' THEN pool'[starts'] ELSE sticky

(* Soft affinity: the first accepted job of the session decides. *)
Stick == sticky' = IF session' /\ sticky = None THEN pool'[starts'] ELSE sticky

(* Submit took the job. A warning, if there is one, is written, then the   *)
(* goroutines of the job are launched.                                     *)
Start(svc, wanted) ==
    /\ Prepare(svc, wanted)
    /\ \E p \in Pools : pool' = [pool EXCEPT ![starts'] = p]
    /\ Stick
    /\ jobs' = [jobs EXCEPT ![starts'] = "queued"]
    /\ rpc' = [rpc EXCEPT ![starts'] = IF svc = "stt" THEN "wait" ELSE "none"]
    /\ gpc' = [gpc EXCEPT ![starts'] = "range"]
    /\ Writes(<<>>) \/ Write("warning", starts')
    /\ hpc' = "store"
    /\ UNCHANGED <<jobActive, shut, inbox, emitted, connVars, deadline>>

(* Submit refused the job. Without a session the handler returns. *)
StartRejected(svc, wanted) ==
    /\ Prepare(svc, wanted)
    /\ Write("error", starts')
    /\ \/ session' /\ UNCHANGED <<hpc, conn, ctxDone, shut>>
       \/ /\ ~session'
          /\ hpc' = "ended" /\ conn' = FALSE /\ ctxDone' = TRUE
          /\ shut' = IF audio' = 0 THEN shut ELSE shut \cup {audio'}
    /\ UNCHANGED <<jobActive, sticky, pool, jobVars, transport, hung, deadline, rpc, gpc>>

StoreActive ==
    /\ hpc = "store"
    /\ jobActive' = TRUE /\ hpc' = "read"
    /\ UNCHANGED <<starts, service, session, registered, sticky, pool, inSession, audio, shut, eager,
                   jobVars, connVars, heartVars, rpc, gpc, out>>

Stop ==
    /\ ClientSpeaks /\ jobActive
    /\ CloseAudio
    /\ UNCHANGED <<hpc, jobActive, starts, service, session, registered, sticky, pool, inSession,
                   audio, eager, jobVars, connVars, heartVars, rpc, gpc, out>>

(* An audio chunk goes into the channel or is dropped, unless the channel  *)
(* is closed: that send panics. The defers run, the error return does not. *)
AudioAfterStop ==
    /\ ClientSpeaks /\ jobActive /\ audio \in shut
    /\ hpc' = "panicked" /\ conn' = FALSE /\ ctxDone' = TRUE
    /\ registered' = (registered /\ transport = "ws")
    /\ UNCHANGED <<jobActive, starts, service, session, sticky, pool, inSession, audio, shut, eager,
                   jobVars, transport, hung, heartVars, rpc, gpc, out>>

Return ==
    /\ hpc' = "ended" /\ conn' = FALSE /\ ctxDone' = TRUE
    /\ registered' = FALSE
    /\ UNCHANGED <<jobActive, starts, service, session, sticky, pool, inSession, audio, eager, jobVars,
                   transport, hung, heartVars, rpc, gpc, out>>

(* Fault: nothing closes the audio channel when the client goes away. *)
HandlerEndsLeaky ==
    /\ hpc = "read" /\ (~conn \/ (deadline /\ hung))
    /\ Return /\ UNCHANGED shut

(* Fault: the pong handler sets no read deadline. *)
HandlerEndsOnlyOnClose ==
    /\ hpc = "read" /\ ~conn
    /\ Return /\ CloseAudio

(* Reading fails, since the connection is gone or no pong came in time:    *)
(* the session is removed and the defers run.                              *)
HandlerEnds ==
    /\ hpc = "read" /\ (~conn \/ (deadline /\ hung))
    /\ Return /\ CloseAudio

(* A gRPC client has nothing more to say: the stream ends there and then,  *)
(* whatever results are under way.                                         *)
HalfClosed ==
    /\ ClientSpeaks /\ transport = "grpc"
    /\ Return /\ CloseAudio

-----------------------------------------------------------------------------
(* wsPostSubmit and streamPostSubmit: the goroutines of a job *)

ReadyFrame == <<handlerVars, jobVars, connVars, heartVars, gpc>>

SendReady(k) ==
    /\ rpc[k] = "wait" /\ jobs[k] = "ready"
    /\ Write("ready", k)
    /\ rpc' = [rpc EXCEPT ![k] = "end"]
    /\ UNCHANGED ReadyFrame

ReadyCancelled(k) ==
    /\ rpc[k] = "wait" /\ ctxDone
    /\ rpc' = [rpc EXCEPT ![k] = "end"]
    /\ UNCHANGED <<ReadyFrame, out>>

ForwardFrame == <<hpc, starts, service, session, registered, sticky, pool, inSession, audio, shut, eager,
                  jobs, emitted, transport, hung, ctxDone, heartVars, rpc>>

(* Fault: a result is taken for the last one, and done is written at once. *)
ForwardThenDone(k) ==
    /\ gpc[k] = "range" /\ inbox[k] > 0
    /\ Writes(<<Frame("result", k), Frame("done", k)>>)
    /\ inbox' = [inbox EXCEPT ![k] = @ - 1]
    /\ UNCHANGED <<ForwardFrame, jobActive, conn, gpc>>

Forward(k) ==
    /\ gpc[k] = "range" /\ inbox[k] > 0
    /\ Write("result", k)
    /\ inbox' = [inbox EXCEPT ![k] = @ - 1]
    /\ UNCHANGED <<ForwardFrame, jobActive, conn, gpc>>

(* Fault: the loop ends when the channel is empty for a moment. *)
StoreInactiveEarly(k) ==
    /\ gpc[k] = "range" /\ inbox[k] = 0
    /\ jobActive' = FALSE
    /\ gpc' = [gpc EXCEPT ![k] = "stored"]
    /\ UNCHANGED <<ForwardFrame, inbox, conn, out>>

(* Fault: the loop ends with the channel's close, whatever is still in it. *)
StoreInactiveHasty(k) ==
    /\ gpc[k] = "range" /\ jobs[k] = "closed"
    /\ jobActive' = FALSE
    /\ gpc' = [gpc EXCEPT ![k] = "stored"]
    /\ UNCHANGED <<ForwardFrame, inbox, conn, out>>

(* ResultCh is closed and drained: first the flag, ... *)
StoreInactive(k) ==
    /\ gpc[k] = "range" /\ inbox[k] = 0 /\ jobs[k] = "closed"
    /\ jobActive' = FALSE
    /\ gpc' = [gpc EXCEPT ![k] = "stored"]
    /\ UNCHANGED <<ForwardFrame, inbox, conn, out>>

(* Fault: an end of the job is not told to a short-lived client. *)
SendDoneInSession(k) ==
    /\ gpc[k] = "stored"
    /\ IF k \in inSession THEN Write("done", k) ELSE UNCHANGED out
    /\ gpc' = [gpc EXCEPT ![k] = IF transport = "ws" /\ k \notin inSession THEN "done" ELSE "end"]
    /\ UNCHANGED <<ForwardFrame, inbox, jobActive, conn>>

(* ... then done. A short-lived WebSocket connection is closed next. *)
SendDone(k) ==
    /\ gpc[k] = "stored"
    /\ Write("done", k)
    /\ gpc' = [gpc EXCEPT ![k] = IF transport = "ws" /\ k \notin inSession THEN "done" ELSE "end"]
    /\ UNCHANGED <<ForwardFrame, inbox, jobActive, conn>>

(* Fault: the close frame is written, the connection is left to the client. *)
CloseShortLivedFrameOnly(k) ==
    /\ gpc[k] = "done"
    /\ gpc' = [gpc EXCEPT ![k] = "end"]
    /\ UNCHANGED <<ForwardFrame, inbox, jobActive, conn, out>>

CloseShortLived(k) ==
    /\ gpc[k] = "done"
    /\ conn' = FALSE
    /\ gpc' = [gpc EXCEPT ![k] = "end"]
    /\ UNCHANGED <<ForwardFrame, inbox, jobActive, out>>

-----------------------------------------------------------------------------
(* startHeartbeat, WebSocket sessions only *)

HeartFrame == <<handlerVars, jobVars, transport, hung, conn, rpc, gpc, out>>

Pong ==
    /\ hb = "running" /\ conn /\ ~hung
    /\ deadline' = TRUE
    /\ UNCHANGED <<HeartFrame, ctxDone, hb>>

(* A ping cannot be written: connCtx is cancelled, and that is all. *)
PingFails ==
    /\ hb = "running" /\ (hung \/ ~conn)
    /\ hb' = "failed" /\ ctxDone' = TRUE
    /\ UNCHANGED <<HeartFrame, deadline>>

-----------------------------------------------------------------------------
(* The client and the broker *)

WorldFrame == <<handlerVars, heartVars, rpc, gpc, out>>

ClientLeaves ==
    /\ conn
    /\ conn' = FALSE /\ ctxDone' = (ctxDone \/ transport = "grpc")
    /\ UNCHANGED <<WorldFrame, jobVars, transport, hung>>

(* It matters to the heartbeat of a session only. *)
ClientHangs ==
    /\ hb = "running" /\ conn /\ ~hung
    /\ hung' = TRUE
    /\ UNCHANGED <<WorldFrame, jobVars, transport, conn, ctxDone>>

JobReady(k) ==
    /\ jobs[k] = "queued" /\ service[k] = "stt"
    /\ jobs' = [jobs EXCEPT ![k] = "ready"]
    /\ UNCHANGED <<WorldFrame, inbox, emitted, connVars>>

(* A Result of any kind. *)
JobResult(k) ==
    /\ Open(k) /\ emitted[k] < MaxResults
    /\ inbox' = [inbox EXCEPT ![k] = @ + 1]
    /\ emitted' = [emitted EXCEPT ![k] = @ + 1]
    /\ UNCHANGED <<WorldFrame, jobs, connVars>>

JobCloses(k) ==
    /\ Open(k)
    /\ jobs' = [jobs EXCEPT ![k] = "closed"]
    /\ UNCHANGED <<WorldFrame, inbox, emitted, connVars>>

-----------------------------------------------------------------------------
Receive ==
    \/ \E wanted \in BOOLEAN :
        \/ \E svc \in Services : Start(svc, wanted)
        \/ \E svc \in Services \cup {"unknown"} : StartRejected(svc, wanted)
    \/ StartBadText \/ Stop \/ AudioAfterStop

(* Nothing recovers a panic in a gRPC handler: the process is gone. *)
Up == ~(transport = "grpc" /\ hpc = "panicked")

Ready(k) == Up /\ (SendReady(k) \/ ReadyCancelled(k))

Results(k) == Up /\ (Forward(k) \/ StoreInactive(k) \/ SendDone(k) \/ CloseShortLived(k))

Job(k) == Up /\ (JobReady(k) \/ JobResult(k) \/ JobCloses(k))

Next ==
    \/ Receive \/ StoreActive \/ HandlerEnds \/ HalfClosed
    \/ Pong \/ PingFails \/ ClientLeaves \/ ClientHangs
    \/ \E k \in Starts : Ready(k) \/ Results(k) \/ Job(k)

Spec == Init /\ [][Next]_vars

(* Go runs every runnable goroutine; a deadline passes; the broker closes  *)
(* the ResultCh of a job. What the client does is open.                    *)
Fairness ==
    /\ WF_vars(StoreActive) /\ WF_vars(HandlerEnds)
    /\ \A k \in Starts : WF_vars(Ready(k)) /\ WF_vars(Results(k)) /\ WF_vars(Up /\ JobCloses(k))

FairSpec == Spec /\ Fairness

-----------------------------------------------------------------------------
(* Properties that hold *)

(* A connection has one job at a time: jobActive, which one goroutine sets *)
(* and another clears, never lets a start through while the broker still   *)
(* has the job before.                                                     *)
OneOpenJob == \A j, k \in Starts : Open(j) /\ Open(k) => j = k

(* done is the last word on a job that was told whole: by then every       *)
(* Result of its ResultCh has been written, and nothing but a late ready   *)
(* follows.                                                                *)
DoneIsComplete ==
    \A k \in Starts : Wrote("done", k) =>
        Cardinality({n \in 1 .. Len(out) : out[n] = Frame("result", k)}) = emitted[k]

(* Frames carry no job number, so a client that waits for done reads every *)
(* frame but ready as one of the job it started last: the frames of a job  *)
(* come before those of the next.                                          *)
FramesOfOneJob ==
    ~eager =>
        \A m, n \in 1 .. Len(out) :
            m < n /\ out[n].type # "ready" /\ out[n].of # 0 => out[m].of <= out[n].of

(* When the handler is gone, no matter how, the audio channel of a job     *)
(* that still runs is closed. The broker's worker ranges over it without a *)
(* timeout, so a forgotten close would hold a backend connection.          *)
AudioClosedOnExit ==
    hpc \in {"ended", "panicked"} =>
        \A k \in Starts : Open(k) /\ service[k] = "stt" => k \in shut

(* The sticky pool is that of the session's first accepted job. *)
StickyIsFirst ==
    sticky # None =>
        \E k \in inSession : pool[k] = sticky /\ \A j \in inSession : j < k => pool[j] = None

(* A closed ResultCh leads to done, or the client is gone. *)
DoneIsTold == \A k \in Starts : (jobs[k] = "closed") ~> (Wrote("done", k) \/ ~conn)

(* A WebSocket connection without a session ends once its job is done. *)
ShortLivedEnds ==
    transport = "ws" =>
        \A k \in Starts : (Wrote("done", k) /\ k \notin inSession) ~> (hpc \in {"ended", "panicked"})

(* A WebSocket session whose client stops answering ends if one pong had   *)
(* come before: that one set the read deadline.                            *)
HungSessionEnds == (hung /\ deadline) ~> (hpc \in {"ended", "panicked"})

-----------------------------------------------------------------------------
(* What the documentation says and the code does not do *)

(* README: "after done, send another job on the same connection": once     *)
(* done was written for its last job, a handler that reads takes a start.  *)
SessionReusable ==
    \A k \in Starts : Wrote("done", k) /\ k = starts /\ hpc = "read" => ~jobActive
=============================================================================
