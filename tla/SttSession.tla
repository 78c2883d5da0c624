----------------------------- MODULE SttSession -----------------------------
(***************************************************************************)
(* One slot of an STT pool: runSTTWorker and runArmedSession of the broker *)
(* on top of internal/stt.Client. Four goroutines share a connection: the  *)
(* worker, ReadMessages (the reader), the audio sender of the current job, *)
(* and, outside, the gateway that feeds audio and consumes results. The    *)
(* STT server is external; it is modelled by what the code relies on.      *)
(***************************************************************************)
EXTENDS Naturals, Sequences, FiniteSets

CONSTANTS NumJobs,        \* jobs this slot gets, in the order it pops them
          ResultCap,      \* capacity of ResultCh
          MaxResults,     \* bound: results of the server per recognition
          MaxChunks,      \* bound: audio chunks per job
          GracefulClose   \* whether the server may close with 1000 or 1001

ASSUME BoundsAssumption ==
    /\ NumJobs \in Nat /\ MaxResults \in Nat /\ MaxChunks \in Nat
    /\ ResultCap \in Nat \ {0} /\ GracefulClose \in BOOLEAN

Jobs == 1 .. NumJobs
Kinds == {"partial", "final", "error"}

(* What a server frame carries, and the recognition it belongs to. *)
Results == [kind : Kinds, of : Jobs]
Listening == [kind |-> "listening", of |-> 0]

VARIABLES
    shutdown,   \* "no", then "drain", then "cancel" (the broker context is done)
    queued,     \* jobs pushed so far
    job,        \* the job popped last; 0 before the first
    wpc,        \* the worker
    verdict,    \* how the current job, or the session, ended
    ready,      \* jobs whose ReadyCh is closed
    closed,     \* jobs whose ResultCh is closed
    finished,   \* history: jobs the worker counted as completed
    delivered,  \* Results sent on each ResultCh
    unread,     \* how many of them the gateway has not taken yet
    cb,         \* job the callbacks are wired to; 0 = nil
    jobDone,    \* the current job's jobDone channel is closed
    rpc, rmsg, handler,  \* the reader, the frame it handles, the job of the callback it runs
    readStop,   \* cancelRead was called
    connErr,    \* an error waits in connErrCh
    listened,   \* the listening channel captured last is closed
    apc, chunks,         \* the audio sender of the current job, chunks it sent
    noMore,     \* jobs whose AudioCh the gateway has closed
    srv, srvJob, srvSent,  \* the server, its recognition, results it sent for it
    stalled,    \* the server does not read: writes to it block
    wire        \* frames from the server, not read yet

workerVars == <<wpc, verdict, ready, closed, finished, cb, jobDone, listened>>
resultVars == <<delivered, unread>>
readerVars == <<rpc, rmsg, handler, connErr>>
audioVars == <<apc, chunks>>
gatewayVars == <<queued, noMore>>
serverVars == <<srv, srvJob, srvSent, stalled, wire>>
vars == <<shutdown, job, readStop, workerVars, resultVars, readerVars, audioVars,
          gatewayVars, serverVars>>

Dropped == {"dropped", "timeout", "connErr"}

TypeOK ==
    /\ shutdown \in {"no", "drain", "cancel"}
    /\ queued \in 0 .. NumJobs /\ job \in 0 .. NumJobs
    /\ wpc \in {"pop", "await", "starting", "wire", "select", "audioWait", "clear", "null",
                "cbWait", "readWait", "close", "closing", "after", "dialing", "exit"}
    /\ verdict \in {"none", "completed", "ended", "ctx"} \cup Dropped
    /\ ready \subseteq Jobs /\ closed \subseteq Jobs /\ finished \subseteq Jobs
    /\ delivered \in [Jobs -> SUBSET Results]
    /\ unread \in [Jobs -> 0 .. ResultCap]
    /\ cb \in 0 .. NumJobs /\ handler \in 0 .. NumJobs
    /\ rpc \in {"read", "mu", "callback", "signal", "done"}
    /\ rmsg \in Results \cup {Listening}
    /\ {jobDone, readStop, connErr, listened, stalled} \subseteq BOOLEAN
    /\ apc \in {"none", "loop", "chunk", "stop", "stopping", "done"}
    /\ chunks \in 0 .. MaxChunks
    /\ noMore \subseteq Jobs
    /\ srv \in {"listening", "recognising", "stopped", "reset", "closed", "confused"}
    /\ srvJob \in 0 .. NumJobs /\ srvSent \in 0 .. MaxResults
    /\ wire \in Seq(Results \cup {Listening})

Init ==
    /\ shutdown = "no" /\ queued = 0 /\ job = 0
    /\ wpc = "pop" /\ verdict = "none"
    /\ ready = {} /\ closed = {} /\ finished = {}
    /\ delivered = [k \in Jobs |-> {}] /\ unread = [k \in Jobs |-> 0]
    /\ cb = 0 /\ jobDone = FALSE /\ readStop = FALSE /\ connErr = FALSE
    /\ rpc = "read" /\ rmsg = Listening /\ handler = 0
    /\ listened = TRUE
    /\ apc = "none" /\ chunks = 0 /\ noMore = {}
    /\ srv = "listening" /\ srvJob = 0 /\ srvSent = 0 /\ stalled = FALSE /\ wire = <<>>

-----------------------------------------------------------------------------
(* Helpers *)

(* c.mu is held across steps only by a write in progress. *)
AudioHasMu == apc \in {"chunk", "stopping"}
MuFree == ~AudioHasMu /\ wpc \notin {"starting", "closing"}

Alive == srv \in {"listening", "recognising", "stopped", "confused"}
Readable == Alive /\ ~stalled

(* What a write does to the server: it is protocol misuse to start while   *)
(* it is not listening, and to send audio or stop while it is.             *)
SrvStart == srv' = IF srv = "listening" THEN "recognising" ELSE "confused"
SrvAudio == srv' = IF srv = "recognising" THEN srv ELSE "confused"
SrvStop == srv' = IF srv = "recognising" THEN "stopped" ELSE "confused"

CtxDone == shutdown = "cancel"

Send(k, m) ==
    /\ delivered' = [delivered EXCEPT ![k] = @ \cup {m}]
    /\ unread' = [unread EXCEPT ![k] = @ + 1]

CloseJob == closed' = closed \cup {job}

(* The session is over: cancelRead, then <-readDone. *)
Leave(v) == readStop' = TRUE /\ verdict' = v /\ wpc' = "readWait"

-----------------------------------------------------------------------------
(* The worker: runArmedSession *)

Pop ==
    /\ wpc = "pop" /\ job < queued
    /\ job' = job + 1
    /\ wpc' = "await"
    /\ UNCHANGED <<shutdown, verdict, ready, closed, finished, cb, jobDone, listened, resultVars,
                   readerVars, readStop, audioVars, gatewayVars, serverVars>>

(* Fault: pop knows the drain flag but not the context. *)
PopEndDrainOnly ==
    /\ wpc = "pop" /\ job = queued /\ shutdown = "drain"
    /\ Leave("ended")
    /\ UNCHANGED <<shutdown, job, ready, closed, finished, cb, jobDone, listened, resultVars,
                   readerVars, audioVars, gatewayVars, serverVars>>

(* pop returns false: the queue is empty and the broker shuts down. *)
PopEnd ==
    /\ wpc = "pop" /\ job = queued /\ shutdown # "no"
    /\ Leave("ended")
    /\ UNCHANGED <<shutdown, job, ready, closed, finished, cb, jobDone, listened, resultVars,
                   readerVars, audioVars, gatewayVars, serverVars>>

(* Fault: the next recognition does not wait for the listening state. *)
AwaitNothing ==
    /\ wpc = "await"
    /\ ready' = ready \cup {job}
    /\ wpc' = "starting" /\ listened' = FALSE
    /\ UNCHANGED <<shutdown, job, readStop, verdict, closed, finished, cb, jobDone, resultVars,
                   readerVars, audioVars, gatewayVars, serverVars>>

(* The server listens: ReadyCh is closed, and StartRecognition takes c.mu, *)
(* replaces the listening channel and begins to write. c.mu is free, the   *)
(* sender of the job before has ended.                                     *)
AwaitListening ==
    /\ wpc = "await" /\ listened
    /\ ready' = ready \cup {job}
    /\ wpc' = "starting" /\ listened' = FALSE
    /\ UNCHANGED <<shutdown, job, readStop, verdict, closed, finished, cb, jobDone, resultVars,
                   readerVars, audioVars, gatewayVars, serverVars>>

AwaitDrop ==
    /\ wpc = "await" /\ connErr
    /\ connErr' = FALSE
    /\ Send(job, [kind |-> "error", of |-> job]) /\ CloseJob
    /\ Leave("dropped")
    /\ UNCHANGED <<shutdown, job, ready, finished, cb, jobDone, listened, rpc, rmsg, handler,
                   audioVars, gatewayVars, serverVars>>

AwaitCtx ==
    /\ wpc = "await" /\ CtxDone
    /\ CloseJob
    /\ Leave("ctx")
    /\ UNCHANGED <<shutdown, job, ready, finished, cb, jobDone, listened, resultVars,
                   readerVars, audioVars, gatewayVars, serverVars>>

(* The start frame is written; on a broken connection that may still work. *)
StartSent ==
    /\ wpc = "starting"
    /\ wpc' = "wire"
    /\ \/ Readable /\ SrvStart /\ srvJob' = job /\ srvSent' = 0
       \/ ~Alive /\ UNCHANGED <<srv, srvJob, srvSent>>
    /\ UNCHANGED <<shutdown, job, readStop, verdict, ready, closed, finished, cb, jobDone,
                   listened, resultVars, readerVars, audioVars, gatewayVars, stalled, wire>>

StartFails ==
    /\ wpc = "starting" /\ ~Alive
    /\ Send(job, [kind |-> "error", of |-> job]) /\ CloseJob
    /\ Leave("dropped")
    /\ UNCHANGED <<shutdown, job, ready, finished, cb, jobDone, listened, readerVars,
                   audioVars, gatewayVars, serverVars>>

(* The callbacks are set and the audio sender is launched. *)
Wire ==
    /\ wpc = "wire"
    /\ cb' = job /\ jobDone' = FALSE
    /\ apc' = "loop" /\ chunks' = 0
    /\ wpc' = "select"
    /\ UNCHANGED <<shutdown, job, readStop, verdict, ready, closed, finished, listened,
                   resultVars, readerVars, gatewayVars, serverVars>>

WaitFrame == <<shutdown, job, readStop, ready, closed, finished, cb, jobDone, listened,
               resultVars, rpc, rmsg, handler, audioVars, gatewayVars, serverVars>>

(* The select of runArmedSession, one action per case. *)
SelectDone ==
    /\ wpc = "select" /\ jobDone
    /\ wpc' = "audioWait" /\ verdict' = "completed"
    /\ UNCHANGED <<WaitFrame, connErr>>

SelectTimeout ==
    /\ wpc = "select"
    /\ wpc' = "clear" /\ verdict' = "timeout"
    /\ UNCHANGED <<WaitFrame, connErr>>

SelectConnErr ==
    /\ wpc = "select" /\ connErr
    /\ connErr' = FALSE
    /\ wpc' = "clear" /\ verdict' = "connErr"
    /\ UNCHANGED WaitFrame

SelectCtx ==
    /\ wpc = "select" /\ CtxDone
    /\ wpc' = "clear" /\ verdict' = "ctx"
    /\ UNCHANGED <<WaitFrame, connErr>>

(* <-audioDone, which no timer and no context guards. *)
AudioDone ==
    /\ wpc = "audioWait" /\ apc = "done"
    /\ wpc' = "clear"
    /\ UNCHANGED <<WaitFrame, connErr, verdict>>

ClearFrame == <<shutdown, job, readStop, verdict, ready, closed, finished, listened, resultVars,
                readerVars, audioVars, gatewayVars, serverVars>>

(* Fault: clearCallbacks does not close jobDone first. *)
ClearNoSignal ==
    /\ wpc = "clear"
    /\ wpc' = "null"
    /\ UNCHANGED <<ClearFrame, cb, jobDone>>

(* clearCallbacks: close jobDone, then set the callbacks to nil, ... *)
ClearSignal ==
    /\ wpc = "clear"
    /\ jobDone' = TRUE /\ wpc' = "null"
    /\ UNCHANGED <<ClearFrame, cb>>

ClearNull ==
    /\ wpc = "null"
    /\ cb' = 0 /\ wpc' = "cbWait"
    /\ UNCHANGED <<ClearFrame, jobDone>>

EndFrame == <<shutdown, job, ready, cb, listened, resultVars, readerVars, gatewayVars, serverVars>>

Completed ==
    /\ finished' = finished \cup {job}
    /\ wpc' = "pop" /\ verdict' = "none" /\ apc' = "none" /\ chunks' = 0
    /\ UNCHANGED readStop

(* Fault: clearCallbacks does not wait for a callback that is running. *)
EndJobNoWait ==
    /\ wpc = "cbWait"
    /\ CloseJob /\ jobDone' = FALSE
    /\ \/ verdict = "completed" /\ Completed
       \/ verdict # "completed" /\ Leave(verdict) /\ UNCHANGED <<finished, audioVars>>
    /\ UNCHANGED EndFrame

(* ... and wait for a callback in flight. Then ResultCh is closed, and the *)
(* session goes on after a completed job only.                             *)
EndJob ==
    /\ wpc = "cbWait" /\ rpc \notin {"callback", "signal"}
    /\ CloseJob /\ jobDone' = FALSE
    /\ \/ verdict = "completed" /\ Completed
       \/ verdict # "completed" /\ Leave(verdict) /\ UNCHANGED <<finished, audioVars>>
    /\ UNCHANGED EndFrame

-----------------------------------------------------------------------------
(* The worker: runSTTWorker after the session *)

LoopFrame == <<shutdown, job, verdict, ready, closed, finished, resultVars, gatewayVars>>

ReadDone ==
    /\ wpc = "readWait" /\ rpc = "done"
    /\ wpc' = "close"
    /\ UNCHANGED <<LoopFrame, readStop, cb, jobDone, listened, readerVars, audioVars, serverVars>>

(* cli.Close takes c.mu and writes a close frame. *)
CloseLock ==
    /\ wpc = "close" /\ ~AudioHasMu
    /\ wpc' = "closing"
    /\ UNCHANGED <<LoopFrame, readStop, cb, jobDone, listened, readerVars, audioVars, serverVars>>

(* The connection is gone. A sender of this job that still runs will find  *)
(* its own client closed; it shares nothing with the next connection.      *)
CloseConn ==
    /\ wpc = "closing" /\ (Readable \/ ~Alive)
    /\ wpc' = "after" /\ apc' = "none" /\ chunks' = 0
    /\ srv' = "closed" /\ srvJob' = 0 /\ srvSent' = 0 /\ stalled' = FALSE /\ wire' = <<>>
    /\ UNCHANGED <<LoopFrame, readStop, cb, jobDone, listened, readerVars>>

AfterSession ==
    /\ wpc = "after"
    /\ wpc' = IF verdict \in Dropped /\ shutdown = "no" THEN "dialing" ELSE "exit"
    /\ verdict' = "none"
    /\ UNCHANGED <<shutdown, job, ready, closed, finished, resultVars, gatewayVars, readStop, cb,
                   jobDone, listened, readerVars, audioVars, serverVars>>

(* dialSTT, which retries until Connect has read the handshake "listening" *)
(* frame, and the start of the next runArmedSession.                       *)
Redial ==
    /\ wpc = "dialing"
    /\ wpc' = "pop" /\ readStop' = FALSE /\ listened' = TRUE
    /\ rpc' = "read" /\ connErr' = FALSE
    /\ srv' = "listening"
    /\ UNCHANGED <<LoopFrame, cb, jobDone, rmsg, handler, audioVars, srvJob, srvSent, stalled, wire>>

DialCancelled ==
    /\ wpc = "dialing" /\ CtxDone
    /\ wpc' = "exit"
    /\ UNCHANGED <<LoopFrame, readStop, cb, jobDone, listened, readerVars, audioVars, serverVars>>

-----------------------------------------------------------------------------
(* The reader: ReadMessages and the callbacks it runs *)

ReadFrame == <<shutdown, job, readStop, wpc, verdict, ready, closed, finished, cb, audioVars,
               gatewayVars, srv, srvJob, srvSent, stalled>>

(* One frame is read. The callback is looked up at once: without one the   *)
(* frame is forgotten.                                                     *)
ReadFrameFromWire ==
    /\ rpc = "read" /\ wire # <<>>
    /\ wire' = Tail(wire)
    /\ \/ Head(wire) = Listening /\ rpc' = "mu" /\ UNCHANGED <<rmsg, handler>>
       \/ Head(wire) # Listening /\ cb = 0 /\ UNCHANGED <<rpc, rmsg, handler>>
       \/ Head(wire) # Listening /\ cb # 0 /\ rpc' = "callback" /\ rmsg' = Head(wire) /\ handler' = cb
    /\ UNCHANGED <<ReadFrame, jobDone, listened, connErr, resultVars>>

(* c.listening is set under c.mu, then the listening channel is closed. *)
ReadListening ==
    /\ rpc = "mu" /\ MuFree
    /\ listened' = TRUE /\ rpc' = "read"
    /\ UNCHANGED <<ReadFrame, jobDone, rmsg, handler, connErr, resultVars, wire>>

(* Fault: every result ends the job. *)
AfterSendAny ==
    /\ rpc' = "signal"
    /\ rmsg' = Listening /\ handler' = 0

AfterSend ==
    /\ rpc' = IF rmsg.kind = "final" THEN "signal" ELSE "read"
    /\ rmsg' = Listening /\ handler' = 0

(* Fault: the result is sent without looking for room. *)
CallbackOverflows ==
    /\ rpc = "callback"
    /\ Send(handler, rmsg)
    /\ AfterSend
    /\ UNCHANGED <<ReadFrame, jobDone, listened, connErr, wire>>

(* The callback's select: room in ResultCh, ... *)
CallbackSends ==
    /\ rpc = "callback" /\ unread[handler] < ResultCap
    /\ Send(handler, rmsg)
    /\ AfterSend
    /\ UNCHANGED <<ReadFrame, jobDone, listened, connErr, wire>>

(* ... or jobDone is closed and the result is given up. *)
CallbackGivesUp ==
    /\ rpc = "callback" /\ jobDone
    /\ AfterSend
    /\ UNCHANGED <<ReadFrame, jobDone, listened, connErr, resultVars, wire>>

CallbackSignals ==
    /\ rpc = "signal"
    /\ jobDone' = TRUE /\ rpc' = "read"
    /\ UNCHANGED <<ReadFrame, listened, rmsg, handler, connErr, resultVars, wire>>

(* Fault: cancelling the context does not interrupt a read that waits. *)
ReadEndsOnlyWithConn ==
    /\ rpc = "read"
    /\ \/ srv = "closed" /\ wire = <<>> /\ UNCHANGED connErr
       \/ srv = "reset" /\ wire = <<>> /\ connErr' = TRUE
    /\ rpc' = "done"
    /\ UNCHANGED <<ReadFrame, jobDone, listened, rmsg, handler, resultVars, wire>>

(* Fault: no end of the connection is reported to the worker. *)
ReadEndsSilently ==
    /\ rpc = "read"
    /\ readStop \/ CtxDone \/ (srv \in {"closed", "reset"} /\ wire = <<>>)
    /\ rpc' = "done"
    /\ UNCHANGED <<ReadFrame, jobDone, listened, rmsg, handler, connErr, resultVars, wire>>

(* ReadMessages returns: cancelled, or the connection ended. A normal      *)
(* closure is no error, so nothing goes into connErrCh for it.             *)
ReadEnds ==
    /\ rpc = "read"
    /\ \/ (readStop \/ CtxDone) /\ UNCHANGED connErr
       \/ ~readStop /\ ~CtxDone /\ srv = "closed" /\ wire = <<>> /\ UNCHANGED connErr
       \/ ~readStop /\ ~CtxDone /\ srv = "reset" /\ wire = <<>> /\ connErr' = TRUE
    /\ rpc' = "done"
    /\ UNCHANGED <<ReadFrame, jobDone, listened, rmsg, handler, resultVars, wire>>

-----------------------------------------------------------------------------
(* The audio sender of the current job *)

AudioFrame == <<shutdown, job, readStop, workerVars, resultVars, readerVars, gatewayVars,
                srvJob, srvSent, stalled, wire>>

ChunkLock ==
    /\ apc = "loop" /\ chunks < MaxChunks /\ MuFree
    /\ apc' = "chunk" /\ chunks' = chunks + 1
    /\ UNCHANGED <<AudioFrame, srv>>

ChunkSent ==
    /\ apc = "chunk"
    /\ \/ Readable /\ SrvAudio /\ apc' = "loop"
       \/ ~Alive /\ UNCHANGED srv /\ apc' \in {"loop", "stop"}
    /\ UNCHANGED <<AudioFrame, chunks>>

(* AudioCh is closed and drained, or a chunk failed: StopRecognition. *)
StopLock ==
    /\ apc = "stop" \/ (apc = "loop" /\ job \in noMore)
    /\ MuFree
    /\ apc' = "stopping"
    /\ UNCHANGED <<AudioFrame, chunks, srv>>

StopSent ==
    /\ apc = "stopping"
    /\ \/ Readable /\ SrvStop
       \/ ~Alive /\ UNCHANGED srv
    /\ apc' = "done"
    /\ UNCHANGED <<AudioFrame, chunks>>

-----------------------------------------------------------------------------
(* Around the session: gateway, shutdown, server *)

Enqueue ==
    /\ queued < NumJobs /\ shutdown = "no"
    /\ queued' = queued + 1
    /\ UNCHANGED <<shutdown, job, readStop, workerVars, resultVars, readerVars, audioVars,
                   noMore, serverVars>>

(* The client says stop or goes away. (For a job that is over it changes   *)
(* nothing here.)                                                          *)
CloseAudio(k) ==
    /\ k <= queued /\ k \notin noMore \cup closed
    /\ noMore' = noMore \cup {k}
    /\ UNCHANGED <<shutdown, job, readStop, workerVars, resultVars, readerVars, audioVars,
                   queued, serverVars>>

(* The gateway forwards a result; it may be slow or gone. *)
TakeResult(k) ==
    /\ unread[k] > 0 /\ k \notin closed
    /\ unread' = [unread EXCEPT ![k] = @ - 1]
    /\ UNCHANGED <<shutdown, job, readStop, workerVars, delivered, readerVars, audioVars,
                   gatewayVars, serverVars>>

Shutdown ==
    /\ \/ shutdown = "no" /\ shutdown' = "drain"
       \/ shutdown = "drain" /\ shutdown' = "cancel"
    /\ UNCHANGED <<job, readStop, workerVars, resultVars, readerVars, audioVars, gatewayVars,
                   serverVars>>

ServerFrame == <<shutdown, job, readStop, workerVars, resultVars, readerVars, audioVars,
                 gatewayVars>>

ServerResult ==
    /\ srv \in {"recognising", "stopped"} /\ srvSent < MaxResults
    /\ \E kind \in Kinds : wire' = Append(wire, [kind |-> kind, of |-> srvJob])
    /\ srvSent' = srvSent + 1
    /\ UNCHANGED <<ServerFrame, srv, srvJob, stalled>>

ServerListens ==
    /\ srv = "stopped"
    /\ srv' = "listening" /\ wire' = Append(wire, Listening)
    /\ srvJob' = 0 /\ srvSent' = 0
    /\ UNCHANGED <<ServerFrame, stalled>>

(* The connection breaks, with or without the frames still under way, or   *)
(* the server closes it in good order.                                     *)
ServerGone ==
    /\ Alive /\ srvJob' = 0 /\ srvSent' = 0 /\ stalled' = FALSE
    /\ UNCHANGED ServerFrame
    /\ \/ srv' = "reset" /\ wire' \in {wire, <<>>}
       \/ GracefulClose /\ srv' = "closed" /\ UNCHANGED wire

(* The server stops reading. Only a write in progress can tell, so that is *)
(* when it happens here.                                                   *)
Stall ==
    /\ Alive /\ ~stalled /\ ~MuFree
    /\ stalled' = TRUE
    /\ UNCHANGED <<ServerFrame, srv, srvJob, srvSent, wire>>

Unstall ==
    /\ stalled
    /\ stalled' = FALSE
    /\ UNCHANGED <<ServerFrame, srv, srvJob, srvSent, wire>>

-----------------------------------------------------------------------------
Worker ==
    \/ Pop \/ PopEnd \/ AwaitListening \/ AwaitDrop \/ AwaitCtx \/ StartSent \/ StartFails
    \/ Wire \/ SelectDone \/ SelectTimeout \/ SelectConnErr \/ SelectCtx \/ AudioDone
    \/ ClearSignal \/ ClearNull \/ EndJob \/ ReadDone \/ CloseLock \/ CloseConn
    \/ AfterSession \/ Redial \/ DialCancelled

Reader ==
    \/ ReadFrameFromWire \/ ReadListening \/ CallbackSends \/ CallbackGivesUp
    \/ CallbackSignals \/ ReadEnds

Audio == ChunkLock \/ ChunkSent \/ StopLock \/ StopSent

Gateway == Enqueue \/ \E k \in Jobs : CloseAudio(k) \/ TakeResult(k)

Server == ServerResult \/ ServerListens \/ ServerGone \/ Stall \/ Unstall

Next == Worker \/ Reader \/ Audio \/ Gateway \/ Shutdown \/ Server

Spec == Init /\ [][Next]_vars

(* The holder of c.mu finishes its write; there is one holder at a time. *)
WriteReturns == StartSent \/ CloseConn \/ ChunkSent \/ StopSent

(* Go runs every runnable goroutine and the 30 s timer fires. A write that *)
(* is blocked gets through once the server reads again, so it may not be   *)
(* passed over for ever. The server answers a stop with the listening      *)
(* state.                                                                  *)
CodeFairness ==
    /\ WF_vars(Worker) /\ WF_vars(Reader) /\ WF_vars(Audio) /\ WF_vars(ServerListens)
    /\ SF_vars(WriteReturns)

(* The gateway closes AudioCh in the end: the client says stop or leaves. *)
ClientStops == \A k \in Jobs : WF_vars(CloseAudio(k))

(* A server that stopped reading reads again in the end. *)
ServerReads == WF_vars(Unstall)

FairSpec == Spec /\ CodeFairness /\ ClientStops /\ ServerReads

-----------------------------------------------------------------------------
(* Properties that hold *)

(* A callback that may still send on a job's ResultCh keeps the worker     *)
(* from closing it: a send on a closed channel would panic the process.    *)
NoSendOnClosed == rpc = "callback" => handler \notin closed

(* While the worker waits in clearCallbacks for a callback, that callback  *)
(* can end, even if nobody takes results and ResultCh is full: worker and  *)
(* reader never wait for each other.                                       *)
CallbackReleased == wpc = "cbWait" /\ rpc = "callback" => jobDone

(* Results reach the job whose audio they are about. One connection serves *)
(* job after job, and results still under way when a job ends must not     *)
(* turn up in the next one.                                                *)
NoCrossTalk == \A k \in Jobs : \A m \in delivered[k] : m.of = k

(* The server gets start only while it listens, audio and stop only while  *)
(* it recognises, over all jobs of a connection.                           *)
ServerInStep == srv # "confused"

(* A job counted as completed was given its final result, and its client   *)
(* had been told to stream.                                                *)
CompletedHasFinal ==
    \A k \in finished : k \in ready /\ [kind |-> "final", of |-> k] \in delivered[k]

(* What the submitter sees of a job. *)
statusOf == [k \in Jobs |-> IF k \in closed THEN "closed"
                            ELSE IF k <= queued THEN "accepted" ELSE "submitting"]
resultsOf == [k \in Jobs |-> {m.kind : m \in delivered[k]}]

Contract == INSTANCE JobContract WITH status <- statusOf, results <- resultsOf

(* The session, callbacks and all, implements the contract of a job. *)
KeepsContract == Contract!ContractSpec

(* A job that was popped is closed in the end, and the slot goes on.       *)
(* broker.go says "On connection drop or StartRecognition failure, it      *)
(* reconnects": no end of a connection may leave a job waiting.            *)
PoppedCloses == \A k \in Jobs : (job = k) ~> (k \in closed)

(* A session that lost its connection is replaced, or the worker exits. *)
DroppedReconnects == (wpc = "readWait") ~> (wpc \in {"dialing", "exit"})

(* Cancelling the broker context ends the worker. *)
CancelEnds == CtxDone ~> (wpc = "exit")

=============================================================================
