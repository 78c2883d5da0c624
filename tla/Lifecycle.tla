----------------------------- MODULE Lifecycle -----------------------------
(***************************************************************************)
(* The serve command: main, the HTTP server, the gRPC server and the       *)
(* broker in one process, from Start to the end of the process. This       *)
(* module says when the broker's steps may happen: a job comes with a      *)
(* connection, a connection comes while its server listens, and Drain and  *)
(* the cancellation come when main gets there.                             *)
(*                                                                         *)
(* A job has a connection of its own: an HTTP request, a WebSocket or a    *)
(* gRPC call. What the handler does with the job on it is in modules       *)
(* UnaryRequest and StreamConn; here it is open, and at some time over.    *)
(***************************************************************************)
EXTENDS Broker

VARIABLES
    process,    \* "up"; "exited" when main returned; "fatal" after log.Fatalf
    signalled,  \* SIGTERM or SIGINT came: sigCtx is done
    gw,         \* HTTP server: "down", "listening", "closing" in Shutdown, "closed"
    grpc,       \* gRPC server: "off", "up", "stopping" in GracefulStop
    via,        \* how each job came: None, "http", "ws", "grpc"
    conn        \* its connection: None, "open", "over"

mainVars == <<process, signalled, gw>>
connVars == <<via, conn>>
lifeVars == <<mainVars, grpc, connVars>>
allVars == <<vars, lifeVars>>

Transports == {"http", "ws", "grpc"}

(* One type invariant for the variables this module adds. *)
LifeTypeOK ==
    /\ process \in {"up", "exited", "fatal"}
    /\ signalled \in BOOLEAN
    /\ gw \in {"down", "listening", "closing", "closed"}
    /\ grpc \in {"off", "up", "stopping"}
    /\ via \in [Jobs -> Transports \cup {None}]
    /\ conn \in [Jobs -> {None, "open", "over"}]

LifeInit ==
    /\ Init
    /\ process = "up" /\ signalled = FALSE /\ gw = "down" /\ grpc = "off"
    /\ via = [j \in Jobs |-> None]
    /\ conn = [j \in Jobs |-> None]

-----------------------------------------------------------------------------
(* Connections and jobs *)

(* http.Server does not wait for a WebSocket: its connection is hijacked.  *)
Requesting == {j \in Jobs : via[j] = "http" /\ conn[j] = "open"}

Arrive(j, t) ==
    /\ process = "up" /\ conn[j] = None
    /\ IF t = "grpc" THEN grpc = "up" ELSE gw = "listening"
    /\ via' = [via EXCEPT ![j] = t]
    /\ conn' = [conn EXCEPT ![j] = "open"]
    /\ UNCHANGED <<vars, mainVars, grpc>>

(* The handler of an open connection calls Submit. Nothing but Submit's    *)
(* own test of the drain flag stops it, however long ago the signal came.  *)
Call(j, r) ==
    /\ process = "up" /\ conn[j] = "open"
    /\ Admit(j, r)
    /\ UNCHANGED lifeVars

Submitting == {"admitted", "backlog", "scan", "routed"}

(* The handler returns: without a job, or with an answer, by its deadline  *)
(* or because the client is gone. The job stays where it is.               *)
Leave(j) ==
    /\ process = "up" /\ conn[j] = "open" /\ jpc[j] \notin Submitting
    /\ conn' = [conn EXCEPT ![j] = "over"]
    /\ UNCHANGED <<vars, mainVars, grpc, via>>

-----------------------------------------------------------------------------
(* main *)

(* b.Start fails: log.Fatalf. *)
StartFatal ==
    /\ process = "up" /\ StartFails
    /\ process' = "fatal"
    /\ UNCHANGED <<signalled, gw, grpc, connVars>>

(* The signal only ends sigCtx, and nothing looks at that before gw.Start. *)
SignalArrives ==
    /\ process = "up" /\ ~signalled
    /\ signalled' = TRUE
    /\ UNCHANGED <<vars, process, gw, grpc, connVars>>

GrpcUp ==
    /\ process = "up" /\ phase = "serving" /\ grpc = "off" /\ ~cancelled
    /\ grpc' = "up"
    /\ UNCHANGED <<vars, mainVars, connVars>>

GatewayUp ==
    /\ process = "up" /\ phase = "serving" /\ gw = "down"
    /\ gw' = "listening"
    /\ UNCHANGED <<vars, process, signalled, grpc, connVars>>

(* ListenAndServe fails, at once or later, and gw.Start returns its error: *)
(* log.Fatalf. (A failure of the gRPC server is only logged: nothing more  *)
(* arrives there.)                                                         *)
ListenFails ==
    /\ process = "up" /\ phase = "serving" /\ gw \in {"down", "listening"}
    /\ process' = "fatal"
    /\ UNCHANGED <<vars, signalled, gw, grpc, connVars>>

(* server.Shutdown closes the listener and waits for the requests. *)
Shutdown ==
    /\ process = "up" /\ phase = "serving" /\ signalled /\ gw \in {"down", "listening"}
    /\ gw' = "closing"
    /\ UNCHANGED <<vars, process, signalled, grpc, connVars>>

(* Fault: the listener is closed and the requests are left alone. *)
ShutdownDoneAtOnce ==
    /\ process = "up" /\ gw = "closing"
    /\ gw' = "closed"
    /\ UNCHANGED <<vars, process, signalled, grpc, connVars>>

ShutdownDone ==
    /\ process = "up" /\ gw = "closing" /\ Requesting = {}
    /\ gw' = "closed"
    /\ UNCHANGED <<vars, process, signalled, grpc, connVars>>

(* Fault: Shutdown has no deadline. *)
ShutdownWithoutDeadline ==
    /\ process = "up" /\ gw = "closing" /\ Requesting = {}
    /\ process' = "fatal"
    /\ UNCHANGED <<vars, signalled, gw, grpc, connVars>>

(* The 5 s of shutCtx are over and a request is still open (handlers wait  *)
(* 30 s or 120 s): Shutdown returns an error, main calls log.Fatalf.       *)
ShutdownTimeout ==
    /\ process = "up" /\ gw = "closing" /\ Requesting # {}
    /\ process' = "fatal"
    /\ UNCHANGED <<vars, signalled, gw, grpc, connVars>>

BeginDrain ==
    /\ process = "up" /\ gw = "closed"
    /\ DrainBegin
    /\ UNCHANGED lifeVars

(* The gRPC server's goroutine sees brokerCtx; main does not wait for it. *)
GrpcStop ==
    /\ process = "up" /\ cancelled /\ grpc = "up"
    /\ grpc' = "stopping"
    /\ UNCHANGED <<vars, mainVars, connVars>>

(* main returns right after brokerCancel. *)
Exit ==
    /\ process = "up" /\ cancelled
    /\ process' = "exited"
    /\ UNCHANGED <<vars, signalled, gw, grpc, connVars>>

-----------------------------------------------------------------------------
(* A step of the broker that no other part of the program takes part in. *)
BrokerStep ==
    /\ process = "up"
    /\ \/ \E w \in Workers : StartWorker(w) \/ Pop(w) \/ Work(w)
       \/ \E j \in Jobs : SubmitStep(j)
       \/ Started \/ DrainStep
    /\ UNCHANGED lifeVars

LifeNext ==
    \/ BrokerStep
    \/ \E j \in Jobs : \/ \E t \in Transports : Arrive(j, t)
                       \/ \E r \in Requests : Call(j, r)
                       \/ Leave(j)
    \/ StartFatal \/ SignalArrives \/ GrpcUp \/ GatewayUp \/ ListenFails
    \/ Shutdown \/ ShutdownDone \/ ShutdownTimeout \/ BeginDrain \/ GrpcStop \/ Exit

LifeSpec == LifeInit /\ [][LifeNext]_allVars

(* main's own goroutine after Start. It waits for others only next to a    *)
(* timer (5 s in Shutdown, 30 s in Drain), so it is always able to go on.  *)
MainStep ==
    \/ Shutdown \/ ShutdownDone \/ ShutdownTimeout \/ BeginDrain \/ Exit
    \/ process = "up" /\ DrainStep /\ UNCHANGED lifeVars

LifeFairSpec == LifeSpec /\ WF_allVars(MainStep)

-----------------------------------------------------------------------------
(* Properties that hold *)

(* Draining begins when the last HTTP request is over, so the window       *)
(* between Submit's test of the drain flag and its push is never hit by    *)
(* one: only WebSocket and gRPC jobs are pushed into a draining broker.    *)
LateOnlyByStreams == \A j \in late : via[j] \in {"ws", "grpc"}

(* Once the broker is started, a signal ends the process whatever the      *)
(* backends, the clients and the workers do or do not do.                  *)
StopEnds == (signalled /\ phase = "serving") ~> process # "up"

(* While nobody stops the process, every job in a queue that has a worker  *)
(* is finished, if workers run, backends answer or fail, and dialling      *)
(* succeeds in the end.                                                    *)
AcceptedFinishes ==
    Fairness => \A j \in Jobs : (jpc[j] = "queued" /\ WorkersOf(target[j]) # {})
                                    ~> (jpc[j] = "closed" \/ draining \/ process # "up")

-----------------------------------------------------------------------------
(* What the documentation says and the code does not do *)

(* CHANGELOG: on SIGTERM or SIGINT "in-flight jobs run to completion", but *)
(* for those the 30 s of the drain cut off.                                *)
InFlightComplete ==
    gw \in {"closing", "closed"} /\ process # "up" /\ drain # "timedout" =>
        \A j \in Jobs : jpc[j] # "held"
=============================================================================
