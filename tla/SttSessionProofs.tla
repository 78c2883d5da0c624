-------------------------- MODULE SttSessionProofs --------------------------
(* Theorems about one STT slot, for every number of jobs, results and audio *)
(* chunks, every capacity of ResultCh and both ways a server may close.     *)
EXTENDS SttSession, DataLemmas, TLAPS

-----------------------------------------------------------------------------
(* The inductive invariant *)

(* Where the worker is when callbacks may be wired or may still run, and   *)
(* when a job is in its hands.                                             *)
Wired == {"select", "audioWait", "clear", "null", "cbWait"}
HasJob == {"await", "starting", "wire"} \cup Wired

(* The jobs are popped in the order they were pushed. The one in hand is   *)
(* open and, until its callbacks are wired, its ResultCh is empty.         *)
JobInv ==
    /\ job <= queued /\ closed \subseteq 1 .. job
    /\ wpc \in HasJob => job \in Jobs /\ job \notin closed
    /\ wpc \in HasJob \ {"await"} => job \in ready
    /\ \A k \in Jobs : k > job => unread[k] = 0
    /\ wpc \in {"await", "starting", "wire"} => unread[job] = 0

(* A callback runs for the job in hand, about a result of that job. *)
CallbackInv ==
    /\ rpc \in {"callback", "signal"} => wpc \in Wired
    /\ rpc = "callback" => handler = job /\ rmsg \in Results /\ rmsg.of = job
    /\ cb # 0 => cb = job /\ wpc \in Wired \ {"cbWait"}
    /\ wpc \in {"null", "cbWait"} => jobDone

(* The listening frame is the last word of a recognition: whoever knows of *)
(* it, or has it before him on the wire, knows that nothing else follows.  *)
OnWire == \E n \in 1 .. Len(wire) : wire[n] = Listening
ListenInv ==
    /\ \A n \in 1 .. Len(wire) : wire[n] = Listening => n = Len(wire)
    /\ listened \/ rpc = "mu" \/ wpc = "starting" => wire = <<>>
    /\ OnWire \/ listened \/ rpc = "mu" \/ wpc = "starting" => srv \notin {"recognising", "stopped"}
    /\ listened => rpc # "mu" /\ wpc # "starting"
    /\ rpc = "mu" => wpc # "starting"

(* What the server does is what the worker and the audio sender believe. *)
ServerInv ==
    /\ ServerInStep
    /\ srv \in {"recognising", "stopped"} => srvJob \in Jobs
    /\ wpc = "wire" \/ apc \in {"loop", "chunk", "stopping"} => srv \notin {"listening", "stopped"}
    /\ apc = "stop" => ~Alive
    /\ wpc \in {"pop", "await", "starting", "wire", "after", "dialing", "exit"} => apc = "none"
    /\ wpc \in {"after", "dialing", "exit"} => srv = "closed" /\ wire = <<>>

(* While callbacks may be wired, only results of the job in hand are under *)
(* way or can be sent.                                                     *)
WireInv ==
    wpc \in {"wire"} \cup Wired =>
        /\ srv \in {"recognising", "stopped"} => srvJob = job
        /\ \A n \in 1 .. Len(wire) : wire[n] # Listening => wire[n].of = job

HasFinal == job \in Jobs /\ [kind |-> "final", of |-> job] \in delivered[job]

(* A job is completed by its final result, which was sent before. *)
FinalInv ==
    /\ NoCrossTalk /\ CompletedHasFinal
    /\ wpc \in {"select", "audioWait"} /\ (jobDone \/ rpc = "signal") => HasFinal
    /\ verdict = "completed" => HasFinal /\ wpc \in {"audioWait", "clear", "null", "cbWait"}

SessionInv ==
    TypeOK /\ JobInv /\ CallbackInv /\ ListenInv /\ ServerInv /\ WireInv /\ FinalInv

-----------------------------------------------------------------------------
(* The job in hand *)

(* What TypeOK says of the constants and of the numbers and sets of jobs. *)
LEMMA Basics ==
    ASSUME TypeOK
    PROVE  /\ NumJobs \in Nat /\ ResultCap \in Nat /\ ResultCap >= 1 /\ Jobs = 1 .. NumJobs
           /\ job \in Nat /\ queued \in Nat /\ job <= NumJobs /\ queued <= NumJobs
           /\ unread \in [Jobs -> 0 .. ResultCap]
BY BoundsAssumption DEF TypeOK, Jobs

(* The slot pops what was pushed, and closes a job once. *)
LEMMA JobStep ==
    ASSUME TypeOK, JobInv, CallbackInv, [Next]_vars
    PROVE  JobInv'
<1> USE DEF workerVars, resultVars, readerVars, audioVars, gatewayVars, serverVars, HasJob, Wired
<1>0. /\ NumJobs \in Nat /\ ResultCap \in Nat /\ ResultCap >= 1 /\ Jobs = 1 .. NumJobs
      /\ job \in Nat /\ queued \in Nat /\ job <= NumJobs /\ queued <= NumJobs
      /\ unread \in [Jobs -> 0 .. ResultCap]
  BY Basics
<1>1. CASE Pop
  <2>1. /\ job' = job + 1 /\ job < queued /\ wpc' = "await"
        /\ UNCHANGED <<queued, closed, ready, unread>>
    BY <1>1 DEF Pop
  <2>2. job' \in Jobs /\ job' \notin closed /\ unread[job'] = 0 /\ job' <= queued
    BY <1>0, <2>1 DEF JobInv
  <2>3. closed \subseteq 1 .. job' /\ \A k \in Jobs : k > job' => unread[k] = 0
    BY <1>0, <2>1 DEF JobInv
  <2> QED BY <2>1, <2>2, <2>3 DEF JobInv
<1>2. CASE AwaitListening
  BY <1>2 DEF AwaitListening, JobInv
<1>3. CASE AwaitDrop \/ StartFails
  <2>1. /\ wpc \in HasJob /\ wpc' = "readWait" /\ UNCHANGED <<job, queued>>
        /\ closed' = closed \cup {job} /\ unread' = [unread EXCEPT ![job] = @ + 1]
    BY <1>3 DEF AwaitDrop, StartFails, Leave, CloseJob, Send
  <2>2. job \in Jobs /\ \A k \in Jobs : k # job => unread'[k] = unread[k]
    BY <1>0, <2>1 DEF JobInv
  <2>3. closed' \subseteq 1 .. job /\ \A k \in Jobs : k > job => unread'[k] = 0
    BY <1>0, <2>1, <2>2 DEF JobInv
  <2> QED BY <2>1, <2>3 DEF JobInv
<1>4. CASE AwaitCtx \/ EndJob
  <2>1. /\ wpc \in HasJob /\ wpc' \in {"readWait", "pop"} /\ UNCHANGED <<job, queued, unread>>
        /\ closed' = closed \cup {job}
    BY <1>4 DEF AwaitCtx, EndJob, EndFrame, Completed, Leave, CloseJob
  <2>2. closed' \subseteq 1 .. job
    BY <1>0, <2>1 DEF JobInv
  <2> QED BY <2>1, <2>2 DEF JobInv
<1>5. ASSUME UNCHANGED <<job, queued, closed, ready, unread>>,
             wpc' \in HasJob => wpc \in HasJob \ {"await"},
             wpc' \in {"await", "starting", "wire"} => wpc \in {"starting", "wire"}
      PROVE  JobInv'
  BY <1>5 DEF JobInv
<1>6. CASE StartSent \/ Wire
  BY <1>5, <1>6 DEF StartSent, Wire
<1>7. CASE SelectDone \/ SelectTimeout \/ SelectConnErr \/ SelectCtx \/ AudioDone
  BY <1>5, <1>7 DEF SelectDone, SelectTimeout, SelectConnErr, SelectCtx, AudioDone, WaitFrame
<1>8. CASE ClearSignal \/ ClearNull
  BY <1>5, <1>8 DEF ClearSignal, ClearNull, ClearFrame
<1>9. CASE PopEnd
  BY <1>5, <1>9 DEF PopEnd, Leave
<1>10. CASE ReadDone \/ CloseLock \/ CloseConn \/ AfterSession \/ Redial \/ DialCancelled
  <2>1. UNCHANGED <<job, queued, closed, ready, unread>>
    BY <1>10 DEF ReadDone, CloseLock, CloseConn, AfterSession, Redial, DialCancelled, LoopFrame
  <2>2. wpc' \in {"close", "closing", "after", "dialing", "exit", "pop"}
    BY <1>10 DEF ReadDone, CloseLock, CloseConn, AfterSession, Redial, DialCancelled
  <2> QED BY <1>5, <2>1, <2>2
<1>11. CASE CallbackSends
  <2>1. /\ UNCHANGED <<job, queued, closed, ready, wpc>> /\ wpc \in Wired
        /\ unread' = [unread EXCEPT ![job] = @ + 1]
    BY <1>11 DEF CallbackSends, ReadFrame, Send, CallbackInv
  <2>2. \A k \in Jobs : k > job => unread'[k] = 0
    BY <1>0, <2>1 DEF JobInv
  <2> QED BY <2>1, <2>2 DEF JobInv
<1>12. CASE Enqueue
  <2>1. queued' = queued + 1 /\ UNCHANGED <<job, closed, ready, unread, wpc>>
    BY <1>12 DEF Enqueue
  <2>2. job <= queued'
    BY <1>0, <2>1 DEF JobInv
  <2> QED BY <2>1, <2>2 DEF JobInv
<1>13. ASSUME NEW k \in Jobs, TakeResult(k) PROVE JobInv'
  <2>1. /\ UNCHANGED <<job, queued, closed, ready, wpc>> /\ unread[k] > 0
        /\ unread' = [unread EXCEPT ![k] = @ - 1]
    BY <1>13 DEF TakeResult
  <2>2. \A i \in Jobs : unread[i] = 0 => unread'[i] = 0
    BY <1>0, <2>1
  <2> QED BY <1>0, <2>1, <2>2 DEF JobInv
<1>14. ASSUME UNCHANGED <<job, queued, closed, ready, unread, wpc>> PROVE JobInv'
  BY <1>14 DEF JobInv
<1>15. CASE ReadFrameFromWire \/ ReadListening \/ CallbackGivesUp \/ CallbackSignals \/ ReadEnds
  BY <1>14, <1>15
     DEF ReadFrameFromWire, ReadListening, CallbackGivesUp, CallbackSignals, ReadEnds, ReadFrame
<1>16. CASE Audio
  BY <1>14, <1>16 DEF Audio, ChunkLock, ChunkSent, StopLock, StopSent, AudioFrame
<1>17. CASE Server \/ Shutdown \/ UNCHANGED vars \/ \E k \in Jobs : CloseAudio(k)
  BY <1>14, <1>17 DEF Server, ServerResult, ServerListens, ServerGone, Stall, Unstall, ServerFrame,
     Shutdown, vars, CloseAudio
<1> QED BY <1>1, <1>2, <1>3, <1>4, <1>6, <1>7, <1>8, <1>9, <1>10, <1>11, <1>12, <1>13, <1>15, <1>16, <1>17
        DEF Next, Worker, Reader, Gateway

-----------------------------------------------------------------------------
(* Callbacks *)

(* A callback runs only while the worker waits for it, for its own job. *)
LEMMA CallbackStep ==
    ASSUME TypeOK, CallbackInv, WireInv, [Next]_vars
    PROVE  CallbackInv'
<1> USE DEF workerVars, resultVars, readerVars, audioVars, gatewayVars, serverVars, Wired
<1>1. ASSUME UNCHANGED <<rpc, rmsg, handler, cb, jobDone, job>>, wpc \in Wired => wpc' \in Wired,
             wpc \in Wired \ {"cbWait"} => wpc' \in Wired \ {"cbWait"},
             wpc' \in {"null", "cbWait"} => wpc \in {"null", "cbWait"}
      PROVE  CallbackInv'
  BY <1>1 DEF CallbackInv
<1>2. CASE Pop
  BY <1>2 DEF Pop, CallbackInv
<1>3. CASE PopEnd \/ AwaitListening \/ AwaitDrop \/ AwaitCtx \/ StartSent \/ StartFails
  <2>1. UNCHANGED <<rpc, rmsg, handler, cb, jobDone, job>> /\ wpc \notin Wired
    BY <1>3 DEF PopEnd, AwaitListening, AwaitDrop, AwaitCtx, StartSent, StartFails
  <2>2. wpc' \in {"readWait", "starting", "wire"}
    BY <1>3 DEF PopEnd, AwaitListening, AwaitDrop, AwaitCtx, StartSent, StartFails, Leave
  <2> QED BY <1>1, <2>1, <2>2
<1>4. CASE Wire
  BY <1>4 DEF Wire, CallbackInv
<1>5. CASE SelectDone \/ SelectTimeout \/ SelectConnErr \/ SelectCtx \/ AudioDone
  BY <1>1, <1>5 DEF SelectDone, SelectTimeout, SelectConnErr, SelectCtx, AudioDone, WaitFrame
<1>6. CASE ClearSignal \/ ClearNull
  BY <1>6 DEF ClearSignal, ClearNull, ClearFrame, CallbackInv
<1>7. CASE EndJob
  <2>1. /\ wpc = "cbWait" /\ wpc' \in {"pop", "readWait"} /\ rpc \notin {"callback", "signal"}
        /\ UNCHANGED <<rpc, cb>>
    BY <1>7 DEF EndJob, EndFrame, Completed, Leave
  <2> QED BY <2>1 DEF CallbackInv
<1>8. CASE ReadDone \/ CloseLock \/ CloseConn \/ AfterSession \/ DialCancelled
  <2>1. UNCHANGED <<rpc, rmsg, handler, cb, jobDone, job>> /\ wpc \notin Wired
    BY <1>8 DEF ReadDone, CloseLock, CloseConn, AfterSession, DialCancelled, LoopFrame
  <2>2. wpc' \in {"close", "closing", "after", "dialing", "exit"}
    BY <1>8 DEF ReadDone, CloseLock, CloseConn, AfterSession, DialCancelled
  <2> QED BY <1>1, <2>1, <2>2
<1>9. CASE Redial
  BY <1>9 DEF Redial, LoopFrame, CallbackInv
<1>10. CASE ReadFrameFromWire
  <2>1. UNCHANGED <<wpc, job, cb, jobDone>>
    BY <1>10 DEF ReadFrameFromWire, ReadFrame
  <2>2. CASE Head(wire) = Listening /\ rpc' = "mu"
    BY <2>1, <2>2 DEF CallbackInv
  <2>3. CASE UNCHANGED <<rpc, rmsg, handler>>
    BY <2>1, <2>3 DEF CallbackInv
  <2>4. CASE Head(wire) # Listening /\ cb # 0 /\ rpc' = "callback" /\ rmsg' = Head(wire) /\ handler' = cb
    <3>1. cb = job /\ wpc \in Wired
      BY <2>4 DEF CallbackInv
    <3>2. wire \in Seq(Results \cup {Listening}) /\ wire # <<>>
      BY <1>10 DEF ReadFrameFromWire, TypeOK
    <3>3. 1 \in 1 .. Len(wire) /\ Head(wire) = wire[1] /\ wire[1] \in Results \cup {Listening}
      BY <3>2
    <3>4. rmsg' \in Results /\ rmsg'.of = job
      BY <2>4, <3>1, <3>3 DEF WireInv
    <3> QED BY <2>1, <2>4, <3>1, <3>4 DEF CallbackInv
  <2> QED BY <1>10, <2>2, <2>3, <2>4 DEF ReadFrameFromWire
<1>11. CASE ReadListening \/ ReadEnds
  <2>1. UNCHANGED <<wpc, job, cb, jobDone>> /\ rpc' \in {"read", "done"}
    BY <1>11 DEF ReadListening, ReadEnds, ReadFrame
  <2> QED BY <2>1 DEF CallbackInv
<1>12. CASE CallbackSends \/ CallbackGivesUp
  <2>1. UNCHANGED <<wpc, job, cb, jobDone>> /\ rpc' \in {"read", "signal"} /\ rpc = "callback"
    BY <1>12 DEF CallbackSends, CallbackGivesUp, AfterSend, ReadFrame
  <2> QED BY <2>1 DEF CallbackInv
<1>13. CASE CallbackSignals
  <2>1. UNCHANGED <<wpc, job, cb>> /\ rpc' = "read" /\ jobDone'
    BY <1>13 DEF CallbackSignals, ReadFrame
  <2> QED BY <2>1 DEF CallbackInv
<1>14. CASE Audio
  BY <1>1, <1>14 DEF Audio, ChunkLock, ChunkSent, StopLock, StopSent, AudioFrame
<1>15. CASE Gateway \/ Shutdown \/ UNCHANGED vars
  BY <1>1, <1>15 DEF Gateway, Enqueue, CloseAudio, TakeResult, Shutdown, vars
<1>16. CASE Server
  BY <1>1, <1>16 DEF Server, ServerResult, ServerListens, ServerGone, Stall, Unstall, ServerFrame
<1> QED BY <1>2, <1>3, <1>4, <1>5, <1>6, <1>7, <1>8, <1>9, <1>10, <1>11, <1>12, <1>13, <1>14, <1>15, <1>16
        DEF Next, Worker, Reader

-----------------------------------------------------------------------------
(* The wire *)

(* A result is not the listening frame. *)
LEMMA ResultFrame ==
    ASSUME NEW kind \in Kinds, NEW k
    PROVE  /\ [kind |-> kind, of |-> k] # Listening
           /\ k \in Jobs => [kind |-> kind, of |-> k] \in Results
BY DEF Kinds, Listening, Results

(* The listening frame stays the last word of a recognition. *)
LEMMA ListenStep ==
    ASSUME TypeOK, ListenInv, ServerInv, [Next]_vars
    PROVE  ListenInv'
<1> USE DEF workerVars, resultVars, readerVars, audioVars, gatewayVars, serverVars
<1>0. wire \in Seq(Results \cup {Listening}) /\ Len(wire) \in Nat
  BY DEF TypeOK
<1>1. ASSUME UNCHANGED <<wire, rpc, srv>>, listened' => listened, wpc' = "starting" => wpc = "starting"
      PROVE  ListenInv'
  BY <1>1 DEF ListenInv, OnWire
<1>2. CASE AwaitListening
  <2>1. listened /\ ~listened' /\ wpc' = "starting" /\ UNCHANGED <<wire, rpc, srv>>
    BY <1>2 DEF AwaitListening
  <2> QED BY <2>1 DEF ListenInv, OnWire
<1>3. CASE StartSent
  <2>1. wpc = "starting" /\ wpc' = "wire" /\ UNCHANGED <<wire, rpc, listened>>
    BY <1>3 DEF StartSent
  <2>2. wire = <<>> /\ ~listened /\ rpc # "mu"
    BY <2>1 DEF ListenInv
  <2> QED BY <2>1, <2>2 DEF ListenInv, OnWire
<1>4. CASE Pop \/ PopEnd \/ AwaitDrop \/ AwaitCtx \/ StartFails \/ Wire
  <2>1. UNCHANGED <<wire, rpc, srv, listened>>
    BY <1>4 DEF Pop, PopEnd, AwaitDrop, AwaitCtx, StartFails, Wire
  <2>2. wpc' # "starting"
    BY <1>4 DEF Pop, PopEnd, AwaitDrop, AwaitCtx, StartFails, Wire, Leave
  <2> QED BY <1>1, <2>1, <2>2
<1>5. CASE SelectDone \/ SelectTimeout \/ SelectConnErr \/ SelectCtx \/ AudioDone
  BY <1>1, <1>5 DEF SelectDone, SelectTimeout, SelectConnErr, SelectCtx, AudioDone, WaitFrame
<1>6. CASE ClearSignal \/ ClearNull
  BY <1>1, <1>6 DEF ClearSignal, ClearNull, ClearFrame
<1>7. CASE EndJob
  BY <1>1, <1>7 DEF EndJob, EndFrame, Completed, Leave
<1>8. CASE ReadDone \/ CloseLock \/ AfterSession \/ DialCancelled
  <2>1. UNCHANGED <<wire, rpc, srv, listened>>
    BY <1>8 DEF ReadDone, CloseLock, AfterSession, DialCancelled
  <2>2. wpc' # "starting"
    BY <1>8 DEF ReadDone, CloseLock, AfterSession, DialCancelled
  <2> QED BY <1>1, <2>1, <2>2
<1>9. CASE CloseConn
  <2>1. wire' = <<>> /\ srv' = "closed" /\ wpc' = "after" /\ UNCHANGED <<rpc, listened>>
    BY <1>9 DEF CloseConn
  <2> QED BY <2>1 DEF ListenInv, OnWire
<1>10. CASE Redial
  <2>1. /\ wpc = "dialing" /\ wpc' = "pop" /\ rpc' = "read" /\ srv' = "listening" /\ UNCHANGED wire
    BY <1>10 DEF Redial
  <2>2. wire = <<>>
    BY <2>1 DEF ServerInv
  <2> QED BY <2>1, <2>2 DEF ListenInv, OnWire
<1>11. CASE ReadFrameFromWire
  <2>1. UNCHANGED <<wpc, srv, listened>> /\ wire' = Tail(wire) /\ wire # <<>> /\ rpc = "read"
    BY <1>11 DEF ReadFrameFromWire, ReadFrame
  <2>2. /\ Head(wire) = wire[1] /\ 1 \in 1 .. Len(wire) /\ Len(wire') = Len(wire) - 1
        /\ \A n \in 1 .. Len(wire') : n + 1 \in 1 .. Len(wire) /\ wire'[n] = wire[n + 1]
        /\ Len(wire) = 1 => wire' = <<>>
    BY <1>0, <2>1, TakeFirst
  <2>3. ~listened /\ wpc # "starting"
    BY <2>1 DEF ListenInv
  <2>4. \A n \in 1 .. Len(wire') : wire'[n] = Listening => n = Len(wire') /\ OnWire
    BY <1>0, <2>2 DEF ListenInv, OnWire
  <2>5. CASE rpc' = "mu" /\ Head(wire) = Listening
    <3>1. Len(wire) = 1 /\ OnWire
      BY <2>2, <2>5 DEF ListenInv, OnWire
    <3>2. wire' = <<>> /\ srv \notin {"recognising", "stopped"}
      BY <2>2, <3>1 DEF ListenInv
    <3> QED BY <2>1, <2>3, <2>4, <3>2 DEF ListenInv
  <2>6. CASE rpc' \in {"read", "callback"}
    BY <2>1, <2>3, <2>4, <2>6 DEF ListenInv, OnWire
  <2> QED BY <1>11, <2>5, <2>6 DEF ReadFrameFromWire
<1>12. CASE ReadListening
  <2>1. rpc = "mu" /\ rpc' = "read" /\ UNCHANGED <<wpc, srv, wire>>
    BY <1>12 DEF ReadListening, ReadFrame
  <2> QED BY <2>1 DEF ListenInv, OnWire
<1>13. CASE CallbackSends \/ CallbackGivesUp \/ CallbackSignals \/ ReadEnds
  <2>1. UNCHANGED <<wpc, srv, wire, listened>> /\ rpc' # "mu"
    BY <1>13 DEF CallbackSends, CallbackGivesUp, CallbackSignals, ReadEnds, ReadFrame, AfterSend
  <2> QED BY <2>1 DEF ListenInv, OnWire
<1>14. CASE ChunkLock \/ StopLock
  BY <1>1, <1>14 DEF ChunkLock, StopLock, AudioFrame
<1>15. CASE ChunkSent \/ StopSent
  <2>1. UNCHANGED <<wpc, rpc, wire, listened>> /\ apc \in {"chunk", "stopping"}
    BY <1>15 DEF ChunkSent, StopSent, AudioFrame
  <2>2. UNCHANGED srv \/ (Alive /\ srv' \in {srv, "stopped", "confused"})
    BY <1>15 DEF ChunkSent, StopSent, SrvAudio, SrvStop, Readable
  <2>3. Alive => srv = "recognising"
    BY <2>1 DEF ServerInv, ServerInStep, Alive
  <2> QED BY <1>1, <2>1, <2>2, <2>3 DEF ListenInv, OnWire
<1>16. CASE ServerResult
  <2>1. PICK kind \in Kinds : wire' = Append(wire, [kind |-> kind, of |-> srvJob])
    BY <1>16 DEF ServerResult
  <2>2. UNCHANGED <<wpc, rpc, listened, srv>> /\ srv \in {"recognising", "stopped"}
    BY <1>16 DEF ServerResult, ServerFrame
  <2> DEFINE f == [kind |-> kind, of |-> srvJob]
  <2>3. f \in Results \cup {Listening} /\ f # Listening
    BY <2>2, ResultFrame DEF ServerInv
  <2> HIDE DEF f
  <2>4. /\ Len(wire') = Len(wire) + 1 /\ wire'[Len(wire) + 1] = f
        /\ \A n \in 1 .. Len(wire) : wire'[n] = wire[n]
    BY <1>0, <2>1, <2>3, AddLast DEF f
  <2>5. ~OnWire /\ ~listened /\ rpc # "mu" /\ wpc # "starting"
    BY <2>2 DEF ListenInv
  <2>6. \A n \in 1 .. Len(wire') : wire'[n] # Listening
    BY <1>0, <2>3, <2>4, <2>5 DEF OnWire
  <2> QED BY <2>2, <2>5, <2>6 DEF ListenInv, OnWire
<1>17. CASE ServerListens
  <2>1. /\ UNCHANGED <<wpc, rpc, listened>> /\ srv = "stopped" /\ srv' = "listening"
        /\ wire' = Append(wire, Listening)
    BY <1>17 DEF ServerListens, ServerFrame
  <2>2. ~OnWire /\ ~listened /\ rpc # "mu" /\ wpc # "starting"
    BY <2>1 DEF ListenInv
  <2>3. Listening \in Results \cup {Listening}
    OBVIOUS
  <2>4. /\ Len(wire') = Len(wire) + 1 /\ \A n \in 1 .. Len(wire) : wire'[n] = wire[n]
    BY <1>0, <2>1, <2>3, AddLast
  <2>5. \A n \in 1 .. Len(wire') : wire'[n] = Listening => n = Len(wire')
    BY <1>0, <2>2, <2>4 DEF OnWire
  <2> QED BY <2>1, <2>2, <2>5 DEF ListenInv
<1>18. CASE ServerGone
  <2>1. UNCHANGED <<wpc, rpc, listened>> /\ srv' \in {"reset", "closed"} /\ wire' \in {wire, <<>>}
    BY <1>18 DEF ServerGone, ServerFrame
  <2> QED BY <2>1 DEF ListenInv, OnWire
<1>19. CASE Stall \/ Unstall \/ Gateway \/ Shutdown \/ UNCHANGED vars
  BY <1>1, <1>19 DEF Stall, Unstall, ServerFrame, Gateway, Enqueue, CloseAudio, TakeResult, Shutdown, vars
<1> QED BY <1>2, <1>3, <1>4, <1>5, <1>6, <1>7, <1>8, <1>9, <1>10, <1>11, <1>12, <1>13, <1>14, <1>15,
           <1>16, <1>17, <1>18, <1>19 DEF Next, Worker, Reader, Audio, Server

(* The server is where the code takes it to be. *)
LEMMA ServerStep ==
    ASSUME TypeOK, JobInv, ListenInv, ServerInv, [Next]_vars
    PROVE  ServerInv'
<1> USE DEF workerVars, resultVars, readerVars, audioVars, gatewayVars, serverVars
<1> DEFINE Still == {"pop", "await", "starting", "wire", "after", "dialing", "exit"}
<1>1. ASSUME UNCHANGED <<srv, srvJob, apc>>, wpc' = "wire" => wpc = "wire",
             wpc' \in Still => wpc \in Still,
             wpc' \in {"after", "dialing", "exit"} => wpc \in {"after", "dialing", "exit"},
             wire = <<>> => wire' = <<>>
      PROVE  ServerInv'
  BY <1>1 DEF ServerInv, ServerInStep, Alive
<1>2. CASE Pop \/ PopEnd \/ AwaitListening \/ AwaitDrop \/ AwaitCtx \/ StartFails
  <2>1. UNCHANGED <<srv, srvJob, apc, wire>> /\ wpc \in Still
    BY <1>2 DEF Pop, PopEnd, AwaitListening, AwaitDrop, AwaitCtx, StartFails
  <2>2. wpc' \in {"await", "readWait", "starting"}
    BY <1>2 DEF Pop, PopEnd, AwaitListening, AwaitDrop, AwaitCtx, StartFails, Leave
  <2> QED BY <1>1, <2>1, <2>2
<1>3. CASE StartSent
  <2>1. wpc = "starting" /\ wpc' = "wire" /\ UNCHANGED <<apc, wire>>
    BY <1>3 DEF StartSent
  <2>2. apc = "none" /\ srv \notin {"recognising", "stopped", "confused"} /\ job \in Jobs
    BY <2>1 DEF ServerInv, ServerInStep, ListenInv, JobInv, HasJob
  <2>3. (srv' = "recognising" /\ srvJob' = job) \/ (~Alive /\ UNCHANGED <<srv, srvJob>>)
    BY <1>3, <2>2 DEF StartSent, SrvStart, Readable, Alive
  <2> QED BY <2>1, <2>2, <2>3 DEF ServerInv, ServerInStep, Alive
<1>4. CASE Wire
  <2>1. wpc = "wire" /\ wpc' = "select" /\ apc' = "loop" /\ UNCHANGED <<srv, srvJob, wire>>
    BY <1>4 DEF Wire
  <2> QED BY <2>1 DEF ServerInv, ServerInStep
<1>5. CASE SelectDone \/ SelectTimeout \/ SelectConnErr \/ SelectCtx \/ AudioDone
  BY <1>1, <1>5 DEF SelectDone, SelectTimeout, SelectConnErr, SelectCtx, AudioDone, WaitFrame
<1>6. CASE ClearSignal \/ ClearNull
  BY <1>1, <1>6 DEF ClearSignal, ClearNull, ClearFrame
<1>7. CASE EndJob
  <2>1. /\ UNCHANGED <<srv, srvJob, wire>>
        /\ (wpc' = "pop" /\ apc' = "none") \/ (wpc' = "readWait" /\ UNCHANGED apc)
    BY <1>7 DEF EndJob, EndFrame, Completed, Leave
  <2> QED BY <2>1 DEF ServerInv, ServerInStep, Alive
<1>8. CASE ReadDone \/ CloseLock \/ AfterSession \/ DialCancelled
  <2>1. UNCHANGED <<srv, srvJob, apc, wire>>
    BY <1>8 DEF ReadDone, CloseLock, AfterSession, DialCancelled
  <2>2. \/ wpc' \in {"close", "closing"}
        \/ wpc' \in {"dialing", "exit"} /\ wpc \in {"after", "dialing"}
    BY <1>8 DEF ReadDone, CloseLock, AfterSession, DialCancelled
  <2> QED BY <1>1, <2>1, <2>2
<1>9. CASE CloseConn
  <2>1. wpc' = "after" /\ apc' = "none" /\ srv' = "closed" /\ wire' = <<>>
    BY <1>9 DEF CloseConn
  <2> QED BY <2>1 DEF ServerInv, ServerInStep, Alive
<1>10. CASE Redial
  <2>1. wpc = "dialing" /\ wpc' = "pop" /\ srv' = "listening" /\ UNCHANGED <<apc, wire, srvJob>>
    BY <1>10 DEF Redial
  <2> QED BY <2>1 DEF ServerInv, ServerInStep, Alive
<1>11. CASE Reader
  <2>1. UNCHANGED <<srv, srvJob, apc, wpc>>
    BY <1>11 DEF Reader, ReadFrameFromWire, ReadListening, CallbackSends, CallbackGivesUp,
       CallbackSignals, ReadEnds, ReadFrame
  <2>2. wire = <<>> => wire' = <<>>
    BY <1>11 DEF Reader, ReadFrameFromWire, ReadListening, CallbackSends, CallbackGivesUp,
       CallbackSignals, ReadEnds
  <2> QED BY <1>1, <2>1, <2>2
<1>12. CASE ChunkLock \/ StopLock
  <2>1. UNCHANGED <<srv, srvJob, wpc, wire>> /\ apc \in {"loop", "stop"} /\ apc' \in {"chunk", "stopping"}
    BY <1>12 DEF ChunkLock, StopLock, AudioFrame
  <2>2. wpc \notin Still /\ srv \notin {"listening", "stopped"}
    BY <2>1 DEF ServerInv, Alive
  <2> QED BY <2>1, <2>2 DEF ServerInv, ServerInStep
<1>13. CASE ChunkSent \/ StopSent
  <2>1. UNCHANGED <<srvJob, wpc, wire>> /\ apc \in {"chunk", "stopping"}
    BY <1>13 DEF ChunkSent, StopSent, AudioFrame
  <2>2. wpc \notin Still /\ srv \notin {"listening", "stopped", "confused"}
    BY <2>1 DEF ServerInv, ServerInStep
  <2>3. \/ srv = "recognising" /\ srv' = "recognising" /\ apc' = "loop"
        \/ srv = "recognising" /\ srv' = "stopped" /\ apc' = "done"
        \/ ~Alive /\ UNCHANGED srv /\ apc' \in {"loop", "stop", "done"}
    BY <1>13, <2>2 DEF ChunkSent, StopSent, SrvAudio, SrvStop, Readable, Alive
  <2> QED BY <2>1, <2>2, <2>3 DEF ServerInv, ServerInStep, Alive
<1>14. CASE ServerResult \/ ServerListens \/ ServerGone
  <2>1. UNCHANGED <<wpc, apc>> /\ Alive
    BY <1>14 DEF ServerResult, ServerListens, ServerGone, ServerFrame, Alive
  <2>2. \/ UNCHANGED <<srv, srvJob>>
        \/ srv = "stopped" /\ srv' = "listening"
        \/ srv' \in {"reset", "closed"}
    BY <1>14 DEF ServerResult, ServerListens, ServerGone
  <2>3. wpc \notin {"after", "dialing", "exit"}
    BY <2>1 DEF ServerInv, Alive
  <2> QED BY <2>1, <2>2, <2>3 DEF ServerInv, ServerInStep, Alive
<1>15. CASE Stall \/ Unstall \/ Gateway \/ Shutdown \/ UNCHANGED vars
  BY <1>1, <1>15 DEF Stall, Unstall, ServerFrame, Gateway, Enqueue, CloseAudio, TakeResult, Shutdown, vars
<1> QED BY <1>2, <1>3, <1>4, <1>5, <1>6, <1>7, <1>8, <1>9, <1>10, <1>11, <1>12, <1>13, <1>14, <1>15
        DEF Next, Worker, Audio, Server

(* No result of an earlier recognition is left when callbacks are wired. *)
LEMMA WireStep ==
    ASSUME TypeOK, JobInv, ListenInv, ServerInv, WireInv, [Next]_vars
    PROVE  WireInv'
<1> USE DEF workerVars, resultVars, readerVars, audioVars, gatewayVars, serverVars, Wired
<1>0. wire \in Seq(Results \cup {Listening}) /\ Len(wire) \in Nat
  BY DEF TypeOK
<1>1. ASSUME UNCHANGED <<job, srv, srvJob, wire>>,
             wpc' \in {"wire"} \cup Wired => wpc \in {"wire"} \cup Wired
      PROVE  WireInv'
  BY <1>1 DEF WireInv
<1>2. CASE Pop \/ PopEnd \/ AwaitListening \/ AwaitDrop \/ AwaitCtx \/ StartFails
  <2>1. wpc' \in {"await", "readWait", "starting"}
    BY <1>2 DEF Pop, PopEnd, AwaitListening, AwaitDrop, AwaitCtx, StartFails, Leave
  <2> QED BY <2>1 DEF WireInv
<1>3. CASE StartSent
  <2>1. wpc = "starting" /\ UNCHANGED <<job, wire>>
    BY <1>3 DEF StartSent
  <2>2. wire = <<>>
    BY <2>1 DEF ListenInv
  <2>3. srvJob' = job \/ srv' \notin {"recognising", "stopped"}
    BY <1>3 DEF StartSent, Alive
  <2> QED BY <2>1, <2>2, <2>3 DEF WireInv
<1>4. CASE Wire
  BY <1>1, <1>4 DEF Wire
<1>5. CASE SelectDone \/ SelectTimeout \/ SelectConnErr \/ SelectCtx \/ AudioDone
  BY <1>1, <1>5 DEF SelectDone, SelectTimeout, SelectConnErr, SelectCtx, AudioDone, WaitFrame
<1>6. CASE ClearSignal \/ ClearNull
  BY <1>1, <1>6 DEF ClearSignal, ClearNull, ClearFrame
<1>7. CASE EndJob
  <2>1. wpc' \in {"pop", "readWait"}
    BY <1>7 DEF EndJob, Completed, Leave
  <2> QED BY <2>1 DEF WireInv
<1>8. CASE ReadDone \/ CloseLock \/ CloseConn \/ AfterSession \/ Redial \/ DialCancelled
  <2>1. wpc' \in {"close", "closing", "after", "dialing", "exit", "pop"}
    BY <1>8 DEF ReadDone, CloseLock, CloseConn, AfterSession, Redial, DialCancelled
  <2> QED BY <2>1 DEF WireInv
<1>9. CASE ReadFrameFromWire
  <2>1. UNCHANGED <<wpc, job, srv, srvJob>> /\ wire' = Tail(wire) /\ wire # <<>>
    BY <1>9 DEF ReadFrameFromWire, ReadFrame
  <2>2. \A n \in 1 .. Len(wire') : n + 1 \in 1 .. Len(wire) /\ wire'[n] = wire[n + 1]
    BY <1>0, <2>1, TakeFirst
  <2> QED BY <2>1, <2>2 DEF WireInv
<1>10. CASE ReadListening \/ CallbackSends \/ CallbackGivesUp \/ CallbackSignals \/ ReadEnds
  BY <1>1, <1>10
     DEF ReadListening, CallbackSends, CallbackGivesUp, CallbackSignals, ReadEnds, ReadFrame
<1>11. CASE ChunkLock \/ StopLock
  BY <1>1, <1>11 DEF ChunkLock, StopLock, AudioFrame
<1>12. CASE ChunkSent \/ StopSent
  <2>1. UNCHANGED <<wpc, job, srvJob, wire>> /\ apc \in {"chunk", "stopping"}
    BY <1>12 DEF ChunkSent, StopSent, AudioFrame
  <2>2. UNCHANGED srv \/ Alive
    BY <1>12 DEF ChunkSent, StopSent, Readable
  <2>3. Alive => srv = "recognising"
    BY <2>1 DEF ServerInv, ServerInStep, Alive
  <2> QED BY <2>1, <2>2, <2>3 DEF WireInv
<1>13. CASE ServerResult
  <2>1. PICK kind \in Kinds : wire' = Append(wire, [kind |-> kind, of |-> srvJob])
    BY <1>13 DEF ServerResult
  <2>2. UNCHANGED <<wpc, job, srv, srvJob>> /\ srv \in {"recognising", "stopped"}
    BY <1>13 DEF ServerResult, ServerFrame
  <2> DEFINE f == [kind |-> kind, of |-> srvJob]
  <2>3. f \in Results \cup {Listening} /\ f.of = srvJob
    BY <2>2, ResultFrame DEF ServerInv
  <2> HIDE DEF f
  <2>4. /\ Len(wire') = Len(wire) + 1 /\ wire'[Len(wire) + 1] = f
        /\ \A n \in 1 .. Len(wire) : wire'[n] = wire[n]
    BY <1>0, <2>1, <2>3, AddLast DEF f
  <2>5. \A n \in 1 .. Len(wire') : (n \in 1 .. Len(wire) /\ wire'[n] = wire[n]) \/ wire'[n] = f
    BY <1>0, <2>4
  <2> QED BY <2>2, <2>3, <2>5 DEF WireInv
<1>14. CASE ServerListens
  <2>1. UNCHANGED <<wpc, job>> /\ srv' = "listening" /\ wire' = Append(wire, Listening)
    BY <1>14 DEF ServerListens, ServerFrame
  <2>2. Listening \in Results \cup {Listening}
    OBVIOUS
  <2>3. /\ Len(wire') = Len(wire) + 1 /\ wire'[Len(wire) + 1] = Listening
        /\ \A n \in 1 .. Len(wire) : wire'[n] = wire[n]
    BY <1>0, <2>1, <2>2, AddLast
  <2>4. \A n \in 1 .. Len(wire') : (n \in 1 .. Len(wire) /\ wire'[n] = wire[n]) \/ wire'[n] = Listening
    BY <1>0, <2>3
  <2> QED BY <2>1, <2>4 DEF WireInv
<1>15. CASE ServerGone
  <2>1. UNCHANGED <<wpc, job>> /\ srv' \in {"reset", "closed"} /\ wire' \in {wire, <<>>}
    BY <1>15 DEF ServerGone, ServerFrame
  <2> QED BY <2>1 DEF WireInv
<1>16. CASE Stall \/ Unstall \/ Gateway \/ Shutdown \/ UNCHANGED vars
  BY <1>1, <1>16 DEF Stall, Unstall, ServerFrame, Gateway, Enqueue, CloseAudio, TakeResult, Shutdown, vars
<1> QED BY <1>2, <1>3, <1>4, <1>5, <1>6, <1>7, <1>8, <1>9, <1>10, <1>11, <1>12, <1>13, <1>14, <1>15, <1>16
        DEF Next, Worker, Reader, Audio, Server

-----------------------------------------------------------------------------
(* Results *)

(* What one Result adds. *)
LEMMA SendAdds ==
    ASSUME TypeOK, NEW k \in Jobs, NEW m \in Results, m.of = k, Send(k, m), NoCrossTalk
    PROVE  /\ delivered' \in [Jobs -> SUBSET Results] /\ m \in delivered'[k] /\ NoCrossTalk'
           /\ \A i \in Jobs : delivered[i] \subseteq delivered'[i]
           /\ delivered'[k] = delivered[k] \cup {m} /\ \A i \in Jobs : i # k => delivered'[i] = delivered[i]
<1>1. delivered \in [Jobs -> SUBSET Results] /\ delivered' = [delivered EXCEPT ![k] = @ \cup {m}]
  BY DEF TypeOK, Send
<1>2. /\ delivered' \in [Jobs -> SUBSET Results]
      /\ delivered'[k] = delivered[k] \cup {m} /\ \A i \in Jobs : i # k => delivered'[i] = delivered[i]
  BY <1>1
<1>3. NoCrossTalk'
  BY <1>2 DEF NoCrossTalk
<1> QED BY <1>2, <1>3

(* Only a final result, sent before, completes a job. *)
LEMMA FinalStep ==
    ASSUME TypeOK, JobInv, CallbackInv, FinalInv, [Next]_vars
    PROVE  FinalInv'
<1> USE DEF workerVars, resultVars, readerVars, audioVars, gatewayVars, serverVars, Wired
<1> DEFINE Late == {"audioWait", "clear", "null", "cbWait"}
<1>0. job \in Nat /\ Jobs = 1 .. NumJobs /\ NumJobs \in Nat /\ ready \subseteq Jobs /\ finished \subseteq Jobs
  BY BoundsAssumption DEF TypeOK, Jobs
<1>1. ASSUME UNCHANGED <<delivered, finished, job>>, ready \subseteq ready',
             wpc' \in {"select", "audioWait"} => wpc \in {"select", "audioWait"},
             jobDone' \/ rpc' = "signal" => jobDone \/ rpc = "signal" \/ wpc' \notin {"select", "audioWait"},
             verdict' = "completed" => verdict = "completed" /\ (wpc \in Late => wpc' \in Late)
      PROVE  FinalInv'
  <2>1. NoCrossTalk' /\ CompletedHasFinal' /\ (HasFinal => HasFinal')
    BY <1>1 DEF FinalInv, NoCrossTalk, CompletedHasFinal, HasFinal
  <2> QED BY <1>1, <2>1 DEF FinalInv
<1>2. ASSUME UNCHANGED finished, ready \subseteq ready', NEW m \in Results, m.of = job, job \in Jobs,
             Send(job, m)
      PROVE  /\ NoCrossTalk' /\ CompletedHasFinal' /\ m \in delivered'[job]
             /\ \A i \in Jobs : delivered[i] \subseteq delivered'[i]
  <2>1. /\ m \in delivered'[job] /\ NoCrossTalk' /\ \A i \in Jobs : delivered[i] \subseteq delivered'[i]
    BY <1>2, SendAdds DEF FinalInv
  <2>2. CompletedHasFinal'
    BY <1>0, <1>2, <2>1 DEF FinalInv, CompletedHasFinal
  <2> QED BY <2>1, <2>2
<1>3. CASE Pop
  <2>1. wpc = "pop" /\ wpc' = "await" /\ UNCHANGED <<delivered, finished, ready, verdict>>
    BY <1>3 DEF Pop
  <2> QED BY <2>1 DEF FinalInv, NoCrossTalk, CompletedHasFinal
<1>4. CASE PopEnd \/ AwaitListening \/ AwaitCtx \/ StartSent
  <2>1. UNCHANGED <<delivered, finished, job>> /\ ready \subseteq ready' /\ wpc \notin Late
    BY <1>4 DEF PopEnd, AwaitListening, AwaitCtx, StartSent
  <2>2. wpc' \notin {"select", "audioWait"} /\ verdict' \in {verdict, "ended", "ctx"}
    BY <1>4 DEF PopEnd, AwaitListening, AwaitCtx, StartSent, Leave
  <2> QED BY <1>1, <2>1, <2>2
<1>5. CASE AwaitDrop \/ StartFails
  <2>1. /\ UNCHANGED <<finished, job, ready>> /\ wpc \in HasJob
        /\ Send(job, [kind |-> "error", of |-> job]) /\ wpc' = "readWait" /\ verdict' = "dropped"
    BY <1>5 DEF AwaitDrop, StartFails, Leave, HasJob
  <2>2. job \in Jobs
    BY <2>1 DEF JobInv
  <2>3. [kind |-> "error", of |-> job] \in Results /\ [kind |-> "error", of |-> job].of = job
    BY <2>2, ResultFrame DEF Kinds
  <2>4. NoCrossTalk' /\ CompletedHasFinal'
    BY <1>2, <2>1, <2>2, <2>3
  <2> QED BY <2>1, <2>4 DEF FinalInv
<1>6. CASE Wire
  <2>1. /\ wpc = "wire" /\ wpc' = "select" /\ ~jobDone' /\ UNCHANGED <<rpc, verdict, delivered, finished, ready>>
    BY <1>6 DEF Wire
  <2>2. rpc # "signal" /\ verdict # "completed"
    BY <2>1 DEF CallbackInv, FinalInv
  <2> QED BY <2>1, <2>2 DEF FinalInv, NoCrossTalk, CompletedHasFinal
<1>7. CASE SelectDone
  <2>1. /\ wpc = "select" /\ jobDone /\ wpc' = "audioWait"
        /\ UNCHANGED <<delivered, finished, job, ready, jobDone, rpc>>
    BY <1>7 DEF SelectDone, WaitFrame
  <2>2. HasFinal'
    BY <2>1 DEF FinalInv, HasFinal
  <2> QED BY <2>1, <2>2 DEF FinalInv, NoCrossTalk, CompletedHasFinal
<1>8. CASE SelectTimeout \/ SelectConnErr \/ SelectCtx \/ AudioDone
  <2>1. UNCHANGED <<delivered, finished, job, ready, jobDone, rpc>> /\ wpc' = "clear"
    BY <1>8 DEF SelectTimeout, SelectConnErr, SelectCtx, AudioDone, WaitFrame
  <2>2. verdict' = "completed" => verdict = "completed"
    BY <1>8 DEF SelectTimeout, SelectConnErr, SelectCtx, AudioDone
  <2> QED BY <1>1, <2>1, <2>2
<1>9. CASE ClearSignal \/ ClearNull
  <2>1. UNCHANGED <<delivered, finished, job, ready, verdict>> /\ wpc' \in {"null", "cbWait"}
    BY <1>9 DEF ClearSignal, ClearNull, ClearFrame
  <2> QED BY <1>1, <2>1
<1>10. CASE EndJob
  <2>1. UNCHANGED <<delivered, job, ready>> /\ wpc = "cbWait"
    BY <1>10 DEF EndJob, EndFrame
  <2>2. CASE verdict = "completed" /\ Completed
    <3>1. HasFinal /\ job \in ready /\ finished' = finished \cup {job} /\ verdict' = "none" /\ wpc' = "pop"
      BY <2>1, <2>2 DEF FinalInv, Completed, JobInv, HasJob
    <3> QED BY <2>1, <3>1 DEF FinalInv, NoCrossTalk, CompletedHasFinal, HasFinal
  <2>3. CASE verdict # "completed" /\ Leave(verdict) /\ UNCHANGED finished
    BY <1>1, <2>1, <2>3 DEF Leave
  <2> QED BY <1>10, <2>2, <2>3 DEF EndJob
<1>11. CASE ReadDone \/ CloseLock \/ CloseConn \/ AfterSession \/ Redial \/ DialCancelled
  <2>1. UNCHANGED <<delivered, finished, job, ready>> /\ wpc \notin Late
    BY <1>11 DEF ReadDone, CloseLock, CloseConn, AfterSession, Redial, DialCancelled, LoopFrame
  <2>2. wpc' \notin {"select", "audioWait"} /\ verdict' \in {verdict, "none"}
    BY <1>11 DEF ReadDone, CloseLock, CloseConn, AfterSession, Redial, DialCancelled, LoopFrame
  <2> QED BY <1>1, <2>1, <2>2
<1>12. CASE ReadFrameFromWire \/ ReadListening \/ ReadEnds
  <2>1. UNCHANGED <<delivered, finished, job, ready, wpc, verdict, jobDone>>
    BY <1>12 DEF ReadFrameFromWire, ReadListening, ReadEnds, ReadFrame
  <2>2. rpc' = "signal" => rpc = "signal"
    BY <1>12 DEF ReadFrameFromWire, ReadListening, ReadEnds
  <2> QED BY <1>1, <2>1, <2>2
<1>13. CASE CallbackSends
  <2>1. /\ UNCHANGED <<finished, job, ready, wpc, verdict, jobDone>> /\ Send(handler, rmsg)
        /\ rpc = "callback" /\ rpc' = IF rmsg.kind = "final" THEN "signal" ELSE "read"
    BY <1>13 DEF CallbackSends, ReadFrame, AfterSend
  <2>2. job \in Jobs /\ handler = job /\ rmsg \in Results /\ rmsg.of = job
    BY <2>1 DEF CallbackInv, JobInv, HasJob
  <2>3. NoCrossTalk' /\ CompletedHasFinal' /\ rmsg \in delivered'[job] /\ (HasFinal => HasFinal')
    BY <1>2, <2>1, <2>2 DEF HasFinal
  <2>4. rpc' = "signal" => HasFinal'
    <3>1. rmsg.kind = "final" => rmsg = [kind |-> "final", of |-> job]
      BY <2>2 DEF Results
    <3> QED BY <2>1, <2>2, <2>3, <3>1 DEF HasFinal
  <2> QED BY <2>1, <2>3, <2>4 DEF FinalInv
<1>14. CASE CallbackGivesUp
  <2>1. UNCHANGED <<delivered, finished, job, ready, wpc, verdict, jobDone>> /\ jobDone
    BY <1>14 DEF CallbackGivesUp, ReadFrame
  <2> QED BY <1>1, <2>1
<1>15. CASE CallbackSignals
  <2>1. UNCHANGED <<delivered, finished, job, ready, wpc, verdict>> /\ rpc = "signal"
    BY <1>15 DEF CallbackSignals, ReadFrame
  <2> QED BY <1>1, <2>1
<1>16. CASE Audio
  BY <1>1, <1>16 DEF Audio, ChunkLock, ChunkSent, StopLock, StopSent, AudioFrame
<1>17. CASE Gateway \/ Shutdown \/ UNCHANGED vars
  BY <1>1, <1>17 DEF Gateway, Enqueue, CloseAudio, TakeResult, Shutdown, vars
<1>18. CASE Server
  BY <1>1, <1>18 DEF Server, ServerResult, ServerListens, ServerGone, Stall, Unstall, ServerFrame
<1> QED BY <1>3, <1>4, <1>5, <1>6, <1>7, <1>8, <1>9, <1>10, <1>11, <1>12, <1>13, <1>14, <1>15, <1>16,
           <1>17, <1>18 DEF Next, Worker, Reader

-----------------------------------------------------------------------------
(* Types *)

(* A Result that finds room leaves the counts in their bounds. *)
LEMMA SendType ==
    ASSUME TypeOK, NEW k \in Jobs, NEW m \in Results, Send(k, m), unread[k] < ResultCap
    PROVE  delivered' \in [Jobs -> SUBSET Results] /\ unread' \in [Jobs -> 0 .. ResultCap]
<1>1. /\ delivered \in [Jobs -> SUBSET Results] /\ delivered' = [delivered EXCEPT ![k] = @ \cup {m}]
      /\ unread \in [Jobs -> 0 .. ResultCap] /\ unread' = [unread EXCEPT ![k] = @ + 1]
      /\ ResultCap \in Nat
  BY BoundsAssumption DEF TypeOK, Send
<1>2. unread[k] + 1 \in 0 .. ResultCap /\ delivered[k] \cup {m} \in SUBSET Results
  BY <1>1
<1> QED BY <1>1, <1>2

(* Every step keeps the types. *)
LEMMA TypeStep ==
    ASSUME TypeOK, JobInv, CallbackInv, ServerInv, [Next]_vars
    PROVE  TypeOK'
<1> USE DEF workerVars, resultVars, readerVars, audioVars, gatewayVars, serverVars
<1>0. /\ NumJobs \in Nat /\ ResultCap \in Nat /\ ResultCap >= 1 /\ Jobs = 1 .. NumJobs
      /\ job \in Nat /\ queued \in Nat /\ job <= NumJobs /\ queued <= NumJobs
      /\ unread \in [Jobs -> 0 .. ResultCap]
  BY Basics
<1>1. wire \in Seq(Results \cup {Listening}) /\ MaxChunks \in Nat /\ MaxResults \in Nat
  BY BoundsAssumption DEF TypeOK
<1>2. CASE Pop
  <2>1. job' \in 0 .. NumJobs
    BY <1>0, <1>2 DEF Pop
  <2> QED BY <1>2, <2>1 DEF Pop, TypeOK
<1>3. CASE PopEnd
  BY <1>3 DEF PopEnd, Leave, TypeOK
<1>4. CASE AwaitListening
  <2>1. ready' \subseteq Jobs
    BY <1>4 DEF AwaitListening, TypeOK, JobInv, HasJob
  <2>2. {jobDone, readStop, connErr, listened, stalled}' \subseteq BOOLEAN
    BY <1>4 DEF AwaitListening, TypeOK
  <2> QED BY <1>4, <2>1, <2>2 DEF AwaitListening, TypeOK
<1>5. CASE AwaitDrop \/ StartFails
  <2>1. wpc \in {"await", "starting"} /\ Send(job, [kind |-> "error", of |-> job])
    BY <1>5 DEF AwaitDrop, StartFails
  <2>2. job \in Jobs /\ unread[job] = 0
    BY <2>1 DEF JobInv, HasJob
  <2>3. [kind |-> "error", of |-> job] \in Results
    BY <2>2, ResultFrame DEF Kinds
  <2>4. delivered' \in [Jobs -> SUBSET Results] /\ unread' \in [Jobs -> 0 .. ResultCap]
    BY <1>0, <2>1, <2>2, <2>3, SendType
  <2>5. closed' \subseteq Jobs
    BY <1>5, <2>2 DEF AwaitDrop, StartFails, CloseJob, TypeOK
  <2> QED BY <1>5, <2>4, <2>5 DEF AwaitDrop, StartFails, Leave, TypeOK, Dropped
<1>6. CASE AwaitCtx
  <2>1. closed' \subseteq Jobs
    BY <1>6 DEF AwaitCtx, CloseJob, TypeOK, JobInv, HasJob
  <2> QED BY <1>6, <2>1 DEF AwaitCtx, Leave, TypeOK
<1>7. CASE StartSent
  <2>1. srv' \in {"recognising", "confused"} \cup {srv} /\ srvJob' \in 0 .. NumJobs /\ srvSent' \in 0 .. MaxResults
    BY <1>0, <1>1, <1>7 DEF StartSent, SrvStart, TypeOK
  <2> QED BY <1>7, <2>1 DEF StartSent, TypeOK
<1>8. CASE Wire
  <2>1. cb' \in 0 .. NumJobs /\ chunks' \in 0 .. MaxChunks
    BY <1>0, <1>1, <1>8 DEF Wire
  <2> QED BY <1>8, <2>1 DEF Wire, TypeOK
<1>9. CASE SelectDone \/ SelectTimeout \/ SelectConnErr \/ SelectCtx \/ AudioDone
  BY <1>9 DEF SelectDone, SelectTimeout, SelectConnErr, SelectCtx, AudioDone, WaitFrame, TypeOK, Dropped
<1>10. CASE ClearSignal \/ ClearNull
  <2>1. cb' \in 0 .. NumJobs
    BY <1>0, <1>10 DEF ClearSignal, ClearNull, ClearFrame, TypeOK
  <2>2. {jobDone, readStop, connErr, listened, stalled}' \subseteq BOOLEAN
    BY <1>10 DEF ClearSignal, ClearNull, ClearFrame, TypeOK
  <2>3. UNCHANGED ClearFrame /\ wpc' \in {"null", "cbWait"}
    BY <1>10 DEF ClearSignal, ClearNull
  <2> QED BY <2>1, <2>2, <2>3 DEF ClearFrame, TypeOK
<1>11. CASE EndJob
  <2>1. job \in Jobs /\ closed' \subseteq Jobs /\ UNCHANGED EndFrame /\ ~jobDone' /\ jobDone' \in BOOLEAN
    BY <1>11 DEF EndJob, CloseJob, TypeOK, JobInv, HasJob, Wired
  <2>2. CASE Completed
    <3>1. chunks' \in 0 .. MaxChunks /\ finished' \subseteq Jobs
      BY <1>1, <2>1, <2>2 DEF Completed, TypeOK
    <3> QED BY <2>1, <2>2, <3>1 DEF EndFrame, Completed, TypeOK
  <2>3. CASE Leave(verdict) /\ UNCHANGED <<finished, audioVars>>
    BY <2>1, <2>3 DEF EndFrame, Leave, TypeOK
  <2> QED BY <1>11, <2>2, <2>3 DEF EndJob
<1>12. CASE ReadDone \/ CloseLock \/ DialCancelled
  BY <1>12 DEF ReadDone, CloseLock, DialCancelled, LoopFrame, TypeOK
<1>13. CASE CloseConn
  <2>1. chunks' \in 0 .. MaxChunks /\ srvJob' \in 0 .. NumJobs /\ srvSent' \in 0 .. MaxResults
    BY <1>0, <1>1, <1>13 DEF CloseConn
  <2>2. wire' \in Seq(Results \cup {Listening})
    BY <1>13 DEF CloseConn
  <2> QED BY <1>13, <2>1, <2>2 DEF CloseConn, LoopFrame, TypeOK
<1>14. CASE AfterSession
  BY <1>14 DEF AfterSession, TypeOK
<1>15. CASE Redial
  BY <1>15 DEF Redial, LoopFrame, TypeOK
<1>16. CASE ReadFrameFromWire
  <2>1. wire' \in Seq(Results \cup {Listening}) /\ Head(wire) \in Results \cup {Listening}
    BY <1>1, <1>16, TakeFirst DEF ReadFrameFromWire
  <2>2. rpc' \in {"mu", "callback", rpc} /\ rmsg' \in Results \cup {Listening} /\ handler' \in 0 .. NumJobs
    BY <1>16, <2>1 DEF ReadFrameFromWire, TypeOK
  <2> QED BY <1>16, <2>1, <2>2 DEF ReadFrameFromWire, ReadFrame, TypeOK
<1>17. CASE ReadListening \/ CallbackSignals \/ ReadEnds
  BY <1>17 DEF ReadListening, CallbackSignals, ReadEnds, ReadFrame, TypeOK
<1>18. CASE CallbackSends
  <2>1. handler \in Jobs /\ rmsg \in Results /\ unread[handler] < ResultCap /\ Send(handler, rmsg)
    BY <1>18 DEF CallbackSends, CallbackInv, JobInv, HasJob
  <2>2. delivered' \in [Jobs -> SUBSET Results] /\ unread' \in [Jobs -> 0 .. ResultCap]
    BY <2>1, SendType
  <2>3. handler' \in 0 .. NumJobs
    BY <1>0, <1>18 DEF CallbackSends, AfterSend
  <2> QED BY <1>18, <2>2, <2>3 DEF CallbackSends, AfterSend, ReadFrame, TypeOK
<1>19. CASE CallbackGivesUp
  <2>1. handler' \in 0 .. NumJobs
    BY <1>0, <1>19 DEF CallbackGivesUp, AfterSend
  <2> QED BY <1>19, <2>1 DEF CallbackGivesUp, AfterSend, ReadFrame, TypeOK
<1>20. CASE Audio
  <2>1. chunks' \in 0 .. MaxChunks
    BY <1>1, <1>20 DEF Audio, ChunkLock, ChunkSent, StopLock, StopSent, TypeOK
  <2>2. srv' \in {srv, "confused", "stopped"}
    BY <1>20 DEF Audio, ChunkLock, ChunkSent, StopLock, StopSent, SrvAudio, SrvStop
  <2>3. apc' \in {"none", "loop", "chunk", "stop", "stopping", "done"}
    BY <1>20 DEF Audio, ChunkLock, ChunkSent, StopLock, StopSent
  <2>4. UNCHANGED AudioFrame
    BY <1>20 DEF Audio, ChunkLock, ChunkSent, StopLock, StopSent
  <2> QED BY <2>1, <2>2, <2>3, <2>4 DEF AudioFrame, TypeOK
<1>21. CASE Enqueue
  <2>1. queued' \in 0 .. NumJobs
    BY <1>0, <1>21 DEF Enqueue
  <2> QED BY <1>21, <2>1 DEF Enqueue, TypeOK
<1>22. ASSUME NEW k \in Jobs, CloseAudio(k) PROVE TypeOK'
  BY <1>22 DEF CloseAudio, TypeOK
<1>23. ASSUME NEW k \in Jobs, TakeResult(k) PROVE TypeOK'
  <2>1. unread' \in [Jobs -> 0 .. ResultCap]
    <3>1. unread[k] - 1 \in 0 .. ResultCap /\ unread' = [unread EXCEPT ![k] = unread[k] - 1]
      BY <1>0, <1>23 DEF TakeResult
    <3> QED BY <1>0, <3>1
  <2> QED BY <1>23, <2>1 DEF TakeResult, TypeOK
<1>24. CASE Shutdown \/ UNCHANGED vars
  BY <1>24 DEF Shutdown, vars, TypeOK
<1>25. CASE ServerResult
  <2>1. PICK kind \in Kinds : wire' = Append(wire, [kind |-> kind, of |-> srvJob])
    BY <1>25 DEF ServerResult
  <2>2. [kind |-> kind, of |-> srvJob] \in Results
    BY <1>25, ResultFrame DEF ServerResult, ServerInv
  <2>3. wire' \in Seq(Results \cup {Listening})
    BY <1>1, <2>1, <2>2, AddLast
  <2>4. srvSent' \in 0 .. MaxResults
    BY <1>1, <1>25 DEF ServerResult, TypeOK
  <2> QED BY <1>25, <2>3, <2>4 DEF ServerResult, ServerFrame, TypeOK
<1>26. CASE ServerListens
  <2>1. wire' \in Seq(Results \cup {Listening})
    <3>1. Listening \in Results \cup {Listening}
      OBVIOUS
    <3> QED BY <1>1, <1>26, <3>1, AddLast DEF ServerListens
  <2>2. srvSent' \in 0 .. MaxResults /\ srvJob' \in 0 .. NumJobs
    BY <1>0, <1>1, <1>26 DEF ServerListens
  <2> QED BY <1>26, <2>1, <2>2 DEF ServerListens, ServerFrame, TypeOK
<1>27. CASE ServerGone
  <2>1. srv' \in {"reset", "closed"} /\ wire' \in {wire, <<>>}
    BY <1>27 DEF ServerGone
  <2>2. wire' \in Seq(Results \cup {Listening})
    <3>1. <<>> \in Seq(Results \cup {Listening})
      OBVIOUS
    <3> QED BY <1>1, <2>1, <3>1, Zenon
  <2>3. {jobDone, readStop, connErr, listened, stalled}' \subseteq BOOLEAN /\ UNCHANGED ServerFrame
    BY <1>27 DEF ServerGone, ServerFrame, TypeOK
  <2>4. srvSent' \in 0 .. MaxResults /\ srvJob' \in 0 .. NumJobs
    BY <1>0, <1>1, <1>27 DEF ServerGone
  <2> QED BY <2>1, <2>2, <2>3, <2>4 DEF ServerFrame, TypeOK
<1>28. CASE Stall \/ Unstall
  <2>1. {jobDone, readStop, connErr, listened, stalled}' \subseteq BOOLEAN
    BY <1>28 DEF Stall, Unstall, ServerFrame, TypeOK
  <2>2. UNCHANGED <<ServerFrame, srv, srvJob, srvSent, wire>>
    BY <1>28 DEF Stall, Unstall
  <2> QED BY <2>1, <2>2 DEF ServerFrame, TypeOK
<1> QED BY <1>2, <1>3, <1>4, <1>5, <1>6, <1>7, <1>8, <1>9, <1>10, <1>11, <1>12, <1>13, <1>14, <1>15,
           <1>16, <1>17, <1>18, <1>19, <1>20, <1>21, <1>22, <1>23, <1>24, <1>25, <1>26, <1>27, <1>28
        DEF Next, Worker, Reader, Gateway, Server

-----------------------------------------------------------------------------
(* The theorems *)

(* The first state satisfies the invariant. *)
LEMMA InitSession == Init => SessionInv
<1> SUFFICES ASSUME Init PROVE SessionInv
  OBVIOUS
<1>0. NumJobs \in Nat /\ MaxResults \in Nat /\ MaxChunks \in Nat /\ ResultCap \in Nat
  BY BoundsAssumption
<1>1. delivered \in [Jobs -> SUBSET Results] /\ unread \in [Jobs -> 0 .. ResultCap]
  BY <1>0 DEF Init
<1>2. wire \in Seq(Results \cup {Listening}) /\ wire = <<>> /\ Len(wire) = 0
  BY DEF Init
<1>3. TypeOK
  <2>1. {jobDone, readStop, connErr, listened, stalled} \subseteq BOOLEAN
    BY DEF Init
  <2>2. /\ queued \in 0 .. NumJobs /\ job \in 0 .. NumJobs /\ cb \in 0 .. NumJobs /\ handler \in 0 .. NumJobs
        /\ chunks \in 0 .. MaxChunks /\ srvJob \in 0 .. NumJobs /\ srvSent \in 0 .. MaxResults
    BY <1>0 DEF Init
  <2> QED BY <1>1, <1>2, <2>1, <2>2 DEF Init, TypeOK
<1>4. JobInv
  BY DEF Init, JobInv, HasJob, Wired
<1>5. CallbackInv /\ WireInv
  BY DEF Init, CallbackInv, WireInv, Wired
<1>6. ListenInv /\ ServerInv
  BY <1>2 DEF Init, ListenInv, OnWire, ServerInv, ServerInStep
<1>7. FinalInv
  BY DEF Init, FinalInv, NoCrossTalk, CompletedHasFinal
<1> QED BY <1>3, <1>4, <1>5, <1>6, <1>7 DEF SessionInv

(* Every step keeps it. *)
LEMMA SessionInductive == SessionInv /\ [Next]_vars => SessionInv'
<1> SUFFICES ASSUME SessionInv, [Next]_vars PROVE SessionInv'
  OBVIOUS
<1>1. TypeOK /\ JobInv /\ CallbackInv /\ ListenInv /\ ServerInv /\ WireInv /\ FinalInv
  BY DEF SessionInv
<1>2. TypeOK' /\ JobInv' /\ CallbackInv'
  BY <1>1, TypeStep, JobStep, CallbackStep
<1>3. ListenInv' /\ ServerInv' /\ WireInv' /\ FinalInv'
  BY <1>1, ListenStep, ServerStep, WireStep, FinalStep
<1> QED BY <1>2, <1>3 DEF SessionInv

(* The invariant holds of every behaviour. *)
LEMMA SessionAlways == Spec => []SessionInv
BY InitSession, SessionInductive, PTL DEF Spec

(* Every state of a slot is well typed. In particular a ResultCh never     *)
(* holds more than its capacity, although AwaitDrop and StartFails send    *)
(* without looking: nothing was sent on that channel before.               *)
THEOREM SessionTypeCorrect == Spec => []TypeOK
<1>1. SessionInv => TypeOK
  BY DEF SessionInv
<1> QED BY <1>1, SessionAlways, PTL

(* No callback runs on a job whose ResultCh is closed, over any number of  *)
(* jobs and reconnections: no send can panic.                              *)
THEOREM NoPanicInCallback == Spec => []NoSendOnClosed
<1>1. SessionInv => NoSendOnClosed
  BY DEF SessionInv, JobInv, CallbackInv, NoSendOnClosed, HasJob
<1> QED BY <1>1, SessionAlways, PTL

(* clearCallbacks never waits for a callback that waits for room: jobDone  *)
(* is closed first.                                                        *)
THEOREM CallbacksReleased == Spec => []CallbackReleased
<1>1. SessionInv => CallbackReleased
  BY DEF SessionInv, CallbackInv, CallbackReleased
<1> QED BY <1>1, SessionAlways, PTL

(* No result of one job reaches another, although they share a connection. *)
THEOREM ResultsStayApart == Spec => []NoCrossTalk
<1>1. SessionInv => NoCrossTalk
  BY DEF SessionInv, FinalInv
<1> QED BY <1>1, SessionAlways, PTL

(* The code keeps to the server's protocol, whatever the server, the       *)
(* client and the shutdown do.                                             *)
THEOREM ProtocolKept == Spec => []ServerInStep
<1>1. SessionInv => ServerInStep
  BY DEF SessionInv, ServerInv
<1> QED BY <1>1, SessionAlways, PTL

(* A job counted as completed had its final result. *)
THEOREM CompletionIsReal == Spec => []CompletedHasFinal
<1>1. SessionInv => CompletedHasFinal
  BY DEF SessionInv, FinalInv
<1> QED BY <1>1, SessionAlways, PTL

-----------------------------------------------------------------------------
(* The slot implements JobContract *)

(* What the submitter does not see. *)
LEMMA Unseen ==
    ASSUME UNCHANGED <<closed, queued, delivered>>
    PROVE  UNCHANGED Contract!contractVars
BY DEF statusOf, resultsOf, Contract!contractVars

(* The kinds a Result adds. *)
LEMMA SeenResult ==
    ASSUME TypeOK, NEW k \in Jobs, NEW m \in Results, Send(k, m)
    PROVE  resultsOf' = [resultsOf EXCEPT ![k] = @ \cup {m.kind}] /\ m.kind \in Kinds
<1>1. delivered \in [Jobs -> SUBSET Results] /\ delivered' = [delivered EXCEPT ![k] = @ \cup {m}]
  BY DEF TypeOK, Send
<1>2. delivered'[k] = delivered[k] \cup {m} /\ \A i \in Jobs : i # k => delivered'[i] = delivered[i]
  BY <1>1
<1>3. {x.kind : x \in delivered'[k]} = {x.kind : x \in delivered[k]} \cup {m.kind}
  BY <1>2
<1>4. \A i \in Jobs : i # k => {x.kind : x \in delivered'[i]} = {x.kind : x \in delivered[i]}
  BY <1>2
<1>5. ASSUME NEW i \in Jobs
      PROVE  resultsOf'[i] = (IF i = k THEN resultsOf[k] \cup {m.kind} ELSE resultsOf[i])
  BY <1>3, <1>4 DEF resultsOf
<1>6. resultsOf' = [i \in Jobs |-> IF i = k THEN resultsOf[k] \cup {m.kind} ELSE resultsOf[i]]
  BY <1>5 DEF resultsOf
<1>7. m.kind \in Kinds
  BY DEF Results
<1> QED BY <1>6, <1>7 DEF resultsOf

(* The job in hand is closed; an error may have been sent just before. *)
LEMMA SeenClose ==
    ASSUME TypeOK, JobInv, wpc \in HasJob, CloseJob, UNCHANGED queued,
           UNCHANGED delivered \/ Send(job, [kind |-> "error", of |-> job])
    PROVE  Contract!ContractNext
<1>1. job \in Jobs /\ job \notin closed /\ job <= queued /\ closed' = closed \cup {job}
  BY DEF JobInv, CloseJob
<1>2. statusOf[job] = "accepted" /\ statusOf' = [statusOf EXCEPT ![job] = "closed"]
  BY <1>1 DEF statusOf
<1>3. \E more \in SUBSET Kinds : resultsOf' = [resultsOf EXCEPT ![job] = @ \cup more]
  <2>1. CASE UNCHANGED delivered
    <3>1. resultsOf' = resultsOf
      BY <2>1 DEF resultsOf
    <3>2. resultsOf' = [resultsOf EXCEPT ![job] = @ \cup {}]
      BY <1>1, <3>1 DEF resultsOf
    <3> QED BY <3>2
  <2>2. CASE Send(job, [kind |-> "error", of |-> job])
    <3>1. [kind |-> "error", of |-> job] \in Results
      BY <1>1, ResultFrame DEF Kinds
    <3>2. /\ resultsOf' = [resultsOf EXCEPT ![job] = @ \cup {[kind |-> "error", of |-> job].kind}]
          /\ [kind |-> "error", of |-> job].kind \in Kinds
      BY <1>1, <2>2, <3>1, SeenResult
    <3> QED BY <3>2
  <2> QED BY <2>1, <2>2
<1>4. Contract!CloseResults(job)
  BY <1>2, <1>3 DEF Contract!CloseResults
<1> QED BY <1>1, <1>4 DEF Contract!ContractNext

(* Every step is one of the contract, or is not seen. *)
LEMMA ContractStep ==
    ASSUME SessionInv, [Next]_vars
    PROVE  [Contract!ContractNext]_(Contract!contractVars)
<1> USE DEF workerVars, resultVars, readerVars, audioVars, gatewayVars, serverVars
<1>0. TypeOK /\ JobInv /\ CallbackInv
  BY DEF SessionInv
<1>1. CASE Enqueue
  <2>1. queued' = queued + 1 /\ queued < NumJobs /\ UNCHANGED <<closed, delivered>>
    BY <1>1 DEF Enqueue
  <2>2. /\ NumJobs \in Nat /\ Jobs = 1 .. NumJobs /\ job \in Nat /\ queued \in Nat /\ job <= queued
        /\ closed \subseteq 1 .. job
    BY <1>0, Basics DEF JobInv
  <2>3. queued' \in Jobs /\ queued' \notin closed /\ \A k \in Jobs : k <= queued' <=> k <= queued \/ k = queued'
    BY <2>1, <2>2
  <2>4. statusOf[queued'] = "submitting" /\ statusOf' = [statusOf EXCEPT ![queued'] = "accepted"]
    <3>1. statusOf[queued'] = "submitting"
      BY <2>1, <2>2, <2>3 DEF statusOf
    <3>2. \A k \in Jobs : statusOf'[k] = IF k = queued' THEN "accepted" ELSE statusOf[k]
      BY <2>1, <2>3 DEF statusOf
    <3>3. statusOf' = [k \in Jobs |-> IF k = queued' THEN "accepted" ELSE statusOf[k]]
      BY <3>2 DEF statusOf
    <3> QED BY <3>1, <3>3 DEF statusOf
  <2>5. Contract!Accept(queued')
    BY <2>1, <2>4 DEF Contract!Accept, resultsOf
  <2> QED BY <2>3, <2>5 DEF Contract!ContractNext
<1>2. CASE AwaitDrop \/ StartFails
  <2>1. /\ wpc \in HasJob /\ CloseJob /\ UNCHANGED queued /\ Send(job, [kind |-> "error", of |-> job])
    BY <1>2 DEF AwaitDrop, StartFails, HasJob
  <2> QED BY <1>0, <2>1, SeenClose
<1>3. CASE AwaitCtx \/ EndJob
  <2>1. wpc \in HasJob /\ CloseJob /\ UNCHANGED <<queued, delivered>>
    BY <1>3 DEF AwaitCtx, EndJob, EndFrame, HasJob, Wired
  <2> QED BY <1>0, <2>1, SeenClose
<1>4. CASE CallbackSends
  <2>1. /\ rpc = "callback" /\ Send(handler, rmsg) /\ UNCHANGED <<queued, closed>>
    BY <1>4 DEF CallbackSends, ReadFrame
  <2>2. handler = job /\ job \in Jobs /\ job \notin closed /\ job <= queued /\ rmsg \in Results
    BY <1>0, <2>1 DEF CallbackInv, JobInv, HasJob
  <2>3. resultsOf' = [resultsOf EXCEPT ![job] = @ \cup {rmsg.kind}] /\ rmsg.kind \in Kinds
    BY <1>0, <2>1, <2>2, SeenResult
  <2>4. statusOf[job] = "accepted" /\ UNCHANGED statusOf
    BY <2>1, <2>2 DEF statusOf
  <2>5. Contract!Deliver(job, rmsg.kind)
    BY <2>3, <2>4 DEF Contract!Deliver
  <2> QED BY <2>2, <2>3, <2>5 DEF Contract!ContractNext
<1>5. CASE Pop \/ PopEnd \/ AwaitListening \/ StartSent \/ Wire
  BY <1>5, Unseen DEF Pop, PopEnd, AwaitListening, StartSent, Wire
<1>6. CASE SelectDone \/ SelectTimeout \/ SelectConnErr \/ SelectCtx \/ AudioDone
  BY <1>6, Unseen DEF SelectDone, SelectTimeout, SelectConnErr, SelectCtx, AudioDone, WaitFrame
<1>7. CASE ClearSignal \/ ClearNull
  BY <1>7, Unseen DEF ClearSignal, ClearNull, ClearFrame
<1>8. CASE ReadDone \/ CloseLock \/ CloseConn \/ AfterSession \/ Redial \/ DialCancelled
  BY <1>8, Unseen DEF ReadDone, CloseLock, CloseConn, AfterSession, Redial, DialCancelled, LoopFrame
<1>9. CASE ReadFrameFromWire \/ ReadListening \/ CallbackGivesUp \/ CallbackSignals \/ ReadEnds
  BY <1>9, Unseen
     DEF ReadFrameFromWire, ReadListening, CallbackGivesUp, CallbackSignals, ReadEnds, ReadFrame
<1>10. CASE Audio
  BY <1>10, Unseen DEF Audio, ChunkLock, ChunkSent, StopLock, StopSent, AudioFrame
<1>11. CASE Server
  BY <1>11, Unseen DEF Server, ServerResult, ServerListens, ServerGone, Stall, Unstall, ServerFrame
<1>12. CASE Shutdown \/ UNCHANGED vars \/ \E k \in Jobs : CloseAudio(k) \/ TakeResult(k)
  BY <1>12, Unseen DEF Shutdown, vars, CloseAudio, TakeResult
<1> QED BY <1>1, <1>2, <1>3, <1>4, <1>5, <1>6, <1>7, <1>8, <1>9, <1>10, <1>11, <1>12
        DEF Next, Worker, Reader, Gateway

(* A slot with its reader, its callbacks and its audio sender shows the    *)
(* submitter a behaviour of JobContract: Results only while ResultCh is    *)
(* open, and one close, through any number of jobs and reconnections.      *)
THEOREM SessionKeepsContract == Spec => KeepsContract
<1>1. Init => Contract!ContractInit
  <2> SUFFICES ASSUME Init PROVE Contract!ContractInit
    OBVIOUS
  <2>1. NumJobs \in Nat /\ Jobs = 1 .. NumJobs /\ closed = {} /\ queued = 0 /\ delivered = [k \in Jobs |-> {}]
    BY BoundsAssumption DEF Init, Jobs
  <2>2. statusOf = [k \in Jobs |-> "submitting"]
    BY <2>1 DEF statusOf
  <2>3. resultsOf = [k \in Jobs |-> {}]
    BY <2>1 DEF resultsOf
  <2> QED BY <2>2, <2>3 DEF Contract!ContractInit
<1>2. SessionInv /\ [Next]_vars => [Contract!ContractNext]_(Contract!contractVars)
  BY ContractStep
<1> QED BY <1>1, <1>2, SessionAlways, PTL DEF Spec, KeepsContract, Contract!ContractSpec
=============================================================================
