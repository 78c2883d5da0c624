---------------------------- MODULE UnaryRequest ----------------------------
(***************************************************************************)
(* One request/response job: POST /v1/http of internal/gateway or the      *)
(* unary Submit of internal/grpcgateway, for tts and stt. The handler      *)
(* submits a job and waits for its ResultCh against a deadline; for stt a  *)
(* second goroutine feeds the audio once the job has a session. Of an stt  *)
(* job the broker's side is the use it makes of ReadyCh, AudioCh and       *)
(* ResultCh (module SttSession has the rest); of a tts job it is the       *)
(* worker with its call of SynthesizeWithOptions.                          *)
(***************************************************************************)
EXTENDS Naturals, Sequences, SequencesExt

CONSTANTS NumChunks,   \* chunks of audio: in the stt request, in the tts server's answer
          AudioCap,    \* capacity of AudioCh
          MaxResults   \* bound: results of the job

ASSUME UnaryAssumption == NumChunks \in Nat /\ AudioCap \in Nat \ {0} /\ MaxResults \in Nat

(* "mute" is an error of the backend whose code is 0. *)
Kinds == {"partial", "final", "error", "mute"}

VARIABLES
    service,    \* what the request asks for
    hpc,        \* the handler: "submit", "wait", "end"
    answer,     \* what the client is told; "none" before
    content,    \* what the answer holds: final results, or chunks of audio
    ctxDone,    \* the deadline passed, the client left, or the handler returned
    fpc,        \* the feeder: "none", "wait", "feed", "end"
    fed,        \* chunks it has put into AudioCh
    audio,      \* chunks in AudioCh
    audioShut,  \* AudioCh is closed
    job,        \* the broker's side: "none", "open", "closed"
    ready,      \* ReadyCh is closed
    call,       \* the tts call: "none", "streaming", "ended", "failed"
    got,        \* chunks of audio it has received
    inbox,      \* what waits in ResultCh
    sent        \* history: what was sent on ResultCh

handlerVars == <<service, hpc, answer, content>>
feederVars == <<fpc, fed, audioShut>>
callVars == <<call, got>>
jobVars == <<job, ready, sent, callVars>>
vars == <<handlerVars, ctxDone, feederVars, audio, jobVars, inbox>>

TypeOK ==
    /\ service \in {"stt", "tts"}
    /\ hpc \in {"submit", "wait", "end"}
    /\ answer \in {"none", "ok", "refused", "upstream_failed", "timeout"}
    /\ content \in Nat
    /\ {ctxDone, audioShut, ready} \subseteq BOOLEAN
    /\ fpc \in {"none", "wait", "feed", "end"}
    /\ fed \in 0 .. NumChunks /\ audio \in 0 .. AudioCap
    /\ job \in {"none", "open", "closed"}
    /\ call \in {"none", "streaming", "ended", "failed"} /\ got \in 0 .. NumChunks
    /\ inbox \in Seq(Kinds) /\ sent \in Seq(Kinds)

Init ==
    /\ service \in {"stt", "tts"}
    /\ hpc = "submit" /\ answer = "none" /\ content = 0 /\ ctxDone = FALSE
    /\ fpc = "none" /\ fed = 0 /\ audio = 0 /\ audioShut = FALSE
    /\ job = "none" /\ ready = FALSE /\ call = "none" /\ got = 0 /\ inbox = <<>> /\ sent = <<>>

-----------------------------------------------------------------------------
(* The handler *)

(* A malformed request, or an error of Submit. *)
Refuse ==
    /\ hpc = "submit"
    /\ hpc' = "end" /\ answer' = "refused"
    /\ UNCHANGED <<service, content, ctxDone, feederVars, audio, jobVars, inbox>>

Submit ==
    /\ hpc = "submit"
    /\ hpc' = "wait" /\ job' = "open"
    /\ fpc' = IF service = "stt" THEN "wait" ELSE fpc
    /\ UNCHANGED <<service, answer, content, ctxDone, fed, audioShut, audio, ready, callVars, inbox, sent>>

(* The handler returns; its deferred cancel ends the context. *)
Reply(a) ==
    /\ hpc = "wait"
    /\ hpc' = "end" /\ answer' = a /\ ctxDone' = TRUE
    /\ UNCHANGED <<service, feederVars, audio, jobVars>>

TakeError ==
    /\ inbox # <<>> /\ Head(inbox) = "error"
    /\ inbox' = Tail(inbox)
    /\ Reply("upstream_failed")
    /\ UNCHANGED content

(* handleHTTPTTS: the first Result is the answer, and a ResultCh that is   *)
(* closed without one is an error.                                         *)
TakeTTS ==
    /\ service = "tts"
    /\ \/ /\ inbox # <<>> /\ Head(inbox) # "error" /\ inbox' = Tail(inbox)
          /\ Reply("ok") /\ content' = got
       \/ /\ inbox = <<>> /\ job = "closed"
          /\ Reply("upstream_failed") /\ UNCHANGED <<content, inbox>>

(* handleHTTPSTT: final results are collected, everything else without an  *)
(* error code is skipped.                                                  *)
TakeSTT ==
    /\ service = "stt" /\ hpc = "wait"
    /\ inbox # <<>> /\ Head(inbox) # "error"
    /\ inbox' = Tail(inbox)
    /\ content' = IF Head(inbox) = "final" THEN content + 1 ELSE content
    /\ UNCHANGED <<service, hpc, answer, ctxDone, feederVars, audio, jobVars>>

(* ResultCh is closed: what was collected, be it nothing, is the answer. *)
AnswerSTT ==
    /\ service = "stt"
    /\ inbox = <<>> /\ job = "closed"
    /\ Reply("ok")
    /\ UNCHANGED <<content, inbox>>

(* Fault: the stt loop does not look at the context. *)
TimedOutTTSOnly ==
    /\ ctxDone /\ service = "tts"
    /\ Reply("timeout")
    /\ UNCHANGED <<content, inbox>>

TimedOut ==
    /\ ctxDone
    /\ Reply("timeout")
    /\ UNCHANGED <<content, inbox>>

(* The 30 s or 120 s are over, or the client is gone. *)
Expire ==
    /\ hpc = "wait" /\ ~ctxDone
    /\ ctxDone' = TRUE
    /\ UNCHANGED <<handlerVars, feederVars, audio, jobVars, inbox>>

-----------------------------------------------------------------------------
(* The feeder *)

FeedFrame == <<handlerVars, ctxDone, jobVars, inbox>>

FeedBegins ==
    /\ fpc = "wait" /\ ready
    /\ fpc' = "feed"
    /\ UNCHANGED <<FeedFrame, fed, audioShut, audio>>

(* Fault: a chunk is put into the channel without looking for room. *)
FeedChunkOverflows ==
    /\ fpc = "feed" /\ fed < NumChunks
    /\ fed' = fed + 1 /\ audio' = audio + 1
    /\ UNCHANGED <<FeedFrame, fpc, audioShut>>

FeedChunk ==
    /\ fpc = "feed" /\ fed < NumChunks /\ audio < AudioCap
    /\ fed' = fed + 1 /\ audio' = audio + 1
    /\ UNCHANGED <<FeedFrame, fpc, audioShut>>

CloseAudio == audioShut' = TRUE /\ fpc' = "end" /\ UNCHANGED <<FeedFrame, fed, audio>>

(* Fault: a chunk that finds the channel full is the last one. *)
FeedEndsWhenFull ==
    /\ fpc = "feed" /\ (fed = NumChunks \/ audio = AudioCap)
    /\ CloseAudio

FeedEnds == fpc = "feed" /\ fed = NumChunks /\ CloseAudio

(* Fault: only the wait for ReadyCh looks at the context. *)
FeedCancelledEarly == fpc = "wait" /\ ctxDone /\ CloseAudio

FeedCancelled ==
    /\ fpc = "wait" \/ (fpc = "feed" /\ fed < NumChunks)
    /\ ctxDone
    /\ CloseAudio

-----------------------------------------------------------------------------
(* The broker's side of an stt job *)

WorkerFrame == <<handlerVars, ctxDone, feederVars>>

JobReady ==
    /\ job = "open" /\ service = "stt" /\ ~ready
    /\ ready' = TRUE
    /\ UNCHANGED <<WorkerFrame, audio, job, sent, callVars, inbox>>

(* The audio sender ranges over AudioCh, even after the job has ended. *)
JobAudio ==
    /\ ready /\ audio > 0
    /\ audio' = audio - 1
    /\ UNCHANGED <<WorkerFrame, jobVars, inbox>>

(* Before ReadyCh is closed an stt job can only fail. *)
JobResult ==
    /\ job = "open" /\ service = "stt" /\ Len(sent) < MaxResults
    /\ \E k \in Kinds :
        /\ ready \/ k = "error"
        /\ inbox' = Append(inbox, k) /\ sent' = Append(sent, k)
    /\ UNCHANGED <<WorkerFrame, audio, job, ready, callVars>>

(* The job ends; at once if it was queued in a pool of the other service.  *)
JobCloses ==
    /\ job = "open" /\ (service = "stt" \/ call = "none")
    /\ job' = "closed"
    /\ UNCHANGED <<WorkerFrame, audio, inbox, ready, sent, callVars>>

-----------------------------------------------------------------------------
(* runTTSWorker and SynthesizeWithOptions *)

CallFrame == <<WorkerFrame, audio, job, ready, sent, inbox>>

(* The worker takes the job; opening the stream may fail. *)
CallBegins ==
    /\ job = "open" /\ service = "tts" /\ call = "none"
    /\ call' \in {"streaming", "failed"}
    /\ UNCHANGED <<CallFrame, got>>

CallReceives ==
    /\ call = "streaming" /\ got < NumChunks
    /\ got' = got + 1
    /\ UNCHANGED <<CallFrame, call>>

(* io.EOF: the server has sent all it had. *)
CallEnds ==
    /\ call = "streaming" /\ got = NumChunks
    /\ call' = "ended"
    /\ UNCHANGED <<CallFrame, got>>

(* Recv fails: the server, the connection or the broker's context.        *)
CallFails ==
    /\ call = "streaming"
    /\ call' = "failed"
    /\ UNCHANGED <<CallFrame, got>>

(* Capacity of the ResultCh of a tts job. *)
TtsResultCap == 1

Called == call \in {"ended", "failed"} /\ job = "open" /\ sent = <<>>

SendResult(k) ==
    /\ inbox' = Append(inbox, k) /\ sent' = Append(sent, k)
    /\ UNCHANGED <<WorkerFrame, audio, job, ready, callVars>>

(* Fault: every error of Recv is taken for the end of the stream. *)
CallResultAnyEnd ==
    /\ Called /\ Len(inbox) < TtsResultCap
    /\ SendResult(IF call = "ended" \/ got > 0 THEN "final" ELSE "error")

(* Fault: ResultCh has no buffer, the Result is handed to the handler. *)
CallResultUnbuffered ==
    /\ Called /\ hpc = "wait" /\ Len(inbox) < TtsResultCap
    /\ SendResult(IF call = "ended" THEN "final" ELSE "error")

(* The one Result, whether somebody still waits for it or not. What was    *)
(* received before a failure is dropped.                                   *)
CallResult ==
    /\ Called /\ Len(inbox) < TtsResultCap
    /\ SendResult(IF call = "ended" THEN "final" ELSE "error")

CallCloses ==
    /\ call \in {"ended", "failed"} /\ job = "open" /\ sent # <<>>
    /\ job' = "closed"
    /\ UNCHANGED <<WorkerFrame, audio, ready, sent, callVars, inbox>>

-----------------------------------------------------------------------------
Handler == Refuse \/ Submit \/ TakeError \/ TakeTTS \/ TakeSTT \/ AnswerSTT \/ TimedOut

Feeder == FeedBegins \/ FeedChunk \/ FeedEnds \/ FeedCancelled

Caller == CallResult \/ CallCloses

Next ==
    \/ Handler \/ Expire \/ Feeder
    \/ JobReady \/ JobAudio \/ JobResult \/ JobCloses
    \/ CallBegins \/ CallReceives \/ CallEnds \/ CallFails \/ Caller

Spec == Init /\ [][Next]_vars

(* Both goroutines run and the deadline passes. Of the broker it is only   *)
(* asked that a worker whose call has returned runs: a job may stay in the *)
(* queue for ever, and a tts call has no deadline and may never return.    *)
FairSpec == Spec /\ WF_vars(Handler) /\ WF_vars(Feeder) /\ WF_vars(Expire) /\ WF_vars(Caller)

-----------------------------------------------------------------------------
(* Properties that hold *)

Finals == Cardinality({n \in 1 .. Len(sent) : sent[n] = "final"})

(* An answer of 200 is whole. For stt it has every final result of the     *)
(* job, and none of them follows an error that was reported; for tts it    *)
(* has the audio of a stream that the server brought to its end, never the *)
(* part that came before a failure.                                        *)
OkIsWhole ==
    answer = "ok" =>
        \/ service = "stt" /\ job = "closed" /\ content = Finals /\ ~Contains(sent, "error")
        \/ service = "tts" /\ call = "ended" /\ content = NumChunks

(* AudioCh is closed short of the request's audio only when the request is *)
(* over: a full channel delays the feeder, it does not cut the audio.      *)
AudioCutOnlyAtEnd == audioShut /\ fed < NumChunks => ctxDone

(* AudioCh is closed in the end whatever the broker does with the job,     *)
(* full channel or not; the worker that ranges over it is then free.       *)
AudioReleased == (fpc # "none") ~> audioShut

(* A tts worker whose call has returned gets rid of the job and is free    *)
(* for the next one, also when the handler has given up long ago and       *)
(* nobody reads ResultCh any more.                                         *)
AbandonedFreed == (call \in {"ended", "failed"}) ~> job = "closed"

(* Every request is answered. *)
Answered == <>(hpc = "end")

=============================================================================
