------------------------- MODULE UnaryRequestProofs -------------------------
(* Theorems about one request/response job, for every length of the audio, *)
(* every capacity of AudioCh and every number of results.                  *)
EXTENDS UnaryRequest, DataLemmas, TLAPS

-----------------------------------------------------------------------------
(* The inductive invariant *)

(* A closed AudioCh has no feeder any more; before Submit it had none yet. *)
FeedInv == AudioCutOnlyAtEnd /\ (audioShut => fpc = "end") /\ (hpc = "submit" => fpc = "none")

(* How many Results the handler has taken, and which of them are final. *)
Taken == Len(sent) - Len(inbox)
FinalsTo(n) == {m \in 1 .. n : sent[m] = "final"}

(* ResultCh is a queue: it holds the end of what was sent. *)
QueueInv ==
    /\ Len(inbox) <= Len(sent)
    /\ \A n \in 1 .. Len(inbox) : inbox[n] = sent[Taken + n]

(* An stt handler that waits has collected the final results it took, and  *)
(* it took no error.                                                       *)
CollectInv ==
    /\ answer = "ok" => hpc = "end"
    /\ hpc = "submit" => sent = <<>> /\ content = 0 /\ job = "none"
    /\ service = "stt" /\ hpc = "wait" =>
        /\ content = Cardinality(FinalsTo(Taken))
        /\ \A m \in 1 .. Taken : sent[m] # "error"

(* A tts job has a final Result only from a call that came to its end. *)
CallInv ==
    /\ service = "stt" => call = "none"
    /\ call = "ended" => got = NumChunks
    /\ service = "tts" => \A m \in 1 .. Len(sent) : sent[m] = "error" \/ (sent[m] = "final" /\ call = "ended")

RequestInv == TypeOK /\ FeedInv /\ QueueInv /\ CollectInv /\ CallInv /\ OkIsWhole

-----------------------------------------------------------------------------
(* ResultCh as a queue *)

(* The handler takes the Result that is next in the order of sending. *)
LEMMA QueueTake ==
    ASSUME TypeOK, QueueInv, inbox # <<>>, inbox' = Tail(inbox), UNCHANGED sent
    PROVE  /\ QueueInv' /\ inbox' \in Seq(Kinds) /\ Taken \in Nat /\ Taken' = Taken + 1
           /\ Taken' \in 1 .. Len(sent) /\ Head(inbox) = sent[Taken'] /\ Head(inbox) \in Kinds
<1>1. inbox \in Seq(Kinds) /\ sent \in Seq(Kinds) /\ Len(inbox) \in Nat /\ Len(sent) \in Nat
  BY DEF TypeOK
<1>2. /\ Head(inbox) = inbox[1] /\ 1 \in 1 .. Len(inbox) /\ Tail(inbox) \in Seq(Kinds)
      /\ Len(Tail(inbox)) = Len(inbox) - 1
      /\ \A n \in 1 .. Len(Tail(inbox)) : n + 1 \in 1 .. Len(inbox) /\ Tail(inbox)[n] = inbox[n + 1]
  BY <1>1, TakeFirst
<1>3. /\ Taken \in Nat /\ Taken' = Taken + 1 /\ Len(inbox') = Len(inbox) - 1
      /\ Taken' \in 1 .. Len(sent)
  BY <1>1, <1>2 DEF Taken, QueueInv
<1>4. Head(inbox) = sent[Taken'] /\ Head(inbox) \in Kinds
  BY <1>1, <1>2, <1>3 DEF QueueInv
<1>5. ASSUME NEW n \in 1 .. Len(inbox') PROVE inbox'[n] = sent'[Taken' + n]
  <2>1. inbox'[n] = inbox[n + 1] /\ n + 1 \in 1 .. Len(inbox)
    BY <1>2, <1>5
  <2>2. inbox[n + 1] = sent[Taken + (n + 1)]
    BY <2>1 DEF QueueInv
  <2>3. Taken + (n + 1) = Taken' + n
    BY <1>1, <1>3
  <2> QED BY <2>1, <2>2, <2>3
<1> QED BY <1>1, <1>2, <1>3, <1>4, <1>5 DEF QueueInv

(* A Result is sent. *)
LEMMA QueueAdd ==
    ASSUME TypeOK, QueueInv, NEW k \in Kinds, inbox' = Append(inbox, k), sent' = Append(sent, k)
    PROVE  /\ QueueInv' /\ inbox' \in Seq(Kinds) /\ sent' \in Seq(Kinds) /\ Taken \in Nat /\ Taken' = Taken
           /\ Taken <= Len(sent) /\ Len(sent) \in Nat /\ Len(sent') = Len(sent) + 1
           /\ sent'[Len(sent) + 1] = k /\ \A n \in 1 .. Len(sent) : sent'[n] = sent[n]
<1>1. inbox \in Seq(Kinds) /\ sent \in Seq(Kinds) /\ Len(inbox) \in Nat /\ Len(sent) \in Nat
  BY DEF TypeOK
<1>2. /\ inbox' \in Seq(Kinds) /\ Len(inbox') = Len(inbox) + 1 /\ inbox'[Len(inbox) + 1] = k
      /\ \A n \in 1 .. Len(inbox) : inbox'[n] = inbox[n]
  BY <1>1, AddLast
<1>3. /\ sent' \in Seq(Kinds) /\ Len(sent') = Len(sent) + 1 /\ sent'[Len(sent) + 1] = k
      /\ \A n \in 1 .. Len(sent) : sent'[n] = sent[n]
  BY <1>1, AddLast
<1>4. Taken \in Nat /\ Taken' = Taken /\ Taken <= Len(sent) /\ Taken + Len(inbox) = Len(sent)
  BY <1>1, <1>2, <1>3 DEF Taken, QueueInv
<1>5. ASSUME NEW n \in 1 .. Len(inbox') PROVE inbox'[n] = sent'[Taken' + n]
  <2>1. CASE n = Len(inbox) + 1
    <3>1. Taken + n = Len(sent) + 1
      <4>1. Taken + (Len(inbox) + 1) = (Taken + Len(inbox)) + 1
        BY <1>1, <1>4
      <4> QED BY <1>4, <2>1, <4>1
    <3> QED BY <1>2, <1>3, <1>4, <2>1, <3>1
  <2>2. CASE n # Len(inbox) + 1
    <3>1. n \in 1 .. Len(inbox) /\ Taken + n \in 1 .. Len(sent)
      BY <1>1, <1>2, <1>4, <2>2
    <3>2. inbox[n] = sent[Taken + n]
      BY <3>1 DEF QueueInv
    <3>3. inbox'[n] = inbox[n] /\ sent'[Taken + n] = sent[Taken + n]
      BY <1>2, <1>3, <3>1
    <3> QED BY <1>4, <3>2, <3>3
  <2> QED BY <2>1, <2>2
<1> QED BY <1>1, <1>2, <1>3, <1>4, <1>5 DEF QueueInv

(* Who sends, who takes, and who does neither. *)
LEMMA QueueMoves ==
    ASSUME [Next]_vars
    PROVE  \/ UNCHANGED <<inbox, sent>>
           \/ inbox # <<>> /\ inbox' = Tail(inbox) /\ UNCHANGED sent /\ (TakeError \/ TakeTTS \/ TakeSTT)
           \/ \E k \in Kinds : /\ inbox' = Append(inbox, k) /\ sent' = Append(sent, k)
                               /\ JobResult \/ CallResult
<1> USE DEF handlerVars, feederVars, callVars, jobVars
<1>1. CASE TakeError \/ TakeTTS \/ TakeSTT
  BY <1>1 DEF TakeError, TakeTTS, TakeSTT, Reply
<1>2. CASE Refuse \/ Submit \/ AnswerSTT \/ TimedOut \/ Expire
  BY <1>2 DEF Refuse, Submit, AnswerSTT, TimedOut, Expire, Reply
<1>3. CASE Feeder
  BY <1>3 DEF Feeder, FeedBegins, FeedChunk, FeedEnds, FeedCancelled, CloseAudio, FeedFrame
<1>4. CASE JobReady \/ JobAudio \/ JobCloses
  BY <1>4 DEF JobReady, JobAudio, JobCloses
<1>5. CASE JobResult
  BY <1>5 DEF JobResult
<1>6. CASE CallBegins \/ CallReceives \/ CallEnds \/ CallFails \/ CallCloses
  BY <1>6 DEF CallBegins, CallReceives, CallEnds, CallFails, CallCloses, CallFrame
<1>7. CASE CallResult
  BY <1>7 DEF CallResult, SendResult, Kinds
<1>8. CASE UNCHANGED vars
  BY <1>8 DEF vars
<1> QED BY <1>1, <1>2, <1>3, <1>4, <1>5, <1>6, <1>7, <1>8 DEF Next, Handler, Caller

(* ResultCh stays a queue. *)
LEMMA QueueStep ==
    ASSUME TypeOK, QueueInv, [Next]_vars
    PROVE  QueueInv' /\ inbox' \in Seq(Kinds) /\ sent' \in Seq(Kinds)
<1>0. inbox \in Seq(Kinds) /\ sent \in Seq(Kinds)
  BY DEF TypeOK
<1>1. CASE UNCHANGED <<inbox, sent>>
  BY <1>0, <1>1 DEF QueueInv, Taken
<1>2. CASE inbox # <<>> /\ inbox' = Tail(inbox) /\ UNCHANGED sent
  BY <1>0, <1>2, QueueTake
<1>3. ASSUME NEW k \in Kinds, inbox' = Append(inbox, k), sent' = Append(sent, k)
      PROVE  QueueInv' /\ inbox' \in Seq(Kinds) /\ sent' \in Seq(Kinds)
  BY <1>3, QueueAdd
<1> QED BY <1>1, <1>2, <1>3, QueueMoves

-----------------------------------------------------------------------------
(* Types and the feeder *)

(* Every step keeps the types. *)
LEMMA RequestType ==
    ASSUME TypeOK, QueueInv, [Next]_vars
    PROVE  TypeOK'
<1> USE DEF handlerVars, feederVars, callVars, jobVars
<1>0. inbox' \in Seq(Kinds) /\ sent' \in Seq(Kinds)
  BY QueueStep
<1>1. NumChunks \in Nat /\ AudioCap \in Nat /\ content \in Nat /\ got \in Nat
  BY UnaryAssumption DEF TypeOK
<1>2. CASE Refuse \/ Submit
  BY <1>0, <1>2 DEF Refuse, Submit, TypeOK
<1>3. ASSUME NEW a \in {"ok", "upstream_failed", "timeout"}, Reply(a), content' \in Nat PROVE TypeOK'
  <2>1. {ctxDone, audioShut, ready}' \subseteq BOOLEAN
    BY <1>3 DEF Reply, TypeOK
  <2> QED BY <1>0, <1>3, <2>1 DEF Reply, TypeOK
<1>4. CASE TakeError \/ TakeTTS \/ AnswerSTT \/ TimedOut
  BY <1>1, <1>3, <1>4 DEF TakeError, TakeTTS, AnswerSTT, TimedOut
<1>5. CASE TakeSTT
  <2>1. content' \in Nat
    BY <1>1, <1>5 DEF TakeSTT
  <2> QED BY <1>0, <1>5, <2>1 DEF TakeSTT, TypeOK
<1>6. CASE Expire
  <2>1. {ctxDone, audioShut, ready}' \subseteq BOOLEAN
    BY <1>6 DEF Expire, TypeOK
  <2> QED BY <1>0, <1>6, <2>1 DEF Expire, TypeOK
<1>7. CASE FeedBegins
  BY <1>0, <1>7 DEF FeedBegins, FeedFrame, TypeOK
<1>8. CASE FeedChunk
  <2>1. fed' \in 0 .. NumChunks /\ audio' \in 0 .. AudioCap
    BY <1>1, <1>8 DEF FeedChunk, TypeOK
  <2> QED BY <1>0, <1>8, <2>1 DEF FeedChunk, FeedFrame, TypeOK
<1>9. CASE CloseAudio
  <2>1. {ctxDone, audioShut, ready}' \subseteq BOOLEAN
    BY <1>9 DEF CloseAudio, FeedFrame, TypeOK
  <2> QED BY <1>0, <1>9, <2>1 DEF CloseAudio, FeedFrame, TypeOK
<1>10. CASE JobReady
  <2>1. {ctxDone, audioShut, ready}' \subseteq BOOLEAN
    BY <1>10 DEF JobReady, WorkerFrame, TypeOK
  <2> QED BY <1>0, <1>10, <2>1 DEF JobReady, WorkerFrame, TypeOK
<1>11. CASE JobAudio
  <2>1. audio' \in 0 .. AudioCap
    BY <1>1, <1>11 DEF JobAudio, TypeOK
  <2> QED BY <1>0, <1>11, <2>1 DEF JobAudio, WorkerFrame, TypeOK
<1>12. CASE JobResult \/ JobCloses \/ CallCloses
  BY <1>0, <1>12 DEF JobResult, JobCloses, CallCloses, WorkerFrame, TypeOK
<1>13. CASE CallBegins \/ CallEnds \/ CallFails
  BY <1>0, <1>13 DEF CallBegins, CallEnds, CallFails, CallFrame, WorkerFrame, TypeOK
<1>14. CASE CallReceives
  <2>1. got' \in 0 .. NumChunks
    BY <1>1, <1>14 DEF CallReceives, TypeOK
  <2> QED BY <1>0, <1>14, <2>1 DEF CallReceives, CallFrame, WorkerFrame, TypeOK
<1>15. CASE CallResult
  BY <1>0, <1>15 DEF CallResult, SendResult, WorkerFrame, TypeOK
<1>16. CASE UNCHANGED vars
  BY <1>16 DEF vars, TypeOK
<1> QED BY <1>2, <1>4, <1>5, <1>6, <1>7, <1>8, <1>9, <1>10, <1>11, <1>12, <1>13, <1>14, <1>15, <1>16
        DEF Next, Handler, Feeder, FeedEnds, FeedCancelled, Caller

(* The feeder gives up only with the request. *)
LEMMA FeedStep ==
    ASSUME TypeOK, FeedInv, [Next]_vars
    PROVE  FeedInv'
<1> USE DEF handlerVars, feederVars, callVars, jobVars
<1>0. NumChunks \in Nat /\ fed \in Nat /\ fed <= NumChunks
  BY UnaryAssumption DEF TypeOK
<1>1. ASSUME UNCHANGED <<fpc, fed, audioShut>>, ctxDone => ctxDone', hpc' = "submit" => hpc = "submit"
      PROVE  FeedInv'
  BY <1>1 DEF FeedInv, AudioCutOnlyAtEnd
<1>2. CASE Refuse \/ TakeSTT \/ TakeError \/ TakeTTS \/ AnswerSTT \/ TimedOut \/ Expire
  BY <1>1, <1>2 DEF Refuse, TakeSTT, TakeError, TakeTTS, AnswerSTT, TimedOut, Expire, Reply
<1>3. CASE Submit
  <2>1. UNCHANGED <<fed, audioShut, ctxDone>> /\ hpc = "submit" /\ hpc' = "wait"
    BY <1>3 DEF Submit
  <2>2. ~audioShut
    BY <2>1 DEF FeedInv
  <2> QED BY <2>1, <2>2 DEF FeedInv, AudioCutOnlyAtEnd
<1>4. CASE FeedBegins \/ FeedChunk
  <2>1. fpc \in {"wait", "feed"} /\ UNCHANGED <<audioShut, hpc>>
    BY <1>4 DEF FeedBegins, FeedChunk, FeedFrame
  <2> QED BY <2>1 DEF FeedInv, AudioCutOnlyAtEnd
<1>5. CASE FeedEnds \/ FeedCancelled
  <2>1. fpc # "none" /\ fpc' = "end" /\ UNCHANGED <<fed, ctxDone, hpc>> /\ (fed = NumChunks \/ ctxDone)
    BY <1>5 DEF FeedEnds, FeedCancelled, CloseAudio, FeedFrame
  <2> QED BY <1>0, <2>1 DEF FeedInv, AudioCutOnlyAtEnd
<1>6. CASE JobReady \/ JobAudio \/ JobResult \/ JobCloses \/ CallBegins \/ CallReceives \/ CallEnds \/ CallFails
  BY <1>1, <1>6 DEF JobReady, JobAudio, JobResult, JobCloses, WorkerFrame, CallBegins, CallReceives,
     CallEnds, CallFails, CallFrame
<1>7. CASE CallResult \/ CallCloses \/ UNCHANGED vars
  BY <1>1, <1>7 DEF CallResult, SendResult, CallCloses, WorkerFrame, vars
<1> QED BY <1>2, <1>3, <1>4, <1>5, <1>6, <1>7 DEF Next, Handler, Feeder, Caller

-----------------------------------------------------------------------------
(* What the answer holds *)

(* One more Result taken. *)
LEMMA CountTaken ==
    ASSUME TypeOK, NEW n \in Nat
    PROVE  /\ Cardinality(FinalsTo(n)) \in Nat /\ Cardinality(FinalsTo(0)) = 0
           /\ sent[n + 1] = "final" => Cardinality(FinalsTo(n + 1)) = Cardinality(FinalsTo(n)) + 1
           /\ sent[n + 1] # "final" => FinalsTo(n + 1) = FinalsTo(n)
<1> DEFINE A == FinalsTo(n)
           B == FinalsTo(n + 1)
<1>1. IsFiniteSet(A)
  <2>1. IsFiniteSet(1 .. n) /\ A \in SUBSET (1 .. n)
    BY FS_Interval DEF FinalsTo
  <2> QED BY <2>1, FS_Subset
<1>2. n + 1 \notin A /\ (n + 1 \in B <=> sent[n + 1] = "final") /\ \A y : y # n + 1 => (y \in A <=> y \in B)
  BY DEF FinalsTo
<1>3. FinalsTo(0) = {}
  BY DEF FinalsTo
<1>4. Cardinality(FinalsTo(0)) = 0
  BY <1>3, FS_EmptySet
<1>5. /\ Cardinality(A) \in Nat
      /\ n + 1 \in B => Cardinality(B) = Cardinality(A) + 1
      /\ n + 1 \notin B => B = A
  <2> HIDE DEF A, B
  <2> QED BY <1>1, <1>2, CountOne
<1> QED BY <1>2, <1>4, <1>5

(* A tts call ends once, with all of its audio. *)
LEMMA CallStep ==
    ASSUME TypeOK, QueueInv, CallInv, [Next]_vars
    PROVE  CallInv'
<1> USE DEF handlerVars, feederVars, callVars, jobVars
<1>0. Len(sent) \in Nat
  BY DEF TypeOK
<1>1. ASSUME UNCHANGED <<service, call, got, sent>> PROVE CallInv'
  BY <1>1 DEF CallInv
<1>2. CASE Refuse \/ Submit \/ TakeSTT \/ TakeError \/ TakeTTS \/ AnswerSTT \/ TimedOut \/ Expire
  BY <1>1, <1>2 DEF Refuse, Submit, TakeSTT, TakeError, TakeTTS, AnswerSTT, TimedOut, Expire, Reply
<1>3. CASE Feeder
  BY <1>1, <1>3 DEF Feeder, FeedBegins, FeedChunk, FeedEnds, FeedCancelled, CloseAudio, FeedFrame
<1>4. CASE JobReady \/ JobAudio \/ JobCloses \/ CallCloses \/ UNCHANGED vars
  BY <1>1, <1>4 DEF JobReady, JobAudio, JobCloses, CallCloses, WorkerFrame, vars
<1>5. CASE JobResult
  <2>1. service = "stt" /\ UNCHANGED <<service, call, got>>
    BY <1>5 DEF JobResult, WorkerFrame
  <2> QED BY <2>1 DEF CallInv
<1>6. CASE CallBegins \/ CallReceives \/ CallEnds \/ CallFails
  <2>1. /\ UNCHANGED <<service, sent>> /\ call \in {"none", "streaming"}
        /\ call' = "ended" => got' = NumChunks
    BY <1>6 DEF CallBegins, CallReceives, CallEnds, CallFails, CallFrame, WorkerFrame
  <2>2. service = "stt" => call' = "none"
    BY <1>6, <2>1 DEF CallBegins, CallReceives, CallEnds, CallFails, CallInv
  <2> QED BY <2>1, <2>2 DEF CallInv
<1>7. CASE CallResult
  <2>1. PICK k \in Kinds : /\ inbox' = Append(inbox, k) /\ sent' = Append(sent, k)
                           /\ k = IF call = "ended" THEN "final" ELSE "error"
    BY <1>7 DEF CallResult, SendResult, Kinds
  <2>2. /\ Len(sent') = Len(sent) + 1 /\ sent'[Len(sent) + 1] = k
        /\ \A n \in 1 .. Len(sent) : sent'[n] = sent[n]
    BY <2>1, QueueAdd
  <2>3. UNCHANGED <<service, call, got>>
    BY <1>7 DEF CallResult, SendResult, WorkerFrame
  <2>4. \A m \in 1 .. Len(sent') : m \in 1 .. Len(sent) \/ m = Len(sent) + 1
    BY <1>0, <2>2
  <2> QED BY <2>1, <2>2, <2>3, <2>4 DEF CallInv
<1> QED BY <1>2, <1>3, <1>4, <1>5, <1>6, <1>7 DEF Next, Handler, Caller

(* The handler collects what it takes. *)
LEMMA CollectStep ==
    ASSUME TypeOK, QueueInv, CollectInv, CallInv, [Next]_vars
    PROVE  CollectInv'
<1> USE DEF handlerVars, feederVars, callVars, jobVars
<1>0. inbox \in Seq(Kinds) /\ sent \in Seq(Kinds) /\ Len(inbox) \in Nat /\ Len(sent) \in Nat
  BY DEF TypeOK
<1>1. ASSUME UNCHANGED <<service, answer, content, hpc, sent, inbox>>, job' = job \/ job # "none"
      PROVE  CollectInv'
  BY <1>1 DEF CollectInv, Taken, FinalsTo
<1>2. CASE Refuse
  <2>1. hpc' = "end"
    BY <1>2 DEF Refuse
  <2> QED BY <2>1 DEF CollectInv
<1>3. CASE Submit
  <2>1. /\ hpc = "submit" /\ hpc' = "wait" /\ UNCHANGED <<answer, content, sent, inbox>>
    BY <1>3 DEF Submit
  <2>2. sent = <<>> /\ content = 0 /\ answer # "ok"
    BY <2>1 DEF CollectInv
  <2>3. Len(sent) = 0 /\ Taken = 0
    BY <1>0, <2>2 DEF QueueInv, Taken
  <2>4. FinalsTo(Taken)' = FinalsTo(0) /\ Taken' = 0
    BY <2>1, <2>3 DEF FinalsTo, Taken
  <2>5. Cardinality(FinalsTo(0)) = 0
    BY CountTaken
  <2> QED BY <2>1, <2>2, <2>4, <2>5 DEF CollectInv
<1>4. CASE TakeError \/ TakeTTS \/ AnswerSTT \/ TimedOut
  <2>1. hpc' = "end"
    BY <1>4 DEF TakeError, TakeTTS, AnswerSTT, TimedOut, Reply
  <2> QED BY <2>1 DEF CollectInv
<1>5. CASE TakeSTT
  <2>1. /\ hpc = "wait" /\ service = "stt" /\ inbox # <<>> /\ inbox' = Tail(inbox) /\ Head(inbox) # "error"
        /\ content' = IF Head(inbox) = "final" THEN content + 1 ELSE content
        /\ UNCHANGED <<hpc, service, answer, sent>>
    BY <1>5 DEF TakeSTT
  <2>2. Taken \in Nat /\ Taken' = Taken + 1 /\ Head(inbox) = sent[Taken']
    BY <2>1, QueueTake
  <2>3. FinalsTo(Taken)' = FinalsTo(Taken + 1)
    BY <2>1, <2>2 DEF FinalsTo
  <2>4. content' = Cardinality(FinalsTo(Taken + 1))
    BY <2>1, <2>2, CountTaken DEF CollectInv
  <2>5. \A m \in 1 .. Taken + 1 : sent[m] # "error"
    BY <2>1, <2>2 DEF CollectInv
  <2> QED BY <2>1, <2>2, <2>3, <2>4, <2>5 DEF CollectInv
<1>6. CASE Expire \/ UNCHANGED vars
  BY <1>1, <1>6 DEF Expire, vars
<1>7. CASE Feeder
  BY <1>1, <1>7 DEF Feeder, FeedBegins, FeedChunk, FeedEnds, FeedCancelled, CloseAudio, FeedFrame
<1>8. CASE JobReady \/ JobAudio \/ JobCloses \/ CallCloses
  BY <1>1, <1>8 DEF JobReady, JobAudio, JobCloses, CallCloses, WorkerFrame
<1>9. CASE CallBegins \/ CallReceives \/ CallEnds \/ CallFails
  BY <1>1, <1>9 DEF CallBegins, CallReceives, CallEnds, CallFails, CallFrame, WorkerFrame
<1>10. CASE JobResult \/ CallResult
  <2>1. PICK k \in Kinds : inbox' = Append(inbox, k) /\ sent' = Append(sent, k)
    BY <1>10 DEF JobResult, CallResult, SendResult, Kinds
  <2>2. /\ Taken \in Nat /\ Taken' = Taken /\ Taken <= Len(sent)
        /\ \A n \in 1 .. Len(sent) : sent'[n] = sent[n]
    BY <2>1, QueueAdd
  <2>3. job = "open" /\ UNCHANGED <<hpc, service, answer, content>>
    BY <1>10 DEF JobResult, CallResult, Called, SendResult, WorkerFrame
  <2>4. \A m \in 1 .. Taken : m \in 1 .. Len(sent) /\ sent'[m] = sent[m]
    BY <1>0, <2>2
  <2>5. FinalsTo(Taken)' = FinalsTo(Taken)
    BY <2>2, <2>4 DEF FinalsTo
  <2> QED BY <2>2, <2>3, <2>4, <2>5 DEF CollectInv
<1> QED BY <1>2, <1>3, <1>4, <1>5, <1>6, <1>7, <1>8, <1>9, <1>10 DEF Next, Handler, Caller

(* An answer that is whole when it is given stays the whole truth. *)
LEMMA OkStep ==
    ASSUME TypeOK, QueueInv, CollectInv, CallInv, OkIsWhole, [Next]_vars
    PROVE  OkIsWhole'
<1> USE DEF handlerVars, feederVars, callVars, jobVars
<1>0. inbox \in Seq(Kinds) /\ sent \in Seq(Kinds) /\ Len(inbox) \in Nat /\ Len(sent) \in Nat
  BY DEF TypeOK
<1>1. ASSUME answer' # "ok" PROVE OkIsWhole'
  BY <1>1 DEF OkIsWhole
<1>2. ASSUME hpc # "end", UNCHANGED answer PROVE OkIsWhole'
  BY <1>1, <1>2 DEF CollectInv
<1>3. ASSUME UNCHANGED <<answer, service, content, sent>>, job = "closed" => job' = "closed",
             call = "ended" => call' = "ended"
      PROVE  OkIsWhole'
  BY <1>3 DEF OkIsWhole, Finals, Contains
<1>4. CASE Refuse \/ Submit \/ TakeSTT \/ Expire
  <2>1. hpc # "end" /\ (UNCHANGED answer \/ answer' = "refused")
    BY <1>4 DEF Refuse, Submit, TakeSTT, Expire
  <2> QED BY <1>1, <1>2, <2>1
<1>5. CASE TakeError \/ TimedOut
  <2>1. answer' \in {"upstream_failed", "timeout"}
    BY <1>5 DEF TakeError, TimedOut, Reply
  <2> QED BY <1>1, <2>1
<1>6. CASE TakeTTS
  <2>1. CASE answer' = "upstream_failed"
    BY <1>1, <2>1
  <2>2. CASE inbox # <<>> /\ Head(inbox) # "error" /\ inbox' = Tail(inbox) /\ Reply("ok") /\ content' = got
    <3>1. service = "tts" /\ UNCHANGED <<service, sent, call, got>>
      BY <1>6, <2>2 DEF TakeTTS, Reply
    <3>2. Taken' \in 1 .. Len(sent) /\ Head(inbox) = sent[Taken']
      BY <2>2, <3>1, QueueTake
    <3>3. call = "ended" /\ got = NumChunks
      BY <2>2, <3>1, <3>2 DEF CallInv
    <3> QED BY <2>2, <3>1, <3>3 DEF OkIsWhole
  <2> QED BY <1>6, <2>1, <2>2 DEF TakeTTS, Reply
<1>7. CASE AnswerSTT
  <2>1. /\ service = "stt" /\ hpc = "wait" /\ inbox = <<>> /\ job = "closed"
        /\ UNCHANGED <<service, job, content, sent>>
    BY <1>7 DEF AnswerSTT, Reply
  <2>2. Taken = Len(sent)
    BY <1>0, <2>1 DEF Taken
  <2>3. content = Cardinality(FinalsTo(Len(sent))) /\ \A m \in 1 .. Len(sent) : sent[m] # "error"
    BY <2>1, <2>2 DEF CollectInv
  <2>4. content' = Finals' /\ ~Contains(sent, "error")'
    BY <2>1, <2>3 DEF Finals, FinalsTo, Contains
  <2> QED BY <2>1, <2>4 DEF OkIsWhole
<1>8. CASE Feeder
  BY <1>3, <1>8 DEF Feeder, FeedBegins, FeedChunk, FeedEnds, FeedCancelled, CloseAudio, FeedFrame
<1>9. CASE JobReady \/ JobAudio \/ JobCloses \/ CallCloses \/ UNCHANGED vars
  BY <1>3, <1>9 DEF JobReady, JobAudio, JobCloses, CallCloses, WorkerFrame, vars
<1>10. CASE CallBegins \/ CallReceives \/ CallEnds \/ CallFails
  BY <1>3, <1>10 DEF CallBegins, CallReceives, CallEnds, CallFails, CallFrame, WorkerFrame
<1>11. CASE JobResult \/ CallResult
  <2>1. job = "open" /\ UNCHANGED <<answer, service, content, call>>
    BY <1>11 DEF JobResult, CallResult, Called, SendResult, WorkerFrame
  <2> QED BY <2>1 DEF OkIsWhole
<1> QED BY <1>4, <1>5, <1>6, <1>7, <1>8, <1>9, <1>10, <1>11 DEF Next, Handler, Caller

-----------------------------------------------------------------------------
(* The theorems *)

(* The first state satisfies the invariant. *)
LEMMA InitRequest == Init => RequestInv
<1> SUFFICES ASSUME Init PROVE RequestInv
  OBVIOUS
<1>1. NumChunks \in Nat /\ AudioCap \in Nat
  BY UnaryAssumption
<1>2. {ctxDone, audioShut, ready} \subseteq BOOLEAN /\ inbox \in Seq(Kinds) /\ sent \in Seq(Kinds)
  <2>1. {ctxDone, audioShut, ready} \subseteq BOOLEAN
    BY DEF Init
  <2>2. inbox \in Seq(Kinds) /\ sent \in Seq(Kinds)
    BY DEF Init
  <2> QED BY <2>1, <2>2
<1>3. TypeOK
  <2>1. content \in Nat /\ fed \in 0 .. NumChunks /\ audio \in 0 .. AudioCap /\ got \in 0 .. NumChunks
    BY <1>1 DEF Init
  <2> QED BY <1>2, <2>1 DEF Init, TypeOK
<1>4. FeedInv /\ QueueInv /\ CollectInv /\ CallInv /\ OkIsWhole
  BY DEF Init, FeedInv, AudioCutOnlyAtEnd, QueueInv, Taken, CollectInv, CallInv, OkIsWhole
<1> QED BY <1>3, <1>4 DEF RequestInv

(* Every step keeps it. *)
LEMMA RequestAlways == Spec => []RequestInv
<1>1. RequestInv /\ [Next]_vars => RequestInv'
  BY RequestType, FeedStep, QueueStep, CollectStep, CallStep, OkStep DEF RequestInv
<1> QED BY <1>1, InitRequest, PTL DEF Spec

(* Every state of a request is well typed; in particular AudioCh never     *)
(* holds more than its capacity.                                           *)
THEOREM RequestTypeCorrect == Spec => []TypeOK
<1>1. RequestInv => TypeOK
  BY DEF RequestInv
<1> QED BY <1>1, RequestAlways, PTL

(* A request that is answered ok got everything: all final results of an   *)
(* stt job that reported no error, or all audio of a tts stream that ended. *)
THEOREM OkAnswersAreWhole == Spec => []OkIsWhole
<1>1. RequestInv => OkIsWhole
  BY DEF RequestInv
<1> QED BY <1>1, RequestAlways, PTL

(* No chunk of the request's audio is dropped before the request is over. *)
THEOREM AudioIsNotCut == Spec => []AudioCutOnlyAtEnd
<1>1. RequestInv => AudioCutOnlyAtEnd
  BY DEF RequestInv, FeedInv
<1> QED BY <1>1, RequestAlways, PTL
=============================================================================
