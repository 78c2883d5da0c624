------------------------------- MODULE Batch -------------------------------
(***************************************************************************)
(* cmd/playground, the client: stt-batch and tts-batch. One goroutine per  *)
(* item, a semaphore, a wait group, and main, which writes the log when    *)
(* all are done. An stt item is a WebSocket job with up to three attempts, *)
(* a tts item one POST. The gateway sends any frame, or none, at any time; *)
(* transcripts are abstracted to the attempts their results came from.     *)
(***************************************************************************)
EXTENDS Integers, FiniteSets

CONSTANTS NumItems,   \* WAV files or sentences
          Flags,      \* values the -workers flag may have
          OutName,    \* base name of each WAV file, which names its transcript
          MaxRetries  \* maxRetries: attempts of an stt item

ASSUME BatchAssumption ==
    /\ NumItems \in Nat \ {0} /\ MaxRetries \in Nat \ {0}
    /\ Flags \subseteq Int
    /\ OutName \in [1 .. NumItems -> STRING]

Items == 1 .. NumItems

VARIABLES
    kind,     \* "stt" or "tts"
    slots,    \* capacity of sem
    next,     \* item main starts next; NumItems + 1 when it waits
    sem,      \* tokens in sem
    wg,       \* counter of the wait group
    pc,       \* where the goroutine of each item is
    attempt,  \* number of its current attempt
    text,     \* attempts whose final results are in res.transcript
    entry,    \* results[i]: "none", "ok" or "fail"
    counted,  \* the tts batch's atomic counters ok and fail
    file,     \* output files: the item each was last written for, or 0
    logged    \* the log has been written, from this many ok and failed items

mainVars == <<kind, slots, next, logged>>
outVars == <<entry, counted, file>>
vars == <<mainVars, sem, wg, pc, attempt, text, outVars>>

NotLogged == [ok |-> 0, fail |-> 0]
Attempting == {"dial", "welcome", "ready", "stream", "collect"}
InFlight == Attempting \cup {"post", "write", "release"}

TypeOK ==
    /\ kind \in {"stt", "tts"} /\ slots \in Nat \ {0}
    /\ next \in 1 .. NumItems + 1
    /\ sem \in 0 .. slots /\ wg \in 0 .. NumItems
    /\ pc \in [Items -> InFlight \cup {"none", "acquire", "sign", "over"}]
    /\ attempt \in [Items -> 1 .. MaxRetries]
    /\ text \in [Items -> SUBSET (1 .. MaxRetries)]
    /\ entry \in [Items -> {"none", "ok", "fail"}]
    /\ counted \in [ok : 0 .. NumItems, fail : 0 .. NumItems]
    /\ file \in [Items -> 0 .. NumItems]
    /\ logged \in [ok : 0 .. NumItems, fail : 0 .. NumItems]

(* if workers < 1 { workers = 1 } *)
Capacity(flag) == IF flag < 1 THEN 1 ELSE flag

Init ==
    /\ kind \in {"stt", "tts"}
    /\ \E flag \in Flags : slots = Capacity(flag)
    /\ next = 1 /\ sem = 0 /\ wg = 0
    /\ pc = [i \in Items |-> "none"]
    /\ attempt = [i \in Items |-> 1]
    /\ text = [i \in Items |-> {}]
    /\ entry = [i \in Items |-> "none"]
    /\ counted = NotLogged /\ logged = NotLogged
    /\ file = [i \in Items |-> 0]

-----------------------------------------------------------------------------
(* main *)

Goto(i, l) == pc' = [pc EXCEPT ![i] = l]

(* Fault: wg.Add is missing. *)
StartSTTNoAdd ==
    /\ kind = "stt" /\ next \in Items
    /\ next' = next + 1
    /\ Goto(next, "acquire")
    /\ UNCHANGED <<kind, slots, logged, sem, wg, attempt, text, outVars>>

(* stt-batch starts all goroutines; each waits for the semaphore itself. *)
StartSTT ==
    /\ kind = "stt" /\ next \in Items
    /\ next' = next + 1 /\ wg' = wg + 1
    /\ Goto(next, "acquire")
    /\ UNCHANGED <<kind, slots, logged, sem, attempt, text, outVars>>

(* Fault: the goroutine is started without a token. *)
StartTTSNoToken ==
    /\ kind = "tts" /\ next \in Items
    /\ next' = next + 1 /\ wg' = wg + 1
    /\ Goto(next, "post")
    /\ UNCHANGED <<kind, slots, logged, sem, attempt, text, outVars>>

(* tts-batch takes the semaphore before it starts the goroutine. *)
StartTTS ==
    /\ kind = "tts" /\ next \in Items /\ sem < slots
    /\ next' = next + 1 /\ wg' = wg + 1 /\ sem' = sem + 1
    /\ Goto(next, "post")
    /\ UNCHANGED <<kind, slots, logged, attempt, text, outVars>>

Entries(e) == Cardinality({i \in Items : entry[i] = e})

(* wg.Wait returns; the counts are printed and the log is written. An      *)
(* entry that was never set is a failure there.                            *)
WriteLog ==
    /\ next = NumItems + 1 /\ wg = 0 /\ logged = NotLogged
    /\ logged' = [ok |-> Entries("ok"), fail |-> NumItems - Entries("ok")]
    /\ UNCHANGED <<kind, slots, next, sem, wg, pc, attempt, text, outVars>>

-----------------------------------------------------------------------------
(* The goroutine of item i *)

Frame == <<mainVars, wg>>

Acquire(i) ==
    /\ pc[i] = "acquire" /\ sem < slots
    /\ sem' = sem + 1
    /\ Goto(i, "dial")
    /\ UNCHANGED <<Frame, attempt, text, outVars>>

(* results[i] is set and the goroutine leaves; tts-batch counts, too. *)
Finish(i, e) ==
    /\ entry' = [entry EXCEPT ![i] = e]
    /\ counted' = IF kind = "tts" THEN [counted EXCEPT ![e] = @ + 1] ELSE counted
    /\ Goto(i, "release")

(* Fault: the transcript is kept over the attempts. *)
AttemptFailsKeeping(i) ==
    /\ \/ /\ attempt[i] < MaxRetries
          /\ attempt' = [attempt EXCEPT ![i] = @ + 1]
          /\ Goto(i, "dial")
          /\ UNCHANGED <<entry, counted>>
       \/ /\ attempt[i] = MaxRetries
          /\ Finish(i, "fail") /\ UNCHANGED attempt
    /\ UNCHANGED <<Frame, text, sem, file>>

(* runSTT returns an error: the next attempt after a pause, or the end. *)
AttemptFails(i) ==
    /\ \/ /\ attempt[i] < MaxRetries
          /\ attempt' = [attempt EXCEPT ![i] = @ + 1]
          /\ Goto(i, "dial")
          /\ UNCHANGED <<entry, counted>>
       \/ /\ attempt[i] = MaxRetries
          /\ Finish(i, "fail") /\ UNCHANGED attempt
    /\ text' = [text EXCEPT ![i] = {}]
    /\ UNCHANGED <<Frame, sem, file>>

Step(i, from, to) ==
    /\ pc[i] = from
    /\ Goto(i, to)
    /\ UNCHANGED <<Frame, sem, attempt, text, outVars>>

Dial(i) == Step(i, "dial", "welcome")

(* "connected" was read and start was sent. *)
Welcome(i) == Step(i, "welcome", "ready")

Ready(i) == Step(i, "ready", "stream")

(* All audio and stop were sent. *)
Stream(i) == Step(i, "stream", "collect")

(* An unreadable WAV file or a failed dial; a frame that is not the one    *)
(* waited for; the 120 s for ready; a failed write; an error with a code.  *)
Break(i) == pc[i] \in Attempting /\ AttemptFails(i)

FinalResult(i) ==
    /\ pc[i] = "collect"
    /\ text' = [text EXCEPT ![i] = @ \cup {attempt[i]}]
    /\ UNCHANGED <<Frame, sem, pc, attempt, outVars>>

(* done, a read error, or 10 s (5 s after a final result) of silence: the  *)
(* transcript counts, however the reading ended, unless it is empty.       *)
Collected(i) ==
    /\ pc[i] = "collect"
    /\ \/ text[i] # {} /\ Step(i, "collect", "write")
       \/ text[i] = {} /\ AttemptFails(i)

(* The POST of a tts item: status 200 with a whole body, or a failure. *)
Post(i) ==
    /\ pc[i] = "post"
    /\ \/ text' = [text EXCEPT ![i] = {attempt[i]}] /\ Goto(i, "write") /\ UNCHANGED outVars
       \/ Finish(i, "fail") /\ UNCHANGED <<text, file>>
    /\ UNCHANGED <<Frame, sem, attempt>>

SameOut(i, k) == i = k \/ (kind = "stt" /\ OutName[i] = OutName[k])

(* The output of item i: a transcript is named after its WAV file, the     *)
(* audio of a sentence after its number. A file is known by its first item. *)
OutPath(i) == CHOOSE k \in Items : SameOut(i, k) /\ \A l \in Items : SameOut(i, l) => k <= l

(* os.WriteFile *)
Write(i) ==
    /\ pc[i] = "write"
    /\ \/ file' = [file EXCEPT ![OutPath(i)] = i] /\ Finish(i, "ok")
       \/ UNCHANGED file /\ Finish(i, "fail")
    /\ UNCHANGED <<Frame, sem, attempt, text>>

(* Fault: the token goes back on the way of success only. *)
ReleaseOnSuccess(i) ==
    /\ pc[i] = "release"
    /\ sem' = IF entry[i] = "ok" THEN sem - 1 ELSE sem
    /\ Goto(i, "sign")
    /\ UNCHANGED <<Frame, attempt, text, outVars>>

(* The deferred <-sem, on every way out ... *)
Release(i) ==
    /\ pc[i] = "release"
    /\ sem' = sem - 1
    /\ Goto(i, "sign")
    /\ UNCHANGED <<Frame, attempt, text, outVars>>

(* ... and then the deferred wg.Done. *)
Done(i) ==
    /\ pc[i] = "sign"
    /\ wg' = wg - 1
    /\ Goto(i, "over")
    /\ UNCHANGED <<mainVars, sem, attempt, text, outVars>>

Goroutine(i) ==
    \/ Acquire(i) \/ Dial(i) \/ Welcome(i) \/ Ready(i) \/ Stream(i) \/ Break(i)
    \/ Collected(i) \/ Post(i) \/ Write(i) \/ Release(i) \/ Done(i)

Next ==
    \/ StartSTT \/ StartTTS \/ WriteLog
    \/ \E i \in Items : Goroutine(i) \/ FinalResult(i)

Spec == Init /\ [][Next]_vars

(* Goroutines run. That each wait for the gateway ends is due to the       *)
(* deadlines, but for two that have none: the welcome frame and the POST,  *)
(* where the gateway is trusted to answer or to hang up. The semaphore     *)
(* serves the goroutines that wait for it in turn (strong fairness).       *)
FairSpec ==
    /\ Spec /\ WF_vars(StartSTT \/ StartTTS \/ WriteLog)
    /\ \A i \in Items : WF_vars(Goroutine(i)) /\ SF_vars(Acquire(i))

-----------------------------------------------------------------------------
(* Properties that hold *)

(* The semaphore bounds the load: never more items at the gateway than the *)
(* flag allows, over errors, retries and early returns.                    *)
SlotsRespected == Cardinality({i \in Items : pc[i] \in InFlight}) <= slots

(* The log is written from complete results: every item has its entry, and *)
(* the tts batch's counters tell the same as its entries.                  *)
LogComplete ==
    logged # NotLogged =>
        /\ logged = [ok |-> Entries("ok"), fail |-> Entries("fail")]
        /\ kind = "tts" => counted = logged

(* An item reported as ok has its output file, with the results of the     *)
(* last attempt and of no other; only an item with the same output name    *)
(* (a.wav and a.WAV) can have overwritten it.                              *)
OkHasOutput ==
    \A i \in Items : entry[i] = "ok" =>
        /\ text[i] = {attempt[i]}
        /\ file[OutPath(i)] # 0 /\ SameOut(i, file[OutPath(i)])

(* The batch comes to its log, whatever fails on the way. *)
BatchEnds == <>(logged # NotLogged)
=============================================================================
