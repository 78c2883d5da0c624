---------------------------- MODULE BatchProofs ----------------------------
(* Theorems about the playground's batches, for every number of items, of *)
(* workers and of attempts, and every naming of the output files.         *)
EXTENDS Batch, DataLemmas, TLAPS

-----------------------------------------------------------------------------
(* The inductive invariant *)

(* Items whose goroutine is at one of these labels. *)
At(labels) == {i \in Items : pc[i] \in labels}

Labels == InFlight \cup {"none", "acquire", "sign", "over"}
Begun == InFlight \cup {"acquire", "sign"}
Leaving == {"release", "sign", "over"}

(* The semaphore and the wait group count goroutines, and main has started *)
(* the items before next.                                                  *)
SemInv == sem = Cardinality(At(InFlight))
WgInv == wg = Cardinality(At(Begun)) /\ \A i \in Items : pc[i] = "none" <=> next <= i

(* A goroutine sets its entry once, as the last thing before its defers. *)
EntryInv == \A i \in Items : entry[i] # "none" <=> pc[i] \in Leaving
CountInv ==
    IF kind = "tts" THEN counted.ok = Entries("ok") /\ counted.fail = Entries("fail")
                    ELSE counted = NotLogged

(* The log is the end. *)
LogInv == LogComplete /\ (logged # NotLogged => next = NumItems + 1 /\ wg = 0)

(* A transcript is that of the current attempt. *)
TextAt(i) ==
    /\ pc[i] \in {"none", "acquire", "post"} \cup (Attempting \ {"collect"}) => text[i] = {}
    /\ pc[i] = "collect" => text[i] \subseteq {attempt[i]}
    /\ pc[i] = "write" => text[i] = {attempt[i]}
TextInv == \A i \in Items : TextAt(i)

BatchInv == TypeOK /\ SemInv /\ WgInv /\ EntryInv /\ CountInv /\ LogInv /\ TextInv /\ OkHasOutput

-----------------------------------------------------------------------------
(* Counting goroutines *)

(* The items are finitely many. *)
LEMMA ItemsFinite ==
    /\ NumItems \in Nat /\ NumItems >= 1 /\ Items = 1 .. NumItems
    /\ IsFiniteSet(Items) /\ Cardinality(Items) = NumItems
<1>1. NumItems \in Nat /\ NumItems >= 1 /\ Items = 1 .. NumItems
  BY BatchAssumption DEF Items
<1>2. IsFiniteSet(1 .. NumItems) /\ Cardinality(1 .. NumItems) = NumItems
  BY <1>1, FS_Interval
<1> QED BY <1>1, <1>2

(* A set of items is counted by a number of items. *)
LEMMA CountItems ==
    ASSUME NEW S \in SUBSET Items
    PROVE  IsFiniteSet(S) /\ Cardinality(S) \in Nat /\ Cardinality(S) <= NumItems
<1>1. IsFiniteSet(S) /\ Cardinality(S) <= Cardinality(Items)
  BY ItemsFinite, FS_Subset
<1>2. Cardinality(S) \in Nat
  BY <1>1, FS_CardinalityType
<1> QED BY <1>1, <1>2, ItemsFinite

(* What the move of one goroutine does to a count. *)
LEMMA MoveCount ==
    ASSUME TypeOK, NEW i \in Items, NEW l, Goto(i, l), NEW L
    PROVE  /\ Cardinality(At(L)) \in Nat /\ Cardinality(At(L)) <= NumItems
           /\ Cardinality(At(L)') \in Nat /\ Cardinality(At(L)') <= NumItems
           /\ (pc[i] \in L <=> l \in L) => At(L)' = At(L)
           /\ pc[i] \notin L /\ l \in L => Cardinality(At(L)') = Cardinality(At(L)) + 1
           /\ pc[i] \in L /\ l \notin L => Cardinality(At(L)') = Cardinality(At(L)) - 1
<1> DEFINE A == At(L)
           B == At(L)'
<1>1. pc'[i] = l /\ \A j \in Items : j # i => pc'[j] = pc[j]
  BY DEF TypeOK, Goto
<1>2. A \in SUBSET Items /\ B \in SUBSET Items
  BY DEF At
<1>3. (i \in A <=> pc[i] \in L) /\ (i \in B <=> l \in L) /\ \A j : j # i => (j \in A <=> j \in B)
  BY <1>1 DEF At
<1>4. /\ IsFiniteSet(A) /\ Cardinality(A) \in Nat /\ Cardinality(A) <= NumItems
      /\ Cardinality(B) \in Nat /\ Cardinality(B) <= NumItems
  <2> HIDE DEF A, B
  <2> QED BY <1>2, CountItems
<1>5. /\ (i \in A <=> i \in B) => B = A
      /\ i \notin A /\ i \in B => Cardinality(B) = Cardinality(A) + 1
      /\ i \in A /\ i \notin B => Cardinality(B) = Cardinality(A) - 1
  <2> HIDE DEF A, B
  <2> QED BY <1>3, <1>4, CountOne
<1> QED BY <1>3, <1>4, <1>5

(* The label a move of a goroutine leads to, and what it does to the       *)
(* semaphore and the wait group.                                           *)
Move(i, l) ==
    /\ Goto(i, l) /\ l \in Labels /\ UNCHANGED <<next, slots, kind, logged>>
    /\ \/ pc[i] = "acquire" /\ l = "dial" /\ sem < slots /\ sem' = sem + 1 /\ UNCHANGED wg
       \/ pc[i] \in InFlight \ {"release"} /\ l \in InFlight /\ UNCHANGED <<sem, wg>>
       \/ pc[i] = "release" /\ l = "sign" /\ sem' = sem - 1 /\ UNCHANGED wg
       \/ pc[i] = "sign" /\ l = "over" /\ wg' = wg - 1 /\ UNCHANGED sem

(* Every step of a goroutine is such a move. *)
LEMMA Moves ==
    ASSUME NEW i \in Items, Goroutine(i)
    PROVE  \E l \in Labels : Move(i, l)
<1> USE DEF mainVars, Frame, Labels, InFlight, Attempting
<1>1. CASE Acquire(i)
  BY <1>1 DEF Acquire, Move
<1>2. CASE Dial(i) \/ Welcome(i) \/ Ready(i) \/ Stream(i)
  BY <1>2 DEF Dial, Welcome, Ready, Stream, Step, Move
<1>3. ASSUME pc[i] \in Attempting, AttemptFails(i) PROVE \E l \in Labels : Move(i, l)
  BY <1>3 DEF AttemptFails, Finish, Move
<1>4. CASE Break(i)
  BY <1>3, <1>4 DEF Break
<1>5. CASE Collected(i)
  BY <1>3, <1>5 DEF Collected, Step, Move
<1>6. CASE Post(i)
  BY <1>6 DEF Post, Finish, Move
<1>7. CASE Write(i)
  BY <1>7 DEF Write, Finish, Move
<1>8. CASE Release(i) \/ Done(i)
  BY <1>8 DEF Release, Done, Move
<1> QED BY <1>1, <1>2, <1>4, <1>5, <1>6, <1>7, <1>8 DEF Goroutine

(* The semaphore and the wait group count right. *)
LEMMA CountStep ==
    ASSUME TypeOK, SemInv, WgInv, [Next]_vars
    PROVE  /\ SemInv' /\ WgInv'
           /\ pc' \in [Items -> Labels] /\ sem' \in 0 .. slots /\ wg' \in 0 .. NumItems
           /\ next' \in 1 .. NumItems + 1
<1> USE DEF mainVars, outVars
<1>0. /\ NumItems \in Nat /\ Items = 1 .. NumItems /\ next \in 1 .. NumItems + 1
      /\ sem \in 0 .. slots /\ slots \in Nat /\ wg \in 0 .. NumItems /\ pc \in [Items -> Labels]
  BY ItemsFinite DEF TypeOK, Labels
<1>1. ASSUME NEW i \in Items, NEW l \in Labels, Goto(i, l)
      PROVE  pc' \in [Items -> Labels] /\ pc'[i] = l /\ \A j \in Items : j # i => pc'[j] = pc[j]
  BY <1>0, <1>1 DEF Goto
<1>2. CASE StartSTT \/ StartTTS
  <2>1. PICK l \in {"acquire", "post"} :
          /\ Goto(next, l) /\ next \in Items /\ next' = next + 1 /\ wg' = wg + 1 /\ slots' = slots
          /\ \/ l = "acquire" /\ sem' = sem
             \/ l = "post" /\ sem < slots /\ sem' = sem + 1
    <3>1. CASE StartSTT
      BY <3>1 DEF StartSTT
    <3>2. CASE StartTTS
      BY <3>2 DEF StartTTS
    <3> QED BY <1>2, <3>1, <3>2
  <2>2. l \in Labels /\ l \in Begun /\ (l \in InFlight <=> l = "post") /\ pc[next] = "none"
    BY <1>0, <2>1 DEF Labels, Begun, InFlight, Attempting, WgInv
  <2>3. "none" \notin Begun /\ "none" \notin InFlight
    BY DEF Begun, InFlight, Attempting
  <2>4. /\ Cardinality(At(Begun)') = Cardinality(At(Begun)) + 1 /\ Cardinality(At(Begun)') <= NumItems
    BY <2>1, <2>2, <2>3, MoveCount
  <2>5. /\ l = "acquire" => At(InFlight)' = At(InFlight)
        /\ l = "post" => Cardinality(At(InFlight)') = Cardinality(At(InFlight)) + 1
    BY <2>1, <2>2, <2>3, MoveCount
  <2>6. pc' \in [Items -> Labels] /\ pc'[next] = l /\ \A j \in Items : j # next => pc'[j] = pc[j]
    BY <1>1, <2>1, <2>2
  <2>7. \A j \in Items : pc'[j] = "none" <=> next' <= j
    BY <1>0, <2>1, <2>6 DEF WgInv
  <2>8. WgInv' /\ wg' \in 0 .. NumItems
    BY <1>0, <2>1, <2>4, <2>7 DEF WgInv
  <2>9. SemInv' /\ sem' \in 0 .. slots
    BY <1>0, <2>1, <2>5 DEF SemInv
  <2> QED BY <1>0, <2>1, <2>6, <2>8, <2>9
<1>3. ASSUME NEW i \in Items, Goroutine(i)
      PROVE  /\ SemInv' /\ WgInv'
             /\ pc' \in [Items -> Labels] /\ sem' \in 0 .. slots /\ wg' \in 0 .. NumItems
             /\ next' \in 1 .. NumItems + 1
  <2>1. PICK l \in Labels : Move(i, l)
    BY <1>3, Moves
  <2>2. Goto(i, l) /\ UNCHANGED next
    BY <2>1 DEF Move
  <2>3. pc' \in [Items -> Labels] /\ pc'[i] = l /\ \A j \in Items : j # i => pc'[j] = pc[j]
    BY <1>1, <2>1, <2>2
  <2>4. /\ Cardinality(At(Begun)) \in Nat /\ Cardinality(At(Begun)') \in Nat
        /\ Cardinality(At(Begun)') <= NumItems
        /\ (pc[i] \in Begun <=> l \in Begun) => At(Begun)' = At(Begun)
        /\ pc[i] \in Begun /\ l \notin Begun => Cardinality(At(Begun)') = Cardinality(At(Begun)) - 1
    BY <2>2, MoveCount
  <2>5. /\ Cardinality(At(InFlight)') \in Nat
        /\ (pc[i] \in InFlight <=> l \in InFlight) => At(InFlight)' = At(InFlight)
        /\ pc[i] \notin InFlight /\ l \in InFlight => Cardinality(At(InFlight)') = Cardinality(At(InFlight)) + 1
        /\ pc[i] \in InFlight /\ l \notin InFlight => Cardinality(At(InFlight)') = Cardinality(At(InFlight)) - 1
    BY <2>2, MoveCount
  <2>6. /\ l # "none" /\ pc[i] # "none"
        /\ \/ pc[i] \in Begun /\ l \in Begun /\ wg' = wg
           \/ pc[i] \in Begun /\ l \notin Begun /\ wg' = wg - 1
    BY <2>1 DEF Move, Begun, InFlight, Attempting
  <2>7. \/ pc[i] \notin InFlight /\ l \in InFlight /\ sem' = sem + 1 /\ sem < slots
        \/ pc[i] \in InFlight /\ l \in InFlight /\ sem' = sem
        \/ pc[i] \notin InFlight /\ l \notin InFlight /\ sem' = sem
        \/ pc[i] \in InFlight /\ l \notin InFlight /\ sem' = sem - 1
    BY <2>1 DEF Move, InFlight, Attempting
  <2>8. wg' = Cardinality(At(Begun)')
    BY <2>4, <2>6 DEF WgInv
  <2>9. sem' = Cardinality(At(InFlight)')
    BY <2>5, <2>7 DEF SemInv
  <2>10. \A j \in Items : pc'[j] = "none" <=> next' <= j
    BY <2>2, <2>3, <2>6 DEF WgInv
  <2>11. sem' \in 0 .. slots
    BY <1>0, <2>5, <2>7, <2>9
  <2> QED BY <1>0, <2>2, <2>3, <2>4, <2>8, <2>9, <2>10, <2>11 DEF WgInv, SemInv
<1>4. CASE WriteLog \/ UNCHANGED vars \/ \E i \in Items : FinalResult(i)
  <2>1. UNCHANGED <<pc, sem, wg, next>>
    BY <1>4 DEF WriteLog, FinalResult, Frame, vars
  <2> QED BY <1>0, <2>1 DEF SemInv, WgInv, At
<1> QED BY <1>2, <1>3, <1>4 DEF Next

-----------------------------------------------------------------------------
(* Entries and counters *)

(* How many entries of a kind there are. *)
LEMMA EntriesNat ==
    ASSUME NEW e
    PROVE  /\ Entries(e) \in Nat /\ Entries(e) <= NumItems
           /\ Entries(e)' \in Nat /\ Entries(e)' <= NumItems
<1> DEFINE A == {j \in Items : entry[j] = e}
           B == {j \in Items : entry'[j] = e}
<1>1. A \in SUBSET Items /\ B \in SUBSET Items
  OBVIOUS
<1>2. /\ Cardinality(A) \in Nat /\ Cardinality(A) <= NumItems
      /\ Cardinality(B) \in Nat /\ Cardinality(B) <= NumItems
  <2> HIDE DEF A, B
  <2> QED BY <1>1, CountItems
<1> QED BY <1>2 DEF Entries

(* A goroutine that sets its entry for the first time adds one to the      *)
(* entries of this kind and none to the others.                            *)
LEMMA EntrySet ==
    ASSUME TypeOK, NEW i \in Items, NEW e \in {"ok", "fail"}, entry[i] = "none",
           entry' = [entry EXCEPT ![i] = e]
    PROVE  /\ Entries(e)' = Entries(e) + 1
           /\ \A f \in {"ok", "fail"} : f # e => Entries(f)' = Entries(f)
<1>1. entry'[i] = e /\ \A j \in Items : j # i => entry'[j] = entry[j]
  BY DEF TypeOK
<1>2. Entries(e)' = Entries(e) + 1
  <2> DEFINE A == {j \in Items : entry[j] = e}
             B == {j \in Items : entry'[j] = e}
  <2>1. A \in SUBSET Items /\ i \notin A /\ i \in B /\ \A j : j # i => (j \in A <=> j \in B)
    BY <1>1
  <2>2. Cardinality(B) = Cardinality(A) + 1
    <3> HIDE DEF A, B
    <3> QED BY <2>1, CountItems, CountOne
  <2> QED BY <2>2 DEF Entries
<1>3. ASSUME NEW f \in {"ok", "fail"}, f # e PROVE Entries(f)' = Entries(f)
  <2>1. {j \in Items : entry'[j] = f} = {j \in Items : entry[j] = f}
    BY <1>1, <1>3
  <2> QED BY <2>1 DEF Entries
<1> QED BY <1>2, <1>3

(* The end of an item is entered and counted once. *)
LEMMA FinishStep ==
    ASSUME TypeOK, EntryInv, CountInv, NEW i \in Items, NEW e \in {"ok", "fail"},
           Finish(i, e), pc[i] \notin Leaving, kind' = kind
    PROVE  /\ EntryInv' /\ CountInv'
           /\ entry' \in [Items -> {"none", "ok", "fail"}]
           /\ counted' \in [ok : 0 .. NumItems, fail : 0 .. NumItems]
<1>0. /\ entry \in [Items -> {"none", "ok", "fail"}] /\ NumItems \in Nat
      /\ counted \in [ok : 0 .. NumItems, fail : 0 .. NumItems]
  BY ItemsFinite DEF TypeOK
<1>1. entry[i] = "none" /\ entry' = [entry EXCEPT ![i] = e]
  BY DEF EntryInv, Finish
<1>2. /\ entry' \in [Items -> {"none", "ok", "fail"}]
      /\ entry'[i] = e /\ \A j \in Items : j # i => entry'[j] = entry[j]
  BY <1>0, <1>1
<1>3. pc'[i] = "release" /\ \A j \in Items : j # i => pc'[j] = pc[j]
  BY DEF TypeOK, Finish, Goto
<1>4. EntryInv'
  BY <1>2, <1>3 DEF EntryInv, Leaving
<1>5. /\ Entries(e)' = Entries(e) + 1
      /\ \A f \in {"ok", "fail"} : f # e => Entries(f)' = Entries(f)
  BY <1>1, EntrySet
<1>6. /\ Entries("ok")' \in Nat /\ Entries("ok")' <= NumItems
      /\ Entries("fail")' \in Nat /\ Entries("fail")' <= NumItems
  BY EntriesNat
<1>7. CASE kind = "tts"
  <2>1. counted' = [counted EXCEPT ![e] = @ + 1]
    BY <1>7 DEF Finish
  <2>2. counted.ok = Entries("ok") /\ counted.fail = Entries("fail")
    BY <1>7 DEF CountInv
  <2>3. CASE e = "ok"
    <3>1. counted' = [ok |-> counted.ok + 1, fail |-> counted.fail]
      BY <1>0, <2>1, <2>3
    <3>2. Entries("ok")' = Entries("ok") + 1 /\ Entries("fail")' = Entries("fail")
      BY <1>5, <2>3
    <3> QED BY <1>2, <1>4, <1>6, <1>7, <2>2, <3>1, <3>2 DEF CountInv
  <2>4. CASE e = "fail"
    <3>1. counted' = [ok |-> counted.ok, fail |-> counted.fail + 1]
      BY <1>0, <2>1, <2>4
    <3>2. Entries("fail")' = Entries("fail") + 1 /\ Entries("ok")' = Entries("ok")
      BY <1>5, <2>4
    <3> QED BY <1>2, <1>4, <1>6, <1>7, <2>2, <3>1, <3>2 DEF CountInv
  <2> QED BY <2>3, <2>4
<1>8. CASE kind # "tts"
  BY <1>0, <1>2, <1>4, <1>8 DEF CountInv, Finish
<1> QED BY <1>7, <1>8

(* A goroutine either sets its entry and goes to its defers, or leaves all *)
(* entries and counters alone.                                             *)
LEMMA Outcome ==
    ASSUME NEW i \in Items, Goroutine(i)
    PROVE  /\ kind' = kind
           /\ \/ pc[i] \notin Leaving /\ \E e \in {"ok", "fail"} : Finish(i, e)
              \/ /\ UNCHANGED <<entry, counted>>
                 /\ \E l \in Labels : Goto(i, l) /\ (pc[i] \in Leaving <=> l \in Leaving)
<1> USE DEF mainVars, outVars, Frame, Labels, InFlight, Attempting, Leaving
<1> DEFINE Goal == /\ kind' = kind
                   /\ \/ pc[i] \notin Leaving /\ \E e \in {"ok", "fail"} : Finish(i, e)
                      \/ /\ UNCHANGED <<entry, counted>>
                         /\ \E l \in Labels : Goto(i, l) /\ (pc[i] \in Leaving <=> l \in Leaving)
<1>1. CASE Acquire(i)
  BY <1>1 DEF Acquire
<1>2. CASE Dial(i) \/ Welcome(i) \/ Ready(i) \/ Stream(i)
  BY <1>2 DEF Dial, Welcome, Ready, Stream, Step
<1>3. ASSUME pc[i] \in Attempting, AttemptFails(i) PROVE Goal
  BY <1>3 DEF AttemptFails
<1>4. CASE Break(i)
  BY <1>3, <1>4 DEF Break
<1>5. CASE Collected(i)
  BY <1>3, <1>5 DEF Collected, Step
<1>6. CASE Post(i)
  BY <1>6 DEF Post
<1>7. CASE Write(i)
  BY <1>7 DEF Write
<1>8. CASE Release(i) \/ Done(i)
  BY <1>8 DEF Release, Done
<1> QED BY <1>1, <1>2, <1>4, <1>5, <1>6, <1>7, <1>8 DEF Goroutine

(* Entries and counters stay in step with the goroutines. *)
LEMMA EntryStep ==
    ASSUME TypeOK, WgInv, EntryInv, CountInv, [Next]_vars
    PROVE  /\ EntryInv' /\ CountInv'
           /\ entry' \in [Items -> {"none", "ok", "fail"}]
           /\ counted' \in [ok : 0 .. NumItems, fail : 0 .. NumItems]
<1> USE DEF mainVars, outVars
<1>0. /\ entry \in [Items -> {"none", "ok", "fail"}] /\ pc \in [Items -> Labels]
      /\ counted \in [ok : 0 .. NumItems, fail : 0 .. NumItems]
  BY DEF TypeOK, Labels
<1>1. ASSUME UNCHANGED <<entry, counted, kind>>,
             \A j \in Items : pc'[j] \in Leaving <=> pc[j] \in Leaving
      PROVE  /\ EntryInv' /\ CountInv'
             /\ entry' \in [Items -> {"none", "ok", "fail"}]
             /\ counted' \in [ok : 0 .. NumItems, fail : 0 .. NumItems]
  BY <1>0, <1>1 DEF EntryInv, CountInv, Entries
<1>2. CASE StartSTT \/ StartTTS
  <2>1. /\ UNCHANGED <<entry, counted, kind>> /\ next \in Items
        /\ \E l \in {"acquire", "post"} : Goto(next, l)
    BY <1>2 DEF StartSTT, StartTTS
  <2>2. next <= next
    BY <2>1, ItemsFinite
  <2>3. pc[next] = "none"
    BY <2>1, <2>2 DEF WgInv
  <2>4. \A j \in Items : pc'[j] \in Leaving <=> pc[j] \in Leaving
    BY <1>0, <2>1, <2>3 DEF Goto, Leaving
  <2> QED BY <1>1, <2>1, <2>4
<1>3. ASSUME NEW i \in Items, Goroutine(i)
      PROVE  /\ EntryInv' /\ CountInv'
             /\ entry' \in [Items -> {"none", "ok", "fail"}]
             /\ counted' \in [ok : 0 .. NumItems, fail : 0 .. NumItems]
  <2>1. CASE pc[i] \notin Leaving /\ \E e \in {"ok", "fail"} : Finish(i, e)
    BY <1>3, <2>1, Outcome, FinishStep
  <2>2. ASSUME UNCHANGED <<entry, counted>>, NEW l \in Labels, Goto(i, l), pc[i] \in Leaving <=> l \in Leaving
        PROVE  /\ EntryInv' /\ CountInv'
               /\ entry' \in [Items -> {"none", "ok", "fail"}]
               /\ counted' \in [ok : 0 .. NumItems, fail : 0 .. NumItems]
    <3>1. \A j \in Items : pc'[j] \in Leaving <=> pc[j] \in Leaving
      BY <1>0, <2>2 DEF Goto
    <3> QED BY <1>1, <1>3, <2>2, <3>1, Outcome
  <2> QED BY <1>3, <2>1, <2>2, Outcome
<1>4. CASE WriteLog \/ UNCHANGED vars \/ \E i \in Items : FinalResult(i)
  <2>1. UNCHANGED <<entry, counted, kind, pc>>
    BY <1>4 DEF WriteLog, FinalResult, Frame, vars
  <2> QED BY <1>1, <2>1
<1> QED BY <1>2, <1>3, <1>4 DEF Next

-----------------------------------------------------------------------------
(* The log *)

(* When the wait group is down to zero after the last start, every         *)
(* goroutine is over, and every item is entered as ok or as a failure.     *)
LEMMA AllOver ==
    ASSUME TypeOK, WgInv, EntryInv, next = NumItems + 1, wg = 0
    PROVE  /\ \A i \in Items : pc[i] = "over"
           /\ Entries("fail") = NumItems - Entries("ok")
<1>1. At(Begun) = {}
  <2>1. At(Begun) \in SUBSET Items
    BY DEF At
  <2>2. IsFiniteSet(At(Begun)) /\ Cardinality(At(Begun)) = 0
    BY <2>1, CountItems DEF WgInv
  <2> QED BY <2>2, FS_EmptySet
<1>2. ASSUME NEW i \in Items
      PROVE  pc[i] \notin Begun /\ pc[i] \in Labels /\ pc[i] # "none"
  <2>1. pc[i] \notin Begun
    BY <1>1, Zenon DEF At
  <2>2. pc[i] \in Labels
    BY DEF TypeOK, Labels
  <2>3. ~(next <= i)
    BY ItemsFinite
  <2> QED BY <2>1, <2>2, <2>3 DEF WgInv
<1>3. \A i \in Items : pc[i] = "over"
  BY <1>2 DEF Begun, Labels
<1>4. \A i \in Items : entry[i] = "ok" \/ entry[i] = "fail"
  BY <1>3 DEF TypeOK, EntryInv, Leaving
<1> DEFINE A == {i \in Items : entry[i] = "ok"}
           B == {i \in Items : entry[i] = "fail"}
<1>5. A \in SUBSET Items /\ B \in SUBSET Items /\ A \cup B = Items /\ A \cap B = {}
  BY <1>4
<1>6. Cardinality(B) = NumItems - Cardinality(A)
  <2> HIDE DEF A, B
  <2>1. IsFiniteSet(A) /\ IsFiniteSet(B) /\ Cardinality(A) \in Nat /\ Cardinality(B) \in Nat
    BY <1>5, CountItems
  <2>2. Cardinality(A \cup B) = Cardinality(A) + Cardinality(B)
    BY <1>5, <2>1, FS_Union, FS_EmptySet
  <2>3. Cardinality(A \cup B) = NumItems
    BY <1>5, ItemsFinite
  <2>4. NumItems = Cardinality(A) + Cardinality(B)
    BY <2>2, <2>3
  <2> QED BY <2>1, <2>4
<1> QED BY <1>3, <1>6 DEF Entries

(* The log is written once, from what is final. *)
LEMMA LogStep ==
    ASSUME TypeOK, WgInv, EntryInv, CountInv, LogInv, [Next]_vars
    PROVE  LogInv' /\ logged' \in [ok : 0 .. NumItems, fail : 0 .. NumItems]
<1> USE DEF mainVars, outVars
<1>0. logged \in [ok : 0 .. NumItems, fail : 0 .. NumItems] /\ NumItems \in Nat
  BY ItemsFinite DEF TypeOK
<1>1. CASE WriteLog
  <2>1. /\ next = NumItems + 1 /\ wg = 0 /\ UNCHANGED <<next, wg, kind, entry, counted>>
        /\ logged' = [ok |-> Entries("ok"), fail |-> NumItems - Entries("ok")]
    BY <1>1 DEF WriteLog
  <2>2. Entries("fail") = NumItems - Entries("ok")
    BY <2>1, AllOver
  <2>3. Entries("ok") \in Nat /\ Entries("ok") <= NumItems /\ Entries("fail") \in Nat /\ Entries("fail") <= NumItems
    BY EntriesNat
  <2>4. logged' = [ok |-> Entries("ok"), fail |-> Entries("fail")]
    BY <2>1, <2>2
  <2>5. Entries("ok")' = Entries("ok") /\ Entries("fail")' = Entries("fail")
    BY <2>1 DEF Entries
  <2>6. kind = "tts" => counted = logged'
    BY <2>4 DEF CountInv, TypeOK
  <2>7. LogComplete'
    BY <2>1, <2>4, <2>5, <2>6 DEF LogComplete
  <2>8. LogInv'
    BY <2>1, <2>7 DEF LogInv
  <2>9. logged' \in [ok : 0 .. NumItems, fail : 0 .. NumItems]
    BY <1>0, <2>3, <2>4
  <2> QED BY <2>8, <2>9
<1>2. CASE ~WriteLog /\ logged = NotLogged
  <2>1. logged' = logged
    <3>1. ASSUME NEW i \in Items, Goroutine(i) PROVE logged' = logged
      BY <3>1, Moves DEF Move
    <3>2. ASSUME NEW i \in Items, FinalResult(i) PROVE logged' = logged
      BY <3>2 DEF FinalResult, Frame
    <3> QED BY <1>2, <3>1, <3>2 DEF Next, StartSTT, StartTTS, vars
  <2> QED BY <1>0, <1>2, <2>1 DEF LogInv, LogComplete, NotLogged
<1>3. CASE ~WriteLog /\ logged # NotLogged
  <2>1. next = NumItems + 1 /\ wg = 0
    BY <1>3 DEF LogInv
  <2>2. \A i \in Items : pc[i] = "over"
    BY <2>1, AllOver
  <2>3. next \notin Items
    BY <2>1, ItemsFinite
  <2>4. ~ \E i \in Items : Goroutine(i) \/ FinalResult(i)
    <3>1. ASSUME NEW i \in Items, Goroutine(i) PROVE FALSE
      BY <2>2, <3>1, Moves DEF Move, InFlight, Attempting
    <3>2. ASSUME NEW i \in Items, FinalResult(i) PROVE FALSE
      BY <2>2, <3>2 DEF FinalResult
    <3> QED BY <3>1, <3>2
  <2>5. UNCHANGED vars
    BY <1>3, <2>3, <2>4 DEF Next, StartSTT, StartTTS
  <2>6. UNCHANGED <<logged, next, wg, kind, entry, counted>>
    BY <2>5 DEF vars
  <2> QED BY <1>0, <2>6 DEF LogInv, LogComplete, Entries
<1> QED BY <1>1, <1>2, <1>3

-----------------------------------------------------------------------------
(* Transcripts and output files *)

(* Having the same output file is an equivalence, and the file of an item  *)
(* is one that it shares.                                                  *)
LEMMA OutPathShared ==
    ASSUME NEW i \in Items
    PROVE  /\ OutPath(i) \in Items /\ SameOut(i, OutPath(i)) /\ SameOut(i, i)
           /\ \A j \in Items : OutPath(j) = OutPath(i) => SameOut(j, i)
<1>1. ASSUME NEW j \in Items PROVE OutPath(j) \in Items /\ SameOut(j, OutPath(j))
  <2> DEFINE T == {k \in Items : SameOut(j, k)}
  <2>1. T \in SUBSET Nat /\ T # {}
    BY ItemsFinite DEF SameOut
  <2>2. PICK k \in T : \A l \in T : k <= l
    <3> HIDE DEF T
    <3> QED BY <2>1, LeastNat
  <2>3. \E k1 \in Items : SameOut(j, k1) /\ \A l \in Items : SameOut(j, l) => k1 <= l
    BY <2>2
  <2> QED BY <2>3, Zenon DEF OutPath
<1>2. ASSUME NEW j \in Items, OutPath(j) = OutPath(i) PROVE SameOut(j, i)
  <2>1. SameOut(j, OutPath(i)) /\ SameOut(i, OutPath(i))
    BY <1>1, <1>2
  <2> QED BY <2>1 DEF SameOut
<1> QED BY <1>1, <1>2 DEF SameOut

(* The names of the files do not change. *)
LEMMA OutPathKept ==
    ASSUME kind' = kind, NEW i \in Items
    PROVE  OutPath(i)' = OutPath(i) /\ \A k : SameOut(i, k)' <=> SameOut(i, k)
BY DEF OutPath, SameOut

(* What a step of one goroutine does to transcripts, entries and files: an *)
(* item is newly ok only together with its file.                           *)
Effect(i) ==
    /\ kind' = kind /\ slots' = slots
    /\ text' \in [Items -> SUBSET (1 .. MaxRetries)] /\ attempt' \in [Items -> 1 .. MaxRetries]
    /\ \A j \in Items \ {i} :
          pc'[j] = pc[j] /\ text'[j] = text[j] /\ attempt'[j] = attempt[j] /\ entry'[j] = entry[j]
    /\ TextAt(i)'
    /\ \/ /\ file' = file
          /\ entry'[i] = "ok" => entry[i] = "ok" /\ text'[i] = text[i] /\ attempt'[i] = attempt[i]
       \/ file' = [file EXCEPT ![OutPath(i)] = i] /\ text'[i] = {attempt'[i]}

(* Every step of a goroutine has such an effect. *)
LEMMA Effects ==
    ASSUME TypeOK, EntryInv, TextInv, NEW i \in Items, Goroutine(i) \/ FinalResult(i)
    PROVE  Effect(i)
<1> USE DEF mainVars, outVars, Frame
<1>0. /\ pc \in [Items -> Labels] /\ entry \in [Items -> {"none", "ok", "fail"}]
      /\ text \in [Items -> SUBSET (1 .. MaxRetries)] /\ attempt \in [Items -> 1 .. MaxRetries]
      /\ MaxRetries \in Nat /\ TextAt(i) /\ attempt[i] \in 1 .. MaxRetries
      /\ (entry[i] # "none" <=> pc[i] \in Leaving)
  BY BatchAssumption DEF TypeOK, Labels, TextInv, EntryInv
<1>1. ASSUME NEW l, Goto(i, l) PROVE pc'[i] = l /\ \A j \in Items \ {i} : pc'[j] = pc[j]
  BY <1>0, <1>1 DEF Goto
<1>2. ASSUME NEW e, Finish(i, e)
      PROVE  /\ pc'[i] = "release" /\ \A j \in Items \ {i} : pc'[j] = pc[j]
             /\ entry'[i] = e /\ \A j \in Items \ {i} : entry'[j] = entry[j]
  BY <1>0, <1>1, <1>2 DEF Finish
<1>3. ASSUME NEW from, NEW to, Step(i, from, to)
      PROVE  /\ pc[i] = from /\ pc'[i] = to /\ \A j \in Items \ {i} : pc'[j] = pc[j]
             /\ UNCHANGED <<kind, slots, text, attempt, entry, file>>
  BY <1>1, <1>3 DEF Step
<1>4. CASE Acquire(i)
  <2>1. /\ pc[i] = "acquire" /\ pc'[i] = "dial" /\ \A j \in Items \ {i} : pc'[j] = pc[j]
        /\ UNCHANGED <<kind, slots, text, attempt, entry, file>>
    BY <1>1, <1>4 DEF Acquire
  <2> QED BY <1>0, <2>1 DEF Effect, TextAt, Attempting
<1>5. CASE Dial(i) \/ Welcome(i) \/ Ready(i) \/ Stream(i)
  <2>1. PICK from \in Attempting \ {"collect"} : \E to \in Attempting : Step(i, from, to)
    BY <1>5 DEF Dial, Welcome, Ready, Stream, Attempting
  <2>2. PICK to \in Attempting : Step(i, from, to)
    BY <2>1
  <2>3. /\ pc[i] = from /\ pc'[i] = to /\ \A j \in Items \ {i} : pc'[j] = pc[j]
        /\ UNCHANGED <<kind, slots, text, attempt, entry, file>>
    BY <1>3, <2>2
  <2> QED BY <1>0, <2>1, <2>2, <2>3 DEF Effect, TextAt, Attempting
<1>6. ASSUME pc[i] \in Attempting, AttemptFails(i) PROVE Effect(i)
  <2>1. /\ text' = [text EXCEPT ![i] = {}] /\ UNCHANGED <<kind, slots, file>>
    BY <1>6 DEF AttemptFails
  <2>2. text'[i] = {} /\ text' \in [Items -> SUBSET (1 .. MaxRetries)]
        /\ \A j \in Items \ {i} : text'[j] = text[j]
    BY <1>0, <2>1
  <2>3. CASE attempt[i] < MaxRetries /\ attempt' = [attempt EXCEPT ![i] = @ + 1]
             /\ Goto(i, "dial") /\ UNCHANGED <<entry, counted>>
    <3>1. attempt' \in [Items -> 1 .. MaxRetries] /\ \A j \in Items \ {i} : attempt'[j] = attempt[j]
      BY <1>0, <2>3
    <3>2. pc'[i] = "dial" /\ \A j \in Items \ {i} : pc'[j] = pc[j]
      BY <1>1, <2>3
    <3>3. entry[i] = "none"
      BY <1>0, <1>6 DEF Attempting, Leaving
    <3> QED BY <2>1, <2>2, <2>3, <3>1, <3>2, <3>3 DEF Effect, TextAt, Attempting
  <2>4. CASE Finish(i, "fail") /\ UNCHANGED attempt
    <3>1. /\ pc'[i] = "release" /\ \A j \in Items \ {i} : pc'[j] = pc[j]
          /\ entry'[i] = "fail" /\ \A j \in Items \ {i} : entry'[j] = entry[j]
      BY <1>2, <2>4
    <3> QED BY <1>0, <2>1, <2>2, <2>4, <3>1 DEF Effect, TextAt, Attempting
  <2> QED BY <1>6, <2>3, <2>4 DEF AttemptFails
<1>7. CASE Break(i)
  BY <1>6, <1>7 DEF Break
<1>8. CASE Collected(i)
  <2>1. CASE text[i] # {} /\ Step(i, "collect", "write")
    <3>1. /\ pc[i] = "collect" /\ pc'[i] = "write" /\ \A j \in Items \ {i} : pc'[j] = pc[j]
          /\ UNCHANGED <<kind, slots, text, attempt, entry, file>>
      BY <1>3, <2>1
    <3>2. text[i] = {attempt[i]}
      BY <1>0, <2>1, <3>1 DEF TextAt
    <3> QED BY <1>0, <3>1, <3>2 DEF Effect, TextAt, Attempting
  <2> QED BY <1>6, <1>8, <2>1 DEF Collected, Attempting
<1>9. CASE Post(i)
  <2>0. pc[i] = "post" /\ UNCHANGED <<kind, slots, attempt>>
    BY <1>9 DEF Post
  <2>1. CASE text' = [text EXCEPT ![i] = {attempt[i]}] /\ Goto(i, "write") /\ UNCHANGED outVars
    <3>1. pc'[i] = "write" /\ \A j \in Items \ {i} : pc'[j] = pc[j]
      BY <1>1, <2>1
    <3>2. /\ text'[i] = {attempt[i]} /\ text' \in [Items -> SUBSET (1 .. MaxRetries)]
          /\ \A j \in Items \ {i} : text'[j] = text[j]
      BY <1>0, <2>1
    <3>3. entry[i] = "none"
      BY <1>0, <2>0 DEF Leaving
    <3> QED BY <1>0, <2>0, <2>1, <3>1, <3>2, <3>3 DEF Effect, TextAt, Attempting
  <2>2. CASE Finish(i, "fail") /\ UNCHANGED <<text, file>>
    <3>1. /\ pc'[i] = "release" /\ \A j \in Items \ {i} : pc'[j] = pc[j]
          /\ entry'[i] = "fail" /\ \A j \in Items \ {i} : entry'[j] = entry[j]
      BY <1>2, <2>2
    <3> QED BY <1>0, <2>0, <2>2, <3>1 DEF Effect, TextAt, Attempting
  <2> QED BY <1>9, <2>1, <2>2 DEF Post
<1>10. CASE Write(i)
  <2>1. PICK e \in {"ok", "fail"} : Finish(i, e) /\ (e = "ok" => file' = [file EXCEPT ![OutPath(i)] = i])
                                    /\ (e = "fail" => file' = file)
    BY <1>10 DEF Write
  <2>2. pc[i] = "write" /\ UNCHANGED <<kind, slots, attempt, text>>
    BY <1>10 DEF Write
  <2>3. /\ pc'[i] = "release" /\ \A j \in Items \ {i} : pc'[j] = pc[j]
        /\ entry'[i] = e /\ \A j \in Items \ {i} : entry'[j] = entry[j]
    BY <1>2, <2>1
  <2>4. text[i] = {attempt[i]}
    BY <1>0, <2>2 DEF TextAt
  <2> QED BY <1>0, <2>1, <2>2, <2>3, <2>4 DEF Effect, TextAt, Attempting
<1>11. CASE Release(i) \/ Done(i)
  <2>1. /\ pc'[i] \in {"sign", "over"} /\ \A j \in Items \ {i} : pc'[j] = pc[j]
        /\ UNCHANGED <<kind, slots, text, attempt, entry, file>>
    BY <1>1, <1>11 DEF Release, Done
  <2> QED BY <1>0, <2>1 DEF Effect, TextAt, Attempting
<1>12. CASE FinalResult(i)
  <2>1. /\ pc[i] = "collect" /\ text' = [text EXCEPT ![i] = @ \cup {attempt[i]}]
        /\ UNCHANGED <<kind, slots, pc, attempt, entry, file>>
    BY <1>12 DEF FinalResult
  <2>2. /\ text'[i] = text[i] \cup {attempt[i]} /\ text' \in [Items -> SUBSET (1 .. MaxRetries)]
        /\ \A j \in Items \ {i} : text'[j] = text[j]
    BY <1>0, <2>1
  <2>3. text'[i] \subseteq {attempt[i]} /\ entry[i] = "none"
    BY <1>0, <2>1, <2>2 DEF TextAt, Leaving
  <2> QED BY <1>0, <2>1, <2>2, <2>3 DEF Effect, TextAt, Attempting
<1> QED BY <1>4, <1>5, <1>7, <1>8, <1>9, <1>10, <1>11, <1>12 DEF Goroutine

(* Transcripts and files survive a step of any goroutine. *)
LEMMA EffectKeeps ==
    ASSUME TypeOK, TextInv, OkHasOutput, NEW i \in Items, Effect(i)
    PROVE  TextInv' /\ OkHasOutput' /\ file' \in [Items -> 0 .. NumItems]
<1>0. /\ file \in [Items -> 0 .. NumItems] /\ NumItems \in Nat /\ i \in 1 .. NumItems /\ i # 0
      /\ Items = 1 .. NumItems
  BY ItemsFinite DEF TypeOK
<1>1. OutPath(i) \in Items /\ SameOut(i, i)
  BY OutPathShared
<1>2. TextInv'
  <2>1. ASSUME NEW j \in Items, j # i PROVE TextAt(j)'
    <3>1. TextAt(j) /\ pc'[j] = pc[j] /\ text'[j] = text[j] /\ attempt'[j] = attempt[j]
      BY <2>1 DEF TextInv, Effect
    <3> QED BY <3>1 DEF TextAt
  <2> QED BY <2>1 DEF TextInv, Effect
<1>3. file' \in [Items -> 0 .. NumItems]
  <2>1. file' = file \/ file' = [file EXCEPT ![OutPath(i)] = i]
    BY DEF Effect
  <2>2. i \in 0 .. NumItems
    BY <1>0
  <2> QED BY <1>0, <2>1, <2>2
<1>4. ASSUME NEW j \in Items, entry'[j] = "ok"
      PROVE  /\ text'[j] = {attempt'[j]}
             /\ (file[OutPath(j)])' # 0 /\ SameOut(j, file[OutPath(j)])'
  <2>1. OutPath(j)' = OutPath(j) /\ OutPath(j) \in Items /\ \A k : SameOut(j, k)' <=> SameOut(j, k)
    BY OutPathKept, OutPathShared DEF Effect
  <2>2. SUFFICES text'[j] = {attempt'[j]} /\ file'[OutPath(j)] # 0 /\ SameOut(j, file'[OutPath(j)])
    BY <2>1
  <2>3. ASSUME entry[j] = "ok", file'[OutPath(j)] = file[OutPath(j)]
        PROVE  file'[OutPath(j)] # 0 /\ SameOut(j, file'[OutPath(j)])
    BY <2>3 DEF OkHasOutput
  <2>4. ASSUME OutPath(j) = OutPath(i), file' = [file EXCEPT ![OutPath(i)] = i]
        PROVE  file'[OutPath(j)] # 0 /\ SameOut(j, file'[OutPath(j)])
    <3>1. file'[OutPath(j)] = i
      BY <1>0, <1>1, <2>4
    <3>2. SameOut(j, i)
      BY <2>4, OutPathShared
    <3> QED BY <1>0, <3>1, <3>2
  <2>5. CASE /\ file' = file
             /\ entry'[i] = "ok" => entry[i] = "ok" /\ text'[i] = text[i] /\ attempt'[i] = attempt[i]
    <3>1. entry[j] = "ok" /\ text'[j] = text[j] /\ attempt'[j] = attempt[j]
      BY <1>4, <2>5 DEF Effect
    <3>2. file'[OutPath(j)] = file[OutPath(j)]
      BY <2>5
    <3> QED BY <2>3, <3>1, <3>2 DEF OkHasOutput
  <2>6. CASE file' = [file EXCEPT ![OutPath(i)] = i] /\ text'[i] = {attempt'[i]}
    <3>1. text'[j] = {attempt'[j]} /\ (j # i => entry[j] = "ok")
      <4>1. CASE j = i
        BY <2>6, <4>1
      <4>2. CASE j # i
        BY <1>4, <4>2 DEF Effect, OkHasOutput
      <4> QED BY <4>1, <4>2
    <3>2. CASE OutPath(j) = OutPath(i)
      BY <2>4, <2>6, <3>1, <3>2
    <3>3. CASE OutPath(j) # OutPath(i)
      <4>1. file'[OutPath(j)] = file[OutPath(j)] /\ j # i
        BY <1>0, <2>1, <2>6, <3>3
      <4> QED BY <2>3, <3>1, <4>1
    <3> QED BY <3>2, <3>3
  <2> QED BY <2>5, <2>6 DEF Effect
<1>5. OkHasOutput'
  BY <1>4 DEF OkHasOutput
<1> QED BY <1>2, <1>3, <1>5

(* Transcripts and files survive any step. *)
LEMMA TextStep ==
    ASSUME TypeOK, WgInv, EntryInv, TextInv, OkHasOutput, [Next]_vars
    PROVE  /\ TextInv' /\ OkHasOutput' /\ file' \in [Items -> 0 .. NumItems]
           /\ kind' = kind /\ slots' = slots
           /\ text' \in [Items -> SUBSET (1 .. MaxRetries)] /\ attempt' \in [Items -> 1 .. MaxRetries]
<1> USE DEF mainVars, outVars
<1>0. /\ file \in [Items -> 0 .. NumItems] /\ pc \in [Items -> Labels]
      /\ text \in [Items -> SUBSET (1 .. MaxRetries)] /\ attempt \in [Items -> 1 .. MaxRetries]
  BY DEF TypeOK, Labels
<1>1. CASE \E i \in Items : Goroutine(i) \/ FinalResult(i)
  <2>1. PICK i \in Items : Goroutine(i) \/ FinalResult(i)
    BY <1>1
  <2>2. Effect(i)
    BY <2>1, Effects
  <2>3. TextInv' /\ OkHasOutput' /\ file' \in [Items -> 0 .. NumItems]
    BY <2>2, EffectKeeps
  <2> QED BY <2>2, <2>3 DEF Effect
<1>2. CASE StartSTT \/ StartTTS \/ WriteLog \/ UNCHANGED vars
  <2>1. UNCHANGED <<kind, slots, text, attempt, entry, file>>
    BY <1>2 DEF StartSTT, StartTTS, WriteLog, vars
  <2>2. ASSUME NEW j \in Items PROVE TextAt(j)'
    <3>1. TextAt(j)
      BY DEF TextInv
    <3>2. pc'[j] = pc[j] \/ (pc[j] = "none" /\ pc'[j] \in {"acquire", "post"})
      <4>1. CASE StartSTT \/ StartTTS
        <5>1. next \in Items /\ \E l \in {"acquire", "post"} : Goto(next, l)
          BY <4>1 DEF StartSTT, StartTTS
        <5>2. next <= next
          BY <5>1, ItemsFinite
        <5>3. pc[next] = "none"
          BY <5>1, <5>2 DEF WgInv
        <5> QED BY <1>0, <5>1, <5>3 DEF Goto
      <4>2. CASE WriteLog \/ UNCHANGED vars
        BY <4>2 DEF WriteLog, vars
      <4> QED BY <1>2, <4>1, <4>2
    <3> QED BY <2>1, <3>1, <3>2 DEF TextAt, Attempting
  <2>3. TextInv'
    BY <2>2 DEF TextInv
  <2>4. OkHasOutput'
    BY <2>1 DEF OkHasOutput, OutPath, SameOut
  <2> QED BY <1>0, <2>1, <2>3, <2>4
<1> QED BY <1>1, <1>2 DEF Next

-----------------------------------------------------------------------------
(* The theorems *)

(* The invariant holds in the beginning. *)
LEMMA InitBatch ==
    ASSUME Init
    PROVE  BatchInv
<1>0. /\ NumItems \in Nat /\ NumItems >= 1 /\ Items = 1 .. NumItems
      /\ MaxRetries \in Nat /\ MaxRetries >= 1 /\ Flags \subseteq Int
  BY ItemsFinite, BatchAssumption
<1>1. slots \in Nat \ {0}
  <2>1. PICK flag \in Flags : slots = Capacity(flag)
    BY DEF Init
  <2> QED BY <1>0, <2>1 DEF Capacity
<1>2. TypeOK
  <2>1. kind \in {"stt", "tts"} /\ next \in 1 .. NumItems + 1 /\ sem \in 0 .. slots /\ wg \in 0 .. NumItems
    BY <1>0, <1>1 DEF Init
  <2>2. pc \in [Items -> Labels] /\ entry \in [Items -> {"none", "ok", "fail"}]
    BY DEF Init, Labels
  <2>3. attempt \in [Items -> 1 .. MaxRetries] /\ text \in [Items -> SUBSET (1 .. MaxRetries)]
    BY <1>0 DEF Init
  <2>4. /\ counted \in [ok : 0 .. NumItems, fail : 0 .. NumItems]
        /\ logged \in [ok : 0 .. NumItems, fail : 0 .. NumItems]
        /\ file \in [Items -> 0 .. NumItems]
    BY <1>0 DEF Init, NotLogged
  <2> QED BY <1>1, <2>1, <2>2, <2>3, <2>4 DEF TypeOK, Labels
<1>3. /\ \A i \in Items : pc[i] = "none" /\ entry[i] = "none" /\ text[i] = {}
      /\ next = 1 /\ sem = 0 /\ wg = 0 /\ logged = NotLogged /\ counted = NotLogged
  BY DEF Init
<1>4. At(InFlight) = {} /\ At(Begun) = {}
  BY <1>3 DEF At, Begun, InFlight, Attempting
<1>5. SemInv /\ WgInv
  BY <1>0, <1>3, <1>4, FS_EmptySet DEF SemInv, WgInv
<1>6. EntryInv /\ TextInv /\ OkHasOutput
  BY <1>3 DEF EntryInv, Leaving, TextInv, TextAt, OkHasOutput
<1>7. Entries("ok") = 0 /\ Entries("fail") = 0
  <2>1. {i \in Items : entry[i] = "ok"} = {} /\ {i \in Items : entry[i] = "fail"} = {}
    BY <1>3
  <2> QED BY <2>1, FS_EmptySet DEF Entries
<1>8. CountInv /\ LogInv
  BY <1>3, <1>7 DEF CountInv, NotLogged, LogInv, LogComplete
<1> QED BY <1>2, <1>5, <1>6, <1>8 DEF BatchInv

(* Every step keeps the invariant. *)
LEMMA NextBatch ==
    ASSUME BatchInv, [Next]_vars
    PROVE  BatchInv'
<1> USE DEF BatchInv
<1>1. /\ SemInv' /\ WgInv' /\ pc' \in [Items -> Labels] /\ sem' \in 0 .. slots
      /\ wg' \in 0 .. NumItems /\ next' \in 1 .. NumItems + 1
  BY CountStep
<1>2. /\ EntryInv' /\ CountInv' /\ entry' \in [Items -> {"none", "ok", "fail"}]
      /\ counted' \in [ok : 0 .. NumItems, fail : 0 .. NumItems]
  BY EntryStep
<1>3. LogInv' /\ logged' \in [ok : 0 .. NumItems, fail : 0 .. NumItems]
  BY LogStep
<1>4. /\ TextInv' /\ OkHasOutput' /\ file' \in [Items -> 0 .. NumItems]
      /\ kind' = kind /\ slots' = slots
      /\ text' \in [Items -> SUBSET (1 .. MaxRetries)] /\ attempt' \in [Items -> 1 .. MaxRetries]
  BY TextStep
<1>5. TypeOK'
  BY <1>1, <1>2, <1>3, <1>4 DEF TypeOK, Labels
<1> QED BY <1>1, <1>2, <1>3, <1>4, <1>5

(* The invariant is one of the batch: of stt-batch and tts-batch, with any *)
(* flag, any number of items and any answers of the gateway.               *)
THEOREM BatchInvariant == Spec => []BatchInv
<1>1. Init => BatchInv
  BY InitBatch
<1>2. BatchInv /\ [Next]_vars => BatchInv'
  BY NextBatch
<1> QED BY <1>1, <1>2, PTL DEF Spec

(* The semaphore bounds the items at the gateway by the -workers flag, on  *)
(* every way through errors, retries and early returns.                    *)
THEOREM LoadIsBounded == Spec => []SlotsRespected
<1>1. BatchInv => SlotsRespected
  BY DEF BatchInv, TypeOK, SemInv, SlotsRespected, At
<1> QED BY <1>1, BatchInvariant, PTL

(* wg.Wait returns only when every goroutine has set its entry, so the log *)
(* and the counters printed tell the same.                                 *)
THEOREM LogIsComplete == Spec => []LogComplete
<1>1. BatchInv => LogComplete
  BY DEF BatchInv, LogInv
<1> QED BY <1>1, BatchInvariant, PTL

(* An item reported as ok has its file, from its last attempt alone. *)
THEOREM OkItemsHaveOutput == Spec => []OkHasOutput
<1>1. BatchInv => OkHasOutput
  BY DEF BatchInv
<1> QED BY <1>1, BatchInvariant, PTL
=============================================================================
