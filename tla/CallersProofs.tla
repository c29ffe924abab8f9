--------------------------- MODULE CallersProofs ---------------------------
(***************************************************************************)
(* Theorems about the host's callers of one run of a room (Callers.tla),   *)
(* for every number of calls and waiters and whatever the storage fails.   *)
(***************************************************************************)
EXTENDS Callers, FiniteSetTheorems, TLAPS

-----------------------------------------------------------------------------
(* What the state is made of *)

Kinds == {"arrived", "left", "cancel", "close", "revoke", "read"}

Answer == {"none", "entry", "nothing", "error"}

Askers == {<<"cancel">>, <<"stop">>, <<"room">>, <<"journal">>}
            \cup {<<"call", v>> : v \in Call} \cup {<<"handle", r>> : r \in Nat}

Asked == [kind : Kinds, key : Nat, by : Askers]

EntryOf == [kind : Kinds, key : Nat]

HandleOf == [gone : BOOLEAN, keyed : BOOLEAN,
             flight : {"none", "settles", "settled", "asked", "done"},
             answer : Answer, base : Nat, replaced : {"no", "yes", "left"}]

CallPc == {"idle", "joins", "settles", "settled", "asked", "behind", "done", "refused"}

CallOf == [pc : CallPc, answer : Answer, behind : Nat, caught : BOOLEAN]

CancelOf == [pc : {"none", "asked"}, key : Nat, answer : Answer, made : Nat, confirmed : Nat]

StopOf == [pc : {"none", "revokes", "settles", "settled", "leaves", "done"},
           answer : Answer, holds : Nat]

CallerTypes ==
    /\ phase \in {"running", "stopped", "evicted"}
    /\ stored \in Seq(EntryOf) /\ heard \in 0..Len(stored)
    /\ queue \in Seq(Asked)
    /\ handle \in Seq(HandleOf) /\ visits \in 0..Len(handle)
    /\ call \in [Call -> CallOf] /\ cancel \in CancelOf /\ stop \in StopOf

\* The entries of one kind are finitely many, and those of a longer record are more by
\* at most the new one.
LEMMA OfFinite ==
    ASSUME NEW es \in Seq(EntryOf), NEW kind
    PROVE  IsFiniteSet(Of(es, kind)) /\ Cardinality(Of(es, kind)) \in Nat
<1>1. IsFiniteSet(1..Len(es)) /\ Of(es, kind) \subseteq 1..Len(es)
  BY FS_Interval DEF Of
<1>2. IsFiniteSet(Of(es, kind))
  BY <1>1, FS_Subset
<1>. QED BY <1>2, FS_CardinalityType

\* What an appended entry adds to the entries of a kind, and to their number.
LEMMA OfAppend ==
    ASSUME NEW es \in Seq(EntryOf), NEW e \in EntryOf, NEW kind
    PROVE  /\ Of(Append(es, e), kind) =
                 IF e.kind = kind THEN Of(es, kind) \cup {Len(es) + 1} ELSE Of(es, kind)
           /\ Cardinality(Of(Append(es, e), kind)) =
                 Cardinality(Of(es, kind)) + IF e.kind = kind THEN 1 ELSE 0
<1>1. Of(Append(es, e), kind) =
         IF e.kind = kind THEN Of(es, kind) \cup {Len(es) + 1} ELSE Of(es, kind)
  BY DEF Of
<1>2. Len(es) + 1 \notin Of(es, kind)
  BY DEF Of
<1>3. IsFiniteSet(Of(es, kind)) /\ Cardinality(Of(es, kind)) \in Nat
  BY OfFinite
<1>4. CASE e.kind = kind
  BY <1>1, <1>2, <1>3, <1>4, FS_AddElement
<1>5. CASE e.kind # kind
  BY <1>1, <1>3, <1>5
<1>. QED BY <1>4, <1>5

\* What the head of the queue q leaves: an entry is written at most once under its key.
Outcome(q, answer) ==
    /\ q \in Asked /\ answer \in {"entry", "nothing", "error"} /\ Answered(q, answer)
    /\ queue' \in {Tail(queue), Append(Tail(queue), Doubt)}
    /\ \/ stored' = stored /\ (answer = "entry" => q.key # 0)
       \/ /\ stored' = Append(stored, [kind |-> q.kind, key |-> q.key])
          /\ Proposes(q) /\ answer # "nothing" /\ heard' \in {Len(stored), Len(stored')}
          /\ q.key # 0 => \A i \in DOMAIN stored : stored[i].kind = q.kind => stored[i].key # q.key
    /\ answer = "entry" => /\ heard' = Len(stored')
                           /\ \E i \in DOMAIN stored' :
                                 stored'[i].kind = q.kind /\ stored'[i].key = q.key
    /\ answer = "nothing" => ~Proposes(q) /\ stored' = stored /\ heard' = Len(stored)
    /\ heard' \in {heard, Len(stored), Len(stored')} /\ heard <= heard'
    /\ UNCHANGED <<phase, arriving, visits, waiter>>

\* A request that lands is the first of the queue, and has some answer.
LEMMA LandsOutcome ==
    ASSUME CallerTypes, Lands
    PROVE  queue # <<>> /\ AllTold /\ \E answer : Outcome(Head(queue), answer)
<1>. DEFINE q == Head(queue)
            keyed == q.key # 0 /\ \E i \in DOMAIN stored :
                                     stored[i].kind = q.kind /\ stored[i].key = q.key
            entry == [kind |-> q.kind, key |-> q.key]
<1>1. q \in Asked /\ queue # <<>> /\ AllTold /\ stored \in Seq(EntryOf) /\ heard \in 0..Len(stored)
  BY DEF Lands, CallerTypes
<1>2. UNCHANGED <<phase, arriving, visits, waiter>>
  BY DEF Lands
<1>3. /\ Append(stored, entry)[Len(stored) + 1] = entry
      /\ Len(Append(stored, entry)) = Len(stored) + 1
      /\ Len(stored) + 1 \in DOMAIN Append(stored, entry)
  BY <1>1
<1>4. CASE queue' = Tail(queue) /\ Answered(q, "error") /\ UNCHANGED <<stored, heard>>
  BY <1>1, <1>2, <1>4 DEF Outcome
<1>5. CASE /\ queue' = Tail(queue) /\ (keyed \/ ~Proposes(q))
           /\ stored' = stored /\ heard' = Len(stored)
           /\ Answered(q, IF keyed THEN "entry" ELSE "nothing")
  <2>1. CASE keyed
    <3>1. Outcome(q, "entry")
      BY <1>1, <1>2, <1>5, <2>1 DEF Outcome
    <3>. QED BY <1>1, <3>1
  <2>2. CASE ~keyed
    <3>1. Outcome(q, "nothing")
      BY <1>1, <1>2, <1>5, <2>2 DEF Outcome
    <3>. QED BY <1>1, <3>1
  <2>. QED BY <2>1, <2>2
<1>6. CASE /\ queue' = Tail(queue) /\ ~keyed /\ Proposes(q)
           /\ stored' = Append(stored, entry) /\ heard' = Len(stored) + 1
           /\ Answered(q, "entry")
  <2>1. \E i \in DOMAIN stored' : stored'[i].kind = q.kind /\ stored'[i].key = q.key
    BY <1>3, <1>6
  <2>2. q.key # 0 => \A i \in DOMAIN stored : stored[i].kind = q.kind => stored[i].key # q.key
    BY <1>6
  <2>3. heard' = Len(stored') /\ heard <= heard'
    BY <1>1, <1>3, <1>6
  <2>. HIDE DEF keyed
  <2>4. Outcome(q, "entry")
    BY <1>1, <1>2, <1>6, <2>1, <2>2, <2>3 DEF Outcome
  <2>. QED BY <1>1, <2>4
<1>7. CASE /\ queue' = Append(Tail(queue), Doubt) /\ ~keyed /\ Proposes(q)
           /\ stored' \in {stored, Append(stored, entry)} /\ heard' = Len(stored)
           /\ Answered(q, "error")
  BY <1>1, <1>2, <1>7 DEF Outcome
<1>8. \/ queue' = Tail(queue) /\ Answered(q, "error") /\ UNCHANGED <<stored, heard>>
      \/ /\ queue' = Tail(queue) /\ (keyed \/ ~Proposes(q))
         /\ stored' = stored /\ heard' = Len(stored)
         /\ Answered(q, IF keyed THEN "entry" ELSE "nothing")
      \/ /\ queue' = Tail(queue) /\ ~keyed /\ Proposes(q)
         /\ stored' = Append(stored, entry) /\ heard' = Len(stored) + 1
         /\ Answered(q, "entry")
      \/ /\ queue' = Append(Tail(queue), Doubt) /\ ~keyed /\ Proposes(q)
         /\ stored' \in {stored, Append(stored, entry)} /\ heard' = Len(stored)
         /\ Answered(q, "error")
  BY DEF Lands, Hears
<1>. QED BY <1>1, <1>4, <1>5, <1>6, <1>7, <1>8

\* The handle an arrival makes is a handle.
LEMMA MadeTyped ==
    ASSUME CallerTypes PROVE Known \in Seq(EntryOf) /\ Visit(Known) \in Nat /\ Made \in HandleOf
<1>1. Known \in Seq(EntryOf)
  BY DEF CallerTypes, Known
<1>2. Visit(Known) \in Nat
  BY <1>1, OfFinite DEF Visit
<1>. QED BY <1>1, <1>2 DEF Made, NoHandle, HandleOf, Answer

\* What is appended to the queue, and what becomes of one handle or one call.
LEMMA AsksTyped ==
    ASSUME CallerTypes, NEW kind \in Kinds, NEW key \in Nat, NEW by \in Askers, Asks(kind, key, by)
    PROVE  queue' \in Seq(Asked)
<1>1. Request(kind, key, by) \in Asked
  BY DEF Request, Asked
<1>. QED BY <1>1 DEF Asks, CallerTypes

\* Replacing one handle by another keeps the sequence of handles.
LEMMA HandleTyped ==
    ASSUME CallerTypes, NEW r \in DOMAIN handle, NEW h \in HandleOf, handle' = [handle EXCEPT ![r] = h]
    PROVE  handle' \in Seq(HandleOf) /\ Len(handle') = Len(handle)
  BY DEF CallerTypes

\* A function on the places of a sequence is one of the same length.
LEMMA StaysSequence ==
    ASSUME NEW S, NEW s \in Seq(S), NEW f \in [DOMAIN s -> S]
    PROVE  f \in Seq(S) /\ Len(f) = Len(s)
<1>1. DOMAIN s = 1..Len(s) /\ Len(s) \in Nat
  OBVIOUS
<1>2. f \in [1..Len(s) -> S]
  BY <1>1
<1>. QED BY <1>1, <1>2

\* The changes a departure makes to a handle leave it a handle.
LEMMA HandleFields ==
    ASSUME NEW h \in HandleOf
    PROVE  /\ Departing(h) \in HandleOf
           /\ \A flight \in {"none", "settles", "settled", "asked", "done"} :
                 [h EXCEPT !.flight = flight] \in HandleOf
           /\ \A answer \in Answer : [h EXCEPT !.answer = answer] \in HandleOf
           /\ \A gone \in BOOLEAN : [h EXCEPT !.gone = gone] \in HandleOf
           /\ Replaced(h) \in HandleOf /\ Asking(h) \in HandleOf
  BY DEF HandleOf, Departing, Replaced, Asking

\* Marking the handles of a visit gone leaves them handles.
LEMMA HandlesTyped ==
    ASSUME CallerTypes, NEW s,
           handle' = [r \in DOMAIN handle |-> [handle[r] EXCEPT !.gone = @ \/ r = s]]
    PROVE  handle' \in Seq(HandleOf) /\ Len(handle') = Len(handle)
<1>0. \A r \in DOMAIN handle : handle[r] \in HandleOf
  BY DEF CallerTypes
<1>1. \A r \in DOMAIN handle : handle[r].gone \in BOOLEAN
  BY <1>0 DEF HandleOf
<1>2. \A r \in DOMAIN handle : [handle[r] EXCEPT !.gone = @ \/ r = s] \in HandleOf
  BY <1>0, <1>1, HandleFields
<1>3. handle \in Seq(HandleOf)
  BY DEF CallerTypes
<1>4. handle' \in [DOMAIN handle -> HandleOf]
  BY <1>2
<1>. QED BY <1>3, <1>4, StaysSequence

\* The changes a step makes to a call leave it a call.
LEMMA CallFields ==
    ASSUME NEW c \in CallOf
    PROVE  /\ \A answer \in Answer : [c EXCEPT !.answer = answer] \in CallOf
           /\ \A pc \in CallPc : [c EXCEPT !.pc = pc] \in CallOf
           /\ \A pc \in CallPc, answer \in Answer :
                 [c EXCEPT !.pc = pc, !.answer = answer] \in CallOf
           /\ \A pc \in CallPc, answer \in Answer, behind \in Nat, caught \in BOOLEAN :
                 [c EXCEPT !.pc = pc, !.answer = answer, !.behind = behind, !.caught = caught]
                    \in CallOf
  BY DEF CallOf, CallPc

\* A call that moves on stays a call.
LEMMA StepTyped ==
    ASSUME CallerTypes, NEW v \in Call, NEW pc \in CallPc, Step(v, pc)
    PROVE  call' \in [Call -> CallOf]
<1>1. [call[v] EXCEPT !.pc = pc, !.answer = "none"] \in CallOf
  BY CallFields DEF CallerTypes, Answer
<1>2. call' = [call EXCEPT ![v] = [call[v] EXCEPT !.pc = pc, !.answer = "none"]]
  BY DEF Step
<1>. QED BY <1>1, <1>2 DEF CallerTypes

\* An arrival that ends leaves the calls typed.
LEMMA ArrivalEndsTyped ==
    ASSUME CallerTypes, NEW v \in Call, NEW outcome \in CallPc, ArrivalEnds(v, outcome)
    PROVE  call' \in [Call -> CallOf]
<1>1. \A w \in Call : [call[w] EXCEPT !.pc = IF Gone THEN "refused" ELSE outcome, !.answer = "none"]
                         \in CallOf
  BY CallFields DEF CallerTypes, Answer, CallPc
<1>. QED BY <1>1 DEF ArrivalEnds, CallerTypes

\* The retry of calls that wait on a handle known gone leaves calls and handles typed.
LEMMA RetryTyped ==
    ASSUME CallerTypes, NEW v \in Call, KnownGone, RetryKnown(v)
    PROVE  /\ call' \in [Call -> CallOf]
           /\ handle' \in Seq(HandleOf) /\ Len(handle') = Len(handle)
<1>0. visits \in DOMAIN handle /\ handle[visits] \in HandleOf
  BY DEF KnownGone, CallerTypes
<1>1. [call[v] EXCEPT !.pc = "behind", !.answer = "none", !.behind = visits,
                      !.caught = handle[visits].flight # "none"] \in CallOf
  <2>1. call[v] \in CallOf /\ visits \in Nat /\ (handle[visits].flight # "none") \in BOOLEAN
    BY DEF CallerTypes
  <2>2. "behind" \in CallPc /\ "none" \in Answer
    BY DEF CallPc, Answer
  <2>. QED BY <2>1, <2>2, CallFields
<1>2. call' = [call EXCEPT ![v] = [call[v] EXCEPT !.pc = "behind", !.answer = "none",
                      !.behind = visits, !.caught = handle[visits].flight # "none"]]
  BY DEF RetryKnown
<1>3. handle' = handle \/ handle' = [handle EXCEPT ![visits] = Departing(handle[visits])]
  BY DEF RetryKnown
<1>4. handle' \in Seq(HandleOf) /\ Len(handle') = Len(handle)
  BY <1>0, <1>3, HandleFields, HandleTyped DEF CallerTypes
<1>. QED BY <1>1, <1>2, <1>4 DEF CallerTypes

\* A departure that ends leaves handles and calls typed.
LEMMA EndsTyped ==
    ASSUME CallerTypes, NEW r \in DOMAIN handle, NEW flight \in {"none", "done"}, DepartureEnds(r, flight)
    PROVE  /\ handle' \in Seq(HandleOf) /\ Len(handle') = Len(handle)
           /\ call' \in [Call -> CallOf]
<1>0. handle[r] \in HandleOf
  BY DEF CallerTypes
<1>1. [[handle[r] EXCEPT !.flight = flight] EXCEPT !.answer = "none"] \in HandleOf
  <2>1. [handle[r] EXCEPT !.flight = flight] \in HandleOf
    BY <1>0, HandleFields
  <2>. QED BY <2>1, HandleFields DEF Answer
<1>2. handle' = [handle EXCEPT ![r] = [[handle[r] EXCEPT !.flight = flight] EXCEPT !.answer = "none"]]
  BY DEF DepartureEnds, CallerTypes
<1>3. handle' \in Seq(HandleOf) /\ Len(handle') = Len(handle)
  BY <1>1, <1>2, HandleTyped
<1>4. CASE \E v \in Call : ArrivalEnds(v, "refused")
  BY <1>3, <1>4, ArrivalEndsTyped DEF CallPc
<1>5. CASE \E behind : call' = [v \in Call |-> IF v \in behind
                                          THEN [call[v] EXCEPT !.pc = "settles"] ELSE call[v]]
  <2>1. \A v \in Call : call[v] \in CallOf /\ [call[v] EXCEPT !.pc = "settles"] \in CallOf
    BY CallFields DEF CallerTypes, CallPc
  <2>. QED BY <1>3, <1>5, <2>1
<1>. QED BY <1>4, <1>5 DEF DepartureEnds

\* Every step keeps the types of the callers' state.
LEMMA TypesKept ==
    ASSUME CallerTypes, Next
    PROVE  CallerTypes'
<1>1. CASE Lands
  <2>1. PICK answer : Outcome(Head(queue), answer)
    BY <1>1, LandsOutcome
  <2>2. queue # <<>> /\ Head(queue) \in Asked
    BY <1>1, LandsOutcome DEF CallerTypes
  <2>3. queue' \in Seq(Asked)
    <3>1. Doubt \in Asked
      BY DEF Doubt, Request, Asked, Kinds, Askers
    <3>2. queue' \in {Tail(queue), Append(Tail(queue), Doubt)}
      BY <2>1 DEF Outcome
    <3>3. Tail(queue) \in Seq(Asked)
      BY <2>2 DEF CallerTypes
    <3>. QED BY <3>1, <3>2, <3>3
  <2>4. stored' \in Seq(EntryOf)
    <3>1. [kind |-> Head(queue).kind, key |-> Head(queue).key] \in EntryOf
      BY <2>2 DEF Asked, EntryOf
    <3>2. \/ stored' = stored
          \/ stored' = Append(stored, [kind |-> Head(queue).kind, key |-> Head(queue).key])
      BY <2>1 DEF Outcome
    <3>3. stored \in Seq(EntryOf)
      BY DEF CallerTypes
    <3>. HIDE DEF EntryOf
    <3>. QED BY <3>1, <3>2, <3>3
  <2>5. heard' \in 0..Len(stored')
    BY <2>1, <2>4 DEF Outcome, CallerTypes
  <2>6. answer \in Answer
    BY <2>1 DEF Outcome, Answer
  <2>7. call' \in [Call -> CallOf]
    <3>1. \A v \in Call : [call[v] EXCEPT !.answer = answer] \in CallOf
      BY <2>6, CallFields DEF CallerTypes
    <3>. QED BY <2>1, <3>1 DEF Outcome, Answered, CallerTypes
  <2>8. cancel' \in CancelOf
    BY <2>1, <2>6 DEF Outcome, Answered, CallerTypes, CancelOf
  <2>9. stop' \in StopOf
    BY <2>1, <2>6 DEF Outcome, Answered, CallerTypes, StopOf
  <2>10. handle' \in Seq(HandleOf) /\ Len(handle') = Len(handle)
    <3>1. \A r \in DOMAIN handle : handle[r] \in HandleOf
      BY DEF CallerTypes
    <3>2. \A r \in DOMAIN handle : [handle[r] EXCEPT !.answer = answer] \in HandleOf
      BY <2>6, <3>1, HandleFields
    <3>3. handle' = handle \/ \E n : handle' = [handle EXCEPT ![n] = [handle[n] EXCEPT !.answer = answer]]
      BY <2>1 DEF Outcome, Answered
    <3>4. handle \in Seq(HandleOf) /\ DOMAIN handle' = DOMAIN handle
      BY <3>3 DEF CallerTypes
    <3>5. \A r \in DOMAIN handle : handle'[r] \in HandleOf
      BY <3>1, <3>2, <3>3
    <3>6. handle' \in [DOMAIN handle -> HandleOf]
      BY <3>3, <3>4, <3>5
    <3>. QED BY <3>4, <3>6, StaysSequence
  <2>. QED BY <2>1, <2>3, <2>4, <2>5, <2>7, <2>8, <2>9, <2>10 DEF Outcome, CallerTypes
<1>2. ASSUME NEW v \in Call, VisitStarts(v) \/ VisitSettles(v) PROVE CallerTypes'
  <2>1. call' \in [Call -> CallOf]
    BY <1>2, StepTyped DEF VisitStarts, VisitSettles, CallPc
  <2>. QED BY <1>2, <2>1 DEF VisitStarts, VisitSettles, CallerTypes, Journal
<1>3. ASSUME NEW v \in Call, Arrives(v) PROVE CallerTypes'
  <2>0. UNCHANGED <<phase, stored, heard, cancel, stop, visits>>
    BY <1>3 DEF Arrives, RetryKnown, Journal
  <2>1. CASE ArrivalEnds(v, "refused") /\ UNCHANGED <<queue, handle>>
    BY <2>0, <2>1, ArrivalEndsTyped DEF CallerTypes, CallPc
  <2>2. CASE KnownGone /\ RetryKnown(v)
    BY <2>0, <2>2, RetryTyped DEF CallerTypes, RetryKnown
  <2>3. CASE Asks("arrived", 0, <<"call", v>>) /\ Step(v, "asked") /\ UNCHANGED handle
    BY <2>0, <2>3, AsksTyped, StepTyped DEF CallerTypes, CallPc, Kinds, Askers
  <2>. QED BY <1>3, <2>1, <2>2, <2>3 DEF Arrives
<1>4. ASSUME NEW v \in Call, Arrived(v) PROVE CallerTypes'
  <2>0. UNCHANGED <<phase, stored, heard, cancel, stop, queue>>
    BY <1>4 DEF Arrived, RetryKnown, Journal
  <2>1. CASE KnownGone /\ RetryKnown(v)
    BY <2>0, <2>1, RetryTyped DEF CallerTypes, RetryKnown
  <2>2. CASE (ArrivalEnds(v, "refused") \/ ArrivalEnds(v, "done")) /\ UNCHANGED <<visits, handle>>
    BY <2>0, <2>2, ArrivalEndsTyped DEF CallerTypes, CallPc
  <2>3. CASE /\ visits' = Len(handle) + 1
             /\ handle' = Append([r \in DOMAIN handle |->
                                     IF r = visits THEN Replaced(handle[r]) ELSE handle[r]], Made)
             /\ ArrivalEnds(v, "done")
    <3>1. [r \in DOMAIN handle |-> IF r = visits THEN Replaced(handle[r]) ELSE handle[r]] \in Seq(HandleOf)
      <4>1. \A r \in DOMAIN handle : handle[r] \in HandleOf /\ Replaced(handle[r]) \in HandleOf
        <5>1. \A r \in DOMAIN handle : handle[r] \in HandleOf
          BY DEF CallerTypes
        <5>. QED BY <5>1, HandleFields
      <4>2. [r \in DOMAIN handle |-> IF r = visits THEN Replaced(handle[r]) ELSE handle[r]]
               \in [DOMAIN handle -> HandleOf]
        BY <4>1
      <4>. QED BY <4>2, StaysSequence DEF CallerTypes
    <3>2. handle' \in Seq(HandleOf) /\ Len(handle') = Len(handle) + 1
      BY <2>3, <3>1, MadeTyped DEF CallerTypes
    <3>3. call' \in [Call -> CallOf]
      BY <2>3, ArrivalEndsTyped DEF CallPc
    <3>4. visits' \in 0..Len(handle')
      BY <2>3, <3>2 DEF CallerTypes
    <3>. QED BY <2>0, <3>2, <3>3, <3>4 DEF CallerTypes
  <2>. QED BY <1>4, <2>1, <2>2, <2>3 DEF Arrived
<1>5. CASE PresentVisit
  <2>1. handle' \in Seq(HandleOf) /\ visits' \in 0..Len(handle')
    BY <1>5, MadeTyped DEF PresentVisit, CallerTypes
  <2>. QED BY <1>5, <2>1 DEF PresentVisit, CallerTypes, Journal
<1>6. ASSUME NEW r \in DOMAIN handle, EndVisit(r) \/ LeaveSettles(r) PROVE CallerTypes'
  <2>1. \E h \in HandleOf : handle' = [handle EXCEPT ![r] = h]
    <3>1. handle[r] \in HandleOf
      BY DEF CallerTypes
    <3>2. Departing(handle[r]) \in HandleOf /\ [handle[r] EXCEPT !.flight = "settled"] \in HandleOf
      BY <3>1, HandleFields
    <3>. QED BY <1>6, <3>2 DEF EndVisit, LeaveSettles
  <2>2. handle' \in Seq(HandleOf) /\ Len(handle') = Len(handle)
    BY <2>1, HandleTyped
  <2>. QED BY <1>6, <2>2 DEF EndVisit, LeaveSettles, CallerTypes, Journal
<1>7. ASSUME NEW r \in DOMAIN handle, Leaves(r) PROVE CallerTypes'
  <2>0. UNCHANGED <<phase, stored, heard, cancel, stop>>
    BY <1>7 DEF Leaves, Journal
  <2>1. CASE Asks("left", r, <<"handle", r>>) /\ handle' = [handle EXCEPT ![r] = Asking(@)]
             /\ UNCHANGED <<call, arriving, visits>>
    <3>1. handle[r] \in HandleOf /\ r \in Nat
      BY DEF CallerTypes
    <3>2. Asking(handle[r]) \in HandleOf
      BY <3>1, HandleFields
    <3>3. handle' \in Seq(HandleOf) /\ Len(handle') = Len(handle)
      BY <2>1, <3>2, HandleTyped
    <3>4. queue' \in Seq(Asked)
      BY <2>1, <3>1, AsksTyped DEF Kinds, Askers
    <3>. QED BY <2>0, <2>1, <3>3, <3>4 DEF CallerTypes
  <2>2. CASE DepartureEnds(r, "done") /\ UNCHANGED queue /\ visits' \in {0, visits}
    <3>1. /\ handle' \in Seq(HandleOf) /\ Len(handle') = Len(handle)
          /\ call' \in [Call -> CallOf]
      BY <2>2, EndsTyped
    <3>. QED BY <2>0, <2>2, <3>1 DEF CallerTypes
  <2>. QED BY <1>7, <2>1, <2>2 DEF Leaves, LetGo
<1>8. ASSUME NEW r \in DOMAIN handle, Left(r) PROVE CallerTypes'
  <2>1. /\ handle' \in Seq(HandleOf) /\ Len(handle') = Len(handle)
        /\ call' \in [Call -> CallOf]
    BY <1>8, EndsTyped DEF Left, Failed
  <2>2. visits' \in {0, visits}
    BY <1>8 DEF Left, LetGo
  <2>. QED BY <1>8, <2>1, <2>2 DEF Left, CallerTypes, Journal
<1>9. CASE Cancels
  <2>1. KeyOf(cancel) \in Nat
    BY DEF KeyOf, CallerTypes, CancelOf
  <2>2. queue' \in Seq(Asked)
    BY <1>9, <2>1, AsksTyped DEF Cancels, Kinds, Askers
  <2>3. cancel' \in CancelOf
    BY <1>9, <2>1 DEF Cancels, CallerTypes, CancelOf, Answer
  <2>. QED BY <1>9, <2>2, <2>3 DEF Cancels, CallerTypes, Journal
<1>10. CASE Cancelled
  <2>1. cancel' \in CancelOf
    <3>1. cancel \in CancelOf
      BY DEF CallerTypes
    <3>2. /\ [cancel EXCEPT !.pc = "none", !.key = 0, !.confirmed = @ + 1] \in CancelOf
          /\ [cancel EXCEPT !.pc = "none"] \in CancelOf
      <4>1. cancel.confirmed + 1 \in Nat
        BY <3>1 DEF CancelOf
      <4>. QED BY <3>1, <4>1 DEF CancelOf
    <3>. QED BY <1>10, <3>2 DEF Cancelled
  <2>. QED BY <1>10, <2>1 DEF Cancelled, CallerTypes, Journal
<1>11. CASE Stops
  <2>1. queue' \in Seq(Asked)
    BY <1>11, AsksTyped DEF Stops, Kinds, Askers
  <2>2. stop' \in StopOf
    BY <1>11 DEF Stops, StopOf, Answer
  <2>. QED BY <1>11, <2>1, <2>2 DEF Stops, CallerTypes, Journal
<1>12. CASE Stopping
  <2>1. stop' \in StopOf
    <3>1. \A pc \in {"none", "settles", "settled", "leaves", "done"} :
             /\ [stop EXCEPT !.pc = pc, !.answer = "none"] \in StopOf
             /\ [stop EXCEPT !.pc = pc] \in StopOf
      BY DEF CallerTypes, StopOf, Answer
    <3>2. [stop EXCEPT !.pc = "leaves", !.holds = visits] \in StopOf
      <4>1. stop \in StopOf /\ visits \in Nat
        BY DEF CallerTypes
      <4>. QED BY <4>1 DEF StopOf
    <3>. QED BY <1>12, <3>1, <3>2 DEF Stopping, StopEnds
  <2>2. queue' \in Seq(Asked)
    <3>1. "left" \in Kinds /\ <<"stop">> \in Askers
      BY DEF Kinds, Askers
    <3>2. queue' = queue \/ Asks("left", 0, <<"stop">>)
      BY <1>12 DEF Stopping
    <3>. QED BY <3>1, <3>2, AsksTyped DEF CallerTypes
  <2>3. handle' \in Seq(HandleOf) /\ Len(handle') = Len(handle)
    <3>1. handle' = handle \/ handle' = [r \in DOMAIN handle |->
                                   [handle[r] EXCEPT !.gone = @ \/ r = stop.holds]]
      BY <1>12 DEF Stopping
    <3>2. CASE handle' = handle
      BY <3>2 DEF CallerTypes
    <3>3. CASE handle' # handle
      BY <3>1, <3>3, HandlesTyped
    <3>. QED BY <3>2, <3>3
  <2>4. visits' \in {0, visits}
    BY <1>12 DEF Stopping, LetGo
  <2>5. UNCHANGED <<phase, stored, heard, call, cancel>>
    BY <1>12 DEF Stopping, Journal
  <2>. QED BY <2>1, <2>2, <2>3, <2>4, <2>5 DEF CallerTypes
<1>13. CASE Evict
  <2>1. handle' \in Seq(HandleOf) /\ Len(handle') = Len(handle)
    BY <1>13, HandlesTyped DEF Evict
  <2>. QED BY <1>13, <2>1 DEF Evict, CallerTypes, Journal
<1>14. CASE CloseAsked
  <2>1. queue' \in Seq(Asked)
    BY <1>14, AsksTyped DEF CloseAsked, Kinds, Askers
  <2>. QED BY <1>14, <2>1 DEF CloseAsked, CallerTypes, Journal
<1>15. CASE Publishes \/ \E w \in Waiter : Looks(w) \/ WaitStarts(w)
  BY <1>15 DEF Publishes, Looks, WaitStarts, CallerTypes, Journal
<1>. QED BY <1>1, <1>2, <1>3, <1>4, <1>5, <1>6, <1>7, <1>8, <1>9, <1>10, <1>11, <1>12, <1>13,
            <1>14, <1>15 DEF Next, Resolves

-----------------------------------------------------------------------------
(* Cancelling *)

\* The marker of the cancellation in doubt is in the record.
Marked == \E i \in Of(stored, "cancel") : cancel.key # 0 /\ stored[i].key = cancel.key

\* At most one cancellation is in the queue, under the key that is in doubt; every marker
\* but that one's was confirmed.
OneInDoubt ==
    /\ \A i \in DOMAIN queue : queue[i].by[1] = "cancel" <=> queue[i].kind = "cancel"
    /\ \A i \in DOMAIN queue : queue[i].kind = "cancel" =>
          /\ queue[i].key = cancel.key /\ cancel.pc = "asked" /\ cancel.answer = "none"
          /\ \A j \in DOMAIN queue : queue[j].kind = "cancel" => j = i
    /\ cancel.pc = "asked" => cancel.key # 0
    /\ cancel.key \in {0, cancel.made}
    /\ \A i \in Of(stored, "cancel") : stored[i].key \in 1..cancel.made
    /\ Cardinality(Of(stored, "cancel")) = cancel.confirmed + IF Marked THEN 1 ELSE 0
    /\ cancel.pc = "asked" /\ cancel.answer = "entry" => Marked

\* What asks the journal for something else leaves the cancellation alone.
LEMMA OthersKeepDoubt ==
    ASSUME CallerTypes, OneInDoubt, UNCHANGED <<stored, cancel>>,
           \/ queue' = queue
           \/ \E kind, key, by : Asks(kind, key, by) /\ kind # "cancel" /\ by[1] # "cancel"
    PROVE  OneInDoubt'
<1>1. CASE queue' = queue
  BY <1>1 DEF OneInDoubt, Marked
<1>2. ASSUME NEW kind, NEW key, NEW by, Asks(kind, key, by), kind # "cancel", by[1] # "cancel"
      PROVE  OneInDoubt'
  <2>1. queue' = Append(queue, Request(kind, key, by)) /\ queue \in Seq(Asked)
    BY <1>2 DEF Asks, CallerTypes
  <2>2. /\ DOMAIN queue' = DOMAIN queue \cup {Len(queue) + 1}
        /\ \A i \in DOMAIN queue : queue'[i] = queue[i]
        /\ queue'[Len(queue) + 1] = Request(kind, key, by)
    BY <2>1
  <2>3. /\ queue'[Len(queue) + 1].kind # "cancel" /\ queue'[Len(queue) + 1].by[1] # "cancel"
    BY <1>2, <2>2 DEF Request
  <2>4. Marked' <=> Marked
    BY DEF Marked
  <2>. QED BY <2>2, <2>3, <2>4 DEF OneInDoubt
<1>. QED BY <1>1, <1>2

\* The head of the queue lands: only a cancellation writes a marker, and one under its key.
LEMMA LandsKeepsDoubt ==
    ASSUME CallerTypes, OneInDoubt, Lands
    PROVE  OneInDoubt'
<1>. DEFINE q == Head(queue)
            entry == [kind |-> q.kind, key |-> q.key]
<1>1. PICK answer : Outcome(q, answer)
  BY LandsOutcome
<1>2. queue # <<>> /\ queue \in Seq(Asked) /\ q = queue[1] /\ 1 \in DOMAIN queue /\ q \in Asked
      /\ stored \in Seq(EntryOf) /\ cancel \in CancelOf
  BY LandsOutcome DEF CallerTypes
<1>3. entry \in EntryOf
  BY <1>2 DEF Asked, EntryOf
<1>4. /\ q.by[1] = "cancel" <=> q.kind = "cancel"
      /\ q.kind = "cancel" => q.key = cancel.key /\ cancel.pc = "asked" /\ cancel.answer = "none"
                              /\ cancel.key # 0
  BY <1>2 DEF OneInDoubt
<1>5. /\ \A i \in DOMAIN queue' : \/ i + 1 \in DOMAIN queue /\ queue'[i] = queue[i + 1]
                                  \/ queue'[i] = Doubt
  <2>1. queue' \in {Tail(queue), Append(Tail(queue), Doubt)}
    BY <1>1 DEF Outcome
  <2>2. Tail(queue) \in Seq(Asked) /\ Len(Tail(queue)) = Len(queue) - 1
        /\ \A i \in 1..Len(queue) - 1 : Tail(queue)[i] = queue[i + 1]
    BY <1>2
  <2>3. CASE queue' = Tail(queue)
    BY <1>2, <2>2, <2>3
  <2>4. CASE queue' = Append(Tail(queue), Doubt)
    <3>. DEFINE rest == Tail(queue)
    <3>1. rest \in Seq(Asked) /\ Len(rest) \in Nat
      BY <2>2
    <3>. HIDE DEF rest
    <3>2. \A i \in 1..Len(rest) + 1 : Append(rest, Doubt)[i] = IF i = Len(rest) + 1 THEN Doubt
                                                              ELSE rest[i]
      BY <3>1
    <3>3. DOMAIN queue' = 1..Len(rest) + 1
      BY <2>4, <3>1 DEF rest
    <3>4. \A i \in 1..Len(rest) : i + 1 \in DOMAIN queue /\ rest[i] = queue[i + 1]
      BY <1>2, <2>2 DEF rest
    <3>. QED BY <2>4, <3>1, <3>2, <3>3, <3>4 DEF rest
  <2>. QED BY <2>1, <2>3, <2>4
<1>6. Doubt.kind # "cancel" /\ Doubt.by[1] # "cancel"
  BY DEF Doubt, Request
<1>7. DOMAIN queue \subseteq Nat /\ DOMAIN queue' \subseteq Nat \ {0}
  <2>1. queue' \in Seq(Asked)
    BY TypesKept DEF CallerTypes, Next, Resolves
  <2>. QED BY <1>2, <2>1
<1>8. CASE q.kind # "cancel"
  <2>1. cancel' = cancel
    BY <1>1, <1>4, <1>8 DEF Outcome, Answered
  <2>2. Of(stored', "cancel") = Of(stored, "cancel")
    <3>1. stored' = stored \/ stored' = Append(stored, entry)
      BY <1>1 DEF Outcome
    <3>2. entry.kind # "cancel"
      BY <1>8
    <3>3. Of(Append(stored, entry), "cancel") = Of(stored, "cancel")
      BY <1>2, <1>3, <3>2, OfAppend
    <3>. QED BY <3>1, <3>3
  <2>3. \A i \in Of(stored, "cancel") : stored'[i] = stored[i]
    <3>1. stored' = stored \/ stored' = Append(stored, entry)
      BY <1>1 DEF Outcome
    <3>2. \A i \in Of(stored, "cancel") : i \in 1..Len(stored)
      BY <1>2 DEF Of
    <3>3. \A i \in 1..Len(stored) : Append(stored, entry)[i] = stored[i]
      BY <1>2, <1>3
    <3>. QED BY <3>1, <3>2, <3>3
  <2>4. Marked' <=> Marked
    BY <2>1, <2>2, <2>3 DEF Marked
  <2>5. \A i \in DOMAIN queue' : queue'[i].by[1] = "cancel" <=> queue'[i].kind = "cancel"
    BY <1>5, <1>6 DEF OneInDoubt
  <2>6. \A i \in DOMAIN queue' : queue'[i].kind = "cancel" =>
          /\ queue'[i].key = cancel.key /\ cancel.pc = "asked" /\ cancel.answer = "none"
          /\ \A j \in DOMAIN queue' : queue'[j].kind = "cancel" => j = i
    <3>1. DOMAIN queue' \subseteq Nat
      BY <1>1, <1>2 DEF Outcome
    <3>. QED BY <1>5, <1>6, <3>1 DEF OneInDoubt
  <2>. QED BY <2>1, <2>2, <2>3, <2>4, <2>5, <2>6 DEF OneInDoubt
<1>9. CASE q.kind = "cancel"
  <2>1. cancel' = [cancel EXCEPT !.answer = answer]
    BY <1>1, <1>4, <1>9 DEF Outcome, Answered
  <2>2. /\ cancel'.key = cancel.key /\ cancel'.made = cancel.made /\ cancel'.pc = cancel.pc
        /\ cancel'.confirmed = cancel.confirmed /\ cancel'.answer = answer
    BY <1>2, <2>1 DEF CancelOf
  <2>3. \A i \in DOMAIN queue' : queue'[i].by[1] # "cancel" /\ queue'[i].kind # "cancel"
    <3>1. \A i \in DOMAIN queue : queue[i].kind = "cancel" => i = 1
      BY <1>2, <1>9 DEF OneInDoubt
    <3>2. \A i \in DOMAIN queue' : i + 1 # 1
      BY <1>7
    <3>. QED BY <1>5, <1>6, <3>1, <3>2 DEF OneInDoubt
  <2>4. CASE stored' = stored
    <3>1. answer = "entry" => Marked'
      BY <1>1, <1>4, <1>9, <2>2 DEF Outcome, Marked, Of
    <3>2. Marked' <=> Marked
      BY <2>2, <2>4 DEF Marked
    <3>. QED BY <2>2, <2>3, <2>4, <3>1, <3>2 DEF OneInDoubt
  <2>5. CASE stored' # stored
    <3>1. /\ stored' = Append(stored, entry)
          /\ \A i \in DOMAIN stored : stored[i].kind = "cancel" => stored[i].key # cancel.key
      BY <1>1, <1>4, <1>9, <2>5 DEF Outcome
    <3>2. ~Marked
      BY <3>1 DEF Marked, Of
    <3>3. /\ Of(stored', "cancel") = Of(stored, "cancel") \cup {Len(stored) + 1}
          /\ Cardinality(Of(stored', "cancel")) = Cardinality(Of(stored, "cancel")) + 1
      BY <1>2, <1>3, <1>9, <3>1, OfAppend
    <3>4. /\ stored'[Len(stored) + 1].key = cancel.key
          /\ \A i \in Of(stored, "cancel") : stored'[i] = stored[i]
      BY <1>2, <1>4, <1>9, <3>1 DEF Of
    <3>5. Marked'
      BY <1>4, <1>9, <2>2, <3>3, <3>4 DEF Marked
    <3>6. Cardinality(Of(stored', "cancel")) = cancel'.confirmed + 1
      <4>1. Cardinality(Of(stored, "cancel")) = cancel.confirmed /\ cancel.confirmed \in Nat
        BY <1>2, <3>2 DEF OneInDoubt, CancelOf
      <4>. QED BY <2>2, <3>3, <4>1
    <3>7. \A i \in Of(stored', "cancel") : stored'[i].key \in 1..cancel'.made
      <4>1. cancel.key \in 1..cancel.made
        BY <1>2, <1>4, <1>9 DEF OneInDoubt, CancelOf
      <4>. QED BY <2>2, <3>3, <3>4, <4>1 DEF OneInDoubt
    <3>. QED BY <2>2, <2>3, <3>5, <3>6, <3>7 DEF OneInDoubt
  <2>. QED BY <2>4, <2>5
<1>. QED BY <1>8, <1>9

\* A cancellation takes the key in doubt, or a new one that no marker has.
LEMMA CancelsKeepsDoubt ==
    ASSUME CallerTypes, OneInDoubt, Cancels
    PROVE  OneInDoubt'
<1>. DEFINE key == KeyOf(cancel)
<1>1. /\ cancel \in CancelOf /\ queue \in Seq(Asked) /\ cancel.pc = "none"
      /\ queue' = Append(queue, Request("cancel", key, <<"cancel">>)) /\ stored' = stored
      /\ cancel' = [cancel EXCEPT !.pc = "asked", !.key = key, !.answer = "none",
                                  !.made = IF key > @ THEN key ELSE @]
  BY DEF Cancels, Asks, CallerTypes, Journal
<1>2. key \in Nat /\ key # 0 /\ key = IF cancel.key # 0 THEN cancel.key ELSE cancel.made + 1
  BY <1>1 DEF KeyOf, CancelOf
<1>3. /\ cancel'.pc = "asked" /\ cancel'.key = key /\ cancel'.answer = "none"
      /\ cancel'.made = (IF key > cancel.made THEN key ELSE cancel.made)
      /\ cancel'.confirmed = cancel.confirmed /\ cancel.made \in Nat
  <2>. HIDE DEF key
  <2>. QED BY <1>1 DEF CancelOf
<1>4. cancel'.made = key /\ cancel.made <= key
  BY <1>2, <1>3 DEF OneInDoubt
<1>5. Marked' <=> Marked
  BY <1>1, <1>2, <1>3 DEF Marked, OneInDoubt
<1>6. \A i \in DOMAIN queue : queue[i].kind # "cancel" /\ queue[i].by[1] # "cancel"
  BY <1>1 DEF OneInDoubt
<1>7. /\ DOMAIN queue' = DOMAIN queue \cup {Len(queue) + 1}
      /\ \A i \in DOMAIN queue : queue'[i] = queue[i]
      /\ queue'[Len(queue) + 1] = Request("cancel", key, <<"cancel">>)
  BY <1>1
<1>8. /\ queue'[Len(queue) + 1].kind = "cancel" /\ queue'[Len(queue) + 1].key = key
      /\ queue'[Len(queue) + 1].by[1] = "cancel"
  BY <1>7 DEF Request
<1>9. \A i \in Of(stored', "cancel") : stored'[i].key \in 1..cancel'.made
  BY <1>1, <1>2, <1>3, <1>4 DEF OneInDoubt
<1>10. Cardinality(Of(stored', "cancel")) = cancel'.confirmed + IF Marked' THEN 1 ELSE 0
  BY <1>1, <1>3, <1>5 DEF OneInDoubt
<1>. HIDE DEF key
<1>. QED BY <1>2, <1>3, <1>4, <1>6, <1>7, <1>8, <1>9, <1>10 DEF OneInDoubt

\* A cancellation that was confirmed gives its key up; one that failed keeps it.
LEMMA CancelledKeepsDoubt ==
    ASSUME CallerTypes, OneInDoubt, Cancelled
    PROVE  OneInDoubt'
<1>1. cancel \in CancelOf /\ UNCHANGED <<stored, queue>> /\ cancel.pc = "asked"
      /\ cancel.answer # "none" /\ cancel.confirmed \in Nat
  BY DEF Cancelled, CallerTypes, CancelOf, Journal
<1>2. \A i \in DOMAIN queue : queue[i].kind # "cancel"
  BY <1>1 DEF OneInDoubt
<1>3. CASE cancel.answer = "entry"
  <2>1. Marked /\ cancel' = [cancel EXCEPT !.pc = "none", !.key = 0, !.confirmed = @ + 1]
    BY <1>1, <1>3 DEF Cancelled, OneInDoubt
  <2>2. /\ cancel'.pc = "none" /\ cancel'.key = 0 /\ cancel'.made = cancel.made
        /\ cancel'.confirmed = cancel.confirmed + 1 /\ ~Marked'
    BY <1>1, <2>1 DEF CancelOf, Marked
  <2>. QED BY <1>1, <1>2, <2>1, <2>2 DEF OneInDoubt
<1>4. CASE cancel.answer # "entry"
  <2>1. cancel' = [cancel EXCEPT !.pc = "none"]
    BY <1>4 DEF Cancelled
  <2>2. /\ cancel'.pc = "none" /\ cancel'.key = cancel.key /\ cancel'.made = cancel.made
        /\ cancel'.confirmed = cancel.confirmed
    BY <1>1, <2>1 DEF CancelOf
  <2>3. Marked' <=> Marked
    BY <1>1, <2>2 DEF Marked
  <2>. QED BY <1>1, <1>2, <2>2, <2>3 DEF OneInDoubt
<1>. QED BY <1>3, <1>4

\* A cancellation in doubt is retried under its key and cancels nothing newer (cancel and
\* appendCancel in room-run/control.ts).
THEOREM CancelledOnce == Spec => []CancelOnce
<1>1. Init => CallerTypes /\ OneInDoubt
  <2>. SUFFICES ASSUME Init PROVE CallerTypes /\ OneInDoubt
    OBVIOUS
  <2>1. CallerTypes
    <3>1. call \in [Call -> CallOf]
      BY DEF Init, CallOf, CallPc, Answer
    <3>2. cancel \in CancelOf /\ stop \in StopOf
      BY DEF Init, CancelOf, StopOf, Answer
    <3>. QED BY <3>1, <3>2 DEF Init, CallerTypes
  <2>2. Of(stored, "cancel") = {}
    BY DEF Init, Of
  <2>3. Cardinality(Of(stored, "cancel")) = 0
    BY <2>2, FS_EmptySet
  <2>4. queue = <<>> /\ cancel.pc = "none" /\ cancel.key = 0 /\ cancel.confirmed = 0
    BY DEF Init
  <2>5. ~Marked
    BY <2>2 DEF Marked
  <2>6. DOMAIN queue = {}
    BY <2>4
  <2>. QED BY <2>1, <2>2, <2>3, <2>4, <2>5, <2>6 DEF OneInDoubt
<1>2. CallerTypes /\ OneInDoubt /\ [Next]_vars => CallerTypes' /\ OneInDoubt'
  <2>. SUFFICES ASSUME CallerTypes, OneInDoubt, Next PROVE CallerTypes' /\ OneInDoubt'
    BY DEF vars, CallerTypes, OneInDoubt, Marked
  <2>1. CASE Lands \/ Cancels \/ Cancelled
    BY <2>1, TypesKept, LandsKeepsDoubt, CancelsKeepsDoubt, CancelledKeepsDoubt
  <2>2. CASE ~(Lands \/ Cancels \/ Cancelled)
    <3>1. UNCHANGED <<stored, cancel>>
      BY <2>2 DEF Next, Resolves, Stopping, Publishes, VisitSettles, Arrives, Arrived, LeaveSettles,
                  Leaves, Left, Looks, VisitStarts, PresentVisit, EndVisit, Stops, Evict, CloseAsked,
                  WaitStarts, Journal
    <3>2. \/ queue' = queue
          \/ \E kind, key, by : Asks(kind, key, by) /\ kind # "cancel" /\ by[1] # "cancel"
      <4>1. \/ queue' = queue
            \/ \E v \in Call : Asks("arrived", 0, <<"call", v>>)
            \/ \E r \in DOMAIN handle : Asks("left", r, <<"handle", r>>)
            \/ Asks("revoke", 0, <<"stop">>) \/ Asks("left", 0, <<"stop">>)
            \/ Asks("close", 0, <<"room">>)
        BY <2>2 DEF Next, Resolves, Stopping, Publishes, VisitSettles, Arrives, Arrived,
                    LeaveSettles, Leaves, Left, Looks, VisitStarts, PresentVisit, EndVisit, Stops,
                    Evict, CloseAsked, WaitStarts, RetryKnown
      <4>2. /\ \A v : <<"call", v>>[1] # "cancel" /\ <<"handle", v>>[1] # "cancel"
            /\ <<"stop">>[1] # "cancel" /\ <<"room">>[1] # "cancel"
        OBVIOUS
      <4>3. CASE \E v \in Call : Asks("arrived", 0, <<"call", v>>)
        BY <4>2, <4>3
      <4>4. CASE \E r \in DOMAIN handle : Asks("left", r, <<"handle", r>>)
        BY <4>2, <4>4
      <4>5. CASE Asks("revoke", 0, <<"stop">>)
        BY <4>2, <4>5
      <4>6. CASE Asks("left", 0, <<"stop">>)
        BY <4>2, <4>6
      <4>7. CASE Asks("close", 0, <<"room">>)
        BY <4>2, <4>7
      <4>. QED BY <4>1, <4>3, <4>4, <4>5, <4>6, <4>7
    <3>. QED BY <3>1, <3>2, TypesKept, OthersKeepDoubt
  <2>. QED BY <2>1, <2>2
<1>3. CallerTypes /\ OneInDoubt => CancelOnce
  BY DEF CallerTypes, CancelOf, OneInDoubt, CancelOnce, Marked
<1>. QED BY <1>1, <1>2, <1>3, PTL DEF Spec

-----------------------------------------------------------------------------
(* Visits and departures *)

\* The latest handle has not departed.
Open == Len(handle) # 0 /\ handle[Len(handle)].flight # "done"

\* The storage holds an entry of this kind that the run has not heard.
Unheard(sort) == heard < Len(stored) /\ stored[Len(stored)].kind = sort

Queued(sort) == \E i \in DOMAIN queue : queue[i].kind = sort

\* A person arrives only after having left, and the run is behind by one entry at most.
Alternates ==
    /\ heard >= Len(stored) - 1
    /\ Unheard("arrived") => ~Present(Known)
    /\ Unheard("left") => Present(Known)

\* The handle was replaced by the next one, which is for the same visit, and has asked for
\* no departure.
Superseded(r) ==
    /\ handle[r].replaced = "yes" /\ handle[r].gone /\ handle[r].flight # "asked"
    /\ r < Len(handle) /\ handle[r + 1].base = handle[r].base

\* Only the latest handle can still depart, and while the room runs it is the one held.
OneHandle ==
    /\ \A r \in DOMAIN handle :
          /\ r < Len(handle) => handle[r].flight = "done" \/ handle[r].replaced = "yes"
          /\ handle[r].replaced # "no" => Superseded(r)
          /\ handle[r].flight # "none" => handle[r].gone
          /\ handle[r].answer # "none" => handle[r].flight = "asked"
          /\ handle[r].base <= Visit(stored)
    /\ visits \in {0, Len(handle)}
    /\ phase = "running" /\ visits = 0 => ~Open

\* The visit that a handle is for: the latest handle's is the last one, and ends with its
\* departure.
Based ==
    /\ Open => /\ ~Unheard("arrived")
               /\ Present(stored) => Visit(stored) = handle[Len(handle)].base
               /\ \A i \in Of(stored, "left") : stored[i].key = Len(handle) => ~Present(stored)
    /\ \A r \in DOMAIN handle :
          handle[r].flight = "done" /\ handle[r].replaced = "no" /\ Present(stored) =>
              Visit(stored) # handle[r].base
    /\ \A i \in Of(stored, "left") : stored[i].key # 0 =>
          /\ stored[i].key \in DOMAIN handle
          /\ Visit(SubSeq(stored, 1, i)) = handle[stored[i].key].base

\* A running room: the handle that takes messages stands for a person who is present.
Held ==
    phase = "running" =>
        /\ visits # 0 /\ ~handle[visits].gone => Present(stored) /\ Present(Known)
        /\ Unheard("left") => visits # 0 /\ handle[visits].gone
        /\ \A v \in Call : At(v, "asked") /\ call[v].answer = "entry" =>
              visits = 0 \/ handle[visits].gone \/ handle[visits].base = Visit(stored)

\* What is in the queue: each caller has one request, and an arrival never waits behind a
\* departure of the same person.
Requests ==
    /\ \A i \in DOMAIN queue :
          /\ queue[i].kind = "left" =>
                \/ queue[i].key = 0 /\ queue[i].by = <<"stop">> /\ phase # "running"
                   /\ ~Queued("arrived")
                \/ \E r \in DOMAIN handle :
                      /\ queue[i].key = r /\ queue[i].by = <<"handle", r>>
                      /\ handle[r].flight = "asked" /\ handle[r].answer = "none"
          /\ queue[i].kind = "arrived" =>
                \E v \in Call : /\ queue[i].key = 0 /\ queue[i].by = <<"call", v>>
                                /\ At(v, "asked") /\ call[v].answer = "none"
          /\ queue[i].kind \notin {"left", "arrived"} => queue[i].by[1] \notin {"call", "handle"}
          /\ queue[i].by[1] \in {"call", "handle"} =>
                \A j \in DOMAIN queue : queue[j].by = queue[i].by => j = i
    /\ Queued("arrived") /\ Open =>
          handle[Len(handle)].flight \in {"none", "settles"} /\ Present(stored)
    /\ stop.pc \in {"settled", "leaves"} => ~Queued("arrived")

\* One call arrives at a time, and an answer is about the record as it stands.
Told ==
    /\ \A v \in Call :
          /\ call[v].pc \in {"settles", "settled", "asked", "behind"} => arriving = v
          /\ At(v, "asked") /\ call[v].answer \in {"entry", "nothing"} =>
                Present(stored) /\ heard = Len(stored)
    /\ \A r \in DOMAIN handle :
          handle[r].flight = "asked" /\ handle[r].answer \in {"entry", "nothing"} =>
                ~Present(stored) /\ heard = Len(stored)
    /\ stop.pc \notin {"none", "done"} => phase # "running"

VisitsInv == CallerTypes /\ Alternates /\ OneHandle /\ Based /\ Held /\ Requests /\ Told

\* What one entry more says of the person.
LEMMA PresentAppend ==
    ASSUME NEW es \in Seq(EntryOf), NEW e \in EntryOf
    PROVE  /\ e.kind = "arrived" => Present(Append(es, e)) /\ Visit(Append(es, e)) = Visit(es) + 1
           /\ e.kind = "left" => ~Present(Append(es, e))
           /\ e.kind # "arrived" => Visit(Append(es, e)) = Visit(es)
           /\ e.kind \notin {"arrived", "left"} => (Present(Append(es, e)) <=> Present(es))
           /\ Visit(es) \in Nat
<1>1. \A sort : Of(Append(es, e), sort) =
                   IF e.kind = sort THEN Of(es, sort) \cup {Len(es) + 1} ELSE Of(es, sort)
  BY OfAppend
<1>2. \A sort : \A i \in Of(es, sort) : i \in Nat /\ i < Len(es) + 1
  BY DEF Of
<1>3. e.kind = "arrived" => Present(Append(es, e))
  <2>. SUFFICES ASSUME e.kind = "arrived" PROVE Present(Append(es, e))
    OBVIOUS
  <2>1. Len(es) + 1 \in Of(Append(es, e), "arrived")
    BY <1>1
  <2>2. \A j \in Of(Append(es, e), "left") : j < Len(es) + 1
    BY <1>1, <1>2
  <2>. QED BY <2>1, <2>2 DEF Present
<1>4. e.kind = "left" => ~Present(Append(es, e))
  <2>. SUFFICES ASSUME e.kind = "left" PROVE ~Present(Append(es, e))
    OBVIOUS
  <2>1. Len(es) + 1 \in Of(Append(es, e), "left")
    BY <1>1
  <2>2. \A i \in Of(Append(es, e), "arrived") : i \in Nat /\ i < Len(es) + 1
    BY <1>1, <1>2
  <2>3. Len(es) \in Nat
    OBVIOUS
  <2>. QED BY <2>1, <2>2, <2>3 DEF Present
<1>5. e.kind \notin {"arrived", "left"} => (Present(Append(es, e)) <=> Present(es))
  BY <1>1 DEF Present
<1>6. /\ e.kind = "arrived" => Visit(Append(es, e)) = Visit(es) + 1
      /\ e.kind # "arrived" => Visit(Append(es, e)) = Visit(es)
      /\ Visit(es) \in Nat
  BY OfAppend, OfFinite DEF Visit
<1>. QED BY <1>3, <1>4, <1>5, <1>6

\* A record is its own whole part.
LEMMA WholeRecord ==
    ASSUME NEW es \in Seq(EntryOf) PROVE SubSeq(es, 1, Len(es)) = es
  OBVIOUS

\* What the run has heard is the record, but for one entry at most.
LEMMA KnownIs ==
    ASSUME CallerTypes, Alternates
    PROVE  /\ heard = Len(stored) => Known = stored
           /\ heard # Len(stored) => /\ heard < Len(stored) /\ stored = Append(Known, stored[Len(stored)])
                                     /\ Known \in Seq(EntryOf) /\ stored[Len(stored)] \in EntryOf
<1>1. stored \in Seq(EntryOf) /\ heard \in 0..Len(stored) /\ heard >= Len(stored) - 1
  BY DEF CallerTypes, Alternates
<1>2. CASE heard = Len(stored)
  BY <1>1, <1>2 DEF Known
<1>3. CASE heard # Len(stored)
  <2>1. heard < Len(stored) /\ heard = Len(stored) - 1 /\ Len(stored) \in DOMAIN stored
    BY <1>1, <1>3
  <2>2. /\ Known \in Seq(EntryOf) /\ Len(Known) = Len(stored) - 1
        /\ \A i \in 1..Len(stored) - 1 : Known[i] = stored[i]
    BY <1>1, <2>1 DEF Known
  <2>3. stored = Append(Known, stored[Len(stored)])
    BY <1>1, <2>1, <2>2
  <2>. QED BY <1>1, <2>1, <2>2, <2>3
<1>. QED BY <1>2, <1>3

\* Where the run and the record agree about the person, but for what is unheard.
LEMMA KnownAgrees ==
    ASSUME CallerTypes, Alternates
    PROVE  /\ ~Unheard("left") /\ Present(Known) => Present(stored) /\ Visit(stored) = Visit(Known)
           /\ ~Unheard("arrived") /\ ~Present(Known) => ~Present(stored)
           /\ heard = Len(stored) => Known = stored
           /\ Visit(Known) <= Visit(stored)
<1>1. stored \in Seq(EntryOf) /\ heard \in 0..Len(stored)
  BY DEF CallerTypes
<1>2. CASE heard = Len(stored)
  <2>1. Known = stored /\ Visit(stored) \in Nat
    BY <1>1, <1>2, KnownIs, OfFinite DEF Visit
  <2>. QED BY <2>1
<1>3. CASE heard # Len(stored)
  <2>. DEFINE e == stored[Len(stored)]
  <2>1. heard < Len(stored) /\ stored = Append(Known, e) /\ Known \in Seq(EntryOf) /\ e \in EntryOf
    BY <1>3, KnownIs
  <2>2. e.kind = "arrived" => ~Present(Known)
    BY <2>1 DEF Alternates, Unheard
  <2>3. /\ ~Unheard("left") => e.kind # "left"
        /\ ~Unheard("arrived") => e.kind # "arrived"
    BY <2>1 DEF Unheard
  <2>. HIDE DEF e
  <2>4. /\ e.kind # "arrived" => Visit(stored) = Visit(Known)
        /\ e.kind = "arrived" => Visit(stored) = Visit(Known) + 1
        /\ e.kind = "left" => ~Present(stored)
        /\ e.kind \notin {"arrived", "left"} => (Present(stored) <=> Present(Known))
        /\ Visit(Known) \in Nat
    BY <2>1, PresentAppend
  <2>. QED BY <1>3, <2>2, <2>3, <2>4
<1>. QED BY <1>2, <1>3

\* A step that writes nothing, makes no handle and ends no departure but a replaced handle's.
Calm ==
    /\ UNCHANGED <<stored, heard>>
    /\ visits' = visits \/ (phase # "running" /\ visits' = 0)
    /\ Len(handle') = Len(handle)
    /\ \A r \in DOMAIN handle :
          /\ handle'[r].base = handle[r].base /\ handle'[r].replaced = handle[r].replaced
          /\ handle[r].replaced = "no" =>
                (handle'[r].flight = "done" <=> handle[r].flight = "done")
          /\ handle[r].replaced # "no" => handle'[r].flight # "asked"
          /\ handle[r].gone => handle'[r].gone
          /\ handle'[r].flight # "none" => handle'[r].gone
          /\ handle'[r].answer # "none" => handle'[r].flight = "asked"
    /\ phase # "running" => phase' # "running"

\* Such a step keeps what the visits rest on.
LEMMA CalmKeeps ==
    ASSUME VisitsInv, CallerTypes', Calm
    PROVE  /\ Alternates' /\ OneHandle' /\ Based' /\ (Open' <=> Open)
           /\ (\A v \in Call : At(v, "asked")' /\ call'[v].answer = "entry" =>
                                  At(v, "asked") /\ call[v].answer = "entry") => Held'
<1>1. /\ DOMAIN handle' = DOMAIN handle /\ DOMAIN handle = 1..Len(handle) /\ Len(handle) \in Nat
      /\ visits \in 0..Len(handle)
  BY DEF VisitsInv, CallerTypes, Calm
<1>2. Open' <=> Open
  <2>1. Len(handle) # 0 => Len(handle) \in DOMAIN handle
    BY <1>1
  <2>2. \A r \in DOMAIN handle : handle[r].replaced # "no" => r < Len(handle)
    BY DEF VisitsInv, OneHandle, Superseded
  <2>3. Len(handle) # 0 => handle[Len(handle)].replaced = "no"
    BY <1>1, <2>1, <2>2
  <2>. QED BY <1>1, <2>1, <2>3 DEF Calm, Open
<1>3. Alternates'
  BY DEF VisitsInv, Alternates, Calm, Unheard, Known
<1>4. OneHandle'
  <2>1. \A r \in DOMAIN handle : Superseded(r) => Superseded(r)'
    BY <1>1 DEF Superseded, Calm
  <2>2. ASSUME NEW r \in DOMAIN handle
        PROVE  /\ r < Len(handle) => handle'[r].flight = "done" \/ handle'[r].replaced = "yes"
               /\ handle'[r].replaced # "no" => Superseded(r)'
               /\ handle'[r].flight # "none" => handle'[r].gone
               /\ handle'[r].answer # "none" => handle'[r].flight = "asked"
               /\ handle'[r].base <= Visit(stored')
    <3>1. /\ r < Len(handle) => handle[r].flight = "done" \/ handle[r].replaced = "yes"
          /\ handle[r].replaced # "no" => Superseded(r)
          /\ handle[r].base <= Visit(stored)
      BY DEF VisitsInv, OneHandle
    <3>. QED BY <2>1, <3>1 DEF Calm, Superseded
  <2>. QED BY <1>1, <1>2, <2>2 DEF VisitsInv, OneHandle, Calm
<1>5. Based'
  <2>1. Open' => /\ ~Unheard("arrived")'
                 /\ Present(stored') => Visit(stored') = handle'[Len(handle')].base
                 /\ \A i \in Of(stored', "left") : stored'[i].key = Len(handle') => ~Present(stored')
    BY <1>1, <1>2 DEF VisitsInv, Based, Calm, Unheard, Open
  <2>2. \A r \in DOMAIN handle' :
          handle'[r].flight = "done" /\ handle'[r].replaced = "no" /\ Present(stored') =>
              Visit(stored') # handle'[r].base
    BY <1>1 DEF VisitsInv, Based, Calm
  <2>3. \A i \in Of(stored', "left") : stored'[i].key # 0 =>
          /\ stored'[i].key \in DOMAIN handle'
          /\ Visit(SubSeq(stored', 1, i)) = handle'[stored'[i].key].base
    BY <1>1 DEF VisitsInv, Based, Calm
  <2>. QED BY <2>1, <2>2, <2>3 DEF Based
<1>6. ASSUME \A v \in Call : At(v, "asked")' /\ call'[v].answer = "entry" =>
                                At(v, "asked") /\ call[v].answer = "entry"
      PROVE  Held'
  <2>. SUFFICES ASSUME phase' = "running"
                PROVE  /\ visits' # 0 /\ ~handle'[visits'].gone => Present(stored') /\ Present(Known')
                       /\ Unheard("left")' => visits' # 0 /\ handle'[visits'].gone
                       /\ \A v \in Call : At(v, "asked")' /\ call'[v].answer = "entry" =>
                             visits' = 0 \/ handle'[visits'].gone
                                \/ handle'[visits'].base = Visit(stored')
    BY DEF Held
  <2>1. phase = "running" /\ visits' = visits /\ Known' = Known /\ stored' = stored
        /\ (Unheard("left")' <=> Unheard("left"))
    BY DEF Calm, Known, Unheard
  <2>2. visits # 0 => /\ handle[visits].gone => handle'[visits].gone
                     /\ handle'[visits].base = handle[visits].base
    BY <1>1 DEF Calm
  <2>. QED BY <1>6, <2>1, <2>2 DEF VisitsInv, Held
<1>. QED BY <1>2, <1>3, <1>4, <1>5, <1>6

HandleAsks(r) == handle[r].flight = "asked" /\ handle[r].answer = "none"

CallAsks(v) == At(v, "asked") /\ call[v].answer = "none"

\* The requests in the queue stay as they are, and so do those who wait for them.
Patient ==
    /\ \A r \in DOMAIN handle : HandleAsks(r) => HandleAsks(r)'
    /\ \A v \in Call : CallAsks(v) => CallAsks(v)'
    /\ Queued("arrived") /\ Open /\ handle[Len(handle)].flight \in {"none", "settles"} =>
          handle'[Len(handle)].flight \in {"none", "settles"}
    /\ stop'.pc \in {"settled", "leaves"} => stop.pc \in {"settled", "leaves"} \/ queue = <<>>

\* A queue that stands still, while no handle is made and no departure undone.
LEMMA StillKeeps ==
    ASSUME VisitsInv, CallerTypes', Patient, queue' = queue, stored' = stored,
           Len(handle') = Len(handle), phase # "running" => phase' # "running", Open' => Open
    PROVE  Requests'
<1>1. /\ DOMAIN handle' = DOMAIN handle /\ DOMAIN handle = 1..Len(handle) /\ Len(handle) \in Nat
  BY DEF VisitsInv, CallerTypes
<1>2. Queued("arrived")' <=> Queued("arrived")
  BY DEF Queued
<1>3. ASSUME NEW i \in DOMAIN queue, queue[i].kind = "left"
      PROVE  \/ queue[i].key = 0 /\ queue[i].by = <<"stop">> /\ phase' # "running"
                /\ ~Queued("arrived")'
             \/ \E r \in DOMAIN handle' :
                   queue[i].key = r /\ queue[i].by = <<"handle", r>> /\ HandleAsks(r)'
  BY <1>1, <1>2, <1>3 DEF VisitsInv, Requests, Patient, HandleAsks
<1>4. ASSUME NEW i \in DOMAIN queue, queue[i].kind = "arrived"
      PROVE  \E v \in Call : queue[i].key = 0 /\ queue[i].by = <<"call", v>> /\ CallAsks(v)'
  BY <1>4 DEF VisitsInv, Requests, Patient, CallAsks
<1>5. Queued("arrived")' /\ Open' =>
          handle'[Len(handle')].flight \in {"none", "settles"} /\ Present(stored')
  BY <1>2 DEF VisitsInv, Requests, Patient
<1>6. stop'.pc \in {"settled", "leaves"} => ~Queued("arrived")'
  BY <1>2 DEF VisitsInv, Requests, Patient, Queued
<1>7. ASSUME NEW i \in DOMAIN queue
      PROVE  /\ queue[i].kind \notin {"left", "arrived"} => queue[i].by[1] \notin {"call", "handle"}
             /\ queue[i].by[1] \in {"call", "handle"} =>
                   \A j \in DOMAIN queue : queue[j].by = queue[i].by => j = i
  BY DEF VisitsInv, Requests
<1>. QED BY <1>3, <1>4, <1>5, <1>6, <1>7 DEF Requests, HandleAsks, CallAsks, Queued

\* The requests stay as they are, and so do the handles.
LEMMA PatientKeeps ==
    ASSUME VisitsInv, CallerTypes', Calm, Patient, queue' = queue
    PROVE  Requests'
<1>1. /\ stored' = stored /\ Len(handle') = Len(handle)
      /\ phase # "running" => phase' # "running"
  BY DEF Calm
<1>. QED BY <1>1, CalmKeeps, StillKeeps

\* A request that concerns nobody's presence joins the queue.
LEMMA PatientGrows ==
    ASSUME VisitsInv, CallerTypes', Calm, Patient,
           NEW e, queue' = Append(queue, e), e.kind \notin {"left", "arrived"},
           e.by[1] \notin {"call", "handle"}
    PROVE  Requests'
<1>0. queue \in Seq(Asked)
  BY DEF VisitsInv, CallerTypes
<1>1. /\ DOMAIN queue' = DOMAIN queue \cup {Len(queue) + 1} /\ queue'[Len(queue) + 1] = e
      /\ \A i \in DOMAIN queue : queue'[i] = queue[i]
  BY <1>0
<1>2. /\ DOMAIN handle' = DOMAIN handle /\ DOMAIN handle = 1..Len(handle) /\ Len(handle) \in Nat
  BY DEF VisitsInv, CallerTypes, Calm
<1>3. /\ Queued("arrived")' <=> Queued("arrived")
      /\ Open' <=> Open
  BY <1>1, CalmKeeps DEF Queued
<1>4. ASSUME NEW i \in DOMAIN queue', queue'[i].kind = "left"
      PROVE  \/ queue'[i].key = 0 /\ queue'[i].by = <<"stop">> /\ phase' # "running"
                /\ ~Queued("arrived")'
             \/ \E r \in DOMAIN handle' :
                   queue'[i].key = r /\ queue'[i].by = <<"handle", r>> /\ HandleAsks(r)'
  BY <1>1, <1>2, <1>3, <1>4 DEF VisitsInv, Requests, Patient, HandleAsks, Calm
<1>5. ASSUME NEW i \in DOMAIN queue', queue'[i].kind = "arrived"
      PROVE  \E v \in Call : queue'[i].key = 0 /\ queue'[i].by = <<"call", v>> /\ CallAsks(v)'
  BY <1>1, <1>5 DEF VisitsInv, Requests, Patient, CallAsks
<1>6. Queued("arrived")' /\ Open' =>
          handle'[Len(handle')].flight \in {"none", "settles"} /\ Present(stored')
  BY <1>3 DEF VisitsInv, Requests, Patient, Calm
<1>7. ASSUME NEW i \in DOMAIN queue'
      PROVE  /\ queue'[i].kind \notin {"left", "arrived"} => queue'[i].by[1] \notin {"call", "handle"}
             /\ queue'[i].by[1] \in {"call", "handle"} =>
                   \A j \in DOMAIN queue' : queue'[j].by = queue'[i].by => j = i
  BY <1>1 DEF VisitsInv, Requests
<1>8. stop'.pc \in {"settled", "leaves"} => ~Queued("arrived")'
  BY <1>3 DEF VisitsInv, Requests, Patient, Queued
<1>. QED BY <1>4, <1>5, <1>6, <1>7, <1>8 DEF Requests, HandleAsks, CallAsks

\* What concerns no visit.
LEMMA AsideKeeps ==
    ASSUME VisitsInv, CallerTypes',
           \/ Publishes \/ Cancelled \/ Cancels \/ CloseAsked
           \/ \E w \in Waiter : Looks(w) \/ WaitStarts(w)
    PROVE  VisitsInv'
<1>1. /\ UNCHANGED <<phase, stored, heard, arriving, visits, handle, call, stop>>
      /\ \/ queue' = queue
         \/ \E key : Asks("cancel", key, <<"cancel">>)
         \/ Asks("close", 0, <<"room">>)
  BY DEF Publishes, Cancelled, Cancels, CloseAsked, Looks, WaitStarts, Journal
<1>2. Calm
  BY <1>1 DEF VisitsInv, OneHandle, Superseded, Calm
<1>3. Patient
  BY <1>1 DEF Patient, HandleAsks, CallAsks, At
<1>4. Alternates' /\ OneHandle' /\ Based' /\ Held'
  BY <1>1, <1>2, CalmKeeps DEF At
<1>5. Requests'
  <2>1. CASE queue' = queue
    BY <1>2, <1>3, <2>1, PatientKeeps
  <2>2. ASSUME NEW kind \in {"cancel", "close"}, NEW key, NEW by \in {<<"cancel">>, <<"room">>},
               Asks(kind, key, by)
        PROVE  Requests'
    <3>1. /\ Request(kind, key, by).kind \notin {"left", "arrived"}
          /\ Request(kind, key, by).by[1] \notin {"call", "handle"}
      BY <2>2 DEF Request
    <3>2. queue' = Append(queue, Request(kind, key, by))
      BY <2>2 DEF Asks
    <3>. QED BY <1>2, <1>3, <3>1, <3>2, PatientGrows
  <2>. QED BY <1>1, <2>1, <2>2
<1>6. Told'
  BY <1>1 DEF VisitsInv, Told, At
<1>. QED BY <1>4, <1>5, <1>6 DEF VisitsInv

\* The room stops or is dropped: no handle is made any more.
LEMMA StopsKeeps ==
    ASSUME VisitsInv, CallerTypes', Stops
    PROVE  VisitsInv'
<1>1. /\ UNCHANGED <<stored, heard, arriving, visits, handle, call>> /\ phase' = "stopped"
      /\ Asks("revoke", 0, <<"stop">>) /\ stop'.pc = "revokes" /\ Spend("stop")
  BY DEF Stops, Journal
<1>2. Calm
  BY <1>1 DEF VisitsInv, OneHandle, Superseded, Calm
<1>3. Patient
  BY <1>1 DEF Patient, HandleAsks, CallAsks, At
<1>4. Alternates' /\ OneHandle' /\ Based' /\ Held'
  BY <1>1, <1>2, CalmKeeps DEF At
<1>5. Requests'
  <2>1. /\ Request("revoke", 0, <<"stop">>).kind \notin {"left", "arrived"}
        /\ Request("revoke", 0, <<"stop">>).by[1] \notin {"call", "handle"}
    BY DEF Request
  <2>. QED BY <1>1, <1>2, <1>3, <2>1, PatientGrows DEF Asks
<1>6. Told'
  BY <1>1 DEF VisitsInv, Told, At
<1>. QED BY <1>4, <1>5, <1>6 DEF VisitsInv

\* An eviction forgets handles and requests and keeps the rest: the room starts again on its record.
LEMMA EvictKeeps ==
    ASSUME VisitsInv, CallerTypes', Evict
    PROVE  VisitsInv'
<1>1. /\ UNCHANGED <<stored, heard, queue, arriving, visits, call, stop>> /\ phase' = "evicted"
      /\ Spend("evict")
      /\ handle' = [r \in DOMAIN handle |-> [handle[r] EXCEPT !.gone = @ \/ r = visits]]
  BY DEF Evict, Journal
<1>2. \A r \in DOMAIN handle :
         /\ handle[r] \in HandleOf /\ handle'[r].base = handle[r].base
         /\ handle'[r].replaced = handle[r].replaced
         /\ handle'[r].flight = handle[r].flight /\ handle'[r].answer = handle[r].answer
         /\ handle[r].gone => handle'[r].gone
  <2>1. \A r \in DOMAIN handle : handle[r] \in HandleOf
    BY DEF VisitsInv, CallerTypes
  <2>. QED BY <1>1, <2>1 DEF HandleOf
<1>3. Len(handle') = Len(handle) /\ DOMAIN handle' = DOMAIN handle /\ DOMAIN handle = 1..Len(handle)
  BY <1>1 DEF VisitsInv, CallerTypes
<1>4. Calm
  BY <1>1, <1>2, <1>3 DEF VisitsInv, OneHandle, Superseded, Calm
<1>5. Patient
  <2>1. \A r \in DOMAIN handle : HandleAsks(r) => HandleAsks(r)'
    BY <1>2 DEF HandleAsks
  <2>2. Open => Len(handle) \in DOMAIN handle
    BY <1>3 DEF Open, VisitsInv, CallerTypes
  <2>. QED BY <1>1, <1>2, <2>1, <2>2 DEF Patient, CallAsks, At
<1>6. Alternates' /\ OneHandle' /\ Based' /\ Held'
  BY <1>1, <1>4, CalmKeeps DEF At
<1>7. Requests'
  BY <1>1, <1>4, <1>5, PatientKeeps
<1>8. Told'
  <2>1. \A r \in DOMAIN handle' :
          handle'[r].flight = "asked" /\ handle'[r].answer \in {"entry", "nothing"} =>
                ~Present(stored') /\ heard' = Len(stored')
    <3>1. stored' = stored /\ heard' = heard
      BY <1>1
    <3>2. \A r \in DOMAIN handle :
            handle[r].flight = "asked" /\ handle[r].answer \in {"entry", "nothing"} =>
                ~Present(stored) /\ heard = Len(stored)
      BY DEF VisitsInv, Told
    <3>. QED BY <1>2, <1>3, <3>1, <3>2
  <2>. QED BY <1>1, <2>1 DEF VisitsInv, Told, At
<1>. QED BY <1>6, <1>7, <1>8 DEF VisitsInv

\* A call starts, and waits for what is in doubt.
LEMMA VisitKeeps ==
    ASSUME VisitsInv, CallerTypes', NEW v \in Call, VisitStarts(v) \/ VisitSettles(v)
    PROVE  VisitsInv'
<1>1. /\ UNCHANGED <<phase, stored, heard, queue, visits, handle, stop>>
      /\ \E pc \in {"joins", "settles", "settled"} : Step(v, pc)
      /\ Spend("visit") \/ spare' = spare
  BY DEF VisitStarts, VisitSettles, Journal
<1>2. /\ \A w \in Call \ {v} : call'[w] = call[w]
      /\ call'[v].answer = "none" /\ call'[v].pc \in {"joins", "settles", "settled"}
      /\ call[v].pc \in {"idle", "settles"}
  <2>1. call \in [Call -> CallOf] /\ call[v] \in CallOf
    BY DEF VisitsInv, CallerTypes
  <2>. QED BY <1>1, <2>1 DEF Step, CallOf, VisitStarts, VisitSettles, At
<1>3. Calm
  BY <1>1 DEF VisitsInv, OneHandle, Superseded, Calm
<1>4. Patient
  BY <1>1, <1>2 DEF Patient, HandleAsks, CallAsks, At
<1>5. Alternates' /\ OneHandle' /\ Based' /\ Held'
  BY <1>1, <1>2, <1>3, CalmKeeps DEF At
<1>6. Requests'
  BY <1>1, <1>3, <1>4, PatientKeeps
<1>7. \A w \in Call : call'[w].pc \in {"settles", "settled", "asked", "behind"} => arriving' = w
  <2>1. \A w \in Call : call[w].pc \in {"settles", "settled", "asked", "behind"} => arriving = w
    BY DEF VisitsInv, Told
  <2>2. CASE VisitSettles(v)
    BY <1>2, <2>1, <2>2 DEF VisitSettles, At
  <2>3. CASE VisitStarts(v) /\ arriving # 0
    <3>1. call'[v].pc = "joins" /\ arriving' = arriving
      <4>1. call[v] \in CallOf /\ call \in [Call -> CallOf]
        BY DEF VisitsInv, CallerTypes
      <4>. QED BY <2>3, <4>1 DEF VisitStarts, Step, CallOf
    <3>. QED BY <1>2, <2>1, <3>1
  <2>4. CASE VisitStarts(v) /\ arriving = 0
    <3>1. arriving' = v
      BY <2>4 DEF VisitStarts
    <3>. QED BY <1>2, <2>1, <2>4, <3>1, CallersAssumption
  <2>. QED BY <2>2, <2>3, <2>4
<1>8. Told'
  BY <1>1, <1>2, <1>7 DEF VisitsInv, Told, At
<1>. QED BY <1>5, <1>6, <1>8 DEF VisitsInv

Busy == {"settles", "settled", "asked", "behind"}

\* The one call that arrives comes to an end: no call is under way then.
LEMMA ArrivalOver ==
    ASSUME VisitsInv, NEW v \in Call, call[v].pc \in Busy, ~CallAsks(v),
           NEW outcome \in {"done", "refused"}, ArrivalEnds(v, outcome)
    PROVE  \A w \in Call : ~CallAsks(w) /\ call'[w].pc \notin Busy
<1>1. call \in [Call -> CallOf] /\ \A w \in Call : call[w].pc \in Busy => arriving = w
  BY DEF VisitsInv, CallerTypes, Told, Busy
<1>2. arriving = v
  BY <1>1
<1>3. \A w \in Call \ {v} : call[w].pc \notin Busy
  BY <1>1, <1>2
<1>4. \A w \in Call : ~CallAsks(w)
  BY <1>3 DEF CallAsks, At, Busy
<1>5. ASSUME NEW w \in Call PROVE call'[w].pc \notin Busy
  <2>1. CASE w = v \/ At(w, "joins")
    <3>1. call'[w] = [call[w] EXCEPT !.pc = IF Gone THEN "refused" ELSE outcome, !.answer = "none"]
      BY <1>2, <2>1 DEF ArrivalEnds
    <3>2. call'[w].pc \in {"done", "refused"}
      BY <1>1, <3>1 DEF CallOf
    <3>. QED BY <3>2 DEF Busy
  <2>2. CASE w # v /\ ~At(w, "joins")
    BY <1>3, <2>2 DEF ArrivalEnds
  <2>. QED BY <2>1, <2>2
<1>. QED BY <1>4, <1>5

\* The call that arrives is refused, or takes the handle the room holds.
LEMMA ArrivalEndsKeeps ==
    ASSUME VisitsInv, CallerTypes', NEW v \in Call, call[v].pc \in Busy, ~CallAsks(v),
           NEW outcome \in {"done", "refused"}, ArrivalEnds(v, outcome),
           UNCHANGED <<phase, stored, heard, queue, visits, handle, stop, spare>>
    PROVE  VisitsInv'
<1>1. \A w \in Call : ~CallAsks(w) /\ call'[w].pc \notin Busy
  BY ArrivalOver
<1>2. Calm
  BY DEF VisitsInv, OneHandle, Superseded, Calm
<1>3. Patient
  BY <1>1 DEF Patient, HandleAsks
<1>4. Alternates' /\ OneHandle' /\ Based' /\ Held'
  BY <1>1, <1>2, CalmKeeps DEF At, Busy
<1>5. Requests'
  BY <1>2, <1>3, PatientKeeps
<1>6. Told'
  BY <1>1 DEF VisitsInv, Told, At, Busy
<1>. QED BY <1>4, <1>5, <1>6 DEF VisitsInv

\* The call waits for the departure of the handle the room holds, or starts it again.
LEMMA RetryKeeps ==
    ASSUME VisitsInv, CallerTypes', NEW v \in Call, call[v].pc \in Busy, ~CallAsks(v),
           KnownGone, RetryKnown(v), UNCHANGED <<phase, stored, heard, stop, spare>>
    PROVE  VisitsInv'
<1>1. /\ UNCHANGED <<arriving, visits, queue>> /\ visits \in DOMAIN handle
      /\ call'[v].pc = "behind" /\ \A w \in Call \ {v} : call'[w] = call[w]
  <2>1. call[v] \in CallOf /\ call \in [Call -> CallOf] /\ visits \in DOMAIN handle
    BY DEF VisitsInv, CallerTypes, KnownGone
  <2>. QED BY <2>1 DEF RetryKnown, CallOf
<1>2. /\ Len(handle') = Len(handle) /\ DOMAIN handle' = DOMAIN handle
      /\ \A r \in DOMAIN handle :
            \/ handle'[r] = handle[r]
            \/ /\ handle[r].flight = "none" /\ handle'[r].flight = "settles"
               /\ handle'[r].gone /\ handle'[r].base = handle[r].base
               /\ handle'[r].answer = handle[r].answer /\ handle'[r].replaced = handle[r].replaced
  <2>1. handle[visits] \in HandleOf /\ handle \in Seq(HandleOf) /\ handle' \in Seq(HandleOf)
    BY <1>1 DEF VisitsInv, CallerTypes
  <2>2. CASE handle' = handle
    BY <2>2
  <2>3. CASE handle[visits].flight = "none" /\ handle' = [handle EXCEPT ![visits] = Departing(handle[visits])]
    <3>1. /\ Departing(handle[visits]).flight = "settles" /\ Departing(handle[visits]).gone
          /\ Departing(handle[visits]).base = handle[visits].base
          /\ Departing(handle[visits]).answer = handle[visits].answer
          /\ Departing(handle[visits]).replaced = handle[visits].replaced
      BY <2>1 DEF Departing, HandleOf
    <3>. QED BY <1>1, <2>1, <2>3, <3>1
  <2>. QED BY <2>2, <2>3 DEF RetryKnown
<1>3. Calm
  BY <1>1, <1>2 DEF VisitsInv, OneHandle, Superseded, Calm
<1>4. Patient
  <2>1. \A r \in DOMAIN handle : HandleAsks(r) => HandleAsks(r)'
    BY <1>2 DEF HandleAsks
  <2>2. \A w \in Call : CallAsks(w) => CallAsks(w)'
    BY <1>1 DEF CallAsks, At
  <2>3. Open => Len(handle) \in DOMAIN handle
    BY DEF Open, VisitsInv, CallerTypes
  <2>. QED BY <1>2, <2>1, <2>2, <2>3 DEF Patient
<1>5. Alternates' /\ OneHandle' /\ Based' /\ Held'
  BY <1>1, <1>3, CalmKeeps DEF At
<1>6. Requests'
  BY <1>1, <1>3, <1>4, PatientKeeps
<1>7. Told'
  <2>1. \A r \in DOMAIN handle' :
          handle'[r].flight = "asked" /\ handle'[r].answer \in {"entry", "nothing"} =>
                ~Present(stored') /\ heard' = Len(stored')
    <3>1. \A r \in DOMAIN handle :
            handle[r].flight = "asked" /\ handle[r].answer \in {"entry", "nothing"} =>
                ~Present(stored) /\ heard = Len(stored)
      BY DEF VisitsInv, Told
    <3>. QED BY <1>2, <3>1
  <2>2. \A w \in Call :
          /\ call'[w].pc \in {"settles", "settled", "asked", "behind"} => arriving' = w
          /\ At(w, "asked")' /\ call'[w].answer \in {"entry", "nothing"} =>
                Present(stored') /\ heard' = Len(stored')
    BY <1>1 DEF VisitsInv, Told, At, Busy
  <2>. QED BY <2>1, <2>2 DEF VisitsInv, Told
<1>. QED BY <1>5, <1>6, <1>7 DEF VisitsInv

\* The call asks for the arrival: nobody is departing then.
LEMMA ArrivesKeeps ==
    ASSUME VisitsInv, CallerTypes', NEW v \in Call, Arrives(v)
    PROVE  VisitsInv'
<1>0. call[v].pc \in Busy /\ ~CallAsks(v) /\ call[v] \in CallOf /\ call \in [Call -> CallOf]
      /\ UNCHANGED <<phase, stored, heard, stop, spare>>
  BY DEF Arrives, At, Busy, CallAsks, VisitsInv, CallerTypes, Journal
<1>1. CASE ArrivalEnds(v, "refused") /\ UNCHANGED <<queue, visits, handle>>
  BY <1>0, <1>1, ArrivalEndsKeeps
<1>2. CASE KnownGone /\ RetryKnown(v)
  BY <1>0, <1>2, RetryKeeps
<1>3. CASE /\ ~Gone /\ ~KnownGone /\ Asks("arrived", 0, <<"call", v>>) /\ Step(v, "asked")
           /\ UNCHANGED <<arriving, visits, handle>>
  <2>. DEFINE e == Request("arrived", 0, <<"call", v>>)
  <2>1. /\ call'[v].pc = "asked" /\ call'[v].answer = "none"
        /\ \A w \in Call \ {v} : call'[w] = call[w]
    BY <1>0, <1>3 DEF Step, CallOf
  <2>2. queue \in Seq(Asked) /\ queue' = Append(queue, e) /\ phase = "running"
    BY <1>3 DEF Asks, Gone, VisitsInv, CallerTypes
  <2>3. /\ DOMAIN queue' = DOMAIN queue \cup {Len(queue) + 1} /\ queue'[Len(queue) + 1] = e
        /\ \A i \in DOMAIN queue : queue'[i] = queue[i]
    BY <2>2
  <2>4. e.kind = "arrived" /\ e.key = 0 /\ e.by = <<"call", v>>
    BY DEF Request
  <2>5. Calm
    BY <1>0, <1>3 DEF VisitsInv, OneHandle, Superseded, Calm
  <2>6. Alternates' /\ OneHandle' /\ Based' /\ Held' /\ (Open' <=> Open)
    BY <2>1, <2>5, CalmKeeps DEF At
  <2>7. Open => handle[Len(handle)].flight = "none" /\ Present(stored)
    <3>1. Open => visits = Len(handle) /\ visits # 0 /\ visits \in DOMAIN handle
      BY <2>2 DEF VisitsInv, OneHandle, Open, CallerTypes
    <3>2. Open => ~handle[visits].gone
      BY <1>3, <3>1 DEF KnownGone
    <3>. QED BY <2>2, <3>1, <3>2 DEF VisitsInv, OneHandle, Held
  <2>8. Requests'
    <3>. HIDE DEF e
    <3>1. \A i \in DOMAIN queue : queue[i].kind = "left" =>
             \E r \in DOMAIN handle : queue[i].key = r /\ queue[i].by = <<"handle", r>> /\ HandleAsks(r)
      BY <2>2 DEF VisitsInv, Requests, HandleAsks
    <3>2. \A i \in DOMAIN queue : queue[i].kind = "arrived" =>
             \E w \in Call : queue[i].key = 0 /\ queue[i].by = <<"call", w>> /\ CallAsks(w)
      BY DEF VisitsInv, Requests, CallAsks
    <3>3. \A i \in DOMAIN queue : queue[i].by # <<"call", v>>
      <4>1. ASSUME NEW i \in DOMAIN queue, queue[i].by = <<"call", v>> PROVE FALSE
        <5>1. queue[i].kind \in {"left", "arrived"}
          BY <4>1 DEF VisitsInv, Requests
        <5>2. queue[i].kind = "arrived"
          BY <3>1, <4>1, <5>1
        <5>3. CallAsks(v)
          BY <3>2, <4>1, <5>2
        <5>. QED BY <1>0, <5>3
      <4>. QED BY <4>1
    <3>4. \A w \in Call : CallAsks(w) => CallAsks(w)'
      BY <1>0, <2>1 DEF CallAsks, At
    <3>5. CallAsks(v)'
      BY <2>1 DEF CallAsks, At
    <3>6. ASSUME NEW i \in DOMAIN queue', queue'[i].kind = "left"
          PROVE  \E r \in DOMAIN handle' : queue'[i].key = r /\ queue'[i].by = <<"handle", r>> /\ HandleAsks(r)'
      BY <1>3, <2>3, <2>4, <3>1, <3>6 DEF HandleAsks
    <3>7. ASSUME NEW i \in DOMAIN queue', queue'[i].kind = "arrived"
          PROVE  \E w \in Call : queue'[i].key = 0 /\ queue'[i].by = <<"call", w>> /\ CallAsks(w)'
      BY <2>3, <2>4, <3>2, <3>4, <3>5, <3>7
    <3>8. ASSUME NEW i \in DOMAIN queue'
          PROVE  /\ queue'[i].kind \notin {"left", "arrived"} => queue'[i].by[1] \notin {"call", "handle"}
                 /\ queue'[i].by[1] \in {"call", "handle"} =>
                       \A j \in DOMAIN queue' : queue'[j].by = queue'[i].by => j = i
      BY <2>3, <2>4, <3>3 DEF VisitsInv, Requests
    <3>9. stop'.pc \notin {"settled", "leaves"}
      BY <1>0, <2>2 DEF VisitsInv, Told
    <3>. QED BY <1>0, <1>3, <2>6, <2>7, <3>6, <3>7, <3>8, <3>9 DEF Requests, HandleAsks, CallAsks
  <2>9. Told'
    BY <1>0, <1>3, <2>1 DEF VisitsInv, Told, At, Busy
  <2>. QED BY <2>6, <2>8, <2>9 DEF VisitsInv
<1>. QED BY <1>0, <1>1, <1>2, <1>3 DEF Arrives

\* A handle is made for a visit that the run and the record agree on, and replaces the one
\* that the room holds for the same visit.
LEMMA NewHandle ==
    ASSUME VisitsInv, CallerTypes', phase = "running",
           visits = 0 \/ (~handle[visits].gone /\ handle[visits].base = Visit(stored)),
           UNCHANGED <<phase, stored, heard, queue, stop>>,
           visits' = Len(handle) + 1, Len(handle') = Len(handle) + 1,
           \A r \in DOMAIN handle :
              /\ handle'[r].base = handle[r].base /\ handle'[r].flight = handle[r].flight
              /\ handle'[r].answer = handle[r].answer
              /\ r # visits => /\ handle'[r].gone = handle[r].gone
                               /\ handle'[r].replaced = handle[r].replaced
              /\ r = visits => handle'[r].gone /\ handle'[r].replaced = "yes",
           handle'[Len(handle) + 1] = Made,
           Present(stored), Present(Known), Visit(Known) = Visit(stored),
           ~Unheard("arrived"), ~Unheard("left"),
           \A v \in Call : CallAsks(v) => CallAsks(v)'
    PROVE  Alternates' /\ OneHandle' /\ Based' /\ Held' /\ Requests'
<1>1. /\ Len(handle) \in Nat /\ DOMAIN handle = 1..Len(handle)
      /\ DOMAIN handle' = DOMAIN handle \cup {Len(handle) + 1}
      /\ stored \in Seq(EntryOf) /\ Visit(stored) \in Nat
  BY OfFinite DEF VisitsInv, CallerTypes, Visit
<1>2. /\ handle'[Len(handle')].flight = "none" /\ ~handle'[Len(handle')].gone
      /\ handle'[Len(handle')].answer = "none" /\ handle'[Len(handle')].base = Visit(stored)
      /\ handle'[Len(handle')].replaced = "no"
  BY DEF Made, NoHandle
<1>3. visits \in {0, Len(handle)} /\ (visits = 0 => ~Open)
  BY DEF VisitsInv, OneHandle
<1>4. \A r \in DOMAIN handle :
         /\ r < Len(handle) => handle[r].flight = "done" \/ handle[r].replaced = "yes"
         /\ handle[r].replaced # "no" => Superseded(r)
         /\ handle[r].flight # "none" => handle[r].gone
         /\ handle[r].answer # "none" => handle[r].flight = "asked"
         /\ handle[r].base <= Visit(stored)
  BY DEF VisitsInv, OneHandle
<1>5. ASSUME NEW r \in DOMAIN handle
      PROVE  r = visits \/ handle[r].flight = "done" \/ handle[r].replaced = "yes"
  <2>1. r < Len(handle) \/ r = Len(handle)
    BY <1>1
  <2>2. r = Len(handle) /\ visits = 0 => handle[r].flight = "done"
    BY <1>1, <1>3 DEF Open
  <2>. QED BY <1>3, <1>4, <2>1, <2>2
<1>6. \A r \in DOMAIN handle : handle[r].flight # "asked"
  <2>1. visits # 0 => handle[visits].flight = "none"
    BY <1>1, <1>3, <1>4
  <2>. QED BY <1>1, <1>4, <1>5, <2>1 DEF Superseded
<1>7. Alternates'
  BY DEF VisitsInv, Alternates, Unheard, Known
<1>8. OneHandle'
  <2>1. ASSUME NEW r \in DOMAIN handle
        PROVE  /\ handle'[r].flight = "done" \/ handle'[r].replaced = "yes"
               /\ handle'[r].replaced # "no" => Superseded(r)'
               /\ handle'[r].flight # "none" => handle'[r].gone
               /\ handle'[r].answer # "none" => handle'[r].flight = "asked"
               /\ handle'[r].base <= Visit(stored')
    <3>1. CASE r = visits
      <4>1. r = Len(handle) /\ r < Len(handle') /\ handle'[r + 1] = Made
        BY <1>1, <1>3, <3>1
      <4>2. Made.base = Visit(stored) /\ handle'[r].base = Visit(stored)
        BY <1>1, <3>1 DEF Made, NoHandle
      <4>3. Superseded(r)'
        BY <1>6, <3>1, <4>1, <4>2 DEF Superseded
      <4>. QED BY <1>4, <3>1, <4>3
    <3>2. CASE r # visits
      <4>1. Superseded(r) => Superseded(r)'
        BY <1>1, <3>2 DEF Superseded
      <4>. QED BY <1>4, <1>5, <3>2, <4>1
    <3>. QED BY <3>1, <3>2
  <2>2. ~(Len(handle') < Len(handle'))
    BY <1>1
  <2>3. handle'[Len(handle')].base <= Visit(stored')
    BY <1>1, <1>2
  <2>. QED BY <1>1, <1>2, <2>1, <2>2, <2>3 DEF OneHandle
<1>9. Based'
  <2>1. ~Unheard("arrived")' /\ Visit(stored') = handle'[Len(handle')].base
    BY <1>2 DEF Unheard
  <2>2. \A i \in Of(stored', "left") : stored'[i].key # Len(handle')
    BY <1>1 DEF VisitsInv, Based
  <2>3. \A r \in DOMAIN handle' :
          handle'[r].flight = "done" /\ handle'[r].replaced = "no" /\ Present(stored') =>
              Visit(stored') # handle'[r].base
    BY <1>1, <1>2 DEF VisitsInv, Based
  <2>4. \A i \in Of(stored', "left") : stored'[i].key # 0 =>
          /\ stored'[i].key \in DOMAIN handle'
          /\ Visit(SubSeq(stored', 1, i)) = handle'[stored'[i].key].base
    BY <1>1 DEF VisitsInv, Based
  <2>. QED BY <2>1, <2>2, <2>3, <2>4 DEF Based
<1>10. Held'
  <2>1. Known' = Known /\ ~Unheard("left")' /\ handle'[visits'].base = Visit(stored')
    BY <1>2 DEF Known, Unheard
  <2>. QED BY <2>1 DEF Held
<1>11. Requests'
  <2>1. \A i \in DOMAIN queue : queue[i].kind # "left"
    BY <1>6 DEF VisitsInv, Requests
  <2>2. \A i \in DOMAIN queue : queue[i].kind = "arrived" =>
           \E w \in Call : queue[i].key = 0 /\ queue[i].by = <<"call", w>> /\ CallAsks(w)'
    BY DEF VisitsInv, Requests, CallAsks
  <2>3. \A i \in DOMAIN queue :
          /\ queue[i].kind \notin {"left", "arrived"} => queue[i].by[1] \notin {"call", "handle"}
          /\ queue[i].by[1] \in {"call", "handle"} =>
                \A j \in DOMAIN queue : queue[j].by = queue[i].by => j = i
    BY DEF VisitsInv, Requests
  <2>4. stop'.pc \notin {"settled", "leaves"}
    BY DEF VisitsInv, Told
  <2>. QED BY <1>2, <2>1, <2>2, <2>3, <2>4 DEF Requests, CallAsks
<1>. QED BY <1>7, <1>8, <1>9, <1>10, <1>11

\* The write of the arrival returned.
LEMMA ArrivedKeeps ==
    ASSUME VisitsInv, CallerTypes', NEW v \in Call, Arrived(v)
    PROVE  VisitsInv'
<1>0. /\ call[v].pc \in Busy /\ ~CallAsks(v) /\ At(v, "asked") /\ call[v].answer # "none"
      /\ UNCHANGED <<phase, stored, heard, stop, spare>>
  BY DEF Arrived, At, Busy, CallAsks, Journal
<1>1. CASE ArrivalEnds(v, "refused") /\ UNCHANGED <<queue, visits, handle>>
  BY <1>0, <1>1, ArrivalEndsKeeps
<1>2. CASE KnownGone /\ RetryKnown(v)
  BY <1>0, <1>2, RetryKeeps
<1>3. CASE UNCHANGED <<visits, handle>> /\ ArrivalEnds(v, "done") /\ UNCHANGED queue
  BY <1>0, <1>3, ArrivalEndsKeeps
<1>4. CASE /\ ~Gone /\ call[v].answer # "error" /\ ~KnownGone
           /\ ~(call[v].answer = "nothing" /\ visits # 0)
           /\ visits' = Len(handle) + 1
           /\ handle' = Append([r \in DOMAIN handle |->
                                   IF r = visits THEN Replaced(handle[r]) ELSE handle[r]], Made)
           /\ ArrivalEnds(v, "done") /\ UNCHANGED queue
  <2>1. call[v].answer \in {"entry", "nothing"} /\ phase = "running"
    <3>1. call[v] \in CallOf
      BY DEF VisitsInv, CallerTypes
    <3>. QED BY <1>0, <1>4, <3>1 DEF CallOf, Answer, Gone
  <2>2. Present(stored) /\ heard = Len(stored)
    BY <1>0, <2>1 DEF VisitsInv, Told
  <2>3. visits = 0 \/ (~handle[visits].gone /\ handle[visits].base = Visit(stored))
    BY <1>0, <1>4, <2>1 DEF VisitsInv, Held, KnownGone
  <2>4. \A w \in Call : ~CallAsks(w) /\ call'[w].pc \notin Busy
    BY <1>0, <1>4, ArrivalOver
  <2>5. Known = stored /\ ~Unheard("arrived") /\ ~Unheard("left")
    BY <2>2, KnownIs DEF VisitsInv, Unheard, CallerTypes
  <2>6. /\ Len(handle') = Len(handle) + 1 /\ handle'[Len(handle) + 1] = Made
        /\ \A r \in DOMAIN handle :
              handle'[r] = IF r = visits THEN Replaced(handle[r]) ELSE handle[r]
    <3>. DEFINE marked == [r \in DOMAIN handle |->
                              IF r = visits THEN Replaced(handle[r]) ELSE handle[r]]
    <3>0. handle \in Seq(HandleOf) /\ \A r \in DOMAIN handle : handle[r] \in HandleOf
      BY DEF VisitsInv, CallerTypes
    <3>1. marked \in Seq(HandleOf) /\ Len(marked) = Len(handle)
      <4>1. \A r \in DOMAIN handle : Replaced(handle[r]) \in HandleOf
        BY <3>0, HandleFields
      <4>. QED BY <3>0, <4>1, StaysSequence
    <3>2. \A r \in DOMAIN handle : marked[r] = IF r = visits THEN Replaced(handle[r]) ELSE handle[r]
      OBVIOUS
    <3>3. handle' = Append(marked, Made) /\ DOMAIN handle = 1..Len(handle)
      BY <1>4, <3>0
    <3>. HIDE DEF marked
    <3>. QED BY <3>1, <3>2, <3>3
  <2>7. \A r \in DOMAIN handle :
              /\ handle'[r].base = handle[r].base /\ handle'[r].flight = handle[r].flight
              /\ handle'[r].answer = handle[r].answer
              /\ r # visits => /\ handle'[r].gone = handle[r].gone
                               /\ handle'[r].replaced = handle[r].replaced
              /\ r = visits => handle'[r].gone /\ handle'[r].replaced = "yes"
    <3>1. \A r \in DOMAIN handle : handle[r] \in HandleOf
      BY DEF VisitsInv, CallerTypes
    <3>2. \A h \in HandleOf :
             /\ Replaced(h).base = h.base /\ Replaced(h).flight = h.flight
             /\ Replaced(h).answer = h.answer /\ Replaced(h).gone
             /\ h.replaced = "no" => Replaced(h).replaced = "yes"
      BY DEF HandleOf, Replaced
    <3>3. ASSUME NEW r \in DOMAIN handle, r = visits PROVE handle[r].replaced = "no"
      <4>1. r # 0 /\ ~handle[r].gone
        BY <2>3, <3>3 DEF VisitsInv, CallerTypes
      <4>. QED BY <4>1 DEF VisitsInv, OneHandle, Superseded
    <3>. QED BY <2>6, <3>1, <3>2, <3>3
  <2>8. \A w \in Call : CallAsks(w) => CallAsks(w)'
    BY <2>4
  <2>9. Alternates' /\ OneHandle' /\ Based' /\ Held' /\ Requests'
    BY <1>0, <1>4, <2>1, <2>2, <2>3, <2>5, <2>6, <2>7, <2>8, NewHandle
  <2>10. Told'
    <3>1. \A w \in Call :
          /\ call'[w].pc \notin {"settles", "settled", "asked", "behind"}
          /\ ~At(w, "asked")'
      BY <2>4 DEF Busy, At
    <3>2. \A r \in DOMAIN handle' :
            handle'[r].flight = "asked" /\ handle'[r].answer \in {"entry", "nothing"} =>
                ~Present(stored') /\ heard' = Len(stored')
      <4>1. DOMAIN handle' = DOMAIN handle \cup {Len(handle) + 1} /\ Made.flight = "none"
        BY <2>6 DEF VisitsInv, CallerTypes, Made, NoHandle
      <4>2. \A r \in DOMAIN handle :
              handle[r].flight = "asked" /\ handle[r].answer \in {"entry", "nothing"} =>
                ~Present(stored) /\ heard = Len(stored)
        BY DEF VisitsInv, Told
      <4>. QED BY <1>0, <2>6, <2>7, <4>1, <4>2
    <3>. QED BY <1>0, <3>1, <3>2 DEF VisitsInv, Told
  <2>. QED BY <2>9, <2>10 DEF VisitsInv
<1>5. \/ ArrivalEnds(v, "refused") /\ UNCHANGED <<queue, visits, handle>>
      \/ KnownGone /\ RetryKnown(v)
      \/ UNCHANGED <<visits, handle>> /\ ArrivalEnds(v, "done") /\ UNCHANGED queue
      \/ /\ ~Gone /\ call[v].answer # "error" /\ ~KnownGone
         /\ ~(call[v].answer = "nothing" /\ visits # 0)
         /\ visits' = Len(handle) + 1
         /\ handle' = Append([r \in DOMAIN handle |->
                                 IF r = visits THEN Replaced(handle[r]) ELSE handle[r]], Made)
         /\ ArrivalEnds(v, "done") /\ UNCHANGED queue
  BY DEF Arrived
<1>. QED BY <1>1, <1>2, <1>3, <1>4, <1>5

\* A handle taken from the record is for the visit that the record ends with.
LEMMA PresentKeeps ==
    ASSUME VisitsInv, CallerTypes', PresentVisit
    PROVE  VisitsInv'
<1>1. /\ phase = "running" /\ visits = 0 /\ Present(Known) /\ visits' = Len(handle) + 1
      /\ handle' = Append(handle, Made)
      /\ UNCHANGED <<phase, stored, heard, queue, arriving, call, stop>>
  BY DEF PresentVisit, Gone, Journal
<1>3. ~Unheard("left") /\ ~Unheard("arrived")
  BY <1>1 DEF VisitsInv, Held, Alternates
<1>4. Present(stored) /\ Visit(stored) = Visit(Known)
  BY <1>1, <1>3, KnownAgrees DEF VisitsInv
<1>5. /\ Len(handle') = Len(handle) + 1 /\ handle'[Len(handle) + 1] = Made
      /\ \A r \in DOMAIN handle : handle'[r] = handle[r]
      /\ DOMAIN handle' = DOMAIN handle \cup {Len(handle) + 1}
  BY <1>1 DEF VisitsInv, CallerTypes
<1>6. \A w \in Call : CallAsks(w) => CallAsks(w)'
  BY <1>1 DEF CallAsks, At
<1>7. Alternates' /\ OneHandle' /\ Based' /\ Held' /\ Requests'
  <2>1. \A r \in DOMAIN handle : r # visits
    BY <1>1 DEF VisitsInv, CallerTypes
  <2>. QED BY <1>1, <1>3, <1>4, <1>5, <1>6, <2>1, NewHandle
<1>8. Told'
  <2>1. Made.flight = "none"
    BY DEF Made, NoHandle
  <2>2. \A r \in DOMAIN handle' :
          handle'[r].flight = "asked" /\ handle'[r].answer \in {"entry", "nothing"} =>
                ~Present(stored') /\ heard' = Len(stored')
    <3>1. \A r \in DOMAIN handle :
            handle[r].flight = "asked" /\ handle[r].answer \in {"entry", "nothing"} =>
                ~Present(stored) /\ heard = Len(stored)
      BY DEF VisitsInv, Told
    <3>. QED BY <1>1, <1>5, <2>1, <3>1
  <2>. QED BY <1>1, <2>2 DEF VisitsInv, Told, At
<1>. QED BY <1>7, <1>8 DEF VisitsInv

\* Who arrives and who waits for an arrival, once some of them have gone on.
CallsKeep ==
    \A v \in Call :
       /\ call'[v].pc \in Busy => arriving' = v
       /\ CallAsks(v) => CallAsks(v)'
       /\ At(v, "asked")' => At(v, "asked") /\ call'[v].answer = call[v].answer

\* A departure that ends lets the arrival behind it go on, or ends it.
LEMMA DepartureCalls ==
    ASSUME VisitsInv, NEW r, NEW flight, DepartureEnds(r, flight)
    PROVE  CallsKeep
<1>. DEFINE behind == {v \in Call : At(v, "behind") /\ call[v].behind = r}
            fails == {v \in behind : flight = "none" /\ ~call[v].caught}
<1>1. call \in [Call -> CallOf] /\ \A w \in Call : call[w].pc \in Busy => arriving = w
  BY DEF VisitsInv, CallerTypes, Told, Busy
<1>2. CASE fails # {}
  <2>1. PICK v \in Call : At(v, "behind") /\ ArrivalEnds(v, "refused")
    BY <1>2 DEF DepartureEnds
  <2>2. call[v].pc \in Busy /\ ~CallAsks(v)
    BY <2>1 DEF At, CallAsks, Busy
  <2>3. \A w \in Call : ~CallAsks(w) /\ call'[w].pc \notin Busy
    BY <2>1, <2>2, ArrivalOver
  <2>. QED BY <2>3 DEF CallsKeep, At, Busy
<1>3. CASE fails = {}
  <2>1. /\ call' = [v \in Call |-> IF v \in behind THEN [call[v] EXCEPT !.pc = "settles"] ELSE call[v]]
        /\ arriving' = arriving
    BY <1>3 DEF DepartureEnds
  <2>2. ASSUME NEW v \in Call
        PROVE  /\ call'[v].pc \in Busy => arriving' = v
               /\ CallAsks(v) => CallAsks(v)'
               /\ At(v, "asked")' => At(v, "asked") /\ call'[v].answer = call[v].answer
    <3>1. CASE v \in behind
      <4>1. call[v] \in CallOf /\ call[v].pc = "behind"
        BY <1>1, <3>1 DEF At
      <4>2. call'[v].pc = "settles"
        BY <2>1, <3>1, <4>1 DEF CallOf
      <4>. QED BY <1>1, <2>1, <4>1, <4>2 DEF At, CallAsks, Busy
    <3>2. CASE v \notin behind
      <4>1. call'[v] = call[v]
        BY <2>1, <3>2
      <4>. QED BY <1>1, <2>1, <4>1 DEF At, CallAsks
    <3>. QED BY <3>1, <3>2
  <2>. QED BY <2>2 DEF CallsKeep
<1>. QED BY <1>2, <1>3

\* The departure of one handle moves, and neither asks the journal nor ends, unless another
\* handle has replaced it.
LEMMA HandleMoves ==
    ASSUME VisitsInv, CallerTypes', NEW r \in DOMAIN handle, NEW h \in HandleOf,
           handle' = [handle EXCEPT ![r] = h],
           h.base = handle[r].base, h.replaced = handle[r].replaced, h.gone, h.answer = "none",
           h.flight \in {"none", "settles", "settled"} \/ (h.flight = "done" /\ h.replaced # "no"),
           handle[r].flight # "done", ~HandleAsks(r),
           h.flight \in {"none", "settles"} \/ queue = <<>> \/ h.replaced # "no",
           CallsKeep, UNCHANGED <<phase, stored, heard, queue, visits, stop>>
    PROVE  VisitsInv'
<1>1. /\ Len(handle') = Len(handle) /\ DOMAIN handle' = DOMAIN handle /\ handle'[r] = h
      /\ \A q \in DOMAIN handle : q # r => handle'[q] = handle[q]
  BY DEF VisitsInv, CallerTypes
<1>2. Calm
  BY <1>1 DEF VisitsInv, OneHandle, Superseded, Calm
<1>3. Patient
  <2>1. \A q \in DOMAIN handle : HandleAsks(q) => HandleAsks(q)'
    BY <1>1 DEF HandleAsks
  <2>2. Queued("arrived") => queue # <<>>
    BY DEF Queued
  <2>3. Open => Len(handle) \in DOMAIN handle
    BY DEF Open, VisitsInv, CallerTypes
  <2>4. h.replaced # "no" => r # Len(handle)
    BY DEF VisitsInv, OneHandle, Superseded, CallerTypes
  <2>. QED BY <1>1, <2>1, <2>2, <2>3, <2>4 DEF Patient, CallsKeep
<1>4. Alternates' /\ OneHandle' /\ Based' /\ Held'
  BY <1>2, CalmKeeps DEF CallsKeep
<1>5. Requests'
  BY <1>2, <1>3, PatientKeeps
<1>6. Told'
  <2>1. \A q \in DOMAIN handle' :
          handle'[q].flight = "asked" /\ handle'[q].answer \in {"entry", "nothing"} =>
                ~Present(stored') /\ heard' = Len(stored')
    <3>1. \A q \in DOMAIN handle :
            handle[q].flight = "asked" /\ handle[q].answer \in {"entry", "nothing"} =>
                ~Present(stored) /\ heard = Len(stored)
      BY DEF VisitsInv, Told
    <3>. QED BY <1>1, <3>1
  <2>2. \A w \in Call :
          /\ call'[w].pc \in {"settles", "settled", "asked", "behind"} => arriving' = w
          /\ At(w, "asked")' /\ call'[w].answer \in {"entry", "nothing"} =>
                Present(stored') /\ heard' = Len(stored')
    BY DEF VisitsInv, Told, Busy, CallsKeep
  <2>. QED BY <2>1, <2>2 DEF VisitsInv, Told
<1>. QED BY <1>4, <1>5, <1>6 DEF VisitsInv

\* A departure ends that left nobody present: its handle was the last.
LEMMA DepartureKeeps ==
    ASSUME VisitsInv, CallerTypes', NEW r \in DOMAIN handle, handle[r].flight \in {"settled", "asked"},
           handle[r].replaced = "no", ~HandleAsks(r), ~Present(stored), ~Unheard("left"), DepartureEnds(r, "done"), LetGo(r),
           UNCHANGED <<phase, stored, heard, queue, stop, spare>>
    PROVE  VisitsInv'
<1>1. /\ Len(handle') = Len(handle) /\ DOMAIN handle' = DOMAIN handle
      /\ handle'[r].flight = "done" /\ handle'[r].answer = "none" /\ handle'[r].replaced = "no"
      /\ handle'[r].gone = handle[r].gone /\ handle'[r].base = handle[r].base
      /\ \A q \in DOMAIN handle : q # r => handle'[q] = handle[q]
  <2>1. handle[r] \in HandleOf /\ handle \in Seq(HandleOf)
    BY DEF VisitsInv, CallerTypes
  <2>. DEFINE h == [[handle[r] EXCEPT !.flight = "done"] EXCEPT !.answer = "none"]
  <2>2. handle' = [handle EXCEPT ![r] = h]
    BY <2>1 DEF DepartureEnds
  <2>3. /\ h.flight = "done" /\ h.answer = "none" /\ h.replaced = "no"
        /\ h.gone = handle[r].gone /\ h.base = handle[r].base
    BY <2>1 DEF HandleOf
  <2>. HIDE DEF h
  <2>. QED BY <2>1, <2>2, <2>3
<1>2. r = Len(handle) /\ Len(handle) \in Nat /\ DOMAIN handle = 1..Len(handle) /\ Open
  BY DEF VisitsInv, OneHandle, CallerTypes, Open
<1>3. visits' = 0 /\ ~Open'
  BY <1>1, <1>2 DEF LetGo, VisitsInv, OneHandle, Open
<1>4. CallsKeep
  BY DepartureCalls
<1>5. Alternates'
  BY DEF VisitsInv, Alternates, Unheard, Known
<1>6. OneHandle'
  <2>1. \A q \in DOMAIN handle : Superseded(q) => Superseded(q)'
    <3>1. \A q \in DOMAIN handle : handle'[q].base = handle[q].base
      BY <1>1
    <3>2. \A q \in DOMAIN handle : q < Len(handle) => q + 1 \in DOMAIN handle
      BY <1>2
    <3>3. \A q \in DOMAIN handle : Superseded(q) => q # r
      BY <1>2 DEF Superseded
    <3>. QED BY <1>1, <3>1, <3>2, <3>3 DEF Superseded
  <2>2. \A q \in DOMAIN handle' :
          /\ q < Len(handle') => handle'[q].flight = "done" \/ handle'[q].replaced = "yes"
          /\ handle'[q].replaced # "no" => Superseded(q)'
          /\ handle'[q].flight # "none" => handle'[q].gone
          /\ handle'[q].answer # "none" => handle'[q].flight = "asked"
          /\ handle'[q].base <= Visit(stored')
    <3>1. handle[r].flight # "none" /\ stored' = stored
      OBVIOUS
    <3>2. \A q \in DOMAIN handle :
            /\ q < Len(handle) => handle[q].flight = "done" \/ handle[q].replaced = "yes"
            /\ handle[q].replaced # "no" => Superseded(q)
            /\ handle[q].flight # "none" => handle[q].gone
            /\ handle[q].answer # "none" => handle[q].flight = "asked"
            /\ handle[q].base <= Visit(stored)
      BY DEF VisitsInv, OneHandle
    <3>. QED BY <1>1, <2>1, <3>1, <3>2
  <2>. QED BY <1>3, <2>2 DEF OneHandle
<1>7. Based'
  <2>1. \A i \in Of(stored', "left") : stored'[i].key # 0 =>
          /\ stored'[i].key \in DOMAIN handle'
          /\ Visit(SubSeq(stored', 1, i)) = handle'[stored'[i].key].base
    BY <1>1 DEF VisitsInv, Based
  <2>. QED BY <1>3, <2>1 DEF Based
<1>8. Held'
  BY <1>3 DEF Held, Unheard
<1>9. Patient
  <2>1. \A q \in DOMAIN handle : HandleAsks(q) => HandleAsks(q)'
    BY <1>1 DEF HandleAsks
  <2>. QED BY <1>2, <1>4, <2>1 DEF Patient, CallsKeep
<1>10. Requests'
  BY <1>1, <1>3, <1>9, StillKeeps
<1>11. Told'
  <2>1. \A q \in DOMAIN handle' :
          handle'[q].flight = "asked" /\ handle'[q].answer \in {"entry", "nothing"} =>
                ~Present(stored') /\ heard' = Len(stored')
    <3>1. \A q \in DOMAIN handle :
            handle[q].flight = "asked" /\ handle[q].answer \in {"entry", "nothing"} =>
                ~Present(stored) /\ heard = Len(stored)
      BY DEF VisitsInv, Told
    <3>. QED BY <1>1, <3>1
  <2>2. \A w \in Call :
          /\ call'[w].pc \in {"settles", "settled", "asked", "behind"} => arriving' = w
          /\ At(w, "asked")' /\ call'[w].answer \in {"entry", "nothing"} =>
                Present(stored') /\ heard' = Len(stored')
    BY <1>4 DEF VisitsInv, Told, Busy, CallsKeep
  <2>. QED BY <2>1, <2>2 DEF VisitsInv, Told
<1>. QED BY <1>5, <1>6, <1>7, <1>8, <1>10, <1>11 DEF VisitsInv

\* The host leaves, and waits for what is in doubt.
LEMMA LeaveKeeps ==
    ASSUME VisitsInv, CallerTypes', NEW r \in DOMAIN handle, EndVisit(r) \/ LeaveSettles(r)
    PROVE  VisitsInv'
<1>1. handle[r] \in HandleOf /\ handle \in Seq(HandleOf)
  BY DEF VisitsInv, CallerTypes
<1>2. UNCHANGED <<phase, stored, heard, queue, arriving, visits, call, stop>>
  BY DEF EndVisit, LeaveSettles, Journal
<1>3. CallsKeep
  BY <1>2 DEF VisitsInv, Told, CallsKeep, CallAsks, At, Busy
<1>5. handle[r].answer # "none" => handle[r].flight = "asked"
  BY DEF VisitsInv, OneHandle
<1>6. CASE EndVisit(r)
  <2>. DEFINE h == Departing(handle[r])
  <2>1. /\ h \in HandleOf /\ h.base = handle[r].base /\ h.gone /\ h.flight = "settles"
        /\ h.replaced = handle[r].replaced
        /\ h.answer = handle[r].answer /\ handle' = [handle EXCEPT ![r] = h]
    BY <1>1, <1>6 DEF EndVisit, Departing, HandleOf
  <2>2. handle[r].flight = "none"
    BY <1>6 DEF EndVisit
  <2>. HIDE DEF h
  <2>3. h.answer = "none" /\ ~HandleAsks(r) /\ h.flight \in {"none", "settles", "settled"}
        /\ handle[r].flight # "done" /\ h.flight \in {"none", "settles"}
    BY <1>5, <2>1, <2>2 DEF HandleAsks
  <2>. QED BY <1>2, <1>3, <2>1, <2>3, HandleMoves
<1>7. CASE LeaveSettles(r)
  <2>. DEFINE h == [handle[r] EXCEPT !.flight = "settled"]
  <2>1. /\ h \in HandleOf /\ h.base = handle[r].base /\ h.gone = handle[r].gone
        /\ h.flight = "settled" /\ h.answer = handle[r].answer /\ h.replaced = handle[r].replaced
    BY <1>1 DEF HandleOf
  <2>2. handle' = [handle EXCEPT ![r] = h] /\ handle[r].flight = "settles" /\ queue = <<>>
    BY <1>7 DEF LeaveSettles, Settled
  <2>. HIDE DEF h
  <2>3. h.gone
    BY <2>1, <2>2 DEF VisitsInv, OneHandle
  <2>4. h.answer = "none" /\ ~HandleAsks(r) /\ h.flight \in {"none", "settles", "settled"}
        /\ handle[r].flight # "done"
    BY <1>5, <2>1, <2>2 DEF HandleAsks
  <2>. QED BY <1>2, <1>3, <2>1, <2>2, <2>3, <2>4, HandleMoves
<1>. QED BY <1>6, <1>7

\* The departure asks the journal: no arrival is queued then.
LEMMA LeftAskedKeeps ==
    ASSUME VisitsInv, CallerTypes', NEW r \in DOMAIN handle, handle[r].flight = "settled",
           handle[r].replaced = "no",
           Asks("left", r, <<"handle", r>>), handle' = [handle EXCEPT ![r] = Asking(@)],
           UNCHANGED <<phase, stored, heard, arriving, visits, call, stop, spare>>
    PROVE  VisitsInv'
<1>. DEFINE e == Request("left", r, <<"handle", r>>)
<1>1. handle[r] \in HandleOf /\ handle \in Seq(HandleOf) /\ queue \in Seq(Asked)
  BY DEF VisitsInv, CallerTypes
<1>2. /\ handle[r].gone /\ handle[r].answer = "none" /\ r = Len(handle) /\ Open
  BY <1>1 DEF VisitsInv, OneHandle, Open
<1>3. /\ Len(handle') = Len(handle) /\ DOMAIN handle' = DOMAIN handle
      /\ handle'[r].flight = "asked" /\ handle'[r].answer = "none" /\ handle'[r].gone
      /\ handle'[r].base = handle[r].base /\ handle'[r].replaced = "no"
      /\ \A q \in DOMAIN handle : q # r => handle'[q] = handle[q]
  <2>. DEFINE h == Asking(handle[r])
  <2>1. /\ h.flight = "asked" /\ h.answer = "none" /\ h.gone /\ h.base = handle[r].base
        /\ h.replaced = "no"
    BY <1>1, <1>2 DEF HandleOf, Asking
  <2>2. handle' = [handle EXCEPT ![r] = h]
    OBVIOUS
  <2>. HIDE DEF h
  <2>3. /\ Len(handle') = Len(handle) /\ DOMAIN handle' = DOMAIN handle /\ handle'[r] = h
        /\ \A q \in DOMAIN handle : q # r => handle'[q] = handle[q]
    BY <1>1, <2>2
  <2>. QED BY <2>1, <2>3
<1>4. Calm
  BY <1>3 DEF VisitsInv, OneHandle, Superseded, Calm
<1>5. Alternates' /\ OneHandle' /\ Based' /\ Held' /\ (Open' <=> Open)
  BY <1>4, CalmKeeps DEF At
<1>6. ~Queued("arrived")
  BY <1>2 DEF VisitsInv, Requests
<1>7. e.kind = "left" /\ e.key = r /\ e.by = <<"handle", r>> /\ queue' = Append(queue, e)
  BY DEF Request, Asks
<1>. HIDE DEF e
<1>8. /\ DOMAIN queue' = DOMAIN queue \cup {Len(queue) + 1} /\ queue'[Len(queue) + 1] = e
      /\ \A i \in DOMAIN queue : queue'[i] = queue[i]
  BY <1>1, <1>7
<1>9. ~Queued("arrived")'
  BY <1>6, <1>7, <1>8 DEF Queued
<1>10. \A q \in DOMAIN handle : HandleAsks(q) => HandleAsks(q)' /\ q # r
  BY <1>3 DEF HandleAsks
<1>11. HandleAsks(r)'
  BY <1>3 DEF HandleAsks
<1>12. ASSUME NEW i \in DOMAIN queue, queue[i].kind = "left"
       PROVE  \/ queue[i].key = 0 /\ queue[i].by = <<"stop">> /\ phase # "running"
              \/ \E q \in DOMAIN handle :
                    queue[i].key = q /\ queue[i].by = <<"handle", q>> /\ HandleAsks(q)
  BY <1>12 DEF VisitsInv, Requests, HandleAsks
<1>13. \A i \in DOMAIN queue : queue[i].by # <<"handle", r>>
  <2>1. ASSUME NEW i \in DOMAIN queue, queue[i].by = <<"handle", r>> PROVE FALSE
    <3>1. queue[i].kind = "left"
      BY <1>6, <2>1 DEF VisitsInv, Requests, Queued
    <3>. QED BY <1>10, <1>12, <2>1, <3>1
  <2>. QED BY <2>1
<1>14. ASSUME NEW i \in DOMAIN queue', queue'[i].kind = "left"
       PROVE  \/ queue'[i].key = 0 /\ queue'[i].by = <<"stop">> /\ phase' # "running"
                 /\ ~Queued("arrived")'
              \/ \E q \in DOMAIN handle' :
                    queue'[i].key = q /\ queue'[i].by = <<"handle", q>> /\ HandleAsks(q)'
  BY <1>3, <1>7, <1>8, <1>9, <1>10, <1>11, <1>12, <1>14
<1>15. ASSUME NEW i \in DOMAIN queue'
       PROVE  /\ queue'[i].kind \notin {"left", "arrived"} => queue'[i].by[1] \notin {"call", "handle"}
              /\ queue'[i].by[1] \in {"call", "handle"} =>
                    \A j \in DOMAIN queue' : queue'[j].by = queue'[i].by => j = i
  BY <1>7, <1>8, <1>13 DEF VisitsInv, Requests
<1>16. Requests'
  BY <1>9, <1>14, <1>15 DEF Requests, HandleAsks, Queued
<1>17. Told'
  <2>1. \A q \in DOMAIN handle' :
          handle'[q].flight = "asked" /\ handle'[q].answer \in {"entry", "nothing"} =>
                ~Present(stored') /\ heard' = Len(stored')
    <3>1. \A q \in DOMAIN handle :
            handle[q].flight = "asked" /\ handle[q].answer \in {"entry", "nothing"} =>
                ~Present(stored) /\ heard = Len(stored)
      BY DEF VisitsInv, Told
    <3>. QED BY <1>3, <3>1
  <2>. QED BY <2>1 DEF VisitsInv, Told, At
<1>. QED BY <1>5, <1>16, <1>17 DEF VisitsInv

\* The departure of a handle that was replaced ends, unless it asks for one.
LEMMA ReplacedLeaves ==
    ASSUME VisitsInv, CallerTypes', NEW r \in DOMAIN handle, Leaves(r) \/ Left(r),
           handle[r].replaced # "no", ~Strayed'
    PROVE  VisitsInv'
<1>1. handle[r] \in HandleOf /\ handle \in Seq(HandleOf)
  BY DEF VisitsInv, CallerTypes
<1>2. /\ Superseded(r) /\ visits \in {0, Len(handle)} /\ r < Len(handle) /\ r # 0
      /\ handle[r].answer = "none"
  BY <1>1 DEF VisitsInv, OneHandle, Superseded
<1>3. Leaves(r)
  BY <1>2 DEF Left, Superseded
<1>4. ~(handle' = [handle EXCEPT ![r] = Asking(@)])
  <2>1. Asking(handle[r]).replaced = "left"
    BY <1>1 DEF Asking, HandleOf
  <2>2. ASSUME handle' = [handle EXCEPT ![r] = Asking(@)] PROVE FALSE
    <3>1. handle'[r] = Asking(handle[r]) /\ r \in DOMAIN handle'
      BY <2>2
    <3>. QED BY <2>1, <3>1 DEF Strayed
  <2>. QED BY <2>2
<1>5. /\ DepartureEnds(r, "done") /\ handle[r].flight = "settled"
      /\ UNCHANGED <<phase, stored, heard, queue, visits, stop, spare>>
  BY <1>2, <1>3, <1>4 DEF Leaves, LetGo, Journal
<1>. DEFINE h == [[handle[r] EXCEPT !.flight = "done"] EXCEPT !.answer = "none"]
<1>6. /\ h \in HandleOf /\ h.base = handle[r].base /\ h.gone = handle[r].gone
      /\ h.flight = "done" /\ h.answer = "none" /\ h.replaced = handle[r].replaced
  BY <1>1 DEF HandleOf, Answer
<1>7. handle' = [handle EXCEPT ![r] = h]
  BY <1>1, <1>5 DEF DepartureEnds
<1>. HIDE DEF h
<1>8. h.gone /\ h.replaced # "no" /\ handle[r].flight # "done" /\ ~HandleAsks(r)
  BY <1>2, <1>5, <1>6 DEF Superseded, HandleAsks
<1>9. CallsKeep
  BY <1>5, DepartureCalls
<1>. QED BY <1>5, <1>6, <1>7, <1>8, <1>9, HandleMoves

\* A departure asks, ends, or fails and is open again.
LEMMA LeavesKeeps ==
    ASSUME VisitsInv, CallerTypes', NEW r \in DOMAIN handle, Leaves(r) \/ Left(r),
           handle[r].replaced = "no"
    PROVE  VisitsInv'
<1>1. handle[r] \in HandleOf /\ handle \in Seq(HandleOf)
  BY DEF VisitsInv, CallerTypes
<1>2. UNCHANGED <<phase, stored, heard, stop, spare>> /\ handle[r].flight \in {"settled", "asked"}
      /\ ~HandleAsks(r)
  BY DEF Leaves, Left, Journal, HandleAsks
<1>3. r = Len(handle) /\ Open /\ visits \in {0, r}
  <2>1. r \in 1..Len(handle) /\ Len(handle) \in Nat
    BY <1>1
  <2>2. /\ visits \in {0, Len(handle)}
        /\ r < Len(handle) => handle[r].flight = "done" \/ handle[r].replaced = "yes"
    BY DEF VisitsInv, OneHandle
  <2>3. r = Len(handle) /\ Len(handle) # 0
    BY <1>2, <2>1, <2>2
  <2>. QED BY <1>2, <2>2, <2>3 DEF Open
<1>4. CASE handle[r].flight = "settled" /\ Asks("left", r, <<"handle", r>>)
           /\ handle' = [handle EXCEPT ![r] = Asking(@)] /\ UNCHANGED <<call, arriving, visits>>
  BY <1>2, <1>4, LeftAskedKeeps
<1>5. CASE /\ ~Present(Known) /\ DepartureEnds(r, "done") /\ LetGo(r) /\ UNCHANGED queue
  <2>1. ~Present(stored) /\ ~Unheard("left")
    BY <1>3, <1>5, KnownAgrees DEF VisitsInv, Based, Alternates
  <2>. QED BY <1>2, <1>5, <2>1, DepartureKeeps
<1>6. CASE /\ handle[r].flight = "asked" /\ handle[r].answer \in {"entry", "nothing"}
           /\ DepartureEnds(r, "done") /\ LetGo(r) /\ UNCHANGED queue
  <2>1. ~Present(stored) /\ ~Unheard("left")
    BY <1>6 DEF VisitsInv, Told, Unheard, CallerTypes
  <2>. QED BY <1>2, <1>6, <2>1, DepartureKeeps
<1>7. CASE /\ handle[r].flight = "asked" /\ handle[r].answer = "error"
           /\ DepartureEnds(r, "none") /\ UNCHANGED <<queue, visits>>
  <2>. DEFINE h == [[handle[r] EXCEPT !.flight = "none"] EXCEPT !.answer = "none"]
  <2>1. /\ h \in HandleOf /\ h.base = handle[r].base /\ h.gone = handle[r].gone
        /\ h.flight = "none" /\ h.answer = "none" /\ h.replaced = handle[r].replaced
    BY <1>1 DEF HandleOf, Answer
  <2>2. handle' = [handle EXCEPT ![r] = h]
    BY <1>1, <1>7 DEF DepartureEnds
  <2>. HIDE DEF h
  <2>3. h.gone
    BY <1>7, <2>1 DEF VisitsInv, OneHandle
  <2>4. CallsKeep
    BY <1>7, DepartureCalls
  <2>6. h.flight \in {"none", "settles", "settled"} /\ h.flight \in {"none", "settles"}
        /\ handle[r].flight # "done"
    BY <1>7, <2>1
  <2>. QED BY <1>2, <1>7, <2>1, <2>2, <2>3, <2>4, <2>6, HandleMoves
<1>8. \/ /\ handle[r].flight = "settled" /\ Asks("left", r, <<"handle", r>>)
         /\ handle' = [handle EXCEPT ![r] = Asking(@)] /\ UNCHANGED <<call, arriving, visits>>
      \/ ~Present(Known) /\ DepartureEnds(r, "done") /\ LetGo(r) /\ UNCHANGED queue
      \/ /\ handle[r].flight = "asked" /\ handle[r].answer \in {"entry", "nothing"}
         /\ DepartureEnds(r, "done") /\ LetGo(r) /\ UNCHANGED queue
      \/ /\ handle[r].flight = "asked" /\ handle[r].answer = "error"
         /\ DepartureEnds(r, "none") /\ UNCHANGED <<queue, visits>>
  <2>1. CASE Leaves(r)
    BY <1>3, <2>1 DEF Leaves
  <2>2. CASE Left(r)
    <3>1. handle[r].answer \in Answer
      BY <1>1 DEF HandleOf
    <3>. QED BY <2>2, <3>1 DEF Left, Failed, Answer
  <2>. QED BY <2>1, <2>2
<1>. QED BY <1>4, <1>5, <1>6, <1>7, <1>8

\* The shutdown of a room that makes no handle any more.
LEMMA StoppingKeeps ==
    ASSUME VisitsInv, CallerTypes', Stopping
    PROVE  VisitsInv'
<1>1. UNCHANGED <<phase, stored, heard, arriving, call, spare>>
  BY DEF Stopping, Journal
<1>2. stop.pc \in {"revokes", "settles", "settled", "leaves"} /\ phase # "running"
      /\ stop \in StopOf /\ handle \in Seq(HandleOf) /\ \A r \in DOMAIN handle : handle[r] \in HandleOf
  BY DEF Stopping, VisitsInv, Told, CallerTypes
<1>3. /\ visits' = visits \/ visits' = 0
      /\ Len(handle') = Len(handle) /\ DOMAIN handle' = DOMAIN handle
      /\ \A r \in DOMAIN handle :
            /\ handle'[r].base = handle[r].base /\ handle'[r].flight = handle[r].flight
            /\ handle'[r].answer = handle[r].answer /\ (handle[r].gone => handle'[r].gone)
            /\ handle'[r].replaced = handle[r].replaced
  <2>1. CASE UNCHANGED <<visits, handle>>
    BY <2>1
  <2>2. CASE /\ LetGo(stop.holds)
             /\ handle' = [r \in DOMAIN handle |-> [handle[r] EXCEPT !.gone = @ \/ r = stop.holds]]
    <3>1. visits' = visits \/ visits' = 0
      BY <2>2 DEF LetGo
    <3>2. Len(handle') = Len(handle) /\ DOMAIN handle' = DOMAIN handle
      BY <1>2, <2>2
    <3>. QED BY <1>2, <2>2, <3>1, <3>2 DEF HandleOf
  <2>. QED BY <2>1, <2>2 DEF Stopping
<1>4. Calm
  BY <1>1, <1>2, <1>3 DEF VisitsInv, OneHandle, Superseded, Calm
<1>5. Alternates' /\ OneHandle' /\ Based' /\ Held' /\ (Open' <=> Open)
  BY <1>1, <1>4, CalmKeeps DEF At
<1>6. Told'
  <2>1. \A q \in DOMAIN handle' :
          handle'[q].flight = "asked" /\ handle'[q].answer \in {"entry", "nothing"} =>
                ~Present(stored') /\ heard' = Len(stored')
    <3>1. \A q \in DOMAIN handle :
            handle[q].flight = "asked" /\ handle[q].answer \in {"entry", "nothing"} =>
                ~Present(stored) /\ heard = Len(stored)
      BY DEF VisitsInv, Told
    <3>. QED BY <1>1, <1>3, <3>1
  <2>. QED BY <1>1, <1>2, <2>1 DEF VisitsInv, Told, At
<1>7. CASE queue' = queue
  <2>1. stop'.pc \in {"settled", "leaves"} => stop.pc \in {"settled", "leaves"} \/ queue = <<>>
    BY <1>2, <1>7 DEF Stopping, StopEnds, StopOf, Settled, Asks, VisitsInv, CallerTypes
  <2>2. \A q \in DOMAIN handle : HandleAsks(q) => HandleAsks(q)'
    BY <1>3 DEF HandleAsks
  <2>3. Open => Len(handle) \in DOMAIN handle
    BY <1>2 DEF Open
  <2>4. Patient
    BY <1>1, <1>3, <2>1, <2>2, <2>3 DEF Patient, CallAsks, At
  <2>5. Requests'
    BY <1>4, <1>7, <2>4, PatientKeeps
  <2>. QED BY <1>5, <1>6, <2>5 DEF VisitsInv
<1>8. CASE stop.pc = "settled" /\ Asks("left", 0, <<"stop">>) /\ handle' = handle
  <2>. DEFINE e == Request("left", 0, <<"stop">>)
  <2>1. e.kind = "left" /\ e.key = 0 /\ e.by = <<"stop">> /\ queue' = Append(queue, e)
        /\ queue \in Seq(Asked) /\ e.by[1] = "stop"
    BY <1>8 DEF Request, Asks, VisitsInv, CallerTypes
  <2>. HIDE DEF e
  <2>2. /\ DOMAIN queue' = DOMAIN queue \cup {Len(queue) + 1} /\ queue'[Len(queue) + 1] = e
        /\ \A i \in DOMAIN queue : queue'[i] = queue[i]
    BY <2>1
  <2>3. ~Queued("arrived") /\ ~Queued("arrived")'
    BY <1>8, <2>1, <2>2 DEF VisitsInv, Requests, Queued
  <2>4. ASSUME NEW i \in DOMAIN queue', queue'[i].kind = "left"
        PROVE  \/ queue'[i].key = 0 /\ queue'[i].by = <<"stop">> /\ phase' # "running"
                  /\ ~Queued("arrived")'
               \/ \E q \in DOMAIN handle' :
                     queue'[i].key = q /\ queue'[i].by = <<"handle", q>> /\ HandleAsks(q)'
    BY <1>1, <1>2, <1>8, <2>1, <2>2, <2>3, <2>4 DEF VisitsInv, Requests, HandleAsks
  <2>5. ASSUME NEW i \in DOMAIN queue'
        PROVE  /\ queue'[i].kind \notin {"left", "arrived"} => queue'[i].by[1] \notin {"call", "handle"}
               /\ queue'[i].by[1] \in {"call", "handle"} =>
                     \A j \in DOMAIN queue' : queue'[j].by = queue'[i].by => j = i
    BY <2>1, <2>2 DEF VisitsInv, Requests
  <2>6. Requests'
    BY <2>3, <2>4, <2>5 DEF Requests, HandleAsks, Queued
  <2>. QED BY <1>5, <1>6, <2>6 DEF VisitsInv
<1>. QED BY <1>7, <1>8 DEF Stopping

\* Who waits for the request at the head of the queue.
Asker(q) ==
    /\ q \in Asked /\ Queued(q.kind)
    /\ q.kind = "arrived" => \E v \in Call : q.key = 0 /\ q.by = <<"call", v>> /\ CallAsks(v)
    /\ q.kind = "left" =>
          /\ ~Queued("arrived")
          /\ \/ q.key = 0 /\ q.by = <<"stop">> /\ phase # "running"
             \/ /\ q.key = Len(handle) /\ q.by = <<"handle", q.key>> /\ q.key \in DOMAIN handle
                /\ HandleAsks(q.key) /\ Open
    /\ q.kind \notin {"left", "arrived"} => q.by[1] \notin {"call", "handle"}

\* The first of the queue is waited for by the caller that asked it.
LEMMA HeadAsks ==
    ASSUME VisitsInv, queue # <<>>
    PROVE  Asker(Head(queue))
<1>. DEFINE q == Head(queue)
<1>1. queue \in Seq(Asked) /\ 1 \in DOMAIN queue /\ q = queue[1] /\ q \in Asked
  BY DEF VisitsInv, CallerTypes
<1>2. Queued(q.kind)
  BY <1>1 DEF Queued
<1>3. q.kind = "arrived" => \E v \in Call : q.key = 0 /\ q.by = <<"call", v>> /\ CallAsks(v)
  BY <1>1 DEF VisitsInv, Requests, CallAsks
<1>4. q.kind \notin {"left", "arrived"} => q.by[1] \notin {"call", "handle"}
  BY <1>1 DEF VisitsInv, Requests
<1>5. q.kind = "left" =>
          \/ q.key = 0 /\ q.by = <<"stop">> /\ phase # "running" /\ ~Queued("arrived")
          \/ \E r \in DOMAIN handle : q.key = r /\ q.by = <<"handle", r>> /\ HandleAsks(r)
  BY <1>1 DEF VisitsInv, Requests, HandleAsks
<1>6. ASSUME NEW r \in DOMAIN handle, HandleAsks(r)
      PROVE  r = Len(handle) /\ Open /\ ~Queued("arrived")
  <2>1. r \in 1..Len(handle) /\ Len(handle) \in Nat
    BY DEF VisitsInv, CallerTypes
  <2>2. r < Len(handle) => handle[r].flight # "asked"
    BY DEF VisitsInv, OneHandle, Superseded
  <2>3. r = Len(handle) /\ Open
    BY <1>6, <2>1, <2>2 DEF HandleAsks, Open
  <2>4. ~Queued("arrived")
    BY <1>6, <2>3 DEF HandleAsks, VisitsInv, Requests
  <2>. QED BY <2>3, <2>4
<1>. HIDE DEF q
<1>7. q.kind = "left" =>
          /\ ~Queued("arrived")
          /\ \/ q.key = 0 /\ q.by = <<"stop">> /\ phase # "running"
             \/ /\ q.key = Len(handle) /\ q.by = <<"handle", q.key>> /\ q.key \in DOMAIN handle
                /\ HandleAsks(q.key) /\ Open
  BY <1>5, <1>6
<1>8. Asker(q)
  BY <1>1, <1>2, <1>3, <1>4, <1>7 DEF Asker
<1>. QED BY <1>8 DEF q

\* The head of the queue is answered, and nobody else.
HeadTold(q, answer) ==
    /\ UNCHANGED <<phase, arriving, visits>> /\ stop'.pc = stop.pc
    /\ Len(handle') = Len(handle) /\ DOMAIN handle' = DOMAIN handle
    /\ \A r \in DOMAIN handle :
          /\ handle'[r].base = handle[r].base /\ handle'[r].flight = handle[r].flight
          /\ handle'[r].gone = handle[r].gone /\ handle'[r].replaced = handle[r].replaced
          /\ handle'[r].answer = IF q.by = <<"handle", r>> THEN answer ELSE handle[r].answer
    /\ \A v \in Call :
          /\ call'[v].pc = call[v].pc
          /\ call'[v].answer = IF q.by = <<"call", v>> THEN answer ELSE call[v].answer

\* An answer goes to the call that asked, and to no other.
LEMMA LandsTells ==
    ASSUME VisitsInv, NEW q, Asker(q), NEW answer, Outcome(q, answer)
    PROVE  HeadTold(q, answer)
<1>1. /\ \A v \in Call : call[v] \in CallOf
      /\ call \in [Call -> CallOf] /\ handle \in Seq(HandleOf) /\ stop \in StopOf
      /\ \A r \in DOMAIN handle : handle[r] \in HandleOf
  BY DEF VisitsInv, CallerTypes
<1>2. Answered(q, answer) /\ UNCHANGED <<phase, arriving, visits>>
  BY DEF Outcome
<1>3. \/ \E v \in Call : q.by = <<"call", v>>
      \/ \E r \in DOMAIN handle : q.by = <<"handle", r>>
      \/ q.by[1] \notin {"call", "handle"}
  <2>1. q.kind = "arrived" => \E v \in Call : q.by = <<"call", v>>
    BY DEF Asker
  <2>2. q.kind = "left" => q.by = <<"stop">> \/ \E r \in DOMAIN handle : q.by = <<"handle", r>>
    BY DEF Asker
  <2>3. q.kind \notin {"left", "arrived"} => q.by[1] \notin {"call", "handle"}
    BY DEF Asker
  <2>. QED BY <2>1, <2>2, <2>3
<1>4. stop'.pc = stop.pc
  BY <1>1, <1>2 DEF Answered, StopOf
<1>5. CASE \E v \in Call : q.by = <<"call", v>>
  <2>1. PICK v \in Call : q.by = <<"call", v>>
    BY <1>5
  <2>2. q.by[1] = "call" /\ q.by[2] = v /\ \A r \in DOMAIN handle : q.by # <<"handle", r>>
    BY <2>1
  <2>3. handle' = handle /\ call' = [call EXCEPT ![v].answer = answer]
    BY <1>2, <2>2 DEF Answered
  <2>4. \A w \in Call : q.by = <<"call", w>> <=> w = v
    BY <2>1
  <2>5. \A w \in Call : /\ call'[w].pc = call[w].pc
                        /\ call'[w].answer = IF w = v THEN answer ELSE call[w].answer
    BY <1>1, <2>3 DEF CallOf
  <2>. QED BY <1>2, <1>4, <2>2, <2>3, <2>4, <2>5 DEF HeadTold
<1>6. CASE \E r \in DOMAIN handle : q.by = <<"handle", r>>
  <2>1. PICK r \in DOMAIN handle : q.by = <<"handle", r>>
    BY <1>6
  <2>2. q.by[1] = "handle" /\ q.by[2] = r /\ \A v \in Call : q.by # <<"call", v>>
    BY <2>1
  <2>3. call' = call /\ handle' = [handle EXCEPT ![r].answer = answer]
    BY <1>2, <2>2 DEF Answered
  <2>4. \A p \in DOMAIN handle : q.by = <<"handle", p>> <=> p = r
    BY <2>1
  <2>5. \A p \in DOMAIN handle :
          /\ handle'[p].base = handle[p].base /\ handle'[p].flight = handle[p].flight
          /\ handle'[p].gone = handle[p].gone /\ handle'[p].replaced = handle[p].replaced
          /\ handle'[p].answer = IF p = r THEN answer ELSE handle[p].answer
    BY <1>1, <2>3 DEF HandleOf
  <2>6. Len(handle') = Len(handle) /\ DOMAIN handle' = DOMAIN handle
    BY <1>1, <2>3
  <2>. QED BY <1>2, <1>4, <2>2, <2>3, <2>4, <2>5, <2>6 DEF HeadTold
<1>7. CASE q.by[1] \notin {"call", "handle"}
  <2>1. /\ \A v \in Call : q.by # <<"call", v>>
        /\ \A r \in DOMAIN handle : q.by # <<"handle", r>>
    BY <1>7
  <2>2. call' = call /\ handle' = handle
    BY <1>2, <1>7 DEF Answered
  <2>. QED BY <1>2, <1>4, <2>1, <2>2 DEF HeadTold
<1>. QED BY <1>3, <1>5, <1>6, <1>7

\* What the entry says of the person, if one is written.
Writes(q) ==
    /\ Visit(stored) \in Nat /\ Visit(stored') \in Nat
    /\ stored' # stored =>
          /\ q.kind = "arrived" => ~Present(stored) /\ Present(stored') /\ Visit(stored') = Visit(stored) + 1
          /\ q.kind = "left" => Present(stored) /\ ~Present(stored')
          /\ q.kind # "arrived" => Visit(stored') = Visit(stored)
          /\ q.kind \notin {"arrived", "left"} => (Present(stored') <=> Present(stored))
          /\ Len(stored') = Len(stored) + 1 /\ stored'[Len(stored')].kind = q.kind
          /\ stored'[Len(stored')].key = q.key
          /\ SubSeq(stored', 1, Len(stored)) = stored
          /\ \A i \in DOMAIN stored : stored'[i] = stored[i] /\ SubSeq(stored', 1, i) = SubSeq(stored, 1, i)
          /\ heard' \in {Len(stored), Len(stored) + 1}

\* A request that lands writes its own entry or none.
LEMMA LandsWrites ==
    ASSUME VisitsInv, NEW q, NEW answer, Outcome(q, answer)
    PROVE  Writes(q)
<1>. DEFINE e == [kind |-> q.kind, key |-> q.key]
<1>1. e \in EntryOf /\ stored \in Seq(EntryOf) /\ e.kind = q.kind /\ e.key = q.key
  BY DEF Outcome, Asked, EntryOf, VisitsInv, CallerTypes
<1>2. \/ stored' = stored
      \/ stored' = Append(stored, e) /\ Proposes(q) /\ heard' \in {Len(stored), Len(stored')}
  BY DEF Outcome
<1>. HIDE DEF e
<1>3. Visit(stored) \in Nat
  BY <1>1, PresentAppend
<1>4. CASE stored' = stored
  BY <1>3, <1>4 DEF Writes
<1>5. CASE stored' = Append(stored, e) /\ Proposes(q) /\ heard' \in {Len(stored), Len(stored')}
  <2>1. /\ Len(stored') = Len(stored) + 1 /\ stored'[Len(stored')] = e
        /\ Len(stored) \in Nat /\ DOMAIN stored = 1..Len(stored)
        /\ \A i \in DOMAIN stored : stored'[i] = stored[i]
    BY <1>1, <1>5
  <2>2. SubSeq(stored', 1, Len(stored)) = stored
    BY <1>1, <1>5
  <2>3. \A i \in DOMAIN stored : SubSeq(stored', 1, i) = SubSeq(stored, 1, i)
    BY <1>1, <1>5
  <2>4. /\ q.kind = "arrived" => ~Present(stored)
        /\ q.kind = "left" => Present(stored)
    BY <1>5 DEF Proposes
  <2>5. /\ q.kind = "arrived" => Present(stored') /\ Visit(stored') = Visit(stored) + 1
        /\ q.kind = "left" => ~Present(stored')
        /\ q.kind # "arrived" => Visit(stored') = Visit(stored)
        /\ q.kind \notin {"arrived", "left"} => (Present(stored') <=> Present(stored))
    BY <1>1, <1>5, PresentAppend
  <2>6. Visit(stored') \in Nat
    BY <1>3, <2>5
  <2>7. heard' \in {Len(stored), Len(stored) + 1}
    BY <1>5, <2>1
  <2>8. stored'[Len(stored')].kind = q.kind /\ stored'[Len(stored')].key = q.key
    BY <1>1, <2>1
  <2>9. Len(stored') = Len(stored) + 1
    BY <2>1
  <2>10. \A i \in DOMAIN stored : stored'[i] = stored[i] /\ SubSeq(stored', 1, i) = SubSeq(stored, 1, i)
    BY <2>1, <2>3
  <2>. QED BY <1>3, <2>2, <2>4, <2>5, <2>6, <2>7, <2>8, <2>9, <2>10, Zenon DEF Writes
<1>. QED BY <1>2, <1>4, <1>5

\* The head of the queue landed or failed.
Landed(q, answer) ==
    /\ queue # <<>> /\ q = Head(queue) /\ AllTold
    /\ Asker(q) /\ Outcome(q, answer) /\ HeadTold(q, answer) /\ Writes(q)

\* The handles and the record, as the lemmas below use them.
LEMMA HandlesAre ==
    ASSUME VisitsInv
    PROVE  /\ DOMAIN handle = 1..Len(handle) /\ Len(handle) \in Nat
           /\ \A r \in DOMAIN handle : handle[r].base \in Nat
           /\ stored \in Seq(EntryOf) /\ heard \in 0..Len(stored) /\ Len(stored) \in Nat
           /\ visits \in {0, Len(handle)}
<1>1. handle \in Seq(HandleOf) /\ \A r \in DOMAIN handle : handle[r] \in HandleOf
  BY DEF VisitsInv, CallerTypes
<1>2. \A r \in DOMAIN handle : handle[r].base \in Nat
  BY <1>1 DEF HandleOf
<1>3. stored \in Seq(EntryOf) /\ heard \in 0..Len(stored) /\ visits \in {0, Len(handle)}
  BY DEF VisitsInv, CallerTypes, OneHandle
<1>. QED BY <1>1, <1>2, <1>3

\* While the latest handle has not departed, no arrival is written; a landed request does not change that.
LEMMA LandedOpen ==
    ASSUME VisitsInv, CallerTypes', NEW q, NEW answer, Landed(q, answer)
    PROVE  /\ Open' <=> Open
           /\ Open /\ stored' # stored => q.kind # "arrived"
           /\ Open => Len(handle) \in DOMAIN handle
           /\ stored' = stored => Known' = Known \/ heard' = Len(stored)
<1>1. DOMAIN handle = 1..Len(handle) /\ Len(handle) \in Nat /\ stored \in Seq(EntryOf)
  BY DEF VisitsInv, CallerTypes
<1>2. Open => Len(handle) \in DOMAIN handle
  BY <1>1 DEF Open
<1>3. Open' <=> Open
  BY <1>2 DEF Landed, HeadTold, Open
<1>4. Open /\ stored' # stored => q.kind # "arrived"
  <2>1. Queued("arrived") /\ Open => Present(stored)
    BY DEF VisitsInv, Requests
  <2>. QED BY <2>1 DEF Landed, Asker, Writes
<1>5. stored' = stored => Known' = Known \/ heard' = Len(stored)
  BY DEF Landed, Outcome, Known
<1>. QED BY <1>2, <1>3, <1>4, <1>5

\* A landed request keeps arrivals and departures in turn.
LEMMA LandsAlternates ==
    ASSUME VisitsInv, CallerTypes', NEW q, NEW answer, Landed(q, answer)
    PROVE  Alternates'
<1>1. stored \in Seq(EntryOf) /\ heard \in 0..Len(stored) /\ Len(stored) \in Nat /\ Len(stored) - 1 <= heard
  BY DEF VisitsInv, CallerTypes, Alternates
<1>2. CASE stored' = stored
  <2>1. heard' = heard \/ heard' = Len(stored)
    BY <1>2 DEF Landed, Outcome
  <2>2. CASE heard' = heard
    BY <1>2, <2>2 DEF VisitsInv, Alternates, Unheard, Known
  <2>3. CASE heard' = Len(stored)
    BY <1>1, <1>2, <2>3 DEF Alternates, Unheard
  <2>. QED BY <2>1, <2>2, <2>3
<1>3. CASE stored' # stored
  <2>1. /\ Len(stored') = Len(stored) + 1 /\ heard' \in {Len(stored), Len(stored) + 1}
        /\ stored'[Len(stored')].kind = q.kind /\ SubSeq(stored', 1, Len(stored)) = stored
        /\ q.kind = "arrived" => ~Present(stored)
        /\ q.kind = "left" => Present(stored)
    BY <1>3 DEF Landed, Writes
  <2>2. heard' = Len(stored) => Known' = stored
    BY <2>1 DEF Known
  <2>. QED BY <1>1, <2>1, <2>2 DEF Alternates, Unheard
<1>. QED BY <1>2, <1>3

\* A landed request leaves only the latest handle able to depart.
LEMMA LandsHandle ==
    ASSUME VisitsInv, CallerTypes', NEW q, NEW answer, Landed(q, answer)
    PROVE  OneHandle'
<1>1. Visit(stored) \in Nat /\ Visit(stored') \in Nat /\ Visit(stored) <= Visit(stored')
  BY DEF Landed, Writes
<1>2. \A r \in DOMAIN handle : q.by = <<"handle", r>> => handle[r].flight = "asked"
  <2>1. q.kind = "arrived" => \A r \in DOMAIN handle : q.by # <<"handle", r>>
    BY DEF Landed, Asker
  <2>2. q.kind \notin {"left", "arrived"} => \A r \in DOMAIN handle : q.by # <<"handle", r>>
    BY DEF Landed, Asker
  <2>3. q.kind = "left" => \A r \in DOMAIN handle : q.by = <<"handle", r>> => HandleAsks(r)
    BY DEF Landed, Asker
  <2>. QED BY <2>1, <2>2, <2>3 DEF HandleAsks
<1>3. ASSUME NEW r \in DOMAIN handle'
      PROVE  /\ r < Len(handle') => handle'[r].flight = "done" \/ handle'[r].replaced = "yes"
             /\ handle'[r].replaced # "no" => Superseded(r)'
             /\ handle'[r].flight # "none" => handle'[r].gone
             /\ handle'[r].answer # "none" => handle'[r].flight = "asked"
             /\ handle'[r].base <= Visit(stored')
  <2>1. /\ r \in DOMAIN handle /\ Len(handle') = Len(handle)
        /\ handle'[r].base = handle[r].base /\ handle'[r].flight = handle[r].flight
        /\ handle'[r].gone = handle[r].gone /\ handle'[r].replaced = handle[r].replaced
        /\ handle'[r].answer = IF q.by = <<"handle", r>> THEN answer ELSE handle[r].answer
    BY DEF Landed, HeadTold
  <2>2. /\ r < Len(handle) => handle[r].flight = "done" \/ handle[r].replaced = "yes"
        /\ handle[r].replaced # "no" => Superseded(r)
        /\ handle[r].flight # "none" => handle[r].gone
        /\ handle[r].answer # "none" => handle[r].flight = "asked"
        /\ handle[r].base <= Visit(stored) /\ handle[r].base \in Nat
    <3>1. handle[r].base \in Nat
      BY <2>1, HandlesAre
    <3>. QED BY <2>1, <3>1 DEF VisitsInv, OneHandle
  <2>3. Superseded(r) => Superseded(r)'
    <3>1. r < Len(handle) => r + 1 \in DOMAIN handle
      BY <2>1, HandlesAre
    <3>2. r < Len(handle) => handle'[r + 1].base = handle[r + 1].base
      BY <3>1 DEF Landed, HeadTold
    <3>. QED BY <2>1, <3>2 DEF Superseded
  <2>. QED BY <1>1, <1>2, <2>1, <2>2, <2>3
<1>4. visits' = visits /\ phase' = phase /\ Len(handle') = Len(handle) /\ (Open' <=> Open)
  BY LandedOpen DEF Landed, HeadTold
<1>. QED BY <1>3, <1>4 DEF VisitsInv, OneHandle

\* A landed request keeps each handle on the visit it is for.
LEMMA LandsBased ==
    ASSUME VisitsInv, CallerTypes', NEW q, NEW answer, Landed(q, answer)
    PROVE  Based'
<1>1. /\ stored \in Seq(EntryOf) /\ heard \in 0..Len(stored) /\ Len(stored) \in Nat
      /\ Len(handle') = Len(handle) /\ DOMAIN handle' = DOMAIN handle
      /\ \A r \in DOMAIN handle : /\ handle'[r].base = handle[r].base /\ handle[r].base \in Nat
                                  /\ handle'[r].flight = handle[r].flight
                                  /\ handle'[r].replaced = handle[r].replaced
                                  /\ handle[r].base <= Visit(stored)
  <2>1. \A r \in DOMAIN handle : handle[r].base <= Visit(stored)
    BY DEF VisitsInv, OneHandle
  <2>. QED BY <2>1, HandlesAre DEF Landed, HeadTold
<1>2. /\ Open' <=> Open
      /\ Open /\ stored' # stored => q.kind # "arrived"
      /\ Open => Len(handle) \in DOMAIN handle
  BY LandedOpen
<1>3. heard <= heard' /\ heard' \in {heard, Len(stored), Len(stored')}
  BY DEF Landed, Outcome
<1>4. CASE stored' = stored
  <2>1. Unheard("arrived")' => Unheard("arrived")
    BY <1>1, <1>3, <1>4 DEF Unheard
  <2>2. Open' => /\ ~Unheard("arrived")'
                 /\ Present(stored') => Visit(stored') = handle'[Len(handle')].base
                 /\ \A i \in Of(stored', "left") : stored'[i].key = Len(handle') => ~Present(stored')
    BY <1>1, <1>2, <1>4, <2>1 DEF VisitsInv, Based
  <2>3. \A r \in DOMAIN handle' :
          handle'[r].flight = "done" /\ handle'[r].replaced = "no" /\ Present(stored') =>
              Visit(stored') # handle'[r].base
    BY <1>1, <1>4 DEF VisitsInv, Based
  <2>4. \A i \in Of(stored', "left") : stored'[i].key # 0 =>
          /\ stored'[i].key \in DOMAIN handle'
          /\ Visit(SubSeq(stored', 1, i)) = handle'[stored'[i].key].base
    BY <1>1, <1>4 DEF VisitsInv, Based
  <2>. QED BY <2>2, <2>3, <2>4 DEF Based
<1>5. CASE stored' # stored
  <2>1. /\ Visit(stored) \in Nat /\ Visit(stored') \in Nat
        /\ q.kind = "arrived" => ~Present(stored) /\ Present(stored') /\ Visit(stored') = Visit(stored) + 1
        /\ q.kind = "left" => Present(stored) /\ ~Present(stored')
        /\ q.kind # "arrived" => Visit(stored') = Visit(stored)
        /\ q.kind \notin {"arrived", "left"} => (Present(stored') <=> Present(stored))
        /\ Len(stored') = Len(stored) + 1 /\ stored'[Len(stored')].kind = q.kind
        /\ stored'[Len(stored')].key = q.key
        /\ \A i \in DOMAIN stored : stored'[i] = stored[i] /\ SubSeq(stored', 1, i) = SubSeq(stored, 1, i)
    BY <1>5 DEF Landed, Writes
  <2>2. stored' \in Seq(EntryOf)
    BY DEF CallerTypes
  <2>3. \A i \in Of(stored', "left") :
           i \in Of(stored, "left") \/ (i = Len(stored') /\ q.kind = "left")
    BY <1>1, <2>1, <2>2 DEF Of
  <2>4. Open => /\ Present(stored) => Visit(stored) = handle[Len(handle)].base
                /\ \A i \in Of(stored, "left") : stored[i].key = Len(handle) => ~Present(stored)
    BY DEF VisitsInv, Based
  <2>5. Open' => /\ ~Unheard("arrived")'
                 /\ Present(stored') => Visit(stored') = handle'[Len(handle')].base
    BY <1>1, <1>2, <1>5, <2>1, <2>4 DEF Unheard
  <2>6. ASSUME Open', NEW i \in Of(stored', "left"), stored'[i].key = Len(handle')
        PROVE  ~Present(stored')
    <3>1. CASE q.kind = "left"
      BY <2>1, <3>1
    <3>2. CASE q.kind # "left"
      <4>1. i \in Of(stored, "left") /\ i \in DOMAIN stored
        BY <2>3, <2>6, <3>2 DEF Of
      <4>2. stored[i].key = Len(handle)
        BY <1>1, <2>1, <2>6, <4>1
      <4>3. ~Present(stored)
        BY <1>2, <2>4, <2>6, <4>1, <4>2
      <4>. QED BY <1>2, <1>5, <2>1, <2>6, <3>2, <4>3
    <3>. QED BY <3>1, <3>2
  <2>7. ASSUME NEW r \in DOMAIN handle', handle'[r].flight = "done", handle'[r].replaced = "no",
               Present(stored')
        PROVE  Visit(stored') # handle'[r].base
    <3>1. CASE q.kind = "arrived"
      BY <1>1, <2>1, <3>1
    <3>2. CASE q.kind # "arrived"
      <4>1. Present(stored) /\ Visit(stored') = Visit(stored)
        BY <2>1, <2>7, <3>2
      <4>2. Visit(stored) # handle[r].base
        BY <1>1, <2>7, <4>1 DEF VisitsInv, Based
      <4>. QED BY <1>1, <4>1, <4>2
    <3>. QED BY <3>1, <3>2
  <2>8. ASSUME NEW i \in Of(stored', "left"), stored'[i].key # 0
        PROVE  /\ stored'[i].key \in DOMAIN handle'
               /\ Visit(SubSeq(stored', 1, i)) = handle'[stored'[i].key].base
    <3>1. CASE i \in Of(stored, "left")
      <4>1. i \in DOMAIN stored
        BY <3>1 DEF Of
      <4>2. stored[i].key \in DOMAIN handle /\ Visit(SubSeq(stored, 1, i)) = handle[stored[i].key].base
        BY <2>1, <2>8, <3>1, <4>1 DEF VisitsInv, Based
      <4>. QED BY <1>1, <2>1, <4>1, <4>2
    <3>2. CASE i = Len(stored') /\ q.kind = "left"
      <4>1. q.key = Len(handle) /\ q.key \in DOMAIN handle /\ Open
        BY <2>1, <2>8, <3>2 DEF Landed, Asker
      <4>2. Visit(stored') = handle[Len(handle)].base
        BY <2>1, <2>4, <3>2, <4>1
      <4>3. SubSeq(stored', 1, i) = stored'
        BY <2>2, <3>2
      <4>. QED BY <1>1, <2>1, <3>2, <4>1, <4>2, <4>3
    <3>. QED BY <2>3, <3>1, <3>2
  <2>. QED BY <2>5, <2>6, <2>7, <2>8 DEF Based
<1>. QED BY <1>4, <1>5

\* A landed request keeps the handle that takes messages that of a person who is present.
LEMMA LandsHeld ==
    ASSUME VisitsInv, CallerTypes', NEW q, NEW answer, Landed(q, answer)
    PROVE  Held'
<1>. SUFFICES ASSUME phase = "running"
              PROVE  /\ visits # 0 /\ ~handle'[visits].gone => Present(stored') /\ Present(Known')
                     /\ Unheard("left")' => visits # 0 /\ handle'[visits].gone
                     /\ \A v \in Call : At(v, "asked")' /\ call'[v].answer = "entry" =>
                           visits = 0 \/ handle'[visits].gone
  BY Zenon DEF Landed, HeadTold, Held
<1>1. /\ stored \in Seq(EntryOf) /\ heard \in 0..Len(stored) /\ Len(stored) \in Nat
      /\ visits \in {0, Len(handle)}
      /\ DOMAIN handle = 1..Len(handle) /\ Len(handle) \in Nat
      /\ stored' \in Seq(EntryOf)
  BY HandlesAre DEF CallerTypes
<1>2. visits # 0 => visits \in DOMAIN handle /\ (handle'[visits].gone <=> handle[visits].gone)
  <2>1. visits # 0 => visits \in DOMAIN handle
    BY HandlesAre
  <2>2. \A r \in DOMAIN handle : handle'[r].gone = handle[r].gone
    BY DEF Landed, HeadTold
  <2>. QED BY <2>1, <2>2
<1>3. heard <= heard' /\ heard' \in {heard, Len(stored), Len(stored')}
  BY DEF Landed, Outcome
<1>4. /\ visits # 0 /\ ~handle[visits].gone => Present(stored) /\ Present(Known)
      /\ Unheard("left") => visits # 0 /\ handle[visits].gone
  BY DEF VisitsInv, Held
<1>5. q.kind = "left" => visits # 0 /\ handle[visits].gone
  <2>1. q.kind = "left" => HandleAsks(Len(handle)) /\ Len(handle) \in DOMAIN handle /\ Open
    BY DEF Landed, Asker
  <2>2. q.kind = "left" => handle[Len(handle)].gone
    BY <2>1 DEF HandleAsks, VisitsInv, OneHandle
  <2>3. Open => visits # 0
    BY DEF VisitsInv, OneHandle
  <2>. QED BY <1>1, <2>1, <2>2, <2>3
<1>6. stored' # stored =>
          /\ q.kind = "arrived" => ~Present(stored) /\ Present(stored')
          /\ q.kind \notin {"arrived", "left"} => (Present(stored') <=> Present(stored))
          /\ Len(stored') = Len(stored) + 1 /\ stored'[Len(stored')].kind = q.kind
          /\ SubSeq(stored', 1, Len(stored)) = stored
          /\ heard' \in {Len(stored), Len(stored) + 1}
  BY DEF Landed, Writes
<1>7. Known' \in {Known, stored, stored'}
  <2>1. CASE stored' = stored
    <3>1. Known' = Known \/ heard' = Len(stored)
      BY <2>1, LandedOpen
    <3>2. heard' = Len(stored) => Known' = stored
      <4>1. SubSeq(stored, 1, Len(stored)) = stored
        BY <1>1, WholeRecord
      <4>. QED BY <2>1, <4>1 DEF Known
    <3>. QED BY <3>1, <3>2
  <2>2. CASE stored' # stored
    <3>1. heard' = Len(stored) => Known' = stored
      <4>1. SubSeq(stored', 1, Len(stored)) = stored
        BY <1>6, <2>2
      <4>. QED BY <4>1 DEF Known
    <3>2. heard' = Len(stored) + 1 => Known' = stored'
      <4>1. Len(stored') = Len(stored) + 1
        BY <1>6, <2>2
      <4>2. SubSeq(stored', 1, Len(stored')) = stored'
        BY <1>1, WholeRecord
      <4>. QED BY <4>1, <4>2 DEF Known
    <3>. QED BY <1>6, <2>2, <3>1, <3>2
  <2>. QED BY <2>1, <2>2
<1>8. visits # 0 /\ ~handle[visits].gone => Present(stored') /\ Present(Known')
  BY <1>4, <1>5, <1>6, <1>7
<1>9. Unheard("left")' => visits # 0 /\ handle[visits].gone
  <2>1. CASE stored' = stored
    BY <1>1, <1>3, <1>4, <2>1 DEF Unheard
  <2>2. CASE stored' # stored
    BY <1>5, <1>6, <2>2 DEF Unheard
  <2>. QED BY <2>1, <2>2
<1>10. ASSUME NEW v \in Call, At(v, "asked")', call'[v].answer = "entry"
       PROVE  visits = 0 \/ handle[visits].gone
  <2>1. q.by = <<"call", v>> /\ answer = "entry"
    BY <1>10 DEF Landed, HeadTold, AllTold
  <2>2. q.kind = "arrived" /\ q.key = 0
    BY <2>1 DEF Landed, Asker
  <2>3. stored' # stored
    BY <2>1, <2>2 DEF Landed, Outcome
  <2>. QED BY <1>4, <1>6, <2>2, <2>3
<1>. QED BY <1>2, <1>8, <1>9, <1>10

\* Everybody who waits for another request goes on waiting.
LEMMA OthersWait ==
    ASSUME VisitsInv, CallerTypes', NEW q, NEW answer, Landed(q, answer)
    PROVE  /\ \A r \in DOMAIN handle : HandleAsks(r) /\ q.by # <<"handle", r>> => HandleAsks(r)'
           /\ \A v \in Call : CallAsks(v) /\ q.by # <<"call", v>> => CallAsks(v)'
           /\ \A i \in DOMAIN queue' :
                 \/ queue'[i] = Doubt
                 \/ /\ i + 1 \in DOMAIN queue /\ queue'[i] = queue[i + 1]
                    /\ queue'[i].by[1] \in {"call", "handle"} => queue'[i].by # q.by
           /\ \A i \in DOMAIN queue', j \in DOMAIN queue' :
                 queue'[i].by[1] \in {"call", "handle"} /\ queue'[j].by = queue'[i].by => j = i
           /\ Queued("arrived")' => Queued("arrived")
<1>1. queue \in Seq(Asked) /\ queue # <<>> /\ q = queue[1] /\ 1 \in DOMAIN queue
  BY DEF VisitsInv, CallerTypes, Landed
<1>2. \A i \in DOMAIN queue, j \in DOMAIN queue :
         queue[i].by[1] \in {"call", "handle"} /\ queue[j].by = queue[i].by => j = i
  BY DEF VisitsInv, Requests
<1>3. Doubt.by[1] \notin {"call", "handle"} /\ Doubt.kind = "read"
  BY DEF Doubt, Request
<1>4. queue' \in {Tail(queue), Append(Tail(queue), Doubt)}
  BY DEF Landed, Outcome
<1>. HIDE DEF Doubt
<1>5. \A i \in DOMAIN queue' :
         \/ queue'[i] = Doubt
         \/ i + 1 \in DOMAIN queue /\ i \in 1..Len(queue) - 1 /\ queue'[i] = queue[i + 1]
  <2>1. /\ Tail(queue) \in Seq(Asked) /\ Len(Tail(queue)) = Len(queue) - 1
        /\ \A i \in 1..Len(queue) - 1 : Tail(queue)[i] = queue[i + 1] /\ i + 1 \in DOMAIN queue
    BY <1>1
  <2>2. CASE queue' = Tail(queue)
    BY <2>1, <2>2
  <2>3. CASE queue' = Append(Tail(queue), Doubt)
    BY <2>1, <2>3
  <2>. QED BY <1>4, <2>2, <2>3
<1>6. \A i \in DOMAIN queue' : queue'[i].by[1] \in {"call", "handle"} =>
         i \in Nat /\ i # 0 /\ i + 1 \in DOMAIN queue /\ queue'[i] = queue[i + 1]
  BY <1>3, <1>5
<1>7. ASSUME NEW i \in DOMAIN queue', queue'[i].by[1] \in {"call", "handle"}
      PROVE  queue'[i].by # q.by
  <2>1. i \in Nat /\ i # 0 /\ i + 1 \in DOMAIN queue /\ queue'[i] = queue[i + 1]
    BY <1>6, <1>7
  <2>2. i + 1 # 1
    BY <2>1
  <2>. QED BY <1>1, <1>2, <1>7, <2>1, <2>2
<1>8. ASSUME NEW i \in DOMAIN queue', NEW j \in DOMAIN queue',
             queue'[i].by[1] \in {"call", "handle"}, queue'[j].by = queue'[i].by
      PROVE  j = i
  <2>1. /\ i \in Nat /\ i + 1 \in DOMAIN queue /\ queue'[i] = queue[i + 1]
        /\ j \in Nat /\ j + 1 \in DOMAIN queue /\ queue'[j] = queue[j + 1]
    BY <1>6, <1>8
  <2>2. j + 1 = i + 1
    BY <1>2, <1>8, <2>1
  <2>. QED BY <2>1, <2>2
<1>9. Queued("arrived")' => Queued("arrived")
  BY <1>3, <1>5 DEF Queued
<1>10. /\ \A r \in DOMAIN handle : HandleAsks(r) /\ q.by # <<"handle", r>> => HandleAsks(r)'
       /\ \A v \in Call : CallAsks(v) /\ q.by # <<"call", v>> => CallAsks(v)'
  BY DEF Landed, HeadTold, HandleAsks, CallAsks, At
<1>. QED BY <1>5, <1>7, <1>8, <1>9, <1>10

\* A landed request keeps each request that of one caller who waits for it.
LEMMA LandsRequests ==
    ASSUME VisitsInv, CallerTypes', NEW q, NEW answer, Landed(q, answer)
    PROVE  Requests'
<1>1. Doubt.by[1] \notin {"call", "handle"} /\ Doubt.kind = "read"
  BY DEF Doubt, Request
<1>2. DOMAIN handle' = DOMAIN handle /\ Len(handle') = Len(handle) /\ phase' = phase /\ stop'.pc = stop.pc
  BY DEF Landed, HeadTold
<1>3. \A i \in DOMAIN queue' :
         \/ queue'[i] = Doubt
         \/ /\ i + 1 \in DOMAIN queue /\ queue'[i] = queue[i + 1]
            /\ queue'[i].by[1] \in {"call", "handle"} => queue'[i].by # q.by
  BY OthersWait
<1>4. ASSUME NEW i \in DOMAIN queue', queue'[i].kind = "left"
      PROVE  \/ queue'[i].key = 0 /\ queue'[i].by = <<"stop">> /\ phase' # "running"
                /\ ~Queued("arrived")'
             \/ \E r \in DOMAIN handle' :
                   queue'[i].key = r /\ queue'[i].by = <<"handle", r>> /\ HandleAsks(r)'
  <2>1. /\ i + 1 \in DOMAIN queue /\ queue'[i] = queue[i + 1]
        /\ queue'[i].by[1] \in {"call", "handle"} => queue'[i].by # q.by
    BY <1>1, <1>3, <1>4
  <2>2. \/ queue'[i].key = 0 /\ queue'[i].by = <<"stop">> /\ phase # "running" /\ ~Queued("arrived")
        \/ \E r \in DOMAIN handle :
              queue'[i].key = r /\ queue'[i].by = <<"handle", r>> /\ HandleAsks(r)
    BY <1>4, <2>1 DEF VisitsInv, Requests, HandleAsks
  <2>3. \A r \in DOMAIN handle : queue'[i].by = <<"handle", r>> => q.by # <<"handle", r>>
    BY <2>1
  <2>4. /\ \A r \in DOMAIN handle : HandleAsks(r) /\ q.by # <<"handle", r>> => HandleAsks(r)'
        /\ Queued("arrived")' => Queued("arrived")
    BY OthersWait
  <2>. QED BY <1>2, <2>2, <2>3, <2>4
<1>5. ASSUME NEW i \in DOMAIN queue', queue'[i].kind = "arrived"
      PROVE  \E v \in Call : queue'[i].key = 0 /\ queue'[i].by = <<"call", v>> /\ CallAsks(v)'
  <2>1. /\ i + 1 \in DOMAIN queue /\ queue'[i] = queue[i + 1]
        /\ queue'[i].by[1] \in {"call", "handle"} => queue'[i].by # q.by
    BY <1>1, <1>3, <1>5
  <2>2. \E v \in Call : queue'[i].key = 0 /\ queue'[i].by = <<"call", v>> /\ CallAsks(v)
    BY <1>5, <2>1 DEF VisitsInv, Requests, CallAsks
  <2>3. \A v \in Call : queue'[i].by = <<"call", v>> => q.by # <<"call", v>>
    BY <2>1
  <2>4. \A v \in Call : CallAsks(v) /\ q.by # <<"call", v>> => CallAsks(v)'
    BY OthersWait
  <2>. QED BY <2>2, <2>3, <2>4
<1>6. ASSUME NEW i \in DOMAIN queue'
      PROVE  /\ queue'[i].kind \notin {"left", "arrived"} => queue'[i].by[1] \notin {"call", "handle"}
             /\ queue'[i].by[1] \in {"call", "handle"} =>
                   \A j \in DOMAIN queue' : queue'[j].by = queue'[i].by => j = i
  <2>1. \A k \in DOMAIN queue : queue[k].kind \notin {"left", "arrived"} =>
                                   queue[k].by[1] \notin {"call", "handle"}
    BY DEF VisitsInv, Requests
  <2>2. queue'[i].kind \notin {"left", "arrived"} => queue'[i].by[1] \notin {"call", "handle"}
    BY <1>1, <1>3, <2>1
  <2>3. \A j \in DOMAIN queue' :
           queue'[i].by[1] \in {"call", "handle"} /\ queue'[j].by = queue'[i].by => j = i
    BY OthersWait
  <2>. QED BY <2>2, <2>3
<1>7. ASSUME Queued("arrived")', Open'
      PROVE  handle'[Len(handle')].flight \in {"none", "settles"} /\ Present(stored')
  <2>1. Queued("arrived") /\ Open /\ Len(handle) \in DOMAIN handle
    BY <1>7, OthersWait, LandedOpen
  <2>2. handle[Len(handle)].flight \in {"none", "settles"} /\ Present(stored)
    BY <2>1 DEF VisitsInv, Requests
  <2>3. handle'[Len(handle)].flight = handle[Len(handle)].flight
    BY <2>1 DEF Landed, HeadTold
  <2>4. q.kind # "left"
    BY <2>1 DEF Landed, Asker
  <2>5. Present(stored')
    BY <2>2, <2>4 DEF Landed, Writes
  <2>. QED BY <1>2, <2>2, <2>3, <2>5
<1>8. stop'.pc \in {"settled", "leaves"} => ~Queued("arrived")'
  BY <1>2, OthersWait DEF VisitsInv, Requests
<1>. QED BY <1>4, <1>5, <1>6, <1>7, <1>8 DEF Requests, HandleAsks, CallAsks

\* A landed request keeps what callers were told true of the record.
LEMMA LandsTold ==
    ASSUME VisitsInv, CallerTypes', NEW q, NEW answer, Landed(q, answer)
    PROVE  Told'
<1>1. /\ arriving' = arriving /\ phase' = phase /\ stop'.pc = stop.pc
      /\ DOMAIN handle' = DOMAIN handle
      /\ \A r \in DOMAIN handle :
            /\ handle'[r].flight = handle[r].flight
            /\ handle'[r].answer = IF q.by = <<"handle", r>> THEN answer ELSE handle[r].answer
      /\ \A v \in Call :
            /\ call'[v].pc = call[v].pc
            /\ call'[v].answer = IF q.by = <<"call", v>> THEN answer ELSE call[v].answer
  BY DEF Landed, HeadTold
<1>2. /\ answer = "nothing" => ~Proposes(q) /\ stored' = stored /\ heard' = Len(stored)
      /\ answer = "entry" => heard' = Len(stored') /\ (stored' = stored => q.key # 0)
      /\ answer = "entry" => \E i \in DOMAIN stored' :
                                stored'[i].kind = q.kind /\ stored'[i].key = q.key
  BY DEF Landed, Outcome
<1>3. stored' # stored => /\ q.kind = "arrived" => Present(stored')
                          /\ q.kind = "left" => ~Present(stored')
  BY DEF Landed, Writes
<1>4. ASSUME NEW v \in Call, At(v, "asked")', call'[v].answer \in {"entry", "nothing"}
      PROVE  Present(stored') /\ heard' = Len(stored')
  <2>1. q.by = <<"call", v>> /\ answer \in {"entry", "nothing"}
    BY <1>1, <1>4 DEF Landed, AllTold
  <2>2. q.kind = "arrived" /\ q.key = 0
    BY <2>1 DEF Landed, Asker
  <2>3. CASE answer = "entry"
    BY <1>2, <1>3, <2>2, <2>3
  <2>4. CASE answer = "nothing"
    BY <1>2, <2>2, <2>4 DEF Proposes
  <2>. QED BY <2>1, <2>3, <2>4
<1>5. ASSUME NEW r \in DOMAIN handle', handle'[r].flight = "asked",
             handle'[r].answer \in {"entry", "nothing"}
      PROVE  ~Present(stored') /\ heard' = Len(stored')
  <2>1. q.by = <<"handle", r>> /\ answer \in {"entry", "nothing"}
    BY <1>1, <1>5 DEF Landed, AllTold
  <2>2. q.kind = "left" /\ q.key = Len(handle) /\ Open
    BY <2>1 DEF Landed, Asker
  <2>3. CASE answer = "entry" /\ stored' # stored
    BY <1>2, <1>3, <2>2, <2>3
  <2>4. CASE answer = "entry" /\ stored' = stored
    <3>1. \E i \in Of(stored, "left") : stored[i].key = Len(handle)
      BY <1>2, <2>2, <2>4 DEF Of
    <3>2. ~Present(stored)
      BY <2>2, <3>1 DEF VisitsInv, Based
    <3>. QED BY <1>2, <2>4, <3>2
  <2>5. CASE answer = "nothing"
    BY <1>2, <2>2, <2>5 DEF Proposes
  <2>. QED BY <2>1, <2>3, <2>4, <2>5
<1>6. \A v \in Call : call'[v].pc \in {"settles", "settled", "asked", "behind"} => arriving' = v
  BY <1>1 DEF VisitsInv, Told
<1>7. stop'.pc \notin {"none", "done"} => phase' # "running"
  BY <1>1 DEF VisitsInv, Told
<1>. QED BY <1>4, <1>5, <1>6, <1>7 DEF Told

\* The journal answers the head of its queue.
LEMMA LandsKeeps ==
    ASSUME VisitsInv, CallerTypes', Lands
    PROVE  VisitsInv'
<1>1. PICK answer : queue # <<>> /\ AllTold /\ Outcome(Head(queue), answer)
  BY LandsOutcome DEF VisitsInv
<1>2. Landed(Head(queue), answer)
  BY <1>1, HeadAsks, LandsTells, LandsWrites DEF Landed
<1>. QED BY <1>2, LandsAlternates, LandsHandle, LandsBased, LandsHeld, LandsRequests, LandsTold
         DEF VisitsInv

\* A replaced handle that asked for a departure has done so for good.
LEMMA StrayedStays ==
    ASSUME CallerTypes, Next, Strayed
    PROVE  Strayed'
<1>1. PICK r \in DOMAIN handle : handle[r].replaced = "left"
  BY DEF Strayed
<1>2. /\ handle \in Seq(HandleOf) /\ \A p \in DOMAIN handle : handle[p] \in HandleOf
      /\ DOMAIN handle = 1..Len(handle) /\ Len(handle) \in Nat
  BY DEF CallerTypes
<1>3. \A h \in HandleOf : h.replaced = "left" =>
         /\ Departing(h).replaced = "left" /\ Replaced(h).replaced = "left"
         /\ Asking(h).replaced = "left"
         /\ \A flight : [h EXCEPT !.flight = flight].replaced = "left"
         /\ \A flight, answer : [h EXCEPT !.flight = flight, !.answer = answer].replaced = "left"
         /\ \A answer : [h EXCEPT !.answer = answer].replaced = "left"
         /\ \A gone : [h EXCEPT !.gone = gone].replaced = "left"
  BY DEF HandleOf, Departing, Replaced, Asking
<1>4. SUFFICES r \in DOMAIN handle' /\ handle'[r].replaced = "left"
  BY DEF Strayed
<1>5. handle[r] \in HandleOf
  BY <1>2
<1>6. ASSUME NEW n, NEW h, handle' = [handle EXCEPT ![n] = h], n = r => h.replaced = "left"
      PROVE  r \in DOMAIN handle' /\ handle'[r].replaced = "left"
  BY <1>1, <1>2, <1>6
<1>7. ASSUME NEW s, handle' = [p \in DOMAIN handle |-> [handle[p] EXCEPT !.gone = @ \/ p = s]]
      PROVE  r \in DOMAIN handle' /\ handle'[r].replaced = "left"
  BY <1>1, <1>3, <1>5, <1>7
<1>8. ASSUME handle' = handle PROVE r \in DOMAIN handle' /\ handle'[r].replaced = "left"
  BY <1>1, <1>8
<1>9. CASE Lands
  <2>1. PICK answer : Outcome(Head(queue), answer)
    BY <1>9, LandsOutcome
  <2>2. handle' = handle \/ \E n : handle' = [handle EXCEPT ![n] = [handle[n] EXCEPT !.answer = answer]]
    BY <2>1 DEF Outcome, Answered
  <2>3. ASSUME NEW n, handle' = [handle EXCEPT ![n] = [handle[n] EXCEPT !.answer = answer]]
        PROVE  r \in DOMAIN handle' /\ handle'[r].replaced = "left"
    <3>1. n = r => [handle[n] EXCEPT !.answer = answer].replaced = "left"
      BY <1>1, <1>5 DEF HandleOf
    <3>. QED BY <1>6, <2>3, <3>1
  <2>. QED BY <1>8, <2>2, <2>3
<1>10. CASE \E v \in Call : Arrives(v)
  <2>1. handle' = handle \/ handle' = [handle EXCEPT ![visits] = Departing(handle[visits])]
    BY <1>10 DEF Arrives, RetryKnown
  <2>. QED BY <1>1, <1>3, <1>5, <1>6, <1>8, <2>1
<1>11. CASE \E v \in Call : Arrived(v)
  <2>. DEFINE marked == [p \in DOMAIN handle |-> IF p = visits THEN Replaced(handle[p]) ELSE handle[p]]
  <2>1. \/ handle' = handle \/ handle' = [handle EXCEPT ![visits] = Departing(handle[visits])]
        \/ handle' = Append(marked, Made)
    BY <1>11 DEF Arrived, RetryKnown
  <2>2. CASE handle' = Append(marked, Made)
    <3>1. \A p \in DOMAIN handle : Replaced(handle[p]) \in HandleOf
      BY <1>2, HandleFields
    <3>2. marked \in Seq(HandleOf) /\ Len(marked) = Len(handle)
      BY <1>2, <3>1, StaysSequence
    <3>3. marked[r].replaced = "left"
      BY <1>1, <1>3, <1>5
    <3>. HIDE DEF marked
    <3>4. r \in DOMAIN handle' /\ handle'[r] = marked[r]
      BY <1>2, <2>2, <3>2
    <3>. QED BY <3>3, <3>4
  <2>. QED BY <1>1, <1>3, <1>5, <1>6, <1>8, <2>1, <2>2
<1>12. CASE PresentVisit
  <2>1. handle' = Append(handle, Made)
    BY <1>12 DEF PresentVisit
  <2>. QED BY <1>1, <1>2, <2>1
<1>13. CASE \E p \in DOMAIN handle : EndVisit(p) \/ LeaveSettles(p) \/ Leaves(p) \/ Left(p)
  <2>1. PICK p \in DOMAIN handle : EndVisit(p) \/ LeaveSettles(p) \/ Leaves(p) \/ Left(p)
    BY <1>13
  <2>2. \/ handle' = [handle EXCEPT ![p] = Departing(handle[p])]
        \/ handle' = [handle EXCEPT ![p] = Asking(handle[p])]
        \/ \E flight : handle' = [handle EXCEPT ![p] = [handle[p] EXCEPT !.flight = flight]]
        \/ \E flight : handle' = [handle EXCEPT ![p] =
                                     [[handle[p] EXCEPT !.flight = flight] EXCEPT !.answer = "none"]]
    <3>1. CASE EndVisit(p) \/ LeaveSettles(p)
      BY <3>1 DEF EndVisit, LeaveSettles
    <3>2. CASE Leaves(p) \/ Left(p)
      <4>1. \/ handle' = [handle EXCEPT ![p] = Asking(handle[p])]
            \/ \E flight : DepartureEnds(p, flight)
        BY <3>2 DEF Leaves, Left
      <4>2. \A flight : [handle EXCEPT ![p].flight = flight, ![p].answer = "none"] =
                 [handle EXCEPT ![p] = [[handle[p] EXCEPT !.flight = flight] EXCEPT !.answer = "none"]]
        BY <1>2
      <4>. QED BY <4>1, <4>2 DEF DepartureEnds
    <3>. QED BY <2>1, <3>1, <3>2
  <2>3. \A flight : p = r => /\ [handle[p] EXCEPT !.flight = flight].replaced = "left"
                             /\ [[handle[p] EXCEPT !.flight = flight] EXCEPT !.answer = "none"].replaced = "left"
    BY <1>1, <1>5 DEF HandleOf
  <2>4. p = r => Departing(handle[p]).replaced = "left" /\ Asking(handle[p]).replaced = "left"
    BY <1>1, <1>3, <1>5
  <2>. QED BY <1>6, <2>2, <2>3, <2>4
<1>14. CASE Stopping \/ Evict
  <2>1. handle' = handle
        \/ \E s : handle' = [p \in DOMAIN handle |-> [handle[p] EXCEPT !.gone = @ \/ p = s]]
    BY <1>14 DEF Stopping, Evict
  <2>. QED BY <1>7, <1>8, <2>1
<1>15. CASE \/ Publishes \/ Cancelled \/ Cancels \/ CloseAsked \/ Stops
            \/ \E w \in Waiter : Looks(w) \/ WaitStarts(w)
            \/ \E v \in Call : VisitStarts(v) \/ VisitSettles(v)
  BY <1>8, <1>15 DEF Publishes, Cancelled, Cancels, CloseAsked, Stops, Looks, WaitStarts,
                     VisitStarts, VisitSettles
<1>. QED BY <1>9, <1>10, <1>11, <1>12, <1>13, <1>14, <1>15 DEF Next, Resolves

(* A handle that takes messages stands for a person the record holds        *)
(* present, a departure ends the visit its handle is for and no later one   *)
(* however late it lands and however often it is retried, and one that      *)
(* resolved did end it or another handle of the visit took over (people.ts  *)
(* arrive, endVisit, leaveVisit, retryKnown; control.ts stop): until a      *)
(* handle that an arrival replaced is left and finds no handle held.        *)
THEOREM VisitsKeepAgreeing == Spec => []VisitsAgree
<1>. DEFINE Inv == CallerTypes /\ (Strayed \/ VisitsInv)
<1>1. Init => Inv
  <2>. SUFFICES ASSUME Init PROVE Inv
    OBVIOUS
  <2>1. CallerTypes
    BY DEF Init, CallerTypes, CallOf, CallPc, CancelOf, StopOf, Answer
  <2>2. stored = <<>> /\ heard = 0 /\ queue = <<>> /\ handle = <<>> /\ visits = 0 /\ phase = "running"
        /\ stop.pc = "none" /\ \A v \in Call : call[v].pc = "idle"
    BY DEF Init
  <2>3. Of(stored, "left") = {} /\ DOMAIN handle = {} /\ DOMAIN queue = {} /\ Len(handle) = 0 /\ ~Open
        /\ \A sort : ~Unheard(sort) /\ ~Queued(sort)
    BY <2>2 DEF Of, Open, Unheard, Queued
  <2>4. Alternates /\ OneHandle /\ Based /\ Requests
    BY <2>2, <2>3 DEF Alternates, OneHandle, Based, Requests
  <2>5. Held
    BY <2>2, <2>3 DEF Held, At
  <2>6. Told
    BY <2>2, <2>3 DEF Told, At
  <2>. QED BY <2>1, <2>4, <2>5, <2>6 DEF VisitsInv
<1>2. Inv /\ [Next]_vars => Inv'
  <2>. SUFFICES ASSUME CallerTypes, Strayed \/ VisitsInv, [Next]_vars PROVE Inv'
    OBVIOUS
  <2>1. CallerTypes'
    BY TypesKept DEF vars, CallerTypes
  <2>2. CASE UNCHANGED vars
    <3>1. Strayed => Strayed'
      BY <2>2 DEF vars, Strayed
    <3>2. VisitsInv => VisitsInv'
      BY <2>1, <2>2 DEF vars, VisitsInv, Alternates, OneHandle, Superseded, Based, Held, Requests, Told,
                        Open, Unheard, Queued, Known, At
    <3>. QED BY <2>1, <3>1, <3>2
  <2>3. CASE Next /\ Strayed
    BY <2>1, <2>3, StrayedStays
  <2>4. ASSUME Next, VisitsInv, ~Strayed' PROVE VisitsInv'
    <3>1. CASE Lands
      BY <2>1, <2>4, <3>1, LandsKeeps
    <3>2. CASE Stopping
      BY <2>1, <2>4, <3>2, StoppingKeeps
    <3>3. CASE \/ Publishes \/ Cancelled \/ Cancels \/ CloseAsked
               \/ \E w \in Waiter : Looks(w) \/ WaitStarts(w)
      BY <2>1, <2>4, <3>3, AsideKeeps
    <3>4. CASE \E v \in Call : VisitStarts(v) \/ VisitSettles(v)
      BY <2>1, <2>4, <3>4, VisitKeeps
    <3>5. CASE \E v \in Call : Arrives(v)
      BY <2>1, <2>4, <3>5, ArrivesKeeps
    <3>6. CASE \E v \in Call : Arrived(v)
      BY <2>1, <2>4, <3>6, ArrivedKeeps
    <3>7. CASE \E r \in DOMAIN handle : EndVisit(r) \/ LeaveSettles(r)
      BY <2>1, <2>4, <3>7, LeaveKeeps
    <3>8. CASE \E r \in DOMAIN handle : Leaves(r) \/ Left(r)
      BY <2>1, <2>4, <3>8, LeavesKeeps, ReplacedLeaves
    <3>9. CASE PresentVisit
      BY <2>1, <2>4, <3>9, PresentKeeps
    <3>10. CASE Stops
      BY <2>1, <2>4, <3>10, StopsKeeps
    <3>11. CASE Evict
      BY <2>1, <2>4, <3>11, EvictKeeps
    <3>. QED BY <2>4, <3>1, <3>2, <3>3, <3>4, <3>5, <3>6, <3>7, <3>8, <3>9, <3>10, <3>11
             DEF Next, Resolves
  <2>. QED BY <2>1, <2>2, <2>3, <2>4
<1>3. Inv => VisitsAgree
  <2>. SUFFICES ASSUME CallerTypes, VisitsInv PROVE VisitsAgree
    BY DEF VisitsAgree
  <2>1. phase = "running" /\ visits # 0 /\ ~handle[visits].gone => Present(Known)
    BY DEF VisitsInv, Held
  <2>2. \A i \in DOMAIN stored : stored[i].kind = "left" /\ stored[i].key # 0 =>
            Visit(SubSeq(stored, 1, i)) = handle[stored[i].key].base
    BY DEF VisitsInv, Based, Of
  <2>3. ASSUME NEW r \in DOMAIN handle, handle[r].flight = "done", Present(stored),
               Visit(stored) = handle[r].base
        PROVE  \E q \in DOMAIN handle : q # r /\ handle[q].base = handle[r].base
    <3>1. Superseded(r)
      BY <2>3 DEF VisitsInv, Based, OneHandle
    <3>2. r + 1 \in DOMAIN handle /\ r + 1 # r
      BY <3>1 DEF Superseded, CallerTypes
    <3>. QED BY <3>1, <3>2 DEF Superseded
  <2>. QED BY <2>1, <2>2, <2>3 DEF VisitsAgree
<1>. QED BY <1>1, <1>2, <1>3, PTL DEF Spec

=============================================================================
