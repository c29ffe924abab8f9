------------------------------ MODULE Callers ------------------------------
(***************************************************************************)
(* The host's callers of one run of a room: a person's visits and their    *)
(* departures (room-run/people.ts), cancellation (control.ts), stopping    *)
(* and dropping the room (control.ts, room.ts), and the callers that wait  *)
(* for an exchange to close (waits.ts).                                    *)
(*                                                                         *)
(* Every write goes through the journal's serial queue, where a            *)
(* confirmation may be lost.  Between two awaits a caller takes one        *)
(* action; what it decided before an await may be stale after it.          *)
(***************************************************************************)
EXTENDS Integers, Sequences, FiniteSets, SequencesExt

CONSTANTS
    Call,       \* calls of room.visit for one person
    Waiter,     \* callers that wait for the exchange to close
    Plays       \* what the environment may do, and how often: functions on Plays' names

ASSUME CallersAssumption == 0 \notin Call

VARIABLES
    phase,      \* running, stopped, evicted
    stored,     \* the entries of the storage
    heard,      \* how many of them the run has heard
    queue,      \* the journal's queue of requests
    arriving,   \* the call whose arrival is under way, or 0
    visits,     \* the handle the room holds for the person, or 0
    handle,     \* each handle ever made
    call,       \* each call of room.visit
    cancel,     \* the cancellation under way and its key
    stop,       \* the shutdown under way
    effects,    \* publications that are still to run
    waiter,     \* each caller that waits for the close
    spare       \* what is left for the environment

vars == <<phase, stored, heard, queue, arriving, visits, handle, call, cancel,
          stop, effects, waiter, spare>>

Spend(op) == spare[op] > 0 /\ spare' = [spare EXCEPT ![op] = @ - 1]

Gone == phase # "running"

\* gone: the handle takes nothing more.  keyed: its departure has a key, the
\* handle itself.  flight: the departure.  base: history, the visit it is for.
\* replaced: history, the arrival of its visit made another handle: no, yes, or
\* yes and it asked for a departure all the same (left).
NoHandle == [gone |-> FALSE, keyed |-> FALSE, flight |-> "none", answer |-> "none", base |-> 0,
             replaced |-> "no"]

Init ==
    /\ phase = "running"
    /\ stored = <<>> /\ heard = 0 /\ queue = <<>>
    /\ arriving = 0 /\ visits = 0 /\ handle = <<>>
    /\ call = [v \in Call |-> [pc |-> "idle", answer |-> "none", behind |-> 0, caught |-> FALSE]]
    /\ cancel = [pc |-> "none", key |-> 0, answer |-> "none", made |-> 0, confirmed |-> 0]
    /\ stop = [pc |-> "none", answer |-> "none", holds |-> 0]
    /\ effects = 0
    /\ waiter = [w \in Waiter |-> "idle"]
    /\ spare \in Plays

-----------------------------------------------------------------------------
(* The journal *)

Known == SubSeq(stored, 1, heard)

Of(entries, kind) == {i \in DOMAIN entries : entries[i].kind = kind}

\* The last of the person's moves is an arrival.
Present(entries) == \E i \in Of(entries, "arrived") : \A j \in Of(entries, "left") : j < i

Visit(entries) == Cardinality(Of(entries, "arrived"))

Closed(entries) == Of(entries, "close") # {}

Request(kind, key, by) == [kind |-> kind, key |-> key, by |-> by]

\* Whether the decision at the write proposes the entry.
Proposes(q) ==
    CASE q.kind = "arrived" -> ~Present(stored)
      [] q.kind = "left"    -> Present(stored)
      [] q.kind = "cancel"  -> ~Gone
      [] q.kind = "close"   -> TRUE
      [] OTHER              -> FALSE

\* The caller of a request gets its answer: entry, nothing, or error.
Answered(q, answer) ==
    /\ call' = IF q.by[1] = "call" THEN [call EXCEPT ![q.by[2]].answer = answer] ELSE call
    /\ handle' = IF q.by[1] = "handle"
                 THEN [handle EXCEPT ![q.by[2]].answer = answer] ELSE handle
    /\ cancel' = IF q.by[1] = "cancel" THEN [cancel EXCEPT !.answer = answer] ELSE cancel
    /\ stop' = IF q.by[1] = "stop" THEN [stop EXCEPT !.answer = answer] ELSE stop

\* Every entry the run hears is published.
Hears(entries, n) == stored' = entries /\ heard' = n /\ effects' = effects + (n - heard)

Doubt == Request("read", 0, <<"journal">>)

\* A caller goes on in the turn that answers it, before the next request of the
\* queue has read the storage; in which order several go on is open.
AllTold ==
    /\ \A v \in Call : call[v].answer = "none" /\ call[v].pc # "settled"
    /\ \A r \in DOMAIN handle : handle[r].answer = "none" /\ handle[r].flight # "settled"
    /\ cancel.pc # "none" => cancel.answer = "none"
    /\ stop.answer = "none" /\ stop.pc # "settled"

\* The head of the queue: the journal reads the storage, returns the entry
\* that has the key, or decides and appends.  A storage may refuse the read or
\* the append, or lose the confirmation; the doubt queues a read.
Lands ==
    /\ queue # <<>> /\ AllTold
    /\ LET q == Head(queue)
           keyed == q.key # 0 /\ \E i \in DOMAIN stored :
                                     stored[i].kind = q.kind /\ stored[i].key = q.key
           entry == [kind |-> q.kind, key |-> q.key]
           done(answer) == queue' = Tail(queue) /\ Answered(q, answer)
           fails(rest) == queue' = rest /\ Answered(q, "error") /\ Spend("fault")
       IN \/ /\ phase = "evicted"
             /\ done("error") /\ UNCHANGED <<stored, heard, effects, spare>>
          \/ /\ phase # "evicted"
             /\ IF keyed \/ ~Proposes(q)
                THEN Hears(stored, Len(stored)) /\ done(IF keyed THEN "entry" ELSE "nothing")
                ELSE Hears(Append(stored, entry), Len(stored) + 1) /\ done("entry")
             /\ UNCHANGED spare
          \/ /\ phase # "evicted"        \* the read fails
             /\ fails(Tail(queue)) /\ UNCHANGED <<stored, heard, effects>>
          \/ /\ phase # "evicted" /\ ~keyed /\ Proposes(q)
             /\ \E after \in {stored, Append(stored, entry)} : Hears(after, Len(stored))
             /\ fails(Append(Tail(queue), Doubt))
    /\ UNCHANGED <<phase, arriving, visits, waiter>>

Asks(kind, key, by) == queue' = Append(queue, Request(kind, key, by))

Journal == <<stored, heard, effects>>

-----------------------------------------------------------------------------
(* A call of room.visit *)

\* Everything asked of the journal landed or failed, and every doubt is settled.
Settled == queue = <<>>

At(v, pc) == call[v].pc = pc

\* The arrival of v ends; the calls that joined it share the outcome.
ArrivalEnds(v, outcome) ==
    /\ call' = [w \in Call |->
                  IF w = v \/ (At(w, "joins") /\ arriving = v)
                  THEN [call[w] EXCEPT !.pc = IF Gone THEN "refused" ELSE outcome, !.answer = "none"]
                  ELSE call[w]]
    /\ arriving' = IF arriving = v THEN 0 ELSE arriving

Step(v, pc) == call' = [call EXCEPT ![v].pc = pc, ![v].answer = "none"]

VisitStarts(v) ==
    /\ At(v, "idle") /\ ~Gone /\ Spend("visit")
    /\ IF arriving # 0 THEN Step(v, "joins") /\ UNCHANGED arriving
                       ELSE Step(v, "settles") /\ arriving' = v
    /\ UNCHANGED <<phase, Journal, queue, visits, handle, cancel, stop, waiter>>

VisitSettles(v) ==
    /\ At(v, "settles") /\ Settled
    /\ Step(v, "settled")
    /\ UNCHANGED <<phase, Journal, queue, arriving, visits, handle, cancel, stop, waiter, spare>>

\* Mutant of Departing: the handle ends when its departure is durable.
DepartingOpen(h) == [h EXCEPT !.keyed = TRUE, !.flight = "settles"]

\* The handle takes nothing more from here on, whatever becomes of the write.
Departing(h) == [h EXCEPT !.gone = TRUE, !.keyed = TRUE, !.flight = "settles"]

\* The handle the room holds is gone: the arrival waits for its departure, or
\* starts it again.
RetryKnown(v) ==
    LET under == handle[visits].flight # "none" IN
    /\ call' = [call EXCEPT ![v].pc = "behind", ![v].answer = "none",
                            ![v].behind = visits, ![v].caught = under]
    /\ handle' = IF under THEN handle ELSE [handle EXCEPT ![visits] = Departing(@)]
    /\ UNCHANGED <<arriving, visits, queue>>

KnownGone == visits # 0 /\ handle[visits].gone

Arrives(v) ==
    /\ At(v, "settled")
    /\ \/ Gone /\ ArrivalEnds(v, "refused") /\ UNCHANGED <<queue, visits, handle>>
       \/ ~Gone /\ KnownGone /\ RetryKnown(v)
       \/ /\ ~Gone /\ ~KnownGone
          /\ Asks("arrived", 0, <<"call", v>>) /\ Step(v, "asked")
          /\ UNCHANGED <<arriving, visits, handle>>
    /\ UNCHANGED <<phase, Journal, cancel, stop, waiter, spare>>

Made == [NoHandle EXCEPT !.base = Visit(Known)]

\* The handle the room held is ended without a departure of its own.
Replaced(h) == [h EXCEPT !.gone = TRUE, !.replaced = IF @ = "no" THEN "yes" ELSE @]

\* The write of the arrival returned.  The handle is cached only now, in the
\* place of one that was taken from the record in between.
Arrived(v) ==
    /\ At(v, "asked") /\ call[v].answer # "none"
    /\ \/ /\ Gone \/ call[v].answer = "error"
          /\ ArrivalEnds(v, "refused") /\ UNCHANGED <<queue, visits, handle>>
       \/ ~Gone /\ call[v].answer # "error" /\ KnownGone /\ RetryKnown(v)
       \/ /\ ~Gone /\ call[v].answer # "error" /\ ~KnownGone
          /\ IF call[v].answer = "nothing" /\ visits # 0 THEN UNCHANGED <<visits, handle>>
             ELSE /\ visits' = Len(handle) + 1
                  /\ handle' = Append(
                        [r \in DOMAIN handle |->
                            IF r = visits THEN Replaced(handle[r]) ELSE handle[r]], Made)
          /\ ArrivalEnds(v, "done") /\ UNCHANGED queue
    /\ UNCHANGED <<phase, Journal, cancel, stop, waiter, spare>>

\* The visit of a person the record holds present, taken from the record: after
\* a lost confirmation, or by a host that hears of the arrival before its call
\* goes on.
PresentVisit ==
    /\ ~Gone /\ visits = 0 /\ Present(Known) /\ Spend("present")
    /\ visits' = Len(handle) + 1 /\ handle' = Append(handle, Made)
    /\ UNCHANGED <<phase, Journal, queue, arriving, call, cancel, stop, waiter>>

-----------------------------------------------------------------------------
(* Leaving *)

\* The host leaves through a handle, once or again.  A handle the room ended
\* itself has nothing to write.
EndVisit(r) ==
    /\ Spend("leave")
    /\ handle[r].flight = "none"
    /\ ~(handle[r].gone /\ ~handle[r].keyed /\ Gone)
    /\ handle' = [handle EXCEPT ![r] = Departing(@)]
    /\ UNCHANGED <<phase, Journal, queue, arriving, visits, call, cancel, stop, waiter>>

LeaveSettles(r) ==
    /\ handle[r].flight = "settles" /\ Settled
    /\ handle' = [handle EXCEPT ![r].flight = "settled"]
    /\ UNCHANGED <<phase, Journal, queue, arriving, visits, call, cancel, stop, waiter, spare>>

\* The departure ends, and the arrivals that wait for it go on.  One that
\* started the departure itself fails with it.
DepartureEnds(r, flight) ==
    /\ handle' = [handle EXCEPT ![r].flight = flight, ![r].answer = "none"]
    /\ LET behind == {v \in Call : At(v, "behind") /\ call[v].behind = r}
           fails == {v \in behind : flight = "none" /\ ~call[v].caught}
       IN IF fails # {} THEN \A v \in fails : ArrivalEnds(v, "refused")
          ELSE /\ call' = [v \in Call |-> IF v \in behind
                                          THEN [call[v] EXCEPT !.pc = "settles"] ELSE call[v]]
               /\ UNCHANGED arriving

\* Mutant of Failed: the failure is shared with every later call.
FailedForGood == "done"

\* What a departure that failed leaves behind: the next call starts it again.
Failed == "none"

LetGo(r) == visits' = IF visits = r THEN 0 ELSE visits

\* A handle asks for its departure: a replaced one should have no visit to end.
Asking(h) == [h EXCEPT !.flight = "asked", !.replaced = IF @ = "no" THEN "no" ELSE "left"]

Leaves(r) ==
    /\ handle[r].flight = "settled"
    /\ \/ /\ Present(Known) /\ visits \in {0, r}
          /\ Asks("left", r, <<"handle", r>>)
          /\ handle' = [handle EXCEPT ![r] = Asking(@)]
          /\ UNCHANGED <<call, arriving, visits>>
       \/ /\ Present(Known) /\ visits \notin {0, r}     \* another handle took over
          /\ DepartureEnds(r, "done") /\ UNCHANGED <<queue, visits>>
       \/ ~Present(Known) /\ DepartureEnds(r, "done") /\ LetGo(r) /\ UNCHANGED queue
    /\ UNCHANGED <<phase, Journal, cancel, stop, waiter, spare>>

Left(r) ==
    /\ handle[r].flight = "asked" /\ handle[r].answer # "none"
    /\ IF handle[r].answer = "error"
       THEN DepartureEnds(r, Failed) /\ UNCHANGED visits
       ELSE DepartureEnds(r, "done") /\ LetGo(r)
    /\ UNCHANGED <<phase, Journal, queue, cancel, stop, waiter, spare>>

-----------------------------------------------------------------------------
(* Cancelling *)

\* Mutant of KeyOf: every call of cancel takes a key of its own.
KeyOfEach(c) == c.made + 1

\* A cancellation that failed keeps its key for the retry.
KeyOf(c) == IF c.key # 0 THEN c.key ELSE c.made + 1

Cancels ==
    /\ ~Gone /\ cancel.pc = "none" /\ Spend("cancel")
    /\ LET key == KeyOf(cancel) IN
       /\ Asks("cancel", key, <<"cancel">>)
       /\ cancel' = [cancel EXCEPT !.pc = "asked", !.key = key, !.answer = "none",
                                   !.made = IF key > @ THEN key ELSE @]
    /\ UNCHANGED <<phase, Journal, arriving, visits, handle, call, stop, waiter>>

Cancelled ==
    /\ cancel.pc = "asked" /\ cancel.answer # "none"
    /\ cancel' = IF cancel.answer = "entry"
                 THEN [cancel EXCEPT !.pc = "none", !.key = 0, !.confirmed = @ + 1]
                 ELSE [cancel EXCEPT !.pc = "none"]
    /\ UNCHANGED <<phase, Journal, queue, arriving, visits, handle, call, stop, waiter, spare>>

-----------------------------------------------------------------------------
(* The end of the run, and the callers that wait on it *)

Notified(ws) == [w \in Waiter |-> IF ws[w] = "waits" THEN "looks" ELSE ws[w]]

\* Closes admission, revokes what runs, and waits for what was queued ahead.
Stops ==
    /\ phase # "evicted" /\ stop.pc = "none" /\ Spend("stop")
    /\ phase' = "stopped"
    /\ Asks("revoke", 0, <<"stop">>)
    /\ stop' = [pc |-> "revokes", answer |-> "none", holds |-> 0]
    /\ UNCHANGED <<Journal, arriving, visits, handle, call, cancel, waiter>>

\* The shutdown ends; one that failed may be asked for again.  An evicted room
\* has nothing left to write.
StopEnds(pc) ==
    /\ stop' = [stop EXCEPT !.pc = IF phase = "evicted" THEN "done" ELSE pc, !.answer = "none"]
    /\ waiter' = Notified(waiter)

Stopping ==
    /\ \/ /\ stop.pc = "revokes" /\ stop.answer # "none"
          /\ IF stop.answer = "error" THEN StopEnds("none")
             ELSE stop' = [stop EXCEPT !.pc = "settles", !.answer = "none"] /\ UNCHANGED waiter
          /\ UNCHANGED <<queue, visits, handle>>
       \/ /\ stop.pc = "settles" /\ Settled
          /\ stop' = [stop EXCEPT !.pc = "settled"]
          /\ UNCHANGED <<queue, visits, handle, waiter>>
       \/ /\ stop.pc = "settled" /\ Present(Known)
          /\ Asks("left", 0, <<"stop">>)
          /\ stop' = [stop EXCEPT !.pc = "leaves", !.holds = visits]
          /\ UNCHANGED <<visits, handle, waiter>>
       \/ /\ stop.pc = "settled" /\ ~Present(Known)
          /\ StopEnds("done") /\ UNCHANGED <<queue, visits, handle>>
       \/ /\ stop.pc = "leaves" /\ stop.answer # "none"
          /\ IF stop.answer = "error"
             THEN StopEnds("none") /\ UNCHANGED <<visits, handle>>
             ELSE /\ StopEnds("done") /\ LetGo(stop.holds)
                  /\ handle' = [r \in DOMAIN handle |->
                                   [handle[r] EXCEPT !.gone = @ \/ r = stop.holds]]
          /\ UNCHANGED queue
    /\ UNCHANGED <<phase, Journal, arriving, call, cancel, spare>>

\* Mutant of Woken: a dropped room leaves its waiters to themselves.
WokenNot(ws) == ws

\* Dropping the room wakes the callers that wait on it.
Woken(ws) == Notified(ws)

Evict ==
    /\ phase # "evicted" /\ Spend("evict")
    /\ phase' = "evicted"
    /\ handle' = [r \in DOMAIN handle |-> [handle[r] EXCEPT !.gone = @ \/ r = visits]]
    /\ waiter' = Woken(waiter)
    /\ UNCHANGED <<Journal, queue, arriving, visits, call, cancel, stop>>

\* The room closes the exchange.
CloseAsked ==
    /\ phase = "running" /\ Spend("close")
    /\ Asks("close", 0, <<"room">>)
    /\ UNCHANGED <<phase, Journal, arriving, visits, handle, call, cancel, stop, waiter>>

\* One publication, and with it every waiter looks again.
Publishes ==
    /\ effects > 0
    /\ effects' = effects - 1
    /\ waiter' = IF phase = "evicted" THEN waiter ELSE Notified(waiter)
    /\ UNCHANGED <<phase, stored, heard, queue, arriving, visits, handle, call, cancel, stop, spare>>

WaitStarts(w) ==
    /\ waiter[w] = "idle" /\ Spend("wait")
    /\ waiter' = [waiter EXCEPT ![w] = "looks"]
    /\ UNCHANGED <<phase, Journal, queue, arriving, visits, handle, call, cancel, stop>>

Looks(w) ==
    /\ waiter[w] = "looks"
    /\ waiter' = [waiter EXCEPT ![w] = CASE Closed(Known) -> "found"
                                         [] ~Closed(Known) /\ Gone -> "refused"
                                         [] OTHER -> "waits"]
    /\ UNCHANGED <<phase, Journal, queue, arriving, visits, handle, call, cancel, stop, spare>>

-----------------------------------------------------------------------------
\* What the run does once it is asked: its promises resolve.
Resolves ==
    \/ Lands \/ Cancelled \/ Stopping \/ Publishes
    \/ \E v \in Call : VisitSettles(v) \/ Arrives(v) \/ Arrived(v)
    \/ \E r \in DOMAIN handle : LeaveSettles(r) \/ Leaves(r) \/ Left(r)
    \/ \E w \in Waiter : Looks(w)

Next ==
    \/ Resolves
    \/ \E v \in Call : VisitStarts(v)
    \/ PresentVisit
    \/ \E r \in DOMAIN handle : EndVisit(r)
    \/ Cancels \/ Stops \/ Evict \/ CloseAsked
    \/ \E w \in Waiter : WaitStarts(w)

Spec == Init /\ [][Next]_vars

\* A promise that can resolve does: the storage answers or fails.
FairSpec == Spec /\ WF_vars(Resolves)

-----------------------------------------------------------------------------
\* A handle that was replaced asked for a departure, of whatever visit there was.
Strayed == \E r \in DOMAIN handle : handle[r].replaced = "left"

(* A handle that still takes messages stands for a person the record holds  *)
(* present.  A departure ends the visit its handle is for and no later one, *)
(* however late it lands and however often it is retried; and one that      *)
(* resolved did end it, or another handle of the same visit took over       *)
(* (people.ts arrive, endVisit, leaveVisit).  All this until a handle that  *)
(* an arrival replaced (people.ts:132) is left once no handle is held: it   *)
(* has kept no key of the visit it was for, and ends the one there is.      *)
VisitsAgree ==
    ~Strayed =>
    /\ phase = "running" /\ visits # 0 /\ ~handle[visits].gone => Present(Known)
    /\ \A i \in DOMAIN stored : stored[i].kind = "left" /\ stored[i].key # 0 =>
            Visit(SubSeq(stored, 1, i)) = handle[stored[i].key].base
    /\ \A r \in DOMAIN handle :
          handle[r].flight = "done" /\ Present(stored) /\ Visit(stored) = handle[r].base =>
              \E q \in DOMAIN handle : q # r /\ handle[q].base = handle[r].base

(* A cancellation in doubt is retried under its key and finds its marker: a *)
(* retry cancels nothing newer, and a call after a confirmed one is a new   *)
(* cancellation (control.ts cancel).                                        *)
CancelOnce ==
    LET markers == Cardinality(Of(stored, "cancel")) IN
    /\ cancel.confirmed <= markers
    /\ markers <= cancel.confirmed + (IF cancel.key = 0 THEN 0 ELSE 1)

(* Every call ends: a caller that waits for the close is answered once the  *)
(* run hears it or is over, and a visit and a departure resolve or fail,    *)
(* although they wait for each other (waits.ts until, people.ts retryKnown).*)
CallersAnswered ==
    []<>(/\ \A w \in Waiter :
               waiter[w] \in {"looks", "waits"} =>
                   ~Closed(Known) /\ phase # "evicted" /\ stop.pc # "done"
         /\ \A v \in Call : call[v].pc \in {"idle", "done", "refused"})

=============================================================================
