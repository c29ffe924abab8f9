-------------------------------- MODULE Room --------------------------------
(***************************************************************************)
(* One running room (packages/ambion/src/room/transition.ts, reconcile.ts, *)
(* routing.ts; packages/ambion/src/room-run/control.ts, dispatch.ts,       *)
(* room.ts; answers.ts): people, the host and the seats write to the room, *)
(* and the room's own passes end leases, close the exchange, return        *)
(* scheduled says and wake seats, until there is nothing left to do.       *)
(*                                                                         *)
(* The journal is what Record.tla promises: one serial queue, every entry  *)
(* decided on the whole record, kept in order.  An entry is decided and    *)
(* stored in one step and heard in a later one: what runs between the two  *)
(* reads a projection that does not hold it yet.  The confirmation may get *)
(* lost; the entry is then heard by the next read, and its caller is told  *)
(* that the write failed.                                                  *)
(*                                                                         *)
(* A pass decides once and then writes step by step, each step decided     *)
(* again where it lands.  The clock, the seats and the wire go on between  *)
(* any two steps.  A wake on the wire may be lost, late or taken twice.    *)
(*                                                                         *)
(* Left out: keys (a keyed write retried is no write, Journal.tla), steers *)
(* and cuts on the wire, notifications, waiters, visits as handles, the    *)
(* text of a message, and the run entry, which changes no derived fact.    *)
(***************************************************************************)
EXTENDS Projection

CONSTANTS
    Cast,      \* the seats the room is first composed with
    Recasts,   \* other casts a later start may compose
    Guest,     \* the people present at the start
    Delay,     \* how long a scheduled say waits
    Passes,    \* PASSES_PER_RECONCILE
    Reads,     \* bound: how far a seat says it has read
    Named,     \* bound: whom people, the host and (beside the seats) the seats address
    Budget     \* bound: how often each thing the environment does may happen

Ops == {"speak", "post", "meet", "seat", "cancel", "dismiss", "renew", "say", "schedule",
        "fail", "resend", "stop", "crash", "recast", "lose", "fault", "tick"}

ASSUME RoomAssumption ==
    /\ Cast \subseteq Seat /\ Recasts \subseteq SUBSET Seat
    /\ Guest \subseteq Person /\ IsFiniteSet(Guest)
    /\ Delay \in Nat \ {0} /\ Passes \in Nat \ {0}
    /\ Reads \subseteq {"nothing", "cause", "record"} /\ Reads # {}
    /\ Named \subseteq Seat \cup Person \cup {None}
    /\ Budget \in [Ops -> Nat]

VARIABLES
    log,     \* the record: place -> entry
    heard,   \* how many of them this run has heard
    room,    \* the projection of those
    flight,  \* whose write is stored and not yet confirmed, or "none"
    now,
    phase,   \* running, stopping, or down
    alarm,   \* when the clock calls the room, 0 for never
    sent,    \* activation -> when this run last sent its wake
    asked,   \* a reconcile is queued
    pass,    \* the pass under way
    wired,   \* the activations whose wake is or was on the wire
    left     \* what is left of Budget

memory == <<alarm, sent, asked, pass>>
vars == <<log, heard, room, flight, now, phase, memory, wired, left>>

NoPass == [stage |-> "idle", steps |-> <<>>, sends |-> {}, alarm |-> 0,
           changed |-> FALSE, count |-> 0]

Message(kind, from, to) ==
    [type |-> "message", kind |-> kind, from |-> from, to |-> to, at |-> now,
     wakes |-> {}, act |-> None, delay |-> 0, about |-> 0, through |-> 0, seq |-> 0]

Composition(seats) == [type |-> "composition", seated |-> seats]

Init ==
    /\ now = 1
    /\ log = <<Composition(Cast)>>
             \o SetToSeq({Message("arrived", p, p) : p \in Guest})
    /\ heard = Len(log)
    /\ room = Replay(log)
    /\ flight = "none"
    /\ phase = "running"
    /\ alarm = 0
    /\ sent = [id \in {} |-> 0]
    /\ asked = TRUE
    /\ pass = NoPass
    /\ wired = {}
    /\ left = Budget

Spend(op) ==
    /\ left[op] > 0
    /\ left' = [left EXCEPT ![op] = @ - 1]

-----------------------------------------------------------------------------
(* Writing and hearing *)

\* The queue is free and this run has heard the whole record: the next write
\* is decided on it.
Free == flight = "none" /\ heard = Len(log)

Land(by, e) ==
    /\ Free
    /\ log' = Append(log, e)
    /\ flight' = by
    /\ UNCHANGED <<heard, room, now, phase, memory, wired>>

\* hearEntry: which entries ask for a reconcile.
Asks(e) ==
    \/ e.type = "message"
    \/ e.type = "lease" /\ e.phase = "running"
    \/ e.type = "lease" /\ e.reason = "abandoned" /\ e.id \notin DOMAIN room.leases

\* The last entry joins the projection, and the room reacts to it.
Hearing(callerAsks) ==
    LET e == Last(log) IN
    /\ heard' = Len(log)
    /\ room' = Advance(room, e, Len(log))
    /\ asked' = (asked \/ Asks(e) \/ callerAsks)
    /\ sent' = IF e.type = "cancel" THEN [id \in {} |-> 0] ELSE sent

\* A release, an unseating and a dismissal reconcile once they are confirmed.
Confirm ==
    /\ flight # "none"
    /\ Hearing(flight = "asks")
    /\ flight' = "none"
    /\ pass' = IF flight = "pass"
               THEN [pass EXCEPT !.steps = Tail(@), !.changed = TRUE] ELSE pass
    /\ UNCHANGED <<log, now, phase, alarm, wired, left>>

\* What a run holds in memory is gone with it.
Forget(down) ==
    /\ alarm' = 0
    /\ sent' = [id \in {} |-> 0]
    /\ asked' = FALSE
    /\ pass' = NoPass
    /\ phase' = down

\* The confirmation is lost.  A pass reports the failure and looks again later;
\* a stop gives the name up.
LoseAnswer ==
    /\ flight # "none"
    /\ Spend("lose")
    /\ flight' = "none"
    /\ IF flight = "stop" THEN Forget("down")
       ELSE /\ IF flight = "pass"
               THEN pass' = NoPass /\ alarm' = IF phase = "running" THEN now + Resend ELSE 0
               ELSE UNCHANGED <<pass, alarm>>
            /\ UNCHANGED <<phase, sent, asked>>
    /\ UNCHANGED <<log, heard, room, now, wired>>

\* A later read finds the entry whose confirmation was lost.
Hear ==
    /\ flight = "none" /\ heard < Len(log)
    /\ phase # "down"
    /\ Hearing(FALSE)
    /\ UNCHANGED <<log, flight, now, phase, alarm, pass, wired, left>>

-----------------------------------------------------------------------------
(* What people, the host and the seats do *)

LiveIds(seat) ==
    {id \in DOMAIN room.leases : id.seat = seat /\ IsLive(room.leases[id], now)}
    \cup {d.id : d \in {o \in Due(room) : o.id.seat = seat}}

\* The seat has, or is about to have, a respond activation: it is steered.
HoldsOrdinary(seat) ==
    \E id \in LiveIds(seat) : id.source = "message" /\ Granted(room, id)

\* The message with the seats it wakes, as it enters the record.
Routed(m) ==
    [m EXCEPT !.wakes =
        {s \in room.roster \cup (IF m.kind = "seated" THEN {m.to} ELSE {}) :
            s # m.from /\ ~HoldsOrdinary(s) /\ Wakes(s, m)}]

\* A name somebody may address: in the room, and not deaf to what is said.
Addressable(to) ==
    \/ to = None
    \/ to \in room.known
    \/ to \in room.roster /\ Attention[to] # "none"

Admitting == phase \in {"running", "stopping"}

Deliver(p, to) ==
    /\ Admitting /\ Spend("speak")
    /\ p \in room.present /\ Addressable(to)
    /\ Land("other", Routed(Message("said", p, to)))

Post(to) ==
    /\ Admitting /\ Spend("post")
    /\ Addressable(to)
    /\ Land("other", Routed(Message("system", None, to)))

Arrive(p) ==
    /\ Admitting /\ Spend("meet")
    /\ p \notin room.present
    /\ Land("other", Routed(Message("arrived", p, p)))

Leave(p) ==
    /\ Admitting /\ Spend("meet")
    /\ p \in room.present
    /\ Land("other", Routed(Message("left", p, p)))

SeatAgent(s) ==
    /\ Admitting /\ Spend("seat")
    /\ s \notin room.roster
    /\ Land("other", Routed(Message("seated", None, s)))

UnseatAgent(s) ==
    /\ Admitting /\ Spend("seat")
    /\ s \in room.roster
    /\ Land("asks", Routed(Message("unseated", None, s)))

Dismiss(say) ==
    /\ phase = "running" /\ Spend("dismiss")
    /\ Land("asks", [Message("dismissed", None, None) EXCEPT !.about = say.seq])

Cancel ==
    /\ phase = "running" /\ Spend("cancel")
    /\ Land("other", [type |-> "cancel", at |-> now])

LeaseEntry(id, ph, reason, cause, read, expires) ==
    [type |-> "lease", id |-> id, phase |-> ph, reason |-> reason, cause |-> cause,
     read |-> read, expires |-> expires, at |-> now]

SeatHeld(id) ==
    \E other \in DOMAIN room.leases :
        other # id /\ other.seat = id.seat /\ IsLive(room.leases[other], now)

\* Mutant of Admission: a claim does not ask whether the seat is held.
AdmissionUnheld(kind, id) ==
    AdmitsLease(kind, PhaseOf(room.leases, id),
        id \in DOMAIN room.leases /\ IsLive(room.leases[id], now),
        \E d \in Due(room) : d.id = id, FALSE)

Admission(kind, id) ==
    AdmitsLease(kind, PhaseOf(room.leases, id),
        id \in DOMAIN room.leases /\ IsLive(room.leases[id], now),
        \E d \in Due(room) : d.id = id, SeatHeld(id))

\* runningLease: the claim or the renewal that the admission grants.
Run(kind, id, read) ==
    /\ phase = "running"
    /\ Granted(room, id)
    /\ Admission(kind, id) = "granted"
    /\ LET claimedAt == IF id \in DOMAIN room.leases
                        THEN room.leases[id].claimedAt ELSE now IN
       Land("other", LeaseEntry(id, "running", "none", "none", read,
                                LeaseExpiry(now, claimedAt)))

\* A first claim is not bounded; a claim taken twice is a renewal.
Claim(id) ==
    /\ IF id \in DOMAIN room.leases THEN Spend("renew") ELSE UNCHANGED left
    /\ Run("claim", id, 0)

Renew(id, read) ==
    /\ Spend("renew")
    /\ Run("renew", id, read)

\* A seat ends the lease it holds the authority of.
Release(id, reason, cause, read) ==
    /\ Admitting
    /\ IF reason = "failed" THEN Spend("fail") ELSE UNCHANGED left
    /\ SeatAuthority(room, id, now)
    /\ Land("asks", LeaseEntry(id, "ended", reason, cause, read, 0))

\* A commit is by a seat that holds the authority of its activation.
Committing(id) == Admitting /\ SeatAuthority(room, id, now)

Stamped(m, id) == [m EXCEPT !.act = id]

\* Nothing landed since the seat read the record, or the room refuses the say.
Say(id, to) ==
    /\ Spend("say")
    /\ Committing(id) /\ id.source = "message"
    /\ Addressable(to) /\ to # id.seat
    /\ Land("other", Stamped(Routed(Message("said", id.seat, to)), id))

Schedule(id) ==
    /\ Spend("schedule")
    /\ Committing(id) /\ id.source = "message"
    /\ Land("other", Stamped(Routed([Message("said", id.seat, id.seat)
                                     EXCEPT !.delay = Delay]), id))

DismissOwn(id, say) ==
    /\ Spend("dismiss")
    /\ Committing(id) /\ id.source = "message"
    /\ say.seat = id.seat
    /\ Land("other", Stamped([Message("dismissed", id.seat, None)
                              EXCEPT !.about = say.seq], id))

SeatIntent(id, s) ==
    /\ Spend("seat")
    /\ Committing(id) /\ id.source = "message"
    /\ s \notin room.roster
    /\ Land("other", Stamped(Routed(Message("seated", id.seat, s)), id))

UnseatIntent(id, s) ==
    /\ Spend("seat")
    /\ Committing(id) /\ id.source = "message"
    /\ s \in room.roster \ Fixed
    /\ Land("other", Stamped(Routed(Message("unseated", id.seat, s)), id))

\* A closing activation says once to each person who spoke in the exchange.
Summarize(id, to) ==
    /\ Committing(id) /\ id.source = "closed"
    /\ \E i \in OwingClose(room, id) :
          /\ \A j \in OwingClose(room, id) : i <= j
          /\ LET c == room.closes[i] IN
             /\ to \in RecipientsOf(room, c.from, c.through)
             /\ Covering(room.messages, to, c.from, c.through) = {}
             /\ Land("other", Stamped(Routed([Message("summary", id.seat, to)
                                EXCEPT !.about = c.from, !.through = c.through]), id))
    /\ UNCHANGED left

-----------------------------------------------------------------------------
(* The pass *)

IsStale(id) == id.seat \notin room.roster \/ RemovedAfter(room.messages, id.seat, id.position)

EndSteps(reason) ==
    SetToSeq({[type |-> "end", id |-> id, reason |-> reason, cause |-> "none",
               read |-> room.leases[id].read] :
              id \in {i \in DOMAIN room.leases :
                        EndingOf(room.leases[i], IsStale(i), now) = reason}})

Abandonments ==
    SetToSeq({[type |-> "end", id |-> d.id, reason |-> "abandoned", read |-> 0,
               cause |-> IF d.permanent THEN "permanent" ELSE "transient"] :
              d \in {o \in Due(room) : Capped(o)}})

\* What may be closed or returned, once the projection holds every ending.
Closing ==
    IF CloseAdmission(room.exchange, room.exchange.from, room.lastSeq, room.lastSeq,
                      ExchangeLive(room.leases, Due(room), now)) = "admitted"
    THEN <<[type |-> "close", from |-> room.exchange.from, through |-> room.lastSeq]>>
    ELSE <<>>

Returnable(say) == say.due <= now /\ say.seat \in room.roster

\* The earliest say first.
Returns ==
    LET ready == {s \in room.scheduled : Returnable(s)}
        nth(n) == CHOOSE s \in ready : Cardinality({r \in ready : r.seq < s.seq}) = n - 1
    IN [n \in 1..Cardinality(ready) |-> [type |-> "return", seq |-> nth(n).seq]]

Steps ==
    LET ends == EndSteps("revoked") \o EndSteps("expired") \o Abandonments IN
    IF ends # <<>> THEN ends ELSE Closing \o Returns

\* The later of the backoff on the record and the resend window in memory.
DueAt(d) ==
    IF d.notBefore > now THEN d.notBefore
    ELSE IF d.id \in DOMAIN sent THEN sent[d.id] + Resend ELSE now

Owing == {d \in Due(room) : ~Capped(d)}

Sends == {d.id : d \in {o \in Owing : DueAt(o) <= now}}

\* Mutants of NextAlarm: the room forgets to look again at what it owes, or at
\* the says that wait.
AlarmForExpiries ==
    LET times == {room.leases[id].expires :
                    id \in {i \in DOMAIN room.leases : IsLive(room.leases[i], now)}}
                 \cup {s.due : s \in room.scheduled}
        future == {t \in times : t > now}
    IN IF future = {} THEN 0 ELSE Earliest(future)

AlarmForWork ==
    LET times == {room.leases[id].expires :
                    id \in {i \in DOMAIN room.leases : IsLive(room.leases[i], now)}}
                 \cup {IF DueAt(d) > now THEN DueAt(d) ELSE now + Resend : d \in Owing}
        future == {t \in times : t > now}
    IN IF future = {} THEN 0 ELSE Earliest(future)

NextAlarm ==
    LET times == {room.leases[id].expires :
                    id \in {i \in DOMAIN room.leases : IsLive(room.leases[i], now)}}
                 \cup {IF DueAt(d) > now THEN DueAt(d) ELSE now + Resend : d \in Owing}
                 \cup {s.due : s \in room.scheduled}
        future == {t \in times : t > now}
    IN IF future = {} THEN 0 ELSE Earliest(future)

\* What the room still waits on of what it sent.
Kept == [id \in DOMAIN sent \cap {d.id : d \in Due(room)} |-> sent[id]]

\* sendWake, for the wakes the record still grants; the pass ends or goes on.
SendAndFinish(p, keeps) ==
    LET going == {id \in p.sends : Granted(room, id)}
        again == p.changed \/ p.sends # {}
    IN
    /\ wired' = wired \cup going
    /\ sent' = [id \in DOMAIN keeps \cup going |-> IF id \in going THEN now ELSE keeps[id]]
    /\ IF again /\ p.count + 1 < Passes
       THEN pass' = [NoPass EXCEPT !.stage = "next", !.count = p.count + 1]
            /\ UNCHANGED alarm
       ELSE pass' = NoPass /\ alarm' = IF again THEN now + Resend ELSE p.alarm

\* Decide: what to end, close and return, whom to wake, when to look again.
Plan ==
    /\ phase = "running"
    /\ pass.stage = "next" \/ (pass.stage = "idle" /\ asked)
    /\ asked' = (asked /\ pass.stage = "next")
    /\ LET p == [stage |-> "steps", steps |-> Steps, sends |-> Sends,
                 alarm |-> NextAlarm, changed |-> FALSE, count |-> pass.count] IN
       IF p.steps = <<>> THEN SendAndFinish(p, Kept)
       ELSE pass' = p /\ sent' = Kept /\ UNCHANGED <<alarm, wired>>
    /\ UNCHANGED <<log, heard, room, flight, now, phase, left>>

\* Mutant of EndDecision: a step is written as the pass planned it.
EndAsPlanned(s) == {LeaseEntry(s.id, "ended", s.reason, s.cause, s.read, 0)}

EndDecision(s) ==
    IF MayEnd(PhaseOf(room.leases, s.id), s.reason,
              s.id \in DOMAIN room.leases /\ IsExpired(room.leases[s.id], now))
    THEN {LeaseEntry(s.id, "ended", s.reason, s.cause, s.read, 0)}
    ELSE {}

CloseDecision(s) ==
    CloseAdmission(room.exchange, s.from, s.through, room.lastSeq,
                   ExchangeLive(room.leases, Due(room), now))

\* The close names its person, and a writer when there is something to report.
CloseEntry(s) ==
    LET person == room.exchange.person IN
    [type |-> "close", from |-> s.from, through |-> s.through, person |-> person,
     writer |-> IF person # None
                   /\ OwesSummary(room.messages, room.known, s.from, s.through)
                THEN SummaryWriter(room.roster) ELSE None]

\* Mutant of ReturnDecision: the say returns because the pass saw it wait.
ReturnAsPlanned(s) ==
    {Routed([Message("system", None, log[s.seq].from) EXCEPT !.about = s.seq])}

ReturnDecision(s) ==
    {Routed([Message("system", None, say.seat) EXCEPT !.about = say.seq]) :
        say \in {x \in room.scheduled : x.seq = s.seq /\ Returnable(x)}}

\* The entry a step writes, decided where it lands.
StepEntry(s) ==
    CASE s.type = "end"    -> EndDecision(s)
      [] s.type = "return" -> ReturnDecision(s)
      [] OTHER             -> IF CloseDecision(s) = "admitted" THEN {CloseEntry(s)} ELSE {}

Stepping == Admitting /\ pass.stage = "steps" /\ pass.steps # <<>>

StepWrites ==
    /\ Stepping
    /\ \E e \in StepEntry(Head(pass.steps)) : Land("pass", e)
    /\ UNCHANGED left

\* A close of a range that moved on counts as a change: the room plans again.
StepWritesNothing ==
    /\ Stepping /\ Free
    /\ LET s == Head(pass.steps) IN
       /\ StepEntry(s) = {}
       /\ pass' = [pass EXCEPT !.steps = Tail(@),
                     !.changed = @ \/ (s.type = "close" /\ CloseDecision(s) = "replan")]
    /\ UNCHANGED <<log, heard, room, flight, now, phase, alarm, sent, asked, wired, left>>

\* The storage refuses a step: the pass ends, and a running room looks again later.
StepFails ==
    /\ Stepping /\ Free /\ Spend("fault")
    /\ pass' = NoPass
    /\ alarm' = IF phase = "running" THEN now + Resend ELSE alarm
    /\ UNCHANGED <<log, heard, room, flight, now, phase, sent, asked, wired>>

Send ==
    /\ phase = "running" /\ pass.stage = "steps" /\ pass.steps = <<>>
    /\ SendAndFinish(pass, sent)
    /\ UNCHANGED <<log, heard, room, flight, now, phase, asked, left>>

AlarmRings ==
    /\ alarm # 0 /\ alarm <= now
    /\ alarm' = 0
    /\ asked' = TRUE
    /\ UNCHANGED <<log, heard, room, flight, now, phase, sent, pass, wired, left>>

\* Time passes while something waits on it.  Waiting out the resend window of
\* a wake nobody took is bounded.
Tick ==
    /\ left["tick"] > 0
    /\ \/ /\ \/ \E id \in DOMAIN room.leases :
                   room.leases[id].phase = "running" /\ now < room.leases[id].expires
             \/ \E d \in Due(room) : now < d.notBefore
             \/ \E s \in room.scheduled : now < s.due
             \/ now < alarm /\ DOMAIN Kept \subseteq DOMAIN room.leases
          /\ Spend("tick")
       \/ /\ now < alarm /\ left["resend"] > 0
          /\ left' = [left EXCEPT !["resend"] = @ - 1, !["tick"] = @ - 1]
    /\ now' = now + 1
    /\ UNCHANGED <<log, heard, room, flight, phase, memory, wired>>

-----------------------------------------------------------------------------
(* Stop, crash and resume *)

\* What a stop leaves of a pass: the step that is under way, or an ending that
\* waits in the queue (control.ts:162).  A close and a return that wait there
\* are written only while the room runs.
Queued ==
    IF pass.stage = "steps" /\ pass.steps # <<>>
       /\ (flight = "pass" \/ Head(pass.steps).type = "end")
    THEN [pass EXCEPT !.steps = <<Head(@)>>] ELSE NoPass

Stop ==
    /\ phase = "running" /\ Spend("stop")
    /\ phase' = "stopping"
    /\ alarm' = 0
    /\ pass' = Queued
    /\ UNCHANGED <<log, heard, room, flight, now, sent, asked, wired>>

RunningLeases == {id \in DOMAIN room.leases : room.leases[id].phase = "running"}

\* stopWork: one running lease after another, behind what waits in the queue.
StopRevokes ==
    /\ phase = "stopping" /\ ~Stepping
    /\ \E id \in RunningLeases :
          Land("stop", LeaseEntry(id, "ended", "revoked", "none", 0, 0))
    /\ UNCHANGED left

\* leaveEverybody: it wakes nobody.
StopLeaves ==
    /\ phase = "stopping" /\ ~Stepping /\ RunningLeases = {}
    /\ \E p \in room.present : Land("stop", Message("left", p, p))
    /\ UNCHANGED left

StopEnds ==
    /\ phase = "stopping" /\ Free /\ ~Stepping
    /\ RunningLeases = {} /\ room.present = {}
    /\ Forget("down")
    /\ UNCHANGED <<log, heard, room, flight, now, wired, left>>

\* The process is gone with all it held in memory.
Crash ==
    /\ phase # "down" /\ Spend("crash")
    /\ Forget("down")
    /\ flight' = "none"
    /\ UNCHANGED <<log, heard, room, now, wired>>

\* Mutant of Compose: the next run goes on from what the last one had heard.
ComposeUnread(seats) ==
    /\ phase = "down"
    /\ log' = Append(log, Composition(seats))
    /\ heard' = Len(log')
    /\ room' = Advance(room, Composition(seats), Len(log'))
    /\ phase' = "running"
    /\ asked' = TRUE
    /\ UNCHANGED <<flight, now, alarm, sent, pass, wired>>

\* The next run replays the record and composes the room on it.
Compose(seats) ==
    /\ phase = "down"
    /\ log' = Append(log, Composition(seats))
    /\ heard' = Len(log')
    /\ room' = Replay(log')
    /\ phase' = "running"
    /\ asked' = TRUE
    /\ UNCHANGED <<flight, now, alarm, sent, pass, wired>>

Resume == Compose(Replay(log).roster) /\ UNCHANGED left

\* A host may start the name again with another cast.
Restart == \E cast \in Recasts : Spend("recast") /\ Compose(cast)

-----------------------------------------------------------------------------
\* What a seat may say it has read: nothing, what woke it, or the record.
Acks(id) ==
    {CASE r = "nothing" -> 0 [] r = "cause" -> id.position [] OTHER -> room.lastSeq :
     r \in Reads}

People ==
    \/ \E p \in Person : Arrive(p) \/ Leave(p) \/ \E to \in Named : Deliver(p, to)
    \/ \E to \in Named : Post(to)

Host ==
    \/ \E s \in Seat : SeatAgent(s) \/ UnseatAgent(s)
    \/ \E say \in room.scheduled : Dismiss(say)
    \/ Cancel \/ Stop

Seats ==
    \/ \E id \in wired : Claim(id)
    \/ \E id \in DOMAIN room.leases :
          \/ \E read \in Acks(id) :
                \/ Renew(id, read)
                \/ Release(id, "released", "none", read)
          \/ \E cause \in {"transient", "permanent"} : Release(id, "failed", cause, 0)
          \/ \E to \in Seat \cup Named : Say(id, to)
          \/ Schedule(id)
          \/ \E say \in room.scheduled : DismissOwn(id, say)
          \/ \E s \in Seat : SeatIntent(id, s) \/ UnseatIntent(id, s)
          \/ \E p \in Person : Summarize(id, p)

Machine ==
    \/ Confirm \/ Hear \/ Plan \/ StepWrites \/ StepWritesNothing \/ Send
    \/ AlarmRings \/ Tick \/ StopRevokes \/ StopLeaves \/ StopEnds \/ Resume

Next ==
    \/ People \/ Host \/ Seats \/ Machine
    \/ LoseAnswer \/ StepFails \/ Crash \/ Restart

Spec == Init /\ [][Next]_vars

(* What the code goes on with by itself: the journal answers a write and a   *)
(* read, the reconcile chain runs its passes, the clock goes on and rings,   *)
(* a host starts a room again, and a seat answers a wake with a claim.  No   *)
(* seat is assumed to renew, to release or to say anything.                  *)
FairSpec ==
    /\ Spec
    /\ WF_vars(Confirm) /\ WF_vars(Hear)
    /\ WF_vars(Plan) /\ WF_vars(StepWrites) /\ WF_vars(StepWritesNothing) /\ WF_vars(Send)
    /\ WF_vars(Tick) /\ WF_vars(AlarmRings) /\ []<>(phase # "down")
    /\ WF_vars(\E id \in wired \ DOMAIN room.leases : Claim(id))

=============================================================================
