---------------------------- MODULE Projection ----------------------------
(***************************************************************************)
(* The room's derived facts as a projection that one journal entry updates *)
(* (packages/ambion/src/room/projection.ts, responds.ts, owed.ts,          *)
(* scheduled.ts, presence.ts, fold.ts).  The open wakes, the owed          *)
(* summaries, the scheduled says, the roster, the tail after the boundary  *)
(* and the open exchange are indexes: an entry changes only what it names, *)
(* and what an index drops it never takes back.                            *)
(*                                                                         *)
(* The indexes of the leases (running, by seat, by closed position) are    *)
(* read off the leases here.                                               *)
(***************************************************************************)
EXTENDS RoomRules, Sequences, SequencesExt

\* A held wake is answered only while the seat's running lease runs.
Held == [id |-> None, notBefore |-> 0, permanent |-> FALSE]

EmptyProjection ==
    [roster      |-> {},
     known       |-> {},   \* people the record knows
     present     |-> {},
     exchange    |-> NoExchange,
     boundary    |-> 0,    \* through of the last close
     tail        |-> {},   \* says and system messages after the boundary
     messages    |-> {},
     closes      |-> <<>>,
     cancelledAt |-> 0,
     leases      |-> [id \in {} |-> 0],
     wakes       |-> {},   \* [seat, position, due], due is Held while held
     owed        |-> {},   \* [person, from, due]
     scheduled   |-> {},   \* [seq, seat, due]
     lastSeq     |-> 0]    \* of the last message, not of the last entry

\* Every activation the room owes.
Due(p) ==
    {w.due : w \in {v \in p.wakes : v.due # Held /\ v.seat \in p.roster}}
    \cup {o.due : o \in p.owed}

-----------------------------------------------------------------------------
(* responds.ts *)

\* The wake of one seat for one message: pending, held, or gone for good.
JudgeWake(leases, seat, seq) ==
    LET taken   == Taken(leases, seat, seq)
        settled == {id \in taken : leases[id].phase = "ended"}
    IN CASE ~Answered(leases, taken, seq) ->
               {[seat |-> seat, position |-> seq, due |-> DueRespond(leases, seat, seq)]}
         [] Answered(leases, settled, seq) -> {}
         [] OTHER -> {[seat |-> seat, position |-> seq, due |-> Held]}

\* Mutant of RejudgeSeat: a wake that a running lease holds is dropped.
RejudgeSeatDropsHeld(wakes, leases, seat) ==
    {w \in wakes : w.seat # seat}
    \cup UNION {{v \in JudgeWake(leases, seat, w.position) : v.due # Held} :
                w \in {v \in wakes : v.seat = seat}}

RejudgeSeat(wakes, leases, seat) ==
    {w \in wakes : w.seat # seat}
    \cup UNION {JudgeWake(leases, seat, w.position) : w \in {v \in wakes : v.seat = seat}}

\* Mutant of DropSeat: what a removed seat was owed waits for its return.
DropSeatKeeps(wakes, seat) == wakes

DropSeat(wakes, seat) == {w \in wakes : w.seat # seat}

-----------------------------------------------------------------------------
(* owed.ts, exchange.ts *)

\* The summary a close still owes, none when it is settled for good.
JudgeOwed(p, close) ==
    LET writer == close.writer
        summaries == SummaryLeases(p.leases, close.through, writer)
        verdict == SummaryVerdict(writer # None,
                       RemovedAfter(p.messages, writer, close.through), p.leases,
                       summaries, close.through < p.cancelledAt)
    IN IF \/ verdict # "owed"
          \/ \E m \in Covering(p.messages, close.person, close.from, close.through) :
                m.from = writer
       THEN {}
       ELSE {[person |-> close.person, from |-> close.from,
              due |-> DueActivation("closed", close.through, writer,
                        {id \in summaries : CountsAgainst(id, p.leases[id], close.through)},
                        p.leases)]}

CloseOf(o) == [person |-> o.person, from |-> o.from, through |-> o.due.id.position,
               writer |-> o.due.id.seat]

\* The affected summaries read again, the others kept.
RejudgeOwed(p, affected) ==
    (p.owed \ affected) \cup UNION {JudgeOwed(p, CloseOf(o)) : o \in affected}

-----------------------------------------------------------------------------
(* scheduled.ts *)

ScheduleStep(list, m) ==
    CASE m.kind = "system" /\ m.about > 0 -> {s \in list : s.seq # m.about}
      [] m.kind = "dismissed"             -> {s \in list : s.seq # m.about}
      [] m.kind = "unseated"              -> {s \in list : s.seat # m.to}
      [] m.kind = "said" /\ m.delay > 0   ->
            list \cup {[seq |-> m.seq, seat |-> m.from, due |-> m.at + m.delay]}
      [] OTHER                            -> list

-----------------------------------------------------------------------------
(* One step per kind of entry *)

OnMessage(p, e, seq) ==
    LET m == [e EXCEPT !.seq = seq]
        q == [p EXCEPT
               !.messages = @ \cup {m},
               !.tail     = IF Text(m) THEN @ \cup {m} ELSE @,
               !.known    = IF m.kind = "arrived" THEN @ \cup {m.to} ELSE @,
               !.present  = CASE m.kind = "arrived" -> @ \cup {m.to}
                              [] m.kind = "left"    -> @ \ {m.to}
                              [] OTHER              -> @,
               !.roster   = CASE m.kind = "seated"   -> @ \cup {m.to}
                              [] m.kind = "unseated" -> @ \ {m.to}
                              [] OTHER               -> @,
               !.scheduled = ScheduleStep(@, m),
               !.lastSeq  = seq]
    IN [q EXCEPT
          !.exchange = IF m.kind \in {"said", "system", "arrived"}
                       THEN ExchangeAfter(q.tail, q.known, q.boundary) ELSE @,
          !.wakes = (IF m.kind = "unseated" THEN DropSeat(@, m.to) ELSE @)
                    \cup UNION {JudgeWake(p.leases, seat, seq) :
                                seat \in Recipients(m, p.leases)},
          !.owed = CASE m.kind = "summary"  -> RejudgeOwed(q, q.owed)
                     [] m.kind = "unseated" ->
                           RejudgeOwed(q, {o \in q.owed : o.due.id.seat = m.to})
                     [] OTHER               -> @]

OnLease(p, e, seq) ==
    LET q == [p EXCEPT !.leases = ApplyChange(@, e, seq)] IN
    IF e.id.source = "closed"
    THEN [q EXCEPT !.owed = RejudgeOwed(q, {o \in @ : o.due.id.position = e.id.position})]
    ELSE [q EXCEPT !.wakes = RejudgeSeat(@, q.leases, e.id.seat)]

\* A close moves the boundary, drops what it covers and may owe a summary.
ClosedAt(p, close) ==
    LET tail == {m \in p.tail : m.seq > close.through} IN
    [p EXCEPT !.closes   = Append(@, close),
              !.boundary = close.through,
              !.tail     = tail,
              !.exchange = ExchangeAfter(tail, p.known, close.through),
              !.owed     = @ \cup JudgeOwed(p, close)]

OnClose(p, e, seq) ==
    ClosedAt(p, [from |-> e.from, through |-> e.through, person |-> e.person,
                 writer |-> e.writer, cancelled |-> FALSE, at |-> seq])

\* Mutant of OnCancel: the wakes outlive the marker.
OnCancelKeepsWakes(p, e, seq) ==
    LET marked == [p EXCEPT !.leases = CancelHolds(@, seq, e.at),
                            !.cancelledAt = seq, !.scheduled = {}]
        q == [marked EXCEPT !.owed = RejudgeOwed(marked, marked.owed)]
    IN IF p.exchange = NoExchange THEN q
       ELSE ClosedAt(q, [from |-> p.exchange.from, through |-> p.lastSeq,
                         person |-> p.exchange.person, writer |-> None,
                         cancelled |-> TRUE, at |-> seq])

\* A cancellation drops every wake and scheduled say before it, ends the leases
\* before it and closes the open exchange where the record stands.
OnCancel(p, e, seq) ==
    LET marked == [p EXCEPT !.leases = CancelHolds(@, seq, e.at),
                            !.cancelledAt = seq, !.wakes = {}, !.scheduled = {}]
        q == [marked EXCEPT !.owed = RejudgeOwed(marked, marked.owed)]
    IN IF p.exchange = NoExchange THEN q
       ELSE ClosedAt(q, [from |-> p.exchange.from, through |-> p.lastSeq,
                         person |-> p.exchange.person, writer |-> None,
                         cancelled |-> TRUE, at |-> seq])

\* The projection after the entry at place seq of the journal.
Advance(p, e, seq) ==
    CASE e.type = "message" -> OnMessage(p, e, seq)
      [] e.type = "lease"   -> OnLease(p, e, seq)
      [] e.type = "close"   -> OnClose(p, e, seq)
      [] e.type = "cancel"  -> OnCancel(p, e, seq)
      [] OTHER              -> [p EXCEPT !.roster = e.seated]

\* The projections on the way through a journal, one after each entry.
Replays(log) ==
    LET after[n \in 0..Len(log)] ==
            IF n = 0 THEN EmptyProjection ELSE Advance(after[n - 1], log[n], n)
    IN after

\* A room that resumes rebuilds the projection from the whole journal.
Replay(log) == Replays(log)[Len(log)]

-----------------------------------------------------------------------------
(* activation.ts *)

OwingClose(p, id) ==
    {i \in DOMAIN p.closes : p.closes[i].writer = id.seat
                             /\ p.closes[i].through = id.position}

\* Mutant of Granted: a seat that is seated again takes its old work up.
GrantedAgain(p, id) ==
    /\ id.position >= p.cancelledAt
    /\ id.seat \in p.roster
    /\ IF id.source = "message" THEN \E m \in p.messages : m.seq = id.position
       ELSE OwingClose(p, id) # {}

\* The record grants the id an authority.
Granted(p, id) ==
    /\ id.position >= p.cancelledAt
    /\ id.seat \in p.roster
    /\ ~RemovedAfter(p.messages, id.seat, id.position)
    /\ IF id.source = "message" THEN \E m \in p.messages : m.seq = id.position
       ELSE OwingClose(p, id) # {}

\* The seat may act for the activation now.
SeatAuthority(p, id, now) ==
    /\ id \in DOMAIN p.leases
    /\ IsLive(p.leases[id], now)
    /\ Granted(p, id)

\* The people a summary activation addresses.
RecipientsOf(p, from, through) ==
    {m.from : m \in {n \in p.messages : /\ n.kind = "said" /\ n.from \in p.known
                                        /\ n.seq \in from..through}}

=============================================================================
