----------------------------- MODULE RoomSafety -----------------------------
(***************************************************************************)
(* What must hold of one running room, whatever people, seats, the clock   *)
(* and the wire do.  The record is the reference: a property reads the log *)
(* (or the messages, the closes and the final leases) and compares it with *)
(* what the room's indexes and its passes made of it.                      *)
(***************************************************************************)
EXTENDS Room

Places == 1..Len(log)

Said(i) == log[i].type = "message"

\* Entry i ends the authority of every activation of seat caused before it.
EndsAuthority(i, seat) ==
    \/ log[i].type = "cancel"
    \/ Said(i) /\ log[i].kind = "unseated" /\ log[i].to = seat

LeaseId == [source : {"message", "closed"}, position : Places, seat : Seat,
            attempt : Nat \ {0}]

(* Type invariant.  Above the types: the bounds.  No attempt past the cap   *)
(* is put on the wire or runs, a reconcile stays under its passes, and the  *)
(* room remembers only wakes it put on the wire.                            *)
TypeOK ==
    /\ heard \in 0..Len(log)
    /\ flight \in {"none", "pass", "asks", "other", "stop"}
    /\ phase \in {"running", "stopping", "down"}
    /\ now \in 1..Budget["tick"] + 1 /\ alarm \in Nat /\ asked \in BOOLEAN
    /\ pass.stage \in {"idle", "next", "steps"} /\ pass.count < Passes
    /\ DOMAIN room.leases \subseteq LeaseId
    /\ \A d \in Due(room) : d.id \in LeaseId
    /\ \A id \in wired \cup RunningLeases : id.attempt <= Attempts
    /\ DOMAIN sent \subseteq wired
    /\ left \in [Ops -> Nat]

-----------------------------------------------------------------------------
(* The projection *)

\* The wakes the messages decided that no lease has answered, off the record.
FoldedWakes(p) ==
    {DueRespond(p.leases, w[1], w[2].seq) :
        w \in {x \in p.roster \X p.messages :
                 /\ x[2].seq > p.cancelledAt
                 /\ x[1] \in Recipients(x[2], p.leases)
                 /\ ~RemovedAfter(p.messages, x[1], x[2].seq)
                 /\ ~Answered(p.leases, Taken(p.leases, x[1], x[2].seq), x[2].seq)}}

FoldedOwed(p) ==
    UNION {{o.due : o \in JudgeOwed(p, p.closes[i])} :
           i \in {j \in DOMAIN p.closes : p.closes[j].writer # None}}

LastComposition == Latest({i \in 1..heard : log[i].type = "composition"})

FoldedRoster ==
    LET after == {i \in LastComposition + 1..heard :
                    Said(i) /\ log[i].kind \in {"seated", "unseated"}}
        last(s) == Latest({i \in after : log[i].to = s})
    IN {s \in Seat : IF \E i \in after : log[i].to = s
                     THEN log[last(s)].kind = "seated"
                     ELSE s \in log[LastComposition].seated}

\* The scheduled says that nothing in the record finished.
FoldedScheduled ==
    {i \in 1..heard :
        /\ Said(i) /\ log[i].kind = "said" /\ log[i].delay > 0
        /\ \A j \in i + 1..heard :
              /\ ~EndsAuthority(j, log[i].from)
              /\ ~(Said(j) /\ log[j].kind \in {"system", "dismissed"} /\ log[j].about = i)}

(* The indexes answer what the whole record answers: an entry that changed  *)
(* an index dropped nothing that a later entry brings back.  Projection     *)
(* (projection.ts) against the full fold its tests compare it with          *)
(* (test/support/fold.ts).                                                  *)
IndexAgrees ==
    /\ Due(room) = FoldedWakes(room) \cup FoldedOwed(room)
    /\ {m.seq : m \in room.messages} = {i \in 1..heard : Said(i)}
    /\ room.roster = FoldedRoster
    /\ {s.seq : s \in room.scheduled} = FoldedScheduled
    /\ room.exchange = ExchangeAfter(room.messages, room.known, room.boundary)

(* Every activation the room owes can still be claimed: its id was never    *)
(* claimed before, or, for a summary, its lease runs.  The attempts count   *)
(* all that is over, so no wake waits under an id that every claim is       *)
(* refused for (dueActivation, admitsLease).                                *)
AttemptFresh ==
    \A d \in Due(room) :
        PhaseOf(room.leases, d.id) \in (IF d.id.source = "closed" THEN {"none", "running"}
                                       ELSE {"none"})

-----------------------------------------------------------------------------
(* Leases *)

(* A seat is at work on one activation at a time, whichever of its wakes,   *)
(* early, late or repeated, is claimed first (seatHeld).                    *)
OneLivePerSeat ==
    \A i, j \in {id \in DOMAIN room.leases : IsLive(room.leases[id], now)} :
        i.seat = j.seat => i = j

(* The lease entries of one activation tell one story: nothing after its    *)
(* end, an abandonment only of what never ran, and an expiry only when the  *)
(* last entry before it had run out.  The pass decided its endings before   *)
(* the claims, renewals and releases it races with (mayEnd).                *)
LeaseStory ==
    \A i \in {k \in Places : log[k].type = "lease"} :
        LET before == {j \in 1..i - 1 : log[j].type = "lease" /\ log[j].id = log[i].id} IN
        /\ \A j \in before : log[j].phase = "running"
        /\ log[i].reason = "abandoned" => before = {}
        /\ log[i].reason = "expired" =>
              before # {} /\ log[Latest(before)].expires <= log[i].at
        /\ before # {} /\ log[i].reason # "revoked" =>
              \A c \in Latest(before)..i : log[c].type # "cancel"

(* No lease runs and no seat writes for an activation caused before a       *)
(* cancellation, or before its seat was removed, even when the seat is      *)
(* seated again by then (activationSpec, seatAuthority).                    *)
AuthorityHolds ==
    \A i \in Places :
        LET id == CASE log[i].type = "lease" /\ log[i].phase = "running" -> log[i].id
                    [] Said(i) -> log[i].act
                    [] OTHER   -> None
        IN id # None => \A j \in id.position + 1..i - 1 : ~EndsAuthority(j, id.seat)

(* Nothing from before a cancellation is owed, runs or waits to return:     *)
(* whatever was held, due or scheduled then, no later entry revives it.     *)
CancelledStaysDead ==
    /\ \A d \in Due(room) : d.id.position > room.cancelledAt
    /\ \A id \in RunningLeases : id.position > room.cancelledAt
    /\ \A i \in room.cancelledAt + 1..Len(log) :
          Said(i) /\ log[i].kind = "system" /\ log[i].about > 0
             => log[i].about > room.cancelledAt

-----------------------------------------------------------------------------
(* Exchanges *)

Questions ==
    {i \in 1..heard : Said(i) /\ (log[i].kind = "system"
                                  \/ (log[i].kind = "said" /\ log[i].from \in Person))}

(* Every question belongs to exactly one exchange: the open one or one that *)
(* is closed.  No close skips a question that landed beside it, and no two  *)
(* closes cover the same one.                                               *)
OneExchangeEach ==
    \A i \in Questions :
        LET over == {k \in DOMAIN room.closes :
                       i \in room.closes[k].from..room.closes[k].through}
            open == room.exchange.from > 0 /\ room.exchange.from <= i
        IN IF open THEN over = {} ELSE Cardinality(over) = 1

(* A close lands only on a quiet record: read off the whole record at that  *)
(* moment, no seat is at work on a message, none is owed for one, and the   *)
(* close reaches the last message (closeAdmission).                         *)
ClosesWhenQuiet ==
    \A i \in Len(log) + 1..Len(log') : log'[i].type = "close" =>
        LET p == Replay(log) IN
        /\ FoldedWakes(p) = {}
        /\ \A id \in DOMAIN p.leases :
              id.source = "message" => ~IsLive(p.leases[id], now)
        /\ \A j \in log'[i].through + 1..Len(log) : ~Said(j)

CloseQuiet == [][ClosesWhenQuiet]_vars

(* An exchange is summarised at most once to one person, by the writer its  *)
(* close names, however often the closing activation is tried again.        *)
SummaryOnce ==
    \A i \in {k \in Places : Said(k) /\ log[k].kind = "summary"} :
        /\ \A j \in Places \ {i} :
              ~(Said(j) /\ log[j].kind = "summary" /\ log[j].to = log[i].to
                /\ log[j].about = log[i].about)
        /\ \E c \in 1..i : /\ log[c].type = "close" /\ log[c].from = log[i].about
                           /\ log[c].writer = log[i].from

(* A scheduled say is finished once: it returns, not before its time, or it *)
(* is dismissed, by the host or by its author, never both (returning).      *)
ReturnedOnce ==
    \A i \in {k \in Places : Said(k) /\ log[k].delay > 0} :
        LET over == {j \in Places : Said(j) /\ log[j].kind \in {"system", "dismissed"}
                                            /\ log[j].about = i}
        IN /\ Cardinality(over) <= 1
           /\ \A j \in over : log[j].kind = "system" => log[j].at >= log[i].at + log[i].delay

-----------------------------------------------------------------------------
(* Going on *)

\* Something only the room itself can bring further.
Unsettled ==
    \/ room.exchange # NoExchange
    \/ Due(room) # {}
    \/ RunningLeases # {}
    \/ \E s \in room.scheduled : s.seat \in room.roster

(* A room that has something to settle has a pass under way, one asked for, *)
(* an alarm set or an entry to hear: it never sleeps over it (exchange.ts:  *)
(* the room reconciles when nothing is live, and writes a close).           *)
NeverAsleep ==
    phase = "running" /\ Unsettled =>
        asked \/ pass # NoPass \/ alarm # 0 \/ ~Free

(* Whatever the seats leave undone, the room comes to rest: every exchange  *)
(* closes, every wake and every summary is answered or given up on, and     *)
(* every scheduled say returns.  It takes the lease expiries, the retries,  *)
(* the attempt cap, the alarm and the passes together.                      *)
Rest ==
    /\ phase = "running" /\ Free
    /\ room.exchange = NoExchange /\ Due(room) = {} /\ RunningLeases = {}
    /\ room.scheduled = {}

ComesToRest == []<>Rest

(* What docs/durability.md says of a stop: every running lease and every    *)
(* pending activation is settled, and no execution obligation is left.      *)
StopSettlesEverything ==
    [][StopEnds => RunningLeases = {} /\ Due(room) = {}]_vars

(* What docs/limits.md says of the resend window: the room sends a wake     *)
(* again that stayed unanswered.  A claim answers it.                       *)
ResendsOnlyUnanswered ==
    [][Plan => Sends \cap DOMAIN room.leases = {}]_vars

=============================================================================
