----------------------------- MODULE Exchanges -----------------------------
(***************************************************************************)
(* What a reader of a room learns of its exchanges (room/exchange.ts,      *)
(* rules.verified.ts): the status, the activations, the outcome and the    *)
(* summary of each, computed from the projection at every read and every   *)
(* time a caller's wait is looked at again.                                *)
(*                                                                         *)
(* Left out: texts, times and usage.  A set stands for the recipients, in  *)
(* the order they spoke in the code.                                       *)
(***************************************************************************)
EXTENDS RoomSafety

\* The messages of an inclusive range.
RangeOf(p, from, through) == {m \in p.messages : m.seq \in from..through}

Aloud(m) == m.kind = "said" /\ m.delay = 0

\* What each person said last, or 0.
LastSaid(p, person) ==
    LET said == {m.seq : m \in {n \in p.messages : n.kind = "said" /\ n.from = person}} IN
    IF said = {} THEN 0 ELSE Latest(said)

\* Whom the last say of the range asks, when they said nothing since.  Who
\* asked the question is not asked by its answer.
AwaitedPerson(p, close) ==
    LET range == RangeOf(p, close.from, close.through)
        asker == (CHOOSE m \in range : \A n \in range : m.seq <= n.seq).from
        said  == {m \in range : Aloud(m)}
        last  == CHOOSE m \in said : \A n \in said : n.seq <= m.seq
    IN IF /\ said # {} /\ last.to \in p.known /\ last.to # asker
          /\ LastSaid(p, last.to) <= last.seq
       THEN last.to ELSE None

ActivationsInRange(p, from, through) == {id \in DOMAIN p.leases : id.position \in from..through}

\* The room gave up on an answer.
Exhausted(p, close) ==
    \E id \in ActivationsInRange(p, close.from, close.through) :
        id.source = "message" /\ p.leases[id].phase = "ended" /\ p.leases[id].reason = "abandoned"

ExchangeOutcome(p, close) ==
    CASE close.cancelled                 -> "cancelled"
      [] ~close.cancelled /\ Exhausted(p, close) -> "exhausted"
      [] OTHER -> IF AwaitedPerson(p, close) # None THEN "awaiting" ELSE "complete"

Published(p, close) ==
    {m.seq : m \in {n \in Covering(p.messages, close.person, close.from, close.through) :
                      n.from = close.writer}}

\* How the summary of a close stands: the first one published, or why there is none.
SummaryCompletion(p, close) ==
    LET found   == IF close.writer = None THEN {} ELSE Published(p, close)
        verdict == SummaryVerdict(close.writer # None,
                       RemovedAfter(p.messages, close.writer, close.through), p.leases,
                       SummaryLeases(p.leases, close.through, close.writer),
                       close.through < p.cancelledAt)
    IN CASE found # {} -> [kind |-> "published", seq |-> Earliest(found)]
         [] found = {} /\ verdict = "owed" -> [kind |-> "pending", seq |-> 0]
         [] OTHER -> [kind |-> verdict, seq |-> 0]

OutcomeOf(lease) ==
    IF lease.phase = "running" THEN [kind |-> "running", cancelled |-> FALSE]
    ELSE [kind |-> lease.reason, cancelled |-> lease.cancelled]

ExchangeActivations(p, ids) == [id \in ids |-> OutcomeOf(p.leases[id])]

ClosedExchange(p, close) ==
    [from |-> close.from, through |-> close.through, person |-> close.person,
     activations |-> ExchangeActivations(p, ActivationsInRange(p, close.from, close.through)),
     outcome |-> ExchangeOutcome(p, close), summary |-> SummaryCompletion(p, close)]

-----------------------------------------------------------------------------
(* The session that an activation goes on with *)

\* Mutant of ServedExchange: an activation serves what is open.
ServedWhatIsOpen(p, id) == p.exchange.from

\* The exchange of an activation, or 0 outside every exchange.
ServedExchange(p, id) ==
    LET over == {i \in DOMAIN p.closes : IF id.source = "closed" THEN p.closes[i].through = id.position
                                         ELSE id.position \in p.closes[i].from..p.closes[i].through}
    IN CASE id.source = "message" /\ p.exchange.from > 0 /\ id.position >= p.exchange.from
                -> p.exchange.from
         [] OTHER -> IF over = {} THEN 0 ELSE p.closes[Earliest(over)].from

-----------------------------------------------------------------------------

\* What a reader is told of the closed exchanges.
Told(p) == {ClosedExchange(p, p.closes[i]) : i \in DOMAIN p.closes}

Final == {"published", "silent", "failed"}

\* A person who answers settles what awaits them; no other outcome changes.
Turns == {<<"awaiting", "complete">>} \cup {<<o, o>> : o \in {"cancelled", "exhausted", "awaiting", "complete"}}

\* What a reader was told of a closed exchange and may not be told otherwise.
StaysTold(old, new) ==
    /\ new.from = old.from /\ new.through = old.through /\ new.person = old.person
    /\ old.summary.kind \in Final => new.summary = old.summary
    /\ <<old.outcome, new.outcome>> \in Turns
    /\ \A id \in DOMAIN old.activations :
          /\ id \in DOMAIN new.activations
          /\ old.activations[id].kind # "running" => new.activations[id] = old.activations[id]
    /\ \A id \in DOMAIN new.activations \ DOMAIN old.activations :
          \/ id.source = "closed"
          \/ old.outcome = "cancelled" /\ new.activations[id].kind = "abandoned"

(* What a caller reads of a closed exchange is final: its range, its        *)
(* outcome but for a person who answers, and a summary once there is one or *)
(* none to come; and no lease leaves the exchange it served, so a session   *)
(* never crosses one.  All of it is computed again at every read, from      *)
(* leases, messages and marks that go on changing after the close.          *)
ViewsSettle ==
    [][Len(room'.closes) >= Len(room.closes) =>
        /\ \A old \in Told(room) : \E new \in Told(room') : StaysTold(old, new)
        /\ \A id \in DOMAIN room.leases :
              ServedExchange(room, id) \in {0, ServedExchange(room', id)}
      ]_room

=============================================================================
