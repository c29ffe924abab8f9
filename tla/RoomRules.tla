----------------------------- MODULE RoomRules -----------------------------
(***************************************************************************)
(* The rules a room decides by (packages/ambion/src/room): pure functions  *)
(* over activation ids, leases, messages and closes.  The projection and   *)
(* the room's own decisions are built from them.                           *)
(*                                                                         *)
(* An activation id is the fact that caused it: the position of a message  *)
(* or of the end of a closed range, the seat, and the attempt.  Nothing    *)
(* mints one.  leases is a function from the ids that ever held a lease to *)
(* what their entries fold to.  Times are numbers; 0 stands for no time    *)
(* and no position.                                                        *)
(*                                                                         *)
(* Left out: texts, refs, identities, usage and vendor sessions.  A        *)
(* backoff is the same after every attempt.                                *)
(***************************************************************************)
EXTENDS Integers, FiniteSets

CONSTANTS
    Seat,       \* the agents a binding exists for
    Person,
    None,       \* no participant, no activation
    Writer,     \* the composition's summary writer: a seat, or None
    Attention,  \* what each seat is seated at
    Fixed,      \* seats that no agent may unseat
    Ttl, Deadline, Backoff, Resend,   \* spans of the clock
    Attempts    \* tries at one activation before the room gives up on it

Width == [none |-> 0, named |-> 1, broadcast |-> 2, presence |-> 3]

ASSUME RulesAssumption ==
    /\ IsFiniteSet(Seat)
    /\ Seat \cap Person = {}
    /\ None \notin Seat \cup Person
    /\ None \notin [source : {"message", "closed"}, position : Nat, seat : Seat, attempt : Nat]
    /\ Writer \in Seat \cup {None}
    /\ Attention \in [Seat -> DOMAIN Width]
    /\ Fixed \subseteq Seat
    /\ Ttl \in Nat \ {0} /\ Deadline \in Nat \ {0}
    /\ Backoff \in Nat /\ Resend \in Nat \ {0}
    /\ Attempts \in Nat \ {0}

Latest(s) == CHOOSE x \in s : \A y \in s : y <= x
Earliest(s) == CHOOSE x \in s : \A y \in s : x <= y

-----------------------------------------------------------------------------
(* Leases *)

Activation(source, position, seat, attempt) ==
    [source |-> source, position |-> position, seat |-> seat, attempt |-> attempt]

IsExpired(lease, now) == lease.phase = "running" /\ lease.expires <= now

IsLive(lease, now) == lease.phase = "running" /\ ~IsExpired(lease, now)

LeaseExpiry(now, claimedAt) == Earliest({now + Ttl, claimedAt + Deadline})

CoversAttempt(lease, seq) == lease.phase = "running" \/ seq <= lease.until

CameToNothing(lease) == lease.reason \in {"failed", "expired"}

\* Whether the lease of activation id answers the message at seq.
Answers(id, lease, seq) ==
    \/ lease.phase = "running"
    \/ /\ ~CameToNothing(lease)
       /\ \/ lease.reason \in {"abandoned", "revoked"} /\ id.position = seq
          \/ lease.read >= seq

\* Mutant of CountsAgainst: an attempt that ended without an answer is no attempt.
CountsFailures(id, lease, seq) == lease.phase = "ended" /\ CameToNothing(lease)

CountsAgainst(id, lease, seq) ==
    lease.phase = "ended" /\ (CameToNothing(lease) \/ id.position = seq)

PhaseOf(leases, id) == IF id \in DOMAIN leases THEN leases[id].phase ELSE "none"

\* "none" is a lease the journal never held.
MayEnd(phase, reason, pastExpiry) ==
    CASE phase = "none"  -> reason \in {"revoked", "abandoned"}
      [] phase = "ended" -> FALSE
      [] OTHER           -> \/ reason = "revoked"
                            \/ reason # "abandoned" /\ pastExpiry = (reason = "expired")

EndingOf(lease, stale, now) ==
    IF lease.phase # "running" THEN "stays"
    ELSE IF stale THEN "revoked"
    ELSE IF IsExpired(lease, now) THEN "expired" ELSE "stays"

AdmitsLease(kind, phase, live, owed, held) ==
    IF phase = "none"
    THEN IF kind = "renew" \/ ~owed THEN "ended" ELSE IF held THEN "held" ELSE "granted"
    ELSE IF live THEN "granted" ELSE "ended"

\* One lease entry applied: the first fixes the activation, ended is final,
\* and what was acknowledged never moves back.
ApplyChange(leases, e, seq) ==
    LET fresh == e.id \notin DOMAIN leases
        known == leases[e.id]
    IN IF ~fresh /\ known.phase = "ended" THEN leases
       ELSE [id \in DOMAIN leases \cup {e.id} |->
               IF id # e.id THEN leases[id]
               ELSE [phase     |-> e.phase,
                     at        |-> e.at,
                     claimedAt |-> IF fresh THEN e.at ELSE known.claimedAt,
                     opened    |-> IF fresh THEN seq ELSE known.opened,
                     read      |-> IF fresh THEN e.read ELSE Latest({known.read, e.read}),
                     expires   |-> e.expires,
                     reason    |-> e.reason,
                     cause     |-> e.cause,
                     cancelled |-> FALSE,
                     until     |-> IF e.phase = "ended" THEN seq ELSE 0]]

\* A cancellation ends every running lease whose cause is before it.
CancelHolds(leases, seq, at) ==
    [id \in DOMAIN leases |->
        IF leases[id].phase = "ended" \/ id.position >= seq THEN leases[id]
        ELSE [leases[id] EXCEPT !.phase = "ended", !.at = at, !.expires = 0,
                                !.reason = "revoked", !.cancelled = TRUE, !.until = seq]]

-----------------------------------------------------------------------------
(* Activations the room owes *)

\* The next attempt, from the ones that came to nothing.
DueActivation(source, position, seat, failed, leases) ==
    [id        |-> Activation(source, position, seat, Cardinality(failed) + 1),
     notBefore |-> IF failed = {} THEN 0
                   ELSE Latest({leases[f].at : f \in failed}) + Backoff,
     permanent |-> \E f \in failed : leases[f].cause = "permanent"]

\* Mutant of Capped: one attempt too many.
CappedLate(due) == due.permanent \/ due.id.attempt > Attempts + 1

Capped(due) == due.permanent \/ due.id.attempt > Attempts

SeatLeases(leases, seat) ==
    {id \in DOMAIN leases : id.source = "message" /\ id.seat = seat}

SummaryLeases(leases, through, writer) ==
    {id \in DOMAIN leases : id.source = "closed" /\ id.position = through
                            /\ id.seat = writer}

\* The leases of the seat that could have taken the message at seq.
Taken(leases, seat, seq) ==
    {id \in SeatLeases(leases, seat) : CoversAttempt(leases[id], seq)}

Answered(leases, taken, seq) == \E id \in taken : Answers(id, leases[id], seq)

DueRespond(leases, seat, seq) ==
    DueActivation("message", seq, seat,
        {id \in Taken(leases, seat, seq) : CountsAgainst(id, leases[id], seq)}, leases)

RemovedAfter(messages, seat, seq) ==
    \E m \in messages : m.kind = "unseated" /\ m.to = seat /\ m.seq > seq

-----------------------------------------------------------------------------
(* Routing and delivery.  A message names its subject or target in to.     *)

Text(m) == m.kind \in {"said", "system"}

ReachOf(m) ==
    IF m.kind \in {"summary", "dismissed"} THEN "none"
    ELSE IF ~Text(m) THEN "presence"
    ELSE IF m.to = None THEN "broadcast" ELSE "named"

Wakes(seat, m) ==
    \/ (Text(m) \/ m.kind = "seated") /\ seat = m.to
    \/ /\ ReachOf(m) \notin {"none", "named"}
       /\ Width[Attention[seat]] >= Width[ReachOf(m)]

\* A scheduled say is a note to its author, and a dismissal is nobody's news.
Steers(id, lease, m) ==
    /\ id.source = "message"
    /\ id.seat # m.from
    /\ m.kind = "system" => m.to \in {None, id.seat}
    /\ ~(m.kind = "said" /\ m.delay > 0)
    /\ m.kind # "dismissed"
    /\ id.seat \notin m.wakes
    /\ lease.opened < m.seq
    /\ lease.phase = "ended" => lease.until >= m.seq

\* The seats a message reaches: those it wakes and those at work it steers.
Recipients(m, leases) ==
    m.wakes \cup {id.seat : id \in {i \in DOMAIN leases : Steers(i, leases[i], m)}}

-----------------------------------------------------------------------------
(* Exchanges *)

NoExchange == [from |-> 0, person |-> None]

OpensExchange(m, people, through) ==
    /\ m.seq > through
    /\ \/ m.kind = "system"
       \/ m.kind = "said" /\ m.from \in people

\* Mutant of ExchangeAfter: the last opener opens the exchange.
ExchangeAfterLast(messages, people, through) ==
    LET opening == {m \in messages : OpensExchange(m, people, through)} IN
    IF opening = {} THEN NoExchange
    ELSE [from |-> Latest({m.seq : m \in opening}), person |-> None]

\* The first opener after the boundary, and the first person to speak from it on.
ExchangeAfter(messages, people, through) ==
    LET opening == {m.seq : m \in {n \in messages : OpensExchange(n, people, through)}}
        spoken  == {m \in messages : m.kind = "said" /\ m.from \in people
                                     /\ m.seq >= Earliest(opening)}
    IN IF opening = {} THEN NoExchange
       ELSE [from   |-> Earliest(opening),
             person |-> IF spoken = {} THEN None
                        ELSE (CHOOSE m \in spoken : \A n \in spoken : m.seq <= n.seq).from]

ExchangeLive(leases, due, now) ==
    \/ \E id \in DOMAIN leases : id.source = "message" /\ IsLive(leases[id], now)
    \/ \E d \in due : d.id.source = "message"

\* Mutants of CloseAdmission: a close that lands past what the pass saw; one
\* that does not ask what is live.
CloseAdmissionAnywhere(open, from, through, lastSeq, live) ==
    IF open.from # from THEN "obsolete" ELSE IF live THEN "replan" ELSE "admitted"

CloseAdmissionBusy(open, from, through, lastSeq, live) ==
    IF open.from # from THEN "obsolete" ELSE "admitted"

CloseAdmission(open, from, through, lastSeq, live) ==
    IF open.from = 0 \/ open.from # from THEN "obsolete"
    ELSE IF through # lastSeq \/ live THEN "replan" ELSE "admitted"

\* An agent said something inside the range: there is something to report.
OwesSummary(messages, people, from, through) ==
    \E m \in messages : m.kind = "said" /\ m.from \notin people
                        /\ m.seq \in from..through

\* Mutant of Covering: a summary is looked for by its exact writer attempt.
CoveringNobody(messages, person, from, through) == {}

\* The summaries that cover a closed range for one person.
Covering(messages, person, from, through) ==
    {m \in messages : /\ m.kind = "summary" /\ m.to = person
                      /\ m.about <= from /\ m.through >= through}

SummaryVerdict(named, removed, leases, summaries, cancelledAfter) ==
    LET ended(reasons) == \E id \in summaries : leases[id].phase = "ended"
                                                /\ leases[id].reason \in reasons
        stoodDown == ended({"released", "revoked", "abandoned"})
        overtaken == cancelledAfter
                     /\ (~stoodDown \/ \E id \in summaries : leases[id].cancelled)
    IN IF ~named THEN "silent"
       ELSE IF removed \/ overtaken THEN "failed"
       ELSE IF ~stoodDown THEN "owed"
       ELSE IF \E id \in summaries : leases[id].phase = "running" THEN "pending"
       ELSE IF ended({"released"}) THEN "silent" ELSE "failed"

SummaryWriter(roster) == IF Writer \in roster THEN Writer ELSE None

=============================================================================
