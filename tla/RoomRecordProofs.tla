-------------------------- MODULE RoomRecordProofs --------------------------
(***************************************************************************)
(* Theorems about the record of a room, from the record alone.  Every      *)
(* entry of a sound record was decided on the replay of all the entries    *)
(* before it; what the replay of such a record can never hold follows      *)
(* entry by entry, without a look at who wrote it and when.  RoomProofs    *)
(* shows that a room keeps its record sound.                               *)
(***************************************************************************)
EXTENDS ProjectionProofs

-----------------------------------------------------------------------------
(* What each kind of entry was decided on: e is written on the projection p *)

LeaseParts == {"type", "id", "phase", "reason", "cause", "read", "expires", "at"}

Live(p, id, t) == id \in DOMAIN p.leases /\ IsLive(p.leases[id], t)

\* A seat is at work on something else.
Holding(p, id, t) ==
    \E other \in DOMAIN p.leases : other # id /\ other.seat = id.seat /\ IsLive(p.leases[other], t)

\* A seat claims, or renews, the lease of entry e.
Admitted(kind, e, p) ==
    AdmitsLease(kind, PhaseOf(p.leases, e.id), Live(p, e.id, e.at),
                \E d \in Due(p) : d.id = e.id, Holding(p, e.id, e.at)) = "granted"

\* A lease that counts as an attempt at the work of activation id.
AttemptAt(i, l, id) ==
    /\ i.source = id.source /\ i.seat = id.seat
    /\ IF id.source = "message" THEN CoversAttempt(l, id.position) ELSE i.position = id.position
    /\ CountsAgainst(i, l, id.position)

Tried(leases, id) == {i \in DOMAIN leases : AttemptAt(i, leases[i], id)}

\* An activation that may be owed: its number is at most the next one after the
\* attempts that are over.
Owable(p, id) ==
    /\ id \in [source : {"message", "closed"}, position : 1..p.lastSeq, seat : Seat,
               attempt : Nat \ {0}]
    /\ id.attempt <= Cardinality(Tried(p.leases, id)) + 1

LeaseDecided(e, p) ==
    /\ e = [f \in LeaseParts |-> e[f]]
    /\ e.at \in Nat
    /\ e.id \in DOMAIN p.leases \/ Owable(p, e.id)
    /\ \/ /\ e.phase = "running" /\ e.reason = "none" /\ e.expires \in Nat
          /\ Granted(p, e.id)
          /\ \E kind \in {"claim", "renew"} : Admitted(kind, e, p)
       \/ /\ e.phase = "ended"
          /\ MayEnd(PhaseOf(p.leases, e.id), e.reason,
                    e.id \in DOMAIN p.leases /\ IsExpired(p.leases[e.id], e.at))

MessageDecided(e, p) ==
    /\ IsMessage(e)
    /\ e.at \in Nat /\ e.delay \in Nat /\ e.about \in Nat
    /\ e.act # None => SeatAuthority(p, e.act, e.at)
    /\ e.kind = "said" => e.from \in p.present \cup p.roster
    /\ e.kind = "arrived" => e.to \in Person
    /\ e.kind \in {"seated", "unseated"} => e.to \in Seat
    /\ e.delay # 0 => e.kind = "said" /\ e.about = 0
    /\ e.kind = "system" /\ e.about # 0 =>
          \E say \in p.scheduled : say.seq = e.about /\ say.due <= e.at
    /\ e.kind = "dismissed" => \E say \in p.scheduled : say.seq = e.about
    /\ e.kind = "summary" =>
          /\ e.from \in p.roster
          /\ \E i \in DOMAIN p.closes :
                /\ p.closes[i].writer = e.from
                /\ e.about = p.closes[i].from /\ e.through = p.closes[i].through
          /\ Covering(p.messages, e.to, e.about, e.through) = {}

CloseDecided(e, p) ==
    /\ p.exchange.from # 0
    /\ e.from = p.exchange.from /\ e.through = p.lastSeq
    /\ e.writer # None => e.writer = SummaryWriter(p.roster) /\ e.person # None

Decided(e, p) ==
    \/ e.type = "lease" /\ LeaseDecided(e, p)
    \/ e.type = "message" /\ MessageDecided(e, p)
    \/ e.type = "close" /\ CloseDecided(e, p)
    \/ e.type = "cancel" /\ e.at \in Nat
    \/ e.type = "composition" /\ e.seated \subseteq Seat

Clocked(e) == e.type \in {"message", "lease", "cancel"}

\* A record as a room writes it.
Sound(s) ==
    /\ IsSequence(s)
    /\ \A i \in 1..Len(s) : Decided(s[i], Replays(s)[i - 1])
    /\ \A i, j \in 1..Len(s) : i < j /\ Clocked(s[i]) /\ Clocked(s[j]) => s[i].at <= s[j].at

\* The empty record is sound.
LEMMA EmptySound == ASSUME NEW s, s = <<>> PROVE Sound(s)
BY DEF Sound, IsSequence

\* A sound record grows by an entry decided on all of it.
LEMMA SoundGrows ==
    ASSUME NEW s, Sound(s), NEW e, Decided(e, Replays(s)[Len(s)]),
           Clocked(e) => \A i \in 1..Len(s) : Clocked(s[i]) => s[i].at <= e.at
    PROVE  Sound(Append(s, e))
<1>. DEFINE t == Append(s, e)
<1>1. /\ Len(s) \in Nat /\ IsSequence(t) /\ Len(t) = Len(s) + 1
      /\ \A k \in 1..Len(s) : t[k] = s[k]
      /\ t[Len(s) + 1] = e
  BY SequenceGrows DEF Sound
<1>2. \A n \in 0..Len(s) : Replays(t)[n] = Replays(s)[n]
  BY ReplayGrows DEF Sound
<1>. HIDE DEF t
<1>3. ASSUME NEW i \in 1..Len(t) PROVE Decided(t[i], Replays(t)[i - 1])
  <2>1. CASE i = Len(s) + 1
    <3>1. i - 1 = Len(s) /\ t[i] = e
      BY <1>1, <2>1
    <3>. QED BY <3>1, <1>1, <1>2
  <2>2. CASE i \in 1..Len(s)
    <3>1. i - 1 \in 0..Len(s) /\ t[i] = s[i]
      BY <1>1, <2>2
    <3>. QED BY <3>1, <1>2, <2>2 DEF Sound
  <2>. QED BY <1>1, <2>1, <2>2
<1>4. ASSUME NEW i \in 1..Len(t), NEW j \in 1..Len(t), i < j, Clocked(t[i]), Clocked(t[j])
      PROVE  t[i].at <= t[j].at
  <2>1. i \in 1..Len(s) /\ t[i] = s[i]
    BY <1>1, <1>4
  <2>2. CASE j \in 1..Len(s)
    BY <2>1, <2>2, <1>1, <1>4 DEF Sound
  <2>3. CASE j = Len(s) + 1
    BY <2>1, <2>3, <1>1, <1>4
  <2>. QED BY <1>1, <2>2, <2>3
<1>. QED BY <1>1, <1>3, <1>4 DEF Sound, t

-----------------------------------------------------------------------------
(* The parts of a replay *)

\* The first n entries of the record s fold to the projection p: who is in the
\* room, and which messages and markers it holds.
Formed(s, n, p) ==
    /\ Shaped(p)
    /\ p.roster \subseteq Seat /\ p.known \subseteq Person /\ p.present \subseteq p.known
    /\ \A m \in p.messages : \E i \in 1..n : s[i].type = "message" /\ m = Placed(s[i], i)
    /\ \A i \in 1..n : s[i].type = "message" => /\ IsMessage(s[i])
                                                /\ Placed(s[i], i) \in p.messages
                                                /\ i <= p.lastSeq
    /\ p.lastSeq \in 0..n /\ (p.lastSeq # 0 => s[p.lastSeq].type = "message")
    /\ \A i \in 1..n : s[i].type = "cancel" => i <= p.cancelledAt
    /\ p.cancelledAt \in 0..n /\ (p.cancelledAt # 0 => s[p.cancelledAt].type = "cancel")

\* One more decided entry keeps the projection's people, messages and markers those of the record.
LEMMA FormedStep ==
    ASSUME NEW s, NEW n \in Nat, NEW p, Formed(s, n, p), Decided(s[n + 1], p)
    PROVE  Formed(s, n + 1, Advance(p, s[n + 1], n + 1))
<1>. DEFINE e == s[n + 1]
            q == Advance(p, e, n + 1)
<1>0. Shaped(p) /\ Decided(e, p)
  BY DEF Formed
<1>. HIDE DEF q, e
<1>1. CASE e.type = "message"
  <2>1. AfterMessage(p, e, n + 1, q) /\ MessageDecided(e, p)
    BY <1>0, <1>1, AdvanceParts DEF q, Decided
  <2>2. /\ IsMessage(e) /\ Placed(e, n + 1).kind = e.kind /\ Placed(e, n + 1).to = e.to
    BY <2>1, PlacedIs DEF MessageDecided, MessageParts
  <2>. DEFINE m == Placed(e, n + 1)
  <2>. HIDE DEF m
  <2>3. /\ q.messages = p.messages \cup {m} /\ q.lastSeq = n + 1
        /\ q.cancelledAt = p.cancelledAt
    BY <2>1 DEF AfterMessage, m
  <2>4. q.roster \subseteq Seat /\ q.known \subseteq Person /\ q.present \subseteq q.known
    <3>1. /\ m.kind = "arrived" => m.to \in Person
          /\ m.kind = "seated" => m.to \in Seat
      BY <2>1, <2>2 DEF MessageDecided, m
    <3>2. /\ q.known = IF m.kind = "arrived" THEN p.known \cup {m.to} ELSE p.known
          /\ q.present = CASE m.kind = "arrived" -> p.present \cup {m.to}
                           [] m.kind = "left"    -> p.present \ {m.to}
                           [] OTHER              -> p.present
          /\ q.roster = CASE m.kind = "seated"   -> p.roster \cup {m.to}
                          [] m.kind = "unseated" -> p.roster \ {m.to}
                          [] OTHER               -> p.roster
      BY <2>1 DEF AfterMessage, m
    <3>. QED BY <3>1, <3>2 DEF Formed
  <2>5. Shaped(q)
    BY <2>1 DEF AfterMessage
  <2>6. /\ \A x \in q.messages : \E i \in 1..n + 1 : s[i].type = "message" /\ x = Placed(s[i], i)
        /\ \A i \in 1..n + 1 : s[i].type = "message" => /\ IsMessage(s[i])
                                                        /\ Placed(s[i], i) \in q.messages
                                                        /\ i <= q.lastSeq
    BY <2>2, <2>3, <1>1 DEF Formed, e, m
  <2>7. /\ q.lastSeq \in 0..n + 1 /\ (q.lastSeq # 0 => s[q.lastSeq].type = "message")
        /\ \A i \in 1..n + 1 : s[i].type = "cancel" => i <= q.cancelledAt
        /\ q.cancelledAt \in 0..n + 1 /\ (q.cancelledAt # 0 => s[q.cancelledAt].type = "cancel")
    BY <2>3, <1>1 DEF Formed, e
  <2>. QED BY <2>4, <2>5, <2>6, <2>7 DEF Formed, q, e
<1>2. CASE e.type = "cancel"
  <2>1. AfterCancel(p, e, n + 1, q)
    BY <1>0, <1>2, AdvanceParts DEF q
  <2>2. /\ Shaped(q) /\ q.messages = p.messages /\ q.known = p.known /\ q.present = p.present
        /\ q.roster = p.roster /\ q.lastSeq = p.lastSeq /\ q.cancelledAt = n + 1
    BY <2>1 DEF AfterCancel
  <2>. QED BY <1>2, <2>2 DEF Formed, q, e
<1>3. CASE e.type \notin {"message", "cancel"}
  <2>1. /\ Shaped(q) /\ q.messages = p.messages /\ q.known = p.known /\ q.present = p.present
        /\ q.lastSeq = p.lastSeq /\ q.cancelledAt = p.cancelledAt
        /\ (q.roster = p.roster \/ q.roster \subseteq Seat)
    <3>1. CASE e.type = "lease"
      <4>1. AfterLease(p, e, n + 1, q)
        BY <1>0, <3>1, AdvanceParts DEF q
      <4>. QED BY <4>1 DEF AfterLease, Parts
    <3>2. CASE e.type = "close"
      <4>1. AfterClose(p, CloseRecord(e, n + 1), q)
        BY <1>0, <3>2, AdvanceParts DEF q
      <4>. QED BY <4>1 DEF AfterClose, Parts
    <3>3. CASE e.type = "composition"
      <4>1. AfterComposition(p, e.seated, q) /\ e.seated \subseteq Seat
        BY <1>0, <3>3, AdvanceParts DEF q, Decided
      <4>. QED BY <4>1 DEF AfterComposition, Parts
    <3>. QED BY <1>0, <1>3, <3>1, <3>2, <3>3 DEF Decided
  <2>. QED BY <1>3, <2>1 DEF Formed, q, e
<1>. QED BY <1>1, <1>2, <1>3

\* Every replay on the way through a sound record is formed.
LEMMA Formation ==
    ASSUME NEW s, Sound(s)
    PROVE  \A n \in 0..Len(s) : Formed(s, n, Replays(s)[n])
<1>. DEFINE r == Replays(s)
            T == {n \in Nat : n <= Len(s) => Formed(s, n, r[n])}
<1>. HIDE DEF r
<1>0. /\ Len(s) \in Nat /\ r[0] = EmptyProjection
      /\ \A n \in 1..Len(s) : r[n] = Advance(r[n - 1], s[n], n) /\ Decided(s[n], r[n - 1])
  BY SequenceGrows, ReplaySteps DEF Sound, r
<1>1. 0 \in T
  <2>1. Formed(s, 0, EmptyProjection)
    BY EmptyShaped DEF Formed, EmptyProjection
  <2>. QED BY <2>1, <1>0
<1>2. ASSUME NEW n \in Nat, n \in T PROVE n + 1 \in T
  <2>. SUFFICES ASSUME n + 1 <= Len(s) PROVE Formed(s, n + 1, r[n + 1])
    OBVIOUS
  <2>0. n \in 0..Len(s) /\ n + 1 \in 1..Len(s) /\ n + 1 - 1 = n /\ n <= Len(s)
    BY <1>0
  <2>1. Formed(s, n, r[n]) /\ Decided(s[n + 1], r[n])
        /\ r[n + 1] = Advance(r[n], s[n + 1], n + 1)
    BY <1>0, <1>2, <2>0
  <2>. QED BY <2>1, FormedStep
<1>. HIDE DEF T
<1>3. Nat \subseteq T
  BY <1>1, <1>2, SetInduction
<1>. QED BY <1>0, <1>3 DEF T, r

\* A message in the projection stands at its place in the record.
LEMMA MessageAt ==
    ASSUME NEW s, NEW n \in Nat, NEW p, Formed(s, n, p), NEW m \in p.messages
    PROVE  /\ m.seq \in 1..n /\ s[m.seq].type = "message" /\ m = Placed(s[m.seq], m.seq)
           /\ \A f \in MessageParts \ {"seq"} : m[f] = s[m.seq][f]
<1>1. PICK i \in 1..n : s[i].type = "message" /\ m = Placed(s[i], i)
  BY DEF Formed
<1>2. IsMessage(s[i])
  BY <1>1 DEF Formed
<1>3. m.seq = i /\ \A f \in MessageParts \ {"seq"} : m[f] = s[i][f]
  BY <1>1, <1>2, PlacedIs
<1>. QED BY <1>1, <1>3

-----------------------------------------------------------------------------
(* Closes and the open exchange *)

IsQuestion(e) == e.type = "message" /\ (e.kind = "system" \/ (e.kind = "said" /\ e.from \in Person))

\* A close of the first n entries covers a range that ends on a message, no later
\* than the boundary b; a close with a writer is the entry that names it.
Enclosed(s, n, b, c) ==
    /\ c.from \in 1..n /\ c.through \in c.from..b
    /\ s[c.through].type = "message"
    /\ c.writer # None =>
          /\ c.writer \in Seat /\ c.at \in 1..n /\ s[c.at].type = "close"
          /\ s[c.at].from = c.from /\ s[c.at].writer = c.writer

\* The range of a close stays within the record as record and boundary grow.
LEMMA EnclosedGrows ==
    ASSUME NEW s, NEW n \in Nat, NEW b \in Nat, NEW c, Enclosed(s, n, b, c),
           NEW d \in Nat, b <= d
    PROVE  Enclosed(s, n + 1, d, c)
BY DEF Enclosed

\* The closes of the first n entries follow each other, each ending on a message;
\* the boundary is the end of the last one, and the tail is the talk after it.
Chained(s, n, p) ==
    /\ IsSequence(p.closes)
    /\ p.boundary \in 0..p.lastSeq
    /\ \A k \in 1..Len(p.closes) : Enclosed(s, n, p.boundary, p.closes[k])
    /\ \A k, l \in 1..Len(p.closes) : k < l => p.closes[k].through < p.closes[l].from
    /\ \A m \in p.tail : m \in p.messages /\ Text(m) /\ m.seq > p.boundary
    /\ \A m \in p.messages : Text(m) /\ m.seq > p.boundary => m \in p.tail
    /\ p.exchange = ExchangeAfter(p.tail, p.known, p.boundary)

\* The ends of a close are positions of the record.
LEMMA EndsAreNumbers ==
    ASSUME NEW s, NEW n \in Nat, NEW p, Formed(s, n, p), Chained(s, n, p), NEW k \in 1..Len(p.closes)
    PROVE  p.closes[k].from \in Nat /\ p.closes[k].through \in Nat
<1>1. p.lastSeq \in 0..n
  BY DEF Formed
<1>2. p.lastSeq \in Nat
  BY <1>1
<1>3. p.boundary \in Nat
  BY <1>2 DEF Chained
<1>4. Enclosed(s, n, p.boundary, p.closes[k])
  BY DEF Chained
<1>5. p.closes[k].from \in 1..n /\ p.closes[k].through \in p.closes[k].from..p.boundary
  BY <1>4 DEF Enclosed
<1>6. p.closes[k].from \in Nat
  BY <1>5
<1>. QED BY <1>3, <1>5, <1>6

\* The exchange opens with the first question, if there is one.
LEMMA ExchangeIs ==
    ASSUME NEW tail, NEW known, NEW b \in Nat, \A m \in tail : m.seq \in Nat \ {0}
    PROVE  LET x == ExchangeAfter(tail, known, b) IN
           /\ x.from = 0 => /\ x = NoExchange
                            /\ \A m \in tail : ~OpensExchange(m, known, b)
           /\ x.from # 0 => /\ \E m \in tail : OpensExchange(m, known, b) /\ m.seq = x.from
                            /\ \A m \in tail : OpensExchange(m, known, b) => x.from <= m.seq
<1>. DEFINE opening == {m.seq : m \in {n \in tail : OpensExchange(n, known, b)}}
            x == ExchangeAfter(tail, known, b)
<1>1. CASE opening = {}
  <2>1. x = NoExchange /\ \A m \in tail : ~OpensExchange(m, known, b)
    BY <1>1 DEF ExchangeAfter
  <2>. QED BY <2>1 DEF NoExchange
<1>2. CASE opening # {}
  <2>1. x.from = Earliest(opening)
    BY <1>2 DEF ExchangeAfter
  <2>2. opening \subseteq Nat \ {0}
    OBVIOUS
  <2>3. Earliest(opening) \in opening /\ \A k \in opening : Earliest(opening) <= k
    BY <1>2, <2>2, EarliestIs
  <2>4. x.from \in opening /\ x.from # 0 /\ \A k \in opening : x.from <= k
    BY <2>1, <2>2, <2>3
  <2>. QED BY <2>4
<1>. QED BY <1>1, <1>2

\* What is open was asked after the boundary.
LEMMA OpenAfterBoundary ==
    ASSUME NEW s, NEW n \in Nat, NEW p, Formed(s, n, p), Chained(s, n, p), p.exchange.from # 0
    PROVE  /\ p.exchange.from \in 1..n /\ p.boundary < p.exchange.from
           /\ p.exchange.from <= p.lastSeq /\ p.lastSeq \in 1..n
           /\ s[p.lastSeq].type = "message"
<1>1. ASSUME NEW m \in p.tail
      PROVE  m.seq \in 1..n /\ m.seq > p.boundary /\ s[m.seq].type = "message"
  <2>1. m \in p.messages /\ m.seq > p.boundary
    BY DEF Chained
  <2>2. m.seq \in 1..n /\ s[m.seq].type = "message"
    BY <2>1, MessageAt
  <2>. QED BY <2>1, <2>2
<1>2. p.boundary \in Nat /\ \A m \in p.tail : m.seq \in Nat \ {0}
  BY <1>1 DEF Chained, Formed
<1>3. PICK m \in p.tail : m.seq = p.exchange.from
  BY <1>2, ExchangeIs DEF Chained
<1>4. m.seq <= p.lastSeq
  BY <1>1 DEF Formed
<1>. QED BY <1>1, <1>3, <1>4 DEF Formed

\* A close of what is open, up to the last message, goes on with the chain.
LEMMA CloseChains ==
    ASSUME NEW s, NEW n \in Nat, NEW p, Formed(s, n, p), Chained(s, n, p),
           p.exchange.from # 0,
           NEW c, c.from = p.exchange.from, c.through = p.lastSeq,
           c.writer # None =>
              /\ c.writer \in Seat /\ c.at = n + 1 /\ s[n + 1].type = "close"
              /\ s[n + 1].from = c.from /\ s[n + 1].writer = c.writer,
           NEW q, q.closes = Append(p.closes, c), q.boundary = p.lastSeq,
           q.tail = {m \in p.tail : m.seq > p.lastSeq},
           q.exchange = ExchangeAfter(q.tail, q.known, q.boundary),
           q.messages = p.messages, q.lastSeq = p.lastSeq
    PROVE  Chained(s, n + 1, q)
<1>1. /\ p.exchange.from \in 1..n /\ p.boundary < p.exchange.from
      /\ p.exchange.from <= p.lastSeq /\ p.lastSeq \in 1..n
      /\ s[p.lastSeq].type = "message"
  BY OpenAfterBoundary
<1>. DEFINE L == Len(p.closes)
<1>2. /\ L \in Nat /\ IsSequence(q.closes) /\ Len(q.closes) = L + 1
      /\ \A k \in 1..L : q.closes[k] = p.closes[k]
      /\ q.closes[L + 1] = c
  BY SequenceGrows DEF Chained
<1>. HIDE DEF L
<1>3. ASSUME NEW k \in 1..L + 1 PROVE Enclosed(s, n + 1, q.boundary, q.closes[k])
  <2>1. CASE k \in 1..L
    <3>1. /\ q.closes[k] = p.closes[k] /\ p.boundary \in Nat
          /\ q.boundary \in Nat /\ p.boundary <= q.boundary
      BY <1>1, <1>2, <2>1 DEF Chained
    <3>2. Enclosed(s, n, p.boundary, p.closes[k])
      BY <2>1 DEF Chained, L
    <3>. QED BY <3>1, <3>2, EnclosedGrows
  <2>2. CASE k = L + 1
    BY <2>2, <1>1, <1>2 DEF Enclosed
  <2>. QED BY <1>2, <2>1, <2>2
<1>4. ASSUME NEW k \in 1..L + 1, NEW l \in 1..L + 1, k < l
      PROVE  q.closes[k].through < q.closes[l].from
  <2>1. k \in 1..L /\ q.closes[k] = p.closes[k]
    BY <1>2, <1>4
  <2>2. CASE l \in 1..L
    BY <2>1, <2>2, <1>2, <1>4 DEF Chained, L
  <2>3. CASE l = L + 1
    <3>1. p.closes[k].from \in 1..n /\ p.closes[k].through \in p.closes[k].from..p.boundary
      BY <2>1 DEF Chained, Enclosed, L
    <3>. QED BY <2>1, <2>3, <3>1, <1>1, <1>2 DEF Chained
  <2>. QED BY <1>2, <2>2, <2>3
<1>5. /\ \A m \in q.tail : m \in q.messages /\ Text(m) /\ m.seq > q.boundary
      /\ \A m \in q.messages : Text(m) /\ m.seq > q.boundary => m \in q.tail
  <2>1. p.boundary <= q.boundary /\ p.boundary \in Nat /\ q.boundary \in Nat
    BY <1>1 DEF Chained
  <2>2. ASSUME NEW m \in p.messages PROVE m.seq \in Nat
    <3>1. m.seq \in 1..n
      BY MessageAt
    <3>. QED BY <3>1
  <2>. QED BY <2>1, <2>2 DEF Chained
<1>6. q.boundary \in 0..q.lastSeq
  BY <1>1
<1>. HIDE DEF L
<1>. QED BY <1>2, <1>3, <1>4, <1>5, <1>6 DEF Chained

\* One more decided entry keeps the closes in a chain, and the open exchange that of the talk after it.
LEMMA ChainedStep ==
    ASSUME NEW s, NEW n \in Nat, NEW p, Formed(s, n, p), Chained(s, n, p), Decided(s[n + 1], p),
           RulesAssumption
    PROVE  Chained(s, n + 1, Advance(p, s[n + 1], n + 1))
<1>. DEFINE e == s[n + 1]
            q == Advance(p, e, n + 1)
<1>0. Shaped(p) /\ Decided(e, p)
  BY DEF Formed
<1>a. \A k \in 1..Len(p.closes) : Enclosed(s, n + 1, p.boundary, p.closes[k])
  BY EnclosedGrows DEF Chained, Formed
<1>. HIDE DEF q, e
<1>1. CASE e.type = "message"
  <2>1. AfterMessage(p, e, n + 1, q) /\ MessageDecided(e, p)
    BY <1>0, <1>1, AdvanceParts DEF q, Decided
  <2>. DEFINE m == Placed(e, n + 1)
  <2>2. m.seq = n + 1
    BY <2>1, PlacedIs DEF MessageDecided
  <2>. HIDE DEF m
  <2>3. /\ q.messages = p.messages \cup {m} /\ q.lastSeq = n + 1
        /\ q.tail = IF Text(m) THEN p.tail \cup {m} ELSE p.tail
        /\ q.known = IF m.kind = "arrived" THEN p.known \cup {m.to} ELSE p.known
        /\ q.boundary = p.boundary /\ q.closes = p.closes
        /\ q.exchange = IF m.kind \in {"said", "system", "arrived"}
                        THEN ExchangeAfter(q.tail, q.known, q.boundary) ELSE p.exchange
    BY <2>1 DEF AfterMessage, m
  <2>4. q.exchange = ExchangeAfter(q.tail, q.known, q.boundary)
    <3>1. CASE m.kind \in {"said", "system", "arrived"}
      BY <3>1, <2>3
    <3>2. CASE m.kind \notin {"said", "system", "arrived"}
      <4>1. q.tail = p.tail /\ q.known = p.known
        BY <3>2, <2>3 DEF Text
      <4>. QED BY <4>1, <3>2, <2>3 DEF Chained
    <3>. QED BY <3>1, <3>2
  <2>5. q.boundary \in 0..q.lastSeq
    BY <2>3 DEF Chained, Formed
  <2>6. /\ \A x \in q.tail : x \in q.messages /\ Text(x) /\ x.seq > q.boundary
        /\ \A x \in q.messages : Text(x) /\ x.seq > q.boundary => x \in q.tail
    <3>1. m.seq > p.boundary
      BY <2>2 DEF Chained, Formed
    <3>. QED BY <3>1, <2>3 DEF Chained
  <2>. QED BY <1>a, <2>3, <2>4, <2>5, <2>6 DEF Chained, q, e
<1>2. CASE e.type = "close"
  <2>1. AfterClose(p, CloseRecord(e, n + 1), q) /\ CloseDecided(e, p)
    BY <1>0, <1>2, AdvanceParts DEF q, Decided
  <2>. DEFINE c == CloseRecord(e, n + 1)
  <2>2. /\ c.from = p.exchange.from /\ c.through = p.lastSeq /\ p.exchange.from # 0
        /\ c.writer # None => c.writer \in Seat /\ c.at = n + 1
        /\ e.from = c.from /\ e.writer = c.writer
    BY <2>1 DEF CloseDecided, CloseRecord, SummaryWriter, RulesAssumption
  <2>. HIDE DEF c
  <2>3. /\ q.closes = Append(p.closes, c) /\ q.boundary = p.lastSeq
        /\ q.tail = {m \in p.tail : m.seq > p.lastSeq}
        /\ q.known = p.known
        /\ q.exchange = ExchangeAfter(q.tail, q.known, q.boundary)
        /\ q.messages = p.messages /\ q.lastSeq = p.lastSeq
    BY <2>1, <2>2 DEF AfterClose, Parts, c
  <2>. QED BY <2>2, <2>3, <1>2, CloseChains DEF q, e
<1>3. CASE e.type = "cancel"
  <2>1. AfterCancel(p, e, n + 1, q)
    BY <1>0, <1>3, AdvanceParts DEF q
  <2>2. q.messages = p.messages /\ q.lastSeq = p.lastSeq /\ q.known = p.known
    BY <2>1 DEF AfterCancel
  <2>3. CASE p.exchange = NoExchange
    <3>1. /\ q.closes = p.closes /\ q.boundary = p.boundary /\ q.tail = p.tail
          /\ q.exchange = p.exchange
      BY <2>1, <2>3 DEF AfterCancel
    <3>. QED BY <1>a, <2>2, <3>1 DEF Chained, q, e
  <2>4. CASE p.exchange # NoExchange
    <3>. DEFINE c == CancelledClose(p, n + 1)
    <3>1. c.from = p.exchange.from /\ c.through = p.lastSeq /\ c.writer = None
      BY DEF CancelledClose
    <3>2. p.exchange.from # 0
      <4>1. \A m \in p.tail : m.seq \in Nat \ {0}
        BY MessageAt DEF Chained
      <4>2. p.boundary \in Nat
        BY DEF Chained, Formed
      <4>. QED BY <4>1, <4>2, <2>4, ExchangeIs DEF Chained
    <3>3. /\ q.closes = Append(p.closes, c) /\ q.boundary = p.lastSeq
          /\ q.tail = {m \in p.tail : m.seq > p.lastSeq}
          /\ q.exchange = ExchangeAfter(q.tail, q.known, q.boundary)
      BY <2>1, <2>4 DEF AfterCancel
    <3>. HIDE DEF c
    <3>. QED BY <2>2, <3>1, <3>2, <3>3, CloseChains DEF q, e
  <2>. QED BY <2>3, <2>4
<1>4. CASE e.type \in {"lease", "composition"}
  <2>1. /\ q.messages = p.messages /\ q.lastSeq = p.lastSeq /\ q.known = p.known
        /\ q.closes = p.closes /\ q.boundary = p.boundary /\ q.tail = p.tail
        /\ q.exchange = p.exchange
    <3>1. CASE e.type = "lease"
      <4>1. AfterLease(p, e, n + 1, q)
        BY <1>0, <3>1, AdvanceParts DEF q
      <4>. QED BY <4>1 DEF AfterLease, Parts
    <3>2. CASE e.type = "composition"
      <4>1. AfterComposition(p, e.seated, q)
        BY <1>0, <3>2, AdvanceParts DEF q
      <4>. QED BY <4>1 DEF AfterComposition, Parts
    <3>. QED BY <1>4, <3>1, <3>2
  <2>. QED BY <1>a, <2>1 DEF Chained, q, e
<1>. QED BY <1>0, <1>1, <1>2, <1>3, <1>4 DEF Decided

\* Every replay on the way through a sound record is chained.
LEMMA Chain ==
    ASSUME NEW s, Sound(s), RulesAssumption
    PROVE  \A n \in 0..Len(s) : Chained(s, n, Replays(s)[n])
<1>. DEFINE r == Replays(s)
            T == {n \in Nat : n <= Len(s) => Chained(s, n, r[n])}
<1>. HIDE DEF r
<1>0. /\ Len(s) \in Nat /\ r[0] = EmptyProjection
      /\ \A n \in 1..Len(s) : r[n] = Advance(r[n - 1], s[n], n) /\ Decided(s[n], r[n - 1])
      /\ \A n \in 0..Len(s) : Formed(s, n, r[n])
  BY SequenceGrows, ReplaySteps, Formation DEF Sound, r
<1>1. 0 \in T
  <2>1. ExchangeAfter({}, {}, 0) = NoExchange
    BY DEF ExchangeAfter
  <2>2. Chained(s, 0, EmptyProjection)
    BY <2>1 DEF Chained, EmptyProjection, IsSequence
  <2>. QED BY <2>2, <1>0
<1>2. ASSUME NEW n \in Nat, n \in T PROVE n + 1 \in T
  <2>. SUFFICES ASSUME n + 1 <= Len(s) PROVE Chained(s, n + 1, r[n + 1])
    OBVIOUS
  <2>0. n \in 0..Len(s) /\ n + 1 \in 1..Len(s) /\ n + 1 - 1 = n /\ n <= Len(s)
    BY <1>0
  <2>1. Formed(s, n, r[n]) /\ Chained(s, n, r[n]) /\ Decided(s[n + 1], r[n])
        /\ r[n + 1] = Advance(r[n], s[n + 1], n + 1)
    BY <1>0, <1>2, <2>0
  <2>. QED BY <2>1, ChainedStep
<1>. HIDE DEF T
<1>3. Nat \subseteq T
  BY <1>1, <1>2, SetInduction
<1>. QED BY <1>0, <1>3 DEF T, r

\* Every question up to the boundary is in the range of a close, and every later one
\* opens the exchange if nothing before it does.
Covered(s, n, p) ==
    \A i \in 1..n : IsQuestion(s[i]) =>
        /\ s[i].kind = "said" => s[i].from \in p.known
        /\ i <= p.boundary => \E k \in 1..Len(p.closes) :
                                 i \in p.closes[k].from..p.closes[k].through

\* What comes after the boundary is within reach of the open exchange.
LEMMA OpenReaches ==
    ASSUME NEW s, NEW n \in Nat, NEW p, Formed(s, n, p), Chained(s, n, p), Covered(s, n, p),
           NEW i \in 1..n, IsQuestion(s[i]), i > p.boundary
    PROVE  p.exchange.from # 0 /\ p.exchange.from <= i
<1>. DEFINE m == Placed(s[i], i)
<1>1. m \in p.messages /\ IsMessage(s[i])
  BY DEF Formed, IsQuestion
<1>2. m.kind = s[i].kind /\ m.from = s[i].from /\ m.seq = i
  BY <1>1, PlacedIs DEF MessageParts
<1>. HIDE DEF m
<1>3. m \in p.tail /\ OpensExchange(m, p.known, p.boundary)
  BY <1>1, <1>2 DEF Chained, Covered, IsQuestion, Text, OpensExchange
<1>4. p.boundary \in Nat /\ \A x \in p.tail : x.seq \in Nat \ {0}
  <2>1. ASSUME NEW x \in p.tail PROVE x.seq \in 1..n
    <3>1. x \in p.messages
      BY DEF Chained
    <3>. QED BY <3>1, MessageAt
  <2>2. p.boundary \in 0..p.lastSeq /\ p.lastSeq \in 0..n
    BY DEF Chained, Formed
  <2>. QED BY <2>1, <2>2
<1>5. p.exchange = ExchangeAfter(p.tail, p.known, p.boundary)
  BY DEF Chained
<1>6. p.exchange.from # 0 /\ \A x \in p.tail : OpensExchange(x, p.known, p.boundary)
                                              => p.exchange.from <= x.seq
  BY <1>3, <1>4, <1>5, ExchangeIs
<1>. QED BY <1>2, <1>3, <1>6

\* One more decided entry keeps every question up to the boundary within a close.
LEMMA CoveredStep ==
    ASSUME NEW s, NEW n \in Nat, NEW p, Formed(s, n, p), Chained(s, n, p), Covered(s, n, p),
           Decided(s[n + 1], p), RulesAssumption
    PROVE  Covered(s, n + 1, Advance(p, s[n + 1], n + 1))
<1>. DEFINE e == s[n + 1]
            q == Advance(p, e, n + 1)
<1>0. Shaped(p) /\ Decided(e, p) /\ p.boundary \in 0..n /\ IsSequence(p.closes)
  BY DEF Formed, Chained
<1>. HIDE DEF q, e
\* A close of the open exchange covers all that came after the last one.
<1>a. ASSUME NEW c, c.from = p.exchange.from, c.through = p.lastSeq, p.exchange.from # 0,
             q.closes = Append(p.closes, c), q.known = p.known, ~IsQuestion(e)
      PROVE  Covered(s, n + 1, q)
  <2>. SUFFICES ASSUME NEW i \in 1..n, IsQuestion(s[i])
                PROVE  /\ s[i].kind = "said" => s[i].from \in q.known
                       /\ \E k \in 1..Len(q.closes) :
                             i \in q.closes[k].from..q.closes[k].through
    <3>1. \A i \in 1..n + 1 : IsQuestion(s[i]) => i \in 1..n
      BY <1>a DEF e
    <3>. QED BY <3>1 DEF Covered
  <2>1. /\ Len(p.closes) \in Nat /\ Len(q.closes) = Len(p.closes) + 1
        /\ \A k \in 1..Len(p.closes) : q.closes[k] = p.closes[k]
        /\ q.closes[Len(p.closes) + 1] = c
    BY <1>0, <1>a, SequenceGrows
  <2>2. CASE i <= p.boundary
    BY <2>1, <2>2, <1>a DEF Covered
  <2>3. CASE i > p.boundary
    <3>1. p.exchange.from <= i
      BY <2>3, OpenReaches
    <3>2. i <= p.lastSeq
      BY DEF Formed, IsQuestion
    <3>3. i \in c.from..c.through
      BY <3>1, <3>2, <1>a, OpenAfterBoundary
    <3>4. \E k \in 1..Len(q.closes) : i \in q.closes[k].from..q.closes[k].through
      <4>. DEFINE last == Len(p.closes) + 1
      <4>1. last \in 1..Len(q.closes)
        BY <2>1
      <4>2. i \in q.closes[last].from..q.closes[last].through
        BY <3>3, <2>1
      <4>. HIDE DEF last
      <4>. QED BY <4>1, <4>2
    <3>5. s[i].kind = "said" => s[i].from \in q.known
      BY <1>a DEF Covered
    <3>. QED BY <3>4, <3>5
  <2>. QED BY <1>0, <2>2, <2>3
<1>1. CASE e.type = "message"
  <2>1. AfterMessage(p, e, n + 1, q) /\ MessageDecided(e, p)
    BY <1>0, <1>1, AdvanceParts DEF q, Decided
  <2>2. q.closes = p.closes /\ q.boundary = p.boundary /\ p.known \subseteq q.known
    BY <2>1 DEF AfterMessage
  <2>3. ASSUME IsQuestion(e), e.kind = "said" PROVE e.from \in p.known
    BY <2>1, <2>3 DEF MessageDecided, IsQuestion, Formed, RulesAssumption
  <2>4. ~(n + 1 <= q.boundary)
    BY <1>0, <2>2
  <2>5. \A i \in 1..n + 1 : i \in 1..n \/ i = n + 1
    OBVIOUS
  <2>. QED BY <2>2, <2>3, <2>4, <2>5 DEF Covered, q, e
<1>2. CASE e.type = "close"
  <2>1. AfterClose(p, CloseRecord(e, n + 1), q) /\ CloseDecided(e, p)
    BY <1>0, <1>2, AdvanceParts DEF q, Decided
  <2>. DEFINE c == CloseRecord(e, n + 1)
  <2>2. c.from = p.exchange.from /\ c.through = p.lastSeq /\ p.exchange.from # 0
    BY <2>1 DEF CloseDecided, CloseRecord
  <2>. HIDE DEF c
  <2>3. q.closes = Append(p.closes, c) /\ q.known = p.known
    BY <2>1 DEF AfterClose, Parts, c
  <2>. QED BY <2>2, <2>3, <1>2, <1>a DEF IsQuestion, q, e
<1>3. CASE e.type = "cancel"
  <2>1. AfterCancel(p, e, n + 1, q)
    BY <1>0, <1>3, AdvanceParts DEF q
  <2>2. q.known = p.known
    BY <2>1 DEF AfterCancel
  <2>3. CASE p.exchange = NoExchange
    <3>1. q.closes = p.closes /\ q.boundary = p.boundary
      BY <2>1, <2>3 DEF AfterCancel
    <3>. QED BY <1>3, <2>2, <3>1 DEF Covered, IsQuestion, q, e
  <2>4. CASE p.exchange # NoExchange
    <3>. DEFINE c == CancelledClose(p, n + 1)
    <3>1. c.from = p.exchange.from /\ c.through = p.lastSeq
      BY DEF CancelledClose
    <3>2. p.exchange.from # 0
      <4>1. \A m \in p.tail : m.seq \in Nat \ {0}
        BY MessageAt DEF Chained
      <4>. QED BY <4>1, <1>0, <2>4, ExchangeIs DEF Chained
    <3>3. q.closes = Append(p.closes, c)
      BY <2>1, <2>4 DEF AfterCancel
    <3>. HIDE DEF c
    <3>. QED BY <3>1, <3>2, <3>3, <2>2, <1>3, <1>a DEF IsQuestion, q, e
  <2>. QED BY <2>3, <2>4
<1>4. CASE e.type \in {"lease", "composition"}
  <2>1. q.known = p.known /\ q.closes = p.closes /\ q.boundary = p.boundary
    <3>1. CASE e.type = "lease"
      <4>1. AfterLease(p, e, n + 1, q)
        BY <1>0, <3>1, AdvanceParts DEF q
      <4>. QED BY <4>1 DEF AfterLease, Parts
    <3>2. CASE e.type = "composition"
      <4>1. AfterComposition(p, e.seated, q)
        BY <1>0, <3>2, AdvanceParts DEF q
      <4>. QED BY <4>1 DEF AfterComposition, Parts
    <3>. QED BY <1>4, <3>1, <3>2
  <2>. QED BY <1>4, <2>1 DEF Covered, IsQuestion, q, e
<1>. QED BY <1>0, <1>1, <1>2, <1>3, <1>4 DEF Decided

\* Every question up to the boundary lies within a close, at every position of a sound record.
LEMMA Coverage ==
    ASSUME NEW s, Sound(s), RulesAssumption
    PROVE  \A n \in 0..Len(s) : Covered(s, n, Replays(s)[n])
<1>. DEFINE r == Replays(s)
            T == {n \in Nat : n <= Len(s) => Covered(s, n, r[n])}
<1>. HIDE DEF r
<1>0. /\ Len(s) \in Nat
      /\ \A n \in 1..Len(s) : r[n] = Advance(r[n - 1], s[n], n) /\ Decided(s[n], r[n - 1])
      /\ \A n \in 0..Len(s) : Formed(s, n, r[n]) /\ Chained(s, n, r[n])
  BY SequenceGrows, ReplaySteps, Formation, Chain DEF Sound, r
<1>1. 0 \in T
  BY DEF Covered
<1>2. ASSUME NEW n \in Nat, n \in T PROVE n + 1 \in T
  <2>. SUFFICES ASSUME n + 1 <= Len(s) PROVE Covered(s, n + 1, r[n + 1])
    OBVIOUS
  <2>0. n \in 0..Len(s) /\ n + 1 \in 1..Len(s) /\ n + 1 - 1 = n /\ n <= Len(s)
    BY <1>0
  <2>1. /\ Formed(s, n, r[n]) /\ Chained(s, n, r[n]) /\ Covered(s, n, r[n])
        /\ Decided(s[n + 1], r[n]) /\ r[n + 1] = Advance(r[n], s[n + 1], n + 1)
    BY <1>0, <1>2, <2>0
  <2>. QED BY <2>1, CoveredStep
<1>. HIDE DEF T
<1>3. Nat \subseteq T
  BY <1>1, <1>2, SetInduction
<1>. QED BY <1>0, <1>3 DEF T, r

-----------------------------------------------------------------------------
(* Leases *)

\* Entry i is the last of the first n that speaks of activation id.
LastLease(s, n, id, i) ==
    /\ i \in 1..n /\ s[i].type = "lease" /\ s[i].id = id
    /\ \A j \in i + 1..n : ~(s[j].type = "lease" /\ s[j].id = id)

\* What the lease l of activation id tells of the first n entries.
LeaseIs(s, n, cancelledAt, id, l) ==
    /\ IsLease(l) /\ l.phase \in {"running", "ended"} /\ l.claimedAt \in Nat
    /\ l.phase = "running" =>
          /\ id.position \in 1..n /\ s[id.position].type = "message" /\ id.position > cancelledAt
          /\ id.seat \in Seat
          /\ \A i \in 1..n : s[i].type = "lease" /\ s[i].id = id => s[i].phase = "running"
          /\ l.expires \in Nat
          /\ \E i \in 1..n : LastLease(s, n, id, i) /\ s[i].expires = l.expires
                             /\ id.position < i

Leased(s, n, p) ==
    /\ \A i \in 1..n : s[i].type = "lease" => s[i].id \in DOMAIN p.leases
    /\ \A id \in DOMAIN p.leases :
          /\ LeaseIs(s, n, p.cancelledAt, id, p.leases[id])
          /\ \E i \in 1..n : s[i].type = "lease" /\ s[i].id = id

\* A lease stays what it was unless the new entry is about it.
LEMMA LeaseIsGrows ==
    ASSUME NEW s, NEW n \in Nat, NEW c, NEW id, NEW l, LeaseIs(s, n, c, id, l),
           ~(s[n + 1].type = "lease" /\ s[n + 1].id = id)
    PROVE  LeaseIs(s, n + 1, c, id, l)
<1>1. \A i : LastLease(s, n, id, i) => LastLease(s, n + 1, id, i)
  BY DEF LastLease
<1>. QED BY <1>1 DEF LeaseIs

\* The record grants authority only for what a message or a close in it caused,
\* after the last marker, and to a seat of the roster.
LEMMA GrantedIs ==
    ASSUME NEW s, NEW n \in Nat, NEW p, Formed(s, n, p), Chained(s, n, p), NEW id, Granted(p, id)
    PROVE  /\ id.position \in 1..n /\ s[id.position].type = "message"
           /\ id.position > p.cancelledAt /\ id.seat \in Seat /\ id.seat \in p.roster
           /\ ~RemovedAfter(p.messages, id.seat, id.position)
<1>1. id.position \in 1..n /\ s[id.position].type = "message"
  <2>1. CASE id.source = "message"
    <3>1. PICK m \in p.messages : m.seq = id.position
      BY <2>1 DEF Granted
    <3>. QED BY <3>1, MessageAt
  <2>2. CASE id.source # "message"
    <3>1. PICK k \in DOMAIN p.closes : p.closes[k].through = id.position
      BY <2>2 DEF Granted, OwingClose
    <3>2. k \in 1..Len(p.closes)
      BY <3>1, SequenceGrows DEF Chained
    <3>3. Enclosed(s, n, p.boundary, p.closes[k]) /\ p.boundary \in 0..n
      BY <3>2 DEF Chained, Formed
    <3>. QED BY <3>1, <3>3 DEF Enclosed
  <2>. QED BY <2>1, <2>2
<1>2. id.position > p.cancelledAt
  BY <1>1 DEF Granted, Formed
<1>. QED BY <1>1, <1>2 DEF Granted, Formed

\* What a claim or a renewal is granted on.
LEMMA AdmitsIs ==
    ASSUME NEW kind, NEW e, NEW p, Admitted(kind, e, p)
    PROVE  /\ PhaseOf(p.leases, e.id) = "none" => /\ \E d \in Due(p) : d.id = e.id
                                                  /\ ~Holding(p, e.id, e.at)
           /\ PhaseOf(p.leases, e.id) # "none" => Live(p, e.id, e.at)
<1>. DEFINE owed == \E d \in Due(p) : d.id = e.id
            held == Holding(p, e.id, e.at)
            live == Live(p, e.id, e.at)
            phase == PhaseOf(p.leases, e.id)
<1>. HIDE DEF held, live, phase
<1>1. ASSUME phase = "none", ~owed PROVE FALSE
  BY <1>1 DEF Admitted, AdmitsLease, phase
<1>2. ASSUME phase = "none", held PROVE FALSE
  BY <1>2 DEF Admitted, AdmitsLease, phase, held
<1>3. ASSUME phase # "none", ~live PROVE FALSE
  BY <1>3 DEF Admitted, AdmitsLease, phase, live
<1>. QED BY <1>1, <1>2, <1>3 DEF phase, held, live

\* No lease entry follows the end of its activation.
LEMMA DecidedOpen ==
    ASSUME NEW e, NEW p, LeaseDecided(e, p)
    PROVE  PhaseOf(p.leases, e.id) # "ended"
<1>1. ~MayEnd("ended", e.reason, e.id \in DOMAIN p.leases /\ IsExpired(p.leases[e.id], e.at))
  BY DEF MayEnd
<1>2. PhaseOf(p.leases, e.id) = "ended" => ~Live(p, e.id, e.at)
  BY DEF Live, IsLive, PhaseOf
<1>. QED BY <1>1, <1>2, AdmitsIs DEF LeaseDecided

\* One more decided entry keeps the projection's leases those of the record.
LEMMA LeasedStep ==
    ASSUME NEW s, NEW n \in Nat, NEW p, Formed(s, n, p), Chained(s, n, p), Leased(s, n, p),
           Decided(s[n + 1], p)
    PROVE  Leased(s, n + 1, Advance(p, s[n + 1], n + 1))
<1>. DEFINE e == s[n + 1]
            q == Advance(p, e, n + 1)
<1>0. Shaped(p) /\ Decided(e, p)
  BY DEF Formed
<1>. HIDE DEF q, e
<1>1. CASE e.type = "lease"
  <2>1. AfterLease(p, e, n + 1, q) /\ LeaseDecided(e, p)
    BY <1>0, <1>1, AdvanceParts DEF q, Decided
  <2>2. q.leases = ApplyChange(p.leases, e, n + 1) /\ q.cancelledAt = p.cancelledAt
    BY <2>1 DEF AfterLease, Parts
  <2>3. PhaseOf(p.leases, e.id) # "ended"
    BY <2>1, DecidedOpen
  <2>4. /\ DOMAIN q.leases = DOMAIN p.leases \cup {e.id}
        /\ \A id \in DOMAIN p.leases : id # e.id => q.leases[id] = p.leases[id]
        /\ IsLease(q.leases[e.id])
        /\ q.leases[e.id].phase = e.phase /\ q.leases[e.id].expires = e.expires
        /\ q.leases[e.id].claimedAt = IF e.id \in DOMAIN p.leases
                                      THEN p.leases[e.id].claimedAt ELSE e.at
    <3>1. Applied(p.leases, e, n + 1, q.leases)
      BY <2>2, <2>3, ApplyChangeIs
    <3>. QED BY <3>1 DEF Applied
  <2>5. ASSUME NEW id \in DOMAIN p.leases, id # e.id
        PROVE  LeaseIs(s, n + 1, q.cancelledAt, id, q.leases[id])
    <3>1. LeaseIs(s, n, p.cancelledAt, id, p.leases[id])
      BY DEF Leased
    <3>. QED BY <3>1, <2>2, <2>4, <2>5, LeaseIsGrows DEF e
  <2>6. LeaseIs(s, n + 1, q.cancelledAt, e.id, q.leases[e.id])
    <3>1. /\ IsLease(q.leases[e.id]) /\ q.leases[e.id].phase \in {"running", "ended"}
          /\ q.leases[e.id].claimedAt \in Nat
      BY <2>1, <2>4 DEF LeaseDecided, Leased, LeaseIs
    <3>2. ASSUME e.phase = "running"
          PROVE  /\ e.id.position \in 1..n /\ s[e.id.position].type = "message"
                 /\ e.id.position > p.cancelledAt /\ e.id.seat \in Seat /\ e.expires \in Nat
      <4>1. Granted(p, e.id) /\ e.expires \in Nat
        BY <2>1, <3>2 DEF LeaseDecided
      <4>. QED BY <4>1, GrantedIs
    <3>3. ASSUME NEW i \in 1..n, s[i].type = "lease", s[i].id = e.id
          PROVE  s[i].phase = "running"
      BY <2>3, <3>3 DEF Leased, LeaseIs, PhaseOf
    <3>4. \A i \in 1..n + 1 : s[i].type = "lease" /\ s[i].id = e.id /\ e.phase = "running"
                              => s[i].phase = "running"
      BY <3>3 DEF e
    <3>5. LastLease(s, n + 1, e.id, n + 1) /\ s[n + 1].expires = e.expires
      BY <1>1 DEF LastLease, e
    <3>. QED BY <2>2, <2>4, <3>1, <3>2, <3>4, <3>5 DEF LeaseIs
  <2>7. \A i \in 1..n + 1 : s[i].type = "lease" => s[i].id \in DOMAIN q.leases
    BY <2>4 DEF Leased, e
  <2>8. \A id \in DOMAIN q.leases : \E i \in 1..n + 1 : s[i].type = "lease" /\ s[i].id = id
    BY <1>1, <2>4 DEF Leased, e
  <2>. QED BY <2>4, <2>5, <2>6, <2>7, <2>8 DEF Leased, q, e
<1>2. CASE e.type = "cancel"
  <2>1. AfterCancel(p, e, n + 1, q)
    BY <1>0, <1>2, AdvanceParts DEF q
  <2>2. q.leases = CancelHolds(p.leases, n + 1, e.at)
    BY <2>1 DEF AfterCancel
  <2>a. \A id \in DOMAIN p.leases : IsLease(p.leases[id])
    BY DEF Leased, LeaseIs
  <2>3. DOMAIN q.leases = DOMAIN p.leases
    BY <2>2, <2>a, CancelHoldsIs
  <2>4. ASSUME NEW id \in DOMAIN p.leases
        PROVE  LeaseIs(s, n + 1, q.cancelledAt, id, q.leases[id])
    <3>1. LeaseIs(s, n, p.cancelledAt, id, p.leases[id])
      BY DEF Leased
    <3>2. IF p.leases[id].phase = "ended" \/ id.position >= n + 1
          THEN q.leases[id] = p.leases[id] ELSE Ended(p.leases[id], n + 1, q.leases[id])
      BY <2>2, <2>a, CancelHoldsIs
    <3>3. p.leases[id].phase = "running" => ~(id.position >= n + 1)
      BY <3>1 DEF LeaseIs
    <3>4. /\ IsLease(q.leases[id]) /\ q.leases[id].phase = "ended"
          /\ q.leases[id].claimedAt \in Nat
      BY <3>1, <3>2, <3>3 DEF LeaseIs, Ended
    <3>. QED BY <3>4 DEF LeaseIs
  <2>. QED BY <1>2, <2>3, <2>4 DEF Leased, q, e
<1>3. CASE e.type \in {"message", "close", "composition"}
  <2>1. q.leases = p.leases /\ q.cancelledAt = p.cancelledAt
    <3>1. CASE e.type = "message"
      <4>1. AfterMessage(p, e, n + 1, q)
        BY <1>0, <3>1, AdvanceParts DEF q
      <4>. QED BY <4>1 DEF AfterMessage
    <3>2. CASE e.type = "close"
      <4>1. AfterClose(p, CloseRecord(e, n + 1), q)
        BY <1>0, <3>2, AdvanceParts DEF q
      <4>. QED BY <4>1 DEF AfterClose, Parts
    <3>3. CASE e.type = "composition"
      <4>1. AfterComposition(p, e.seated, q)
        BY <1>0, <3>3, AdvanceParts DEF q
      <4>. QED BY <4>1 DEF AfterComposition, Parts
    <3>. QED BY <1>3, <3>1, <3>2, <3>3
  <2>2. \A id \in DOMAIN p.leases : LeaseIs(s, n + 1, p.cancelledAt, id, p.leases[id])
    BY <1>3, LeaseIsGrows DEF Leased, e
  <2>. QED BY <1>3, <2>1, <2>2 DEF Leased, q, e
<1>. QED BY <1>0, <1>1, <1>2, <1>3 DEF Decided

\* The projection's leases are those of the record, at every position of a sound record.
LEMMA Leasing ==
    ASSUME NEW s, Sound(s), RulesAssumption
    PROVE  \A n \in 0..Len(s) : Leased(s, n, Replays(s)[n])
<1>. DEFINE r == Replays(s)
            T == {n \in Nat : n <= Len(s) => Leased(s, n, r[n])}
<1>. HIDE DEF r
<1>0. /\ Len(s) \in Nat /\ r[0] = EmptyProjection
      /\ \A n \in 1..Len(s) : r[n] = Advance(r[n - 1], s[n], n) /\ Decided(s[n], r[n - 1])
      /\ \A n \in 0..Len(s) : Formed(s, n, r[n]) /\ Chained(s, n, r[n])
  BY SequenceGrows, ReplaySteps, Formation, Chain DEF Sound, r
<1>1. 0 \in T
  <2>1. Leased(s, 0, EmptyProjection)
    BY DEF Leased, EmptyProjection
  <2>. QED BY <2>1, <1>0
<1>2. ASSUME NEW n \in Nat, n \in T PROVE n + 1 \in T
  <2>. SUFFICES ASSUME n + 1 <= Len(s) PROVE Leased(s, n + 1, r[n + 1])
    OBVIOUS
  <2>0. n \in 0..Len(s) /\ n + 1 \in 1..Len(s) /\ n + 1 - 1 = n /\ n <= Len(s)
    BY <1>0
  <2>1. /\ Formed(s, n, r[n]) /\ Chained(s, n, r[n]) /\ Leased(s, n, r[n])
        /\ Decided(s[n + 1], r[n]) /\ r[n + 1] = Advance(r[n], s[n + 1], n + 1)
    BY <1>0, <1>2, <2>0
  <2>. QED BY <2>1, LeasedStep
<1>. HIDE DEF T
<1>3. Nat \subseteq T
  BY <1>1, <1>2, SetInduction
<1>. QED BY <1>0, <1>3 DEF T, r

\* From the last entry of the clock on, a seat is at work on one activation.
LiveOnce(s, n, p) ==
    \A t \in Nat : (\A i \in 1..n : Clocked(s[i]) => s[i].at <= t) =>
        \A x, y \in DOMAIN p.leases :
            IsLive(p.leases[x], t) /\ IsLive(p.leases[y], t) /\ x.seat = y.seat => x = y

\* One more decided entry keeps at most one live lease for each seat.
LEMMA LiveOnceStep ==
    ASSUME NEW s, NEW n \in Nat, NEW p, Formed(s, n, p), Leased(s, n, p), LiveOnce(s, n, p),
           Decided(s[n + 1], p),
           Clocked(s[n + 1]) => \A i \in 1..n : Clocked(s[i]) => s[i].at <= s[n + 1].at
    PROVE  LiveOnce(s, n + 1, Advance(p, s[n + 1], n + 1))
<1>. DEFINE e == s[n + 1]
            q == Advance(p, e, n + 1)
<1>0. Shaped(p) /\ Decided(e, p)
  BY DEF Formed
<1>. SUFFICES ASSUME NEW t \in Nat, \A i \in 1..n + 1 : Clocked(s[i]) => s[i].at <= t,
                     NEW x \in DOMAIN q.leases, NEW y \in DOMAIN q.leases,
                     IsLive(q.leases[x], t), IsLive(q.leases[y], t), x.seat = y.seat, x # y
              PROVE  FALSE
  BY DEF LiveOnce
<1>. HIDE DEF q, e
<1>a. ~(/\ x \in DOMAIN p.leases /\ y \in DOMAIN p.leases
        /\ IsLive(p.leases[x], t) /\ IsLive(p.leases[y], t))
  BY DEF LiveOnce
<1>1. CASE e.type = "lease"
  <2>1. AfterLease(p, e, n + 1, q) /\ LeaseDecided(e, p)
    BY <1>0, <1>1, AdvanceParts DEF q, Decided
  <2>2. Applied(p.leases, e, n + 1, q.leases)
    BY <2>1, DecidedOpen, ApplyChangeIs DEF AfterLease
  <2>3. PICK z \in {x, y} : z # e.id /\ (x = e.id \/ y = e.id)
    BY <1>a, <2>2 DEF Applied
  <2>4. /\ z \in DOMAIN p.leases /\ IsLive(p.leases[z], t) /\ z.seat = e.id.seat
        /\ IsLive(q.leases[e.id], t)
    BY <2>2, <2>3 DEF Applied
  <2>5. e.at \in Nat /\ e.at <= t
    BY <1>1, <2>1 DEF LeaseDecided, Clocked, e
  <2>6. IsLive(p.leases[z], e.at)
    <3>1. p.leases[z].phase = "running" /\ p.leases[z].expires \in Nat
      BY <2>4 DEF Leased, LeaseIs, IsLive
    <3>. QED BY <3>1, <2>4, <2>5 DEF IsLive, IsExpired
  <2>7. PICK kind \in {"claim", "renew"} : Admitted(kind, e, p)
    <3>1. e.phase = "running"
      BY <2>2, <2>4 DEF Applied, IsLive
    <3>. QED BY <2>1, <3>1 DEF LeaseDecided
  <2>8. Holding(p, e.id, e.at)
    BY <2>3, <2>4, <2>6 DEF Holding
  <2>9. Live(p, e.id, e.at)
    BY <2>7, <2>8, AdmitsIs
  <2>a. \A i \in 1..n : Clocked(s[i]) => s[i].at <= e.at
    BY <1>1 DEF Clocked, e
  <2>. QED BY <2>3, <2>4, <2>5, <2>6, <2>9, <2>a DEF LiveOnce, Live
<1>2. CASE e.type = "cancel"
  <2>1. q.leases = CancelHolds(p.leases, n + 1, e.at)
    BY <1>0, <1>2, AdvanceParts DEF q, AfterCancel
  <2>2. \A id \in DOMAIN p.leases : IsLease(p.leases[id])
    BY DEF Leased, LeaseIs
  <2>3. /\ DOMAIN q.leases = DOMAIN p.leases
        /\ \A id \in DOMAIN p.leases : q.leases[id] = p.leases[id] \/ q.leases[id].phase = "ended"
    <3>1. DOMAIN q.leases = DOMAIN p.leases
      BY <2>1, <2>2, CancelHoldsIs
    <3>2. ASSUME NEW id \in DOMAIN p.leases
          PROVE  q.leases[id] = p.leases[id] \/ Ended(p.leases[id], n + 1, q.leases[id])
      BY <2>1, <2>2, CancelHoldsIs
    <3>. QED BY <3>1, <3>2 DEF Ended
  <2>. QED BY <1>a, <2>3 DEF IsLive
<1>3. CASE e.type \in {"message", "close", "composition"}
  <2>1. q.leases = p.leases
    <3>1. CASE e.type = "message"
      <4>1. AfterMessage(p, e, n + 1, q)
        BY <1>0, <3>1, AdvanceParts DEF q
      <4>. QED BY <4>1 DEF AfterMessage
    <3>2. CASE e.type = "close"
      <4>1. AfterClose(p, CloseRecord(e, n + 1), q)
        BY <1>0, <3>2, AdvanceParts DEF q
      <4>. QED BY <4>1 DEF AfterClose, Parts
    <3>3. CASE e.type = "composition"
      <4>1. AfterComposition(p, e.seated, q)
        BY <1>0, <3>3, AdvanceParts DEF q
      <4>. QED BY <4>1 DEF AfterComposition, Parts
    <3>. QED BY <1>3, <3>1, <3>2, <3>3
  <2>. QED BY <1>a, <2>1
<1>. QED BY <1>0, <1>1, <1>2, <1>3 DEF Decided

\* Each seat has at most one live lease, at every position of a sound record.
LEMMA LivingOnce ==
    ASSUME NEW s, Sound(s), RulesAssumption
    PROVE  \A n \in 0..Len(s) : LiveOnce(s, n, Replays(s)[n])
<1>. DEFINE r == Replays(s)
            T == {n \in Nat : n <= Len(s) => LiveOnce(s, n, r[n])}
<1>. HIDE DEF r
<1>0. /\ Len(s) \in Nat /\ r[0] = EmptyProjection
      /\ \A n \in 1..Len(s) : r[n] = Advance(r[n - 1], s[n], n) /\ Decided(s[n], r[n - 1])
      /\ \A n \in 0..Len(s) : Formed(s, n, r[n]) /\ Leased(s, n, r[n])
  BY SequenceGrows, ReplaySteps, Formation, Leasing DEF Sound, r
<1>1. 0 \in T
  <2>1. LiveOnce(s, 0, EmptyProjection)
    BY DEF LiveOnce, EmptyProjection
  <2>. QED BY <2>1, <1>0
<1>2. ASSUME NEW n \in Nat, n \in T PROVE n + 1 \in T
  <2>. SUFFICES ASSUME n + 1 <= Len(s) PROVE LiveOnce(s, n + 1, r[n + 1])
    OBVIOUS
  <2>0. n \in 0..Len(s) /\ n + 1 \in 1..Len(s) /\ n + 1 - 1 = n /\ n <= Len(s)
    BY <1>0
  <2>1. /\ Formed(s, n, r[n]) /\ Leased(s, n, r[n]) /\ LiveOnce(s, n, r[n])
        /\ Decided(s[n + 1], r[n]) /\ r[n + 1] = Advance(r[n], s[n + 1], n + 1)
    BY <1>0, <1>2, <2>0
  <2>2. Clocked(s[n + 1]) => \A i \in 1..n : Clocked(s[i]) => s[i].at <= s[n + 1].at
    <3>1. n + 1 \in 1..Len(s) /\ \A i \in 1..n : i \in 1..Len(s) /\ i < n + 1
      BY <1>0
    <3>2. \A i, j \in 1..Len(s) : i < j /\ Clocked(s[i]) /\ Clocked(s[j]) => s[i].at <= s[j].at
      BY DEF Sound
    <3>. QED BY <3>1, <3>2
  <2>. QED BY <2>1, <2>2, LiveOnceStep
<1>. HIDE DEF T
<1>3. Nat \subseteq T
  BY <1>1, <1>2, SetInduction
<1>. QED BY <1>0, <1>3 DEF T, r

-----------------------------------------------------------------------------
(* The says that wait, the wakes and the summaries that are owed *)

\* Entry i of s ends the authority of every activation of seat caused before it.
Ends(s, i, seat) ==
    \/ s[i].type = "cancel"
    \/ s[i].type = "message" /\ s[i].kind = "unseated" /\ s[i].to = seat

\* A say that waits returns, or is dismissed.
Finishes(e, i) == e.type = "message" /\ e.kind \in {"system", "dismissed"} /\ e.about = i

Unfinished(s, n, i) ==
    /\ s[i].type = "message" /\ s[i].kind = "said" /\ s[i].delay > 0
    /\ \A j \in i + 1..n : ~Ends(s, j, s[i].from) /\ ~Finishes(s[j], i)

Waiter(s, i) == [seq |-> i, seat |-> s[i].from, due |-> s[i].at + s[i].delay]

\* The says that wait are those that nothing in the record finished.
Waiting(s, n, p) ==
    /\ \A x \in p.scheduled : \E i \in 1..n : x = Waiter(s, i) /\ Unfinished(s, n, i)
    /\ \A i \in 1..n : Unfinished(s, n, i) => Waiter(s, i) \in p.scheduled

\* A scheduled say stays unfinished unless the new entry ends its author or finishes it.
LEMMA UnfinishedGrows ==
    ASSUME NEW s, NEW n \in Nat, NEW i \in 1..n
    PROVE  Unfinished(s, n + 1, i) <=> /\ Unfinished(s, n, i)
                                       /\ ~Ends(s, n + 1, s[i].from)
                                       /\ ~Finishes(s[n + 1], i)
<1>1. \A j : j \in i + 1..n + 1 <=> j \in i + 1..n \/ j = n + 1
  OBVIOUS
<1>. QED BY <1>1 DEF Unfinished

\* One more decided entry keeps the projection's scheduled says those that are unfinished.
LEMMA WaitingStep ==
    ASSUME NEW s, NEW n \in Nat, NEW p, Formed(s, n, p), Waiting(s, n, p), Decided(s[n + 1], p)
    PROVE  Waiting(s, n + 1, Advance(p, s[n + 1], n + 1))
<1>. DEFINE e == s[n + 1]
            q == Advance(p, e, n + 1)
<1>0. Shaped(p) /\ Decided(e, p)
  BY DEF Formed
<1>. HIDE DEF q, e
<1>1. CASE e.type = "message"
  <2>1. AfterMessage(p, e, n + 1, q) /\ MessageDecided(e, p)
    BY <1>0, <1>1, AdvanceParts DEF q, Decided
  <2>. DEFINE m == Placed(e, n + 1)
  <2>2. /\ m.seq = n + 1 /\ m.kind = e.kind /\ m.to = e.to /\ m.from = e.from
        /\ m.at = e.at /\ m.delay = e.delay /\ m.about = e.about
    BY <2>1, PlacedIs DEF MessageDecided, MessageParts
  <2>. HIDE DEF m
  <2>3. q.scheduled = ScheduleStep(p.scheduled, m)
    BY <2>1 DEF AfterMessage, m
  <2>4. ASSUME NEW i \in 1..n
        PROVE  Waiter(s, i) \in q.scheduled
               <=> /\ Waiter(s, i) \in p.scheduled
                   /\ ~Ends(s, n + 1, s[i].from) /\ ~Finishes(e, i)
    <3>1. Waiter(s, i).seq = i /\ Waiter(s, i).seat = s[i].from
      BY DEF Waiter
    <3>2. Ends(s, n + 1, s[i].from) <=> e.kind = "unseated" /\ e.to = s[i].from
      BY <1>1 DEF Ends, e
    <3>3. Finishes(e, i) <=> e.kind \in {"system", "dismissed"} /\ e.about = i
      BY <1>1 DEF Finishes
    <3>4. e.about \in Nat
      BY <2>1 DEF MessageDecided
    <3>. QED BY <2>2, <2>3, <3>1, <3>2, <3>3, <3>4 DEF ScheduleStep
  <2>5. e.delay > 0 /\ e.kind = "said" => Waiter(s, n + 1) \in q.scheduled
    <3>1. e.delay > 0 /\ e.kind = "said"
          => q.scheduled = p.scheduled \cup {[seq |-> n + 1, seat |-> e.from, due |-> e.at + e.delay]}
      BY <2>2, <2>3 DEF ScheduleStep
    <3>. QED BY <3>1 DEF Waiter, e
  <2>6. ASSUME NEW x \in q.scheduled
        PROVE  x \in p.scheduled
               \/ (x = Waiter(s, n + 1) /\ e.delay > 0 /\ e.kind = "said")
    BY <2>2, <2>3 DEF ScheduleStep, Waiter, e
  <2>7. Unfinished(s, n + 1, n + 1) <=> e.delay > 0 /\ e.kind = "said"
    BY <1>1 DEF Unfinished, e
  <2>8. ASSUME NEW x \in q.scheduled
        PROVE  \E i \in 1..n + 1 : x = Waiter(s, i) /\ Unfinished(s, n + 1, i)
    <3>1. CASE x \in p.scheduled
      <4>1. PICK i \in 1..n : x = Waiter(s, i) /\ Unfinished(s, n, i)
        BY <3>1 DEF Waiting
      <4>2. i \in 1..n + 1 /\ Unfinished(s, n + 1, i)
        BY <2>4, <4>1, UnfinishedGrows DEF e
      <4>. QED BY <4>1, <4>2
    <3>2. CASE x = Waiter(s, n + 1) /\ e.delay > 0 /\ e.kind = "said"
      BY <3>2, <2>7
    <3>. QED BY <2>6, <3>1, <3>2
  <2>9. ASSUME NEW i \in 1..n + 1, Unfinished(s, n + 1, i)
        PROVE  Waiter(s, i) \in q.scheduled
    <3>1. CASE i = n + 1
      BY <3>1, <2>5, <2>7, <2>9
    <3>2. CASE i \in 1..n
      BY <3>2, <2>4, <2>9, UnfinishedGrows DEF Waiting, e
    <3>. QED BY <3>1, <3>2
  <2>. QED BY <2>8, <2>9 DEF Waiting, q, e
<1>2. CASE e.type = "cancel"
  <2>1. q.scheduled = {}
    BY <1>0, <1>2, AdvanceParts DEF q, AfterCancel
  <2>2. ASSUME NEW i \in 1..n + 1 PROVE ~Unfinished(s, n + 1, i)
    <3>1. CASE i = n + 1
      BY <3>1, <1>2 DEF Unfinished, e
    <3>2. CASE i \in 1..n
      BY <3>2, <1>2, UnfinishedGrows DEF Ends, e
    <3>. QED BY <3>1, <3>2
  <2>. QED BY <2>1, <2>2 DEF Waiting, q, e
<1>3. CASE e.type \in {"lease", "close", "composition"}
  <2>1. q.scheduled = p.scheduled
    <3>1. CASE e.type = "lease"
      <4>1. AfterLease(p, e, n + 1, q)
        BY <1>0, <3>1, AdvanceParts DEF q
      <4>. QED BY <4>1 DEF AfterLease, Parts
    <3>2. CASE e.type = "close"
      <4>1. AfterClose(p, CloseRecord(e, n + 1), q)
        BY <1>0, <3>2, AdvanceParts DEF q
      <4>. QED BY <4>1 DEF AfterClose, Parts
    <3>3. CASE e.type = "composition"
      <4>1. AfterComposition(p, e.seated, q)
        BY <1>0, <3>3, AdvanceParts DEF q
      <4>. QED BY <4>1 DEF AfterComposition, Parts
    <3>. QED BY <1>3, <3>1, <3>2, <3>3
  <2>2. \A i \in 1..n : Unfinished(s, n + 1, i) <=> Unfinished(s, n, i)
    BY <1>3, UnfinishedGrows DEF Ends, Finishes, e
  <2>3. ~Unfinished(s, n + 1, n + 1)
    BY <1>3 DEF Unfinished, e
  <2>4. \A i \in 1..n + 1 : i \in 1..n \/ i = n + 1
    OBVIOUS
  <2>. QED BY <2>1, <2>2, <2>3, <2>4 DEF Waiting, q, e
<1>. QED BY <1>0, <1>1, <1>2, <1>3 DEF Decided

\* The projection's scheduled says are the unfinished ones, at every position of a sound record.
LEMMA Waits ==
    ASSUME NEW s, Sound(s)
    PROVE  \A n \in 0..Len(s) : Waiting(s, n, Replays(s)[n])
<1>. DEFINE r == Replays(s)
            T == {n \in Nat : n <= Len(s) => Waiting(s, n, r[n])}
<1>. HIDE DEF r
<1>0. /\ Len(s) \in Nat /\ r[0] = EmptyProjection
      /\ \A n \in 1..Len(s) : r[n] = Advance(r[n - 1], s[n], n) /\ Decided(s[n], r[n - 1])
      /\ \A n \in 0..Len(s) : Formed(s, n, r[n])
  BY SequenceGrows, ReplaySteps, Formation DEF Sound, r
<1>1. 0 \in T
  <2>1. Waiting(s, 0, EmptyProjection)
    BY DEF Waiting, EmptyProjection
  <2>. QED BY <2>1, <1>0
<1>2. ASSUME NEW n \in Nat, n \in T PROVE n + 1 \in T
  <2>. SUFFICES ASSUME n + 1 <= Len(s) PROVE Waiting(s, n + 1, r[n + 1])
    OBVIOUS
  <2>0. n \in 0..Len(s) /\ n + 1 \in 1..Len(s) /\ n + 1 - 1 = n /\ n <= Len(s)
    BY <1>0
  <2>1. Formed(s, n, r[n]) /\ Waiting(s, n, r[n]) /\ Decided(s[n + 1], r[n])
        /\ r[n + 1] = Advance(r[n], s[n + 1], n + 1)
    BY <1>0, <1>2, <2>0
  <2>. QED BY <2>1, WaitingStep
<1>. HIDE DEF T
<1>3. Nat \subseteq T
  BY <1>1, <1>2, SetInduction
<1>. QED BY <1>0, <1>3 DEF T, r

\* What is owed was caused by a message after the last marker.
After(s, n, p, i) == i \in 1..n /\ s[i].type = "message" /\ i > p.cancelledAt

Wake(w) ==
    w.due # Held => /\ w.due.id.source = "message"
                    /\ w.due.id.position = w.position /\ w.due.id.seat = w.seat

Pending(s, n, p) ==
    /\ \A w \in p.wakes : After(s, n, p, w.position) /\ Wake(w)
    /\ \A o \in p.owed : After(s, n, p, o.due.id.position) /\ o.due.id.source = "closed"
                         /\ o.due.id.seat # None

\* One more decided entry keeps what is owed after the last marker.
LEMMA OwingStep ==
    ASSUME NEW s, NEW n \in Nat, NEW p, Formed(s, n, p), Chained(s, n, p), Pending(s, n, p),
           Decided(s[n + 1], p)
    PROVE  Pending(s, n + 1, Advance(p, s[n + 1], n + 1))
<1>. DEFINE e == s[n + 1]
            q == Advance(p, e, n + 1)
<1>0. Shaped(p) /\ Decided(e, p) /\ p.cancelledAt \in 0..n
  BY DEF Formed
<1>. HIDE DEF q, e
\* A summary that is judged again keeps its place.
<1>a. ASSUME q.cancelledAt = p.cancelledAt, NEW o \in q.owed,
             o \in p.owed \/ \E old \in p.owed : o \in JudgeOwed(q, CloseOf(old))
      PROVE  After(s, n + 1, q, o.due.id.position) /\ o.due.id.source = "closed"
             /\ o.due.id.seat # None
  <2>1. CASE o \in p.owed
    BY <1>a, <2>1 DEF Pending, After
  <2>2. ASSUME NEW old \in p.owed, o \in JudgeOwed(q, CloseOf(old))
        PROVE  After(s, n + 1, q, o.due.id.position) /\ o.due.id.source = "closed"
               /\ o.due.id.seat # None
    <3>1. /\ o.due.id.position = old.due.id.position /\ o.due.id.source = "closed"
          /\ o.due.id.seat # None
      BY <2>2, JudgeOwedIs DEF CloseOf
    <3>. QED BY <3>1, <1>a DEF Pending, After
  <2>. QED BY <1>a, <2>1, <2>2
<1>1. CASE e.type = "message"
  <2>1. AfterMessage(p, e, n + 1, q)
    BY <1>0, <1>1, AdvanceParts DEF q
  <2>2. q.cancelledAt = p.cancelledAt
    BY <2>1 DEF AfterMessage
  <2>3. ASSUME NEW w \in q.wakes PROVE After(s, n + 1, q, w.position) /\ Wake(w)
    <3>1. w \in p.wakes \/ \E seat : w \in JudgeWake(p.leases, seat, n + 1)
      BY <2>1 DEF AfterMessage, DropSeat
    <3>2. CASE w \in p.wakes
      BY <2>2, <3>2 DEF Pending, After
    <3>3. ASSUME NEW seat, w \in JudgeWake(p.leases, seat, n + 1)
          PROVE  After(s, n + 1, q, w.position) /\ Wake(w)
      BY <1>0, <1>1, <2>2, <3>3, JudgeWakeIs DEF After, Wake, e
    <3>. QED BY <3>1, <3>2, <3>3
  <2>4. \A o \in q.owed : o \in p.owed \/ \E old \in p.owed : o \in JudgeOwed(q, CloseOf(old))
    BY <2>1 DEF AfterMessage, Rejudged, Shaken
  <2>. QED BY <2>2, <2>3, <2>4, <1>a DEF Pending, q, e
<1>2. CASE e.type = "lease"
  <2>1. AfterLease(p, e, n + 1, q)
    BY <1>0, <1>2, AdvanceParts DEF q
  <2>2. q.cancelledAt = p.cancelledAt
    BY <2>1 DEF AfterLease, Parts
  <2>3. ASSUME NEW w \in q.wakes PROVE After(s, n + 1, q, w.position) /\ Wake(w)
    <3>1. w \in p.wakes \/ \E v \in p.wakes : w \in JudgeWake(q.leases, e.id.seat, v.position)
      BY <2>1 DEF AfterLease, RejudgeSeat
    <3>2. CASE w \in p.wakes
      BY <2>2, <3>2 DEF Pending, After
    <3>3. ASSUME NEW v \in p.wakes, w \in JudgeWake(q.leases, e.id.seat, v.position)
          PROVE  After(s, n + 1, q, w.position) /\ Wake(w)
      BY <2>2, <3>3, JudgeWakeIs DEF Pending, After, Wake
    <3>. QED BY <3>1, <3>2, <3>3
  <2>4. \A o \in q.owed : o \in p.owed \/ \E old \in p.owed : o \in JudgeOwed(q, CloseOf(old))
    BY <2>1 DEF AfterLease, Rejudged, Touched
  <2>. QED BY <2>2, <2>3, <2>4, <1>a DEF Pending, q, e
<1>3. CASE e.type = "close"
  <2>1. AfterClose(p, CloseRecord(e, n + 1), q) /\ CloseDecided(e, p)
    BY <1>0, <1>3, AdvanceParts DEF q, Decided
  <2>. DEFINE c == CloseRecord(e, n + 1)
  <2>2. q.cancelledAt = p.cancelledAt /\ q.wakes = p.wakes /\ q.owed = p.owed \cup JudgeOwed(p, c)
    BY <2>1 DEF AfterClose, Parts
  <2>3. c.through = p.lastSeq /\ p.exchange.from # 0
    BY <2>1 DEF CloseDecided, CloseRecord
  <2>. HIDE DEF c
  <2>4. ASSUME NEW o \in JudgeOwed(p, c)
        PROVE  After(s, n + 1, q, o.due.id.position) /\ o.due.id.source = "closed"
               /\ o.due.id.seat # None
    <3>1. /\ o.due.id.position = p.lastSeq /\ o.due.id.source = "closed"
          /\ o.due.id.seat # None /\ ~(p.lastSeq < p.cancelledAt)
      BY <2>3, JudgeOwedIs
    <3>2. p.lastSeq \in 1..n /\ s[p.lastSeq].type = "message"
      BY <2>3, OpenAfterBoundary
    <3>3. p.lastSeq # p.cancelledAt
      BY <3>2 DEF Formed
    <3>. QED BY <3>1, <3>2, <3>3, <1>0, <2>2 DEF After
  <2>5. \A w \in q.wakes : After(s, n + 1, q, w.position) /\ Wake(w)
    BY <2>2 DEF Pending, After
  <2>6. ASSUME NEW o \in q.owed
        PROVE  After(s, n + 1, q, o.due.id.position) /\ o.due.id.source = "closed"
               /\ o.due.id.seat # None
    BY <2>2, <2>4, <1>a
  <2>. QED BY <2>5, <2>6 DEF Pending, q, e
<1>4. CASE e.type = "cancel"
  <2>1. AfterCancel(p, e, n + 1, q)
    BY <1>0, <1>4, AdvanceParts DEF q
  <2>2. q.wakes = {} /\ q.cancelledAt = n + 1
    BY <2>1 DEF AfterCancel
  <2>3. ASSUME NEW o \in q.owed PROVE FALSE
    <3>1. o \notin JudgeOwed(q, CancelledClose(p, n + 1))
      BY JudgeOwedIs DEF CancelledClose
    <3>2. PICK old \in p.owed : o \in JudgeOwed(q, CloseOf(old))
      BY <2>1, <3>1 DEF AfterCancel, Rejudged
    <3>3. ~(old.due.id.position < n + 1)
      BY <2>2, <3>2, JudgeOwedIs DEF CloseOf
    <3>4. old.due.id.position \in 1..n
      BY DEF Pending, After
    <3>. QED BY <3>3, <3>4
  <2>. QED BY <2>2, <2>3 DEF Pending, q, e
<1>5. CASE e.type = "composition"
  <2>1. AfterComposition(p, e.seated, q)
    BY <1>0, <1>5, AdvanceParts DEF q
  <2>2. q.cancelledAt = p.cancelledAt /\ q.wakes = p.wakes /\ q.owed = p.owed
    BY <2>1 DEF AfterComposition, Parts
  <2>. QED BY <2>2 DEF Pending, After, q, e
<1>. QED BY <1>0, <1>1, <1>2, <1>3, <1>4, <1>5 DEF Decided

\* What is owed was caused after the last marker, at every position of a sound record.
LEMMA Owes ==
    ASSUME NEW s, Sound(s), RulesAssumption
    PROVE  \A n \in 0..Len(s) : Pending(s, n, Replays(s)[n])
<1>. DEFINE r == Replays(s)
            T == {n \in Nat : n <= Len(s) => Pending(s, n, r[n])}
<1>. HIDE DEF r
<1>0. /\ Len(s) \in Nat /\ r[0] = EmptyProjection
      /\ \A n \in 1..Len(s) : r[n] = Advance(r[n - 1], s[n], n) /\ Decided(s[n], r[n - 1])
      /\ \A n \in 0..Len(s) : Formed(s, n, r[n]) /\ Chained(s, n, r[n])
  BY SequenceGrows, ReplaySteps, Formation, Chain DEF Sound, r
<1>1. 0 \in T
  <2>1. Pending(s, 0, EmptyProjection)
    BY DEF Pending, EmptyProjection
  <2>. QED BY <2>1, <1>0
<1>2. ASSUME NEW n \in Nat, n \in T PROVE n + 1 \in T
  <2>. SUFFICES ASSUME n + 1 <= Len(s) PROVE Pending(s, n + 1, r[n + 1])
    OBVIOUS
  <2>0. n \in 0..Len(s) /\ n + 1 \in 1..Len(s) /\ n + 1 - 1 = n /\ n <= Len(s)
    BY <1>0
  <2>1. /\ Formed(s, n, r[n]) /\ Chained(s, n, r[n]) /\ Pending(s, n, r[n])
        /\ Decided(s[n + 1], r[n]) /\ r[n + 1] = Advance(r[n], s[n + 1], n + 1)
    BY <1>0, <1>2, <2>0
  <2>. QED BY <2>1, OwingStep
<1>. HIDE DEF T
<1>3. Nat \subseteq T
  BY <1>1, <1>2, SetInduction
<1>. QED BY <1>0, <1>3 DEF T, r

\* Every summary on the record reports a close that the projection still holds.
Reported(s, n, p) ==
    \A i \in 1..n : s[i].type = "message" /\ s[i].kind = "summary" =>
        \E k \in 1..Len(p.closes) :
            /\ p.closes[k].writer = s[i].from /\ s[i].from # None
            /\ p.closes[k].from = s[i].about /\ p.closes[k].through = s[i].through

\* One more decided entry keeps each summary about a close that the projection holds.
LEMMA ReportedStep ==
    ASSUME NEW s, NEW n \in Nat, NEW p, Formed(s, n, p), Chained(s, n, p), Reported(s, n, p),
           Decided(s[n + 1], p), RulesAssumption
    PROVE  Reported(s, n + 1, Advance(p, s[n + 1], n + 1))
<1>. DEFINE e == s[n + 1]
            q == Advance(p, e, n + 1)
<1>0. Shaped(p) /\ Decided(e, p) /\ IsSequence(p.closes)
  BY DEF Formed, Chained
<1>. HIDE DEF q, e
<1>1. ASSUME e.type = "message", e.kind = "summary"
      PROVE  \E k \in 1..Len(p.closes) :
                /\ p.closes[k].writer = e.from /\ e.from # None
                /\ p.closes[k].from = e.about /\ p.closes[k].through = e.through
  <2>1. MessageDecided(e, p)
    BY <1>0, <1>1 DEF Decided
  <2>2. e.from \in Seat
    BY <1>1, <2>1 DEF MessageDecided, Formed
  <2>3. DOMAIN p.closes = 1..Len(p.closes)
    BY <1>0, SequenceGrows
  <2>. QED BY <1>1, <2>1, <2>2, <2>3 DEF MessageDecided, RulesAssumption
<1>2. \A k \in 1..Len(p.closes) : k \in 1..Len(q.closes) /\ q.closes[k] = p.closes[k]
  <2>1. q.closes = p.closes \/ \E c : q.closes = Append(p.closes, c)
    <3>1. CASE e.type = "message"
      <4>1. AfterMessage(p, e, n + 1, q)
        BY <1>0, <3>1, AdvanceParts DEF q
      <4>. QED BY <4>1 DEF AfterMessage
    <3>2. CASE e.type = "lease"
      <4>1. AfterLease(p, e, n + 1, q)
        BY <1>0, <3>2, AdvanceParts DEF q
      <4>. QED BY <4>1 DEF AfterLease, Parts
    <3>3. CASE e.type = "close"
      <4>1. AfterClose(p, CloseRecord(e, n + 1), q)
        BY <1>0, <3>3, AdvanceParts DEF q
      <4>. QED BY <4>1 DEF AfterClose
    <3>4. CASE e.type = "cancel"
      <4>1. AfterCancel(p, e, n + 1, q)
        BY <1>0, <3>4, AdvanceParts DEF q
      <4>. QED BY <4>1 DEF AfterCancel
    <3>5. CASE e.type = "composition"
      <4>1. AfterComposition(p, e.seated, q)
        BY <1>0, <3>5, AdvanceParts DEF q
      <4>. QED BY <4>1 DEF AfterComposition, Parts
    <3>. QED BY <1>0, <3>1, <3>2, <3>3, <3>4, <3>5 DEF Decided
  <2>2. ASSUME NEW c, q.closes = Append(p.closes, c)
        PROVE  \A k \in 1..Len(p.closes) : k \in 1..Len(q.closes) /\ q.closes[k] = p.closes[k]
    BY <1>0, <2>2, SequenceGrows
  <2>. QED BY <2>1, <2>2
<1>3. ASSUME NEW i \in 1..n + 1, s[i].type = "message", s[i].kind = "summary"
      PROVE  \E k \in 1..Len(q.closes) :
                /\ q.closes[k].writer = s[i].from /\ s[i].from # None
                /\ q.closes[k].from = s[i].about /\ q.closes[k].through = s[i].through
  <2>1. \E k \in 1..Len(p.closes) :
            /\ p.closes[k].writer = s[i].from /\ s[i].from # None
            /\ p.closes[k].from = s[i].about /\ p.closes[k].through = s[i].through
    <3>1. CASE i = n + 1
      BY <1>1, <1>3, <3>1 DEF e
    <3>2. CASE i \in 1..n
      BY <1>3, <3>2 DEF Reported
    <3>. QED BY <3>1, <3>2
  <2>. QED BY <1>2, <2>1
<1>. QED BY <1>3 DEF Reported, q, e

\* Each summary is about a close that the projection holds, at every position of a sound record.
LEMMA Reports ==
    ASSUME NEW s, Sound(s), RulesAssumption
    PROVE  \A n \in 0..Len(s) : Reported(s, n, Replays(s)[n])
<1>. DEFINE r == Replays(s)
            T == {n \in Nat : n <= Len(s) => Reported(s, n, r[n])}
<1>. HIDE DEF r
<1>0. /\ Len(s) \in Nat
      /\ \A n \in 1..Len(s) : r[n] = Advance(r[n - 1], s[n], n) /\ Decided(s[n], r[n - 1])
      /\ \A n \in 0..Len(s) : Formed(s, n, r[n]) /\ Chained(s, n, r[n])
  BY SequenceGrows, ReplaySteps, Formation, Chain DEF Sound, r
<1>1. 0 \in T
  BY DEF Reported
<1>2. ASSUME NEW n \in Nat, n \in T PROVE n + 1 \in T
  <2>. SUFFICES ASSUME n + 1 <= Len(s) PROVE Reported(s, n + 1, r[n + 1])
    OBVIOUS
  <2>0. n \in 0..Len(s) /\ n + 1 \in 1..Len(s) /\ n + 1 - 1 = n /\ n <= Len(s)
    BY <1>0
  <2>1. /\ Formed(s, n, r[n]) /\ Chained(s, n, r[n]) /\ Reported(s, n, r[n])
        /\ Decided(s[n + 1], r[n]) /\ r[n + 1] = Advance(r[n], s[n + 1], n + 1)
    BY <1>0, <1>2, <2>0
  <2>. QED BY <2>1, ReportedStep
<1>. HIDE DEF T
<1>3. Nat \subseteq T
  BY <1>1, <1>2, SetInduction
<1>. QED BY <1>0, <1>3 DEF T, r

-----------------------------------------------------------------------------
(* What a sound record never holds *)

\* The facts about the place of an entry that the theorems below start from.
LEMMA EntryAt ==
    ASSUME NEW s, Sound(s), RulesAssumption, NEW i \in 1..Len(s)
    PROVE  LET p == Replays(s)[i - 1] IN
           /\ i \in Nat /\ i - 1 \in Nat
           /\ Decided(s[i], p)
           /\ Formed(s, i - 1, p) /\ Chained(s, i - 1, p) /\ Leased(s, i - 1, p)
<1>1. Len(s) \in Nat
  BY SequenceGrows DEF Sound
<1>2. i \in Nat /\ i - 1 \in 0..Len(s)
  BY <1>1
<1>3. Formed(s, i - 1, Replays(s)[i - 1]) /\ Chained(s, i - 1, Replays(s)[i - 1])
      /\ Leased(s, i - 1, Replays(s)[i - 1])
  BY <1>2, Formation, Chain, Leasing
<1>. QED BY <1>1, <1>2, <1>3 DEF Sound

Authority(s) ==
    \A i \in 1..Len(s) :
        LET id == CASE s[i].type = "lease" /\ s[i].phase = "running" -> s[i].id
                    [] s[i].type = "message" -> s[i].act
                    [] OTHER -> None
        IN id # None => \A j \in id.position + 1..i - 1 : ~Ends(s, j, id.seat)

\* In a sound record no seat writes for an activation that a removal came after.
LEMMA AuthorityOfRecord == ASSUME NEW s, Sound(s), RulesAssumption PROVE Authority(s)
<1>. SUFFICES ASSUME NEW i \in 1..Len(s), NEW id, id # None,
                     \/ s[i].type = "lease" /\ s[i].phase = "running" /\ id = s[i].id
                     \/ s[i].type = "message" /\ id = s[i].act,
                     NEW j \in id.position + 1..i - 1, Ends(s, j, id.seat)
              PROVE  FALSE
  BY DEF Authority
<1>. DEFINE p == Replays(s)[i - 1]
<1>1. /\ i \in Nat /\ i - 1 \in Nat /\ Decided(s[i], p)
      /\ Formed(s, i - 1, p) /\ Chained(s, i - 1, p)
  BY EntryAt
<1>. HIDE DEF p
<1>2. Granted(p, id)
  <2>1. CASE s[i].type = "lease" /\ s[i].phase = "running" /\ id = s[i].id
    <3>1. LeaseDecided(s[i], p) /\ s[i].phase # "ended"
      BY <1>1, <2>1 DEF Decided
    <3>. QED BY <2>1, <3>1 DEF LeaseDecided
  <2>2. CASE s[i].type = "message" /\ id = s[i].act
    <3>1. MessageDecided(s[i], p)
      BY <1>1, <2>2 DEF Decided
    <3>. QED BY <2>2, <3>1 DEF MessageDecided, SeatAuthority
  <2>. QED BY <2>1, <2>2
<1>3. /\ id.position \in 1..i - 1 /\ id.position > p.cancelledAt
      /\ ~RemovedAfter(p.messages, id.seat, id.position)
  BY <1>1, <1>2, GrantedIs
<1>4. j \in 1..i - 1 /\ j > id.position
  BY <1>3
<1>5. CASE s[j].type = "cancel"
  BY <1>1, <1>3, <1>4, <1>5 DEF Formed
<1>6. CASE s[j].type = "message" /\ s[j].kind = "unseated" /\ s[j].to = id.seat
  <2>1. IsMessage(s[j]) /\ Placed(s[j], j) \in p.messages
    BY <1>1, <1>4, <1>6 DEF Formed
  <2>2. Placed(s[j], j).kind = "unseated" /\ Placed(s[j], j).to = id.seat
        /\ Placed(s[j], j).seq = j
    BY <1>6, <2>1, PlacedIs DEF MessageParts
  <2>. QED BY <1>3, <1>4, <2>1, <2>2 DEF RemovedAfter
<1>. QED BY <1>5, <1>6 DEF Ends

Story(s) ==
    \A i \in {k \in 1..Len(s) : s[k].type = "lease"} :
        LET before == {j \in 1..i - 1 : s[j].type = "lease" /\ s[j].id = s[i].id} IN
        /\ \A j \in before : s[j].phase = "running"
        /\ s[i].reason = "abandoned" => before = {}
        /\ s[i].reason = "expired" =>
              before # {} /\ s[Latest(before)].expires <= s[i].at
        /\ before # {} => \A c \in Latest(before)..i : s[c].type # "cancel"

\* In a sound record a lease is claimed, then extended, then ended once, and no marker lies within.
LEMMA StoryOfRecord == ASSUME NEW s, Sound(s), RulesAssumption PROVE Story(s)
<1>. SUFFICES ASSUME NEW i \in 1..Len(s), s[i].type = "lease"
              PROVE  LET before == {j \in 1..i - 1 : s[j].type = "lease" /\ s[j].id = s[i].id} IN
                     /\ \A j \in before : s[j].phase = "running"
                     /\ s[i].reason = "abandoned" => before = {}
                     /\ s[i].reason = "expired" =>
                           before # {} /\ s[Latest(before)].expires <= s[i].at
                     /\ before # {} => \A c \in Latest(before)..i : s[c].type # "cancel"
  BY DEF Story
<1>. DEFINE p == Replays(s)[i - 1]
            e == s[i]
            before == {j \in 1..i - 1 : s[j].type = "lease" /\ s[j].id = e.id}
<1>1. /\ i \in Nat /\ i - 1 \in Nat /\ Decided(e, p)
      /\ Formed(s, i - 1, p) /\ Leased(s, i - 1, p)
  BY EntryAt
<1>2. LeaseDecided(e, p)
  BY <1>1 DEF Decided
<1>. HIDE DEF p, e
<1>3. PhaseOf(p.leases, e.id) # "ended"
  BY <1>2, DecidedOpen
<1>4. CASE e.id \notin DOMAIN p.leases
  <2>1. before = {}
    BY <1>1, <1>4 DEF Leased
  <2>2. e.reason # "expired"
    BY <1>2, <1>4 DEF LeaseDecided, MayEnd, PhaseOf
  <2>. QED BY <2>1, <2>2 DEF e
<1>5. CASE e.id \in DOMAIN p.leases
  <2>. DEFINE l == p.leases[e.id]
  <2>1. LeaseIs(s, i - 1, p.cancelledAt, e.id, l) /\ l.phase = "running"
        /\ PhaseOf(p.leases, e.id) = "running"
    <3>1. LeaseIs(s, i - 1, p.cancelledAt, e.id, l)
      BY <1>1, <1>5 DEF Leased
    <3>2. l.phase = "running" \/ l.phase = "ended"
      BY <3>1 DEF LeaseIs
    <3>3. PhaseOf(p.leases, e.id) = l.phase
      BY <1>5 DEF PhaseOf
    <3>. QED BY <3>1, <3>2, <3>3, <1>3
  <2>2. \A j \in before : s[j].phase = "running"
    BY <2>1 DEF LeaseIs
  <2>3. PICK last \in 1..i - 1 : /\ LastLease(s, i - 1, e.id, last)
                                 /\ s[last].expires = l.expires /\ e.id.position < last
    BY <2>1 DEF LeaseIs
  <2>4. Latest(before) = last
    <3>1. last \in before /\ \A j \in before : j <= last
      BY <2>3 DEF LastLease
    <3>2. before \in SUBSET Nat /\ i \in Nat /\ \A j \in before : j <= i
      BY <1>1
    <3>3. Latest(before) \in before /\ \A j \in before : j <= Latest(before)
      BY <3>1, <3>2, LatestIs
    <3>4. last <= Latest(before) /\ Latest(before) <= last /\ Latest(before) \in Nat
      BY <3>1, <3>2, <3>3
    <3>. HIDE DEF before
    <3>. QED BY <3>4
  <2>5. e.reason # "abandoned" /\ (e.reason = "expired" => l.expires <= e.at)
    BY <1>2, <2>1 DEF LeaseDecided, MayEnd, IsExpired
  <2>6. ASSUME NEW c \in last..i, s[c].type = "cancel" PROVE FALSE
    <3>1. c # i
      BY <2>6
    <3>2. c \in 1..i - 1
      BY <1>1, <3>1
    <3>3. c <= p.cancelledAt
      BY <1>1, <2>6, <3>2 DEF Formed
    <3>4. /\ e.id.position > p.cancelledAt /\ e.id.position \in Nat
          /\ p.cancelledAt \in Nat /\ last <= c
      BY <1>1, <2>1 DEF LeaseIs, Formed
    <3>. QED BY <2>3, <3>3, <3>4
  <2>. HIDE DEF before, l
  <2>7. before # {}
    BY <2>3 DEF before, LastLease
  <2>. QED BY <2>2, <2>3, <2>4, <2>5, <2>6, <2>7 DEF before, e
<1>. QED BY <1>4, <1>5

\* A set of which every two members are the same one has at most one.
LEMMA AtMostOne ==
    ASSUME NEW S, \A x, y \in S : x = y
    PROVE  Cardinality(S) <= 1 /\ (S # {} => Cardinality(S) = 1)
<1>1. CASE S = {}
  BY <1>1, FS_EmptySet
<1>2. CASE S # {}
  <2>1. PICK x \in S : TRUE
    BY <1>2
  <2>2. S = {x}
    BY <2>1
  <2>. QED BY <2>2, FS_Singleton
<1>. QED BY <1>1, <1>2

Returned(s) ==
    \A i \in {k \in 1..Len(s) : s[k].type = "message" /\ s[k].delay > 0} :
        LET over == {j \in 1..Len(s) : Finishes(s[j], i)} IN
        /\ Cardinality(over) <= 1
        /\ \A j \in over : s[j].kind = "system" => s[j].at >= s[i].at + s[i].delay

\* In a sound record a scheduled say is returned at most once.
LEMMA ReturnedOfRecord == ASSUME NEW s, Sound(s), RulesAssumption PROVE Returned(s)
<1>. SUFFICES ASSUME NEW i \in 1..Len(s)
              PROVE  LET over == {j \in 1..Len(s) : Finishes(s[j], i)} IN
                     /\ Cardinality(over) <= 1
                     /\ \A j \in over : s[j].kind = "system" => s[j].at >= s[i].at + s[i].delay
  BY DEF Returned
<1>. DEFINE over == {j \in 1..Len(s) : Finishes(s[j], i)}
\* What finishes a say was decided while the say still waited.
<1>1. ASSUME NEW j \in over
      PROVE  /\ i < j /\ \A k \in i + 1..j - 1 : ~Finishes(s[k], i)
             /\ s[j].kind = "system" => s[j].at >= s[i].at + s[i].delay
  <2>. DEFINE p == Replays(s)[j - 1]
  <2>1. /\ j \in Nat /\ j - 1 \in Nat /\ Decided(s[j], p) /\ j \in 1..Len(s)
        /\ Formed(s, j - 1, p)
    BY EntryAt
  <2>2. Waiting(s, j - 1, p)
    <3>1. Len(s) \in Nat
      BY SequenceGrows DEF Sound
    <3>. QED BY <2>1, <3>1, Waits
  <2>. HIDE DEF p
  <2>3. MessageDecided(s[j], p)
    BY <2>1 DEF Finishes, Decided
  <2>4. PICK x \in p.scheduled : x.seq = i /\ (s[j].kind = "system" => x.due <= s[j].at)
    BY <2>3 DEF MessageDecided, Finishes
  <2>5. PICK k \in 1..j - 1 : x = Waiter(s, k) /\ Unfinished(s, j - 1, k)
    BY <2>2, <2>4 DEF Waiting
  <2>6. k = i /\ x.due = s[i].at + s[i].delay
    BY <2>4, <2>5 DEF Waiter
  <2>7. s[j].at \in Nat /\ s[i].at \in Nat /\ s[i].delay \in Nat
    <3>1. Decided(s[i], Replays(s)[i - 1]) /\ s[i].type = "message"
      BY <2>5, <2>6, EntryAt DEF Unfinished
    <3>. QED BY <3>1, <2>3 DEF Decided, MessageDecided
  <2>. QED BY <2>1, <2>4, <2>5, <2>6, <2>7 DEF Unfinished
<1>2. ASSUME NEW x \in over, NEW y \in over PROVE x = y
  <2>1. ASSUME NEW j \in over, NEW k \in over PROVE ~(j < k)
    <3>1. i < j /\ j \in Nat /\ k \in Nat /\ i \in Nat /\ Finishes(s[j], i)
      BY <1>1
    <3>2. j < k => j \in i + 1..k - 1
      BY <3>1
    <3>3. \A l \in i + 1..k - 1 : ~Finishes(s[l], i)
      BY <1>1
    <3>. QED BY <3>1, <3>2, <3>3
  <2>2. x \in Nat /\ y \in Nat
    OBVIOUS
  <2>. QED BY <2>1, <2>2
<1>. HIDE DEF over
<1>. QED BY <1>1, <1>2, AtMostOne DEF over

Summaries(s) ==
    \A i \in {k \in 1..Len(s) : s[k].type = "message" /\ s[k].kind = "summary"} :
        /\ \A j \in 1..Len(s) \ {i} :
              ~(s[j].type = "message" /\ s[j].kind = "summary" /\ s[j].to = s[i].to
                /\ s[j].about = s[i].about)
        /\ \E c \in 1..i : s[c].type = "close" /\ s[c].from = s[i].about
                           /\ s[c].writer = s[i].from

\* No two closes begin with the same message.
LEMMA FromOnce ==
    ASSUME NEW s, NEW n \in Nat, NEW p, Formed(s, n, p), Chained(s, n, p),
           NEW k \in 1..Len(p.closes), NEW l \in 1..Len(p.closes),
           p.closes[k].from = p.closes[l].from
    PROVE  k = l
<1>1. ASSUME NEW x \in 1..Len(p.closes), NEW y \in 1..Len(p.closes), x < y
      PROVE  p.closes[x].from # p.closes[y].from
  <2>1. p.closes[x].through < p.closes[y].from
    BY <1>1 DEF Chained
  <2>2. Enclosed(s, n, p.boundary, p.closes[x]) /\ Enclosed(s, n, p.boundary, p.closes[y])
    BY DEF Chained
  <2>3. p.boundary \in Nat
    BY DEF Chained, Formed
  <2>. QED BY <2>1, <2>2, <2>3 DEF Enclosed
<1>2. k \in Nat /\ l \in Nat
  OBVIOUS
<1>. QED BY <1>1, <1>2

\* In a sound record a close is summarised at most once for a person, by its own writer.
LEMMA SummariesOfRecord == ASSUME NEW s, Sound(s), RulesAssumption PROVE Summaries(s)
<1>0. Len(s) \in Nat
  BY SequenceGrows DEF Sound
\* What a summary was decided on.
<1>1. ASSUME NEW j \in 1..Len(s), s[j].type = "message", s[j].kind = "summary"
      PROVE  LET p == Replays(s)[j - 1] IN
             /\ Formed(s, j - 1, p) /\ Chained(s, j - 1, p) /\ Reported(s, j - 1, p)
             /\ j - 1 \in Nat
             /\ Covering(p.messages, s[j].to, s[j].about, s[j].through) = {}
             /\ \E k \in 1..Len(p.closes) :
                   /\ p.closes[k].writer = s[j].from /\ s[j].from # None
                   /\ p.closes[k].from = s[j].about /\ p.closes[k].through = s[j].through
  <2>. DEFINE p == Replays(s)[j - 1]
  <2>1. /\ j - 1 \in Nat /\ Decided(s[j], p) /\ Formed(s, j - 1, p) /\ Chained(s, j - 1, p)
    BY EntryAt
  <2>2. Reported(s, j - 1, p)
    BY <1>0, Reports
  <2>. HIDE DEF p
  <2>3. MessageDecided(s[j], p)
    BY <1>1, <2>1 DEF Decided
  <2>4. s[j].from \in Seat
    BY <1>1, <2>1, <2>3 DEF MessageDecided, Formed
  <2>5. DOMAIN p.closes = 1..Len(p.closes)
    BY <2>1, SequenceGrows DEF Chained
  <2>. QED BY <1>1, <2>1, <2>2, <2>3, <2>4, <2>5 DEF MessageDecided, RulesAssumption, p
<1>2. ASSUME NEW i \in 1..Len(s), s[i].type = "message", s[i].kind = "summary",
             NEW j \in 1..Len(s), s[j].type = "message", s[j].kind = "summary",
             i < j, s[j].to = s[i].to, s[j].about = s[i].about
      PROVE  FALSE
  <2>. DEFINE p == Replays(s)[j - 1]
              m == Placed(s[i], i)
  <2>1. /\ Formed(s, j - 1, p) /\ Chained(s, j - 1, p) /\ Reported(s, j - 1, p)
        /\ j - 1 \in Nat
        /\ Covering(p.messages, s[j].to, s[j].about, s[j].through) = {}
        /\ \E k \in 1..Len(p.closes) :
              p.closes[k].from = s[j].about /\ p.closes[k].through = s[j].through
    BY <1>1, <1>2
  <2>. HIDE DEF p
  <2>2. i \in 1..j - 1
    BY <1>0, <1>2
  <2>3. m \in p.messages /\ IsMessage(s[i])
    BY <1>2, <2>1, <2>2 DEF Formed
  <2>4. m.kind = "summary" /\ m.to = s[j].to /\ m.about = s[j].about /\ m.through = s[i].through
    BY <1>2, <2>3, PlacedIs DEF MessageParts
  <2>. HIDE DEF m
  <2>5. PICK k \in 1..Len(p.closes) : p.closes[k].from = s[i].about /\ p.closes[k].through = s[i].through
    BY <1>2, <2>1, <2>2 DEF Reported
  <2>6. PICK l \in 1..Len(p.closes) : p.closes[l].from = s[j].about /\ p.closes[l].through = s[j].through
    BY <2>1
  <2>7. k = l
    <3>1. p.closes[k].from = p.closes[l].from
      BY <2>5, <2>6, <1>2
    <3>. QED BY <2>1, <3>1, FromOnce
  <2>8. m.about \in Nat /\ m.through \in Nat
    <3>1. p.closes[k].from \in Nat /\ p.closes[k].through \in Nat
      BY <2>1, <2>5, EndsAreNumbers
    <3>2. m.about = p.closes[k].from /\ m.through = p.closes[k].through
      BY <2>4, <2>5, <1>2
    <3>. QED BY <3>1, <3>2
  <2>9. m \in Covering(p.messages, s[j].to, s[j].about, s[j].through)
    BY <2>3, <2>4, <2>5, <2>6, <2>7, <2>8 DEF Covering
  <2>. QED BY <2>1, <2>9
<1>3. ASSUME NEW i \in 1..Len(s), s[i].type = "message", s[i].kind = "summary"
      PROVE  \E c \in 1..i : s[c].type = "close" /\ s[c].from = s[i].about
                             /\ s[c].writer = s[i].from
  <2>. DEFINE p == Replays(s)[i - 1]
  <2>1. /\ Chained(s, i - 1, p) /\ i - 1 \in Nat
        /\ \E k \in 1..Len(p.closes) :
              /\ p.closes[k].writer = s[i].from /\ s[i].from # None
              /\ p.closes[k].from = s[i].about
    BY <1>1, <1>3
  <2>. HIDE DEF p
  <2>2. PICK k \in 1..Len(p.closes) :
              /\ p.closes[k].writer = s[i].from /\ s[i].from # None
              /\ p.closes[k].from = s[i].about
    BY <2>1
  <2>3. Enclosed(s, i - 1, p.boundary, p.closes[k])
    BY <2>1 DEF Chained
  <2>4. /\ p.closes[k].at \in 1..i - 1 /\ s[p.closes[k].at].type = "close"
        /\ s[p.closes[k].at].from = s[i].about /\ s[p.closes[k].at].writer = s[i].from
    BY <2>2, <2>3 DEF Enclosed
  <2>5. \A c \in 1..i - 1 : c \in 1..i
    BY <2>1
  <2>. QED BY <2>4, <2>5
<1>4. \A i \in 1..Len(s), j \in 1..Len(s) : i # j => i < j \/ j < i
  BY <1>0
<1>. QED BY <1>2, <1>3, <1>4 DEF Summaries

\* Every question of the first n entries belongs to one exchange.
OneEach(s, n, p) ==
    \A i \in 1..n : IsQuestion(s[i]) =>
        LET over == {k \in DOMAIN p.closes : i \in p.closes[k].from..p.closes[k].through}
            open == p.exchange.from > 0 /\ p.exchange.from <= i
        IN IF open THEN over = {} ELSE Cardinality(over) = 1

\* In a sound record a question is in one exchange, open or closed.
LEMMA OneEachOfRecord ==
    ASSUME NEW s, Sound(s), RulesAssumption, NEW n \in 0..Len(s)
    PROVE  OneEach(s, n, Replays(s)[n])
<1>. DEFINE p == Replays(s)[n]
<1>0. Len(s) \in Nat
  BY SequenceGrows DEF Sound
<1>1. n \in Nat /\ Formed(s, n, p) /\ Chained(s, n, p) /\ Covered(s, n, p)
  BY <1>0, Formation, Chain, Coverage
<1>. HIDE DEF p
<1>. SUFFICES ASSUME NEW i \in 1..n, IsQuestion(s[i])
              PROVE  LET over == {k \in DOMAIN p.closes :
                                    i \in p.closes[k].from..p.closes[k].through}
                         open == p.exchange.from > 0 /\ p.exchange.from <= i
                     IN IF open THEN over = {} ELSE Cardinality(over) = 1
  BY DEF OneEach, p
<1>. DEFINE over == {k \in DOMAIN p.closes : i \in p.closes[k].from..p.closes[k].through}
<1>2. /\ DOMAIN p.closes = 1..Len(p.closes) /\ p.boundary \in 0..n
      /\ \A k \in 1..Len(p.closes) : /\ p.closes[k].from \in Nat /\ p.closes[k].through \in Nat
                                     /\ p.closes[k].through <= p.boundary
  <2>1. DOMAIN p.closes = 1..Len(p.closes)
    BY <1>1, SequenceGrows DEF Chained
  <2>2. p.boundary \in 0..n
    BY <1>1 DEF Chained, Formed
  <2>3. ASSUME NEW k \in 1..Len(p.closes)
        PROVE  /\ p.closes[k].from \in Nat /\ p.closes[k].through \in Nat
               /\ p.closes[k].through <= p.boundary
    <3>1. p.closes[k].from \in Nat /\ p.closes[k].through \in Nat
      BY <1>1, EndsAreNumbers
    <3>2. Enclosed(s, n, p.boundary, p.closes[k])
      BY <1>1 DEF Chained
    <3>3. p.closes[k].through \in p.closes[k].from..p.boundary
      BY <3>2 DEF Enclosed
    <3>4. p.closes[k].through <= p.boundary
      BY <2>2, <3>1, <3>3
    <3>. QED BY <3>1, <3>4
  <2>. QED BY <2>1, <2>2, <2>3
<1>3. CASE p.exchange.from > 0 /\ p.exchange.from <= i
  <2>1. p.exchange.from \in Nat /\ p.boundary < p.exchange.from
    <3>1. p.exchange.from # 0
      BY <1>3
    <3>. QED BY <1>1, <3>1, OpenAfterBoundary
  <2>2. over = {}
    <3>1. ASSUME NEW k \in 1..Len(p.closes) PROVE i \notin p.closes[k].from..p.closes[k].through
      <4>1. p.closes[k].from \in Nat /\ p.closes[k].through \in Nat
            /\ p.closes[k].through <= p.boundary
        BY <1>2
      <4>2. p.boundary \in Nat /\ p.boundary < i /\ i \in Nat
        BY <1>1, <1>2, <1>3, <2>1
      <4>. QED BY <4>1, <4>2
    <3>. QED BY <3>1, <1>2
  <2>. HIDE DEF over
  <2>. QED BY <1>3, <2>2 DEF over
<1>4. CASE ~(p.exchange.from > 0 /\ p.exchange.from <= i)
  <2>1. i <= p.boundary
    <3>. SUFFICES ASSUME i > p.boundary PROVE FALSE
      BY <1>2
    <3>1. p.exchange.from # 0 /\ p.exchange.from <= i
      BY <1>1, OpenReaches
    <3>2. p.exchange.from \in 1..n
      BY <1>1, <3>1, OpenAfterBoundary
    <3>. QED BY <1>4, <3>1, <3>2
  <2>2. over # {}
    BY <1>1, <1>2, <2>1 DEF Covered
  <2>3. ASSUME NEW k \in over, NEW l \in over PROVE k = l
    <3>1. k \in 1..Len(p.closes) /\ l \in 1..Len(p.closes)
      BY <1>2
    <3>2. ASSUME NEW x \in over, NEW y \in over, x \in 1..Len(p.closes), y \in 1..Len(p.closes)
          PROVE  ~(x < y)
      <4>0. /\ i \in p.closes[x].from..p.closes[x].through
            /\ i \in p.closes[y].from..p.closes[y].through
        OBVIOUS
      <4>4. /\ p.closes[x].from \in Nat /\ p.closes[x].through \in Nat
            /\ p.closes[y].from \in Nat /\ p.closes[y].through \in Nat
        BY <1>2, <3>2
      <4>1. /\ p.closes[x].from \in Nat /\ p.closes[x].through \in Nat
            /\ p.closes[y].from \in Nat /\ i <= p.closes[x].through /\ p.closes[y].from <= i
        BY <4>0, <4>4
      <4>2. x < y => p.closes[x].through < p.closes[y].from
        BY <1>1, <3>2 DEF Chained
      <4>3. i \in Nat
        BY <1>1
      <4>. QED BY <4>1, <4>2, <4>3
    <3>. QED BY <3>1, <3>2
  <2>. HIDE DEF over
  <2>4. Cardinality(over) = 1
    BY <2>2, <2>3, AtMostOne
  <2>. QED BY <1>4, <2>4 DEF over
<1>. QED BY <1>3, <1>4

\* Nothing from before the last marker is owed, runs or waits to return.
Dead(s, n, p) ==
    /\ \A d \in Due(p) : d.id.position > p.cancelledAt
    /\ \A id \in DOMAIN p.leases : p.leases[id].phase = "running" => id.position > p.cancelledAt
    /\ \A i \in p.cancelledAt + 1..Len(s) :
          s[i].type = "message" /\ s[i].kind = "system" /\ s[i].about > 0
             => s[i].about > p.cancelledAt

\* In a sound record nothing before the last marker is due, runs, or is returned after it.
LEMMA DeadOfRecord ==
    ASSUME NEW s, Sound(s), RulesAssumption, NEW n \in 0..Len(s), n + 1 >= Len(s)
    PROVE  Dead(s, n, Replays(s)[n])
<1>. DEFINE p == Replays(s)[n]
<1>0. Len(s) \in Nat /\ n \in Nat
  BY SequenceGrows DEF Sound
<1>1. Formed(s, n, p) /\ Chained(s, n, p) /\ Leased(s, n, p) /\ Pending(s, n, p)
  BY Formation, Chain, Leasing, Owes
<1>. HIDE DEF p
<1>2. ASSUME NEW d \in Due(p) PROVE d.id.position > p.cancelledAt
  BY <1>1 DEF Due, Pending, After, Wake
<1>3. \A id \in DOMAIN p.leases : p.leases[id].phase = "running" => id.position > p.cancelledAt
  BY <1>1 DEF Leased, LeaseIs
<1>4. ASSUME NEW i \in p.cancelledAt + 1..Len(s),
             s[i].type = "message", s[i].kind = "system", s[i].about > 0
      PROVE  s[i].about > p.cancelledAt
  <2>1. p.cancelledAt \in 0..n
    BY <1>1 DEF Formed
  <2>2. i \in 1..Len(s)
    BY <1>0, <2>1
  <2>. DEFINE r == Replays(s)[i - 1]
  <2>3. /\ i - 1 \in Nat /\ i - 1 \in 0..Len(s) /\ Decided(s[i], r) /\ Formed(s, i - 1, r)
    BY <1>0, <2>2, EntryAt
  <2>4. Waiting(s, i - 1, r)
    BY <2>3, Waits
  <2>. HIDE DEF r
  <2>5. MessageDecided(s[i], r)
    BY <1>4, <2>3 DEF Decided
  <2>6. PICK x \in r.scheduled : x.seq = s[i].about
    BY <1>4, <2>5 DEF MessageDecided
  <2>7. PICK k \in 1..i - 1 : x = Waiter(s, k) /\ Unfinished(s, i - 1, k)
    BY <2>4, <2>6 DEF Waiting
  <2>8. k = s[i].about
    BY <2>6, <2>7 DEF Waiter
  <2>9. CASE p.cancelledAt = 0
    BY <1>4, <2>9
  <2>10. CASE p.cancelledAt # 0
    <3>0. s[p.cancelledAt].type = "cancel"
      BY <1>1, <2>10 DEF Formed
    <3>1. p.cancelledAt \in 1..i - 1
      BY <1>0, <2>1, <2>10
    <3>2. p.cancelledAt \notin k + 1..i - 1
      <4>1. Ends(s, p.cancelledAt, s[k].from)
        BY <3>0 DEF Ends
      <4>. QED BY <2>7, <4>1 DEF Unfinished
    <3>3. p.cancelledAt # k
      BY <2>7, <3>0 DEF Unfinished
    <3>. QED BY <2>8, <3>1, <3>2, <3>3
  <2>. QED BY <2>9, <2>10
<1>. QED BY <1>2, <1>3, <1>4 DEF Dead, p

=============================================================================
