-------------------------- MODULE RoomIndexProofs --------------------------
(***************************************************************************)
(* Theorems about the indexes of the projection: the wakes, the summaries  *)
(* owed and the roster, which an entry changes only where it names them,   *)
(* answer what the whole record answers, for every sound record.           *)
(***************************************************************************)
EXTENDS RoomRecordProofs

-----------------------------------------------------------------------------
(* Finite folds *)

\* The image of a finite set is finite.
LEMMA FiniteImage ==
    ASSUME NEW S, IsFiniteSet(S), NEW f, S = DOMAIN f, f = [x \in S |-> f[x]]
    PROVE  IsFiniteSet({f[x] : x \in S})
<1>. DEFINE R == {f[x] : x \in S}
<1>1. f \in Surjection(S, R)
  BY DEF Surjection
<1>. HIDE DEF R
<1>2. IsFiniteSet(R)
  BY <1>1, FS_Surjection
<1>. QED BY <1>2 DEF R

\* The leases and the messages of a replay are finitely many.
LEMMA Finite ==
    ASSUME NEW s, NEW n \in Nat, NEW p, Formed(s, n, p), Leased(s, n, p)
    PROVE  IsFiniteSet(DOMAIN p.leases) /\ IsFiniteSet(p.messages)
<1>0. IsFiniteSet(1..n)
  BY FS_Interval
<1>1. IsFiniteSet(DOMAIN p.leases)
  <2>. DEFINE f == [i \in 1..n |-> s[i].id]
  <2>1. IsFiniteSet({f[i] : i \in 1..n})
    BY <1>0, FiniteImage
  <2>2. DOMAIN p.leases \subseteq {f[i] : i \in 1..n}
    BY DEF Leased
  <2>. QED BY <2>1, <2>2, FS_Subset
<1>2. IsFiniteSet(p.messages)
  <2>. DEFINE f == [i \in 1..n |-> Placed(s[i], i)]
  <2>1. IsFiniteSet({f[i] : i \in 1..n})
    BY <1>0, FiniteImage
  <2>2. p.messages \subseteq {f[i] : i \in 1..n}
    BY DEF Formed
  <2>. QED BY <2>1, <2>2, FS_Subset
<1>. QED BY <1>1, <1>2

-----------------------------------------------------------------------------
(* Wakes *)

\* The record grants a seat the wake of a message that reached it.
Wakeable(p, m, seat) ==
    /\ m.seq > p.cancelledAt /\ seat \in Recipients(m, p.leases)
    /\ ~RemovedAfter(p.messages, seat, m.seq)

\* The open wakes are those that the messages decided, as the leases leave them.
Indexed(p) ==
    /\ \A w \in p.wakes :
          /\ w \in JudgeWake(p.leases, w.seat, w.position)
          /\ \E m \in p.messages : m.seq = w.position /\ Wakeable(p, m, w.seat)
    /\ \A m \in p.messages : \A seat :
          Wakeable(p, m, seat) => JudgeWake(p.leases, seat, m.seq) \subseteq p.wakes

\* A message decides the wakes of those it reaches; one that unseats a seat takes
\* what the seat was owed.
LEMMA IndexedMessage ==
    ASSUME NEW s, NEW n \in Nat, NEW p, Formed(s, n, p), Indexed(p),
           NEW e, MessageDecided(e, p), NEW q, AfterMessage(p, e, n + 1, q)
    PROVE  Indexed(q)
<1>. DEFINE m == Placed(e, n + 1)
<1>1. m.seq = n + 1
  BY PlacedIs DEF MessageDecided
<1>. HIDE DEF m
<1>2. /\ q.messages = p.messages \cup {m} /\ q.leases = p.leases
      /\ q.cancelledAt = p.cancelledAt
      /\ q.wakes = (IF m.kind = "unseated" THEN DropSeat(p.wakes, m.to) ELSE p.wakes)
                   \cup UNION {JudgeWake(p.leases, seat, n + 1) :
                               seat \in Recipients(m, p.leases)}
  BY DEF AfterMessage, m
<1>3. /\ \A x \in p.messages : x.seq \in 1..n
      /\ p.cancelledAt \in 0..n
  BY MessageAt DEF Formed
<1>. DEFINE removes(seat) == m.kind = "unseated" /\ m.to = seat
<1>4. ASSUME NEW x \in p.messages, NEW seat
      PROVE  Wakeable(q, x, seat) <=> Wakeable(p, x, seat) /\ ~removes(seat)
  <2>1. m.seq > x.seq
    BY <1>1, <1>3
  <2>2. RemovedAfter(q.messages, seat, x.seq)
        <=> RemovedAfter(p.messages, seat, x.seq) \/ removes(seat)
    BY <1>2, <2>1 DEF RemovedAfter
  <2>. QED BY <1>2, <2>2 DEF Wakeable
<1>5. ASSUME NEW seat PROVE Wakeable(q, m, seat) <=> seat \in Recipients(m, p.leases)
  <2>1. m.seq > q.cancelledAt
    BY <1>1, <1>2, <1>3
  <2>2. \A x \in q.messages : ~(x.seq > m.seq)
    BY <1>1, <1>2, <1>3
  <2>3. ~RemovedAfter(q.messages, seat, m.seq)
    BY <2>2 DEF RemovedAfter
  <2>. QED BY <1>2, <2>1, <2>3 DEF Wakeable
<1>6. ASSUME NEW w \in p.wakes, ~removes(w.seat) PROVE w \in q.wakes
  BY <1>2, <1>6 DEF DropSeat
<1>7. ASSUME NEW w \in q.wakes
      PROVE  \/ w \in p.wakes /\ ~removes(w.seat)
             \/ \E seat \in Recipients(m, p.leases) : w \in JudgeWake(p.leases, seat, n + 1)
  BY <1>2 DEF DropSeat
<1>8. ASSUME NEW w \in q.wakes
      PROVE  /\ w \in JudgeWake(q.leases, w.seat, w.position)
             /\ \E x \in q.messages : x.seq = w.position /\ Wakeable(q, x, w.seat)
  <2>1. CASE w \in p.wakes /\ ~removes(w.seat)
    <3>1. PICK x \in p.messages : x.seq = w.position /\ Wakeable(p, x, w.seat)
      BY <2>1 DEF Indexed
    <3>2. x \in q.messages /\ Wakeable(q, x, w.seat)
      BY <1>2, <1>4, <2>1, <3>1
    <3>3. w \in JudgeWake(p.leases, w.seat, w.position)
      BY <2>1 DEF Indexed
    <3>. QED BY <1>2, <3>1, <3>2, <3>3
  <2>2. ASSUME NEW seat \in Recipients(m, p.leases), w \in JudgeWake(p.leases, seat, n + 1)
        PROVE  /\ w \in JudgeWake(q.leases, w.seat, w.position)
               /\ \E x \in q.messages : x.seq = w.position /\ Wakeable(q, x, w.seat)
    <3>1. w.seat = seat /\ w.position = n + 1
      BY <2>2, JudgeWakeIs
    <3>2. m \in q.messages /\ Wakeable(q, m, seat)
      BY <1>2, <1>5
    <3>. QED BY <1>1, <1>2, <2>2, <3>1, <3>2
  <2>. QED BY <1>7, <2>1, <2>2
<1>9. ASSUME NEW x \in q.messages, NEW seat, Wakeable(q, x, seat),
             NEW w \in JudgeWake(q.leases, seat, x.seq)
      PROVE  w \in q.wakes
  <2>1. CASE x = m
    <3>1. seat \in Recipients(m, p.leases) /\ w \in JudgeWake(p.leases, seat, n + 1)
      BY <1>1, <1>2, <1>5, <1>9, <2>1
    <3>. QED BY <1>2, <3>1
  <2>2. CASE x \in p.messages
    <3>1. Wakeable(p, x, seat) /\ ~removes(seat)
      BY <1>4, <1>9, <2>2
    <3>2. w \in p.wakes
      BY <1>2, <2>2, <3>1 DEF Indexed
    <3>3. w.seat = seat
      BY JudgeWakeIs
    <3>. QED BY <1>6, <3>1, <3>2, <3>3
  <2>. QED BY <1>2, <2>1, <2>2
<1>. HIDE DEF removes
<1>. QED BY <1>8, <1>9 DEF Indexed

\* A lease entry lets the wakes of its seat be judged again, and no other.
LEMMA IndexedLease ==
    ASSUME NEW s, NEW n \in Nat, NEW p, Formed(s, n, p), Indexed(p),
           NEW e, LeaseDecided(e, p), NEW q, AfterLease(p, e, n + 1, q)
    PROVE  Indexed(q)
<1>1. Applied(p.leases, e, n + 1, q.leases) /\ Moves(p.leases, q.leases, n + 1)
  <2>1. PhaseOf(p.leases, e.id) # "ended" /\ q.leases = ApplyChange(p.leases, e, n + 1)
    BY DecidedOpen DEF AfterLease
  <2>2. Applied(p.leases, e, n + 1, q.leases)
    BY <2>1, ApplyChangeIs
  <2>. QED BY <2>1, <2>2, ApplyMoves
<1>2. /\ q.messages = p.messages /\ q.cancelledAt = p.cancelledAt
      /\ q.wakes = IF e.id.source = "closed" THEN p.wakes
                   ELSE RejudgeSeat(p.wakes, q.leases, e.id.seat)
  BY DEF AfterLease, Parts
<1>3. \A x \in p.messages : x.seq \in 1..n
  BY MessageAt
<1>4. ASSUME NEW x \in p.messages, NEW seat
      PROVE  Wakeable(q, x, seat) <=> Wakeable(p, x, seat)
  <2>1. Recipients(x, p.leases) = Recipients(x, q.leases)
    <3>1. n + 1 \in Nat /\ x.seq \in Nat /\ x.seq < n + 1
      BY <1>3
    <3>. QED BY <1>1, <3>1, RecipientsStay
  <2>. QED BY <1>2, <2>1 DEF Wakeable
<1>5. ASSUME NEW seat, e.id.source = "closed" \/ seat # e.id.seat
      PROVE  SameFor(p.leases, q.leases, seat)
  BY <1>1, <1>5 DEF Applied, SameFor, SeatLeases
<1>6. ASSUME NEW seat, e.id.source = "closed" \/ seat # e.id.seat, NEW seq
      PROVE  JudgeWake(p.leases, seat, seq) = JudgeWake(q.leases, seat, seq)
  BY <1>5, <1>6, JudgeWakeReads
<1>7. CASE e.id.source = "closed"
  BY <1>2, <1>4, <1>6, <1>7 DEF Indexed
<1>8. CASE e.id.source # "closed"
  <2>. DEFINE again(w) == JudgeWake(q.leases, e.id.seat, w.position)
  <2>0. q.wakes = {w \in p.wakes : w.seat # e.id.seat}
                  \cup UNION {again(w) : w \in {v \in p.wakes : v.seat = e.id.seat}}
    BY <1>2, <1>8 DEF RejudgeSeat
  <2>1. ASSUME NEW w \in q.wakes
        PROVE  /\ w \in JudgeWake(q.leases, w.seat, w.position)
               /\ \E x \in q.messages : x.seq = w.position /\ Wakeable(q, x, w.seat)
    <3>1. CASE w \in p.wakes /\ w.seat # e.id.seat
      <4>1. PICK x \in p.messages : x.seq = w.position /\ Wakeable(p, x, w.seat)
        BY <3>1 DEF Indexed
      <4>2. w \in JudgeWake(p.leases, w.seat, w.position)
        BY <3>1 DEF Indexed
      <4>3. w \in JudgeWake(q.leases, w.seat, w.position)
        BY <1>6, <3>1, <4>2
      <4>. QED BY <1>2, <1>4, <4>1, <4>3
    <3>2. ASSUME NEW v \in p.wakes, v.seat = e.id.seat, w \in again(v)
          PROVE  /\ w \in JudgeWake(q.leases, w.seat, w.position)
                 /\ \E x \in q.messages : x.seq = w.position /\ Wakeable(q, x, w.seat)
      <4>1. w.seat = e.id.seat /\ w.position = v.position
        BY <3>2, JudgeWakeIs
      <4>2. PICK x \in p.messages : x.seq = v.position /\ Wakeable(p, x, v.seat)
        BY <3>2 DEF Indexed
      <4>. QED BY <1>2, <1>4, <3>2, <4>1, <4>2
    <3>. HIDE DEF again
    <3>. QED BY <2>0, <3>1, <3>2
  <2>2. ASSUME NEW x \in q.messages, NEW seat, Wakeable(q, x, seat),
               NEW w \in JudgeWake(q.leases, seat, x.seq)
        PROVE  w \in q.wakes
    <3>1. x \in p.messages /\ Wakeable(p, x, seat)
      BY <1>2, <1>4, <2>2
    <3>2. JudgeWake(p.leases, seat, x.seq) \subseteq p.wakes
      BY <3>1 DEF Indexed
    <3>3. CASE seat # e.id.seat
      <4>1. w \in p.wakes /\ w.seat = seat
        BY <1>6, <3>2, <3>3, JudgeWakeIs
      <4>. HIDE DEF again
      <4>. QED BY <2>0, <3>3, <4>1
    <3>4. CASE seat = e.id.seat
      <4>1. PICK v : v \in JudgeWake(p.leases, seat, x.seq)
        BY <1>1, SettledStays
      <4>2. v \in p.wakes /\ v.seat = e.id.seat /\ v.position = x.seq
        BY <3>2, <3>4, <4>1, JudgeWakeIs
      <4>3. w \in again(v)
        BY <3>4, <4>2
      <4>. HIDE DEF again
      <4>. QED BY <2>0, <4>2, <4>3
    <3>. QED BY <3>3, <3>4
  <2>. QED BY <2>1, <2>2 DEF Indexed
<1>. QED BY <1>7, <1>8

\* Every entry keeps the open wakes what the messages decided.
LEMMA IndexedStep ==
    ASSUME NEW s, NEW n \in Nat, NEW p, Formed(s, n, p), Indexed(p), Decided(s[n + 1], p)
    PROVE  Indexed(Advance(p, s[n + 1], n + 1))
<1>. DEFINE e == s[n + 1]
            q == Advance(p, e, n + 1)
<1>0. Shaped(p) /\ Decided(e, p)
  BY DEF Formed
<1>. HIDE DEF q, e
<1>1. CASE e.type = "message"
  <2>1. AfterMessage(p, e, n + 1, q) /\ MessageDecided(e, p)
    BY <1>0, <1>1, AdvanceParts DEF q, Decided
  <2>2. Indexed(q)
    BY <2>1, IndexedMessage
  <2>. QED BY <2>2 DEF q, e
<1>2. CASE e.type = "lease"
  <2>1. AfterLease(p, e, n + 1, q) /\ LeaseDecided(e, p)
    BY <1>0, <1>2, AdvanceParts DEF q, Decided
  <2>2. Indexed(q)
    BY <2>1, IndexedLease
  <2>. QED BY <2>2 DEF q, e
<1>3. CASE e.type = "cancel"
  <2>1. AfterCancel(p, e, n + 1, q)
    BY <1>0, <1>3, AdvanceParts DEF q
  <2>2. q.wakes = {} /\ q.cancelledAt = n + 1 /\ q.messages = p.messages
    BY <2>1 DEF AfterCancel
  <2>3. \A m \in p.messages : m.seq \in 1..n
    BY MessageAt
  <2>4. \A m \in q.messages : \A seat : ~Wakeable(q, m, seat)
    BY <2>2, <2>3 DEF Wakeable
  <2>. QED BY <2>2, <2>4 DEF Indexed, q, e
<1>4. CASE e.type \in {"close", "composition"}
  <2>1. /\ q.wakes = p.wakes /\ q.cancelledAt = p.cancelledAt /\ q.messages = p.messages
        /\ q.leases = p.leases
    <3>1. CASE e.type = "close"
      <4>1. AfterClose(p, CloseRecord(e, n + 1), q)
        BY <1>0, <3>1, AdvanceParts DEF q
      <4>. QED BY <4>1 DEF AfterClose, Parts
    <3>2. CASE e.type = "composition"
      <4>1. AfterComposition(p, e.seated, q)
        BY <1>0, <3>2, AdvanceParts DEF q
      <4>. QED BY <4>1 DEF AfterComposition, Parts
    <3>. QED BY <1>4, <3>1, <3>2
  <2>2. \A m, seat : Wakeable(q, m, seat) <=> Wakeable(p, m, seat)
    BY <2>1 DEF Wakeable
  <2>. QED BY <2>1, <2>2 DEF Indexed, q, e
<1>. QED BY <1>0, <1>1, <1>2, <1>3, <1>4 DEF Decided

\* The wakes of the replay of a sound record are those its messages decided.
LEMMA Indexes ==
    ASSUME NEW s, Sound(s)
    PROVE  \A n \in 0..Len(s) : Indexed(Replays(s)[n])
<1>. DEFINE r == Replays(s)
            T == {n \in Nat : n <= Len(s) => Indexed(r[n])}
<1>. HIDE DEF r
<1>0. /\ Len(s) \in Nat /\ r[0] = EmptyProjection
      /\ \A n \in 1..Len(s) : r[n] = Advance(r[n - 1], s[n], n) /\ Decided(s[n], r[n - 1])
      /\ \A n \in 0..Len(s) : Formed(s, n, r[n])
  BY SequenceGrows, ReplaySteps, Formation DEF Sound, r
<1>1. 0 \in T
  <2>1. Indexed(EmptyProjection)
    BY DEF Indexed, EmptyProjection
  <2>. QED BY <2>1, <1>0
<1>2. ASSUME NEW n \in Nat, n \in T PROVE n + 1 \in T
  <2>. SUFFICES ASSUME n + 1 <= Len(s) PROVE Indexed(r[n + 1])
    OBVIOUS
  <2>0. n \in 0..Len(s) /\ n + 1 \in 1..Len(s) /\ n + 1 - 1 = n /\ n <= Len(s)
    BY <1>0
  <2>1. /\ Formed(s, n, r[n]) /\ Indexed(r[n]) /\ Decided(s[n + 1], r[n])
        /\ r[n + 1] = Advance(r[n], s[n + 1], n + 1)
    BY <1>0, <1>2, <2>0
  <2>. QED BY <2>1, IndexedStep
<1>. HIDE DEF T
<1>3. Nat \subseteq T
  BY <1>1, <1>2, SetInduction
<1>. QED BY <1>0, <1>3 DEF T, r

-----------------------------------------------------------------------------
(* Summaries owed *)

Summarised(messages, c) ==
    \E m \in Covering(messages, c.person, c.from, c.through) : m.from = c.writer

StoodDown(leases, c) ==
    \E id \in SummaryLeases(leases, c.through, c.writer) :
        leases[id].phase = "ended" /\ leases[id].reason \in {"released", "revoked", "abandoned"}

\* A close still asks for its summary.
OwedOpen(p, c) ==
    /\ c.writer # None /\ ~(c.through < p.cancelledAt)
    /\ ~RemovedAfter(p.messages, c.writer, c.through)
    /\ ~StoodDown(p.leases, c) /\ ~Summarised(p.messages, c)

OwedItem(leases, c) ==
    LET summaries == SummaryLeases(leases, c.through, c.writer) IN
    [person |-> c.person, from |-> c.from,
     due |-> DueActivation("closed", c.through, c.writer,
                {id \in summaries : CountsAgainst(id, leases[id], c.through)}, leases)]

\* What a close owes: one summary, or none.
LEMMA JudgeOwedForm ==
    ASSUME NEW p, NEW c
    PROVE  JudgeOwed(p, c) = IF OwedOpen(p, c) THEN {OwedItem(p.leases, c)} ELSE {}
<1>. DEFINE summaries == SummaryLeases(p.leases, c.through, c.writer)
            removed == RemovedAfter(p.messages, c.writer, c.through)
            after == c.through < p.cancelledAt
            verdict == SummaryVerdict(c.writer # None, removed, p.leases, summaries, after)
            item == OwedItem(p.leases, c)
<1>1. item = [person |-> c.person, from |-> c.from,
              due |-> DueActivation("closed", c.through, c.writer,
                        {id \in summaries : CountsAgainst(id, p.leases[id], c.through)},
                        p.leases)]
  BY DEF OwedItem
<1>2. JudgeOwed(p, c) = IF verdict # "owed" \/ Summarised(p.messages, c) THEN {} ELSE {item}
  BY <1>1 DEF JudgeOwed, Summarised
<1>. HIDE DEF item, removed, after
<1>3. verdict = "owed" <=> c.writer # None /\ ~removed /\ ~after /\ ~StoodDown(p.leases, c)
  <2>1. CASE c.writer = None
    BY <2>1 DEF SummaryVerdict
  <2>2. CASE c.writer # None /\ removed
    BY <2>2 DEF SummaryVerdict
  <2>3. CASE c.writer # None /\ ~removed /\ ~StoodDown(p.leases, c)
    BY <2>3 DEF SummaryVerdict, StoodDown
  <2>4. CASE c.writer # None /\ ~removed /\ StoodDown(p.leases, c)
    BY <2>4 DEF SummaryVerdict, StoodDown
  <2>. QED BY <2>1, <2>2, <2>3, <2>4
<1>. HIDE DEF verdict
<1>. QED BY <1>2, <1>3 DEF OwedOpen, item, removed, after

\* Two projections that agree about what a close is judged on.
SameClose(p, q, c) ==
    /\ SummaryLeases(p.leases, c.through, c.writer) = SummaryLeases(q.leases, c.through, c.writer)
    /\ \A id \in SummaryLeases(p.leases, c.through, c.writer) : p.leases[id] = q.leases[id]
    /\ RemovedAfter(p.messages, c.writer, c.through)
       <=> RemovedAfter(q.messages, c.writer, c.through)
    /\ Summarised(p.messages, c) <=> Summarised(q.messages, c)
    /\ p.cancelledAt = q.cancelledAt

\* Two projections that agree on what a close is judged on owe alike for it.
LEMMA SameOwed ==
    ASSUME NEW p, NEW q, NEW c, SameClose(p, q, c)
    PROVE  JudgeOwed(p, c) = JudgeOwed(q, c)
<1>. DEFINE summaries == SummaryLeases(p.leases, c.through, c.writer)
            counted(l) == {id \in summaries : CountsAgainst(id, l[id], c.through)}
<1>1. /\ SummaryLeases(q.leases, c.through, c.writer) = summaries
      /\ \A id \in summaries : p.leases[id] = q.leases[id]
  BY DEF SameClose
<1>2. counted(p.leases) = counted(q.leases)
  BY <1>1
<1>3. StoodDown(p.leases, c) <=> StoodDown(q.leases, c)
  BY <1>1 DEF StoodDown
<1>4. OwedItem(p.leases, c) = OwedItem(q.leases, c)
  <2>. DEFINE failed == counted(p.leases)
  <2>1. \A f \in failed : p.leases[f] = q.leases[f]
    BY <1>1
  <2>2. /\ OwedItem(p.leases, c) = [person |-> c.person, from |-> c.from,
              due |-> DueActivation("closed", c.through, c.writer, failed, p.leases)]
        /\ OwedItem(q.leases, c) = [person |-> c.person, from |-> c.from,
              due |-> DueActivation("closed", c.through, c.writer, failed, q.leases)]
    BY <1>1, <1>2 DEF OwedItem
  <2>. HIDE DEF failed
  <2>. DEFINE times(l) == {l[f].at : f \in failed}
              permanent(l) == \E f \in failed : l[f].cause = "permanent"
  <2>3. times(p.leases) = times(q.leases) /\ permanent(p.leases) = permanent(q.leases)
    BY <2>1
  <2>4. \A l : DueActivation("closed", c.through, c.writer, failed, l)
               = [id        |-> Activation("closed", c.through, c.writer,
                                           Cardinality(failed) + 1),
                  notBefore |-> IF failed = {} THEN 0 ELSE Latest(times(l)) + Backoff,
                  permanent |-> permanent(l)]
    BY DEF DueActivation
  <2>. HIDE DEF times, permanent
  <2>. QED BY <2>2, <2>3, <2>4
<1>5. OwedOpen(p, c) <=> OwedOpen(q, c)
  BY <1>3 DEF OwedOpen, SameClose
<1>. QED BY <1>4, <1>5, JudgeOwedForm

\* What is owed names the close it is owed for.
LEMMA OwedOfClose ==
    ASSUME NEW p, NEW q, NEW c, NEW o \in JudgeOwed(p, c)
    PROVE  JudgeOwed(q, CloseOf(o)) = JudgeOwed(q, c)
<1>1. /\ CloseOf(o).person = c.person /\ CloseOf(o).from = c.from
      /\ CloseOf(o).through = c.through /\ CloseOf(o).writer = c.writer
  BY JudgeOwedIs DEF CloseOf
<1>. DEFINE d == CloseOf(o)
<1>. HIDE DEF d
<1>. QED BY <1>1 DEF JudgeOwed, d

\* The summaries outside those affected stay as they are, and none comes back.
Settling(p, q, closes, affected) ==
    /\ p.owed = UNION {JudgeOwed(p, c) : c \in closes}
    /\ affected \subseteq p.owed
    /\ \A c \in closes : \A o \in JudgeOwed(p, c) :
          o \notin affected => JudgeOwed(q, c) = JudgeOwed(p, c)
    /\ \A c \in closes : OwedOpen(q, c) => OwedOpen(p, c)

\* Then judging those affected again is judging every close again.
LEMMA RejudgedAll ==
    ASSUME NEW p, NEW q, NEW closes, NEW affected, Settling(p, q, closes, affected)
    PROVE  Rejudged(q, p.owed, affected) = UNION {JudgeOwed(q, c) : c \in closes}
<1>1. ASSUME NEW y \in Rejudged(q, p.owed, affected)
      PROVE  \E c \in closes : y \in JudgeOwed(q, c)
  <2>1. CASE y \in p.owed \ affected
    <3>1. PICK c \in closes : y \in JudgeOwed(p, c)
      BY <2>1 DEF Settling
    <3>. QED BY <2>1, <3>1 DEF Settling
  <2>2. ASSUME NEW o \in affected, y \in JudgeOwed(q, CloseOf(o))
        PROVE  \E c \in closes : y \in JudgeOwed(q, c)
    <3>1. PICK c \in closes : o \in JudgeOwed(p, c)
      BY DEF Settling
    <3>. QED BY <2>2, <3>1, OwedOfClose
  <2>. QED BY <2>1, <2>2 DEF Rejudged
<1>2. ASSUME NEW c \in closes, NEW y \in JudgeOwed(q, c)
      PROVE  y \in Rejudged(q, p.owed, affected)
  <2>1. OwedOpen(p, c)
    BY JudgeOwedForm DEF Settling
  <2>. DEFINE o == OwedItem(p.leases, c)
  <2>2. JudgeOwed(p, c) = {o} /\ o \in p.owed
    BY <2>1, JudgeOwedForm DEF Settling
  <2>. HIDE DEF o
  <2>3. CASE o \in affected
    <3>1. y \in JudgeOwed(q, CloseOf(o))
      BY <2>2, OwedOfClose
    <3>. QED BY <2>3, <3>1 DEF Rejudged
  <2>4. CASE o \notin affected
    <3>1. JudgeOwed(q, c) = JudgeOwed(p, c)
      BY <2>2, <2>4 DEF Settling
    <3>2. y = o
      BY <2>2, <3>1
    <3>. QED BY <2>2, <2>4, <3>2 DEF Rejudged
  <2>. QED BY <2>3, <2>4
<1>. QED BY <1>1, <1>2

ClosesOf(p) == {p.closes[i] : i \in DOMAIN p.closes}

\* The summaries owed are those that the closes still ask for.
Judged(p) == p.owed = UNION {JudgeOwed(p, c) : c \in ClosesOf(p)}

\* The closes after one more close.
LEMMA ClosesGrow ==
    ASSUME NEW p, IsSequence(p.closes), NEW c, NEW q, q.closes = Append(p.closes, c)
    PROVE  ClosesOf(q) = ClosesOf(p) \cup {c}
<1>1. /\ Len(p.closes) \in Nat /\ DOMAIN p.closes = 1..Len(p.closes)
      /\ DOMAIN q.closes = 1..Len(q.closes) /\ Len(q.closes) = Len(p.closes) + 1
      /\ \A k \in 1..Len(p.closes) : q.closes[k] = p.closes[k]
      /\ q.closes[Len(p.closes) + 1] = c
  BY SequenceGrows
<1>2. 1..Len(q.closes) = 1..Len(p.closes) \cup {Len(p.closes) + 1}
  BY <1>1
<1>. QED BY <1>1, <1>2 DEF ClosesOf

\* A message settles a summary when it is one, or unseats its writer.
LEMMA JudgedMessage ==
    ASSUME NEW p, Judged(p), NEW e, NEW n, NEW q, AfterMessage(p, e, n, q)
    PROVE  Judged(q)
<1>. DEFINE m == Placed(e, n)
            affected == Shaken(m, p.owed)
<1>1. /\ q.messages = p.messages \cup {m} /\ q.leases = p.leases
      /\ q.cancelledAt = p.cancelledAt /\ q.closes = p.closes
      /\ q.owed = Rejudged(q, p.owed, affected)
  BY DEF AfterMessage
<1>. HIDE DEF m
<1>2. affected \subseteq p.owed
  BY DEF Shaken
<1>3. ASSUME NEW c, OwedOpen(q, c) PROVE OwedOpen(p, c)
  <2>1. ~RemovedAfter(p.messages, c.writer, c.through)
    BY <1>1, <1>3 DEF OwedOpen, RemovedAfter
  <2>2. ~Summarised(p.messages, c)
    BY <1>1, <1>3 DEF OwedOpen, Summarised, Covering
  <2>. QED BY <1>1, <1>3, <2>1, <2>2 DEF OwedOpen
<1>4. ASSUME NEW c \in ClosesOf(p), NEW o \in JudgeOwed(p, c), o \notin affected
      PROVE  JudgeOwed(q, c) = JudgeOwed(p, c)
  <2>1. o \in p.owed /\ o.due.id.seat = c.writer
    BY JudgeOwedIs DEF Judged
  <2>2. m.kind # "summary" /\ ~(m.kind = "unseated" /\ m.to = c.writer)
    BY <1>4, <2>1 DEF Shaken
  <2>3. RemovedAfter(p.messages, c.writer, c.through)
        <=> RemovedAfter(q.messages, c.writer, c.through)
    BY <1>1, <2>2 DEF RemovedAfter
  <2>4. Summarised(p.messages, c) <=> Summarised(q.messages, c)
    BY <1>1, <2>2 DEF Summarised, Covering
  <2>5. SameClose(p, q, c)
    BY <1>1, <2>3, <2>4 DEF SameClose
  <2>. QED BY <2>5, SameOwed
<1>. HIDE DEF affected
<1>5. Settling(p, q, ClosesOf(p), affected)
  BY <1>2, <1>3, <1>4 DEF Settling, Judged
<1>6. ClosesOf(q) = ClosesOf(p)
  BY <1>1 DEF ClosesOf
<1>. QED BY <1>1, <1>5, <1>6, RejudgedAll DEF Judged

\* A summary that its writer stood down from stays settled.
LEMMA StoodDownStays ==
    ASSUME NEW leases, NEW now, NEW n, Moves(leases, now, n), NEW c, StoodDown(leases, c)
    PROVE  StoodDown(now, c)
BY DEF Moves, StoodDown, SummaryLeases

\* A lease entry of a closed range settles its summary, and no other.
LEMMA JudgedLease ==
    ASSUME NEW p, Judged(p), NEW e, LeaseDecided(e, p), NEW n, NEW q, AfterLease(p, e, n, q)
    PROVE  Judged(q)
<1>. DEFINE affected == Touched(e, p.owed)
<1>1. Applied(p.leases, e, n, q.leases) /\ Moves(p.leases, q.leases, n)
  <2>1. PhaseOf(p.leases, e.id) # "ended" /\ q.leases = ApplyChange(p.leases, e, n)
    BY DecidedOpen DEF AfterLease
  <2>2. Applied(p.leases, e, n, q.leases)
    BY <2>1, ApplyChangeIs
  <2>. QED BY <2>1, <2>2, ApplyMoves
<1>2. /\ q.messages = p.messages /\ q.cancelledAt = p.cancelledAt /\ q.closes = p.closes
      /\ q.owed = Rejudged(q, p.owed, affected)
  BY DEF AfterLease, Parts
<1>3. affected \subseteq p.owed
  BY DEF Touched
<1>4. ASSUME NEW c, OwedOpen(q, c) PROVE OwedOpen(p, c)
  <2>1. ~StoodDown(p.leases, c)
    BY <1>1, <1>4, StoodDownStays DEF OwedOpen
  <2>. QED BY <1>2, <1>4, <2>1 DEF OwedOpen
<1>5. ASSUME NEW c \in ClosesOf(p), NEW o \in JudgeOwed(p, c), o \notin affected
      PROVE  JudgeOwed(q, c) = JudgeOwed(p, c)
  <2>1. o \in p.owed /\ o.due.id.position = c.through
    BY JudgeOwedIs DEF Judged
  <2>2. ~(e.id.source = "closed" /\ e.id.position = c.through)
    BY <1>5, <2>1 DEF Touched
  <2>3. /\ SummaryLeases(p.leases, c.through, c.writer)
           = SummaryLeases(q.leases, c.through, c.writer)
        /\ \A id \in SummaryLeases(p.leases, c.through, c.writer) : p.leases[id] = q.leases[id]
    BY <1>1, <2>2 DEF Applied, SummaryLeases
  <2>4. SameClose(p, q, c)
    BY <1>2, <2>3 DEF SameClose
  <2>. QED BY <2>4, SameOwed
<1>. HIDE DEF affected
<1>6. Settling(p, q, ClosesOf(p), affected)
  BY <1>3, <1>4, <1>5 DEF Settling, Judged
<1>7. ClosesOf(q) = ClosesOf(p)
  BY <1>2 DEF ClosesOf
<1>. QED BY <1>2, <1>6, <1>7, RejudgedAll DEF Judged

\* A marker lets every summary be judged again, and closes what was open.
LEMMA JudgedCancel ==
    ASSUME NEW s, NEW n \in Nat, NEW p, Formed(s, n, p), Chained(s, n, p), Leased(s, n, p),
           Judged(p), NEW e, NEW q, AfterCancel(p, e, n + 1, q)
    PROVE  Judged(q)
<1>1. /\ q.messages = p.messages /\ q.cancelledAt = n + 1
      /\ q.leases = CancelHolds(p.leases, n + 1, e.at)
      /\ q.owed = Rejudged(q, p.owed, p.owed)
                  \cup IF p.exchange = NoExchange THEN {}
                       ELSE JudgeOwed(q, CancelledClose(p, n + 1))
      /\ IF p.exchange = NoExchange THEN q.closes = p.closes
         ELSE q.closes = Append(p.closes, CancelledClose(p, n + 1))
  BY DEF AfterCancel
<1>2. Moves(p.leases, q.leases, n + 1)
  <2>1. \A id \in DOMAIN p.leases : IsLease(p.leases[id])
    BY DEF Leased, LeaseIs
  <2>. QED BY <1>1, <2>1, CancelMoves
<1>3. ASSUME NEW c \in ClosesOf(p), OwedOpen(q, c) PROVE OwedOpen(p, c)
  <2>1. ~StoodDown(p.leases, c)
    BY <1>2, <1>3, StoodDownStays DEF OwedOpen
  <2>2. c.through \in Nat /\ p.cancelledAt \in 0..n
    <3>1. PICK k \in 1..Len(p.closes) : c = p.closes[k]
      BY SequenceGrows DEF ClosesOf, Chained
    <3>2. Enclosed(s, n, p.boundary, c) /\ p.boundary \in 0..n
      BY <3>1 DEF Chained, Formed
    <3>. QED BY <3>2 DEF Enclosed, Formed
  <2>3. ~(c.through < p.cancelledAt)
    BY <1>1, <1>3, <2>2 DEF OwedOpen
  <2>. QED BY <1>1, <1>3, <2>1, <2>3 DEF OwedOpen
<1>4. Rejudged(q, p.owed, p.owed) = UNION {JudgeOwed(q, c) : c \in ClosesOf(p)}
  <2>1. Settling(p, q, ClosesOf(p), p.owed)
    BY <1>3 DEF Settling, Judged
  <2>. QED BY <2>1, RejudgedAll
<1>5. CASE p.exchange = NoExchange
  <2>1. ClosesOf(q) = ClosesOf(p)
    BY <1>1, <1>5 DEF ClosesOf
  <2>. QED BY <1>1, <1>4, <1>5, <2>1 DEF Judged
<1>6. CASE p.exchange # NoExchange
  <2>1. ClosesOf(q) = ClosesOf(p) \cup {CancelledClose(p, n + 1)}
    BY <1>1, <1>6, ClosesGrow DEF Chained
  <2>. QED BY <1>1, <1>4, <1>6, <2>1 DEF Judged
<1>. QED BY <1>5, <1>6

\* Every entry keeps the summaries owed what the closes still ask for.
LEMMA JudgedStep ==
    ASSUME NEW s, NEW n \in Nat, NEW p, Formed(s, n, p), Chained(s, n, p), Leased(s, n, p),
           Judged(p), Decided(s[n + 1], p)
    PROVE  Judged(Advance(p, s[n + 1], n + 1))
<1>. DEFINE e == s[n + 1]
            q == Advance(p, e, n + 1)
<1>0. Shaped(p) /\ Decided(e, p)
  BY DEF Formed
<1>. HIDE DEF q, e
<1>1. CASE e.type = "message"
  <2>1. AfterMessage(p, e, n + 1, q)
    BY <1>0, <1>1, AdvanceParts DEF q
  <2>2. Judged(q)
    BY <2>1, JudgedMessage
  <2>. QED BY <2>2 DEF q, e
<1>2. CASE e.type = "lease"
  <2>1. AfterLease(p, e, n + 1, q) /\ LeaseDecided(e, p)
    BY <1>0, <1>2, AdvanceParts DEF q, Decided
  <2>2. Judged(q)
    BY <2>1, JudgedLease
  <2>. QED BY <2>2 DEF q, e
<1>3. CASE e.type = "cancel"
  <2>1. AfterCancel(p, e, n + 1, q)
    BY <1>0, <1>3, AdvanceParts DEF q
  <2>2. Judged(q)
    BY <2>1, JudgedCancel
  <2>. QED BY <2>2 DEF q, e
<1>4. CASE e.type = "close"
  <2>. DEFINE c == CloseRecord(e, n + 1)
  <2>1. AfterClose(p, c, q)
    BY <1>0, <1>4, AdvanceParts DEF q
  <2>. HIDE DEF c
  <2>2. /\ q.messages = p.messages /\ q.cancelledAt = p.cancelledAt /\ q.leases = p.leases
        /\ q.closes = Append(p.closes, c) /\ q.owed = p.owed \cup JudgeOwed(p, c)
    BY <2>1 DEF AfterClose, Parts
  <2>3. \A x : JudgeOwed(q, x) = JudgeOwed(p, x)
    BY <2>2, JudgeOwedReads
  <2>4. ClosesOf(q) = ClosesOf(p) \cup {c}
    BY <2>2, ClosesGrow DEF Chained
  <2>5. Judged(q)
    BY <2>2, <2>3, <2>4 DEF Judged
  <2>. QED BY <2>5 DEF q, e
<1>5. CASE e.type = "composition"
  <2>1. AfterComposition(p, e.seated, q)
    BY <1>0, <1>5, AdvanceParts DEF q
  <2>2. /\ q.messages = p.messages /\ q.cancelledAt = p.cancelledAt /\ q.leases = p.leases
        /\ q.closes = p.closes /\ q.owed = p.owed
    BY <2>1 DEF AfterComposition, Parts
  <2>3. \A x : JudgeOwed(q, x) = JudgeOwed(p, x)
    BY <2>2, JudgeOwedReads
  <2>4. Judged(q)
    BY <2>2, <2>3 DEF Judged, ClosesOf
  <2>. QED BY <2>4 DEF q, e
<1>. QED BY <1>0, <1>1, <1>2, <1>3, <1>4, <1>5 DEF Decided

\* The summaries owed on the replay of a sound record are those its closes ask for.
LEMMA Judges ==
    ASSUME NEW s, Sound(s), RulesAssumption
    PROVE  \A n \in 0..Len(s) : Judged(Replays(s)[n])
<1>. DEFINE r == Replays(s)
            T == {n \in Nat : n <= Len(s) => Judged(r[n])}
<1>. HIDE DEF r
<1>0. /\ Len(s) \in Nat /\ r[0] = EmptyProjection
      /\ \A n \in 1..Len(s) : r[n] = Advance(r[n - 1], s[n], n) /\ Decided(s[n], r[n - 1])
      /\ \A n \in 0..Len(s) : Formed(s, n, r[n]) /\ Chained(s, n, r[n]) /\ Leased(s, n, r[n])
  BY SequenceGrows, ReplaySteps, Formation, Chain, Leasing DEF Sound, r
<1>1. 0 \in T
  <2>1. Judged(EmptyProjection)
    BY DEF Judged, ClosesOf, EmptyProjection
  <2>. QED BY <2>1, <1>0
<1>2. ASSUME NEW n \in Nat, n \in T PROVE n + 1 \in T
  <2>. SUFFICES ASSUME n + 1 <= Len(s) PROVE Judged(r[n + 1])
    OBVIOUS
  <2>0. n \in 0..Len(s) /\ n + 1 \in 1..Len(s) /\ n + 1 - 1 = n /\ n <= Len(s)
    BY <1>0
  <2>1. /\ Formed(s, n, r[n]) /\ Chained(s, n, r[n]) /\ Leased(s, n, r[n]) /\ Judged(r[n])
        /\ Decided(s[n + 1], r[n]) /\ r[n + 1] = Advance(r[n], s[n + 1], n + 1)
    BY <1>0, <1>2, <2>0
  <2>. QED BY <2>1, JudgedStep
<1>. HIDE DEF T
<1>3. Nat \subseteq T
  BY <1>1, <1>2, SetInduction
<1>. QED BY <1>0, <1>3 DEF T, r

-----------------------------------------------------------------------------
(* The roster, the messages and the open exchange *)

\* Entry i seats or unseats a seat.
SeatMove(s, i, seat) ==
    s[i].type = "message" /\ s[i].kind \in {"seated", "unseated"} /\ s[i].to = seat

\* Since the composition at c the seat was seated last, or composed and never moved.
SeatedSince(s, c, n, seat) ==
    \/ \E i \in c + 1..n : /\ SeatMove(s, i, seat) /\ s[i].kind = "seated"
                           /\ \A j \in i + 1..n : ~SeatMove(s, j, seat)
    \/ seat \in s[c].seated /\ \A i \in c + 1..n : ~SeatMove(s, i, seat)

\* Entry c is the last composition of the first n entries.
Composes(s, c, n) ==
    /\ c \in 1..n /\ s[c].type = "composition"
    /\ \A i \in c + 1..n : s[i].type # "composition"

\* The roster is what the last composition and the moves after it make of it.
Rostered(s, n, p) ==
    \E c \in 1..n : /\ Composes(s, c, n)
                    /\ \A seat : seat \in p.roster <=> SeatedSince(s, c, n, seat)

\* One more entry that is no composition.
LEMMA SeatedGrows ==
    ASSUME NEW s, NEW n \in Nat, NEW c \in 1..n, NEW seat
    PROVE  SeatedSince(s, c, n + 1, seat)
           <=> IF SeatMove(s, n + 1, seat) THEN s[n + 1].kind = "seated"
               ELSE SeatedSince(s, c, n, seat)
<1>1. \A j : j \in c + 1..n + 1 <=> j \in c + 1..n \/ j = n + 1
  OBVIOUS
<1>2. \A i \in c + 1..n : \A j : j \in i + 1..n + 1 <=> j \in i + 1..n \/ j = n + 1
  OBVIOUS
<1>3. \A j \in n + 1 + 1..n + 1 : FALSE
  OBVIOUS
<1>4. CASE SeatMove(s, n + 1, seat)
  BY <1>1, <1>2, <1>3, <1>4 DEF SeatedSince
<1>5. CASE ~SeatMove(s, n + 1, seat)
  BY <1>1, <1>2, <1>3, <1>5 DEF SeatedSince
<1>. QED BY <1>4, <1>5

\* One more entry keeps the roster what the last composition and the moves after it make of it.
LEMMA RosteredStep ==
    ASSUME NEW s, NEW n \in Nat, NEW p, Formed(s, n, p), Decided(s[n + 1], p),
           s[n + 1].type = "composition" \/ Rostered(s, n, p)
    PROVE  Rostered(s, n + 1, Advance(p, s[n + 1], n + 1))
<1>. DEFINE e == s[n + 1]
            q == Advance(p, e, n + 1)
<1>0. Shaped(p) /\ Decided(e, p) /\ n + 1 \in Nat
  BY DEF Formed
<1>. HIDE DEF q, e
<1>1. CASE e.type = "composition"
  <2>1. AfterComposition(p, e.seated, q)
    BY <1>0, <1>1, AdvanceParts DEF q
  <2>2. q.roster = e.seated
    BY <2>1 DEF AfterComposition
  <2>3. \A i \in n + 1 + 1..n + 1 : FALSE
    OBVIOUS
  <2>4. Composes(s, n + 1, n + 1)
    BY <1>0, <1>1, <2>3 DEF Composes, e
  <2>5. \A seat : seat \in q.roster <=> SeatedSince(s, n + 1, n + 1, seat)
    BY <2>2, <2>3 DEF SeatedSince, e
  <2>6. n + 1 \in 1..n + 1
    BY <1>0
  <2>. QED BY <2>4, <2>5, <2>6 DEF Rostered, q, e
<1>2. CASE e.type # "composition"
  <2>1. PICK c \in 1..n : /\ Composes(s, c, n)
                          /\ \A seat : seat \in p.roster <=> SeatedSince(s, c, n, seat)
    BY <1>2 DEF Rostered, e
  <2>2. Composes(s, c, n + 1) /\ c \in 1..n + 1
    BY <1>2, <2>1 DEF Composes, e
  <2>3. ASSUME NEW seat
        PROVE  seat \in q.roster <=> IF SeatMove(s, n + 1, seat) THEN e.kind = "seated"
                                     ELSE seat \in p.roster
    <3>1. CASE e.type = "message"
      <4>. DEFINE m == Placed(e, n + 1)
      <4>1. AfterMessage(p, e, n + 1, q) /\ MessageDecided(e, p)
        BY <1>0, <3>1, AdvanceParts DEF q, Decided
      <4>2. m.kind = e.kind /\ m.to = e.to
        BY <4>1, PlacedIs DEF MessageDecided, MessageParts
      <4>. HIDE DEF m
      <4>3. q.roster = CASE m.kind = "seated"   -> p.roster \cup {m.to}
                         [] m.kind = "unseated" -> p.roster \ {m.to}
                         [] OTHER               -> p.roster
        BY <4>1 DEF AfterMessage, m
      <4>. QED BY <3>1, <4>2, <4>3 DEF SeatMove, e
    <3>2. CASE e.type \in {"lease", "close", "cancel"}
      <4>1. q.roster = p.roster
        <5>1. CASE e.type = "lease"
          <6>1. AfterLease(p, e, n + 1, q)
            BY <1>0, <5>1, AdvanceParts DEF q
          <6>. QED BY <6>1 DEF AfterLease, Parts
        <5>2. CASE e.type = "close"
          <6>1. AfterClose(p, CloseRecord(e, n + 1), q)
            BY <1>0, <5>2, AdvanceParts DEF q
          <6>. QED BY <6>1 DEF AfterClose, Parts
        <5>3. CASE e.type = "cancel"
          <6>1. AfterCancel(p, e, n + 1, q)
            BY <1>0, <5>3, AdvanceParts DEF q
          <6>. QED BY <6>1 DEF AfterCancel
        <5>. QED BY <3>2, <5>1, <5>2, <5>3
      <4>. QED BY <3>2, <4>1 DEF SeatMove, e
    <3>. QED BY <1>0, <1>2, <3>1, <3>2 DEF Decided
  <2>4. \A seat : seat \in q.roster <=> SeatedSince(s, c, n + 1, seat)
    BY <2>1, <2>3, SeatedGrows DEF e
  <2>. QED BY <2>2, <2>4 DEF Rostered, q, e
<1>. QED BY <1>1, <1>2

\* The roster of a sound record that opens with a composition.
LEMMA Rosters ==
    ASSUME NEW s, Sound(s), s[1].type = "composition"
    PROVE  \A n \in 1..Len(s) : Rostered(s, n, Replays(s)[n])
<1>. DEFINE r == Replays(s)
            T == {n \in Nat : n \in 1..Len(s) => Rostered(s, n, r[n])}
<1>. HIDE DEF r
<1>0. /\ Len(s) \in Nat
      /\ \A n \in 1..Len(s) : r[n] = Advance(r[n - 1], s[n], n) /\ Decided(s[n], r[n - 1])
      /\ \A n \in 0..Len(s) : Formed(s, n, r[n])
  BY SequenceGrows, ReplaySteps, Formation DEF Sound, r
<1>1. 0 \in T
  OBVIOUS
<1>2. ASSUME NEW n \in Nat, n \in T PROVE n + 1 \in T
  <2>. SUFFICES ASSUME n + 1 <= Len(s) PROVE Rostered(s, n + 1, r[n + 1])
    OBVIOUS
  <2>0. n \in 0..Len(s) /\ n + 1 \in 1..Len(s) /\ n + 1 - 1 = n /\ (n = 0 \/ n \in 1..Len(s))
    BY <1>0
  <2>1. /\ Formed(s, n, r[n]) /\ Decided(s[n + 1], r[n])
        /\ r[n + 1] = Advance(r[n], s[n + 1], n + 1)
    BY <1>0, <2>0
  <2>2. s[n + 1].type = "composition" \/ Rostered(s, n, r[n])
    BY <1>2, <2>0
  <2>. QED BY <2>1, <2>2, RosteredStep
<1>. HIDE DEF T
<1>3. Nat \subseteq T
  BY <1>1, <1>2, SetInduction
<1>. QED BY <1>0, <1>3 DEF T, r

\* The first opener of the tail is the first opener of the record after the boundary.
LEMMA ExchangeOfRecord ==
    ASSUME NEW s, NEW n \in Nat, NEW p, Formed(s, n, p), Chained(s, n, p)
    PROVE  p.exchange = ExchangeAfter(p.messages, p.known, p.boundary)
<1>1. \A m \in p.messages : m.seq \in 1..n
  BY MessageAt
<1>2. p.boundary \in Nat
  BY DEF Chained, Formed
<1>. DEFINE opening(M) == {m.seq : m \in {x \in M : OpensExchange(x, p.known, p.boundary)}}
            spoken(M) == {m \in M : m.kind = "said" /\ m.from \in p.known
                                    /\ m.seq >= Earliest(opening(M))}
            first(M) == CHOOSE m \in spoken(M) : \A x \in spoken(M) : m.seq <= x.seq
<1>3. opening(p.messages) = opening(p.tail)
  BY DEF Chained, OpensExchange, Text
<1>4. CASE opening(p.tail) = {}
  BY <1>3, <1>4 DEF ExchangeAfter, Chained
<1>5. CASE opening(p.tail) # {}
  <2>1. Earliest(opening(p.tail)) \in opening(p.tail)
    <3>1. opening(p.tail) \in SUBSET Nat
      BY <1>1 DEF Chained
    <3>. QED BY <1>5, <3>1, EarliestIs
  <2>2. Earliest(opening(p.tail)) > p.boundary
    BY <2>1 DEF OpensExchange
  <2>3. spoken(p.messages) = spoken(p.tail)
    <3>. DEFINE e == Earliest(opening(p.tail))
    <3>1. Earliest(opening(p.messages)) = e
      BY <1>3
    <3>2. e \in Nat /\ e > p.boundary
      <4>1. PICK m \in p.tail : m.seq = e
        BY <2>1
      <4>. QED BY <1>1, <2>2, <4>1 DEF Chained
    <3>. HIDE DEF e
    <3>3. ASSUME NEW m \in p.messages, m.kind = "said", m.seq >= e PROVE m \in p.tail
      <4>1. m.seq > p.boundary
        BY <1>1, <1>2, <3>2, <3>3
      <4>. QED BY <3>3, <4>1 DEF Chained, Text
    <3>4. \A m \in p.tail : m \in p.messages
      BY DEF Chained
    <3>5. \A M : Earliest(opening(M)) = e =>
             spoken(M) = {m \in M : m.kind = "said" /\ m.from \in p.known /\ m.seq >= e}
      OBVIOUS
    <3>. HIDE DEF spoken, opening
    <3>6. /\ spoken(p.messages) = {m \in p.messages : m.kind = "said" /\ m.from \in p.known /\ m.seq >= e}
          /\ spoken(p.tail) = {m \in p.tail : m.kind = "said" /\ m.from \in p.known /\ m.seq >= e}
      BY <3>1, <3>5 DEF e
    <3>. QED BY <3>3, <3>4, <3>6
  <2>4. \A M : opening(M) # {} =>
            ExchangeAfter(M, p.known, p.boundary)
            = [from   |-> Earliest(opening(M)),
               person |-> IF spoken(M) = {} THEN None ELSE first(M).from]
    BY DEF ExchangeAfter
  <2>5. first(p.messages) = first(p.tail)
    BY <2>3
  <2>. HIDE DEF opening, spoken, first
  <2>6. ExchangeAfter(p.messages, p.known, p.boundary) = ExchangeAfter(p.tail, p.known, p.boundary)
    BY <1>3, <1>5, <2>3, <2>4, <2>5
  <2>. QED BY <2>6 DEF Chained
<1>. QED BY <1>4, <1>5

-----------------------------------------------------------------------------
(* Attempts *)

\* The leases of a replay, by their numbers: an activation's number is at most the
\* next one after the other attempts at its work that are over.
Numbered(n, p) ==
    \A id \in DOMAIN p.leases :
        /\ id \in [source : {"message", "closed"}, position : 1..n, seat : Seat,
                   attempt : Nat \ {0}]
        /\ p.leases[id].at \in Nat
        /\ p.leases[id].phase = "ended" => id.position <= p.leases[id].until
        /\ id.attempt <= Cardinality(Tried(p.leases, id) \ {id}) + 1

\* An attempt that is over stays one.
LEMMA TriedGrows ==
    ASSUME NEW leases, NEW now, NEW n, Moves(leases, now, n), NEW id
    PROVE  Tried(leases, id) \subseteq Tried(now, id)
<1>1. ASSUME NEW i \in DOMAIN leases, AttemptAt(i, leases[i], id)
      PROVE  i \in DOMAIN now /\ AttemptAt(i, now[i], id)
  <2>1. leases[i].phase = "ended"
    BY <1>1 DEF AttemptAt, CountsAgainst
  <2>. QED BY <1>1, <2>1 DEF Moves
<1>. QED BY <1>1 DEF Tried

\* How many attempts are over never falls.
LEMMA TriedCounts ==
    ASSUME NEW leases, NEW now, NEW n, Moves(leases, now, n), IsFiniteSet(DOMAIN now),
           NEW id, NEW x
    PROVE  /\ Cardinality(Tried(leases, id)) \in Nat
           /\ Cardinality(Tried(now, id)) \in Nat
           /\ Cardinality(Tried(leases, id)) <= Cardinality(Tried(now, id))
           /\ Cardinality(Tried(leases, id) \ {x}) \in Nat
           /\ Cardinality(Tried(now, id) \ {x}) \in Nat
           /\ Cardinality(Tried(leases, id) \ {x}) <= Cardinality(Tried(now, id) \ {x})
<1>. DEFINE S == Tried(leases, id)
            T == Tried(now, id)
<1>1. S \subseteq T
  BY TriedGrows
<1>2. T \subseteq DOMAIN now
  BY DEF Tried
<1>. HIDE DEF S, T
<1>3. IsFiniteSet(T) /\ IsFiniteSet(S)
  BY <1>1, <1>2, FS_Subset
<1>4. IsFiniteSet(T \ {x}) /\ IsFiniteSet(S \ {x}) /\ S \ {x} \subseteq T \ {x}
  BY <1>1, <1>3, FS_Subset
<1>5. /\ Cardinality(S) \in Nat /\ Cardinality(T) \in Nat /\ Cardinality(S) <= Cardinality(T)
  BY <1>1, <1>3, FS_CardinalityType, FS_Subset
<1>6. /\ Cardinality(S \ {x}) \in Nat /\ Cardinality(T \ {x}) \in Nat
      /\ Cardinality(S \ {x}) <= Cardinality(T \ {x})
  BY <1>4, FS_CardinalityType, FS_Subset
<1>. QED BY <1>5, <1>6 DEF S, T

\* How entry n + 1 moves the leases and the last message.
Proceeds(p, q, n) ==
    /\ Moves(p.leases, q.leases, n) \/ q.leases = p.leases
    /\ p.lastSeq <= q.lastSeq

\* One more decided entry only moves leases on.
LEMMA ProceedsStep ==
    ASSUME NEW s, NEW n \in Nat, NEW p, Formed(s, n, p), Leased(s, n, p),
           Decided(s[n + 1], p)
    PROVE  Proceeds(p, Advance(p, s[n + 1], n + 1), n + 1)
<1>. DEFINE e == s[n + 1]
            q == Advance(p, e, n + 1)
<1>0. Shaped(p) /\ Decided(e, p) /\ p.lastSeq \in 0..n
  BY DEF Formed
<1>. HIDE DEF q, e
<1>1. CASE e.type = "lease"
  <2>1. AfterLease(p, e, n + 1, q) /\ LeaseDecided(e, p)
    BY <1>0, <1>1, AdvanceParts DEF q, Decided
  <2>2. q.leases = ApplyChange(p.leases, e, n + 1) /\ q.lastSeq = p.lastSeq
    BY <2>1 DEF AfterLease, Parts
  <2>3. PhaseOf(p.leases, e.id) # "ended"
    BY <2>1, DecidedOpen
  <2>4. Applied(p.leases, e, n + 1, q.leases)
    BY <2>2, <2>3, ApplyChangeIs
  <2>5. Moves(p.leases, q.leases, n + 1)
    BY <2>3, <2>4, ApplyMoves
  <2>. QED BY <1>0, <2>2, <2>5 DEF Proceeds, q, e
<1>2. CASE e.type = "cancel"
  <2>1. AfterCancel(p, e, n + 1, q)
    BY <1>0, <1>2, AdvanceParts DEF q
  <2>2. q.leases = CancelHolds(p.leases, n + 1, e.at) /\ q.lastSeq = p.lastSeq
    BY <2>1 DEF AfterCancel
  <2>3. \A id \in DOMAIN p.leases : IsLease(p.leases[id])
    BY DEF Leased, LeaseIs
  <2>4. Moves(p.leases, q.leases, n + 1)
    BY <2>2, <2>3, CancelMoves
  <2>. QED BY <1>0, <2>2, <2>4 DEF Proceeds, q, e
<1>3. CASE e.type = "message"
  <2>1. AfterMessage(p, e, n + 1, q)
    BY <1>0, <1>3, AdvanceParts DEF q
  <2>2. q.leases = p.leases /\ q.lastSeq = n + 1
    BY <2>1 DEF AfterMessage
  <2>. QED BY <1>0, <2>2 DEF Proceeds, q, e
<1>4. CASE e.type = "close"
  <2>1. AfterClose(p, CloseRecord(e, n + 1), q)
    BY <1>0, <1>4, AdvanceParts DEF q
  <2>2. q.leases = p.leases /\ q.lastSeq = p.lastSeq
    BY <2>1 DEF AfterClose, Parts
  <2>. QED BY <1>0, <2>2 DEF Proceeds, q, e
<1>5. CASE e.type = "composition"
  <2>1. AfterComposition(p, e.seated, q)
    BY <1>0, <1>5, AdvanceParts DEF q
  <2>2. q.leases = p.leases /\ q.lastSeq = p.lastSeq
    BY <2>1 DEF AfterComposition, Parts
  <2>. QED BY <1>0, <2>2 DEF Proceeds, q, e
<1>. QED BY <1>0, <1>1, <1>2, <1>3, <1>4, <1>5 DEF Decided

\* What may be owed may be owed later, whatever entry comes first.
LEMMA OwableStays ==
    ASSUME NEW p, NEW q, NEW n, Proceeds(p, q, n), IsFiniteSet(DOMAIN q.leases),
           p.lastSeq \in Nat, q.lastSeq \in Nat, NEW id, Owable(p, id)
    PROVE  Owable(q, id)
<1>1. CASE Moves(p.leases, q.leases, n)
  <2>1. /\ Cardinality(Tried(p.leases, id)) \in Nat /\ Cardinality(Tried(q.leases, id)) \in Nat
        /\ Cardinality(Tried(p.leases, id)) <= Cardinality(Tried(q.leases, id))
    BY <1>1, TriedCounts
  <2>. DEFINE a == Cardinality(Tried(p.leases, id))
              b == Cardinality(Tried(q.leases, id))
  <2>2. a \in Nat /\ b \in Nat /\ a <= b
    BY <2>1
  <2>. HIDE DEF a, b
  <2>3. /\ id \in [source : {"message", "closed"}, position : 1..p.lastSeq, seat : Seat,
                   attempt : Nat \ {0}]
        /\ id.attempt <= a + 1 /\ p.lastSeq <= q.lastSeq
    BY DEF Owable, Proceeds, a
  <2>4. id.attempt \in Nat /\ id.attempt <= b + 1
    BY <2>2, <2>3
  <2>5. id \in [source : {"message", "closed"}, position : 1..q.lastSeq, seat : Seat,
                attempt : Nat \ {0}]
    BY <2>3
  <2>. QED BY <2>4, <2>5 DEF Owable, b
<1>2. CASE q.leases = p.leases
  BY <1>2 DEF Owable, Proceeds
<1>. QED BY <1>1, <1>2 DEF Proceeds

\* An activation that stays in the record keeps its number within bounds.
LEMMA NumberStays ==
    ASSUME NEW p, NEW q, NEW n, Proceeds(p, q, n), IsFiniteSet(DOMAIN q.leases),
           NEW id, id.attempt \in Nat, id.attempt <= Cardinality(Tried(p.leases, id) \ {id}) + 1
    PROVE  id.attempt <= Cardinality(Tried(q.leases, id) \ {id}) + 1
<1>. DEFINE a == Cardinality(Tried(p.leases, id) \ {id})
            b == Cardinality(Tried(q.leases, id) \ {id})
<1>1. CASE Moves(p.leases, q.leases, n)
  <2>1. a \in Nat /\ b \in Nat /\ a <= b
    BY <1>1, TriedCounts
  <2>2. id.attempt <= a + 1
    OBVIOUS
  <2>. HIDE DEF a, b
  <2>3. id.attempt <= b + 1
    BY <2>1, <2>2
  <2>. QED BY <2>3 DEF b
<1>2. CASE q.leases = p.leases
  BY <1>2
<1>. QED BY <1>1, <1>2 DEF Proceeds

\* An activation that enters the record is the next attempt at its work.
LEMMA NumberEnters ==
    ASSUME NEW p, NEW q, NEW n, Moves(p.leases, q.leases, n), IsFiniteSet(DOMAIN q.leases),
           NEW id, id \notin DOMAIN p.leases, Owable(p, id)
    PROVE  id.attempt <= Cardinality(Tried(q.leases, id) \ {id}) + 1
<1>. DEFINE a == Cardinality(Tried(p.leases, id) \ {id})
            b == Cardinality(Tried(q.leases, id) \ {id})
<1>1. a \in Nat /\ b \in Nat /\ a <= b
  BY TriedCounts
<1>2. Tried(p.leases, id) \ {id} = Tried(p.leases, id)
  BY DEF Tried
<1>3. id.attempt <= a + 1 /\ id.attempt \in Nat
  BY <1>2 DEF Owable
<1>. HIDE DEF a, b
<1>4. id.attempt <= b + 1
  BY <1>1, <1>3
<1>. QED BY <1>4 DEF b

\* One more decided entry keeps the attempts of an activation numbered from one without a gap.
LEMMA NumberedStep ==
    ASSUME NEW s, NEW n \in Nat, NEW p, Formed(s, n, p), Leased(s, n, p), Numbered(n, p),
           Decided(s[n + 1], p), NEW q, q = Advance(p, s[n + 1], n + 1),
           IsFiniteSet(DOMAIN q.leases)
    PROVE  Numbered(n + 1, q)
<1>. DEFINE e == s[n + 1]
            Id(k) == [source : {"message", "closed"}, position : 1..k, seat : Seat,
                      attempt : Nat \ {0}]
<1>0. Shaped(p) /\ Decided(e, p) /\ p.lastSeq \in 0..n /\ q = Advance(p, e, n + 1)
  BY DEF Formed
<1>1. Proceeds(p, q, n + 1)
  BY ProceedsStep
<1>2. \A id : id \in Id(n) => id \in Id(n + 1) /\ id.attempt \in Nat /\ id.position \in 1..n
  OBVIOUS
<1>. HIDE DEF e, Id
<1>3. ASSUME NEW id \in DOMAIN p.leases
      PROVE  id \in Id(n + 1) /\ id.position \in 1..n
             /\ id.attempt <= Cardinality(Tried(q.leases, id) \ {id}) + 1
  <2>1. id \in Id(n) /\ id.attempt <= Cardinality(Tried(p.leases, id) \ {id}) + 1
    BY DEF Numbered, Id
  <2>2. id.attempt \in Nat
    BY <1>2, <2>1
  <2>3. id.attempt <= Cardinality(Tried(q.leases, id) \ {id}) + 1
    BY <1>1, <2>1, <2>2, NumberStays
  <2>. QED BY <1>2, <2>1, <2>3
<1>4. CASE e.type = "lease"
  <2>1. AfterLease(p, e, n + 1, q) /\ LeaseDecided(e, p)
    BY <1>0, <1>4, AdvanceParts DEF Decided
  <2>2. q.leases = ApplyChange(p.leases, e, n + 1)
    BY <2>1 DEF AfterLease, Parts
  <2>3. PhaseOf(p.leases, e.id) # "ended"
    BY <2>1, DecidedOpen
  <2>4. Applied(p.leases, e, n + 1, q.leases)
    BY <2>2, <2>3, ApplyChangeIs
  <2>5. Moves(p.leases, q.leases, n + 1)
    BY <2>3, <2>4, ApplyMoves
  <2>6. /\ e.id \in Id(n + 1) /\ e.id.position \in 1..n
        /\ e.id.attempt <= Cardinality(Tried(q.leases, e.id) \ {e.id}) + 1
    <3>1. CASE e.id \in DOMAIN p.leases
      BY <1>3, <3>1
    <3>2. CASE e.id \notin DOMAIN p.leases
      <4>1. Owable(p, e.id)
        BY <2>1, <3>2 DEF LeaseDecided
      <4>2. e.id \in Id(n) 
        <5>1. 1..p.lastSeq \subseteq 1..n
          BY <1>0
        <5>. QED BY <4>1, <5>1 DEF Owable, Id
      <4>3. e.id.attempt <= Cardinality(Tried(q.leases, e.id) \ {e.id}) + 1
        BY <2>5, <3>2, <4>1, NumberEnters
      <4>. QED BY <1>2, <4>2, <4>3
    <3>. QED BY <3>1, <3>2
  <2>7. /\ q.leases[e.id].at \in Nat
        /\ q.leases[e.id].phase = "ended" => q.leases[e.id].until = n + 1
    BY <2>1, <2>4 DEF Applied, LeaseDecided
  <2>8. /\ DOMAIN q.leases = DOMAIN p.leases \cup {e.id}
        /\ \A id \in DOMAIN p.leases : id # e.id => q.leases[id] = p.leases[id]
    BY <2>4 DEF Applied
  <2>9. ASSUME NEW id \in DOMAIN q.leases
        PROVE  /\ id \in Id(n + 1) /\ q.leases[id].at \in Nat
               /\ q.leases[id].phase = "ended" => id.position <= q.leases[id].until
               /\ id.attempt <= Cardinality(Tried(q.leases, id) \ {id}) + 1
    <3>1. CASE id = e.id
      <4>1. e.id.position <= n + 1
        BY <2>6
      <4>. QED BY <2>6, <2>7, <3>1, <4>1
    <3>2. CASE id # e.id
      BY <1>3, <2>8, <3>2 DEF Numbered
    <3>. QED BY <3>1, <3>2
  <2>. QED BY <2>9 DEF Numbered, Id
<1>5. CASE e.type = "cancel"
  <2>1. AfterCancel(p, e, n + 1, q)
    BY <1>0, <1>5, AdvanceParts
  <2>2. q.leases = CancelHolds(p.leases, n + 1, e.at) /\ e.at \in Nat
    BY <1>0, <1>5, <2>1 DEF AfterCancel, Decided
  <2>3. \A id \in DOMAIN p.leases : IsLease(p.leases[id])
    BY DEF Leased, LeaseIs
  <2>4. /\ DOMAIN q.leases = DOMAIN p.leases
        /\ \A id \in DOMAIN p.leases : IF p.leases[id].phase = "ended" \/ id.position >= n + 1
                                       THEN q.leases[id] = p.leases[id]
                                       ELSE Ended(p.leases[id], n + 1, q.leases[id])
    BY <2>2, <2>3, CancelHoldsIs
  <2>5. ASSUME NEW id \in DOMAIN p.leases PROVE q.leases[id].at \in Nat
    <3>1. IsLease(p.leases[id]) /\ p.leases[id].at \in Nat
      BY <2>3 DEF Numbered
    <3>2. q.leases[id] = p.leases[id] \/ q.leases[id].at = e.at
      BY <2>2, <3>1 DEF CancelHolds, IsLease, LeaseFields
    <3>. QED BY <2>2, <3>1, <3>2
  <2>6. ASSUME NEW id \in DOMAIN p.leases, q.leases[id].phase = "ended"
        PROVE  id.position <= q.leases[id].until
    <3>0. id.position \in 1..n
      BY <1>3
    <3>1. id.position <= n + 1
      BY <3>0
    <3>2. CASE q.leases[id] = p.leases[id]
      BY <2>6, <3>2 DEF Numbered
    <3>3. CASE q.leases[id] # p.leases[id]
      <4>1. Ended(p.leases[id], n + 1, q.leases[id])
        BY <2>4, <3>3
      <4>. QED BY <3>1, <4>1 DEF Ended
    <3>. QED BY <3>2, <3>3
  <2>. QED BY <1>3, <2>4, <2>5, <2>6 DEF Numbered, Id
<1>6. CASE e.type \in {"message", "close", "composition"}
  <2>1. q.leases = p.leases
    <3>1. CASE e.type = "message"
      <4>1. AfterMessage(p, e, n + 1, q)
        BY <1>0, <3>1, AdvanceParts
      <4>. QED BY <4>1 DEF AfterMessage
    <3>2. CASE e.type = "close"
      <4>1. AfterClose(p, CloseRecord(e, n + 1), q)
        BY <1>0, <3>2, AdvanceParts
      <4>. QED BY <4>1 DEF AfterClose, Parts
    <3>3. CASE e.type = "composition"
      <4>1. AfterComposition(p, e.seated, q)
        BY <1>0, <3>3, AdvanceParts
      <4>. QED BY <4>1 DEF AfterComposition, Parts
    <3>. QED BY <1>6, <3>1, <3>2, <3>3
  <2>. QED BY <1>3, <2>1 DEF Numbered, Id
<1>. QED BY <1>0, <1>4, <1>5, <1>6 DEF Decided

\* The attempts are numbered without a gap at every position of a sound record.
LEMMA Numbers ==
    ASSUME NEW s, Sound(s), RulesAssumption
    PROVE  \A n \in 0..Len(s) : Numbered(n, Replays(s)[n])
<1>. DEFINE r == Replays(s)
            T == {n \in Nat : n <= Len(s) => Numbered(n, r[n])}
<1>. HIDE DEF r
<1>0. /\ Len(s) \in Nat /\ r[0] = EmptyProjection
      /\ \A n \in 1..Len(s) : r[n] = Advance(r[n - 1], s[n], n) /\ Decided(s[n], r[n - 1])
      /\ \A n \in 0..Len(s) : Formed(s, n, r[n]) /\ Leased(s, n, r[n])
  BY SequenceGrows, ReplaySteps, Formation, Leasing DEF Sound, r
<1>1. 0 \in T
  <2>1. Numbered(0, EmptyProjection)
    BY DEF Numbered, EmptyProjection
  <2>. QED BY <2>1, <1>0
<1>2. ASSUME NEW n \in Nat, n \in T PROVE n + 1 \in T
  <2>. SUFFICES ASSUME n + 1 <= Len(s) PROVE Numbered(n + 1, r[n + 1])
    OBVIOUS
  <2>0. n \in 0..Len(s) /\ n + 1 \in 1..Len(s) /\ n + 1 - 1 = n /\ n <= Len(s)
        /\ n + 1 \in 0..Len(s) /\ n + 1 \in Nat
    BY <1>0
  <2>1. /\ Formed(s, n, r[n]) /\ Leased(s, n, r[n]) /\ Numbered(n, r[n])
        /\ Decided(s[n + 1], r[n]) /\ r[n + 1] = Advance(r[n], s[n + 1], n + 1)
        /\ Formed(s, n + 1, r[n + 1]) /\ Leased(s, n + 1, r[n + 1])
    BY <1>0, <1>2, <2>0
  <2>2. IsFiniteSet(DOMAIN r[n + 1].leases)
    BY <2>0, <2>1, Finite
  <2>. QED BY <2>1, <2>2, NumberedStep
<1>. HIDE DEF T
<1>3. Nat \subseteq T
  BY <1>1, <1>2, SetInduction
<1>. QED BY <1>0, <1>3 DEF T, r

\* The next attempt a seat owes for a message is numbered after those that are over.
LEMMA RespondIs ==
    ASSUME NEW leases, NEW seat, NEW seq, NEW id, id = DueRespond(leases, seat, seq).id
    PROVE  id = Activation("message", seq, seat, Cardinality(Tried(leases, id)) + 1)
<1>. DEFINE failed == {i \in Taken(leases, seat, seq) : CountsAgainst(i, leases[i], seq)}
<1>1. id = Activation("message", seq, seat, Cardinality(failed) + 1)
  BY DEF DueRespond, DueActivation
<1>2. id.source = "message" /\ id.position = seq /\ id.seat = seat
  BY <1>1 DEF Activation
<1>3. failed = Tried(leases, id)
  BY <1>2 DEF Tried, AttemptAt, Taken, SeatLeases
<1>. QED BY <1>1, <1>3

\* So is the next attempt at the summary of a close.
LEMMA SummaryIs ==
    ASSUME NEW leases, NEW c, NEW id, id = OwedItem(leases, c).due.id
    PROVE  id = Activation("closed", c.through, c.writer, Cardinality(Tried(leases, id)) + 1)
<1>. DEFINE failed == {i \in SummaryLeases(leases, c.through, c.writer) :
                          CountsAgainst(i, leases[i], c.through)}
<1>1. id = Activation("closed", c.through, c.writer, Cardinality(failed) + 1)
  BY DEF OwedItem, DueActivation
<1>2. id.source = "closed" /\ id.position = c.through /\ id.seat = c.writer
  BY <1>1 DEF Activation
<1>3. failed = Tried(leases, id)
  BY <1>2 DEF Tried, AttemptAt, SummaryLeases
<1>. QED BY <1>1, <1>3

\* The next attempt may be owed, and no lease that ended has its number.
LEMMA NextAttempt ==
    ASSUME NEW n \in Nat, NEW p, Numbered(n, p), IsFiniteSet(DOMAIN p.leases),
           NEW source \in {"message", "closed"}, NEW position \in 1..p.lastSeq, NEW seat \in Seat,
           NEW id, id = Activation(source, position, seat, Cardinality(Tried(p.leases, id)) + 1)
    PROVE  /\ Owable(p, id)
           /\ id \in DOMAIN p.leases => p.leases[id].phase # "ended"
<1>. DEFINE tried == Tried(p.leases, id)
<1>1. IsFiniteSet(tried) /\ Cardinality(tried) \in Nat
  <2>1. tried \subseteq DOMAIN p.leases
    BY DEF Tried
  <2>. QED BY <2>1, FS_Subset, FS_CardinalityType
<1>2. /\ id.source = source /\ id.position = position /\ id.seat = seat
      /\ id.attempt = Cardinality(tried) + 1
  BY DEF Activation
<1>3. Owable(p, id)
  <2>1. id \in [source : {"message", "closed"}, position : 1..p.lastSeq, seat : Seat,
                attempt : Nat \ {0}]
    <3>. DEFINE k == Cardinality(tried)
    <3>1. k \in Nat /\ id = Activation(source, position, seat, k + 1)
      BY <1>1
    <3>. HIDE DEF k
    <3>. QED BY <3>1 DEF Activation
  <2>. QED BY <1>1, <1>2, <2>1 DEF Owable
<1>4. ASSUME id \in DOMAIN p.leases, p.leases[id].phase = "ended" PROVE FALSE
  <2>1. /\ id.position <= p.leases[id].until
        /\ id.attempt <= Cardinality(tried \ {id}) + 1
    BY <1>4 DEF Numbered
  <2>2. id \in tried
    BY <1>4, <2>1 DEF Tried, AttemptAt, CoversAttempt, CountsAgainst
  <2>. HIDE DEF tried
  <2>3. Cardinality(tried \ {id}) = Cardinality(tried) - 1
    BY <1>1, <2>2, FS_RemoveElement
  <2>. QED BY <1>1, <1>2, <2>1, <2>3
<1>. QED BY <1>3, <1>4

=============================================================================
