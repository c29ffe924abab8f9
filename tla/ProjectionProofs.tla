-------------------------- MODULE ProjectionProofs --------------------------
(***************************************************************************)
(* Theorems about Projection.tla: what the replay of a journal is, entry   *)
(* by entry, and what one entry does to each part of the projection.       *)
(***************************************************************************)
EXTENDS Projection, FiniteSetTheorems, WellFoundedInduction, TLAPS

-----------------------------------------------------------------------------
(* Induction.  The prover knows none, so it is drawn from the finite sets.  *)

\* A set of naturals has a least element.
LEMMA LeastNat ==
    ASSUME NEW T \in SUBSET Nat, T # {}
    PROVE  \E m \in T : \A k \in T : m <= k
<1>. DEFINE Below == {0..n : n \in T}
<1>1. Below \subseteq FiniteSubsetsOf(Nat)
  <2>1. \A n \in T : 0..n \subseteq Nat /\ IsFiniteSet(0..n)
    BY FS_Interval
  <2>. QED BY <2>1 DEF FiniteSubsetsOf
<1>2. PICK b \in Below : \A c \in Below : ~(<<c, b>> \in StrictSubsetOrdering(Nat))
  <2>1. Below # {} OBVIOUS
  <2>2. IsWellFoundedOn(StrictSubsetOrdering(Nat), FiniteSubsetsOf(Nat))
    BY FS_StrictSubsetOrderingWellFounded
  <2>. HIDE DEF Below
  <2>. QED BY <1>1, <2>1, <2>2, WFMin
<1>3. PICK m \in T : b = 0..m OBVIOUS
<1>4. ASSUME NEW k \in T, k < m PROVE FALSE
  <2>1. 0..k \in Below /\ 0..k \subseteq b /\ 0..k # b
    BY <1>3, <1>4
  <2>2. <<0..k, b>> \in StrictSubsetOrdering(Nat)
    BY <2>1, <1>3 DEF StrictSubsetOrdering
  <2>. QED BY <1>2, <2>1, <2>2
<1>. QED BY <1>4

\* A set that holds 0 and with each number the next one holds them all.
LEMMA SetInduction ==
    ASSUME NEW T, 0 \in T, \A n \in Nat : n \in T => n + 1 \in T
    PROVE  Nat \subseteq T
<1>. SUFFICES ASSUME Nat \ T # {} PROVE FALSE
  OBVIOUS
<1>1. PICK m \in Nat \ T : \A k \in Nat \ T : m <= k
  BY LeastNat
<1>2. m # 0 /\ m - 1 \in Nat /\ m - 1 \in T
  BY <1>1
<1>3. QED BY <1>1, <1>2

\* A bounded set of numbers has a last one, and Latest is it.
LEMMA LatestIs ==
    ASSUME NEW S \in SUBSET Nat, S # {}, NEW b \in Nat, \A x \in S : x <= b
    PROVE  Latest(S) \in S /\ \A x \in S : x <= Latest(S)
<1>. DEFINE T == {n \in Nat : \A x \in S : x <= n}
<1>1. PICK m \in T : \A k \in T : m <= k
  BY LeastNat
<1>2. m \in S
  <2>. SUFFICES ASSUME m \notin S PROVE FALSE
    OBVIOUS
  <2>1. \A x \in S : x <= m - 1
    BY <1>1
  <2>2. m - 1 \in T
    <3>1. PICK x \in S : TRUE
      OBVIOUS
    <3>2. x <= m - 1 /\ x >= 0
      BY <2>1, <3>1
    <3>. QED BY <2>1, <3>2
  <2>. QED BY <2>2, <1>1
<1>. QED BY <1>1, <1>2 DEF Latest

\* The earliest of a set of positions is its least.
LEMMA EarliestIs ==
    ASSUME NEW S \in SUBSET Nat, S # {}
    PROVE  Earliest(S) \in S /\ \A x \in S : Earliest(S) <= x
BY LeastNat DEF Earliest

-----------------------------------------------------------------------------
(* The replay *)

\* The functions that go through the first n entries of a journal.
Through(s, n, f) ==
    f = [k \in 0..n |-> IF k = 0 THEN EmptyProjection ELSE Advance(f[k - 1], s[k], k)]

\* Every prefix of a record has a replay.
LEMMA ThroughExists ==
    ASSUME NEW s, NEW n \in Nat
    PROVE  \E f : Through(s, n, f)
<1>. DEFINE T == {m \in Nat : \E f : Through(s, m, f)}
<1>1. 0 \in T
  <2>. DEFINE f == [k \in 0..0 |-> EmptyProjection]
  <2>1. Through(s, 0, f)
    BY DEF Through
  <2>. QED BY <2>1
<1>2. ASSUME NEW m \in Nat, m \in T PROVE m + 1 \in T
  <2>1. PICK f : Through(s, m, f)
    BY <1>2
  <2>. DEFINE g == [k \in 0..m + 1 |-> IF k <= m THEN f[k] ELSE Advance(f[m], s[m + 1], m + 1)]
  <2>2. ASSUME NEW k \in 0..m + 1
        PROVE  g[k] = IF k = 0 THEN EmptyProjection ELSE Advance(g[k - 1], s[k], k)
    <3>1. CASE k <= m
      BY <3>1, <2>1 DEF Through
    <3>2. CASE k = m + 1
      BY <3>2
    <3>. QED BY <3>1, <3>2
  <2>3. Through(s, m + 1, g)
    <3>. HIDE DEF g
    <3>1. g = [k \in 0..m + 1 |-> g[k]]
      BY DEF g
    <3>. QED BY <2>2, <3>1 DEF Through
  <2>. QED BY <2>3
<1>. HIDE DEF T
<1>3. Nat \subseteq T
  BY <1>1, <1>2, SetInduction
<1>. QED BY <1>3 DEF T

\* Two journals with the same first n entries are gone through alike.
Alike(s, t, n) == \A k \in 1..n : s[k] = t[k]

\* Two records alike up to a position have the same replay up to it.
LEMMA ThroughUnique ==
    ASSUME NEW s, NEW t, NEW n \in Nat, NEW m \in Nat, NEW f, NEW g,
           Through(s, n, f), Through(t, m, g), n <= m, Alike(s, t, n)
    PROVE  \A k \in 0..n : f[k] = g[k]
<1>. DEFINE T == {k \in Nat : k <= n => f[k] = g[k]}
<1>1. 0 \in T
  BY DEF Through
<1>2. ASSUME NEW k \in Nat, k \in T PROVE k + 1 \in T
  <2>. SUFFICES ASSUME k + 1 <= n PROVE f[k + 1] = g[k + 1]
    OBVIOUS
  <2>1. f[k + 1] = Advance(f[k], s[k + 1], k + 1) /\ s[k + 1] = t[k + 1]
    BY DEF Through, Alike
  <2>2. g[k + 1] = Advance(g[k], t[k + 1], k + 1)
    BY DEF Through
  <2>. QED BY <2>1, <2>2, <1>2
<1>. HIDE DEF T
<1>3. Nat \subseteq T
  BY <1>1, <1>2, SetInduction
<1>. QED BY <1>3 DEF T

\* Replays is the replay of the whole record.
LEMMA ReplaysThrough ==
    ASSUME NEW s, Len(s) \in Nat
    PROVE  Through(s, Len(s), Replays(s))
<1>1. Replays(s) = CHOOSE f : Through(s, Len(s), f)
  BY DEF Replays, Through
<1>. QED BY <1>1, ThroughExists

\* A sequence, whatever it holds.
IsSequence(s) == s \in Seq({s[i] : i \in DOMAIN s})

\* What appending does to a sequence.
LEMMA SequenceGrows ==
    ASSUME NEW s, IsSequence(s), NEW e
    PROVE  /\ Len(s) \in Nat /\ DOMAIN s = 1..Len(s)
           /\ IsSequence(Append(s, e))
           /\ Len(Append(s, e)) = Len(s) + 1
           /\ \A k \in 1..Len(s) : Append(s, e)[k] = s[k]
           /\ Append(s, e)[Len(s) + 1] = e
<1>. DEFINE E == {s[i] : i \in DOMAIN s} \cup {e}
            t == Append(s, e)
<1>1. s \in Seq(E) /\ e \in E
  BY DEF IsSequence
<1>. HIDE DEF E
<1>2. /\ Len(s) \in Nat /\ DOMAIN s = 1..Len(s)
      /\ t \in Seq(E) /\ Len(t) = Len(s) + 1
      /\ \A k \in 1..Len(s) : t[k] = s[k]
      /\ t[Len(s) + 1] = e
  BY <1>1
<1>3. IsSequence(t)
  <2>. HIDE DEF t
  <2>1. t \in [1..Len(t) -> {t[i] : i \in DOMAIN t}] /\ Len(t) \in Nat
    BY <1>2
  <2>. QED BY <2>1 DEF IsSequence
<1>. QED BY <1>2, <1>3

\* The first n entries of a journal give the first n projections.
LEMMA ReplayGrows ==
    ASSUME NEW s, IsSequence(s), NEW e
    PROVE  /\ \A n \in 0..Len(s) : Replays(Append(s, e))[n] = Replays(s)[n]
           /\ Replays(Append(s, e))[Len(s) + 1] = Advance(Replays(s)[Len(s)], e, Len(s) + 1)
<1>. DEFINE t == Append(s, e)
<1>1. /\ Len(s) \in Nat /\ Len(t) = Len(s) + 1
      /\ \A k \in 1..Len(s) : s[k] = t[k]
      /\ t[Len(s) + 1] = e
  BY SequenceGrows
<1>. HIDE DEF t
<1>2. Through(s, Len(s), Replays(s)) /\ Through(t, Len(t), Replays(t))
  BY <1>1, ReplaysThrough
<1>3. \A k \in 0..Len(s) : Replays(s)[k] = Replays(t)[k]
  <2>1. Len(t) \in Nat /\ Len(s) <= Len(t) /\ Alike(s, t, Len(s))
    BY <1>1 DEF Alike
  <2>. QED BY <1>1, <1>2, <2>1, ThroughUnique
<1>4. Replays(t)[Len(t)] = Advance(Replays(t)[Len(s)], e, Len(s) + 1)
  BY <1>1, <1>2 DEF Through
<1>. QED BY <1>1, <1>3, <1>4 DEF t

\* Each projection is the one before it, advanced by one entry.
LEMMA ReplaySteps ==
    ASSUME NEW s, IsSequence(s)
    PROVE  /\ Replays(s)[0] = EmptyProjection
           /\ \A n \in 1..Len(s) : Replays(s)[n] = Advance(Replays(s)[n - 1], s[n], n)
<1>1. Len(s) \in Nat
  BY SequenceGrows
<1>2. Through(s, Len(s), Replays(s))
  BY <1>1, ReplaysThrough
<1>. QED BY <1>1, <1>2 DEF Through

-----------------------------------------------------------------------------
(* What an entry does to each part *)

Parts == {"roster", "known", "present", "exchange", "boundary", "tail", "messages", "closes",
          "cancelledAt", "leases", "wakes", "owed", "scheduled", "lastSeq"}

\* A projection is a record of its parts.
Shaped(p) == p = [f \in Parts |-> p[f]]

\* A message entry is a record too; the projection holds it under its place.
MessageParts == {"type", "kind", "from", "to", "at", "wakes", "act", "delay", "about",
                 "through", "seq"}

IsMessage(e) == e = [f \in MessageParts |-> e[f]]

Placed(e, n) == [e EXCEPT !.seq = n]

\* A placed message is the message with its position as seq.
LEMMA PlacedIs ==
    ASSUME NEW e, IsMessage(e), NEW n
    PROVE  /\ IsMessage(Placed(e, n)) /\ Placed(e, n).seq = n
           /\ \A f \in MessageParts \ {"seq"} : Placed(e, n)[f] = e[f]
BY DEF IsMessage, Placed, MessageParts

\* The empty projection has the shape of a projection.
LEMMA EmptyShaped == Shaped(EmptyProjection)
BY DEF Shaped, EmptyProjection, Parts

\* The summary of a close is judged on the leases, the messages and the marker.
LEMMA JudgeOwedReads ==
    ASSUME NEW p, NEW q, p.leases = q.leases, p.messages = q.messages,
           p.cancelledAt = q.cancelledAt, NEW c
    PROVE  JudgeOwed(p, c) = JudgeOwed(q, c)
BY DEF JudgeOwed

\* The summaries owed, those affected judged again on the projection q.
Rejudged(q, owed, affected) == (owed \ affected) \cup UNION {JudgeOwed(q, CloseOf(o)) : o \in affected}

\* Judging again what is owed reads the leases, the messages and the cancellations alone.
LEMMA RejudgedReads ==
    ASSUME NEW r, NEW q, r.leases = q.leases, r.messages = q.messages,
           r.cancelledAt = q.cancelledAt, NEW affected
    PROVE  RejudgeOwed(r, affected) = Rejudged(q, r.owed, affected)
<1>1. \A c : JudgeOwed(r, c) = JudgeOwed(q, c)
  BY JudgeOwedReads
<1>2. {JudgeOwed(r, CloseOf(o)) : o \in affected} = {JudgeOwed(q, CloseOf(o)) : o \in affected}
  BY <1>1
<1>. QED BY <1>2 DEF RejudgeOwed, Rejudged

\* The summaries that a message lets the room judge again.
Shaken(m, owed) ==
    CASE m.kind = "summary"  -> owed
      [] m.kind = "unseated" -> {o \in owed : o.due.id.seat = m.to}
      [] OTHER               -> {}

\* The summaries that a lease entry lets the room judge again.
Touched(e, owed) ==
    IF e.id.source = "closed" THEN {o \in owed : o.due.id.position = e.id.position} ELSE {}

\* A message joins the messages, and moves the roster, the people, the tail, the
\* exchange, the says that wait and the wakes; no lease and no close.
AfterMessage(p, e, n, q) ==
    LET m == Placed(e, n) IN
    /\ Shaped(q)
    /\ q.messages = p.messages \cup {m}
    /\ q.tail = IF Text(m) THEN p.tail \cup {m} ELSE p.tail
    /\ q.known = IF m.kind = "arrived" THEN p.known \cup {m.to} ELSE p.known
    /\ q.present = CASE m.kind = "arrived" -> p.present \cup {m.to}
                     [] m.kind = "left"    -> p.present \ {m.to}
                     [] OTHER              -> p.present
    /\ q.roster = CASE m.kind = "seated"   -> p.roster \cup {m.to}
                    [] m.kind = "unseated" -> p.roster \ {m.to}
                    [] OTHER               -> p.roster
    /\ q.scheduled = ScheduleStep(p.scheduled, m)
    /\ q.lastSeq = n
    /\ q.exchange = IF m.kind \in {"said", "system", "arrived"}
                    THEN ExchangeAfter(q.tail, q.known, q.boundary) ELSE p.exchange
    /\ q.wakes = (IF m.kind = "unseated" THEN DropSeat(p.wakes, m.to) ELSE p.wakes)
                 \cup UNION {JudgeWake(p.leases, seat, n) :
                             seat \in Recipients(m, p.leases)}
    /\ q.leases = p.leases /\ q.closes = p.closes
    /\ q.boundary = p.boundary /\ q.cancelledAt = p.cancelledAt
    /\ q.owed = Rejudged(q, p.owed, Shaken(m, p.owed))

\* What a message does to the projection, field by field.
LEMMA OnMessageParts ==
    ASSUME NEW p, Shaped(p), NEW e, NEW n
    PROVE  AfterMessage(p, e, n, OnMessage(p, e, n))
<1>. DEFINE m == Placed(e, n)
            tail == IF Text(m) THEN p.tail \cup {m} ELSE p.tail
            known == IF m.kind = "arrived" THEN p.known \cup {m.to} ELSE p.known
            present == CASE m.kind = "arrived" -> p.present \cup {m.to}
                         [] m.kind = "left"    -> p.present \ {m.to}
                         [] OTHER              -> p.present
            roster == CASE m.kind = "seated"   -> p.roster \cup {m.to}
                        [] m.kind = "unseated" -> p.roster \ {m.to}
                        [] OTHER               -> p.roster
            r == [p EXCEPT !.messages = @ \cup {m}, !.tail = tail, !.known = known,
                           !.present = present, !.roster = roster,
                           !.scheduled = ScheduleStep(@, m), !.lastSeq = n]
            exchange == IF m.kind \in {"said", "system", "arrived"}
                        THEN ExchangeAfter(r.tail, r.known, r.boundary) ELSE r.exchange
            wakes == (IF m.kind = "unseated" THEN DropSeat(r.wakes, m.to) ELSE r.wakes)
                     \cup UNION {JudgeWake(p.leases, seat, n) : seat \in Recipients(m, p.leases)}
            owed == CASE m.kind = "summary"  -> RejudgeOwed(r, r.owed)
                      [] m.kind = "unseated" ->
                            RejudgeOwed(r, {o \in r.owed : o.due.id.seat = m.to})
                      [] OTHER               -> r.owed
            q == OnMessage(p, e, n)
<1>. HIDE DEF m
<1>1. q = [r EXCEPT !.exchange = exchange, !.wakes = wakes, !.owed = owed]
  BY DEF OnMessage, Placed, m
<1>. HIDE DEF tail, known, present, roster
<1>2. /\ Shaped(r)
      /\ r.messages = p.messages \cup {m} /\ r.tail = tail /\ r.known = known
      /\ r.present = present /\ r.roster = roster
      /\ r.scheduled = ScheduleStep(p.scheduled, m) /\ r.lastSeq = n
      /\ r.exchange = p.exchange /\ r.wakes = p.wakes /\ r.owed = p.owed
      /\ r.leases = p.leases /\ r.closes = p.closes
      /\ r.boundary = p.boundary /\ r.cancelledAt = p.cancelledAt
  BY DEF Shaped, Parts
<1>. HIDE DEF r
<1>. HIDE DEF exchange, wakes, owed
<1>3. /\ Shaped(q)
      /\ q.exchange = exchange /\ q.wakes = wakes /\ q.owed = owed
      /\ \A f \in Parts \ {"exchange", "wakes", "owed"} : q[f] = r[f]
  <2>. HIDE DEF q
  <2>. QED BY <1>1, <1>2 DEF Shaped, Parts
<1>. HIDE DEF q
<1>4. /\ q.messages = r.messages /\ q.tail = r.tail /\ q.known = r.known
      /\ q.present = r.present /\ q.roster = r.roster
      /\ q.scheduled = r.scheduled /\ q.lastSeq = r.lastSeq
      /\ q.leases = r.leases /\ q.closes = r.closes
      /\ q.boundary = r.boundary /\ q.cancelledAt = r.cancelledAt
  BY <1>3 DEF Parts
<1>5. owed = Rejudged(q, p.owed, Shaken(m, p.owed))
  <2>1. \A affected : RejudgeOwed(r, affected) = Rejudged(q, p.owed, affected)
    BY <1>2, <1>4, RejudgedReads
  <2>2. owed = CASE m.kind = "summary"  -> RejudgeOwed(r, p.owed)
                 [] m.kind = "unseated" -> RejudgeOwed(r, {o \in p.owed : o.due.id.seat = m.to})
                 [] OTHER               -> p.owed
    BY <1>2 DEF owed
  <2>3. p.owed = Rejudged(q, p.owed, {})
    BY DEF Rejudged
  <2>. QED BY <2>1, <2>2, <2>3 DEF Shaken
<1>. QED
  BY <1>2, <1>3, <1>4, <1>5
     DEF AfterMessage, q, m, tail, known, present, roster, exchange, wakes

\* A lease entry moves the leases, and with them the wakes of its seat or the
\* summaries of its close.
AfterLease(p, e, n, q) ==
    /\ Shaped(q)
    /\ q.leases = ApplyChange(p.leases, e, n)
    /\ q.wakes = IF e.id.source = "closed" THEN p.wakes
                 ELSE RejudgeSeat(p.wakes, q.leases, e.id.seat)
    /\ \A f \in Parts \ {"leases", "wakes", "owed"} : q[f] = p[f]
    /\ q.owed = Rejudged(q, p.owed, Touched(e, p.owed))

\* What a lease entry does to the projection, field by field.
LEMMA OnLeaseParts ==
    ASSUME NEW p, Shaped(p), NEW e, NEW n
    PROVE  AfterLease(p, e, n, OnLease(p, e, n))
<1>. DEFINE r == [p EXCEPT !.leases = ApplyChange(@, e, n)]
            q == OnLease(p, e, n)
<1>1. Shaped(r) /\ r.leases = ApplyChange(p.leases, e, n)
      /\ \A f \in Parts \ {"leases"} : r[f] = p[f]
  <2>. DEFINE l == ApplyChange(p.leases, e, n)
  <2>. HIDE DEF l
  <2>1. r = [p EXCEPT !.leases = l]
    BY DEF l
  <2>. QED BY <2>1 DEF Shaped, Parts, l
<1>2. CASE e.id.source = "closed"
  <2>. DEFINE owed == RejudgeOwed(r, {o \in r.owed : o.due.id.position = e.id.position})
  <2>1. q = [r EXCEPT !.owed = owed]
    BY <1>2 DEF OnLease
  <2>. HIDE DEF owed, r, q
  <2>2. Shaped(q) /\ q.owed = owed /\ \A f \in Parts \ {"owed"} : q[f] = r[f]
    BY <2>1, <1>1 DEF Shaped, Parts
  <2>3. /\ q.leases = r.leases /\ q.messages = r.messages /\ q.cancelledAt = r.cancelledAt
        /\ q.wakes = r.wakes /\ r.wakes = p.wakes /\ r.owed = p.owed
    BY <2>2, <1>1 DEF Parts
  <2>4. owed = Rejudged(q, p.owed, Touched(e, p.owed))
    <3>1. owed = Rejudged(q, p.owed, {o \in p.owed : o.due.id.position = e.id.position})
      BY <2>3, RejudgedReads DEF owed
    <3>. QED BY <3>1, <1>2 DEF Touched
  <2>. QED BY <1>1, <1>2, <2>2, <2>3, <2>4 DEF AfterLease, q
<1>3. CASE e.id.source # "closed"
  <2>. DEFINE wakes == RejudgeSeat(r.wakes, r.leases, e.id.seat)
  <2>1. q = [r EXCEPT !.wakes = wakes]
    BY <1>3 DEF OnLease
  <2>. HIDE DEF r, wakes, q
  <2>2. Shaped(q) /\ q.wakes = wakes /\ \A f \in Parts \ {"wakes"} : q[f] = r[f]
    BY <2>1, <1>1 DEF Shaped, Parts
  <2>3. q.leases = r.leases /\ r.wakes = p.wakes /\ q.owed = p.owed
    BY <2>2, <1>1 DEF Parts
  <2>4. p.owed = Rejudged(q, p.owed, Touched(e, p.owed))
    BY <1>3 DEF Rejudged, Touched
  <2>. QED BY <1>1, <1>3, <2>2, <2>3, <2>4 DEF AfterLease, q, wakes
<1>. QED BY <1>2, <1>3

\* A close joins the closes and moves the boundary to where it reaches.
AfterClose(p, c, q) ==
    /\ Shaped(q)
    /\ q.closes = Append(p.closes, c) /\ q.boundary = c.through
    /\ q.tail = {m \in p.tail : m.seq > c.through}
    /\ q.exchange = ExchangeAfter(q.tail, p.known, c.through)
    /\ q.owed = p.owed \cup JudgeOwed(p, c)
    /\ \A f \in Parts \ {"closes", "boundary", "tail", "exchange", "owed"} : q[f] = p[f]

\* What a close does to the projection, field by field.
LEMMA ClosedAtParts ==
    ASSUME NEW p, Shaped(p), NEW c
    PROVE  AfterClose(p, c, ClosedAt(p, c))
<1>. DEFINE tail == {m \in p.tail : m.seq > c.through}
            exchange == ExchangeAfter(tail, p.known, c.through)
            owed == p.owed \cup JudgeOwed(p, c)
            closes == Append(p.closes, c)
            q == ClosedAt(p, c)
<1>1. q = [p EXCEPT !.closes = closes, !.boundary = c.through, !.tail = tail,
                    !.exchange = exchange, !.owed = owed]
  BY DEF ClosedAt
<1>. HIDE DEF tail, exchange, owed, closes, q
<1>2. /\ Shaped(q)
      /\ q.closes = closes /\ q.boundary = c.through /\ q.tail = tail
      /\ q.exchange = exchange /\ q.owed = owed
      /\ \A f \in Parts \ {"closes", "boundary", "tail", "exchange", "owed"} : q[f] = p[f]
  BY <1>1 DEF Shaped, Parts
<1>. QED BY <1>2 DEF AfterClose, tail, exchange, owed, closes, q

\* A marker ends the leases before it, drops the wakes and the says that wait,
\* and closes the open exchange; no summary outlives it but those judged again.
CancelledClose(p, n) ==
    [from |-> p.exchange.from, through |-> p.lastSeq, person |-> p.exchange.person,
     writer |-> None, cancelled |-> TRUE, at |-> n]

AfterCancel(p, e, n, q) ==
    /\ Shaped(q)
    /\ q.leases = CancelHolds(p.leases, n, e.at)
    /\ q.cancelledAt = n /\ q.wakes = {} /\ q.scheduled = {}
    /\ q.messages = p.messages /\ q.known = p.known /\ q.present = p.present
    /\ q.roster = p.roster /\ q.lastSeq = p.lastSeq
    /\ IF p.exchange = NoExchange
       THEN /\ q.closes = p.closes /\ q.boundary = p.boundary /\ q.tail = p.tail
            /\ q.exchange = p.exchange
       ELSE /\ q.closes = Append(p.closes, CancelledClose(p, n))
            /\ q.boundary = p.lastSeq
            /\ q.tail = {m \in p.tail : m.seq > p.lastSeq}
            /\ q.exchange = ExchangeAfter(q.tail, q.known, q.boundary)
    /\ q.owed = Rejudged(q, p.owed, p.owed)
                \cup IF p.exchange = NoExchange THEN {} ELSE JudgeOwed(q, CancelledClose(p, n))

\* What a cancellation does to the projection, field by field.
LEMMA OnCancelParts ==
    ASSUME NEW p, Shaped(p), NEW e, NEW n
    PROVE  AfterCancel(p, e, n, OnCancel(p, e, n))
<1>. DEFINE leases == CancelHolds(p.leases, n, e.at)
            r == [p EXCEPT !.leases = CancelHolds(@, n, e.at), !.cancelledAt = n,
                           !.wakes = {}, !.scheduled = {}]
            owed == RejudgeOwed(r, r.owed)
            s == [r EXCEPT !.owed = owed]
            q == OnCancel(p, e, n)
            c == CancelledClose(p, n)
<1>1. q = IF p.exchange = NoExchange THEN s ELSE ClosedAt(s, c)
  BY DEF OnCancel, CancelledClose
<1>2. /\ Shaped(r) /\ r.leases = leases /\ r.cancelledAt = n
      /\ r.wakes = {} /\ r.scheduled = {}
      /\ \A f \in Parts \ {"leases", "cancelledAt", "wakes", "scheduled"} : r[f] = p[f]
  <2>1. r = [p EXCEPT !.leases = leases, !.cancelledAt = n, !.wakes = {}, !.scheduled = {}]
    OBVIOUS
  <2>. HIDE DEF r, leases
  <2>. QED BY <2>1 DEF Shaped, Parts
<1>. HIDE DEF r, leases
<1>3. /\ Shaped(s) /\ s.owed = owed
      /\ \A f \in Parts \ {"owed"} : s[f] = r[f]
  <2>. HIDE DEF owed
  <2>. QED BY <1>2 DEF Shaped, Parts
<1>. HIDE DEF s, q, c
<1>4. /\ s.leases = leases /\ s.cancelledAt = n /\ s.wakes = {} /\ s.scheduled = {}
      /\ s.messages = p.messages /\ s.known = p.known /\ s.present = p.present
      /\ s.roster = p.roster /\ s.lastSeq = p.lastSeq /\ s.closes = p.closes
      /\ s.boundary = p.boundary /\ s.tail = p.tail /\ s.exchange = p.exchange
      /\ s.messages = r.messages /\ s.leases = r.leases /\ s.cancelledAt = r.cancelledAt
      /\ r.owed = p.owed
  BY <1>2, <1>3 DEF Parts
<1>5. \A x : x.leases = r.leases /\ x.messages = r.messages /\ x.cancelledAt = r.cancelledAt
            => owed = Rejudged(x, p.owed, p.owed)
  <2>. SUFFICES ASSUME NEW x, x.leases = r.leases, x.messages = r.messages,
                       x.cancelledAt = r.cancelledAt
                PROVE  owed = Rejudged(x, p.owed, p.owed)
    OBVIOUS
  <2>. QED BY <1>4, RejudgedReads DEF owed
<1>. HIDE DEF owed
<1>6. CASE p.exchange = NoExchange
  <2>1. q = s
    BY <1>1, <1>6
  <2>2. owed = Rejudged(s, p.owed, p.owed)
    BY <1>4, <1>5
  <2>. QED BY <2>1, <2>2, <1>3, <1>4, <1>6 DEF AfterCancel, q, leases
<1>7. CASE p.exchange # NoExchange
  <2>1. q = ClosedAt(s, c)
    BY <1>1, <1>7
  <2>2. AfterClose(s, c, q)
    BY <2>1, <1>3, ClosedAtParts
  <2>3. /\ q.leases = s.leases /\ q.cancelledAt = s.cancelledAt /\ q.wakes = s.wakes
        /\ q.scheduled = s.scheduled /\ q.messages = s.messages /\ q.known = s.known
        /\ q.present = s.present /\ q.roster = s.roster /\ q.lastSeq = s.lastSeq
    BY <2>2 DEF AfterClose, Parts
  <2>4. c.through = p.lastSeq
    BY DEF c, CancelledClose
  <2>5. \A x : JudgeOwed(s, x) = JudgeOwed(q, x)
    BY <2>3, JudgeOwedReads
  <2>6. q.owed = Rejudged(q, p.owed, p.owed) \cup JudgeOwed(q, c)
    <3>1. owed = Rejudged(q, p.owed, p.owed)
      BY <2>3, <1>4, <1>5
    <3>. QED BY <3>1, <2>2, <2>5, <1>3 DEF AfterClose
  <2>. QED BY <2>2, <2>3, <2>4, <2>6, <1>4, <1>7 DEF AfterCancel, AfterClose, q, leases, c
<1>. QED BY <1>6, <1>7

\* A composition sets the roster.
AfterComposition(p, seated, q) ==
    /\ Shaped(q) /\ q.roster = seated
    /\ \A f \in Parts \ {"roster"} : q[f] = p[f]

\* What the projection keeps of a close.
CloseRecord(e, n) ==
    [from |-> e.from, through |-> e.through, person |-> e.person, writer |-> e.writer,
     cancelled |-> FALSE, at |-> n]

\* The step of the projection, by the kind of the entry.
LEMMA AdvanceParts ==
    ASSUME NEW p, Shaped(p), NEW e, NEW n
    PROVE  LET q == Advance(p, e, n) IN
           /\ e.type = "message" => AfterMessage(p, e, n, q)
           /\ e.type = "lease" => AfterLease(p, e, n, q)
           /\ e.type = "close" => AfterClose(p, CloseRecord(e, n), q)
           /\ e.type = "cancel" => AfterCancel(p, e, n, q)
           /\ e.type \notin {"message", "lease", "close", "cancel"} =>
                 AfterComposition(p, e.seated, q)
<1>1. CASE e.type = "message"
  <2>1. Advance(p, e, n) = OnMessage(p, e, n)
    BY <1>1 DEF Advance
  <2>. QED BY <2>1, <1>1, OnMessageParts
<1>2. CASE e.type = "lease"
  <2>1. Advance(p, e, n) = OnLease(p, e, n)
    BY <1>2 DEF Advance
  <2>. QED BY <2>1, <1>2, OnLeaseParts
<1>3. CASE e.type = "close"
  <2>1. Advance(p, e, n) = ClosedAt(p, CloseRecord(e, n))
    BY <1>3 DEF Advance, OnClose, CloseRecord
  <2>. QED BY <2>1, <1>3, ClosedAtParts
<1>4. CASE e.type = "cancel"
  <2>1. Advance(p, e, n) = OnCancel(p, e, n)
    BY <1>4 DEF Advance
  <2>. QED BY <2>1, <1>4, OnCancelParts
<1>5. CASE e.type \notin {"message", "lease", "close", "cancel"}
  <2>1. Advance(p, e, n) = [p EXCEPT !.roster = e.seated]
    BY <1>5 DEF Advance
  <2>2. \A x : AfterComposition(p, x, [p EXCEPT !.roster = x])
    BY DEF AfterComposition, Shaped, Parts
  <2>. QED BY <2>1, <2>2, <1>5
<1>. QED BY <1>1, <1>2, <1>3, <1>4, <1>5

-----------------------------------------------------------------------------
(* Leases *)

LeaseFields == {"phase", "at", "claimedAt", "opened", "read", "expires", "reason", "cause",
                "cancelled", "until"}

\* A lease is a record of its fields.
IsLease(l) == l = [f \in LeaseFields |-> l[f]]

\* A lease entry for a lease that has not ended sets the lease of its activation.
Applied(leases, e, n, now) ==
    /\ DOMAIN now = DOMAIN leases \cup {e.id}
    /\ \A id \in DOMAIN leases : id # e.id => now[id] = leases[id]
    /\ IsLease(now[e.id])
    /\ now[e.id].phase = e.phase /\ now[e.id].expires = e.expires
    /\ now[e.id].reason = e.reason
    /\ now[e.id].claimedAt = IF e.id \in DOMAIN leases
                             THEN leases[e.id].claimedAt ELSE e.at
    /\ now[e.id].opened = IF e.id \in DOMAIN leases THEN leases[e.id].opened ELSE n
    /\ now[e.id].at = e.at /\ now[e.id].cause = e.cause
    /\ now[e.id].until = IF e.phase = "ended" THEN n ELSE 0

\* What applyChange makes of a lease that has not ended.
LEMMA ApplyChangeIs ==
    ASSUME NEW leases, NEW e, NEW n, PhaseOf(leases, e.id) # "ended"
    PROVE  Applied(leases, e, n, ApplyChange(leases, e, n))
BY DEF ApplyChange, PhaseOf, Applied, IsLease, LeaseFields

\* A marker ends every running lease whose cause is before it, and no other.
Ended(l, n, now) ==
    /\ IsLease(now) /\ now.phase = "ended" /\ now.until = n /\ now.reason = "revoked"
    /\ now.claimedAt = l.claimedAt /\ now.opened = l.opened

\* What cancelHolds makes of the leases.
LEMMA CancelHoldsIs ==
    ASSUME NEW leases, \A id \in DOMAIN leases : IsLease(leases[id]), NEW n, NEW t
    PROVE  LET now == CancelHolds(leases, n, t) IN
           /\ DOMAIN now = DOMAIN leases
           /\ \A id \in DOMAIN leases :
                 IF leases[id].phase = "ended" \/ id.position >= n
                 THEN now[id] = leases[id] ELSE Ended(leases[id], n, now[id])
<1>1. ASSUME NEW l, IsLease(l)
      PROVE  Ended(l, n, [l EXCEPT !.phase = "ended", !.at = t, !.expires = 0,
                                   !.reason = "revoked", !.cancelled = TRUE, !.until = n])
  BY <1>1 DEF Ended, IsLease, LeaseFields
<1>2. ASSUME NEW id \in DOMAIN leases
      PROVE  IF leases[id].phase = "ended" \/ id.position >= n
             THEN CancelHolds(leases, n, t)[id] = leases[id]
             ELSE Ended(leases[id], n, CancelHolds(leases, n, t)[id])
  <2>1. IsLease(leases[id])
    OBVIOUS
  <2>2. CASE leases[id].phase = "ended" \/ id.position >= n
    BY <2>2 DEF CancelHolds
  <2>3. CASE ~(leases[id].phase = "ended" \/ id.position >= n)
    <3>1. CancelHolds(leases, n, t)[id]
          = [leases[id] EXCEPT !.phase = "ended", !.at = t, !.expires = 0,
                               !.reason = "revoked", !.cancelled = TRUE, !.until = n]
      BY <2>3 DEF CancelHolds
    <3>. QED BY <1>1, <2>1, <2>3, <3>1
  <2>. QED BY <2>2, <2>3
<1>3. DOMAIN CancelHolds(leases, n, t) = DOMAIN leases
  BY DEF CancelHolds
<1>. QED BY <1>2, <1>3

\* What entry n may make of the leases: an end is final, where a lease was opened
\* stays, and what it ends or opens it ends or opens there.
Moves(leases, now, n) ==
    /\ DOMAIN leases \subseteq DOMAIN now
    /\ \A id \in DOMAIN leases :
          /\ now[id].opened = leases[id].opened
          /\ leases[id].phase = "ended" => now[id] = leases[id]
          /\ now[id].phase = "ended" => leases[id].phase = "ended" \/ now[id].until = n
    /\ \A id \in DOMAIN now \ DOMAIN leases : now[id].opened = n

\* A lease entry for a lease that has not ended moves the leases on as Moves says.
LEMMA ApplyMoves ==
    ASSUME NEW leases, NEW e, NEW n, PhaseOf(leases, e.id) # "ended", NEW now,
           Applied(leases, e, n, now)
    PROVE  Moves(leases, now, n)
BY DEF Applied, Moves, PhaseOf

\* A marker moves the leases on as Moves says.
LEMMA CancelMoves ==
    ASSUME NEW leases, \A id \in DOMAIN leases : IsLease(leases[id]), NEW n, NEW t
    PROVE  Moves(leases, CancelHolds(leases, n, t), n)
<1>. DEFINE now == CancelHolds(leases, n, t)
<1>1. DOMAIN now = DOMAIN leases
  BY CancelHoldsIs
<1>2. ASSUME NEW id \in DOMAIN leases
      PROVE  now[id] = leases[id] \/ (leases[id].phase # "ended" /\ Ended(leases[id], n, now[id]))
  BY CancelHoldsIs
<1>. HIDE DEF now
<1>. QED BY <1>1, <1>2 DEF Moves, Ended, now

-----------------------------------------------------------------------------
(* Wakes and summaries *)

\* A summary is owed for a close with a writer that no marker follows.
LEMMA JudgeOwedIs ==
    ASSUME NEW p, NEW c, NEW o \in JudgeOwed(p, c)
    PROVE  /\ o.person = c.person /\ o.from = c.from
           /\ o.due.id.source = "closed" /\ o.due.id.position = c.through
           /\ o.due.id.seat = c.writer
           /\ c.writer # None /\ ~(c.through < p.cancelledAt)
<1>. DEFINE summaries == SummaryLeases(p.leases, c.through, c.writer)
            removed == RemovedAfter(p.messages, c.writer, c.through)
            after == c.through < p.cancelledAt
            counted == {id \in summaries : CountsAgainst(id, p.leases[id], c.through)}
            verdict == SummaryVerdict(c.writer # None, removed, p.leases, summaries, after)
<1>. HIDE DEF summaries, removed, after, counted
<1>1. /\ verdict = "owed"
      /\ o = [person |-> c.person, from |-> c.from,
              due |-> DueActivation("closed", c.through, c.writer, counted, p.leases)]
  BY DEF JudgeOwed, summaries, removed, after, counted
<1>2. ASSUME c.writer = None PROVE FALSE
  BY <1>1, <1>2 DEF SummaryVerdict
<1>3. ASSUME after PROVE FALSE
  <2>. DEFINE ended(reasons) == \E id \in summaries : p.leases[id].phase = "ended"
                                                     /\ p.leases[id].reason \in reasons
              stoodDown == ended({"released", "revoked", "abandoned"})
  <2>1. CASE removed
    BY <1>1, <1>2, <2>1 DEF SummaryVerdict
  <2>2. CASE ~removed /\ ~stoodDown
    BY <1>1, <1>2, <1>3, <2>2 DEF SummaryVerdict
  <2>3. CASE ~removed /\ stoodDown
    BY <1>1, <1>2, <1>3, <2>3 DEF SummaryVerdict
  <2>. QED BY <2>1, <2>2, <2>3
<1>. QED BY <1>1, <1>2, <1>3 DEF DueActivation, Activation, after

\* A wake is held, or it is the activation its seat owes for its message.
LEMMA JudgeWakeIs ==
    ASSUME NEW leases, NEW seat, NEW seq, NEW w \in JudgeWake(leases, seat, seq)
    PROVE  /\ w.seat = seat /\ w.position = seq
           /\ w.due \in {Held, DueRespond(leases, seat, seq)}
           /\ DueRespond(leases, seat, seq).id.source = "message"
           /\ DueRespond(leases, seat, seq).id.position = seq
           /\ DueRespond(leases, seat, seq).id.seat = seat
<1>. DEFINE due == DueRespond(leases, seat, seq)
<1>1. due.id.source = "message" /\ due.id.position = seq /\ due.id.seat = seat
  BY DEF DueRespond, DueActivation, Activation
<1>. HIDE DEF due
<1>2. w \in {[seat |-> seat, position |-> seq, due |-> due],
             [seat |-> seat, position |-> seq, due |-> Held]}
  BY DEF JudgeWake, due
<1>. QED BY <1>1, <1>2 DEF due

\* The leases of a seat that took the message at seq and have ended.
Settled(leases, seat, seq) == {id \in Taken(leases, seat, seq) : leases[id].phase = "ended"}

\* A wake is pending, or gone for good, or held.
LEMMA JudgeWakeForm ==
    ASSUME NEW leases, NEW seat, NEW seq
    PROVE  JudgeWake(leases, seat, seq)
           = IF ~Answered(leases, Taken(leases, seat, seq), seq)
             THEN {[seat |-> seat, position |-> seq, due |-> DueRespond(leases, seat, seq)]}
             ELSE IF Answered(leases, Settled(leases, seat, seq), seq) THEN {}
             ELSE {[seat |-> seat, position |-> seq, due |-> Held]}
<1>1. Answered(leases, Settled(leases, seat, seq), seq)
      => Answered(leases, Taken(leases, seat, seq), seq)
  BY DEF Answered, Settled
<1>. QED BY <1>1 DEF JudgeWake, Settled

\* Two folds of the leases that agree about one seat.
SameFor(leases, now, seat) ==
    /\ SeatLeases(leases, seat) = SeatLeases(now, seat)
    /\ \A id \in SeatLeases(leases, seat) : leases[id] = now[id]

\* A wake is judged on the leases of its seat.
LEMMA JudgeWakeReads ==
    ASSUME NEW leases, NEW now, NEW seat, SameFor(leases, now, seat), NEW seq
    PROVE  JudgeWake(leases, seat, seq) = JudgeWake(now, seat, seq)
<1>. DEFINE taken == Taken(leases, seat, seq)
            settled(l) == Settled(l, seat, seq)
            counted(l) == {id \in Taken(l, seat, seq) : CountsAgainst(id, l[id], seq)}
<1>1. Taken(now, seat, seq) = taken /\ \A id \in taken : leases[id] = now[id]
  BY DEF SameFor, Taken
<1>2. settled(leases) = settled(now) /\ counted(leases) = counted(now)
  BY <1>1 DEF Settled
<1>3. /\ Answered(leases, taken, seq) <=> Answered(now, taken, seq)
      /\ Answered(leases, settled(leases), seq) <=> Answered(now, settled(leases), seq)
  BY <1>1 DEF Answered, Settled
<1>4. DueRespond(leases, seat, seq) = DueRespond(now, seat, seq)
  <2>. DEFINE failed == counted(leases)
  <2>1. \A f \in failed : leases[f] = now[f]
    BY <1>1
  <2>2. /\ DueRespond(leases, seat, seq) = DueActivation("message", seq, seat, failed, leases)
        /\ DueRespond(now, seat, seq) = DueActivation("message", seq, seat, failed, now)
    BY <1>2 DEF DueRespond
  <2>. HIDE DEF failed
  <2>. DEFINE times(l) == {l[f].at : f \in failed}
              permanent(l) == \E f \in failed : l[f].cause = "permanent"
  <2>3. times(leases) = times(now) /\ permanent(leases) = permanent(now)
    BY <2>1
  <2>4. \A l : DueActivation("message", seq, seat, failed, l)
               = [id        |-> Activation("message", seq, seat, Cardinality(failed) + 1),
                  notBefore |-> IF failed = {} THEN 0 ELSE Latest(times(l)) + Backoff,
                  permanent |-> permanent(l)]
    BY DEF DueActivation
  <2>. HIDE DEF times, permanent
  <2>. QED BY <2>2, <2>3, <2>4
<1>5. JudgeWake(leases, seat, seq)
             = IF ~Answered(leases, taken, seq)
               THEN {[seat |-> seat, position |-> seq, due |-> DueRespond(leases, seat, seq)]}
               ELSE IF Answered(leases, settled(leases), seq) THEN {}
               ELSE {[seat |-> seat, position |-> seq, due |-> Held]}
  BY JudgeWakeForm
<1>6. JudgeWake(now, seat, seq)
             = IF ~Answered(now, Taken(now, seat, seq), seq)
               THEN {[seat |-> seat, position |-> seq, due |-> DueRespond(now, seat, seq)]}
               ELSE IF Answered(now, settled(now), seq) THEN {}
               ELSE {[seat |-> seat, position |-> seq, due |-> Held]}
  BY JudgeWakeForm
<1>. HIDE DEF settled, counted, taken
<1>. QED BY <1>1, <1>2, <1>3, <1>4, <1>5, <1>6

\* A message reaches whom it reached when it landed, whatever becomes of the leases.
LEMMA RecipientsStay ==
    ASSUME NEW leases, NEW now, NEW n \in Nat, Moves(leases, now, n),
           NEW m, m.seq \in Nat, m.seq < n
    PROVE  Recipients(m, leases) = Recipients(m, now)
<1>1. ASSUME NEW id \in DOMAIN leases
      PROVE  id \in DOMAIN now /\ (Steers(id, leases[id], m) <=> Steers(id, now[id], m))
  <2>1. /\ id \in DOMAIN now /\ now[id].opened = leases[id].opened
        /\ leases[id].phase = "ended" => now[id] = leases[id]
        /\ now[id].phase = "ended" => leases[id].phase = "ended" \/ now[id].until = n
    BY DEF Moves
  <2>. QED BY <2>1 DEF Steers
<1>2. ASSUME NEW id \in DOMAIN now, id \notin DOMAIN leases PROVE ~Steers(id, now[id], m)
  <2>1. now[id].opened = n
    BY <1>2 DEF Moves
  <2>. QED BY <2>1 DEF Steers
<1>3. {i \in DOMAIN leases : Steers(i, leases[i], m)} = {i \in DOMAIN now : Steers(i, now[i], m)}
  BY <1>1, <1>2
<1>. QED BY <1>3 DEF Recipients

\* What is answered for good stays answered.
LEMMA SettledStays ==
    ASSUME NEW leases, NEW now, NEW n, Moves(leases, now, n), NEW seat, NEW seq,
           JudgeWake(leases, seat, seq) = {}
    PROVE  JudgeWake(now, seat, seq) = {}
<1>. DEFINE settled(l) == Settled(l, seat, seq)
<1>1. Answered(leases, settled(leases), seq)
  BY JudgeWakeForm
<1>2. PICK id \in settled(leases) : Answers(id, leases[id], seq)
  BY <1>1 DEF Answered
<1>3. /\ id \in DOMAIN leases /\ id.source = "message" /\ id.seat = seat
      /\ leases[id].phase = "ended" /\ CoversAttempt(leases[id], seq)
  BY <1>2 DEF Taken, SeatLeases, Settled
<1>4. id \in DOMAIN now /\ now[id] = leases[id]
  BY <1>3 DEF Moves
<1>5. id \in Taken(now, seat, seq) /\ id \in settled(now) /\ Answers(id, now[id], seq)
  BY <1>2, <1>3, <1>4 DEF Taken, SeatLeases, Settled
<1>6. Answered(now, Taken(now, seat, seq), seq) /\ Answered(now, settled(now), seq)
  BY <1>5 DEF Answered
<1>. QED BY <1>6, JudgeWakeForm

=============================================================================
