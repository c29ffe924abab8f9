--------------------------- MODULE JournalProofs ---------------------------
(***************************************************************************)
(* Theorems about Journal.tla: for every number of journals, runs, keys    *)
(* and appends, and whatever the storage held at the start.                *)
(***************************************************************************)
EXTENDS Journal, TLAPS

-----------------------------------------------------------------------------
(* The inductive invariant.  Each part is what one kind of state relies on *)
(* about the prefix of the storage it was computed from; the storage only  *)
(* grows, so a part about a prefix can only be disturbed by its own        *)
(* journal's steps.                                                        *)

\* An append computed from the first x positions, as it may land after them.
RequestOK(x, e) ==
    /\ x <= Len(store)
    /\ KeptAfter(store, x, e)

RequestsOK ==
    /\ \A w \in Writer : sent[w].reply = "wire" =>
          RequestOK(sent[w].expected, sent[w].entry)
    /\ \A s \in strays : RequestOK(s.expected, s.entry)

\* The cursor and the read under way stay inside the storage.
ReadsOK ==
    \A w \in Writer :
        /\ target[w] <= Len(store)
        /\ phase[w] \in {"replay", "reading"} => cursor[w] <= target[w]
        /\ cursor[w] <= Len(store)

\* The fence f of a journal that has read the first n positions: the run of
\* the run entry that stands there, and what the journal's own run has met.
FenceAt(s, n, f, own) ==
    /\ \/ f.fence = NoRun /\ \A q \in 1..n : ~IsRun(s, q)
       \/ \E q \in 1..n : Standing(s, q, n) /\ f.fence = s[q].run
    /\ f.fenced <=> MetOwn(s, n, own)
    /\ f.superseded <=> Beaten(s, n, own)

FenceOK == \A w \in Writer : FenceAt(store, cursor[w], fence[w], Own(w))

\* A key in the index names an accepted entry that carries it.
KeysOK ==
    \A w \in Writer : \A k \in Key :
        byKey[w][k] # 0 =>
            /\ byKey[w][k] \in Accepted(store, cursor[w])
            /\ store[byKey[w][k]].key = k

\* The link at the head of the queue is the one being landed, and what it
\* sent is what it asked for.
SentOK ==
    \A w \in Writer :
        /\ phase[w] \in {"reading", "sent"} => queue[w] # <<>>
        /\ phase[w] = "sent" <=> sent[w] # Nothing
        /\ phase[w] = "sent" =>
              /\ sent[w].expected = cursor[w]
              /\ sent[w].entry.kind = Link(w).kind
              /\ sent[w].entry.key = Link(w).key
              /\ sent[w].entry.run = Own(w)
        /\ sent[w].reply = "stored" =>
              /\ cursor[w] + 1 <= Len(store)
              /\ store[cursor[w] + 1] = sent[w].entry
              /\ Kept(store, cursor[w] + 1)

PastOK == past <= Len(store)

IInv ==
    /\ TypeOK
    /\ PastOK /\ RequestsOK /\ ReadsOK /\ FenceOK /\ KeysOK /\ SentOK
    /\ CachesAgree /\ AcknowledgedKept /\ NothingVoid /\ LostOnce

-----------------------------------------------------------------------------
(* Lemmas about prefixes of a storage. *)

\* s and t hold the same first n entries.
SamePrefix(s, t, n) == \A p \in 1..n : s[p] = t[p]

\* What a position decides (the standing run, the key kept, a run met, a run beaten) depends on the entries up to it alone.
LEMMA PrefixDecides ==
    ASSUME NEW s, NEW t, NEW n \in Nat, SamePrefix(s, t, n), NEW own
    PROVE  /\ \A q : Standing(s, q, n) <=> Standing(t, q, n)
           /\ \A e : KeptAfter(s, n, e) <=> KeptAfter(t, n, e)
           /\ MetOwn(s, n, own) <=> MetOwn(t, n, own)
           /\ Beaten(s, n, own) <=> Beaten(t, n, own)
<1>1. \A q : Standing(s, q, n) <=> Standing(t, q, n)
    BY DEF SamePrefix, Standing, IsRun
<1>2. \A e : KeptAfter(s, n, e) <=> KeptAfter(t, n, e)
    BY <1>1 DEF SamePrefix, KeptAfter
<1>3. MetOwn(s, n, own) <=> MetOwn(t, n, own)
    BY DEF SamePrefix, MetOwn, IsRun
<1>4. Beaten(s, n, own) <=> Beaten(t, n, own)
    BY DEF SamePrefix, Beaten, IsRun
<1> QED BY <1>1, <1>2, <1>3, <1>4

\* The accepted entries of a prefix depend on that prefix alone.
LEMMA PrefixAccepts ==
    ASSUME NEW s, NEW t, NEW n \in Nat, SamePrefix(s, t, n)
    PROVE  Accepted(s, n) = Accepted(t, n)
<1> SUFFICES ASSUME NEW p \in 1..n PROVE Kept(s, p) <=> Kept(t, p)
    BY DEF Accepted
<1>1. SamePrefix(s, t, p - 1) /\ p - 1 \in Nat /\ s[p] = t[p]
    BY DEF SamePrefix
<1> QED BY <1>1, PrefixDecides DEF Kept

\* What one more entry does to the record, and to the fence that stands.
LEMMA OneMore ==
    ASSUME NEW s, NEW n \in Nat, NEW own
    PROVE  /\ Accepted(s, n + 1) =
                 Accepted(s, n) \cup (IF Kept(s, n + 1) THEN {n + 1} ELSE {})
           /\ Kept(s, n + 1) <=> KeptAfter(s, n, s[n + 1])
           /\ \A q : Standing(s, q, n + 1) <=>
                 IF IsRun(s, n + 1) THEN q = n + 1 ELSE Standing(s, q, n)
           /\ MetOwn(s, n + 1, own) <=>
                 \/ MetOwn(s, n, own)
                 \/ IsRun(s, n + 1) /\ SameWriter(own, s[n + 1].run)
           /\ Beaten(s, n + 1, own) <=>
                 \/ Beaten(s, n, own)
                 \/ /\ IsRun(s, n + 1) /\ ~SameWriter(own, s[n + 1].run)
                    /\ MetOwn(s, n, own)
<1>1. 1..(n + 1) = (1..n) \cup {n + 1} /\ (n + 1) - 1 = n
    OBVIOUS
<1>2. Accepted(s, n + 1) =
         Accepted(s, n) \cup (IF Kept(s, n + 1) THEN {n + 1} ELSE {})
    BY <1>1 DEF Accepted
<1>3. Kept(s, n + 1) <=> KeptAfter(s, n, s[n + 1])
    BY <1>1 DEF Kept
<1>4. ASSUME NEW q
      PROVE  Standing(s, q, n + 1) <=>
                IF IsRun(s, n + 1) THEN q = n + 1 ELSE Standing(s, q, n)
    <2>1. CASE q \in 1..n
        BY <2>1, <1>1 DEF Standing
    <2>2. CASE q = n + 1
        BY <2>2 DEF Standing
    <2>3. CASE q \notin 1..(n + 1)
        BY <2>3, <1>1 DEF Standing
    <2> QED BY <2>1, <2>2, <2>3, <1>1
<1>5. MetOwn(s, n + 1, own) <=>
         \/ MetOwn(s, n, own)
         \/ IsRun(s, n + 1) /\ SameWriter(own, s[n + 1].run)
    BY <1>1 DEF MetOwn
<1>6. Beaten(s, n + 1, own) <=>
         \/ Beaten(s, n, own)
         \/ /\ IsRun(s, n + 1) /\ ~SameWriter(own, s[n + 1].run)
            /\ MetOwn(s, n, own)
    BY <1>1 DEF Beaten, MetOwn
<1> QED BY <1>2, <1>3, <1>4, <1>5, <1>6

-----------------------------------------------------------------------------
(* Lemmas about the fence (rules.verified.ts, fenceStep and writable). *)

Fences == [fence : Run \cup {NoRun}, fenced : BOOLEAN, superseded : BOOLEAN]

\* A step of the fence gives a fence and two answers.
LEMMA FenceStepType ==
    ASSUME NEW f \in Fences, NEW own, NEW isRun \in BOOLEAN,
           NEW writer \in Run \cup {NoRun}
    PROVE  /\ FenceStep(f, own, isRun, writer).state \in Fences
           /\ FenceStep(f, own, isRun, writer).keep \in BOOLEAN
           /\ FenceStep(f, own, isRun, writer).lost \in BOOLEAN
BY DEF FenceStep, PassFence, PassEntry, SameWriter, Fences

\* The fields of the two steps, free of their case distinctions.
LEMMA PassFenceFields ==
    ASSUME NEW f \in Fences, NEW own, NEW writer
    PROVE  LET passed == PassFence(f, own, writer) IN
           /\ passed.keep
           /\ passed.state.fence = writer
           /\ passed.state.fenced <=> f.fenced \/ SameWriter(own, writer)
           /\ passed.state.superseded <=>
                 f.superseded \/ (f.fenced /\ ~SameWriter(own, writer))
           /\ passed.lost <=>
                 ~f.superseded /\ f.fenced /\ ~SameWriter(own, writer)
<1>1. CASE SameWriter(own, writer)
    BY <1>1 DEF PassFence, Fences
<1>2. CASE ~SameWriter(own, writer)
    BY <1>2 DEF PassFence, Fences
<1> QED BY <1>1, <1>2

\* An entry that is no run's passes the fence without moving it, and is kept unless another run wrote it.
LEMMA PassEntryFields ==
    ASSUME NEW f, NEW writer
    PROVE  LET passed == PassEntry(f, writer) IN
           /\ passed.state = f
           /\ ~passed.lost
           /\ passed.keep <=> \/ f.fence = NoRun
                              \/ writer = NoRun
                              \/ writer = f.fence
<1> DEFINE ok == f.fence = NoRun \/ writer = NoRun \/ writer = f.fence
<1>1. CASE ok
    BY <1>1 DEF PassEntry
<1>2. CASE ~ok
    BY <1>2 DEF PassEntry
<1> QED BY <1>1, <1>2

\* At most one run entry stands at a position.
LEMMA OneStands ==
    ASSUME NEW s, NEW n \in Nat, NEW p \in 1..n, NEW q \in 1..n,
           Standing(s, p, n), Standing(s, q, n)
    PROVE  p = q
BY DEF Standing

\* Past one more entry the fence follows the record: it keeps what the record
\* keeps, and tells its caller on the step that beats the run.
LEMMA FenceFollows ==
    ASSUME NEW s, NEW n \in Nat, NEW own, NEW f \in Fences,
           FenceAt(s, n, f, own),
           s[n + 1].kind # "foreign"
    PROVE  LET e == s[n + 1]
               passed == FenceStep(f, own, e.kind = "run", e.run)
           IN  /\ FenceAt(s, n + 1, passed.state, own)
               /\ passed.keep <=> Kept(s, n + 1)
               /\ passed.lost <=> ~Beaten(s, n, own) /\ Beaten(s, n + 1, own)
<1> DEFINE e == s[n + 1]
           passed == FenceStep(f, own, e.kind = "run", e.run)
<1>1. CASE IsRun(s, n + 1)
    <2>1. passed = PassFence(f, own, e.run)
        BY <1>1 DEF FenceStep, IsRun
    <2>2. Kept(s, n + 1)
        BY <1>1, OneMore DEF KeptAfter, IsRun
    <2>3. n + 1 \in 1..(n + 1) /\ Standing(s, n + 1, n + 1)
        BY <1>1 DEF Standing
    <2>4. /\ MetOwn(s, n + 1, own) <=> MetOwn(s, n, own) \/ SameWriter(own, e.run)
          /\ Beaten(s, n + 1, own) <=>
                Beaten(s, n, own) \/ (~SameWriter(own, e.run) /\ MetOwn(s, n, own))
        BY <1>1, OneMore
    <2>5. /\ passed.keep /\ passed.state.fence = e.run
          /\ passed.state.fenced <=> f.fenced \/ SameWriter(own, e.run)
          /\ passed.state.superseded <=>
                f.superseded \/ (f.fenced /\ ~SameWriter(own, e.run))
          /\ passed.lost <=> ~f.superseded /\ f.fenced /\ ~SameWriter(own, e.run)
        BY <2>1, PassFenceFields
    <2> HIDE DEF passed
    <2>6. FenceAt(s, n + 1, passed.state, own)
        BY <2>3, <2>4, <2>5 DEF FenceAt
    <2>7. passed.lost <=> ~Beaten(s, n, own) /\ Beaten(s, n + 1, own)
        BY <2>4, <2>5 DEF FenceAt
    <2> QED BY <2>2, <2>5, <2>6, <2>7 DEF passed
<1>2. CASE ~IsRun(s, n + 1)
    <2>1. passed = PassEntry(f, e.run)
        BY <1>2 DEF FenceStep, IsRun
    <2>2. /\ passed.state = f /\ ~passed.lost
          /\ passed.keep <=> \/ f.fence = NoRun
                             \/ e.run = NoRun
                             \/ e.run = f.fence
        BY <2>1, PassEntryFields
    <2>3. Beaten(s, n + 1, own) <=> Beaten(s, n, own)
        BY <1>2, OneMore
    <2>4. FenceAt(s, n + 1, f, own)
        BY <1>2, OneMore DEF FenceAt
    <2> HIDE DEF passed
    <2>5. passed.keep <=> KeptAfter(s, n, e)
        <3>1. CASE \A q \in 1..n : ~IsRun(s, q)
            BY <3>1, <1>2, <2>2 DEF KeptAfter, Standing, FenceAt, IsRun
        <3>2. CASE \E q \in 1..n : Standing(s, q, n) /\ f.fence = s[q].run
            BY <3>2, <1>2, <2>2, OneStands DEF KeptAfter, IsRun
        <3> QED BY <3>1, <3>2 DEF FenceAt
    <2> QED BY <2>2, <2>3, <2>4, <2>5, OneMore DEF passed
<1> QED BY <1>1, <1>2

\* What a journal may write, the record keeps.
LEMMA WritableKept ==
    ASSUME NEW s, NEW n \in Nat, NEW own, NEW f, NEW isShut, NEW e,
           FenceAt(s, n, f, own),
           e.kind \in Kind, e.run = own,
           Writable(isShut, f, own, e.kind = "run")
    PROVE  KeptAfter(s, n, e)
<1>1. CASE e.kind = "run"
    BY <1>1 DEF KeptAfter
<1>2. CASE e.kind # "run"
    <2>1. f.fence = NoRun \/ own = NoRun \/ own = f.fence
        BY <1>2 DEF Writable, FenceStep, PassEntry
    <2> QED BY <2>1, <1>2, OneStands DEF FenceAt, KeptAfter, Standing, IsRun, Kind
<1> QED BY <1>1, <1>2

-----------------------------------------------------------------------------
(* What a step does to the parts of the invariant that follow the record.  *)

\* The parts about what the journals have read and answered.
RecordParts ==
    /\ CachesAgree /\ AcknowledgedKept /\ NothingVoid /\ LostOnce
    /\ FenceOK /\ KeysOK /\ PastOK

\* A step that leaves storage and the journals' readings alone keeps what is known of the record.
LEMMA QuietStep ==
    ASSUME IInv,
           UNCHANGED <<store, cursor, cache, byKey, fence, lost, acked, past>>
    PROVE  RecordParts'
BY DEF IInv, RecordParts, CachesAgree, AcknowledgedKept, NothingVoid, LostOnce,
       FenceOK, KeysOK, PastOK

\* An entry appended to storage changes nothing that was decided before it.
LEMMA AppendKeeps ==
    ASSUME NEW s \in Seq(Entry), NEW e \in Entry
    PROVE  /\ Append(s, e) \in Seq(Entry)
           /\ Len(Append(s, e)) = Len(s) + 1
           /\ Append(s, e)[Len(s) + 1] = e
           /\ \A p \in 1..Len(s) : Append(s, e)[p] = s[p]
           /\ \A n \in 0..Len(s) : SamePrefix(s, Append(s, e), n)
           /\ \A n \in 0..Len(s) : Accepted(Append(s, e), n) = Accepted(s, n)
           /\ \A p \in 1..Len(s) : Kept(Append(s, e), p) <=> Kept(s, p)
           /\ Kept(Append(s, e), Len(s) + 1) <=> KeptAfter(s, Len(s), e)
<1> DEFINE t == Append(s, e)
<1>1. /\ t \in Seq(Entry) /\ Len(t) = Len(s) + 1 /\ t[Len(s) + 1] = e
      /\ Len(s) \in Nat
      /\ \A p \in 1..Len(s) : t[p] = s[p]
    OBVIOUS
<1> HIDE DEF t
<1>2. \A n \in 0..Len(s) : n \in Nat /\ SamePrefix(s, t, n)
    BY <1>1 DEF SamePrefix
<1>3. \A n \in 0..Len(s) : Accepted(t, n) = Accepted(s, n)
    BY <1>2, PrefixAccepts
<1>4. ASSUME NEW p \in 1..Len(s) PROVE Kept(t, p) <=> Kept(s, p)
    <2>1. p - 1 \in 0..Len(s) /\ t[p] = s[p]
        BY <1>1
    <2> QED BY <2>1, <1>2, PrefixDecides DEF Kept
<1>5. Kept(t, Len(s) + 1) <=> KeptAfter(s, Len(s), e)
    <2>1. (Len(s) + 1) - 1 = Len(s) /\ Len(s) \in 0..Len(s)
        BY <1>1
    <2>2. KeptAfter(t, Len(s), t[Len(s) + 1]) <=> KeptAfter(s, Len(s), t[Len(s) + 1])
        BY <2>1, <1>2, PrefixDecides
    <2> QED BY <2>1, <2>2, <1>1 DEF Kept
<1> QED BY <1>1, <1>2, <1>3, <1>4, <1>5 DEF t

\* The storage takes one more entry, one that its record keeps.
LEMMA GrowStep ==
    ASSUME IInv, NEW e \in Entry, store' = Append(store, e),
           e.kind = "foreign" \/ KeptAfter(store, Len(store), e),
           UNCHANGED <<cursor, cache, byKey, fence, lost, acked, past>>
    PROVE  RecordParts'
<1>1. /\ store \in Seq(Entry) /\ Len(store) \in Nat
      /\ cursor \in [Writer -> Nat] /\ past \in Nat
      /\ ReadsOK /\ PastOK
    BY DEF IInv, TypeOK
<1>2. \A w \in Writer : cursor[w] \in 0..Len(store)
    BY <1>1 DEF ReadsOK
<1>3. /\ Len(store') = Len(store) + 1 /\ store'[Len(store) + 1] = e
      /\ \A p \in 1..Len(store) : store'[p] = store[p]
      /\ \A n \in 0..Len(store) : SamePrefix(store, store', n)
      /\ \A n \in 0..Len(store) : Accepted(store', n) = Accepted(store, n)
      /\ \A p \in 1..Len(store) : Kept(store', p) <=> Kept(store, p)
      /\ Kept(store', Len(store) + 1) <=> KeptAfter(store, Len(store), e)
    BY <1>1, AppendKeeps
<1>4. CachesAgree'
    BY <1>2, <1>3 DEF IInv, CachesAgree
<1>5. AcknowledgedKept'
    <2>1. ASSUME NEW p \in Accepted(store, Len(store))
          PROVE  p \in 1..Len(store) /\ p \in Accepted(store', Len(store'))
        BY <1>1, <1>3 DEF Accepted
    <2> QED BY <2>1, <1>3 DEF IInv, AcknowledgedKept
<1>6. NothingVoid'
    <2>1. ASSUME NEW p \in (past + 1)..(Len(store) + 1)
          PROVE  store'[p].kind = "foreign" \/ Kept(store', p)
        <3>1. CASE p \in 1..Len(store)
            BY <3>1, <1>1, <1>3 DEF IInv, NothingVoid
        <3>2. CASE p = Len(store) + 1
            BY <3>2, <1>3
        <3> QED BY <3>1, <3>2, <1>1
    <2> QED BY <2>1, <1>3 DEF NothingVoid
<1>7. LostOnce'
    <2>1. \A w \in Writer : Beaten(store', cursor[w], Own(w)) <=>
                            Beaten(store, cursor[w], Own(w))
        BY <1>2, <1>3, PrefixDecides
    <2> QED BY <2>1 DEF IInv, LostOnce
<1>8. FenceOK'
    <2>1. ASSUME NEW w \in Writer
          PROVE  FenceAt(store', cursor[w], fence[w], Own(w))
        <3>1. SamePrefix(store, store', cursor[w]) /\ cursor[w] \in Nat
              /\ FenceAt(store, cursor[w], fence[w], Own(w))
            BY <1>1, <1>2, <1>3 DEF IInv, FenceOK
        <3> QED BY <3>1, PrefixDecides DEF FenceAt, SamePrefix, IsRun
    <2> QED BY <2>1 DEF FenceOK
<1>9. KeysOK'
    <2>1. ASSUME NEW w \in Writer, NEW k \in Key, byKey[w][k] # 0
          PROVE  /\ byKey[w][k] \in Accepted(store', cursor[w])
                 /\ store'[byKey[w][k]].key = k
        <3>1. /\ byKey[w][k] \in Accepted(store, cursor[w])
              /\ store[byKey[w][k]].key = k
            BY <2>1 DEF IInv, KeysOK
        <3>2. byKey[w][k] \in 1..Len(store)
            BY <3>1, <1>1, <1>2 DEF Accepted
        <3> QED BY <3>1, <3>2, <1>2, <1>3
    <2> QED BY <2>1 DEF KeysOK
<1>10. PastOK'
    BY <1>1, <1>3 DEF PastOK
<1> QED BY <1>4, <1>5, <1>6, <1>7, <1>8, <1>9, <1>10 DEF RecordParts

\* What was computed from a prefix still stands when the storage grows.
LEMMA GrowRequests ==
    ASSUME IInv, NEW e \in Entry, store' = Append(store, e),
           NEW x \in Nat, NEW r, RequestOK(x, r)
    PROVE  x <= Len(store') /\ KeptAfter(store', x, r)
<1>1. store \in Seq(Entry) /\ Len(store) \in Nat
    BY DEF IInv, TypeOK
<1>2. x \in 0..Len(store)
    BY <1>1 DEF RequestOK
<1> QED BY <1>1, <1>2, AppendKeeps, PrefixDecides DEF RequestOK

-----------------------------------------------------------------------------
(* What reading one entry does. *)

\* The variables a journal keeps about what it read.
ReadTypes ==
    /\ cursor \in [Writer -> Nat]
    /\ cache \in [Writer -> Seq(Nat)]
    /\ sequence \in [Writer -> 0..LastSeq]
    /\ byKey \in [Writer -> [Key -> Nat]]
    /\ fence \in [Writer -> Fences]
    /\ lost \in [Writer -> Nat]

\* The part of the type invariant that a scan reads.
LEMMA ReadTypesHold == TypeOK => ReadTypes
BY DEF TypeOK, ReadTypes, Fences

\* The elements of a cache that grows by one.
LEMMA ElementsAppend ==
    ASSUME NEW c \in Seq(Nat), NEW x \in Nat
    PROVE  Elements(Append(c, x)) = Elements(c) \cup {x}
<1> DEFINE d == Append(c, x)
<1>1. /\ Len(c) \in Nat /\ DOMAIN c = 1..Len(c) /\ DOMAIN d = 1..(Len(c) + 1)
      /\ d[Len(c) + 1] = x /\ \A i \in DOMAIN c : d[i] = c[i]
    OBVIOUS
<1> HIDE DEF d
<1>2. DOMAIN d = DOMAIN c \cup {Len(c) + 1}
    BY <1>1
<1>3. Elements(d) = Elements(c) \cup {x}
    BY <1>1, <1>2 DEF Elements
<1> QED BY <1>3 DEF d

\* The fields of a stored entry.
LEMMA EntryFields ==
    ASSUME TypeOK, NEW p \in 1..Len(store)
    PROVE  /\ store[p].kind \in Kind \cup {"foreign"}
           /\ store[p].seq \in 1..LastSeq
           /\ store[p].key \in Key \cup {NoKey}
           /\ store[p].run \in Run \cup {NoRun}
<1>1. store[p] \in Entry
    BY DEF TypeOK
<1> QED BY <1>1 DEF Entry, Seqs

\* A foreign entry moves the cursor and nothing else.
LEMMA SkipStep ==
    ASSUME IInv, NEW w \in Writer, cursor[w] + 1 <= Len(store),
           store[cursor[w] + 1].kind = "foreign",
           cursor' = [cursor EXCEPT ![w] = cursor[w] + 1],
           UNCHANGED <<store, cache, sequence, byKey, fence, lost, acked, past>>
    PROVE  RecordParts' /\ ReadTypes'
<1> DEFINE n == cursor[w]
<1>1. /\ n \in Nat /\ cursor \in [Writer -> Nat]
      /\ cursor'[w] = n + 1 /\ \A v \in Writer : v # w => cursor'[v] = cursor[v]
    BY DEF IInv, TypeOK
<1>2. ~IsRun(store, n + 1) /\ ~KeptAfter(store, n, store[n + 1])
    BY DEF IsRun, KeptAfter
<1>3. Accepted(store, n + 1) = Accepted(store, n)
    BY <1>1, <1>2, OneMore
<1>4. CachesAgree'
    BY <1>1, <1>3 DEF IInv, CachesAgree
<1>5. Beaten(store, n + 1, Own(w)) <=> Beaten(store, n, Own(w))
    BY <1>1, <1>2, OneMore
<1>6. LostOnce'
    BY <1>1, <1>5 DEF IInv, LostOnce, Own
<1>7. FenceOK'
    <2>1. FenceAt(store, n, fence[w], Own(w))
        BY DEF IInv, FenceOK
    <2>2. /\ MetOwn(store, n + 1, Own(w)) <=> MetOwn(store, n, Own(w))
          /\ \A q : Standing(store, q, n + 1) <=> Standing(store, q, n)
        BY <1>1, <1>2, OneMore
    <2>3. (\A q \in 1..n : ~IsRun(store, q)) =>
             \A q \in 1..(n + 1) : ~IsRun(store, q)
        BY <1>1, <1>2
    <2>4. FenceAt(store, n + 1, fence[w], Own(w))
        BY <2>1, <2>2, <2>3, <1>1, <1>5 DEF FenceAt
    <2> QED BY <2>4, <1>1 DEF IInv, FenceOK, Own
<1>8. KeysOK'
    BY <1>1, <1>3 DEF IInv, KeysOK
<1>9. AcknowledgedKept' /\ NothingVoid' /\ PastOK'
    BY DEF IInv, AcknowledgedKept, NothingVoid, PastOK
<1>10. ReadTypes'
    BY <1>1, ReadTypesHold DEF IInv, ReadTypes
<1> QED BY <1>4, <1>6, <1>7, <1>8, <1>9, <1>10 DEF RecordParts

\* Any other entry goes through the fence, and into the cache if it is kept.
LEMMA TakeStep ==
    ASSUME IInv, NEW w \in Writer, cursor[w] + 1 <= Len(store),
           store[cursor[w] + 1].kind # "foreign",
           cursor' = [cursor EXCEPT ![w] = cursor[w] + 1],
           Take(w, cursor[w] + 1, store[cursor[w] + 1]),
           UNCHANGED <<store, past>>
    PROVE  /\ (CachesAgree /\ NothingVoid /\ LostOnce /\ FenceOK /\ KeysOK /\ PastOK)'
           /\ ReadTypes'
<1> DEFINE n == cursor[w]
           e == store[n + 1]
           passed == FenceStep(fence[w], Own(w), e.kind = "run", e.run)
<1>1. /\ n \in Nat /\ cursor \in [Writer -> Nat] /\ Len(store) \in Nat
      /\ n + 1 \in 1..Len(store)
      /\ cursor'[w] = n + 1 /\ \A v \in Writer : v # w => cursor'[v] = cursor[v]
    BY DEF IInv, TypeOK
<1>2. fence \in [Writer -> Fences] /\ fence[w] \in Fences
    BY ReadTypesHold DEF IInv, ReadTypes
<1>3. FenceAt(store, n, fence[w], Own(w))
    BY DEF IInv, FenceOK
<1>4. /\ FenceAt(store, n + 1, passed.state, Own(w))
      /\ passed.keep <=> Kept(store, n + 1)
      /\ passed.lost <=> ~Beaten(store, n, Own(w)) /\ Beaten(store, n + 1, Own(w))
    BY <1>1, <1>2, <1>3, FenceFollows
<1>5. /\ e.seq \in 1..LastSeq /\ e.key \in Key \cup {NoKey}
      /\ e.run \in Run \cup {NoRun}
    BY <1>1, EntryFields DEF IInv
<1>6. passed.state \in Fences
    BY <1>2, <1>5, FenceStepType
<1>7. /\ fence' = [fence EXCEPT ![w] = passed.state]
      /\ lost' = [lost EXCEPT ![w] = IF passed.lost THEN @ + 1 ELSE @]
      /\ passed.keep =>
            /\ cache' = [cache EXCEPT ![w] = Append(@, n + 1)]
            /\ sequence' = [sequence EXCEPT ![w] = AdvanceSeq(@, e.seq)]
            /\ byKey' = IF e.key = NoKey THEN byKey
                        ELSE [byKey EXCEPT ![w][e.key] = n + 1]
      /\ ~passed.keep => UNCHANGED <<cache, sequence, byKey>>
    BY DEF Take
<1>8. Accepted(store, n + 1) =
         Accepted(store, n) \cup (IF Kept(store, n + 1) THEN {n + 1} ELSE {})
    BY <1>1, OneMore
<1> HIDE DEF passed
<1>9. CachesAgree'
    <2>1. /\ cache \in [Writer -> Seq(Nat)]
          /\ Elements(cache[w]) = Accepted(store, n)
          /\ \A i, j \in DOMAIN cache[w] : i < j => cache[w][i] < cache[w][j]
        BY DEF IInv, TypeOK, CachesAgree
    <2>2. CASE passed.keep
        <3>1. cache'[w] = Append(cache[w], n + 1)
            BY <2>1, <2>2, <1>7
        <3>2. Elements(cache'[w]) = Elements(cache[w]) \cup {n + 1}
            BY <2>1, <3>1, <1>1, ElementsAppend
        <3>3. \A i \in DOMAIN cache[w] : cache[w][i] \in 1..n
            BY <2>1 DEF Elements, Accepted
        <3>4. ASSUME NEW i \in DOMAIN cache'[w], NEW j \in DOMAIN cache'[w], i < j
              PROVE  cache'[w][i] < cache'[w][j]
            BY <2>1, <3>1, <3>3, <3>4, <1>1
        <3>5. \A v \in Writer : v # w => cache'[v] = cache[v]
            BY <2>1, <2>2, <1>7
        <3> QED BY <2>1, <2>2, <3>2, <3>4, <3>5, <1>1, <1>4, <1>8
                DEF IInv, CachesAgree
    <2>3. CASE ~passed.keep
        BY <2>1, <2>3, <1>1, <1>4, <1>7, <1>8 DEF IInv, CachesAgree
    <2> QED BY <2>2, <2>3
<1>10. LostOnce'
    <2>1. /\ lost \in [Writer -> Nat]
          /\ Beaten(store, n, Own(w)) => Beaten(store, n + 1, Own(w))
        BY <1>1, OneMore DEF IInv, TypeOK
    <2> QED BY <2>1, <1>1, <1>4, <1>7 DEF IInv, LostOnce, Own
<1>11. FenceOK'
    BY <1>1, <1>2, <1>4, <1>7 DEF IInv, FenceOK, Own
<1>12. KeysOK'
    <2>1. byKey \in [Writer -> [Key -> Nat]]
        BY DEF IInv, TypeOK
    <2>2. ASSUME NEW v \in Writer, NEW k \in Key, byKey'[v][k] # 0
          PROVE  /\ byKey'[v][k] \in Accepted(store, cursor'[v])
                 /\ store[byKey'[v][k]].key = k
        <3>1. CASE passed.keep /\ v = w /\ k = e.key
            <4>1. byKey'[v][k] = n + 1
                BY <3>1, <2>1, <1>1, <1>7, JournalAssumption
            <4> QED BY <4>1, <3>1, <1>1, <1>4, <1>8
        <3>2. CASE ~(passed.keep /\ v = w /\ k = e.key)
            <4>1. byKey'[v][k] = byKey[v][k]
                BY <3>2, <2>1, <1>1, <1>5, <1>7
            <4> QED BY <4>1, <2>2, <1>1, <1>8 DEF IInv, KeysOK
        <3> QED BY <3>1, <3>2
    <2> QED BY <2>2 DEF KeysOK
<1>13. NothingVoid' /\ PastOK'
    BY DEF IInv, NothingVoid, PastOK
<1>14. ReadTypes'
    <2>0. ReadTypes
        BY ReadTypesHold DEF IInv
    <2>1. cursor' \in [Writer -> Nat] /\ lost' \in [Writer -> Nat]
        BY <2>0, <1>1, <1>7 DEF ReadTypes
    <2>2. fence' \in [Writer -> Fences]
        BY <1>2, <1>6, <1>7
    <2>3. cache' \in [Writer -> Seq(Nat)]
        <3>1. n + 1 \in Nat /\ cache \in [Writer -> Seq(Nat)]
            BY <2>0, <1>1 DEF ReadTypes
        <3>2. Append(cache[w], n + 1) \in Seq(Nat)
            BY <3>1
        <3> QED BY <3>1, <3>2, <1>7
    <2>4. sequence' \in [Writer -> 0..LastSeq]
        BY <2>0, <1>5, <1>7 DEF ReadTypes, AdvanceSeq
    <2>5. byKey' \in [Writer -> [Key -> Nat]]
        <3>1. n + 1 \in Nat /\ byKey \in [Writer -> [Key -> Nat]]
            BY <2>0, <1>1 DEF ReadTypes
        <3>2. CASE passed.keep /\ e.key # NoKey
            <4>1. e.key \in Key
                BY <3>2, <1>5
            <4>2. byKey' = [byKey EXCEPT ![w] = [byKey[w] EXCEPT ![e.key] = n + 1]]
                BY <3>2, <1>7
            <4>3. [byKey[w] EXCEPT ![e.key] = n + 1] \in [Key -> Nat]
                BY <3>1, <4>1
            <4> HIDE DEF n, e
            <4> QED BY <3>1, <4>2, <4>3
        <3>3. CASE ~(passed.keep /\ e.key # NoKey)
            BY <3>1, <3>3, <1>7
        <3> QED BY <3>2, <3>3
    <2> QED BY <2>1, <2>2, <2>3, <2>4, <2>5 DEF ReadTypes
<1> QED BY <1>9, <1>10, <1>11, <1>12, <1>13, <1>14

-----------------------------------------------------------------------------
(* The invariant holds at the start, and every step preserves it. *)

\* The inductive invariant holds at the start.
LEMMA InitHolds == Init => IInv
<1> SUFFICES ASSUME Init PROVE IInv
    OBVIOUS
<1>1. store \in Seq(Entry)
    <2> DEFINE Old == [kind : Kind \cup {"foreign"}, seq : Seqs,
                       key : Key \cup {NoKey}, run : PastRun \cup {NoRun}]
    <2>1. Old \subseteq Entry
        BY DEF Entry, Run
    <2>2. store \in Seq(Old)
        BY JournalAssumption DEF Init
    <2> HIDE DEF Old
    <2> QED BY <2>1, <2>2
<1>2. TypeOK
    BY <1>1, JournalAssumption DEF Init, TypeOK, Unfenced, Nothing
<1>3. PastOK /\ RequestsOK /\ ReadsOK /\ KeysOK /\ SentOK
    BY <1>1, JournalAssumption
    DEF Init, PastOK, RequestsOK, ReadsOK, KeysOK, SentOK, Nothing
<1>4. FenceOK
    <2>1. ASSUME NEW own PROVE FenceAt(store, 0, Unfenced, own)
        BY DEF FenceAt, Unfenced, MetOwn, Beaten
    <2> QED BY <2>1 DEF Init, FenceOK
<1>5. CachesAgree /\ AcknowledgedKept /\ NothingVoid /\ LostOnce
    BY <1>1 DEF Init, CachesAgree, AcknowledgedKept, NothingVoid, LostOnce,
                Accepted, Elements, Beaten
<1> QED BY <1>2, <1>3, <1>4, <1>5 DEF IInv

\* The links a live journal may pop.
LEMMA PopTypes ==
    ASSUME IInv, NEW w \in Writer, queue[w] # <<>>
    PROVE  /\ Link(w) \in Link_
           /\ Tail(queue[w]) \in Seq(Link_)
           /\ Append(Tail(queue[w]),
                     [op |-> "settle", kind |-> "run", key |-> NoKey]) \in Seq(Link_)
<1>1. queue[w] \in Seq(Link_)
    BY DEF IInv, TypeOK
<1>2. [op |-> "settle", kind |-> "run", key |-> NoKey] \in Link_
    BY DEF Link_, Kind
<1>3. Tail(queue[w]) \in Seq(Link_) /\ Head(queue[w]) \in Link_
    BY <1>1
<1> QED BY <1>2, <1>3 DEF Link

\* A fault spends its budget and nothing else of the types.
LEMMA FaultTypes ==
    ASSUME TypeOK, Fault
    PROVE  asks' \in Nat /\ faults' \in Nat /\ past' \in Nat /\ past' = past
BY JournalAssumption DEF TypeOK, Fault

\* The steps that read nothing new and store nothing keep the invariant.
LEMMA EnvironmentSteps ==
    ASSUME IInv, NEW w \in Writer,
           \/ Start(w) \/ Close(w) \/ ReadFails(w) \/ Refuse(w) \/ Open(w)
           \/ Ready(w)
    PROVE  IInv'
<1>1. CASE Start(w)
    <2>1. TypeOK'
        BY <1>1 DEF Start, IInv, TypeOK, bounds
    <2>2. RecordParts'
        BY <1>1, QuietStep DEF Start, bounds
    <2>3. RequestsOK' /\ ReadsOK' /\ SentOK'
        BY <1>1 DEF Start, IInv, TypeOK, RequestsOK, RequestOK, ReadsOK, SentOK, Link
    <2> QED BY <2>1, <2>2, <2>3 DEF IInv, RecordParts
<1>2. CASE Close(w)
    <2>1. TypeOK'
        BY <1>2, JournalAssumption DEF Close, Fault, IInv, TypeOK, memory
    <2>2. RecordParts'
        BY <1>2, QuietStep DEF Close, Fault, memory
    <2>3. RequestsOK' /\ ReadsOK' /\ SentOK'
        BY <1>2 DEF Close, IInv, memory, RequestsOK, RequestOK, ReadsOK, SentOK, Link
    <2> QED BY <2>1, <2>2, <2>3 DEF IInv, RecordParts
<1>3. CASE ReadFails(w)
    <2>1. TypeOK'
        BY <1>3, PopTypes, FaultTypes
        DEF ReadFails, Done, IInv, TypeOK, memory, bounds
    <2>2. RecordParts'
        BY <1>3, QuietStep DEF ReadFails, Done, Fault, memory, bounds
    <2>3. SentOK'
        BY <1>3 DEF ReadFails, Done, IInv, TypeOK, memory, SentOK, Link
    <2>4. RequestsOK' /\ ReadsOK'
        BY <1>3 DEF ReadFails, Done, IInv, TypeOK, memory, RequestsOK, RequestOK, ReadsOK
    <2> QED BY <2>1, <2>2, <2>3, <2>4 DEF IInv, RecordParts
<1>6. CASE Refuse(w)
    <2>1. TypeOK'
        BY <1>6, PopTypes, JournalAssumption
        DEF Refuse, Done, IInv, TypeOK, memory, bounds
    <2>2. RecordParts'
        BY <1>6, QuietStep DEF Refuse, Done, memory, bounds
    <2>3. SentOK'
        BY <1>6 DEF Refuse, Done, IInv, TypeOK, memory, SentOK, Link
    <2>4. RequestsOK' /\ ReadsOK'
        BY <1>6 DEF Refuse, Done, IInv, TypeOK, memory, RequestsOK, RequestOK, ReadsOK
    <2> QED BY <2>1, <2>2, <2>3, <2>4 DEF IInv, RecordParts
<1>4. CASE Open(w)
    <2>1. TypeOK'
        BY <1>4 DEF Open, IInv, TypeOK, bounds
    <2>2. RecordParts'
        BY <1>4, QuietStep DEF Open, bounds
    <2>3. RequestsOK' /\ ReadsOK' /\ SentOK'
        BY <1>4 DEF Open, IInv, TypeOK, RequestsOK, RequestOK, ReadsOK, SentOK, Link
    <2> QED BY <2>1, <2>2, <2>3 DEF IInv, RecordParts
<1>5. CASE Ready(w)
    <2>1. TypeOK'
        BY <1>5 DEF Ready, IInv, TypeOK, memory, bounds
    <2>2. RecordParts'
        BY <1>5, QuietStep DEF Ready, memory, bounds
    <2>3. RequestsOK' /\ ReadsOK' /\ SentOK'
        BY <1>5 DEF Ready, IInv, TypeOK, memory, RequestsOK, RequestOK, ReadsOK,
                    SentOK, Link
    <2> QED BY <2>1, <2>2, <2>3 DEF IInv, RecordParts
<1> QED BY <1>1, <1>2, <1>3, <1>4, <1>5, <1>6

\* Asking for an append keeps the invariant.
LEMMA AskStep ==
    ASSUME IInv, NEW w \in Writer, NEW kind \in Kind, NEW key \in Key \cup {NoKey},
           Ask(w, kind, key)
    PROVE  IInv'
<1> DEFINE link == [op |-> "append", kind |-> kind, key |-> key]
<1>1. /\ queue' = [queue EXCEPT ![w] = Append(queue[w], link)]
      /\ queue \in [Writer -> Seq(Link_)]
      /\ phase[w] # "dead"
      /\ UNCHANGED <<store, phase, target, cursor, cache, sequence, byKey, fence,
                     lost, closed, sent, strays, acked, faults, past>>
    BY DEF Ask, IInv, TypeOK, memory
<1>2. link \in Link_
    BY DEF Link_
<1>3. /\ queue' \in [Writer -> Seq(Link_)]
      /\ queue[w] # <<>> => Head(queue'[w]) = Head(queue[w])
      /\ queue'[w] # <<>>
      /\ \A v \in Writer : v # w => queue'[v] = queue[v]
    BY <1>1, <1>2
<1>4. asks' \in Nat
    BY DEF Ask, IInv, TypeOK
<1>5. TypeOK'
    BY <1>1, <1>3, <1>4 DEF IInv, TypeOK
<1>6. RecordParts'
    BY <1>1, QuietStep
<1>7. RequestsOK' /\ ReadsOK'
    BY <1>1 DEF IInv, RequestsOK, RequestOK, ReadsOK
<1>8. SentOK'
    BY <1>1, <1>3 DEF IInv, SentOK, Link
<1> QED BY <1>5, <1>6, <1>7, <1>8 DEF IInv, RecordParts

\* Scanning the next stored entry keeps the invariant.
LEMMA ScanStep ==
    ASSUME IInv, NEW w \in Writer, Scan(w)
    PROVE  IInv'
<1> DEFINE p == cursor[w] + 1
<1>1. /\ cursor[w] \in Nat /\ cursor \in [Writer -> Nat]
      /\ p <= target[w] /\ p <= Len(store) /\ p \in 1..Len(store)
      /\ phase[w] \in {"replay", "reading"}
    BY DEF Scan, IInv, TypeOK, ReadsOK
<1>2. /\ cursor' = [cursor EXCEPT ![w] = p]
      /\ UNCHANGED <<store, phase, queue, target, closed, sent, strays, acked,
                     asks, faults, past>>
    <2>1. Scanned(cursor[w], p) = p
        BY <1>1 DEF Scanned
    <2> QED BY <2>1 DEF Scan, bounds
<1>3. RecordParts' /\ ReadTypes'
    <2>1. CASE store[p].kind = "foreign"
        BY <2>1, <1>1, <1>2, SkipStep DEF Scan
    <2>2. CASE store[p].kind # "foreign"
        <3>1. Take(w, p, store[p])
            BY <2>2 DEF Scan
        <3>2. /\ (CachesAgree /\ NothingVoid /\ LostOnce /\ FenceOK /\ KeysOK /\ PastOK)'
              /\ ReadTypes'
            BY <2>2, <3>1, <1>1, <1>2, TakeStep
        <3>3. AcknowledgedKept'
            BY <1>2 DEF IInv, AcknowledgedKept
        <3> QED BY <3>2, <3>3 DEF RecordParts
    <2> QED BY <2>1, <2>2
<1>4. TypeOK'
    BY <1>2, <1>3 DEF IInv, TypeOK, ReadTypes, Fences
<1>5. ReadsOK' /\ RequestsOK'
    BY <1>1, <1>2 DEF IInv, ReadsOK, RequestsOK, RequestOK
<1>6. SentOK'
    <2>1. sent[w] = Nothing /\ phase[w] # "sent" /\ sent[w].reply # "stored"
        BY <1>1 DEF IInv, SentOK, Nothing
    <2>2. \A v \in Writer : v # w => cursor'[v] = cursor[v]
        BY <1>1, <1>2
    <2> QED BY <2>1, <2>2, <1>2 DEF IInv, SentOK, Link, Own
<1> QED BY <1>3, <1>4, <1>5, <1>6 DEF IInv, RecordParts

\* The ends of an append that stores nothing keep the invariant.
LEMMA LandingSteps ==
    ASSUME IInv, NEW w \in Writer,
           \/ Settled(w) \/ LandNothing(w) \/ LandReplay(w) \/ LandSend(w)
    PROVE  IInv'
<1>0. queue[w] # <<>> /\ phase[w] = "reading" /\ cursor[w] = target[w]
    BY DEF Settled, LandNothing, LandReplay, LandSend, Landing, Admitted, ReadDone,
           IInv, SentOK
<1>1. CASE Settled(w)
    <2>1. TypeOK'
        BY <1>0, <1>1, PopTypes DEF Settled, Done, IInv, TypeOK, memory, bounds
    <2>2. RecordParts'
        BY <1>1, QuietStep DEF Settled, Done, memory, bounds
    <2>3. SentOK'
        BY <1>0, <1>1 DEF Settled, Done, IInv, TypeOK, memory, SentOK, Link
    <2>4. RequestsOK' /\ ReadsOK'
        BY <1>1 DEF Settled, Done, IInv, TypeOK, memory, RequestsOK, RequestOK, ReadsOK
    <2> QED BY <2>1, <2>2, <2>3, <2>4 DEF IInv, RecordParts
<1>2. CASE LandNothing(w)
    <2>1. TypeOK'
        BY <1>0, <1>2, PopTypes DEF LandNothing, Done, IInv, TypeOK, memory, bounds
    <2>2. RecordParts'
        BY <1>2, QuietStep DEF LandNothing, Done, memory, bounds
    <2>3. SentOK'
        BY <1>0, <1>2 DEF LandNothing, Done, IInv, TypeOK, memory, SentOK, Link
    <2>4. RequestsOK' /\ ReadsOK'
        BY <1>2 DEF LandNothing, Done, IInv, TypeOK, memory, RequestsOK, RequestOK,
                    ReadsOK
    <2> QED BY <2>1, <2>2, <2>3, <2>4 DEF IInv, RecordParts
<1>3. CASE LandReplay(w)
    <2> DEFINE at == Seen(w)
               ack == [by |-> w, kind |-> Link(w).kind, key |-> Link(w).key, at |-> at]
    <2>1. /\ acked' = acked \cup {ack}
          /\ phase' = [phase EXCEPT ![w] = "idle"]
          /\ queue' = [queue EXCEPT ![w] = Tail(queue[w])]
          /\ UNCHANGED <<store, target, cursor, cache, sequence, byKey, fence,
                         lost, closed, sent, strays, asks, faults, past>>
        BY <1>3 DEF LandReplay, Ack, Done, memory, bounds
    <2>2. Link(w) \in Link_ /\ Tail(queue[w]) \in Seq(Link_)
        BY <1>0, PopTypes
    <2>3. /\ Link(w).key # NoKey /\ Link(w).key \in Key /\ at = byKey[w][Link(w).key]
          /\ at # 0
          /\ store[at].kind = Link(w).kind
          /\ Link(w).kind = "run" => store[at].run = Own(w)
        BY <2>2, <1>3 DEF LandReplay, Verdict, Keyed, Seen, Link_, SameWriter
    <2>4. at \in Accepted(store, cursor[w]) /\ store[at].key = Link(w).key
        BY <2>3 DEF IInv, KeysOK
    <2>5. at \in Accepted(store, Len(store)) /\ at \in Nat
        <3>1. cursor[w] \in Nat /\ cursor[w] <= Len(store) /\ Len(store) \in Nat
            BY DEF IInv, TypeOK, ReadsOK
        <3> QED BY <2>4, <3>1 DEF Accepted
    <2>6. ack \in [by : Writer, kind : Kind, key : Key \cup {NoKey}, at : Nat]
        BY <2>2, <2>5 DEF Link_
    <2> HIDE DEF at
    <2>7. AcknowledgedKept'
        BY <2>1, <2>3, <2>4, <2>5 DEF IInv, AcknowledgedKept, Own
    <2>8. TypeOK'
        BY <2>1, <2>2, <2>6 DEF IInv, TypeOK
    <2>9. SentOK'
        BY <1>0, <2>1 DEF IInv, TypeOK, SentOK, Link
    <2>10. RequestsOK' /\ ReadsOK'
        BY <2>1 DEF IInv, TypeOK, RequestsOK, RequestOK, ReadsOK
    <2>11. (CachesAgree /\ NothingVoid /\ LostOnce /\ FenceOK /\ KeysOK /\ PastOK)'
        BY <2>1 DEF IInv, CachesAgree, NothingVoid, LostOnce, FenceOK, KeysOK, PastOK
    <2> QED BY <2>7, <2>8, <2>9, <2>10, <2>11 DEF IInv
<1>4. CASE LandSend(w)
    <2> DEFINE e == [kind |-> Link(w).kind, seq |-> NextSeq(sequence[w]),
                     key |-> Link(w).key, run |-> Own(w)]
               s == [entry |-> e, expected |-> cursor[w], reply |-> "wire"]
    <2>1. /\ phase' = [phase EXCEPT ![w] = "sent"]
          /\ sent' = [sent EXCEPT ![w] = s]
          /\ Writable(closed[w], fence[w], Own(w), Link(w).kind = "run")
          /\ ~(sequence[w] >= LastSeq)
          /\ UNCHANGED <<store, queue, target, cursor, cache, sequence, byKey, fence,
                         lost, closed, strays, acked, asks, faults, past>>
        BY <1>4 DEF LandSend, Admitted, Full, memory, bounds
    <2>2. Link(w) \in Link_
        BY <1>0, PopTypes
    <2>3. e \in Wanted
        <3>1. NextSeq(sequence[w]) \in Seqs
            BY <2>1, JournalAssumption DEF IInv, TypeOK, NextSeq, Seqs
        <3>2. Own(w) \in Run \cup {NoRun}
            BY DEF Own, Run
        <3> QED BY <2>2, <3>1, <3>2 DEF Wanted, Link_
    <2>4. /\ cursor[w] \in Nat /\ cursor[w] <= Len(store)
          /\ FenceAt(store, cursor[w], fence[w], Own(w))
        BY DEF IInv, TypeOK, ReadsOK, FenceOK
    <2>5. KeptAfter(store, cursor[w], e)
        <3>1. e.kind \in Kind /\ e.run = Own(w) /\ e.kind = Link(w).kind
            BY <2>2 DEF Link_
        <3> HIDE DEF e
        <3> QED BY <3>1, <2>1, <2>4, WritableKept
    <2>6. /\ e.kind = Link(w).kind /\ e.key = Link(w).key /\ e.run = Own(w)
          /\ s.entry = e /\ s.expected = cursor[w] /\ s.reply = "wire" /\ s # Nothing
        BY DEF Nothing
    <2>7. s \in [entry : Wanted, expected : Nat, reply : {"wire", "stored", "moved"}]
        BY <2>3, <2>4
    <2> HIDE DEF e, s
    <2>8. TypeOK'
        BY <2>1, <2>7 DEF IInv, TypeOK
    <2>9. RecordParts'
        BY <2>1, QuietStep
    <2>10. SentOK'
        BY <1>0, <2>1, <2>6 DEF IInv, TypeOK, SentOK, Link, Own
    <2>11. RequestsOK' /\ ReadsOK'
        BY <2>1, <2>4, <2>5, <2>6 DEF IInv, TypeOK, RequestsOK, RequestOK, ReadsOK
    <2> QED BY <2>8, <2>9, <2>10, <2>11 DEF IInv, RecordParts
<1> QED BY <1>1, <1>2, <1>3, <1>4

\* The ends of a conditional write that was sent keep the invariant.
LEMMA SentSteps ==
    ASSUME IInv, NEW w \in Writer,
           \/ Confirm(w) \/ Moved(w) \/ LoseAnswer(w) \/ StoreSent(w)
    PROVE  IInv'
<1>0. /\ phase[w] = "sent" /\ queue[w] # <<>> /\ sent[w] # Nothing
      /\ sent[w] \in [entry : Wanted, expected : Nat,
                      reply : {"wire", "stored", "moved"}]
      /\ sent[w].expected = cursor[w]
      /\ sent[w].entry.kind = Link(w).kind
      /\ sent[w].entry.key = Link(w).key
      /\ sent[w].entry.run = Own(w)
      /\ cursor[w] \in Nat /\ cursor[w] <= Len(store) /\ Len(store) \in Nat
    BY DEF Confirm, Moved, LoseAnswer, StoreSent, IInv, SentOK, TypeOK, ReadsOK
<1>a. /\ Link(w) \in Link_
      /\ Tail(queue[w]) \in Seq(Link_)
      /\ Append(Tail(queue[w]),
                [op |-> "settle", kind |-> "run", key |-> NoKey]) \in Seq(Link_)
    BY <1>0, PopTypes
<1>1. CASE Confirm(w)
    <2> DEFINE p == cursor[w] + 1
               ack == [by |-> w, kind |-> Link(w).kind, key |-> Link(w).key, at |-> p]
    <2>1. /\ sent[w].reply = "stored"
          /\ p <= Len(store) /\ store[p] = sent[w].entry /\ Kept(store, p)
          /\ p \in 1..Len(store) /\ p \in Nat
        BY <1>0, <1>1 DEF Confirm, IInv, SentOK
    <2>2. /\ cursor' = [cursor EXCEPT ![w] = p]
          /\ Take(w, p, store[p])
          /\ acked' = acked \cup {ack}
          /\ phase' = [phase EXCEPT ![w] = "idle"]
          /\ queue' = [queue EXCEPT ![w] = Tail(queue[w])]
          /\ sent' = [sent EXCEPT ![w] = Nothing]
          /\ UNCHANGED <<store, target, closed, strays, asks, faults, past>>
        BY <1>0, <1>1 DEF Confirm, Ack, Done, bounds
    <2>3. /\ (CachesAgree /\ NothingVoid /\ LostOnce /\ FenceOK /\ KeysOK /\ PastOK)'
          /\ ReadTypes'
        <3>1. store[p].kind # "foreign"
            BY <2>1 DEF Kept, KeptAfter
        <3> QED BY <3>1, <2>1, <2>2, TakeStep
    <2>4. AcknowledgedKept'
        <3>1. p \in Accepted(store, Len(store))
            BY <2>1 DEF Accepted
        <3> HIDE DEF p
        <3> QED BY <3>1, <1>0, <2>1, <2>2 DEF IInv, AcknowledgedKept, Own
    <2>5. ack \in [by : Writer, kind : Kind, key : Key \cup {NoKey}, at : Nat]
        BY <1>a, <2>1 DEF Link_
    <2> HIDE DEF p, ack
    <2>6. acked' \subseteq [by : Writer, kind : Kind, key : Key \cup {NoKey}, at : Nat]
        BY <2>2, <2>5 DEF IInv, TypeOK
    <2>7. TypeOK'
        BY <1>a, <2>2, <2>3, <2>6 DEF IInv, TypeOK, ReadTypes, Fences
    <2>8. ReadsOK' /\ RequestsOK'
        BY <2>1, <2>2 DEF IInv, TypeOK, ReadsOK, RequestsOK, RequestOK, Nothing
    <2>9. SentOK'
        <3>1. \A v \in Writer : v # w =>
                 /\ cursor'[v] = cursor[v] /\ phase'[v] = phase[v]
                 /\ queue'[v] = queue[v] /\ sent'[v] = sent[v]
            BY <2>2 DEF IInv, TypeOK
        <3>2. phase'[w] = "idle" /\ sent'[w] = Nothing /\ sent'[w].reply # "stored"
            BY <2>2 DEF IInv, TypeOK, Nothing
        <3> QED BY <3>1, <3>2, <2>2 DEF IInv, SentOK, Link, Own
    <2> QED BY <2>3, <2>4, <2>7, <2>8, <2>9 DEF IInv
<1>2. CASE Moved(w)
    <2>1. TypeOK'
        BY <1>a, <1>2 DEF Moved, DoneInDoubt, IInv, TypeOK, memory, bounds
    <2>2. RecordParts'
        BY <1>2, QuietStep DEF Moved, DoneInDoubt, memory, bounds
    <2>3. SentOK'
        BY <1>2 DEF Moved, DoneInDoubt, IInv, TypeOK, memory, SentOK, Link, Nothing, Own
    <2>4. RequestsOK' /\ ReadsOK'
        BY <1>2 DEF Moved, DoneInDoubt, IInv, TypeOK, memory, RequestsOK, RequestOK,
                    ReadsOK, Nothing
    <2> QED BY <2>1, <2>2, <2>3, <2>4 DEF IInv, RecordParts
<1>3. CASE LoseAnswer(w)
    <2> DEFINE stray == [entry |-> sent[w].entry, expected |-> sent[w].expected]
    <2>1. /\ phase' = [phase EXCEPT ![w] = "idle"]
          /\ queue' = [queue EXCEPT ![w] =
                Append(Tail(queue[w]),
                       [op |-> "settle", kind |-> "run", key |-> NoKey])]
          /\ sent' = [sent EXCEPT ![w] = Nothing]
          /\ UNCHANGED <<store, target, cursor, cache, sequence, byKey, fence, lost,
                         closed, acked>>
          /\ Fault
          /\ \/ strays' = strays
             \/ sent[w].reply = "wire" /\ strays' = strays \cup {stray}
        BY <1>3 DEF LoseAnswer, DoneInDoubt, memory
    <2>2. asks' \in Nat /\ faults' \in Nat /\ past' \in Nat /\ past' = past
        BY <2>1, FaultTypes DEF IInv
    <2>3. stray \in [entry : Wanted, expected : Nat]
        BY <1>0
    <2>4. sent[w].reply = "wire" => RequestOK(stray.expected, stray.entry)
        BY DEF IInv, RequestsOK
    <2> HIDE DEF stray
    <2>5. TypeOK'
        BY <1>a, <2>1, <2>2, <2>3 DEF IInv, TypeOK
    <2>6. RecordParts'
        BY <2>1, <2>2, QuietStep
    <2>7. SentOK'
        BY <2>1 DEF IInv, TypeOK, SentOK, Link, Nothing, Own
    <2>8. RequestsOK' /\ ReadsOK'
        BY <2>1, <2>4 DEF IInv, TypeOK, RequestsOK, RequestOK, ReadsOK, Nothing
    <2> QED BY <2>5, <2>6, <2>7, <2>8 DEF IInv, RecordParts
<1>4. CASE StoreSent(w)
    <2> DEFINE e == sent[w].entry
    <2>1. /\ sent[w].reply = "wire"
          /\ UNCHANGED <<phase, queue, target, cursor, cache, sequence, byKey, fence,
                         lost, closed, strays, acked, asks, faults, past>>
        BY <1>4 DEF StoreSent, memory, bounds
    <2>2. RequestOK(cursor[w], e) /\ e \in Wanted /\ e \in Entry
        BY <1>0, <2>1 DEF IInv, RequestsOK, Wanted, Entry
    <2>3. CASE Len(store) = cursor[w]
        <3>1. /\ store' = Append(store, e)
              /\ sent' = [sent EXCEPT ![w].reply = "stored"]
            BY <1>0, <1>4, <2>3 DEF StoreSent, TakesAt
        <3>2. /\ store \in Seq(Entry) /\ sent \in [Writer -> {Nothing} \cup
                   [entry : Wanted, expected : Nat,
                    reply : {"wire", "stored", "moved"}]]
              /\ cursor \in [Writer -> Nat]
            BY DEF IInv, TypeOK
        <3>3. /\ sent'[w] \in [entry : Wanted, expected : Nat,
                               reply : {"wire", "stored", "moved"}]
              /\ sent'[w].entry = e /\ sent'[w].expected = cursor[w]
              /\ sent'[w].reply = "stored" /\ sent'[w] # Nothing
              /\ \A v \in Writer : v # w => sent'[v] = sent[v]
              /\ sent' \in [Writer -> {Nothing} \cup
                   [entry : Wanted, expected : Nat,
                    reply : {"wire", "stored", "moved"}]]
            BY <1>0, <3>1, <3>2 DEF Nothing
        <3>4. /\ store' \in Seq(Entry) /\ Len(store') = Len(store) + 1
              /\ store'[Len(store) + 1] = e
              /\ \A p \in 1..Len(store) : store'[p] = store[p]
              /\ \A p \in 1..Len(store) : Kept(store', p) <=> Kept(store, p)
              /\ Kept(store', Len(store) + 1)
            BY <2>2, <2>3, <3>1, <3>2, AppendKeeps DEF RequestOK
        <3>5. TypeOK'
            BY <2>1, <3>3, <3>4 DEF IInv, TypeOK
        <3>6. RecordParts'
            BY <2>1, <2>2, <2>3, <3>1, GrowStep DEF RequestOK
        <3>7. RequestsOK'
            <4>1. ASSUME NEW v \in Writer, sent'[v].reply = "wire"
                  PROVE  /\ sent'[v].expected <= Len(store')
                         /\ KeptAfter(store', sent'[v].expected, sent'[v].entry)
                <5>1. v # w /\ sent'[v] = sent[v]
                    BY <3>3, <4>1
                <5>2. RequestOK(sent[v].expected, sent[v].entry)
                    BY <4>1, <5>1 DEF IInv, RequestsOK
                <5>3. sent[v].expected \in Nat
                    BY <3>2, <4>1, <5>1 DEF Nothing
                <5> QED BY <5>1, <5>2, <5>3, <2>2, <3>1, GrowRequests
            <4>2. ASSUME NEW s \in strays'
                  PROVE  s.expected <= Len(store') /\ KeptAfter(store', s.expected, s.entry)
                <5>1. s \in strays /\ s.expected \in Nat
                    BY <2>1 DEF IInv, TypeOK
                <5>2. RequestOK(s.expected, s.entry)
                    BY <5>1 DEF IInv, RequestsOK
                <5> QED BY <5>1, <5>2, <2>2, <3>1, GrowRequests
            <4> QED BY <4>1, <4>2 DEF RequestsOK, RequestOK
        <3>8. ReadsOK'
            BY <1>0, <2>1, <3>4 DEF IInv, TypeOK, ReadsOK
        <3>9. SentOK'
            <4>1. ASSUME NEW v \in Writer, v # w, sent[v].reply = "stored"
                  PROVE  /\ cursor[v] + 1 <= Len(store')
                         /\ store'[cursor[v] + 1] = sent[v].entry
                         /\ Kept(store', cursor[v] + 1)
                <5>1. /\ cursor[v] + 1 <= Len(store)
                      /\ store[cursor[v] + 1] = sent[v].entry
                      /\ Kept(store, cursor[v] + 1)
                      /\ cursor[v] \in Nat
                    BY <4>1, <3>2 DEF IInv, SentOK
                <5>2. cursor[v] + 1 \in 1..Len(store)
                    BY <5>1, <1>0
                <5> QED BY <5>1, <5>2, <1>0, <3>4
            <4>2. /\ store'[cursor[w] + 1] = sent'[w].entry
                  /\ cursor[w] + 1 <= Len(store')
                  /\ Kept(store', cursor[w] + 1)
                BY <1>0, <2>3, <3>3, <3>4
            <4>3. \A v \in Writer :
                     /\ phase'[v] = phase[v] /\ queue'[v] = queue[v]
                     /\ cursor'[v] = cursor[v]
                     /\ Link(v)' = Link(v) /\ Own(v)' = Own(v)
                BY <2>1 DEF Link, Own
            <4> HIDE DEF e
            <4>4. ASSUME NEW v \in Writer, v # w
                  PROVE  /\ phase[v] \in {"reading", "sent"} => queue[v] # <<>>
                         /\ phase[v] = "sent" <=> sent[v] # Nothing
                         /\ phase[v] = "sent" =>
                              /\ sent[v].expected = cursor[v]
                              /\ sent[v].entry.kind = Link(v).kind
                              /\ sent[v].entry.key = Link(v).key
                              /\ sent[v].entry.run = Own(v)
                BY DEF IInv, SentOK
            <4>5. sent'[w].entry.kind = Link(w).kind
                  /\ sent'[w].entry.key = Link(w).key
                  /\ sent'[w].entry.run = Own(w)
                BY <1>0, <3>3 DEF e
            <4>6. ASSUME NEW v \in Writer
                  PROVE  /\ phase[v] \in {"reading", "sent"} => queue[v] # <<>>
                         /\ phase[v] = "sent" <=> sent'[v] # Nothing
                         /\ phase[v] = "sent" =>
                              /\ sent'[v].expected = cursor[v]
                              /\ sent'[v].entry.kind = Link(v).kind
                              /\ sent'[v].entry.key = Link(v).key
                              /\ sent'[v].entry.run = Own(v)
                         /\ sent'[v].reply = "stored" =>
                              /\ cursor[v] + 1 <= Len(store')
                              /\ store'[cursor[v] + 1] = sent'[v].entry
                              /\ Kept(store', cursor[v] + 1)
                <5>1. CASE v = w
                    BY <5>1, <1>0, <3>3, <4>2, <4>5
                <5>2. CASE v # w
                    <6>1. sent'[v] = sent[v]
                        BY <5>2, <3>3
                    <6> QED BY <6>1, <5>2, <4>1, <4>4
                <5> QED BY <5>1, <5>2
            <4> QED BY <4>3, <4>6 DEF SentOK
        <3> QED BY <3>5, <3>6, <3>7, <3>8, <3>9 DEF IInv, RecordParts
    <2>4. CASE Len(store) # cursor[w]
        <3>1. store' = store /\ sent' = [sent EXCEPT ![w].reply = "moved"]
            BY <1>0, <1>4, <2>4 DEF StoreSent, TakesAt
        <3>2. /\ sent'[w] \in [entry : Wanted, expected : Nat,
                               reply : {"wire", "stored", "moved"}]
              /\ sent'[w].entry = e /\ sent'[w].expected = cursor[w]
              /\ sent'[w].reply = "moved" /\ sent'[w] # Nothing
              /\ \A v \in Writer : v # w => sent'[v] = sent[v]
              /\ sent' \in [Writer -> {Nothing} \cup
                   [entry : Wanted, expected : Nat,
                    reply : {"wire", "stored", "moved"}]]
            BY <1>0, <3>1 DEF Nothing, IInv, TypeOK
        <3>3. TypeOK'
            BY <2>1, <3>1, <3>2 DEF IInv, TypeOK
        <3>4. RecordParts'
            BY <2>1, <3>1, QuietStep
        <3>5. RequestsOK' /\ ReadsOK'
            BY <2>1, <3>1, <3>2 DEF IInv, RequestsOK, RequestOK, ReadsOK
        <3>6. SentOK'
            BY <1>0, <2>1, <3>1, <3>2 DEF IInv, SentOK, Link, Own
        <3> QED BY <3>3, <3>4, <3>5, <3>6 DEF IInv, RecordParts
    <2> QED BY <2>3, <2>4
<1> QED BY <1>1, <1>2, <1>3, <1>4

\* A crash keeps the invariant: the journal forgets, storage stays.
LEMMA CrashStep ==
    ASSUME IInv, NEW w \in Writer, Crash(w)
    PROVE  IInv'
<1> DEFINE stray == [entry |-> sent[w].entry, expected |-> sent[w].expected]
<1>1. /\ phase' = [phase EXCEPT ![w] = "dead"]
      /\ queue' = [queue EXCEPT ![w] = <<>>]
      /\ target' = [target EXCEPT ![w] = 0]
      /\ cursor' = [cursor EXCEPT ![w] = 0]
      /\ cache' = [cache EXCEPT ![w] = <<>>]
      /\ sequence' = [sequence EXCEPT ![w] = 0]
      /\ byKey' = [byKey EXCEPT ![w] = [k \in Key |-> 0]]
      /\ fence' = [fence EXCEPT ![w] = Unfenced]
      /\ lost' = [lost EXCEPT ![w] = 0]
      /\ closed' = [closed EXCEPT ![w] = FALSE]
      /\ sent' = [sent EXCEPT ![w] = Nothing]
      /\ UNCHANGED <<store, acked>>
      /\ \/ strays' = strays
         \/ sent[w].reply = "wire" /\ strays' = strays \cup {stray}
      /\ Fault
    BY DEF Crash
<1>2. /\ asks' \in Nat /\ faults' \in Nat /\ past' \in Nat /\ past' = past
    BY <1>1, FaultTypes DEF IInv
<1>3. sent[w].reply = "wire" =>
         /\ stray \in [entry : Wanted, expected : Nat]
         /\ RequestOK(stray.expected, stray.entry)
    BY DEF IInv, TypeOK, RequestsOK, Nothing
<1> HIDE DEF stray
<1>4. /\ ReadTypes /\ sent \in [Writer -> {Nothing} \cup
            [entry : Wanted, expected : Nat, reply : {"wire", "stored", "moved"}]]
      /\ phase \in [Writer -> {"new", "replay", "idle", "reading", "sent", "dead"}]
      /\ queue \in [Writer -> Seq(Link_)] /\ target \in [Writer -> Nat]
    BY ReadTypesHold DEF IInv, TypeOK
<1>5. TypeOK'
    <2>1. /\ cursor' \in [Writer -> Nat] /\ target' \in [Writer -> Nat]
          /\ cache' \in [Writer -> Seq(Nat)] /\ sequence' \in [Writer -> 0..LastSeq]
          /\ lost' \in [Writer -> Nat]
        BY <1>1, <1>4, JournalAssumption DEF ReadTypes
    <2>2. byKey' \in [Writer -> [Key -> Nat]]
        BY <1>1, <1>4 DEF ReadTypes
    <2>3. fence' \in [Writer -> Fences]
        BY <1>1, <1>4 DEF ReadTypes, Fences, Unfenced
    <2>4. /\ phase' \in [Writer -> {"new", "replay", "idle", "reading", "sent", "dead"}]
          /\ queue' \in [Writer -> Seq(Link_)]
          /\ closed' \in [Writer -> BOOLEAN]
          /\ sent' \in [Writer -> {Nothing} \cup
               [entry : Wanted, expected : Nat, reply : {"wire", "stored", "moved"}]]
        BY <1>1, <1>4 DEF IInv, TypeOK
    <2>5. strays' \subseteq [entry : Wanted, expected : Nat]
        BY <1>1, <1>3 DEF IInv, TypeOK
    <2> QED BY <1>1, <1>2, <2>1, <2>2, <2>3, <2>4, <2>5 DEF IInv, TypeOK, Fences
<1>6. RequestsOK' /\ ReadsOK'
    <2>1. ReadsOK'
        BY <1>1, <1>4 DEF IInv, TypeOK, ReadsOK, ReadTypes
    <2>2. RequestsOK'
        BY <1>1, <1>3, <1>4 DEF IInv, RequestsOK, RequestOK, Nothing
    <2> QED BY <2>1, <2>2
<1>7. SentOK'
    <2>1. ASSUME NEW v \in Writer, v # w
          PROVE  /\ phase'[v] = phase[v] /\ queue'[v] = queue[v]
                 /\ sent'[v] = sent[v] /\ cursor'[v] = cursor[v]
        BY <1>1, <1>4, <2>1 DEF ReadTypes
    <2>2. phase'[w] = "dead" /\ sent'[w] = Nothing
        BY <1>1, <1>4
    <2> QED BY <1>1, <2>1, <2>2 DEF IInv, SentOK, Link, Own, Nothing
<1>8. \A v \in Writer : v # w =>
         /\ cursor'[v] = cursor[v] /\ cache'[v] = cache[v] /\ byKey'[v] = byKey[v]
         /\ fence'[v] = fence[v] /\ lost'[v] = lost[v]
    BY <1>1, <1>4 DEF ReadTypes
<1>9. /\ cursor'[w] = 0 /\ cache'[w] = <<>> /\ byKey'[w] = [k \in Key |-> 0]
      /\ fence'[w] = Unfenced /\ lost'[w] = 0
    BY <1>1, <1>4 DEF ReadTypes
<1>10. /\ Accepted(store, 0) = {}
       /\ \A own : FenceAt(store, 0, Unfenced, own) /\ ~Beaten(store, 0, own)
    BY DEF Accepted, FenceAt, Unfenced, MetOwn, Beaten
<1>11. CachesAgree'
    <2>1. ASSUME NEW v \in Writer
          PROVE  /\ Elements(cache'[v]) = Accepted(store, cursor'[v])
                 /\ \A i, j \in DOMAIN cache'[v] : i < j => cache'[v][i] < cache'[v][j]
        <3>1. CASE v = w
            BY <3>1, <1>9, <1>10 DEF Elements
        <3>2. CASE v # w
            BY <3>2, <1>8 DEF IInv, CachesAgree
        <3> QED BY <3>1, <3>2
    <2> QED BY <2>1, <1>1 DEF CachesAgree
<1>12. LostOnce'
    <2>1. ASSUME NEW v \in Writer
          PROVE  lost'[v] = IF Beaten(store, cursor'[v], Own(v)) THEN 1 ELSE 0
        <3>1. CASE v = w
            BY <3>1, <1>9, <1>10
        <3>2. CASE v # w
            BY <3>2, <1>8 DEF IInv, LostOnce
        <3> QED BY <3>1, <3>2
    <2> QED BY <2>1, <1>1 DEF LostOnce, Own
<1>13. FenceOK'
    <2>1. ASSUME NEW v \in Writer
          PROVE  FenceAt(store, cursor'[v], fence'[v], Own(v))
        <3>1. CASE v = w
            BY <3>1, <1>9, <1>10
        <3>2. CASE v # w
            BY <3>2, <1>8 DEF IInv, FenceOK
        <3> QED BY <3>1, <3>2
    <2> QED BY <2>1, <1>1 DEF FenceOK
<1>14. KeysOK'
    BY <1>1, <1>8, <1>9 DEF IInv, KeysOK
<1>15. AcknowledgedKept' /\ NothingVoid' /\ PastOK'
    BY <1>1, <1>2 DEF IInv, AcknowledgedKept, NothingVoid, PastOK
<1> QED BY <1>5, <1>6, <1>7, <1>11, <1>12, <1>13, <1>14, <1>15 DEF IInv

\* The storage grows while no journal moves: a stray append, or another
\* software's entry.
LEMMA GrowAlone ==
    ASSUME IInv, NEW e \in Entry, store' = Append(store, e),
           e.kind = "foreign" \/ KeptAfter(store, Len(store), e),
           UNCHANGED <<local, acked, past>>,
           strays' \subseteq strays, asks' \in Nat, faults' \in Nat
    PROVE  IInv'
<1>1. /\ UNCHANGED <<phase, queue, target, cursor, cache, sequence, byKey, fence,
                     lost, closed, sent, acked, past>>
      /\ store \in Seq(Entry)
    BY DEF local, IInv, TypeOK
<1>2. /\ store' \in Seq(Entry) /\ Len(store') = Len(store) + 1
      /\ Len(store) \in Nat
      /\ \A p \in 1..Len(store) : store'[p] = store[p]
      /\ \A p \in 1..Len(store) : Kept(store', p) <=> Kept(store, p)
    BY <1>1, AppendKeeps
<1>3. TypeOK'
    BY <1>1, <1>2 DEF IInv, TypeOK
<1>4. RecordParts'
    BY <1>1, GrowStep
<1>5. ReadsOK'
    BY <1>1, <1>2 DEF IInv, TypeOK, ReadsOK
<1>6. RequestsOK'
    <2>1. ASSUME NEW v \in Writer, sent[v].reply = "wire"
          PROVE  /\ sent[v].expected <= Len(store')
                 /\ KeptAfter(store', sent[v].expected, sent[v].entry)
        <3>1. RequestOK(sent[v].expected, sent[v].entry)
            BY <2>1 DEF IInv, RequestsOK
        <3>2. sent[v].expected \in Nat
            BY <2>1 DEF IInv, TypeOK, Nothing
        <3> QED BY <3>1, <3>2, GrowRequests
    <2>2. ASSUME NEW s \in strays
          PROVE  s.expected <= Len(store') /\ KeptAfter(store', s.expected, s.entry)
        <3>1. s.expected \in Nat /\ RequestOK(s.expected, s.entry)
            BY DEF IInv, TypeOK, RequestsOK
        <3> QED BY <3>1, GrowRequests
    <2> QED BY <1>1, <2>1, <2>2 DEF RequestsOK, RequestOK
<1>7. SentOK'
    <2>1. ASSUME NEW v \in Writer, sent[v].reply = "stored"
          PROVE  /\ cursor[v] + 1 <= Len(store')
                 /\ store'[cursor[v] + 1] = sent[v].entry
                 /\ Kept(store', cursor[v] + 1)
        <3>1. /\ cursor[v] + 1 <= Len(store) /\ cursor[v] \in Nat
              /\ store[cursor[v] + 1] = sent[v].entry
              /\ Kept(store, cursor[v] + 1)
            BY <2>1 DEF IInv, SentOK, TypeOK
        <3>2. cursor[v] + 1 \in 1..Len(store)
            BY <3>1, <1>2
        <3> QED BY <3>1, <3>2, <1>2
    <2> QED BY <1>1, <2>1 DEF IInv, SentOK, Link, Own
<1> QED BY <1>3, <1>4, <1>5, <1>6, <1>7 DEF IInv, RecordParts

\* A foreign entry or a late write that lands keeps the invariant.
LEMMA StorageSteps ==
    ASSUME IInv, Foreign \/ \E s \in strays : StoreStray(s)
    PROVE  IInv'
<1>1. CASE Foreign
    <2> DEFINE e == [kind |-> "foreign", seq |-> 1, key |-> NoKey, run |-> NoRun]
    <2>1. e \in Entry
        BY JournalAssumption DEF Entry, Seqs
    <2>2. /\ store' = Append(store, e) /\ UNCHANGED <<local, strays, acked>>
          /\ Fault
        BY <1>1 DEF Foreign
    <2>3. asks' \in Nat /\ faults' \in Nat /\ past' = past
        BY <2>2, FaultTypes DEF IInv
    <2> QED BY <2>1, <2>2, <2>3, GrowAlone
<1>2. ASSUME NEW s \in strays, StoreStray(s)
      PROVE  IInv'
    <2>1. /\ s \in [entry : Wanted, expected : Nat]
          /\ RequestOK(s.expected, s.entry)
          /\ asks \in Nat /\ faults \in Nat
        BY DEF IInv, TypeOK, RequestsOK
    <2>2. /\ UNCHANGED <<local, acked, asks, faults, past>>
          /\ strays' \subseteq strays
        BY <1>2 DEF StoreStray, bounds
    <2>3. CASE Len(store) = s.expected
        <3>1. s.entry \in Entry /\ store' = Append(store, s.entry)
            BY <1>2, <2>1, <2>3 DEF StoreStray, TakesAt, Wanted, Entry
        <3>2. KeptAfter(store, Len(store), s.entry)
            BY <2>1, <2>3 DEF RequestOK
        <3> QED BY <2>1, <2>2, <3>1, <3>2, GrowAlone
    <2>4. CASE Len(store) # s.expected
        <3>1. /\ UNCHANGED <<store, phase, queue, target, cursor, cache, sequence,
                             byKey, fence, lost, closed, sent, acked, asks, faults,
                             past>>
            BY <1>2, <2>2, <2>4 DEF StoreStray, TakesAt, local
        <3>2. TypeOK'
            BY <2>2, <3>1 DEF IInv, TypeOK
        <3>3. RecordParts'
            BY <3>1, QuietStep
        <3>4. RequestsOK' /\ ReadsOK' /\ SentOK'
            BY <2>2, <3>1 DEF IInv, RequestsOK, RequestOK, ReadsOK, SentOK, Link
        <3> QED BY <3>2, <3>3, <3>4 DEF IInv, RecordParts
    <2> QED BY <2>3, <2>4
<1> QED BY <1>1, <1>2

\* Every step keeps the inductive invariant.
LEMMA NextPreserves == IInv /\ [Next]_vars => IInv'
<1> SUFFICES ASSUME IInv, [Next]_vars PROVE IInv'
    OBVIOUS
<1>1. ASSUME NEW w \in Writer,
             \/ Start(w) \/ Close(w) \/ ReadFails(w) \/ Refuse(w) \/ Open(w)
             \/ Ready(w)
      PROVE  IInv'
    BY <1>1, EnvironmentSteps
<1>2. ASSUME NEW w \in Writer, Crash(w)
      PROVE  IInv'
    BY <1>2, CrashStep
<1>3. ASSUME NEW w \in Writer, Scan(w)
      PROVE  IInv'
    BY <1>3, ScanStep
<1>4. ASSUME NEW w \in Writer,
             Settled(w) \/ LandNothing(w) \/ LandReplay(w) \/ LandSend(w)
      PROVE  IInv'
    BY <1>4, LandingSteps
<1>5. ASSUME NEW w \in Writer,
             Confirm(w) \/ Moved(w) \/ LoseAnswer(w) \/ StoreSent(w)
      PROVE  IInv'
    BY <1>5, SentSteps
<1>6. ASSUME NEW w \in Writer, NEW kind \in Kind, NEW key \in Key \cup {NoKey},
             Ask(w, kind, key)
      PROVE  IInv'
    BY <1>6, AskStep
<1>7. ASSUME Foreign \/ \E s \in strays : StoreStray(s)
      PROVE  IInv'
    BY <1>7, StorageSteps
<1>8. CASE UNCHANGED vars
    <2>1. UNCHANGED <<store, phase, queue, target, cursor, cache, sequence, byKey,
                      fence, lost, closed, sent, strays, acked, asks, faults, past>>
        BY <1>8 DEF vars, local, bounds
    <2>2. TypeOK'
        BY <2>1 DEF IInv, TypeOK
    <2>3. RecordParts'
        BY <2>1, QuietStep
    <2>4. RequestsOK' /\ ReadsOK' /\ SentOK'
        BY <2>1 DEF IInv, RequestsOK, RequestOK, ReadsOK, SentOK, Link
    <2> QED BY <2>2, <2>3, <2>4 DEF IInv, RecordParts
<1> QED BY <1>1, <1>2, <1>3, <1>4, <1>5, <1>6, <1>7, <1>8 DEF Next, Work

-----------------------------------------------------------------------------
(* The theorems. *)

(* The inductive invariant holds in every reachable state, for every set   *)
(* of journals, runs and keys and whatever history the storage starts with.*)
THEOREM Inductive == Spec => []IInv
<1>1. Init => IInv
    BY InitHolds
<1>2. IInv /\ [Next]_vars => IInv'
    BY NextPreserves
<1> QED BY <1>1, <1>2, PTL DEF Spec

(* Every variable keeps its type: no seq past LAST_SEQ is ever read or     *)
(* given out (rules.verified.ts nextSeq, journal.ts land()).               *)
THEOREM TypeCorrect == Spec => []TypeOK
<1>1. IInv => TypeOK
    BY DEF IInv
<1> QED BY <1>1, Inductive, PTL

(* Two journals that have read the same positions hold the same entries,   *)
(* in storage order, each once (journal.ts read(), take(), took()).        *)
THEOREM ReplicasAgree == Spec => []CachesAgree
<1>1. IInv => CachesAgree
    BY DEF IInv
<1> QED BY <1>1, Inductive, PTL

(* What append() resolved with stays on the record for every reader: no    *)
(* later run, lost confirmation or stray append makes it void.             *)
THEOREM AcknowledgementsHold == Spec => []AcknowledgedKept
<1>1. IInv => AcknowledgedKept
    BY DEF IInv
<1> QED BY <1>1, Inductive, PTL

(* The code never stores an entry that readers skip, so a refused run      *)
(* spends no seq (journal.ts refuse(), land()).                            *)
THEOREM NoEntryWasted == Spec => []NothingVoid
<1>1. IInv => NothingVoid
    BY DEF IInv
<1> QED BY <1>1, Inductive, PTL

(* The caller's lost() hook runs once, exactly when the journal has read   *)
(* its own run entry and then another run's.                               *)
THEOREM LossToldOnce == Spec => []LostOnce
<1>1. IInv => LostOnce
    BY DEF IInv
<1> QED BY <1>1, Inductive, PTL

=============================================================================
