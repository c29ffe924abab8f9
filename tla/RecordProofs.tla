---------------------------- MODULE RecordProofs ----------------------------
(***************************************************************************)
(* Journal.tla implements Record.tla, for every number of journals, runs,  *)
(* keys and appends, and whatever the storage held at the start.           *)
(***************************************************************************)
EXTENDS JournalProofs, FiniteSetTheorems, FunctionTheorems

-----------------------------------------------------------------------------
(* What the record needs beyond IInv: an append in flight is new to the    *)
(* prefix it was computed from, because the journal that sent it knew the  *)
(* last seq and every key of that prefix.                                  *)

\* A journal's last seq is no less than any it accepted.
SequenceOK ==
    \A w \in Writer : \A p \in Accepted(store, cursor[w]) :
        store[p].seq <= sequence[w]

\* A journal's index misses no key it accepted.
IndexOK ==
    \A w \in Writer : \A p \in Accepted(store, cursor[w]) :
        store[p].key # NoKey => byKey[w][store[p].key] # 0

\* The entry e is new to the first x positions of the storage s, and its run
\* not beaten there.
Fresh(s, x, e) ==
    /\ \A p \in Accepted(s, x) :
          /\ s[p].seq < e.seq
          /\ e.key # NoKey => s[p].key # e.key
    /\ ~Beaten(s, x, e.run)

FreshOK ==
    /\ \A w \in Writer : sent[w].reply = "wire" =>
          Fresh(store, sent[w].expected, sent[w].entry)
    /\ \A r \in strays : Fresh(store, r.expected, r.entry)

RInv == IInv /\ SequenceOK /\ IndexOK /\ FreshOK

-----------------------------------------------------------------------------
(* Some run entry stands wherever there is one. *)

\* A set of positions that holds the next of each of its members is empty.
LEMMA NoClimb ==
    ASSUME NEW n \in Nat, NEW T \in SUBSET (1..n),
           1 \in T, \A x \in T : x + 1 \in T
    PROVE  FALSE
<1> DEFINE up == [x \in T |-> x + 1]
<1>1. IsFiniteSet(T)
    <2>1. IsFiniteSet(1..n)
        BY FS_Interval
    <2> QED BY <2>1, FS_Subset
<1>2. up \in [T -> T]
    OBVIOUS
<1>3. \A x, y \in T : up[x] = up[y] => x = y
    OBVIOUS
<1>4. \A x \in T : up[x] # 1
    OBVIOUS
<1> HIDE DEF up
<1>5. up \in Injection(T, T)
    BY <1>2, <1>3, Fun_IsInj
<1>6. up \in Surjection(T, T)
    BY <1>1, <1>5, FS_Injection
<1> QED BY <1>4, <1>6 DEF Surjection

\* A set of positions that is not empty has a last one.
LEMMA LastOne ==
    ASSUME NEW n \in Nat, NEW S \in SUBSET (1..n), S # {}
    PROVE  \E q \in S : \A p \in S : p <= q
<1> DEFINE T == {x \in 1..n : \E y \in S : x <= y}
<1> SUFFICES ASSUME \A q \in S : \E p \in S : p > q PROVE FALSE
    OBVIOUS
<1>1. 1 \in T
    <2>1. PICK y \in S : TRUE
        OBVIOUS
    <2>2. y \in 1..n /\ 1 \in 1..n /\ 1 <= y
        BY <2>1
    <2> QED BY <2>2
<1>2. ASSUME NEW x \in T PROVE x + 1 \in T
    <2>1. PICK y \in S : x <= y
        OBVIOUS
    <2>2. PICK z \in S : z > y
        OBVIOUS
    <2> QED BY <2>1, <2>2
<1> HIDE DEF T
<1> QED BY <1>1, <1>2, NoClimb DEF T

\* Where there is a run entry, one at or after it stands.
LEMMA SomeStands ==
    ASSUME NEW s, NEW n \in Nat, NEW r \in 1..n, IsRun(s, r)
    PROVE  \E q \in r..n : Standing(s, q, n)
<1> DEFINE S == {q \in r..n : IsRun(s, q)}
<1>1. S \in SUBSET (1..n) /\ r \in S
    OBVIOUS
<1> HIDE DEF S
<1>2. PICK q \in S : \A p \in S : p <= q
    BY <1>1, LastOne
<1>3. \A p \in (q + 1)..n : ~IsRun(s, p)
    BY <1>2 DEF S
<1> QED BY <1>2, <1>3 DEF S, Standing

\* The holder of a record is the run whose entry stands, and nobody before the first run entry.
LEMMA HolderStands ==
    ASSUME NEW s, NEW n \in Nat
    PROVE  /\ (\A q \in 1..n : ~IsRun(s, q)) => HolderAt(s, n) = NoRun
           /\ \A q : Standing(s, q, n) => HolderAt(s, n) = s[q].run
<1>1. (\A q \in 1..n : ~IsRun(s, q)) => HolderAt(s, n) = NoRun
    BY DEF HolderAt
<1>2. ASSUME NEW q, Standing(s, q, n)
      PROVE  HolderAt(s, n) = s[q].run
    <2>1. q \in 1..n /\ IsRun(s, q)
        BY <1>2 DEF Standing
    <2> DEFINE h == CHOOSE h \in 1..n : Standing(s, h, n)
    <2>2. h \in 1..n /\ Standing(s, h, n)
        BY <1>2, <2>1
    <2>3. HolderAt(s, n) = s[h].run
        BY <2>1 DEF HolderAt
    <2> HIDE DEF h
    <2>4. h = q
        BY <1>2, <2>1, <2>2, OneStands
    <2> QED BY <2>3, <2>4
<1> QED BY <1>1, <1>2

-----------------------------------------------------------------------------
(* The steps of the journal keep RInv. *)

\* A journal reads one entry, and learns its seq and its key.
LEMMA LearnStep ==
    ASSUME RInv, NEW w \in Writer, cursor[w] + 1 <= Len(store),
           cursor' = [cursor EXCEPT ![w] = cursor[w] + 1],
           IF store[cursor[w] + 1].kind = "foreign"
           THEN UNCHANGED <<sequence, byKey>>
           ELSE Take(w, cursor[w] + 1, store[cursor[w] + 1]),
           store' = store
    PROVE  (SequenceOK /\ IndexOK)'
<1> DEFINE n == cursor[w]
           e == store[n + 1]
           passed == FenceStep(fence[w], Own(w), e.kind = "run", e.run)
<1>1. /\ n \in Nat /\ n + 1 \in 1..Len(store) /\ cursor \in [Writer -> Nat]
      /\ cursor'[w] = n + 1 /\ \A v \in Writer : v # w => cursor'[v] = cursor[v]
      /\ sequence \in [Writer -> 0..LastSeq] /\ byKey \in [Writer -> [Key -> Nat]]
    BY DEF RInv, IInv, TypeOK
<1>2. /\ e.seq \in 1..LastSeq /\ e.key \in Key \cup {NoKey}
    BY <1>1, EntryFields DEF RInv, IInv
<1>3. Accepted(store, n + 1) =
         Accepted(store, n) \cup (IF Kept(store, n + 1) THEN {n + 1} ELSE {})
    BY <1>1, OneMore
<1>4. CASE Kept(store, n + 1)
    <2>1. e.kind # "foreign"
        BY <1>1, <1>4, OneMore DEF KeptAfter
    <2>2. passed.keep
        BY <1>1, <1>4, <2>1, FenceFollows, ReadTypesHold
        DEF RInv, IInv, ReadTypes, FenceOK
    <2>3. /\ sequence' = [sequence EXCEPT ![w] = AdvanceSeq(@, e.seq)]
          /\ byKey' = IF e.key = NoKey THEN byKey
                      ELSE [byKey EXCEPT ![w][e.key] = n + 1]
        BY <2>1, <2>2 DEF Take
    <2>4. /\ sequence'[w] >= sequence[w] /\ sequence'[w] >= e.seq
          /\ \A v \in Writer : v # w => sequence'[v] = sequence[v]
        BY <1>1, <1>2, <2>3, JournalAssumption DEF AdvanceSeq
    <2>5. /\ e.key # NoKey => byKey'[w][e.key] # 0
          /\ \A v \in Writer, k \in Key : byKey[v][k] # 0 => byKey'[v][k] # 0
        BY <1>1, <1>2, <2>3
    <2>6. \A p \in Accepted(store, n) :
             store[p].seq \in Nat /\ store[p].key \in Key \cup {NoKey}
        BY <1>1, EntryFields DEF RInv, IInv, Accepted
    <2> HIDE DEF n, e, passed
    <2>7. SequenceOK'
        <3> SUFFICES ASSUME NEW v \in Writer, NEW p \in Accepted(store, cursor'[v])
                     PROVE  store[p].seq <= sequence'[v]
            BY DEF SequenceOK
        <3>1. CASE v # w
            BY <3>1, <1>1, <2>4 DEF RInv, SequenceOK
        <3>2. CASE v = w /\ p = n + 1
            BY <3>2, <2>4 DEF e
        <3>3. CASE v = w /\ p \in Accepted(store, n)
            <4>1. store[p].seq <= sequence[w] /\ store[p].seq \in Nat
                BY <3>3, <2>6 DEF RInv, SequenceOK, n
            <4> QED BY <4>1, <3>3, <1>1, <1>2, <2>3, <2>4 DEF AdvanceSeq
        <3> QED BY <1>1, <1>3, <3>1, <3>2, <3>3
    <2>8. IndexOK'
        <3> SUFFICES ASSUME NEW v \in Writer, NEW p \in Accepted(store, cursor'[v]),
                            store[p].key # NoKey
                     PROVE  byKey'[v][store[p].key] # 0
            BY DEF IndexOK
        <3>1. CASE v # w
            <4>1. /\ p \in Accepted(store, cursor[v])
                  /\ p \in 1..Len(store)
                BY <3>1, <1>1 DEF RInv, IInv, TypeOK, ReadsOK, Accepted
            <4>2. store[p].key \in Key
                BY <4>1, EntryFields DEF RInv, IInv
            <4> QED BY <4>1, <4>2, <2>5 DEF RInv, IndexOK
        <3>2. CASE v = w /\ p = n + 1
            BY <3>2, <2>5 DEF e
        <3>3. CASE v = w /\ p \in Accepted(store, n)
            BY <3>3, <2>5, <2>6 DEF RInv, IndexOK, n
        <3> QED BY <1>1, <1>3, <3>1, <3>2, <3>3
    <2> QED BY <2>7, <2>8
<1>5. CASE ~Kept(store, n + 1)
    <2>1. UNCHANGED <<sequence, byKey>>
        <3>1. CASE e.kind = "foreign"
            BY <3>1
        <3>2. CASE e.kind # "foreign"
            <4>1. ~passed.keep
                BY <1>1, <1>5, <3>2, FenceFollows, ReadTypesHold
                DEF RInv, IInv, ReadTypes, FenceOK
            <4> QED BY <3>2, <4>1 DEF Take
        <3> QED BY <3>1, <3>2
    <2> QED BY <1>1, <1>3, <1>5, <2>1 DEF RInv, SequenceOK, IndexOK
<1> QED BY <1>4, <1>5

\* Nothing was read, and the storage took at most one more entry.
Grown == store' = store \/ \E e \in Entry : store' = Append(store, e)

\* What storage decided of a prefix stays decided as storage grows.
LEMMA PrefixStays ==
    ASSUME IInv, Grown, NEW x \in 0..Len(store)
    PROVE  /\ Accepted(store', x) = Accepted(store, x)
           /\ \A p \in 1..x : store'[p] = store[p]
           /\ \A own : Beaten(store', x, own) <=> Beaten(store, x, own)
<1>1. store \in Seq(Entry) /\ x \in Nat /\ Len(store) \in Nat
    BY DEF IInv, TypeOK
<1>2. CASE store' = store
    BY <1>2
<1>3. ASSUME NEW e \in Entry, store' = Append(store, e)
      PROVE  /\ Accepted(store', x) = Accepted(store, x)
             /\ \A p \in 1..x : store'[p] = store[p]
             /\ \A own : Beaten(store', x, own) <=> Beaten(store, x, own)
    <2>1. SamePrefix(store, store', x) /\ Accepted(store', x) = Accepted(store, x)
        BY <1>1, <1>3, AppendKeeps
    <2> QED BY <1>1, <2>1, PrefixDecides DEF SamePrefix
<1> QED BY <1>2, <1>3 DEF Grown

\* A step that only lets storage grow keeps the readings' sequence and index.
LEMMA UnreadStep ==
    ASSUME RInv, Grown, UNCHANGED <<cursor, sequence, byKey>>
    PROVE  (SequenceOK /\ IndexOK)'
<1>1. \A w \in Writer : cursor[w] \in 0..Len(store) /\ cursor[w] \in Nat
    BY DEF RInv, IInv, TypeOK, ReadsOK
<1>2. \A w \in Writer :
         /\ Accepted(store', cursor[w]) = Accepted(store, cursor[w])
         /\ \A p \in Accepted(store, cursor[w]) : store'[p] = store[p]
    BY <1>1, PrefixStays DEF RInv, Accepted
<1> QED BY <1>2 DEF RInv, SequenceOK, IndexOK

\* No journal sends anything, and a stray is one, or was on the wire.
LEMMA UnsentStep ==
    ASSUME RInv, Grown,
           \A w \in Writer : sent'[w].reply = "wire" => sent'[w] = sent[w],
           \A r \in strays' : r \in strays \/ \E w \in Writer :
              sent[w].reply = "wire" /\ r.entry = sent[w].entry
                                     /\ r.expected = sent[w].expected
    PROVE  FreshOK'
<1>1. ASSUME NEW x \in Nat, NEW e, x <= Len(store), Fresh(store, x, e)
      PROVE  Fresh(store', x, e)
    <2>1. x \in 0..Len(store)
        BY <1>1 DEF RInv, IInv, TypeOK
    <2> QED BY <1>1, <2>1, PrefixStays DEF RInv, Fresh, Accepted
<1>2. ASSUME NEW w \in Writer, sent[w].reply = "wire"
      PROVE  Fresh(store', sent[w].expected, sent[w].entry)
    <2>1. sent[w].expected \in Nat /\ sent[w].expected <= Len(store)
        BY <1>2 DEF RInv, IInv, TypeOK, Nothing, RequestsOK, RequestOK
    <2> QED BY <1>1, <1>2, <2>1 DEF RInv, FreshOK
<1>3. ASSUME NEW r \in strays
      PROVE  Fresh(store', r.expected, r.entry)
    <2>1. r.expected \in Nat /\ r.expected <= Len(store)
        BY DEF RInv, IInv, TypeOK, RequestsOK, RequestOK
    <2> QED BY <1>1, <2>1 DEF RInv, FreshOK
<1> QED BY <1>2, <1>3 DEF FreshOK

\* What a journal sends is new to the prefix it has read.
LEMMA SendStep ==
    ASSUME RInv, NEW w \in Writer, LandSend(w)
    PROVE  FreshOK'
<1> DEFINE e == [kind |-> Link(w).kind, seq |-> NextSeq(sequence[w]),
                 key |-> Link(w).key, run |-> Own(w)]
<1>1. /\ store' = store /\ strays' = strays
      /\ sent' = [sent EXCEPT ![w] =
                    [entry |-> e, expected |-> cursor[w], reply |-> "wire"]]
      /\ Admitted(w) /\ Verdict(w) = "fresh"
    BY DEF LandSend
<1>2. queue[w] # <<>> /\ Link(w) \in Link_
    BY <1>1, PopTypes DEF Admitted, Landing, RInv, IInv, SentOK
<1>3. /\ Link(w).key \in Key \cup {NoKey} /\ sequence[w] \in Nat
      /\ cursor[w] \in 0..Len(store)
    BY <1>2 DEF Link_, RInv, IInv, TypeOK, ReadsOK
<1>4. Seen(w) = 0
    BY <1>1 DEF Verdict, Keyed
<1>5. ASSUME NEW p \in Accepted(store, cursor[w])
      PROVE  /\ store[p].seq < e.seq
             /\ e.key # NoKey => store[p].key # e.key
    <2>1. store[p].seq \in Nat
        BY <1>3, EntryFields DEF Accepted, RInv, IInv
    <2>2. store[p].seq <= sequence[w]
        BY DEF RInv, SequenceOK
    <2>3. e.key # NoKey => byKey[w][e.key] = 0
        BY <1>4 DEF Seen
    <2> QED BY <1>3, <2>1, <2>2, <2>3 DEF NextSeq, RInv, IndexOK
<1>6. ~Beaten(store, cursor[w], Own(w))
    <2>1. ~fence[w].superseded
        BY <1>1 DEF Admitted, Writable
    <2> QED BY <2>1 DEF RInv, IInv, FenceOK, FenceAt
<1>7. Fresh(store, cursor[w], e)
    BY <1>5, <1>6 DEF Fresh
<1> HIDE DEF e
<1>8. ASSUME NEW v \in Writer, sent'[v].reply = "wire"
      PROVE  Fresh(store, sent'[v].expected, sent'[v].entry)
    <2>1. sent \in [Writer -> {Nothing} \cup [entry : Wanted, expected : Nat,
                                  reply : {"wire", "stored", "moved"}]]
        BY DEF RInv, IInv, TypeOK
    <2>2. CASE v = w
        BY <1>1, <1>7, <2>1, <2>2
    <2>3. CASE v # w
        BY <1>1, <1>8, <2>1, <2>3 DEF RInv, FreshOK
    <2> QED BY <2>2, <2>3
<1> QED BY <1>1, <1>8 DEF RInv, FreshOK

\* A crash keeps the readings: the crashed journal starts with none.
LEMMA CrashFresh ==
    ASSUME RInv, NEW w \in Writer, Crash(w)
    PROVE  (SequenceOK /\ IndexOK /\ FreshOK)'
<1>1. /\ store' = store
      /\ cursor' = [cursor EXCEPT ![w] = 0]
      /\ sequence' = [sequence EXCEPT ![w] = 0]
      /\ byKey' = [byKey EXCEPT ![w] = [k \in Key |-> 0]]
      /\ sent' = [sent EXCEPT ![w] = Nothing]
      /\ \A r \in strays' : r \in strays \/
            (sent[w].reply = "wire" /\ r.entry = sent[w].entry
                                    /\ r.expected = sent[w].expected)
    BY DEF Crash
<1>2. /\ cursor \in [Writer -> Nat] /\ sequence \in [Writer -> 0..LastSeq]
      /\ byKey \in [Writer -> [Key -> Nat]]
      /\ sent \in [Writer -> {Nothing} \cup [entry : Wanted, expected : Nat,
                                reply : {"wire", "stored", "moved"}]]
    BY DEF RInv, IInv, TypeOK
<1>3. Accepted(store, 0) = {}
    BY DEF Accepted
<1>4. (SequenceOK /\ IndexOK)'
    BY <1>1, <1>2, <1>3 DEF RInv, SequenceOK, IndexOK
<1>5. \A v \in Writer : sent'[v].reply = "wire" => sent'[v] = sent[v]
    BY <1>1, <1>2 DEF Nothing
<1>6. FreshOK'
    BY <1>1, <1>5, UnsentStep DEF Grown
<1> QED BY <1>4, <1>6

\* Every step keeps the invariant of the refinement.
LEMMA RNextPreserves == RInv /\ [Next]_vars => RInv'
<1> SUFFICES ASSUME RInv, [Next]_vars PROVE RInv'
    OBVIOUS
<1>1. IInv'
    BY NextPreserves DEF RInv
<1>2. sent \in [Writer -> {Nothing} \cup [entry : Wanted, expected : Nat,
                              reply : {"wire", "stored", "moved"}]]
    BY DEF RInv, IInv, TypeOK
<1>3. ASSUME NEW w \in Writer,
             \/ Start(w) \/ Close(w) \/ ReadFails(w) \/ Refuse(w) \/ Open(w)
             \/ Ready(w) \/ Settled(w) \/ LandNothing(w) \/ LandReplay(w)
             \/ \E kind \in Kind, key \in Key \cup {NoKey} : Ask(w, kind, key)
      PROVE  RInv'
    <2>1. UNCHANGED <<store, cursor, sequence, byKey, sent, strays>>
        BY <1>3 DEF Start, Close, ReadFails, Refuse, Open, Ready, Settled,
                    LandNothing, LandReplay, Ask, memory
    <2> QED BY <1>1, <2>1, UnreadStep, UnsentStep DEF RInv, Grown
<1>4. ASSUME NEW w \in Writer, Moved(w) \/ LoseAnswer(w)
      PROVE  RInv'
    <2>1. UNCHANGED <<store, cursor, sequence, byKey>>
        BY <1>4 DEF Moved, LoseAnswer, memory
    <2>2. /\ sent' = [sent EXCEPT ![w] = Nothing]
          /\ \A r \in strays' : r \in strays \/
                (sent[w].reply = "wire" /\ r.entry = sent[w].entry
                                        /\ r.expected = sent[w].expected)
        BY <1>4 DEF Moved, LoseAnswer
    <2>3. \A v \in Writer : sent'[v].reply = "wire" => sent'[v] = sent[v]
        BY <1>2, <2>2 DEF Nothing
    <2>4. FreshOK'
        BY <2>1, <2>2, <2>3, UnsentStep DEF Grown
    <2> QED BY <1>1, <2>1, <2>4, UnreadStep DEF RInv, Grown
<1>5. ASSUME NEW w \in Writer, LandSend(w)
      PROVE  RInv'
    <2>1. UNCHANGED <<store, cursor, sequence, byKey>>
        BY <1>5 DEF LandSend, memory
    <2> QED BY <1>1, <1>5, <2>1, SendStep, UnreadStep DEF RInv, Grown
<1>6. ASSUME NEW w \in Writer, Scan(w)
      PROVE  RInv'
    <2>1. /\ cursor[w] \in Nat /\ target[w] \in Nat /\ cursor[w] < target[w]
          /\ target[w] <= Len(store) /\ Len(store) \in Nat
        BY <1>6 DEF Scan, RInv, IInv, TypeOK, ReadsOK
    <2>2. /\ cursor[w] + 1 <= Len(store)
          /\ cursor' = [cursor EXCEPT ![w] = cursor[w] + 1]
          /\ UNCHANGED <<store, sent, strays>>
          /\ IF store[cursor[w] + 1].kind = "foreign"
             THEN UNCHANGED <<sequence, byKey>>
             ELSE Take(w, cursor[w] + 1, store[cursor[w] + 1])
        <3>1. Scanned(cursor[w], cursor[w] + 1) = cursor[w] + 1
            BY <2>1 DEF Scanned
        <3>2. cursor[w] + 1 <= Len(store)
            BY <2>1
        <3> QED BY <1>6, <3>1, <3>2 DEF Scan
    <2>3. FreshOK'
        BY <2>2, UnsentStep DEF Grown
    <2> QED BY <1>1, <2>2, <2>3, LearnStep DEF RInv
<1>7. ASSUME NEW w \in Writer, Confirm(w)
      PROVE  RInv'
    <2>1. /\ sent[w].expected = cursor[w] /\ cursor[w] + 1 <= Len(store)
          /\ store[cursor[w] + 1].kind # "foreign"
        <3>1. phase[w] = "sent" /\ sent[w].reply = "stored"
            BY <1>7 DEF Confirm
        <3>2. /\ sent[w].expected = cursor[w] /\ cursor[w] + 1 <= Len(store)
              /\ store[cursor[w] + 1] = sent[w].entry
            BY <3>1 DEF RInv, IInv, SentOK
        <3>3. sent[w].entry.kind # "foreign"
            BY <1>2, <3>1 DEF Nothing, Wanted, Kind
        <3> QED BY <3>2, <3>3
    <2>2. /\ cursor' = [cursor EXCEPT ![w] = cursor[w] + 1]
          /\ Take(w, cursor[w] + 1, store[cursor[w] + 1])
          /\ sent' = [sent EXCEPT ![w] = Nothing]
          /\ UNCHANGED <<store, strays>>
        BY <1>7, <2>1 DEF Confirm
    <2>3. \A v \in Writer : sent'[v].reply = "wire" => sent'[v] = sent[v]
        BY <1>2, <2>2 DEF Nothing
    <2>4. FreshOK'
        BY <2>2, <2>3, UnsentStep DEF Grown
    <2> QED BY <1>1, <2>1, <2>2, <2>4, LearnStep DEF RInv
<1>8. ASSUME NEW w \in Writer, Crash(w)
      PROVE  RInv'
    BY <1>1, <1>8, CrashFresh DEF RInv
<1>9. ASSUME \/ \E w \in Writer : StoreSent(w)
             \/ \E r \in strays : StoreStray(r)
             \/ Foreign
      PROVE  RInv'
    <2>1. UNCHANGED <<cursor, sequence, byKey>> /\ strays' \subseteq strays
        BY <1>9 DEF StoreSent, StoreStray, Foreign, memory, local
    <2>2. Grown
        <3>1. ASSUME NEW w \in Writer, StoreSent(w), store' # store
              PROVE  Grown
            <4>1. sent[w].entry \in Entry
                BY <1>2, <3>1 DEF StoreSent, Nothing, Wanted, Entry
            <4> QED BY <3>1, <4>1 DEF StoreSent, Grown
        <3>2. ASSUME NEW r \in strays, StoreStray(r), store' # store
              PROVE  Grown
            <4>1. r.entry \in Entry
                BY DEF RInv, IInv, TypeOK, Wanted, Entry
            <4> QED BY <3>2, <4>1 DEF StoreStray, Grown
        <3>3. CASE Foreign
            <4>1. [kind |-> "foreign", seq |-> 1, key |-> NoKey, run |-> NoRun] \in Entry
                BY JournalAssumption DEF Entry, Seqs
            <4> QED BY <3>3, <4>1 DEF Foreign, Grown
        <3> QED BY <1>9, <3>1, <3>2, <3>3 DEF Grown
    <2>3. \A v \in Writer : sent'[v].reply = "wire" => sent'[v] = sent[v]
        <3>1. ASSUME NEW w \in Writer, StoreSent(w)
              PROVE  \A v \in Writer : sent'[v].reply = "wire" => sent'[v] = sent[v]
            BY <1>2, <3>1 DEF StoreSent, Nothing
        <3> QED BY <1>9, <3>1 DEF StoreStray, Foreign, local
    <2>4. FreshOK'
        BY <2>1, <2>2, <2>3, UnsentStep
    <2> QED BY <1>1, <2>1, <2>2, <2>4, UnreadStep DEF RInv
<1>10. CASE UNCHANGED vars
    <2>1. UNCHANGED <<store, cursor, sequence, byKey, sent, strays>>
        BY <1>10 DEF vars, local
    <2> QED BY <1>1, <2>1, UnreadStep, UnsentStep DEF RInv, Grown
<1> QED BY <1>3, <1>4, <1>5, <1>6, <1>7, <1>8, <1>9, <1>10 DEF Next, Work

-----------------------------------------------------------------------------
(* Every step of the journal is a step of the record, or leaves it alone. *)

Record_ == [p \in Accepted(store, Len(store)) |-> store[p]]
Views == [w \in Writer |-> Elements(cache[w])]

\* A step that leaves storage and caches alone is a stutter of the record.
LEMMA StillRefines ==
    ASSUME UNCHANGED <<store, cache>>
    PROVE  UNCHANGED R!recordVars
BY DEF R!recordVars, Accepted, Kept, KeptAfter, Standing, IsRun, HolderAt, Elements

\* A journal that has read further has learned more of the record.
LEMMA ReadRefines ==
    ASSUME IInv, CachesAgree', NEW w \in Writer, store' = store, NEW c \in Nat,
           cursor' = [cursor EXCEPT ![w] = c], cursor[w] <= c, c <= Len(store)
    PROVE  R!Learn(w)
<1> DEFINE seen == Accepted(store, c)
<1>1. /\ cursor \in [Writer -> Nat] /\ Len(store) \in Nat
      /\ cursor'[w] = c /\ \A v \in Writer : v # w => cursor'[v] = cursor[v]
    BY DEF IInv, TypeOK
<1>2. /\ Views = [v \in Writer |-> Accepted(store, cursor[v])]
      /\ Views' = [v \in Writer |-> Accepted(store, cursor'[v])]
    BY DEF IInv, CachesAgree, Views
<1>3. Views' = [Views EXCEPT ![w] = seen]
    BY <1>1, <1>2
<1>4. /\ seen \subseteq Accepted(store, Len(store))
      /\ Views[w] \subseteq seen
      /\ \A p \in seen, q \in Accepted(store, Len(store)) : q < p => q \in seen
    BY <1>1, <1>2 DEF Accepted
<1>5. Record_' = Record_ /\ HolderAt(store, Len(store))' = HolderAt(store, Len(store))
    BY DEF Record_, Accepted, Kept, KeptAfter, Standing, IsRun, HolderAt
<1>6. DOMAIN Record_ = Accepted(store, Len(store))
    BY DEF Record_
<1> HIDE DEF seen
<1> QED BY <1>3, <1>4, <1>5, <1>6 DEF R!Learn, Record_, Views

\* A journal whose process ends forgets.
LEMMA CrashRefines ==
    ASSUME IInv, NEW w \in Writer, Crash(w)
    PROVE  R!Forget(w)
<1>1. /\ cache \in [Writer -> Seq(Nat)] /\ store' = store
      /\ cache' = [cache EXCEPT ![w] = <<>>]
    BY DEF Crash, IInv, TypeOK
<1>2. Elements(<<>>) = {}
    BY DEF Elements
<1>3. Views' = [Views EXCEPT ![w] = {}]
    BY <1>1, <1>2 DEF Views
<1>4. Record_' = Record_ /\ HolderAt(store, Len(store))' = HolderAt(store, Len(store))
    BY <1>1 DEF Record_, Accepted, Kept, KeptAfter, Standing, IsRun, HolderAt
<1> QED BY <1>3, <1>4 DEF R!Forget, Record_, Views

\* The holder after one more entry: its run if it is a run entry, else the
\* one that stood before.
LEMMA HolderMoves ==
    ASSUME NEW s, NEW n \in Nat
    PROVE  HolderAt(s, n + 1) =
              IF IsRun(s, n + 1) THEN s[n + 1].run ELSE HolderAt(s, n)
<1>1. CASE IsRun(s, n + 1)
    <2>1. Standing(s, n + 1, n + 1)
        BY <1>1 DEF Standing
    <2> QED BY <1>1, <2>1, HolderStands
<1>2. CASE ~IsRun(s, n + 1)
    <2>1. CASE \A q \in 1..n : ~IsRun(s, q)
        <3>1. \A q \in 1..(n + 1) : ~IsRun(s, q)
            BY <1>2, <2>1
        <3> QED BY <1>2, <2>1, <3>1, HolderStands
    <2>2. ASSUME NEW r \in 1..n, IsRun(s, r)
          PROVE  HolderAt(s, n + 1) = HolderAt(s, n)
        <3>1. PICK q \in r..n : Standing(s, q, n)
            BY <2>2, SomeStands
        <3>2. Standing(s, q, n + 1)
            BY <1>2, <3>1, OneMore
        <3> QED BY <3>1, <3>2, HolderStands
    <2> QED BY <1>2, <2>1, <2>2
<1> QED BY <1>1, <1>2

\* A run that is not beaten and has a run entry holds the record.
LEMMA UnbeatenHolds ==
    ASSUME NEW s, NEW n \in Nat, NEW own, own # NoRun, ~Beaten(s, n, own),
           NEW p \in 1..n, IsRun(s, p), s[p].run = own
    PROVE  HolderAt(s, n) = own
<1>1. PICK q \in p..n : Standing(s, q, n)
    BY SomeStands
<1>2. q \in 1..n /\ IsRun(s, q) /\ (q = p \/ p < q)
    BY <1>1 DEF Standing
<1>3. s[q].run = own
    BY <1>2 DEF Beaten, SameWriter
<1> QED BY <1>1, <1>3, HolderStands

\* The holder depends on the prefix alone.
LEMMA HolderPrefix ==
    ASSUME NEW s, NEW t, NEW n \in Nat, SamePrefix(s, t, n)
    PROVE  HolderAt(s, n) = HolderAt(t, n)
<1>1. CASE \A q \in 1..n : ~IsRun(s, q)
    <2>1. \A q \in 1..n : ~IsRun(t, q)
        BY <1>1 DEF SamePrefix, IsRun
    <2> QED BY <1>1, <2>1, HolderStands
<1>2. ASSUME NEW r \in 1..n, IsRun(s, r)
      PROVE  HolderAt(s, n) = HolderAt(t, n)
    <2>1. PICK q \in r..n : Standing(s, q, n)
        BY <1>2, SomeStands
    <2>2. Standing(t, q, n) /\ s[q] = t[q]
        BY <2>1, PrefixDecides DEF SamePrefix, Standing
    <2> QED BY <2>1, <2>2, HolderStands
<1> QED BY <1>1, <1>2

\* A new entry is written by the holder or for no run, or takes the record
\* over; another software's entry is no part of the record.
LEMMA GrowRefines ==
    ASSUME IInv, NEW e \in Entry, store' = Append(store, e), cache' = cache,
           \/ e.kind = "foreign"
           \/ KeptAfter(store, Len(store), e) /\ Fresh(store, Len(store), e)
    PROVE  R!RecordNext \/ UNCHANGED R!recordVars
<1> DEFINE n == Len(store)
           acc == Accepted(store, n)
           holder == HolderAt(store, n)
<1>1. /\ store \in Seq(Entry) /\ n \in Nat /\ n + 1 \notin acc
      /\ Len(store') = n + 1 /\ store'[n + 1] = e
      /\ \A p \in acc : store'[p] = store[p]
      /\ Accepted(store', n) = acc /\ SamePrefix(store, store', n)
      /\ Kept(store', n + 1) <=> KeptAfter(store, n, e)
    <2>1. store \in Seq(Entry) /\ n \in Nat /\ n \in 0..n /\ acc \subseteq 1..n
        BY DEF IInv, TypeOK, Accepted
    <2>2. n + 1 \notin 1..n
        BY <2>1
    <2> HIDE DEF n, acc
    <2> QED BY <2>1, <2>2, AppendKeeps DEF n, acc
<1>2. Accepted(store', n + 1) =
         acc \cup (IF KeptAfter(store, n, e) THEN {n + 1} ELSE {})
    BY <1>1, OneMore
<1>3. HolderAt(store', n + 1) = IF e.kind = "run" THEN e.run ELSE holder
    <2>1. HolderAt(store', n) = holder
        BY <1>1, HolderPrefix
    <2> QED BY <1>1, <2>1, HolderMoves DEF IsRun
<1>4. Views' = Views
    BY DEF Views, Elements
<1>5. Record_' = [p \in Accepted(store', n + 1) |-> store'[p]]
    BY <1>1 DEF Record_
<1>6. HolderAt(store, Len(store))' = HolderAt(store', n + 1)
    BY <1>1 DEF HolderAt, Standing, IsRun
<1>7. CASE e.kind = "foreign"
    <2>1. Accepted(store', n + 1) = acc
        BY <1>2, <1>7 DEF KeptAfter
    <2>2. Record_' = Record_
        BY <1>1, <1>5, <2>1 DEF Record_
    <2>3. HolderAt(store, Len(store))' = holder
        BY <1>3, <1>6, <1>7
    <2> QED BY <1>4, <2>2, <2>3 DEF R!recordVars, Record_, Views
<1>8. CASE KeptAfter(store, n, e) /\ Fresh(store, n, e)
    <2>1. Accepted(store', n + 1) = acc \cup {n + 1}
        BY <1>2, <1>8
    <2>2. Record_' = [p \in acc \cup {n + 1} |-> IF p = n + 1 THEN e ELSE Record_[p]]
        BY <1>1, <1>5, <2>1 DEF Record_
    <2>3. DOMAIN Record_ = acc /\ \A p \in acc : Record_[p] = store[p]
        BY DEF Record_
    <2>4. \A p \in acc : /\ p < n + 1
                         /\ store[p].seq < e.seq
                         /\ e.key # NoKey => store[p].key # e.key
        BY <1>1, <1>8 DEF Fresh, Accepted
    <2>5. n + 1 \in (DOMAIN Record_') \ DOMAIN Record_ /\ Record_'[n + 1] = e
        BY <1>1, <2>2, <2>3
    <2> HIDE DEF n, acc, holder
    <2> DEFINE new == Record_'[n + 1]
    <2>6. R!Extends(n + 1, new)
        <3>1. n + 1 \in Nat
            BY <1>1
        <3>2. Record_' = [p \in DOMAIN Record_ \cup {n + 1} |->
                             IF p = n + 1 THEN new ELSE Record_[p]]
            BY <2>2, <2>3, <2>5
        <3>3. \A p \in DOMAIN Record_ :
                 /\ p < n + 1
                 /\ Record_[p].seq < new.seq
                 /\ new.key # NoKey => Record_[p].key # new.key
            BY <2>3, <2>4, <2>5
        <3> QED BY <3>1, <3>2, <3>3 DEF R!Extends, Record_
    <2>7. CASE e.kind # "run"
        <3>1. ASSUME holder # NoRun PROVE e.run \in {holder, NoRun}
            <4>1. PICK r \in 1..n : IsRun(store, r)
                BY <3>1, <1>1, HolderStands DEF holder, n
            <4>2. PICK q \in r..n : Standing(store, q, n)
                BY <4>1, <1>1, SomeStands
            <4>3. holder = store[q].run /\ q \in 1..n
                BY <4>2, <1>1, HolderStands DEF holder, n, Standing
            <4> QED BY <1>8, <2>7, <3>1, <4>2, <4>3 DEF KeptAfter
        <3>2. R!Write(n + 1, new)
            BY <2>5, <2>6, <2>7, <3>1, <1>3, <1>4, <1>6
            DEF R!Write, Views, holder, n
        <3>3. \E place \in (DOMAIN Record_') \ DOMAIN Record_ :
                 R!Write(place, Record_'[place])
            BY <2>5, <3>2 DEF R!Write, R!Extends
        <3> QED BY <3>3 DEF R!RecordNext, Record_
    <2>8. CASE e.kind = "run"
        <3>1. \/ e.run \in {holder, NoRun}
              \/ \A p \in acc : ~(store[p].kind = "run" /\ store[p].run = e.run)
            <4> SUFFICES ASSUME e.run # NoRun, NEW p \in acc,
                                store[p].kind = "run", store[p].run = e.run
                         PROVE  holder = e.run
                OBVIOUS
            <4>1. p \in 1..n /\ IsRun(store, p)
                BY DEF acc, Accepted, IsRun
            <4> QED BY <1>1, <1>8, <4>1, UnbeatenHolds DEF Fresh, holder
        <3>2. R!TakeOver(n + 1, new)
            BY <2>3, <2>5, <2>6, <2>8, <3>1, <1>3, <1>4, <1>6
            DEF R!TakeOver, Views, Record_, holder, n
        <3>3. \E place \in (DOMAIN Record_') \ DOMAIN Record_ :
                 R!TakeOver(place, Record_'[place])
            BY <2>5, <3>2 DEF R!TakeOver, R!Extends
        <3> QED BY <3>3 DEF R!RecordNext, Record_
    <2> QED BY <2>7, <2>8
<1> QED BY <1>7, <1>8

\* The journals start as the record starts.
LEMMA InitRefines == Init => RInv /\ R!RecordInit
<1> SUFFICES ASSUME Init PROVE RInv /\ R!RecordInit
    OBVIOUS
<1>1. IInv
    BY InitHolds
<1>2. Accepted(store, 0) = {} /\ Elements(<<>>) = {}
    BY DEF Accepted, Elements
<1>3. SequenceOK /\ IndexOK /\ FreshOK
    BY <1>2 DEF Init, SequenceOK, IndexOK, FreshOK, Nothing
<1>4. Accepted(store, Len(store)) \subseteq Nat
    BY <1>1 DEF IInv, TypeOK, Accepted
<1>5. Views = [w \in Writer |-> {}]
    BY <1>2 DEF Init, Views
<1> QED BY <1>1, <1>3, <1>4, <1>5 DEF RInv, R!RecordInit, Views

\* Every step of the journals is a step of the record or a stutter.
LEMMA StepRefines ==
    RInv /\ RInv' /\ [Next]_vars => [R!RecordNext]_(R!recordVars)
<1> SUFFICES ASSUME RInv, RInv', [Next]_vars
             PROVE  R!RecordNext \/ UNCHANGED R!recordVars
    OBVIOUS
<1>1. IInv /\ CachesAgree' /\ TypeOK
    BY DEF RInv, IInv
<1>2. ASSUME NEW w \in Writer,
             \/ Start(w) \/ Close(w) \/ ReadFails(w) \/ Refuse(w) \/ Open(w)
             \/ Ready(w) \/ Settled(w) \/ LandNothing(w) \/ LandReplay(w)
             \/ LandSend(w) \/ Moved(w) \/ LoseAnswer(w)
             \/ \E kind \in Kind, key \in Key \cup {NoKey} : Ask(w, kind, key)
      PROVE  UNCHANGED R!recordVars
    <2>1. UNCHANGED <<store, cache>>
        BY <1>2 DEF Start, Close, ReadFails, Refuse, Open, Ready, Settled,
                    LandNothing, LandReplay, LandSend, Moved, LoseAnswer, Ask, memory
    <2> QED BY <2>1, StillRefines
<1>3. ASSUME NEW w \in Writer, Scan(w) \/ Confirm(w)
      PROVE  R!RecordNext
    <2>1. /\ store' = store /\ cursor[w] \in Nat
          /\ cursor[w] + 1 <= Len(store)
          /\ cursor' = [cursor EXCEPT ![w] = cursor[w] + 1]
        <3>1. /\ cursor[w] \in Nat /\ target[w] \in Nat /\ Len(store) \in Nat
              /\ target[w] <= Len(store)
            BY <1>1 DEF IInv, TypeOK, ReadsOK
        <3>2. CASE Scan(w)
            <4>1. Scanned(cursor[w], cursor[w] + 1) = cursor[w] + 1
                BY <3>1 DEF Scanned
            <4>2. cursor[w] + 1 <= Len(store)
                BY <3>1, <3>2 DEF Scan
            <4> QED BY <3>1, <3>2, <4>1, <4>2 DEF Scan
        <3>3. CASE Confirm(w)
            BY <1>1, <3>1, <3>3 DEF Confirm, IInv, SentOK
        <3> QED BY <1>3, <3>2, <3>3
    <2>2. R!Learn(w)
        <3>1. cursor[w] + 1 \in Nat /\ cursor[w] <= cursor[w] + 1
            BY <2>1
        <3> QED BY <1>1, <2>1, <3>1, ReadRefines
    <2> QED BY <2>2 DEF R!RecordNext
<1>4. ASSUME NEW w \in Writer, Crash(w)
      PROVE  R!RecordNext
    BY <1>1, <1>4, CrashRefines DEF R!RecordNext
<1>5. ASSUME NEW w \in Writer, StoreSent(w)
      PROVE  R!RecordNext \/ UNCHANGED R!recordVars
    <2>1. cache' = cache /\ sent[w].reply = "wire"
        BY <1>5 DEF StoreSent, memory
    <2>2. sent[w].entry \in Entry
        BY <1>1, <2>1 DEF TypeOK, Nothing, Wanted, Entry
    <2>3. /\ KeptAfter(store, sent[w].expected, sent[w].entry)
          /\ Fresh(store, sent[w].expected, sent[w].entry)
        BY <2>1 DEF RInv, IInv, RequestsOK, RequestOK, FreshOK
    <2>4. CASE Len(store) = sent[w].expected
        <3>1. store' = Append(store, sent[w].entry)
            BY <1>5, <2>4 DEF StoreSent, TakesAt
        <3> QED BY <1>1, <2>1, <2>2, <2>3, <2>4, <3>1, GrowRefines
    <2>5. CASE Len(store) # sent[w].expected
        BY <1>5, <2>1, <2>5, StillRefines DEF StoreSent, TakesAt
    <2> QED BY <2>4, <2>5
<1>6. ASSUME NEW r \in strays, StoreStray(r)
      PROVE  R!RecordNext \/ UNCHANGED R!recordVars
    <2>1. cache' = cache
        BY <1>6 DEF StoreStray, local
    <2>2. r.entry \in Entry
        BY <1>1 DEF TypeOK, Wanted, Entry
    <2>3. KeptAfter(store, r.expected, r.entry) /\ Fresh(store, r.expected, r.entry)
        BY DEF RInv, IInv, RequestsOK, RequestOK, FreshOK
    <2>4. CASE Len(store) = r.expected
        <3>1. store' = Append(store, r.entry)
            BY <1>6, <2>4 DEF StoreStray, TakesAt
        <3> QED BY <1>1, <2>1, <2>2, <2>3, <2>4, <3>1, GrowRefines
    <2>5. CASE Len(store) # r.expected
        BY <1>6, <2>1, <2>5, StillRefines DEF StoreStray, TakesAt
    <2> QED BY <2>4, <2>5
<1>7. CASE Foreign
    <2> DEFINE e == [kind |-> "foreign", seq |-> 1, key |-> NoKey, run |-> NoRun]
    <2>1. e \in Entry
        BY JournalAssumption DEF Entry, Seqs
    <2>2. store' = Append(store, e) /\ cache' = cache /\ e.kind = "foreign"
        BY <1>7 DEF Foreign, local
    <2> QED BY <1>1, <2>1, <2>2, GrowRefines
<1>8. CASE UNCHANGED vars
    BY <1>8, StillRefines DEF vars, local
<1> QED BY <1>2, <1>3, <1>4, <1>5, <1>6, <1>7, <1>8 DEF Next, Work

-----------------------------------------------------------------------------
(* The journals over one storage are one record: seqs only rise, a key     *)
(* names one entry, a run that another has fenced never writes again, and  *)
(* every reader holds a gapless prefix (journal.ts land(), take(); storage *)
(* append()).                                                              *)
THEOREM RecordImplemented == Spec => ImplementsRecord
<1>1. Init => RInv /\ R!RecordInit
    BY InitRefines
<1>2. RInv /\ [Next]_vars => RInv'
    BY RNextPreserves
<1>3. RInv /\ RInv' /\ [Next]_vars => [R!RecordNext]_(R!recordVars)
    BY StepRefines
<1> QED BY <1>1, <1>2, <1>3, PTL DEF Spec, ImplementsRecord, R!RecordSpec

=============================================================================
