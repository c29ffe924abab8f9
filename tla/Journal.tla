------------------------------ MODULE Journal ------------------------------
(***************************************************************************)
(* The journal (packages/journal/src): several Journal objects, in one or  *)
(* many processes, over one named append-only storage.                     *)
(*                                                                         *)
(* A Journal replays the storage into a cache and lands one append at a    *)
(* time on a serial queue.  Each append reads what the storage holds past  *)
(* the cursor, passes every entry through the fence, looks its key up,     *)
(* decides, and writes on the condition that the storage has not moved.    *)
(* Every await of the code is a point where the others run: a link of the  *)
(* queue is therefore several actions here.  An append whose confirmation  *)
(* is lost may have landed, may never land, or may land later.             *)
(*                                                                         *)
(* Left out: bodies (a place in the storage names the entry), the JSON and *)
(* vocabulary checks of a body, and stored entries of a known kind that    *)
(* are malformed, which make every later read of that journal fail.        *)
(***************************************************************************)
EXTENDS Naturals, Sequences

CONSTANTS
    Writer,     \* the Journal objects; each is built once
    Runless,    \* those that write for no run
    PastRun,    \* runs of processes long gone, met in the replayed history
    NoRun,      \* the writer of an entry with no run field
    Key,        \* idempotency tokens
    NoKey,      \* an append that carries none
    LastSeq,    \* LAST_SEQ: the last seq the journal gives out
    History,    \* the contents the storage may start with
    MaxAsks,    \* bound: appends asked for, in all
    MaxFaults   \* bound: closes, crashes, failed calls and foreign entries, in all

Run == (Writer \ Runless) \cup PastRun
Kind == {"run", "note"}
Seqs == 1..LastSeq
Entry == [kind : Kind \cup {"foreign"}, seq : Seqs, key : Key \cup {NoKey},
          run : Run \cup {NoRun}]

ASSUME JournalAssumption ==
    /\ Runless \subseteq Writer
    /\ PastRun \cap Writer = {}
    /\ NoRun \notin Writer \cup PastRun
    /\ NoKey \notin Key
    /\ LastSeq \in Nat \ {0}
    /\ MaxAsks \in Nat
    /\ MaxFaults \in Nat
    /\ History \subseteq Seq([kind : Kind \cup {"foreign"}, seq : Seqs,
                              key : Key \cup {NoKey}, run : PastRun \cup {NoRun}])

VARIABLES
    store,     \* the storage: position -> entry, positions 1, 2, ...
    phase,     \* where the journal's promise chain stands
    queue,     \* the links of the serial queue not yet done
    target,    \* the final position of the read under way
    cursor,    \* the storage position the last read scanned
    cache,     \* the accepted entries in order, by position
    sequence,  \* the place the last entry took
    byKey,     \* key -> position of the entry it names, 0 for none
    fence,     \* [fence, fenced, superseded]
    lost,      \* how often the caller heard that a later run took the name
    closed,
    sent,      \* the append under way: [entry, expected, reply]
    strays,    \* appends given up on that the storage may still take
    acked,     \* history: what append() resolved with
    asks,      \* counter behind MaxAsks
    faults,    \* counter behind MaxFaults
    past       \* history: the length the storage started with

local == <<phase, queue, target, cursor, cache, sequence, byKey, fence, lost,
           closed, sent>>
memory == <<target, cursor, cache, sequence, byKey, fence, lost>>
bounds == <<asks, faults, past>>
vars == <<store, local, strays, acked, bounds>>

Own(w) == IF w \in Runless THEN NoRun ELSE w

-----------------------------------------------------------------------------
(* rules.verified.ts *)

SameWriter(own, writer) == own # NoRun /\ writer # NoRun /\ own = writer

NextSeq(last) == last + 1

AdvanceSeq(last, seq) == IF seq > last THEN seq ELSE last

Scanned(c, position) == IF position > c THEN position ELSE c

\* Mutant of PassFence: every later run's entry tells the caller again.
PassFenceTellsAgain(f, own, writer) ==
    [state |-> [fence |-> writer, fenced |-> f.fenced \/ SameWriter(own, writer),
                superseded |-> f.superseded \/ (f.fenced /\ ~SameWriter(own, writer))],
     keep |-> TRUE, lost |-> f.fenced /\ ~SameWriter(own, writer)]

PassFence(f, own, writer) ==
    LET beaten == f.superseded \/ f.fenced IN
    IF SameWriter(own, writer)
    THEN [state |-> [fence |-> writer, fenced |-> TRUE,
                     superseded |-> f.superseded],
          keep |-> TRUE, lost |-> FALSE]
    ELSE [state |-> [fence |-> writer, fenced |-> f.fenced,
                     superseded |-> beaten],
          keep |-> TRUE, lost |-> beaten /\ ~f.superseded]

\* Mutants of PassEntry: only a fenced journal voids; an entry with no run is
\* void under a fence.
PassEntryOwnFence(f, writer) ==
    [state |-> f, keep |-> ~f.fenced \/ writer = NoRun \/ writer = f.fence,
     lost |-> FALSE]

PassEntryNamed(f, writer) ==
    [state |-> f, keep |-> f.fence = NoRun \/ writer = f.fence, lost |-> FALSE]

PassEntry(f, writer) ==
    [state |-> f, keep |-> f.fence = NoRun \/ writer = NoRun \/ writer = f.fence,
     lost |-> FALSE]

FenceStep(f, own, isRun, writer) ==
    IF isRun THEN PassFence(f, own, writer) ELSE PassEntry(f, writer)

\* What a key decides, given the position it already names (0 for none).
Keyed(seen, kind, own) ==
    IF seen = 0 THEN "fresh"
    ELSE IF \/ store[seen].kind # kind
            \/ kind = "run" /\ ~SameWriter(own, store[seen].run)
         THEN "conflict" ELSE "replay"

\* Mutant of Writable: a run writes before its own run entry landed.
WritableUnfenced(isShut, f, own, isRun) == ~isShut /\ ~f.superseded

Writable(isShut, f, own, isRun) ==
    /\ ~isShut
    /\ ~f.superseded
    /\ FenceStep(f, own, isRun, own).keep

-----------------------------------------------------------------------------
Nothing == [entry |-> NoRun, expected |-> 0, reply |-> "none"]

Unfenced == [fence |-> NoRun, fenced |-> FALSE, superseded |-> FALSE]

Init ==
    /\ store \in History
    /\ phase = [w \in Writer |-> "new"]
    /\ queue = [w \in Writer |-> <<>>]
    /\ target = [w \in Writer |-> 0]
    /\ cursor = [w \in Writer |-> 0]
    /\ cache = [w \in Writer |-> <<>>]
    /\ sequence = [w \in Writer |-> 0]
    /\ byKey = [w \in Writer |-> [k \in Key |-> 0]]
    /\ fence = [w \in Writer |-> Unfenced]
    /\ lost = [w \in Writer |-> 0]
    /\ closed = [w \in Writer |-> FALSE]
    /\ sent = [w \in Writer |-> Nothing]
    /\ strays = {}
    /\ acked = {}
    /\ asks = 0
    /\ faults = 0
    /\ past = Len(store)

\* What goes wrong is bounded, and nothing else about it is.
Fault ==
    /\ faults < MaxFaults
    /\ faults' = faults + 1
    /\ UNCHANGED <<asks, past>>

\* The constructor starts the replay: one read of the whole storage.
Start(w) ==
    /\ phase[w] = "new"
    /\ phase' = [phase EXCEPT ![w] = "replay"]
    /\ target' = [target EXCEPT ![w] = Len(store)]
    /\ UNCHANGED <<store, queue, cursor, cache, sequence, byKey, fence, lost,
                   closed, sent, strays, acked, bounds>>

\* A caller asks for an append: the link joins the tail of the queue.
Ask(w, kind, key) ==
    /\ phase[w] \notin {"new", "dead"}
    /\ asks < MaxAsks
    /\ asks' = asks + 1
    /\ queue' = [queue EXCEPT ![w] =
                   Append(@, [op |-> "append", kind |-> kind, key |-> key])]
    /\ UNCHANGED <<store, phase, memory, closed, sent, strays, acked, faults, past>>

Close(w) ==
    /\ Fault
    /\ phase[w] \notin {"new", "dead"}
    /\ ~closed[w]
    /\ closed' = [closed EXCEPT ![w] = TRUE]
    /\ UNCHANGED <<store, phase, queue, memory, sent, strays, acked>>

\* The process dies.  Its memory is gone; a request on the wire is not.
Crash(w) ==
    /\ Fault
    /\ phase[w] \notin {"new", "dead"}
    /\ phase' = [phase EXCEPT ![w] = "dead"]
    /\ queue' = [queue EXCEPT ![w] = <<>>]
    /\ target' = [target EXCEPT ![w] = 0]
    /\ cursor' = [cursor EXCEPT ![w] = 0]
    /\ cache' = [cache EXCEPT ![w] = <<>>]
    /\ sequence' = [sequence EXCEPT ![w] = 0]
    /\ byKey' = [byKey EXCEPT ![w] = [k \in Key |-> 0]]
    /\ fence' = [fence EXCEPT ![w] = Unfenced]
    /\ lost' = [lost EXCEPT ![w] = 0]
    /\ closed' = [closed EXCEPT ![w] = FALSE]
    /\ strays' = IF sent[w].reply = "wire"
                 THEN strays \cup {[entry |-> sent[w].entry,
                                    expected |-> sent[w].expected]}
                 ELSE strays
    /\ sent' = [sent EXCEPT ![w] = Nothing]
    /\ UNCHANGED <<store, acked>>

-----------------------------------------------------------------------------
(* One link of the queue.  Each way it ends pops it. *)

Link(w) == Head(queue[w])

Done(w) ==
    /\ phase' = [phase EXCEPT ![w] = "idle"]
    /\ queue' = [queue EXCEPT ![w] = Tail(@)]

\* A settling read is queued behind whatever is queued already.
DoneInDoubt(w) ==
    /\ phase' = [phase EXCEPT ![w] = "idle"]
    /\ queue' = [queue EXCEPT ![w] =
                   Append(Tail(@), [op |-> "settle", kind |-> "run", key |-> NoKey])]

\* open() before its read: a closed, superseded or fenced-out journal reads
\* nothing.  The settling read opens as a run entry would.
Refuse(w) ==
    /\ phase[w] = "idle" /\ queue[w] # <<>>
    /\ ~Writable(closed[w], fence[w], Own(w), Link(w).kind = "run")
    /\ Done(w)
    /\ UNCHANGED <<store, memory, closed, sent, strays, acked, bounds>>

\* open() reads everything the storage holds past the cursor at this moment.
Open(w) ==
    /\ phase[w] = "idle" /\ queue[w] # <<>>
    /\ Writable(closed[w], fence[w], Own(w), Link(w).kind = "run")
    /\ phase' = [phase EXCEPT ![w] = "reading"]
    /\ target' = [target EXCEPT ![w] = Len(store)]
    /\ UNCHANGED <<store, queue, cursor, cache, sequence, byKey, fence, lost,
                   closed, sent, strays, acked, bounds>>

\* The storage fails the read: the link fails, the cursor stays.
ReadFails(w) ==
    /\ Fault
    /\ phase[w] = "idle" /\ queue[w] # <<>>
    /\ Writable(closed[w], fence[w], Own(w), Link(w).kind = "run")
    /\ Done(w)
    /\ UNCHANGED <<store, memory, closed, sent, strays, acked>>

\* take() and remember(): one accepted entry at position p through the fence.
Take(w, p, e) ==
    LET passed == FenceStep(fence[w], Own(w), e.kind = "run", e.run) IN
    /\ fence' = [fence EXCEPT ![w] = passed.state]
    /\ lost' = [lost EXCEPT ![w] = IF passed.lost THEN @ + 1 ELSE @]
    /\ IF passed.keep
       THEN /\ cache' = [cache EXCEPT ![w] = Append(@, p)]
            /\ sequence' = [sequence EXCEPT ![w] = AdvanceSeq(@, e.seq)]
            /\ byKey' = IF e.key = NoKey THEN byKey
                        ELSE [byKey EXCEPT ![w][e.key] = p]
       ELSE UNCHANGED <<cache, sequence, byKey>>

\* read(): the next entry of the snapshot.  A foreign kind is skipped.
Scan(w) ==
    LET p == cursor[w] + 1 IN
    /\ phase[w] \in {"replay", "reading"}
    /\ cursor[w] < target[w]
    /\ cursor' = [cursor EXCEPT ![w] = Scanned(@, p)]
    /\ IF store[p].kind = "foreign"
       THEN UNCHANGED <<cache, sequence, byKey, fence, lost>>
       ELSE Take(w, p, store[p])
    /\ UNCHANGED <<store, phase, queue, target, closed, sent, strays, acked,
                   bounds>>

ReadDone(w) == cursor[w] = target[w]

\* The replay is over: the journal is ready and its queue moves.
Ready(w) ==
    /\ phase[w] = "replay" /\ ReadDone(w)
    /\ phase' = [phase EXCEPT ![w] = "idle"]
    /\ UNCHANGED <<store, queue, memory, closed, sent, strays, acked, bounds>>

\* Mutant of Settled: the settling read queues another.
SettledAgain(w) ==
    /\ phase[w] = "reading" /\ ReadDone(w) /\ Link(w).op = "settle"
    /\ DoneInDoubt(w)
    /\ UNCHANGED <<store, memory, closed, sent, strays, acked, bounds>>

Settled(w) ==
    /\ phase[w] = "reading" /\ ReadDone(w) /\ Link(w).op = "settle"
    /\ Done(w)
    /\ UNCHANGED <<store, memory, closed, sent, strays, acked, bounds>>

\* land() after its read.  The second refuse() meets what the read found.
Landing(w) ==
    /\ phase[w] = "reading" /\ ReadDone(w) /\ Link(w).op = "append"

Admitted(w) ==
    /\ Landing(w)
    /\ Writable(closed[w], fence[w], Own(w), Link(w).kind = "run")

\* Mutant of Seen: the key index holds what this run appended, and no history.
SeenOfThisRun(w) ==
    IF Link(w).key # NoKey /\ byKey[w][Link(w).key] > past
    THEN byKey[w][Link(w).key] ELSE 0

Seen(w) == IF Link(w).key = NoKey THEN 0 ELSE byKey[w][Link(w).key]

Verdict(w) == Keyed(Seen(w), Link(w).kind, Own(w))

Ack(w, position) ==
    acked' = acked \cup {[by |-> w, kind |-> Link(w).kind, key |-> Link(w).key,
                          at |-> position]}

\* Refused after the read, a key that conflicts, a decision that returns a
\* result, or no seq left to give: the link ends and nothing is written.
LandNothing(w) ==
    /\ Landing(w)
    /\ ~Admitted(w) \/ Verdict(w) # "replay"
    /\ Done(w)
    /\ UNCHANGED <<store, memory, closed, sent, strays, acked, bounds>>

\* The key already names this append: the first entry answers.
LandReplay(w) ==
    /\ Admitted(w)
    /\ Verdict(w) = "replay"
    /\ Ack(w, Seen(w))
    /\ Done(w)
    /\ UNCHANGED <<store, memory, closed, sent, strays, bounds>>

\* Mutant of Full: the last seq can be given out twice over.
FullLate(w) == sequence[w] > LastSeq

Full(w) == sequence[w] >= LastSeq

\* The decision has a body: the entry goes to the storage on the condition
\* that the storage still ends at the cursor.
LandSend(w) ==
    /\ Admitted(w)
    /\ Verdict(w) = "fresh"
    /\ ~Full(w)
    /\ phase' = [phase EXCEPT ![w] = "sent"]
    /\ sent' = [sent EXCEPT ![w] =
                  [entry |-> [kind |-> Link(w).kind, seq |-> NextSeq(sequence[w]),
                              key |-> Link(w).key, run |-> Own(w)],
                   expected |-> cursor[w], reply |-> "wire"]]
    /\ UNCHANGED <<store, queue, memory, closed, strays, acked, bounds>>

\* The append resolved: the entry is read back through the fence and cached.
Confirm(w) ==
    LET p == sent[w].expected + 1 IN
    /\ phase[w] = "sent" /\ sent[w].reply = "stored"
    /\ cursor' = [cursor EXCEPT ![w] = p]
    /\ Take(w, p, store[p])
    /\ Ack(w, p)
    /\ Done(w)
    /\ sent' = [sent EXCEPT ![w] = Nothing]
    /\ UNCHANGED <<store, target, closed, strays, bounds>>

\* "The record moved under the write."
Moved(w) ==
    /\ phase[w] = "sent" /\ sent[w].reply = "moved"
    /\ DoneInDoubt(w)
    /\ sent' = [sent EXCEPT ![w] = Nothing]
    /\ UNCHANGED <<store, memory, closed, strays, acked, bounds>>

\* The append rejects.  The storage may have taken it, may never take it, or
\* may take it later.
LoseAnswer(w) ==
    /\ Fault
    /\ phase[w] = "sent"
    /\ DoneInDoubt(w)
    /\ \/ UNCHANGED strays
       \/ /\ sent[w].reply = "wire"
          /\ strays' = strays \cup {[entry |-> sent[w].entry,
                                     expected |-> sent[w].expected]}
    /\ sent' = [sent EXCEPT ![w] = Nothing]
    /\ UNCHANGED <<store, memory, closed, acked>>

-----------------------------------------------------------------------------
(* The storage (memory.ts, sqlite.ts): compare the head, then append. *)

\* Mutant of TakesAt: an append the storage takes wherever it ends.
TakesAnywhere(expected) == TRUE

TakesAt(expected) == Len(store) = expected

StoreSent(w) ==
    /\ phase[w] = "sent" /\ sent[w].reply = "wire"
    /\ IF TakesAt(sent[w].expected)
       THEN /\ store' = Append(store, sent[w].entry)
            /\ sent' = [sent EXCEPT ![w].reply = "stored"]
       ELSE /\ sent' = [sent EXCEPT ![w].reply = "moved"]
            /\ UNCHANGED store
    /\ UNCHANGED <<phase, queue, memory, closed, strays, acked, bounds>>

StoreStray(s) ==
    /\ strays' = strays \ {s}
    /\ IF TakesAt(s.expected) THEN store' = Append(store, s.entry)
       ELSE UNCHANGED store
    /\ UNCHANGED <<local, acked, bounds>>

\* Other software stores an entry of a kind the vocabulary does not know.
Foreign ==
    /\ Fault
    /\ store' = Append(store, [kind |-> "foreign", seq |-> 1, key |-> NoKey,
                               run |-> NoRun])
    /\ UNCHANGED <<local, strays, acked>>

-----------------------------------------------------------------------------
\* What a live process and the storage do by themselves.
Work(w) ==
    \/ Refuse(w) \/ Open(w) \/ Scan(w) \/ Ready(w) \/ Settled(w)
    \/ LandNothing(w) \/ LandReplay(w) \/ LandSend(w)
    \/ Confirm(w) \/ Moved(w) \/ StoreSent(w)

Next ==
    \/ \E w \in Writer :
          \/ Start(w) \/ Close(w) \/ Crash(w) \/ ReadFails(w) \/ LoseAnswer(w)
          \/ Work(w)
          \/ \E kind \in Kind, key \in Key \cup {NoKey} : Ask(w, kind, key)
    \/ \E s \in strays : StoreStray(s)
    \/ Foreign

Spec == Init /\ [][Next]_vars

-----------------------------------------------------------------------------
(* The fairness of a promise chain: every link, and every answer of the    *)
(* storage, is taken while its process lives.                              *)
FairSpec == Spec /\ \A w \in Writer : WF_vars(Work(w))

-----------------------------------------------------------------------------
Link_ == [op : {"append", "settle"}, kind : Kind, key : Key \cup {NoKey}]
Wanted == [kind : Kind, seq : Seqs, key : Key \cup {NoKey}, run : Run \cup {NoRun}]

TypeOK ==
    /\ store \in Seq(Entry)
    /\ phase \in [Writer -> {"new", "replay", "idle", "reading", "sent", "dead"}]
    /\ queue \in [Writer -> Seq(Link_)]
    /\ target \in [Writer -> Nat]
    /\ cursor \in [Writer -> Nat]
    /\ cache \in [Writer -> Seq(Nat)]
    /\ sequence \in [Writer -> 0..LastSeq]
    /\ byKey \in [Writer -> [Key -> Nat]]
    /\ fence \in [Writer -> [fence : Run \cup {NoRun}, fenced : BOOLEAN,
                             superseded : BOOLEAN]]
    /\ lost \in [Writer -> Nat]
    /\ closed \in [Writer -> BOOLEAN]
    /\ sent \in [Writer -> {Nothing} \cup
                   [entry : Wanted, expected : Nat,
                    reply : {"wire", "stored", "moved"}]]
    /\ strays \subseteq [entry : Wanted, expected : Nat]
    /\ acked \subseteq [by : Writer, kind : Kind, key : Key \cup {NoKey}, at : Nat]
    /\ asks \in Nat
    /\ faults \in Nat
    /\ past \in Nat

-----------------------------------------------------------------------------
(* The record, as a function of the contents s of a storage.               *)

IsRun(s, p) == s[p].kind = "run"

\* q holds the run entry that stands after the first n positions.
Standing(s, q, n) ==
    /\ q \in 1..n
    /\ IsRun(s, q)
    /\ \A p \in (q + 1)..n : ~IsRun(s, p)

\* An entry after the first n positions is on the record unless its kind is
\* foreign or the fence standing there names another run.
KeptAfter(s, n, e) ==
    /\ e.kind # "foreign"
    /\ \/ e.kind = "run"
       \/ e.run = NoRun
       \/ \A q \in 1..n : Standing(s, q, n) => s[q].run \in {NoRun, e.run}

Kept(s, p) == KeptAfter(s, p - 1, s[p])

Accepted(s, n) == {p \in 1..n : Kept(s, p)}

Elements(c) == {c[i] : i \in DOMAIN c}

\* A run named by the first n positions that another has since fenced.
MetOwn(s, n, own) == \E p \in 1..n : IsRun(s, p) /\ SameWriter(own, s[p].run)
Beaten(s, n, own) ==
    \E p, q \in 1..n :
        /\ p < q /\ IsRun(s, p) /\ IsRun(s, q)
        /\ SameWriter(own, s[p].run) /\ ~SameWriter(own, s[q].run)

(* Every journal that has read the same positions holds the same entries,  *)
(* each once and in storage order, whoever wrote them, whatever run it is  *)
(* and however the confirmations went: a lost one, a stray that landed     *)
(* later, an append of another process (journal.ts read, take, took).      *)
CachesAgree ==
    \A w \in Writer :
        /\ Elements(cache[w]) = Accepted(store, cursor[w])
        /\ \A i, j \in DOMAIN cache[w] : i < j => cache[w][i] < cache[w][j]

(* What append() resolved with is on the record, under the kind and the key*)
(* that were asked for, whoever reads it and whatever run fences the       *)
(* writer later: "nothing it acknowledges is void" (journal.test.ts).      *)
AcknowledgedKept ==
    \A a \in acked :
        /\ a.at \in Accepted(store, Len(store))
        /\ store[a.at].kind = a.kind
        /\ store[a.at].key = a.key
        /\ a.kind = "run" => store[a.at].run = Own(a.by)

(* No entry this code stores is void, so no seq is spent on an entry that  *)
(* readers skip (journal.ts refuse(): "every reader would void what it     *)
(* wrote before its fence").  History stored by other means may be void.   *)
NothingVoid ==
    \A p \in (past + 1)..Len(store) : store[p].kind = "foreign" \/ Kept(store, p)

(* A caller hears that a later run took the name once, and exactly when the*)
(* journal has read its own run entry and then another run's.              *)
LostOnce ==
    \A w \in Writer :
        lost[w] = IF Beaten(store, cursor[w], Own(w)) THEN 1 ELSE 0

-----------------------------------------------------------------------------
(* The journal implements the record. *)

HolderAt(s, n) ==
    IF \E q \in 1..n : IsRun(s, q)
    THEN s[CHOOSE q \in 1..n : Standing(s, q, n)].run
    ELSE NoRun

R == INSTANCE Record WITH
        Reader <- Writer,
        record <- [p \in Accepted(store, Len(store)) |-> store[p]],
        holder <- HolderAt(store, Len(store)),
        view <- [w \in Writer |-> Elements(cache[w])]

(* The journals over one storage implement one record with one writer at a *)
(* time: seqs only rise, a key names one entry, a superseded run never     *)
(* writes again, and every reader holds a gapless prefix.                  *)
ImplementsRecord == R!RecordSpec

(* Every link of the queue ends, and settled() with it: an append that     *)
(* fails queues one settling read behind itself, and that read queues      *)
(* nothing more.                                                           *)
QueueDrains ==
    \A w \in Writer : (queue[w] # <<>>) ~> (queue[w] = <<>>)

=============================================================================
