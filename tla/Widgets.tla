------------------------------ MODULE Widgets -------------------------------
(***************************************************************************)
(* The widgets of one room of a canvas (canvas/src widgets.ts, acts.ts,    *)
(* canvas.ts): an agent shows and hides a widget, each time as a new       *)
(* revision, and persons press an action of the revision they saw.  A      *)
(* press is a message of the person in the journal of the room, under a    *)
(* key that makes it land once; the answers the canvas holds come from     *)
(* that journal.                                                           *)
(*                                                                         *)
(* The calls on the widgets of a room run one at a time, each a sequence   *)
(* of awaits.  Starts and stops of the room have a queue of their own.     *)
(***************************************************************************)
EXTENDS Integers, Sequences, FiniteSets

CONSTANTS
    Person,     \* who presses
    Plays       \* what the environment may do, and how often

VARIABLES
    host,       \* the run of the canvas: up, closing, down
    row,        \* the row of the room
    room,       \* whether the room has a live handle, and whether its launch reads the answers
    store,      \* the revisions in the store, oldest first
    held,       \* the revisions in memory
    current,    \* the one that is current in memory
    record,     \* the acts in the journal of the room
    doubt,      \* appends whose fate is open: the entry, and the place it was written for
    hears,      \* whether the author is on the roster and listens
    queue,      \* the calls on the widgets
    step,       \* where the first of them stands, and whom its message goes to
    answers,    \* the answer to each revision that the canvas holds, or 0
    told,       \* history: what the calls returned
    excused,    \* history: keys of presses that were reported as failed
    spare       \* what is left for the environment

vars == <<host, row, room, store, held, current, record, doubt, hears, queue, step, answers, told,
          excused, spare>>

Spend(what) == spare[what] > 0 /\ spare' = [spare EXCEPT ![what] = @ - 1]

Largest == 4

Revision == 1 .. Largest    \* a bound on the revisions

Rested == [pc |-> "waits", to |-> FALSE]

NoAnswers == [r \in Revision |-> 0]

Init ==
    /\ spare \in Plays
    /\ host = "up" /\ row = "running" /\ room = [live |-> TRUE, learns |-> "no", found |-> NoAnswers]
    /\ store = <<[shown |-> TRUE]>> /\ held = {1} /\ current = 1
    /\ record = <<>> /\ doubt = {} /\ hears = TRUE
    /\ queue = <<>> /\ step = Rested /\ answers = NoAnswers
    /\ told = {} /\ excused = {}

Memory == <<host, row, room, held, current>>

-----------------------------------------------------------------------------
(* The keys *)

\* A once action has one key for its revision, any other has one for each press.
Key(act) == <<act.of, act.action>>

\* Where the journal holds a message under a key, or 0.
Under(key) ==
    IF \E i \in DOMAIN record : Key(record[i]) = key
    THEN CHOOSE i \in DOMAIN record : Key(record[i]) = key ELSE 0

\* Mutant of Same: a message under the key is the press, whoever sent it.
SameKey(entry, act) == TRUE

\* The same person, text and ref: the recipient is no part of it.
Same(entry, act) == entry.by = act.by

\* An answer that is held already stays.
Holding(map, r, i) == [map EXCEPT ![r] = IF @ = 0 THEN i ELSE @]

-----------------------------------------------------------------------------
(* The calls *)

Serving == queue # <<>>

Act == queue[1]

Advances(pc) == step' = [step EXCEPT !.pc = pc] /\ UNCHANGED queue

\* The call returns, and the next one has its turn.
Returns(kind, seq) ==
    /\ told' = IF Act.what = "act" THEN told \cup {[act |-> Act, kind |-> kind, seq |-> seq]} ELSE told
    /\ queue' = Tail(queue) /\ step' = Rested

Calls(op) ==
    /\ host = "up" /\ Spend(op.what) /\ queue' = Append(queue, op)
    /\ UNCHANGED <<Memory, store, record, doubt, hears, step, answers, told, excused>>

\* A person presses an action of a revision that the host drew.
Presses ==
    \E by \in Person, of \in held, action \in {"once", "press"} :
        Calls([what |-> "act", by |-> by, of |-> of, action |-> action])

Shows == \E shown \in BOOLEAN : Calls([what |-> "show", shown |-> shown])

\* A show or a hide writes the next revision, unless nothing changes.
Draws ==
    /\ Serving /\ Act.what = "show" /\ step.pc = "waits"
    /\ IF host # "up" \/ (~Act.shown /\ ~store[current].shown) \/ Len(store) = Largest
       THEN Returns("refused", 0) ELSE Advances("writes") /\ UNCHANGED told
    /\ UNCHANGED <<Memory, store, record, doubt, hears, answers, excused, spare>>

\* The store holds it first, and memory then.
Drawn ==
    /\ Serving /\ step.pc = "writes"
    /\ store' = Append(store, [shown |-> Act.shown])
    /\ held' = held \cup {Len(store')} /\ current' = Len(store')
    /\ Returns("drawn", 0)
    /\ UNCHANGED <<host, row, room, record, doubt, hears, answers, excused, spare>>

\* The write fails, and may have landed.
DrawFails(lands) ==
    /\ Serving /\ step.pc = "writes" /\ Spend("fault")
    /\ store' = IF lands THEN Append(store, [shown |-> Act.shown]) ELSE store
    /\ Returns("failed", 0)
    /\ UNCHANGED <<Memory, record, doubt, hears, answers, excused>>

-----------------------------------------------------------------------------
(* An act *)

\* The row is running and the room has a handle.
ActStarts ==
    /\ Serving /\ Act.what = "act" /\ step.pc = "waits"
    /\ IF host = "up" /\ row = "running" /\ room.live
       THEN Advances("looks") /\ UNCHANGED told ELSE Returns("refused", 0)
    /\ UNCHANGED <<Memory, store, record, doubt, hears, answers, excused, spare>>

\* A press that landed is found under its key.  An answer that was not known is
\* held now.
Found(i) ==
    /\ answers' = IF Act.action = "once" THEN Holding(answers, Act.of, i) ELSE answers
    /\ IF Same(record[i], Act) THEN Returns("sent", i)
       ELSE IF Act.action = "once" THEN Returns("answered", i) ELSE Returns("refused", 0)

\* The first look comes before every other check: the widget may be gone.
Looks ==
    /\ Serving /\ step.pc = "looks"
    /\ LET i == IF Act.of \in held THEN Under(Key(Act)) ELSE 0 IN
       IF i # 0 THEN Found(i)
       ELSE /\ UNCHANGED answers
            /\ IF current = Act.of /\ store[current].shown
               THEN Advances("asks") /\ UNCHANGED told ELSE Returns("stale", 0)
    /\ UNCHANGED <<Memory, store, record, doubt, hears, excused, spare>>

\* The message goes to the author, when the author can hear.
Asks ==
    /\ Serving /\ step.pc = "asks"
    /\ step' = [pc |-> "visits", to |-> hears]
    /\ UNCHANGED <<Memory, store, record, doubt, hears, queue, answers, told, excused, spare>>

\* The person arrives, or is here: a stopped room takes nobody.
Visits ==
    /\ Serving /\ step.pc = "visits"
    /\ IF room.live THEN Advances("sends") /\ UNCHANGED told ELSE Returns("refused", 0)
    /\ UNCHANGED <<Memory, store, record, doubt, hears, answers, excused, spare>>

Message == [by |-> Act.by, of |-> Act.of, action |-> Act.action, to |-> step.to]

\* The room takes the message: under a key it holds, it appends nothing, and a
\* message with other content or a recipient that it refuses fails.
Sends ==
    /\ Serving /\ step.pc = "sends"
    /\ IF ~room.live THEN Returns("refused", 0) /\ UNCHANGED record
       ELSE LET i == Under(Key(Act)) IN
            /\ UNCHANGED told
            /\ IF i # 0
               THEN UNCHANGED record /\ Advances(IF record[i] = Message THEN "reads" ELSE "again")
               ELSE IF step.to /\ ~hears THEN UNCHANGED record /\ Advances("again")
               ELSE record' = Append(record, Message) /\ Advances("reads")
    /\ UNCHANGED <<Memory, store, doubt, hears, answers, excused, spare>>

\* The append is lost: it landed without its confirmation, or may land later.
SendFails(lands) ==
    /\ Serving /\ step.pc = "sends" /\ room.live /\ Under(Key(Act)) = 0 /\ (step.to => hears)
    /\ Spend("fault")
    /\ record' = IF lands THEN Append(record, Message) ELSE record
    /\ doubt' = IF lands THEN doubt ELSE doubt \cup {[entry |-> Message, at |-> Len(record) + 1]}
    /\ excused' = excused \cup {Key(Act)}
    /\ Returns("failed", 0)
    /\ UNCHANGED <<Memory, store, hears, answers>>

\* It lands after the call gave up, when the journal still ends where it was
\* written for.
LandsLate ==
    \E d \in doubt :
        /\ d.at = Len(record) + 1 /\ record' = Append(record, d.entry)
        /\ doubt' = doubt \ {d}
        /\ UNCHANGED <<Memory, store, hears, queue, step, answers, told, excused, spare>>

Reads ==
    /\ Serving /\ step.pc = "reads"
    /\ LET i == Under(Key(Act)) IN
       /\ answers' = IF Act.action = "once" THEN Holding(answers, Act.of, i) ELSE answers
       /\ Returns("sent", i)
    /\ UNCHANGED <<Memory, store, record, doubt, hears, excused, spare>>

\* A refused key may hold this press with another recipient, or another act.
LooksAgain ==
    /\ Serving /\ step.pc = "again"
    /\ LET i == Under(Key(Act)) IN
       IF i # 0 THEN Found(i) ELSE Returns("failed", 0) /\ UNCHANGED answers
    /\ UNCHANGED <<Memory, store, record, doubt, hears, excused, spare>>

-----------------------------------------------------------------------------
(* The room and the host *)

InJournal == [r \in Revision |-> Under(<<r, "once">>)]

\* Mutant of Learned: the answers found replace what the canvas holds.
LearnedOver(found) == found

Learned(found) == [r \in Revision |-> IF answers[r] = 0 THEN found[r] ELSE answers[r]]

\* The launch of a room sets its handle, and then reads the answers.
Launch == room' = [live |-> TRUE, learns |-> "reads", found |-> NoAnswers]

LearnReads ==
    /\ room.learns = "reads"
    /\ room' = [room EXCEPT !.learns = "holds", !.found = InJournal]
    /\ UNCHANGED <<host, row, held, current, store, record, doubt, hears, queue, step, answers, told,
                   excused, spare>>

LearnHolds ==
    /\ room.learns = "holds"
    /\ answers' = Learned(room.found)
    /\ room' = [room EXCEPT !.learns = "no"]
    /\ UNCHANGED <<host, row, held, current, store, record, doubt, hears, queue, step, told, excused,
                   spare>>

\* A stop sets the row, and the handle ends some time after.
StopsRoom ==
    /\ host = "up" /\ row = "running" /\ room.live /\ room.learns = "no" /\ Spend("stop")
    /\ row' = "stopped"
    /\ UNCHANGED <<host, room, held, current, store, record, doubt, hears, queue, step, answers, told,
                   excused>>

RoomStops ==
    /\ row = "stopped" /\ room.live /\ room.learns = "no"
    /\ room' = [room EXCEPT !.live = FALSE]
    /\ UNCHANGED <<host, row, held, current, store, record, doubt, hears, queue, step, answers, told,
                   excused, spare>>

StartsRoom ==
    /\ host = "up" /\ row = "stopped" /\ ~room.live
    /\ row' = "running" /\ Launch
    /\ UNCHANGED <<host, held, current, store, record, doubt, hears, queue, step, answers, told,
                   excused, spare>>

\* The author leaves the roster, or comes back.
AuthorMoves ==
    /\ Spend("author") /\ hears' = ~hears
    /\ UNCHANGED <<Memory, store, record, doubt, queue, step, answers, told, excused>>

\* A close takes no new call, and lets the calls in flight end.
Closes ==
    /\ host = "up" /\ Spend("close") /\ host' = "closing"
    /\ UNCHANGED <<row, room, held, current, store, record, doubt, hears, queue, step, answers, told,
                   excused>>

Closed ==
    /\ host = "closing" /\ ~Serving /\ room.learns = "no"
    /\ host' = "down" /\ room' = [room EXCEPT !.live = FALSE]
    /\ UNCHANGED <<row, held, current, store, record, doubt, hears, queue, step, answers, told,
                   excused, spare>>

Crash ==
    /\ host \in {"up", "closing"} /\ Spend("crash")
    /\ host' = "down" /\ room' = [live |-> FALSE, learns |-> "no", found |-> NoAnswers]
    /\ queue' = <<>> /\ step' = Rested
    /\ UNCHANGED <<row, held, current, store, record, doubt, hears, answers, told, excused>>

\* A new run reads the revisions, then launches the rooms that run.
Resumes ==
    /\ host = "down" /\ Spend("resume")
    /\ host' = "up" /\ held' = DOMAIN store /\ current' = Len(store)
    /\ answers' = NoAnswers
    /\ IF row = "running" THEN Launch ELSE UNCHANGED room
    /\ UNCHANGED <<row, store, record, doubt, hears, queue, step, told, excused>>

-----------------------------------------------------------------------------

Works ==
    \/ Draws \/ Drawn \/ ActStarts \/ Looks \/ Asks \/ Visits \/ Sends \/ Reads \/ LooksAgain
    \/ LearnReads \/ LearnHolds \/ RoomStops \/ Closed

Next ==
    \/ Works
    \/ Presses \/ Shows \/ LandsLate
    \/ \E lands \in BOOLEAN : DrawFails(lands) \/ SendFails(lands)
    \/ StopsRoom \/ StartsRoom \/ AuthorMoves \/ Closes \/ Crash \/ Resumes

Spec == Init /\ [][Next]_vars /\ WF_vars(Works)

-----------------------------------------------------------------------------

\* What a press returned is true of the journal, for ever: `sent` names the
\* message of this person, `answered` one of another; no key holds two.
ResultsHold ==
    /\ \A r \in told :
          /\ r.kind = "sent" => Key(record[r.seq]) = Key(r.act) /\ record[r.seq].by = r.act.by
          /\ r.kind = "answered" => Key(record[r.seq]) = Key(r.act) /\ record[r.seq].by # r.act.by
    /\ \A i, j \in DOMAIN record : Key(record[i]) = Key(record[j]) => i = j

\* The answers that the canvas holds are those of the journal, and once its
\* calls have ended it holds them all, but for presses that it reported failed.
AnswersHold ==
    LET known == host = "up" /\ room.live /\ room.learns = "no" /\ ~Serving IN
    \A r \in Revision :
        /\ answers[r] # 0 => Key(record[answers[r]]) = <<r, "once">>
        /\ known /\ Under(<<r, "once">>) # 0 /\ <<r, "once">> \notin excused => answers[r] # 0

(* However the presses of several persons, the shows of the author, lost    *)
(* confirmations, stops, a crash and the reading of the answers interleave  *)
(* (acts.ts actOn, landedResult, send; widgets.ts), every step keeps the    *)
(* results and the answers true, and a press lands for the revision that is *)
(* shown when it lands, unless its call gave up first: the queue of the     *)
(* room keeps a show from passing it.                                       *)
PressesHold ==
    [][/\ ResultsHold' /\ AnswersHold'
       /\ Len(record') > Len(record) /\ doubt' = doubt =>
              record'[Len(record')].of = current /\ store[current].shown]_vars

\* The calls end.
Settles == []<>(~Serving)

=============================================================================
