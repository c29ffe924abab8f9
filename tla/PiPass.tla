------------------------------- MODULE PiPass -------------------------------
(***************************************************************************)
(* The activations of one seat on the Pi harness (pi/src executor.ts,      *)
(* transcript.ts, freshness.ts): one conversation, which a later           *)
(* activation goes on with.  A pass submits one input; a line that lands   *)
(* meanwhile is a queued write, which the harness places at the next       *)
(* boundary of the turn; what a provider request holds is read.  What      *)
(* stands after the last answer is taken back before the next input.       *)
(***************************************************************************)
EXTENDS Driver, FiniteSets

CONSTANTS Size, Passes, Lucks

VARIABLES
    landed,     \* how many messages the record holds
    drv,        \* the driver's pass, see Driver.tla
    self,       \* the memory of the activation
    base,       \* the position the continued session read through
    chat,       \* the entries of the conversation, oldest first
    queue,      \* the writes that the harness has not placed yet
    turn,       \* what the harness does for the input of the pass
    read,
    luck        \* what may still go wrong

vars == <<landed, drv, self, base, chat, queue, turn, read, luck>>

Line == 1 .. Size

\* pending: the ranges of the pass that no request held yet; steered: the same
\* for the steered lines.
Asleep == [phase |-> "idle", held |-> <<>>, pending |-> {}, steered |-> {}, open |-> FALSE,
           stopped |-> FALSE]

Init ==
    /\ landed = 1 /\ drv = Rested /\ self = Asleep /\ base = 0
    /\ chat = <<>> /\ queue = <<>> /\ turn = "none" /\ read = {}
    /\ luck \in Lucks

Meets(what) == luck[what] > 0 /\ luck' = [luck EXCEPT ![what] = @ - 1]

-----------------------------------------------------------------------------
(* The conversation *)

\* An entry: the lines it carries, whether a request held it, and whether it
\* is an answer.  Omitted entries are dropped from the sequence.
Entry(lines) == [lines |-> lines, seen |-> FALSE, answer |-> FALSE]
AnAnswer == [lines |-> {}, seen |-> TRUE, answer |-> TRUE]

\* How often the model was given each line, in the context it holds.
Given == [l \in Line |-> Cardinality({i \in DOMAIN chat : chat[i].seen /\ l \in chat[i].lines})]

Answers(entries) == {i \in DOMAIN entries : entries[i].answer}

\* Mutant of Rewound: what the last pass left behind stays.
RewoundNot(entries) == entries

\* What stands after the last answer leaves the context.
Rewound(entries) == SubSeq(entries, 1, Max({0} \cup Answers(entries)))

\* The position the session read through: the end of its last range.
ResumeBase(entries) == Max({0} \cup UNION {entries[i].lines : i \in DOMAIN entries})

-----------------------------------------------------------------------------
(* The lines that land *)

\* A line lands in a pass: it joins the input, or is a write to the conversation.
Steer(line) ==
    IF self.phase = "starting"
    THEN self' = [self EXCEPT !.held = Append(@, line)] /\ UNCHANGED queue
    ELSE self' = [self EXCEPT !.steered = @ \cup {line}] /\ queue' = Append(queue, line)

\* A message lands, and its steer reaches the activation, unless it is lost.
Lands(steered) ==
    /\ landed < Size /\ landed' = landed + 1
    /\ IF steered
       THEN Forwards(drv, landed + 1) /\ Steer(landed + 1) /\ UNCHANGED luck
       ELSE UNCHANGED <<self, queue>>
            /\ IF Forwards(drv, landed + 1) THEN Meets("lose") ELSE UNCHANGED luck
    /\ UNCHANGED <<drv, base, chat, turn, read>>

-----------------------------------------------------------------------------
(* A pass *)

Begins ==
    /\ Due(drv, read, landed) /\ drv.passes < Passes
    /\ drv' = Opened(drv, read, landed)
    /\ self' = [self EXCEPT !.phase = "starting"]
    /\ UNCHANGED <<landed, base, chat, queue, turn, read, luck>>

\* The first pass opens the session, which drops what a lost process or the
\* last activation left, and counts what the session holds as read.
Opens ==
    /\ drv.pc = "reads" /\ ~self.open /\ ~self.stopped
    /\ LET kept == Rewound(chat) IN
       /\ chat' = kept /\ queue' = <<>> /\ turn' = "none"
       /\ base' = ResumeBase(kept)
       /\ read' = read \cup 1 .. ResumeBase(kept)
    /\ self' = [self EXCEPT !.open = TRUE]
    /\ UNCHANGED <<landed, drv, luck>>

\* What prepares the pass throws: a lost room call, a session that does not open.
OpenFails ==
    /\ drv.pc \in {"reads", "renders"} /\ ~self.stopped /\ Meets("fail")
    /\ drv' = Ends(drv, TRUE)
    /\ UNCHANGED <<landed, self, base, chat, queue, turn, read>>

\* A stored session that cannot be continued gives way to a fresh one.
OpensFresh ==
    /\ drv.pc = "reads" /\ ~self.open /\ ~self.stopped /\ chat # <<>> /\ Meets("lost")
    /\ chat' = <<>> /\ queue' = <<>> /\ turn' = "none" /\ base' = 0
    /\ self' = [self EXCEPT !.open = TRUE]
    /\ UNCHANGED <<landed, drv, read>>

\* A later pass takes back what the last one left after its answer.
Rewinds ==
    /\ drv.pc = "reads" /\ self.open /\ ~self.stopped
    /\ drv' = [drv EXCEPT !.pc = "renders"]
    /\ chat' = IF drv.passes > 1 THEN Rewound(chat) ELSE chat
    /\ queue' = IF drv.passes > 1 THEN <<>> ELSE queue
    /\ UNCHANGED <<landed, self, base, turn, read, luck>>

\* The record of the pass: a continued session reads what follows it.
Fresh == IF drv.passes = 1 THEN base + 1 .. drv.view ELSE Rendered(drv)

\* The input: the record, and the lines that landed meanwhile.  A pass with
\* nothing to read submits nothing, and its view counts as read.
Submits ==
    /\ drv.pc = "renders" /\ ~self.stopped
    /\ LET lines == Fresh \cup ToSet(self.held) IN
       /\ read' = IF Fresh = {} THEN read \cup 1 .. drv.view ELSE read
       /\ IF lines = {}
          THEN drv' = Ends(drv, FALSE) /\ UNCHANGED <<self, chat, turn>>
          ELSE /\ drv' = [drv EXCEPT !.pc = "submitted", !.prompt = Fresh]
               /\ self' = [self EXCEPT !.held = <<>>, !.pending = lines]
               /\ chat' = Append(chat, Entry(lines)) /\ turn' = "asked"
    /\ UNCHANGED <<landed, base, queue, luck>>

\* The input is in: what landed while it went is written behind it.
Runs ==
    /\ drv.pc = "submitted"
    /\ drv' = [drv EXCEPT !.pc = "waits"]
    /\ self' = [self EXCEPT !.phase = "running", !.held = <<>>,
                            !.steered = @ \cup ToSet(self.held)]
    /\ queue' = queue \o self.held
    /\ turn' = IF self.stopped /\ turn \in {"asked", "requested"} THEN "aborted" ELSE turn
    /\ UNCHANGED <<landed, base, chat, read, luck>>

\* The input settled.  The events of its last messages arrive in a later turn.
Settles ==
    /\ drv.pc = "waits" /\ turn \in {"answered", "failed", "aborted"}
    /\ drv' = [drv EXCEPT !.pc = "drains", !.failed = turn = "failed"]
    /\ UNCHANGED <<landed, self, base, chat, queue, turn, read, luck>>

\* The lines that no request held are withdrawn when they were not placed.
Drains ==
    /\ drv.pc = "drains" /\ drv' = [drv EXCEPT !.pc = "drained"]
    /\ queue' = SelectSeq(queue, LAMBDA l : l \notin self.steered)
    /\ self' = [self EXCEPT !.steered = {}, !.pending = {}]
    /\ UNCHANGED <<landed, base, chat, turn, read, luck>>

Drained ==
    /\ drv.pc = "drained"
    /\ drv' = Ends(drv, drv.failed /\ ~self.stopped)
    /\ turn' = "none"
    /\ UNCHANGED <<landed, self, base, chat, queue, read, luck>>

\* A cut ends a pass wherever it prepares.
Stands ==
    /\ drv.pc \in {"reads", "renders"} /\ self.stopped /\ drv' = Ends(drv, FALSE)
    /\ UNCHANGED <<landed, self, base, chat, queue, turn, read, luck>>

PassReturns ==
    /\ drv.pc = "ends" /\ drv' = Returned(drv)
    /\ self' = [self EXCEPT !.phase = "idle", !.held = <<>>]
    /\ UNCHANGED <<landed, base, chat, queue, turn, read, luck>>

-----------------------------------------------------------------------------
(* The harness *)

\* A provider request holds the context.
HarnessAsks ==
    /\ turn = "asked" /\ turn' = "requested"
    /\ LET placed == UNION {chat[i].lines : i \in DOMAIN chat} IN
       /\ chat' = [i \in DOMAIN chat |-> [chat[i] EXCEPT !.seen = TRUE]]
       /\ read' = read \cup self.pending \cup (self.steered \cap (placed \ ToSet(queue)))
       /\ self' = [self EXCEPT !.pending = {}, !.steered = @ \ (placed \ ToSet(queue))]
    /\ UNCHANGED <<landed, drv, base, queue, luck>>

Placed == chat \o [i \in DOMAIN queue |-> Entry({queue[i]})]

\* The model calls a tool: the harness places the writes, and asks again.
HarnessGoesOn ==
    /\ turn = "requested" /\ Meets("tool")
    /\ chat' = Placed /\ queue' = <<>> /\ turn' = "asked"
    /\ UNCHANGED <<landed, drv, self, base, read>>

\* The model answers, and the harness may place what waits behind the answer.
HarnessAnswers(places) ==
    /\ turn = "requested" /\ turn' = "answered"
    /\ chat' = Append(chat, AnAnswer) \o (IF places THEN SubSeq(Placed, Len(chat) + 1, Len(Placed)) ELSE <<>>)
    /\ queue' = IF places THEN <<>> ELSE queue
    /\ UNCHANGED <<landed, drv, self, base, read, luck>>

HarnessFails ==
    /\ turn \in {"asked", "requested"} /\ Meets("fail") /\ turn' = "failed"
    /\ UNCHANGED <<landed, drv, self, base, chat, queue, read>>

\* A write to a conversation that runs nothing is placed at once.
HarnessPlaces ==
    /\ turn \in {"answered", "failed", "aborted", "none"} /\ queue # <<>> /\ self.open
    /\ chat' = Placed /\ queue' = <<>>
    /\ UNCHANGED <<landed, drv, self, base, turn, read, luck>>

-----------------------------------------------------------------------------
(* The end *)

\* The cut aborts the conversation.
CutHappens ==
    /\ drv.pc # "over" /\ drv.cut = "no" /\ Meets("cut")
    /\ drv' = Cut(drv)
    /\ self' = [self EXCEPT !.stopped = TRUE]
    /\ turn' = IF turn \in {"asked", "requested"} THEN "aborted" ELSE turn
    /\ UNCHANGED <<landed, base, chat, queue, read>>

\* The view of the next pass fails: the activation ends as failed.
ViewFails ==
    /\ drv.pc = "between" /\ drv.passes > 0 /\ Meets("view")
    /\ drv' = [drv EXCEPT !.pc = "over"]
    /\ UNCHANGED <<landed, self, base, chat, queue, turn, read>>

\* Nothing is new: the activation ends.
Rests ==
    /\ drv.pc = "between" /\ drv.passes > 0 /\ landed = ReadThrough(read)
    /\ drv' = [drv EXCEPT !.pc = "over"]
    /\ UNCHANGED <<landed, self, base, chat, queue, turn, read, luck>>

\* The process is lost, with what the session's storage still holds.
Crashes ==
    /\ drv.pc # "over" /\ base > 0 /\ Meets("crash")
    /\ drv' = [drv EXCEPT !.pc = "over"]
    /\ UNCHANGED <<landed, self, base, chat, queue, turn, read>>

\* The next activation of the seat, on the session of the last one.
NextActivation ==
    /\ drv.pc = "over" /\ Meets("again")
    /\ drv' = Rested /\ self' = Asleep /\ read' = {} /\ base' = 0
    /\ UNCHANGED <<landed, chat, queue, turn>>

\* What goes on by itself: the activation, and the harness.
Works ==
    \/ Opens \/ Rewinds \/ Submits \/ Runs \/ Settles \/ Drains \/ Drained
    \/ Stands \/ PassReturns

HarnessWorks == HarnessAsks \/ \E places \in BOOLEAN : HarnessAnswers(places)

Next ==
    \/ \E steered \in BOOLEAN : Lands(steered)
    \/ Begins \/ Opens \/ OpensFresh \/ OpenFails \/ Rewinds \/ Submits \/ Runs \/ Settles \/ Drains \/ Drained
    \/ Stands \/ PassReturns
    \/ HarnessAsks \/ HarnessGoesOn \/ HarnessFails \/ HarnessPlaces
    \/ \E places \in BOOLEAN : HarnessAnswers(places)
    \/ CutHappens \/ ViewFails \/ Crashes \/ Rests \/ NextActivation

\* What the activation counts as read, the conversation holds.
ReadIsGiven == \A l \in read : Given[l] > 0

=============================================================================
