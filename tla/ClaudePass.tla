----------------------------- MODULE ClaudePass -----------------------------
(***************************************************************************)
(* One activation on the Claude Agent SDK (claude/src executor.ts,         *)
(* steer.ts): one query for all its passes, fed through a streaming input. *)
(* The SDK echoes each message as the model takes it, and ends each turn   *)
(* with a result; a line that lands during the last answer runs as a turn  *)
(* of its own.  A pass waits for the result that answers all its messages, *)
(* and gives up on an echo after a grace.                                  *)
(***************************************************************************)
EXTENDS Driver

CONSTANTS Size, Passes, Lucks

VARIABLES
    landed,     \* how many messages the record holds
    drv,        \* the driver's pass, see Driver.tla
    self,       \* the memory of the activation
    sent,       \* the messages sent and not yet echoed, in order
    inbox,      \* the streaming input of the query in use
    sdk,        \* the process of the query, and the stream of its messages
    given, read, late,
    luck        \* what may still go wrong

vars == <<landed, drv, self, sent, inbox, sdk, given, read, late, luck>>

\* parked: a result that waits on the grace timer.  open: there is a query.
\* deaf: the pass asked after the cut, or a query whose stream had ended.
Asleep == [held |-> <<>>, settle |-> FALSE, open |-> FALSE, resuming |-> FALSE,
           heard |-> FALSE, parked |-> "none", stopped |-> FALSE, deaf |-> FALSE]

Line == 1 .. Size

Init ==
    /\ landed = 1 /\ drv = Rested /\ self = Asleep /\ sent = <<>>
    /\ inbox = [queue |-> <<>>, ended |-> FALSE]
    /\ sdk = [up |-> FALSE, turn |-> FALSE, out |-> <<>>]
    /\ given = [l \in Line |-> 0] /\ read = {} /\ late = FALSE
    /\ luck \in Lucks

Meets(what) == luck[what] > 0 /\ luck' = [luck EXCEPT ![what] = @ - 1]

-----------------------------------------------------------------------------
(* The input *)

\* The messages of a pass: one message is a set of lines, and its uuid.
Message(lines) == [pass |-> drv.passes, lines |-> lines]

Steered(line) == Message({line})

Pushed(box, messages) == IF box.ended THEN box ELSE [box EXCEPT !.queue = @ \o messages]

Send(messages) == sent' = sent \o messages /\ inbox' = Pushed(inbox, messages)

\* A line lands: before the prompt went out it is held.
Steer(line) ==
    IF self.settle
    THEN Send(<<Steered(line)>>) /\ UNCHANGED self
    ELSE self' = [self EXCEPT !.held = Append(@, line)] /\ UNCHANGED <<sent, inbox>>

\* A message lands, and its steer reaches the activation or is lost.
Lands(steered) ==
    /\ landed < Size /\ landed' = landed + 1
    /\ IF steered THEN Forwards(drv, landed + 1) /\ Steer(landed + 1)
                  ELSE UNCHANGED <<self, sent, inbox>>
    /\ UNCHANGED <<drv, sdk, given, read, late, luck>>

-----------------------------------------------------------------------------
(* A pass *)

Begins ==
    /\ Due(drv, read, landed) /\ drv.passes < Passes
    /\ drv' = Opened(drv, read, landed)
    /\ UNCHANGED <<landed, self, sent, inbox, sdk, given, read, late, luck>>

\* The record is rendered: the pass waits for its result, opens the query on
\* the first pass, sends the prompt and then what it held.
Asks ==
    /\ drv.pc = "reads"
    /\ drv' = [drv EXCEPT !.pc = "waits", !.prompt = Rendered(drv)]
    /\ self' = [self EXCEPT !.settle = TRUE, !.held = <<>>, !.open = TRUE,
                            !.resuming = IF self.open THEN @ ELSE luck.resume # "no",
                            !.deaf = self.stopped \/ (self.open /\ ~sdk.up /\ sdk.out = <<>>)]
    /\ sdk' = IF self.open THEN sdk ELSE [sdk EXCEPT !.up = TRUE]
    /\ Send(<<Message(Rendered(drv))>> \o [i \in DOMAIN self.held |-> Steered(self.held[i])])
    /\ UNCHANGED <<landed, given, read, late, luck>>

\* The record cannot be read, or the query of the first pass cannot open.
OpenFails ==
    /\ drv.pc = "reads" /\ Meets("break")
    /\ drv' = Ends(drv, TRUE)
    /\ UNCHANGED <<landed, self, sent, inbox, sdk, given, read, late>>

\* The promise of the pass settles: its finally block runs in a later turn.
PassReturns ==
    /\ drv.pc = "ends" /\ drv' = Returned(drv)
    /\ self' = [self EXCEPT !.settle = FALSE, !.held = <<>>, !.parked = "none"]
    /\ UNCHANGED <<landed, sent, inbox, sdk, given, read, late, luck>>

\* Settle the pass in flight, when one waits.
Finish(me, failed) ==
    /\ self' = [me EXCEPT !.parked = "none", !.settle = FALSE]
    /\ drv' = IF me.settle THEN Ends(drv, failed) ELSE drv

-----------------------------------------------------------------------------
(* The SDK: it takes the input in order, one turn after another *)

\* A query that resumes a session it cannot resume says so before any turn.
Unresumable == self.resuming /\ luck.resume \in {"refused", "throws"}

SdkTakes ==
    /\ sdk.up /\ inbox.queue # <<>> /\ ~Unresumable
    /\ LET message == Head(inbox.queue) IN
       /\ inbox' = [inbox EXCEPT !.queue = Tail(@)]
       /\ sdk' = [sdk EXCEPT !.turn = TRUE, !.out = Append(@, [kind |-> "echo", of |-> message])]
       /\ given' = [l \in Line |-> IF l \in message.lines THEN given[l] + 1 ELSE given[l]]
    /\ UNCHANGED <<landed, drv, self, sent, read, late, luck>>

\* A result says whether a message waits to be taken.
SdkAnswers(failed) ==
    /\ sdk.up /\ sdk.turn
    /\ failed => luck["fail"] > 0
    /\ luck' = IF failed THEN [luck EXCEPT !["fail"] = @ - 1] ELSE luck
    /\ sdk' = [sdk EXCEPT !.turn = FALSE,
                          !.out = Append(@, [kind |-> "result",
                                        of |-> [failed |-> failed, queued |-> inbox.queue # <<>>]])]
    /\ UNCHANGED <<landed, drv, self, sent, inbox, given, read, late>>

\* The process is gone, and its stream ends or throws.
Gone(kind) == [up |-> FALSE, turn |-> FALSE, out |-> Append(sdk.out, [kind |-> kind, of |-> 0])]

SdkRefuses ==
    /\ sdk.up /\ Unresumable
    /\ sdk' = Gone(IF luck.resume = "throws" THEN "throw" ELSE "refused")
    /\ UNCHANGED <<landed, drv, self, sent, inbox, given, read, late, luck>>

SdkDies(kind) ==
    /\ sdk.up /\ ~Unresumable /\ Meets("die")
    /\ sdk' = Gone(kind)
    /\ UNCHANGED <<landed, drv, self, sent, inbox, given, read, late>>

\* The first message names an executable that is too old for a seat.
SdkTooOld ==
    /\ sdk.up /\ ~Unresumable /\ ~self.heard /\ sdk.out = <<>> /\ ~sdk.turn /\ Meets("break")
    /\ sdk' = [sdk EXCEPT !.out = <<[kind |-> "old", of |-> 0]>>]
    /\ UNCHANGED <<landed, drv, self, sent, inbox, given, read, late>>

\* The process ends when its input did.
SdkEnds ==
    /\ sdk.up /\ inbox.ended /\ inbox.queue = <<>> /\ sdk' = Gone("end")
    /\ UNCHANGED <<landed, drv, self, sent, inbox, given, read, late, luck>>

-----------------------------------------------------------------------------
(* The stream *)

\* The query starts again without the session, over a new input with every
\* message that waits for its echo.  The old stream says nothing more.
Restart ==
    /\ self' = [self EXCEPT !.resuming = FALSE]
    /\ inbox' = [queue |-> sent, ended |-> FALSE]
    /\ sdk' = [up |-> TRUE, turn |-> FALSE, out |-> <<>>]
    /\ UNCHANGED <<drv, sent, read>>

Heard == [self EXCEPT !.heard = TRUE]

\* An echo of a message that waits, once.  It drops a parked result that did
\* not fail: the turn of the message answers next.
Echoed(message) ==
    /\ IF \E i \in DOMAIN sent : sent[i] = message
       THEN /\ sent' = SelectSeq(sent, LAMBDA m : m # message)
            /\ read' = read \cup message.lines
            /\ self' = [Heard EXCEPT !.parked = IF @ = "well" THEN "none" ELSE @]
       ELSE self' = Heard /\ UNCHANGED <<sent, read>>
    /\ UNCHANGED <<drv, inbox>>

\* Mutant of More: a result ends the pass, whatever waits for its echo.
MoreNever(queued) == FALSE

More(queued) == sent # <<>> \/ queued

\* A result ends the pass when every message sent has its echo and none is
\* queued; a failed one waits a moment for the standard error.
Answered(result) ==
    /\ IF self.stopped THEN self' = Heard /\ UNCHANGED drv
       ELSE IF result.failed \/ More(result.queued)
            THEN self' = [Heard EXCEPT !.parked = IF result.failed THEN "failed" ELSE "well"]
                 /\ UNCHANGED drv
            ELSE Finish(Heard, FALSE)
    /\ UNCHANGED <<sent, inbox, read>>

\* The stream ends, or throws: a parked result decides, else the pass failed.
Ended(kind) ==
    /\ IF kind = "throw" /\ self.stopped THEN UNCHANGED <<self, drv>>
       ELSE Finish(self, self.parked # "well")
    /\ UNCHANGED <<sent, inbox, read>>

Handles ==
    /\ sdk.out # <<>>
    /\ LET event == Head(sdk.out) IN
       \/ /\ event.kind = "echo" /\ Echoed(event.of) /\ sdk' = [sdk EXCEPT !.out = Tail(@)]
       \/ /\ event.kind = "result" /\ Answered(event.of) /\ sdk' = [sdk EXCEPT !.out = Tail(@)]
       \/ /\ event.kind \in {"end", "throw"}
          /\ ~(event.kind = "throw" /\ ~self.stopped /\ self.parked = "none"
               /\ self.resuming /\ ~self.heard)
          /\ Ended(event.kind) /\ sdk' = [sdk EXCEPT !.out = Tail(@)]
       \* a session that cannot be resumed
       \/ /\ event.kind = "throw" /\ ~self.stopped /\ self.parked = "none"
          /\ self.resuming /\ ~self.heard /\ Restart
       \/ /\ event.kind = "refused"
          /\ IF self.stopped
             THEN /\ Answered([failed |-> TRUE, queued |-> FALSE])
                  /\ sdk' = [sdk EXCEPT !.out = <<[kind |-> "end", of |-> 0]>>]
             ELSE Restart
       \* the pass fails at once, and the query closes
       \/ /\ event.kind = "old" /\ Finish([Heard EXCEPT !.stopped = TRUE], TRUE)
          /\ inbox' = [inbox EXCEPT !.ended = TRUE] /\ UNCHANGED <<sent, read>>
          /\ sdk' = [up |-> FALSE, turn |-> FALSE, out |-> <<[kind |-> "end", of |-> 0]>>]
    /\ UNCHANGED <<landed, given, late, luck>>

\* The grace of a parked result ends, and the pass with it.
GraceEnds ==
    /\ self.parked # "none"
    /\ Finish(self, self.parked = "failed")
    /\ late' = (late \/ sent # <<>>)
    /\ UNCHANGED <<landed, sent, inbox, sdk, given, read, luck>>

-----------------------------------------------------------------------------
(* The end *)

\* The cut interrupts the query and ends the pass in flight.
CutHappens ==
    /\ drv.pc # "over" /\ drv.cut = "no" /\ Meets("cut")
    /\ LET me == [self EXCEPT !.stopped = TRUE] IN
       /\ self' = [me EXCEPT !.parked = "none", !.settle = FALSE]
       /\ drv' = IF me.settle THEN Ends(Cut(drv), FALSE) ELSE Cut(drv)
    /\ UNCHANGED <<landed, sent, inbox, sdk, given, read, late>>

\* The activation is over, or was cut: the driver closes it.
Closes ==
    /\ drv.pc = "over" \/ drv.cut # "no"
    /\ ~inbox.ended
    /\ IF self.parked # "none"
       THEN Finish([self EXCEPT !.stopped = TRUE], self.parked = "failed")
       ELSE self' = [self EXCEPT !.stopped = TRUE] /\ UNCHANGED drv
    /\ inbox' = [inbox EXCEPT !.ended = TRUE]
    /\ sdk' = IF sdk.up THEN Gone("end") ELSE sdk
    /\ UNCHANGED <<landed, sent, given, read, late, luck>>

\* A pass that nobody may answer, until a cut of the activation ends it.
Deaf == self.deaf /\ drv.cut # "later"

\* What goes on by itself: the activation, and the process of the query.
Works == Asks \/ PassReturns

SdkWorks == SdkTakes \/ SdkRefuses \/ SdkEnds \/ \E failed \in BOOLEAN : SdkAnswers(failed)

Next ==
    \/ \E steered \in BOOLEAN : Lands(steered)
    \/ Begins \/ Asks \/ OpenFails \/ PassReturns
    \/ SdkTakes \/ SdkRefuses \/ SdkTooOld \/ SdkEnds
    \/ \E failed \in BOOLEAN : SdkAnswers(failed)
    \/ \E kind \in {"end", "throw"} : SdkDies(kind)
    \/ Handles \/ GraceEnds \/ CutHappens \/ Closes

=============================================================================
