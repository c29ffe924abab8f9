------------------------------ MODULE CodexPass -----------------------------
(***************************************************************************)
(* One activation on a codex app-server (codex/src executor.ts,            *)
(* app-server.ts, thread.ts): requests and their answers, and              *)
(* notifications, on two pipes.  A pass opens the thread, starts a turn    *)
(* and waits for the turn to complete; a line that lands meanwhile is      *)
(* steered into the turn, and its echo, not its answer, says that the      *)
(* model read it.  The server may refuse, fall silent or die.              *)
(***************************************************************************)
EXTENDS Driver

CONSTANTS Size, Passes, Lucks

VARIABLES
    landed,     \* how many messages the record holds
    drv,        \* the driver's pass, see Driver.tla
    self,       \* the memory of the activation and its connection
    expected,   \* the messages whose echo is awaited
    asks,       \* the requests on their way to the server
    says,       \* the answers and notifications on their way back
    server,     \* the process: its turn, and the input the turn still has to take
    given, read,
    luck        \* what may still go wrong

vars == <<landed, drv, self, expected, asks, says, server, given, read, luck>>

Line == 1 .. Size

\* running: a pass is between turn/start and its end, id: its turn is known.
\* link: none, open, closed by the activation, or ended with the process.
Asleep == [held |-> <<>>, running |-> FALSE, id |-> FALSE, over |-> FALSE, settled |-> "none",
           timer |-> FALSE, link |-> "none", thread |-> FALSE, stopped |-> FALSE]

Init ==
    /\ landed = 1 /\ drv = Rested /\ self = Asleep /\ expected = {}
    /\ asks = <<>> /\ says = <<>>
    /\ server = [up |-> FALSE, turn |-> 0, input |-> <<>>]
    /\ given = [l \in Line |-> 0] /\ read = {}
    /\ luck \in Lucks

Meets(what) == luck[what] > 0 /\ luck' = [luck EXCEPT ![what] = @ - 1]

-----------------------------------------------------------------------------
(* The requests of the activation *)

Message(lines) == [pass |-> drv.passes, lines |-> lines]

Request(op, lines) == [op |-> op, turn |-> drv.passes, message |-> Message(lines)]

\* Nothing is written to a process that ended.
Asked(requests) == IF self.link = "open" THEN asks \o requests ELSE asks

SteerOf(line) == Request("steer", {line})

\* A line for the turn, once its id is known; before that the line is held,
\* and for a turn that is over it waits for the next delta.
Steer(line) ==
    IF ~self.running \/ ~self.id
    THEN self' = [self EXCEPT !.held = Append(@, line)] /\ UNCHANGED <<asks, expected>>
    ELSE /\ UNCHANGED self
         /\ IF self.over THEN UNCHANGED <<asks, expected>>
            ELSE /\ asks' = Asked(<<SteerOf(line)>>)
                 /\ expected' = IF self.link = "open" THEN expected \cup {Message({line})} ELSE expected

Lands(steered) ==
    /\ landed < Size /\ landed' = landed + 1
    /\ IF steered THEN Forwards(drv, landed + 1) /\ Steer(landed + 1)
                  ELSE UNCHANGED <<self, asks, expected>>
    /\ UNCHANGED <<drv, says, server, given, read, luck>>

-----------------------------------------------------------------------------
(* A pass *)

Begins ==
    /\ Due(drv, read, landed) /\ drv.passes < Passes
    /\ drv' = Opened(drv, read, landed)
    /\ UNCHANGED <<landed, self, expected, asks, says, server, given, read, luck>>

\* The record is rendered.  The first pass connects and asks for a thread; a
\* pass after the process ended fails.
Connects ==
    /\ drv.pc = "reads"
    /\ LET d == [drv EXCEPT !.prompt = Rendered(drv)] IN
       IF self.link = "ended"
       THEN drv' = Ends(d, TRUE) /\ UNCHANGED <<self, asks, server>>
       ELSE IF self.thread THEN drv' = [d EXCEPT !.pc = "opened"] /\ UNCHANGED <<self, asks, server>>
       ELSE IF self.stopped THEN drv' = Ends(d, FALSE) /\ UNCHANGED <<self, asks, server>>
       ELSE /\ drv' = [d EXCEPT !.pc = "opens"]
            /\ self' = [self EXCEPT !.link = "open"]
            /\ asks' = <<Request("open", {})>>
            /\ server' = [server EXCEPT !.up = TRUE]
    /\ UNCHANGED <<landed, expected, says, given, read, luck>>

\* What broke is a failure of the pass, unless the activation was stopped.
Broke(d) == Ends(d, ~self.stopped)

\* The thread is open: the turn starts, unless the activation was stopped.
Starts ==
    /\ drv.pc = "opened"
    /\ IF self.stopped THEN drv' = Ends(drv, FALSE) /\ UNCHANGED <<self, asks, expected>>
       ELSE IF self.link # "open"
            THEN drv' = Broke(drv) /\ UNCHANGED <<self, asks, expected>>
            ELSE /\ drv' = [drv EXCEPT !.pc = "starts"]
                 /\ self' = [self EXCEPT !.running = TRUE, !.id = FALSE, !.over = FALSE,
                                         !.settled = "none"]
                 /\ asks' = Asked(<<Request("start", drv.prompt)>>)
                 /\ expected' = expected \cup {Message(drv.prompt)}
    /\ UNCHANGED <<landed, says, server, given, read, luck>>

\* The turn has its id: what was held goes out, after an interrupt if the
\* activation was stopped meanwhile.
Flushes ==
    /\ drv.pc = "started"
    /\ drv' = [drv EXCEPT !.pc = "waits"]
    /\ self' = [self EXCEPT !.id = TRUE, !.held = <<>>]
    /\ asks' = Asked((IF self.stopped THEN <<Request("interrupt", {})>> ELSE <<>>)
                     \o [i \in DOMAIN self.held |-> SteerOf(self.held[i])])
    /\ expected' = IF self.link = "open" THEN expected \cup {Message({l}) : l \in ToSet(self.held)}
                   ELSE expected
    /\ UNCHANGED <<landed, says, server, given, read, luck>>

\* The turn was settled.
Settles ==
    /\ drv.pc = "waits" /\ self.settled # "none"
    /\ drv' = Ends(drv, self.settled = "failed")
    /\ UNCHANGED <<landed, self, expected, asks, says, server, given, read, luck>>

PassReturns ==
    /\ drv.pc = "ends" /\ drv' = Returned(drv)
    /\ self' = [self EXCEPT !.held = <<>>, !.running = FALSE, !.timer = FALSE]
    /\ UNCHANGED <<landed, expected, asks, says, server, given, read, luck>>

-----------------------------------------------------------------------------
(* The server *)

Says(message) == Append(says, message)

Answer(request, ok) == [kind |-> "answer", of |-> request, ok |-> ok]

\* A steer joins the turn it names, and no other.
Serves(ok) ==
    /\ server.up /\ asks # <<>> /\ asks' = Tail(asks)
    /\ LET request == Head(asks) IN
       /\ request.op \in {"open", "start"} => (ok \/ luck["refuse"] > 0)
       /\ luck' = IF ~ok /\ request.op \in {"open", "start"} THEN [luck EXCEPT !["refuse"] = @ - 1]
                  ELSE luck
       /\ \/ /\ request.op = "open"
             /\ says' = Says(Answer(request, ok)) /\ UNCHANGED server
          \/ /\ request.op = "start"
             /\ says' = Says(Answer(request, ok))
             /\ server' = IF ok THEN [server EXCEPT !.turn = request.turn, !.input = <<request.message>>]
                          ELSE server
          \/ /\ request.op = "steer" /\ ok = (server.turn = request.turn)
             /\ says' = Says(Answer(request, ok))
             /\ server' = IF ok THEN [server EXCEPT !.input = Append(@, request.message)] ELSE server
          \/ /\ request.op = "interrupt" /\ ok
             /\ IF server.turn = request.turn
                THEN says' = Says([kind |-> "completed", of |-> request, ok |-> TRUE])
                     /\ server' = [server EXCEPT !.turn = 0, !.input = <<>>]
                ELSE UNCHANGED <<says, server>>
    /\ UNCHANGED <<landed, drv, self, expected, given, read>>

ModelTakes ==
    /\ server.up /\ server.input # <<>>
    /\ LET message == Head(server.input) IN
       /\ says' = Says([kind |-> "echo", of |-> message, ok |-> TRUE])
       /\ given' = [l \in Line |-> IF l \in message.lines THEN given[l] + 1 ELSE given[l]]
    /\ server' = [server EXCEPT !.input = Tail(@)]
    /\ UNCHANGED <<landed, drv, self, expected, asks, read, luck>>

TurnCompletes(ok) ==
    /\ server.up /\ server.turn # 0 /\ server.input = <<>>
    /\ ok \/ luck["fail"] > 0
    /\ luck' = IF ok THEN luck ELSE [luck EXCEPT !["fail"] = @ - 1]
    /\ says' = Says([kind |-> "completed", of |-> Request("start", {}), ok |-> ok])
    /\ server' = [server EXCEPT !.turn = 0]
    /\ UNCHANGED <<landed, drv, self, expected, asks, given, read>>

\* The process dies, or falls silent for good.
Dies ==
    /\ server.up /\ Meets("die")
    /\ server' = [up |-> FALSE, turn |-> 0, input |-> <<>>] /\ asks' = <<>>
    /\ says' = Says([kind |-> "exit", of |-> 0, ok |-> FALSE])
    /\ UNCHANGED <<landed, drv, self, expected, given, read>>

FallsSilent ==
    /\ server.up /\ Meets("silence")
    /\ server' = [up |-> FALSE, turn |-> 0, input |-> <<>>]
    /\ UNCHANGED <<landed, drv, self, expected, asks, says, given, read>>

-----------------------------------------------------------------------------
(* What the activation hears *)

\* An answer to a request that still waits.
Answered(request, ok) ==
    \/ /\ request.op = "open" /\ drv.pc = "opens"
       /\ IF ok THEN self' = [self EXCEPT !.thread = TRUE] /\ drv' = [drv EXCEPT !.pc = "opened"]
          ELSE drv' = Broke(drv) /\ UNCHANGED self
       /\ UNCHANGED <<expected, read>>
    \/ /\ request.op = "start" /\ drv.pc = "starts"
       /\ drv' = IF ok THEN [drv EXCEPT !.pc = "started"] ELSE Broke(drv)
       /\ UNCHANGED <<self, expected, read>>
    \* A refused steer leaves its line unread.
    \/ /\ request.op = "steer"
       /\ expected' = IF ok THEN expected ELSE expected \ {request.message}
       /\ UNCHANGED <<drv, self, read>>

\* The echo of a message that is awaited, once.
Echoed(message) ==
    /\ expected' = expected \ {message}
    /\ read' = IF message \in expected THEN read \cup message.lines ELSE read
    /\ UNCHANGED <<drv, self>>

SettledAs(outcome) == IF self.settled = "none" THEN outcome ELSE self.settled

\* A cut, or an interrupt, is no failure.
Completed(ok) ==
    /\ self' = IF self.running
               THEN [self EXCEPT !.over = TRUE,
                                 !.settled = SettledAs(IF ok \/ self.stopped THEN "well" ELSE "failed")]
               ELSE self
    /\ UNCHANGED <<drv, expected, read>>

\* Mutant of Exited: the pass in flight is not told.
ExitedSilently == [self EXCEPT !.link = IF @ = "closed" THEN @ ELSE "ended"]

\* The process ended: a pass in flight fails.
Exited ==
    IF self.link = "closed" THEN self
    ELSE [self EXCEPT !.link = "ended",
                      !.settled = IF self.running
                                  THEN SettledAs(IF self.stopped THEN "well" ELSE "failed") ELSE @]

\* Every request in flight fails with the process, and no echo comes any more.
Ended ==
    /\ self' = Exited
    /\ drv' = IF drv.pc \in {"opens", "starts"} THEN Broke(drv) ELSE drv
    /\ expected' = {} /\ asks' = <<>>
    /\ UNCHANGED read

Hears ==
    /\ says # <<>> /\ says' = Tail(says)
    /\ LET message == Head(says) IN
       \/ message.kind = "answer" /\ Answered(message.of, message.ok) /\ UNCHANGED asks
       \/ message.kind = "echo" /\ Echoed(message.of) /\ UNCHANGED asks
       \/ message.kind = "completed" /\ Completed(message.ok) /\ UNCHANGED asks
       \/ message.kind = "exit" /\ Ended
    /\ UNCHANGED <<landed, server, given, luck>>

-----------------------------------------------------------------------------
(* The cut and the end *)

\* The cut interrupts the turn, and a timer ends the pass if nothing else does.
CutHappens ==
    /\ drv.pc # "over" /\ drv.cut = "no" /\ Meets("cut")
    /\ drv' = Cut(drv)
    /\ self' = [self EXCEPT !.stopped = TRUE, !.timer = self.running]
    /\ asks' = IF self.running /\ self.id THEN Asked(<<Request("interrupt", {})>>) ELSE asks
    /\ UNCHANGED <<landed, expected, says, server, given, read>>

GraceEnds ==
    /\ self.timer
    /\ self' = [self EXCEPT !.timer = FALSE, !.settled = SettledAs("well")]
    /\ UNCHANGED <<landed, drv, expected, asks, says, server, given, read, luck>>

\* The driver closes the activation: the process is killed, and every
\* request in flight fails.
Closes ==
    /\ drv.pc = "over" \/ drv.cut # "no"
    /\ self.link \in {"open", "none"} /\ ~(self.link = "none" /\ self.stopped)
    /\ self' = [self EXCEPT !.stopped = TRUE, !.link = IF @ = "open" THEN "closed" ELSE @,
                            !.settled = IF self.running THEN SettledAs("well") ELSE @]
    /\ drv' = IF drv.pc \in {"opens", "starts"} THEN Ends(drv, FALSE) ELSE drv
    /\ server' = [up |-> FALSE, turn |-> 0, input |-> <<>>]
    /\ asks' = <<>> /\ says' = <<>> /\ expected' = {}
    /\ UNCHANGED <<landed, given, read, luck>>

\* A server that fell silent, and a pass that only a cut can end.
Silent == self.link = "open" /\ ~server.up /\ says = <<>> /\ drv.cut = "no"

\* What goes on by itself: the activation, and the server.
Works == Connects \/ Starts \/ Flushes \/ Settles \/ PassReturns

ServerWorks == ModelTakes \/ \E ok \in BOOLEAN : Serves(ok) \/ TurnCompletes(ok)

Next ==
    \/ \E steered \in BOOLEAN : Lands(steered)
    \/ Begins \/ Connects \/ Starts \/ Flushes \/ Settles \/ PassReturns
    \/ \E ok \in BOOLEAN : Serves(ok) \/ TurnCompletes(ok)
    \/ ModelTakes \/ Dies \/ FallsSilent \/ Hears
    \/ CutHappens \/ GraceEnds \/ Closes

=============================================================================
