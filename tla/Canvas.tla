------------------------------- MODULE Canvas -------------------------------
(***************************************************************************)
(* The rooms of a canvas (canvas/src canvas.ts, breakout.ts, bridge.ts,    *)
(* report.ts, queue.ts): a root, the breakout rooms an agent of the root   *)
(* opens, and the bridge that brings each finished exchange of a breakout  *)
(* room to the root.  The rows are durable; handles, queues and the chain  *)
(* of the bridge are the memory of one run of the host.                    *)
(*                                                                         *)
(* The operations on one room run one at a time, each a sequence of        *)
(* awaits; the operation of a root waits in the queues of its breakout     *)
(* rooms, and the bridge posts for the root in a chain of its own.  A room *)
(* itself (Room.tla) is what the canvas sees of it: it is started, posted  *)
(* to and stopped, and its exchanges close.                                *)
(***************************************************************************)
EXTENDS Integers, Sequences, FiniteSets

CONSTANTS
    Child,       \* the breakout rooms, numbered from 1 in the order of their rows
    PerOpener,   \* how many of them one opener holds running
    Plays        \* what the environment may do, how often, and in how many breakout rooms

VARIABLES
    host,      \* the run of the host: up, closing, closed, down
    resume,    \* the launch pass of resume: its stage and the rooms it has left
    stored,    \* the state of each row in the store
    rows,      \* and in memory
    live,      \* the rooms with a handle
    era,       \* counts the handles of the root in this run of the host
    queue,     \* the operations of each room
    chain,     \* the posts of the bridge for the root
    talk,      \* the journal of each breakout room: started, an exchange open, how many closed
    keys,      \* the keys of the bridge in the journal of the root
    doubted,   \* the keys whose post failed in doubt: they have landed or may land later
    excused,   \* history: notices whose pass or post failed
    torn,      \* history: a stop of the root failed, or a call came after it
    spare      \* what is left for the environment

vars == <<host, resume, stored, rows, live, era, queue, chain, talk, keys, doubted, excused, torn,
          spare>>

Root == 0
Room == {Root} \cup Child

Used == {c \in Child : c <= spare["rooms"]}

Spend(what) == spare[what] > 0 /\ spare' = [spare EXCEPT ![what] = @ - 1]

First(todo) == CHOOSE c \in todo : \A d \in todo : c <= d

Silent == [started |-> FALSE, open |-> FALSE, closed |-> 0]

NoQueues == [n \in Room |-> <<>>]

NoResume == [stage |-> "none", todo |-> {}]

\* What a run that crashed left: a breakout room may have an exchange that
\* closed unheard, and one that is open.
Left == {[started |-> TRUE, open |-> open, closed |-> 1] : open \in BOOLEAN}

Init ==
    /\ spare \in Plays
    /\ host = "down" /\ resume = NoResume
    /\ stored \in [Room -> {"none", "running"}]
    /\ \A c \in Child : stored[c] # "none" => stored[Root] # "none" /\ c \in Used
    /\ rows = [n \in Room |-> "none"]
    /\ live = {} /\ era = 0 /\ queue = NoQueues /\ chain = <<>>
    /\ talk \in [Child -> Left \cup {Silent}]
    /\ \A c \in Child : stored[c] = "none" <=> talk[c] = Silent
    /\ keys = {} /\ doubted = {} /\ excused = {} /\ torn = FALSE

-----------------------------------------------------------------------------
(* Queues *)

Op(kind, by) == [kind |-> kind, by |-> by, pc |-> "new", todo |-> {}, exchange |-> 0, parent |-> 0]

Enqueue(n, op) == queue' = [queue EXCEPT ![n] = Append(@, op)]

At(n, pc) == queue[n] # <<>> /\ Head(queue[n]).pc = pc

Kind(n) == Head(queue[n]).kind

Goes(n, op) == [queue EXCEPT ![n] = <<op>> \o Tail(@)]

\* The operation goes on at pc, or is over.
Moves(n, pc) == queue' = Goes(n, [Head(queue[n]) EXCEPT !.pc = pc])
Over(n) == queue' = [queue EXCEPT ![n] = Tail(@)]

\* A post of the bridge: a pass over a breakout room or a report, and whose
\* operation waits for it.
Nobody == -1
TheResume == -2

Post(kind, c, by) ==
    [kind |-> kind, child |-> c, by |-> by, pc |-> "new", todo |-> {}, parent |-> 0]

\* A room whose stop has begun takes no more posts.
Stopping(n) == At(n, "stopping")

Ready == host = "up"

Rowed == {c \in Child : rows[c] # "none"}
RunningRows == {c \in Child : rows[c] = "running"}

-----------------------------------------------------------------------------
(* Calls *)

HostCalls(n, kind) ==
    /\ Ready /\ Spend(kind)
    /\ kind = "open" => n = Root
    /\ kind = "archive" => n # Root
    /\ Enqueue(n, Op(kind, "host"))
    /\ UNCHANGED <<host, resume, stored, rows, live, era, chain, talk, keys, doubted, excused, torn>>

\* An agent of the root opens a breakout room; one that runs in a breakout room
\* reports inside its exchange.  A call of an activation that the stop of the
\* root cut may still come.
AgentOpens(c) ==
    /\ Ready /\ era > 0 /\ Spend("breakout")
    /\ Enqueue(c, Op("breakout", IF Root \in live THEN "agent" ELSE "late"))
    /\ UNCHANGED <<host, resume, stored, rows, live, era, chain, talk, keys, doubted, excused, torn>>

AgentTells(c) ==
    /\ Ready /\ era > 0 /\ rows[c] # "none" /\ Spend("talk")
    /\ Enqueue(c, Op("tell", "agent"))
    /\ UNCHANGED <<host, resume, stored, rows, live, era, chain, talk, keys, doubted, excused, torn>>

WorkerReports(c) ==
    /\ Ready /\ c \in live /\ talk[c].open /\ Spend("report")
    /\ Enqueue(c, [Op("report", "agent") EXCEPT !.exchange = talk[c].closed + 1])
    /\ UNCHANGED <<host, resume, stored, rows, live, era, chain, talk, keys, doubted, excused, torn>>

-----------------------------------------------------------------------------
(* The first turn of an operation *)

Held == Cardinality(RunningRows)

\* What launch does before it awaits: a live handle needs nothing.
LaunchPc(n) ==
    IF ~Ready THEN "failed" ELSE IF n \in live THEN "launched"
    ELSE IF rows[n] \in {"none", "archived"} THEN "failed" ELSE "begin"

StopPc(n) == IF n \in live THEN "stopping" ELSE "stopped"

\* The pc of the first await of each operation; "over" is a refusal, or a call
\* with nothing to do.  An open of a room that the canvas has is a start of it.
OpenPc(n) == IF rows[n] = "none" THEN "record" ELSE IF n \in live THEN "over" ELSE "start"

StartPc(n) ==
    IF rows[n] \in {"none", "archived"} \/ (n # Root /\ Root \notin live) THEN "over"
    ELSE IF rows[n] = "running" THEN LaunchPc(n) ELSE "record"

StopRowPc(n) ==
    IF rows[n] \in {"none", "archived"} THEN "over"
    ELSE IF rows[n] = "stopped" THEN StopPc(n) ELSE "record"

ArchivePc(n) == IF rows[n] = "none" THEN "over" ELSE "record"

\* A repeat completes the start of a running row, and checks no bound.
BreakoutPc(n) ==
    IF rows[n] = "none" THEN IF Held >= PerOpener \/ Root \notin live THEN "over" ELSE "record"
    ELSE IF rows[n] = "running" /\ n \notin live THEN LaunchPc(n) ELSE "over"

TellPc(n) == IF rows[n] = "running" /\ n \in live THEN "tell" ELSE "over"

ReportPc(n) == IF rows[n] # "running" \/ Root \notin live THEN "over" ELSE "chained"

FirstPc(n) ==
    CASE Kind(n) = "open" -> OpenPc(n)
      [] Kind(n) = "start" -> StartPc(n)
      [] Kind(n) = "stop" -> StopRowPc(n)
      [] Kind(n) = "archive" -> ArchivePc(n)
      [] Kind(n) = "breakout" -> BreakoutPc(n)
      [] Kind(n) = "tell" -> TellPc(n)
      [] Kind(n) = "launch" -> LaunchPc(n)
      [] Kind(n) = "release" -> StopPc(n)
      [] Kind(n) = "report" -> ReportPc(n)

Turns(n) ==
    /\ At(n, "new")
    /\ LET pc == FirstPc(n) IN
       /\ CASE pc \in {"over", "failed"} -> Over(n)
            [] pc = "start" -> queue' = Goes(n, [Head(queue[n]) EXCEPT !.kind = "start"])
            [] pc = "begin" /\ Kind(n) = "breakout" ->
                 queue' = Goes(n, [Head(queue[n]) EXCEPT !.pc = pc, !.kind = "complete"])
            [] OTHER -> Moves(n, pc)
       \* The row of a new breakout room holds its place at once.
       /\ rows' = IF Kind(n) = "breakout" /\ pc = "record" THEN [rows EXCEPT ![n] = "running"]
                  ELSE rows
       \* A report waits in the chain, for the handle of the root it saw.
       /\ chain' = IF pc = "chained"
                   THEN Append(chain, [Post("report", n, n) EXCEPT
                                          !.todo = {Head(queue[n]).exchange}, !.parent = era])
                   ELSE chain
    /\ UNCHANGED <<host, resume, stored, live, era, talk, keys, doubted, excused, torn,
                   spare>>

-----------------------------------------------------------------------------
(* The awaits of an operation *)

\* The store answers.
Records(n) ==
    /\ At(n, "record")
    /\ LET state == CASE Kind(n) = "stop" -> "stopped"
                      [] Kind(n) = "archive" -> "archived"
                      [] OTHER -> "running"
           next == CASE Kind(n) \in {"stop", "archive"} -> StopPc(n)
                     [] OTHER -> IF Ready THEN "begin" ELSE "failed"
       IN \/ /\ stored' = [stored EXCEPT ![n] = IF @ = "archived" THEN @ ELSE state]
             /\ rows' = [rows EXCEPT ![n] = IF @ = "archived" THEN @ ELSE state]
             /\ IF next = "failed" THEN Over(n) ELSE Moves(n, next)
             /\ UNCHANGED spare
          \/ /\ Spend("fault") /\ Over(n) /\ UNCHANGED stored
             /\ rows' = IF Kind(n) = "breakout" THEN [rows EXCEPT ![n] = "none"] ELSE rows
    /\ UNCHANGED <<host, resume, live, era, chain, talk, keys, doubted, excused, torn>>

\* An exchange of the journal closes.
Closing(c) == [talk EXCEPT ![c].open = FALSE, ![c].closed = @ + 1]

\* The room starts, or resumes from its journal.  A resumed room may close an
\* exchange before the bridge listens to it.
Begins(n) ==
    /\ At(n, "begin")
    /\ \/ /\ live' = live \cup {n}
          /\ era' = IF n = Root THEN era + 1 ELSE era
          /\ \/ UNCHANGED talk
             \/ n # Root /\ talk[n].open /\ talk' = Closing(n)
          /\ Moves(n, IF n = Root THEN "launched" ELSE "post")
          /\ torn' = (torn \/ Head(queue[n]).by = "late")
          /\ UNCHANGED spare
       \/ Spend("fault") /\ Over(n) /\ UNCHANGED <<live, era, talk, torn>>
    /\ UNCHANGED <<host, resume, stored, rows, chain, keys, doubted, excused>>

Starting(c) ==
    IF talk[c].started THEN talk ELSE [talk EXCEPT ![c].started = TRUE, ![c].open = TRUE]

\* The start post, under its key: it lands, the room refuses it, or it fails,
\* landed or not.
PostsStart(n) ==
    /\ At(n, "post")
    /\ \/ talk' = Starting(n) /\ Moves(n, "launched") /\ UNCHANGED spare
       \/ /\ ~talk[n].started /\ Spend("refuse") /\ UNCHANGED talk
          /\ queue' = Goes(n, [Head(queue[n]) EXCEPT !.kind = "archive", !.pc = "record"])
       \/ /\ Spend("fault") /\ talk' \in {talk, Starting(n)}
          /\ queue' = Goes(n, [Head(queue[n]) EXCEPT !.kind = "release", !.pc = "stopping"])
    /\ UNCHANGED <<host, resume, stored, rows, live, era, chain, keys, doubted, excused, torn>>

Pass(c, by) == Post("pass", c, by)

\* Mutant of Completed: a repeat of a breakout call leaves its exchanges to the events.
CompletedUnread(c) == chain

\* A breakout room that a repeated call started is read once.
Completed(c) == Append(chain, Pass(c, Nobody))

\* The room runs.  A start goes on with the breakout rooms and with the bridge.
Launched(n) ==
    /\ At(n, "launched")
    /\ LET op == Head(queue[n]) IN
       CASE op.kind = "start" ->
              /\ queue' = Goes(n, [op EXCEPT !.pc = IF n = Root THEN "children" ELSE "replay",
                                             !.todo = IF n = Root THEN RunningRows ELSE Rowed])
              /\ UNCHANGED chain
         [] OTHER -> Over(n) /\ chain' = IF op.kind = "complete" THEN Completed(n) ELSE chain
    /\ UNCHANGED <<host, resume, stored, rows, live, era, talk, keys, doubted, excused, torn,
                   spare>>

\* The room has stopped, or its stop failed: the handle is gone either way, and
\* a stop of the root that failed goes no further.
Stops(n) ==
    /\ At(n, "stopping")
    /\ live' = live \ {n}
    /\ \/ Moves(n, "stopped") /\ UNCHANGED <<torn, spare>>
       \/ Spend("fault") /\ Over(n) /\ torn' = (torn \/ n = Root)
    /\ UNCHANGED <<host, resume, stored, rows, era, chain, talk, keys, doubted, excused>>

\* Mutant of Released: only the breakout rooms that are live by now.
ReleasedLive == Rowed \cap live

\* A stop of the root releases every breakout room, live or about to be.
Released == Rowed

Stopped(n) ==
    /\ At(n, "stopped")
    /\ IF Kind(n) = "stop" /\ n = Root
       THEN queue' = Goes(n, [Head(queue[n]) EXCEPT !.pc = "children", !.todo = Released])
       ELSE Over(n)
    /\ UNCHANGED <<host, resume, stored, rows, live, era, chain, talk, keys, doubted, excused, torn,
                   spare>>

-----------------------------------------------------------------------------
(* What an operation of the root, and resume, do with the breakout rooms *)

NoneBy(by) == \A n \in Room : \A i \in DOMAIN queue[n] : queue[n][i].by # by

NoPostBy(by) == \A i \in DOMAIN chain : chain[i].by # by

\* The root starts or stops its breakout rooms, each in its own queue.
NextChild ==
    /\ At(Root, "children") /\ NoneBy("root")
    /\ LET op == Head(queue[Root])
           c == First(op.todo)
           rest == Goes(Root, [op EXCEPT !.todo = @ \ {c}])
       IN IF op.todo = {}
          THEN IF op.kind = "stop" THEN Over(Root)
               ELSE queue' = Goes(Root, [op EXCEPT !.pc = "replay", !.todo = Rowed])
          ELSE queue' = [rest EXCEPT ![c] = Append(@, Op(IF op.kind = "stop" THEN "release"
                                                         ELSE "launch", "root"))]
    /\ UNCHANGED <<host, resume, stored, rows, live, era, chain, talk, keys, doubted, excused, torn,
                   spare>>

\* After a start the bridge reads every breakout room of the root.
NextReplay(n) ==
    /\ At(n, "replay") /\ NoPostBy(n)
    /\ LET op == Head(queue[n]) IN
       IF op.todo = {} \/ (op.todo = Rowed /\ (~Ready \/ Root \notin live))
       THEN Over(n) /\ UNCHANGED chain
       ELSE /\ queue' = Goes(n, [op EXCEPT !.todo = @ \ {First(op.todo)}])
            /\ chain' = IF rows[First(op.todo)] = "archived" THEN chain
                        ELSE Append(chain, Pass(First(op.todo), n))
    /\ UNCHANGED <<host, resume, stored, rows, live, era, talk, keys, doubted, excused, torn,
                   spare>>

Resumes ==
    /\ host = "down" /\ host' = "up" /\ rows' = stored
    /\ resume' = [stage |-> "root", todo |-> IF stored[Root] = "running" THEN {Root} ELSE {}]
    /\ UNCHANGED <<stored, live, era, queue, chain, talk, keys, doubted, excused, torn,
                   spare>>

\* Each launch of the pass waits for the one before; what it launches was read first.
NextLaunch ==
    /\ resume.stage \in {"root", "child"} /\ NoneBy("resume")
    /\ IF resume.todo = {} \/ ~Ready
       THEN /\ resume' = IF resume.stage = "root"
                         THEN [stage |-> "child", todo |-> IF Root \in live THEN RunningRows ELSE {}]
                         ELSE [stage |-> "replay", todo |-> IF Root \in live /\ Ready THEN Rowed ELSE {}]
            /\ UNCHANGED queue
       ELSE /\ Enqueue(First(resume.todo), Op("launch", "resume"))
            /\ resume' = [resume EXCEPT !.todo = @ \ {First(resume.todo)}]
    /\ UNCHANGED <<host, stored, rows, live, era, chain, talk, keys, doubted, excused, torn,
                   spare>>

ResumeReplays ==
    /\ resume.stage = "replay" /\ NoPostBy(TheResume)
    /\ IF resume.todo = {} THEN resume' = [resume EXCEPT !.stage = "done"] /\ UNCHANGED chain
       ELSE LET c == First(resume.todo) IN
            /\ resume' = [resume EXCEPT !.todo = @ \ {c}]
            /\ chain' = IF rows[c] = "archived" THEN chain ELSE Append(chain, Pass(c, TheResume))
    /\ UNCHANGED <<host, stored, rows, live, era, queue, talk, keys, doubted, excused, torn,
                   spare>>

-----------------------------------------------------------------------------
(* The bridge *)

ReportAnswered(n) ==
    /\ At(n, "chained") /\ NoPostBy(n) /\ Over(n)
    /\ UNCHANGED <<host, resume, stored, rows, live, era, chain, talk, keys, doubted, excused, torn,
                   spare>>

Heard(c) == {e \in 1..talk[c].closed : \E kind \in {"notice", "report"} : <<c, e, kind>> \in keys}

Reaches(c) == Ready /\ rows[c] # "archived"

\* Mutant of InTurn: a post of the bridge takes its turn in the queue of the root.
InTurnOfRoot(kind, pc) ==
    chain # <<>> /\ Head(chain).kind = kind /\ Head(chain).pc = pc /\ queue[Root] = <<>>

\* The posts for the root are in a chain of their own, and wait for the room alone.
InTurn(kind, pc) == chain # <<>> /\ Head(chain).kind = kind /\ Head(chain).pc = pc

Unheard(c) == (1..talk[c].closed) \ Heard(c)

\* A pass reads the breakout room and the keys that the root holds for it.  A
\* read that fails is reported, and the pass ends with all its notices.
PassReads ==
    /\ InTurn("pass", "new")
    /\ LET item == Head(chain)
           c == item.child
           serves == Root \in live /\ Reaches(c)
       IN \/ /\ chain' = IF serves THEN <<[item EXCEPT !.pc = "post", !.parent = era,
                                                     !.todo = Unheard(c)]>> \o Tail(chain)
                          ELSE Tail(chain)
             /\ UNCHANGED <<excused, spare>>
          \/ /\ serves /\ Spend("fault") /\ chain' = Tail(chain)
             /\ excused' = excused \cup {<<c, e>> : e \in Unheard(c)}
    /\ UNCHANGED <<host, resume, stored, rows, live, era, queue, talk, keys, doubted, torn>>

\* A post of a handle that stopped does not land.
Lands(item) == Root \in live /\ ~Stopping(Root) /\ item.parent = era

\* What becomes of a post: it lands, the root stops, or it fails, for good or in
\* doubt.  What was in doubt before a post that lands has landed or never will:
\* the journal of the root appends where it read to (Journal.tla).
Answered(item, key) ==
    /\ IF Lands(item) THEN keys' = keys \cup {key} /\ doubted' = doubted \cap keys
       ELSE UNCHANGED <<keys, doubted>>
    /\ UNCHANGED spare

Fails(item, key) ==
    /\ Spend("fault") /\ UNCHANGED keys
    /\ doubted' \in {doubted, IF Lands(item) THEN doubted \cup {key} ELSE doubted}

\* One notice, under its key.
PassPosts ==
    /\ InTurn("pass", "post")
    /\ LET item == Head(chain)
           e == First(item.todo)
           key == <<item.child, e, "notice">>
           rest == <<[item EXCEPT !.todo = @ \ {e}]>> \o Tail(chain)
       IN IF item.todo = {} \/ ~Reaches(item.child)
          THEN chain' = Tail(chain) /\ UNCHANGED <<keys, doubted, excused, spare>>
          ELSE /\ chain' = rest
               /\ \/ Answered(item, key) /\ UNCHANGED excused
                  \/ Fails(item, key) /\ excused' = excused \cup {<<item.child, e>>}
    /\ UNCHANGED <<host, resume, stored, rows, live, era, queue, talk, torn>>

\* A report that fails is told to its agent alone.
ReportPosts ==
    /\ InTurn("report", "new") /\ chain' = Tail(chain)
    /\ LET item == Head(chain)
           key == <<item.child, First(item.todo), "report">>
       IN Answered(item, key) \/ Fails(item, key)
    /\ UNCHANGED <<host, resume, stored, rows, live, era, queue, talk, excused, torn>>

\* A post in doubt lands after its caller was told that it failed.
LandsLate ==
    /\ \E key \in doubted \ keys : keys' = keys \cup {key}
    /\ UNCHANGED <<host, resume, stored, rows, live, era, queue, chain, talk, doubted, excused, torn,
                   spare>>

-----------------------------------------------------------------------------
(* The rooms *)

Tells(c) ==
    /\ At(c, "tell") /\ Over(c) /\ talk' = [talk EXCEPT ![c].open = TRUE]
    /\ UNCHANGED <<host, resume, stored, rows, live, era, chain, keys, doubted, excused, torn,
                   spare>>

\* An exchange closes.  The bridge hears it, unless the room stops or the
\* canvas closes.
ExchangeCloses(c) ==
    /\ c \in live /\ talk[c].open /\ talk' = Closing(c)
    /\ chain' = IF Stopping(c) \/ ~Ready THEN chain ELSE Append(chain, Pass(c, Nobody))
    /\ UNCHANGED <<host, resume, stored, rows, live, era, queue, keys, doubted, excused, torn,
                   spare>>

-----------------------------------------------------------------------------
(* The run of the host *)

Closes ==
    /\ Ready /\ Spend("close") /\ host' = "closing"
    /\ UNCHANGED <<resume, stored, rows, live, era, queue, chain, talk, keys, doubted, excused, torn>>

\* The close waits for resume, for the queues and for the chain, and stops every room.
ShutsDown ==
    /\ host = "closing" /\ resume.stage = "done" /\ queue = NoQueues /\ chain = <<>>
    /\ host' = "down" /\ live' = {}
    /\ rows' = [n \in Room |-> "none"] /\ resume' = NoResume /\ era' = 0 /\ torn' = FALSE
    /\ UNCHANGED <<stored, queue, chain, talk, keys, doubted, excused, spare>>

\* The rows survive a crash, and so do the journals.
Crashes ==
    /\ host # "down" /\ Spend("crash") /\ host' = "down" /\ resume' = NoResume
    /\ rows' = [n \in Room |-> "none"] /\ live' = {}
    /\ queue' = NoQueues /\ chain' = <<>> /\ era' = 0 /\ torn' = FALSE
    /\ UNCHANGED <<stored, talk, keys, doubted, excused>>

\* What an operation does when an await has been answered runs before anything
\* else arrives.
Continues(n) ==
    Turns(n) \/ Launched(n) \/ Stopped(n) \/ NextReplay(n) \/ ReportAnswered(n)

ResumeContinues == NextLaunch \/ ResumeReplays

ResumeDue ==
    \/ resume.stage \in {"root", "child"} /\ NoneBy("resume")
    \/ resume.stage = "replay" /\ NoPostBy(TheResume)

Due ==
    \/ ResumeDue
    \/ \E n \in Room :
          \/ \E pc \in {"new", "launched", "stopped"} : At(n, pc)
          \/ \E pc \in {"replay", "chained"} : At(n, pc) /\ NoPostBy(n)
    \/ At(Root, "children") /\ NoneBy("root")

Answers(n) == Records(n) \/ Begins(n) \/ PostsStart(n) \/ Stops(n)

\* The pass of resume goes on in fewer turns than an operation that was behind
\* its launch takes.
OnRoom(n) == (~ResumeDue /\ Continues(n)) \/ (~Due /\ Answers(n))

Works ==
    \/ ResumeContinues \/ (~ResumeDue /\ NextChild)
    \/ ~Due /\ (Resumes \/ PassReads \/ PassPosts \/ ReportPosts \/ ShutsDown)

Calls(c) == AgentOpens(c) \/ AgentTells(c) \/ WorkerReports(c) \/ ExchangeCloses(c)

Next ==
    \/ \E n \in Room : OnRoom(n)
    \/ Works
    \/ ~Due /\ \E n \in {Root} \cup Used, kind \in {"open", "start", "stop", "archive"} : HostCalls(n, kind)
    \/ ~Due /\ \E c \in Used : Calls(c) \/ Tells(c)
    \/ ~Due /\ (Closes \/ Crashes \/ LandsLate)

\* What runs in the host goes on: every await is answered, by a result or an error.
FairSpec ==
    /\ Init /\ [][Next]_vars
    /\ \A n \in Room : WF_vars(OnRoom(n))
    /\ \A c \in Child : WF_vars(~Due /\ Tells(c))
    /\ WF_vars(Works)

-----------------------------------------------------------------------------
(* Properties *)

Quiet == Ready /\ resume.stage = "done" /\ queue = NoQueues /\ chain = <<>>

Notified == \A c \in live \ {Root} : \A e \in 1..talk[c].closed : e \in Heard(c) \/ <<c, e>> \in excused

\* Each finished exchange of a running breakout room reaches the root: once the
\* calls have settled it has a report or a notice there, also one that closed
\* while the room resumed, stopped, or while the host was down (bridge.ts
\* notices, replay; canvas.ts completeBreakout).  Excused are the notices of a
\* pass whose reads failed and a notice whose post failed, which go to onError.
\* And it reaches it once: a notice never follows the report of its exchange
\* (report.ts posts in the chain), unless that report failed in doubt, for it
\* may land between the keys that a pass reads and its notice.
HearsOnce ==
    /\ [](Quiet /\ Root \in live => Notified)
    /\ [][\A <<c, e, kind>> \in keys' \ keys :
              kind = "notice" => <<c, e, "report">> \notin keys \ doubted]_vars

\* A stop of the root stops its breakout rooms: when the calls have settled none
\* runs under a root that does not, whatever launches of a resume, starts and
\* repeated breakout calls went on meanwhile (canvas.ts releaseChildren,
\* launchAll: both walk the rows in one order).  Two cases are excepted: a stop
\* of the root that failed goes no further, and a repeated breakout call that
\* comes after the root stopped launches its room (completeBreakout does not
\* look at the parent).
StopsTogether == Quiet /\ Root \notin live /\ ~torn => live = {}

\* A stopped room stays down: no launch brings up a room whose row is stopped.
\* (docs/canvas.md: a stopped room starts again "At canvas.start of that room",
\* which sets the row to running first.)
StoppedStaysDown == [][\A n \in live' \ live : rows[n] # "stopped"]_vars

\* The calls settle: a report that holds the queue of its room, a stop of the
\* root that waits in it, and the chain of the bridge never wait for each other
\* (bridge.ts, its head comment), and a close ends (canvas.ts shutdown).
CallsSettle == []<>Quiet

=============================================================================
