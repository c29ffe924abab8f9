----------------------------- MODULE MCPackages -----------------------------
(***************************************************************************)
(* The packages beside the room for TLC.  They share no state, so one      *)
(* check takes them one at a time: the part is chosen at the start, and    *)
(* the others stay as they began.                                          *)
(***************************************************************************)
EXTENDS Processes, TLC

CONSTANTS Parts, Child, PerOpener, Plays, Person, WidgetPlays

VARIABLES
    part,
    canvas, resume, stored, rows, rooms, era, queue, bridge, talk, keys, doubted, excused, torn, chances,
    site, row, room, store, held, current, record, doubt, hears, acts, step, answers, results,
    reported, allowance

C == INSTANCE Canvas WITH host <- canvas, live <- rooms, chain <- bridge, spare <- chances

G == INSTANCE Widgets WITH host <- site, queue <- acts, told <- results, excused <- reported,
                          spare <- allowance, Plays <- WidgetPlays

canvasVars == <<canvas, resume, stored, rows, rooms, era, queue, bridge, talk, keys, doubted, excused,
                torn, chances>>

widgetVars == <<site, row, room, store, held, current, record, doubt, hears, acts, step, answers,
                results, reported, allowance>>

-----------------------------------------------------------------------------
(* What the environment may do *)

Some(names, ops) == [what \in names |-> IF what \in DOMAIN ops THEN ops[what] ELSE 0]

Scene(apart, ops) ==
    [outlives |-> apart,
     spare |-> Some({"look", "remind", "start", "call", "timeout", "die", "drop", "close", "crash", "ps"}, ops)]

MCScenes ==
    { \* a crash between two starts, and what the next run of the host lists
      Scene(TRUE, [start |-> 2, look |-> 1, crash |-> 1]),
      \* cancels and a timeout of one process, adopted or not
      Scene(TRUE, [start |-> 1, look |-> 2, call |-> 2, crash |-> 1]),
      Scene(TRUE, [start |-> 1, look |-> 1, call |-> 2, timeout |-> 1, crash |-> 1]),
      \* connections that drop; a table that closes
      Scene(TRUE, [start |-> 2, look |-> 1, drop |-> 1]),
      Scene(TRUE, [start |-> 1, call |-> 1, timeout |-> 1, close |-> 1]),
      Scene(TRUE, [start |-> 1, look |-> 1, timeout |-> 1, close |-> 1]),
      Scene(TRUE, [start |-> 1, timeout |-> 1, close |-> 1, drop |-> 1]),
      \* a ps that fails once; a cancel of a process that dies or whose run drops
      Scene(TRUE, [start |-> 2, look |-> 1, crash |-> 1, ps |-> 1]),
      Scene(TRUE, [start |-> 1, look |-> 1, timeout |-> 1, drop |-> 1, ps |-> 1]),
      Scene(TRUE, [start |-> 1, look |-> 2, timeout |-> 1, crash |-> 1, die |-> 1]),
      Scene(TRUE, [start |-> 1, look |-> 1, call |-> 1, drop |-> 1, die |-> 1]),
      \* ends that are shown, and ends that are forgotten
      Scene(TRUE, [start |-> 2, remind |-> 1, die |-> 1]),
      \* two timeouts; commands that end with the host
      Scene(TRUE, [start |-> 2, timeout |-> 2]),
      Scene(FALSE, [start |-> 2, timeout |-> 1, crash |-> 1]) }

Play(ops) ==
    Some({"rooms", "open", "start", "stop", "archive", "breakout", "report", "talk", "fault",
          "refuse", "close", "crash"}, ops @@ [rooms |-> 1])

StopPlays == { Play([stop |-> 1]) }

MCPlays ==
    { \* a stop of the root against launches, starts, breakout calls and reports
      Play([stop |-> 1, rooms |-> 2]),
      Play([stop |-> 1, start |-> 1, breakout |-> 1]),
      Play([stop |-> 1, start |-> 1, report |-> 1]),
      Play([stop |-> 1, breakout |-> 1, fault |-> 1]),
      Play([stop |-> 1, report |-> 1, fault |-> 1]),
      Play([stop |-> 1, report |-> 1, close |-> 1]),
      \* breakout calls that repeat, fail, are refused, and meet their bound
      Play([open |-> 1, breakout |-> 2, fault |-> 1]),
      Play([breakout |-> 2, rooms |-> 2]),
      Play([breakout |-> 1, talk |-> 1, fault |-> 1]),
      Play([breakout |-> 1, refuse |-> 1, archive |-> 1, close |-> 1]),
      \* what a crash leaves
      Play([breakout |-> 1, report |-> 1, crash |-> 1]),
      Play([archive |-> 1, report |-> 1, crash |-> 1]) }

\* Persons who press, against shows, lost confirmations, an author that leaves,
\* a stop, a crash and a close.
MCWidgetPlays ==
    { Some({"act", "show", "fault", "stop", "author", "close", "crash", "resume"}, ops) : ops \in
        { [act |-> 3, fault |-> 1],
          [act |-> 2, show |-> 1, fault |-> 1],
          [act |-> 2, fault |-> 1, author |-> 2],
          [act |-> 2, fault |-> 1, crash |-> 1, resume |-> 1],
          [act |-> 1, show |-> 1, fault |-> 1, crash |-> 1, resume |-> 1],
          [act |-> 2, stop |-> 1, fault |-> 1],
          [act |-> 1, show |-> 1, stop |-> 1],
          [act |-> 2, close |-> 1, resume |-> 1] } }

-----------------------------------------------------------------------------

PackagesInit ==
    /\ part \in Parts
    /\ Init /\ C!Init /\ G!Init
    /\ part # "processes" => spare = (CHOOSE scene \in Scenes : TRUE).spare
                             /\ outlives = (CHOOSE scene \in Scenes : TRUE).outlives
    /\ part # "canvas" => /\ chances = CHOOSE play \in Plays : TRUE
                          /\ stored = [n \in C!Room |-> "none"]
    /\ part # "widgets" => allowance = CHOOSE play \in WidgetPlays : TRUE

PackagesNext ==
    /\ UNCHANGED part
    /\ \/ part = "processes" /\ Next /\ UNCHANGED <<canvasVars, widgetVars>>
       \/ part = "canvas" /\ C!Next /\ UNCHANGED <<vars, widgetVars>>
       \/ part = "widgets" /\ G!Next /\ UNCHANGED <<vars, canvasVars>>

\* The fairness of the part that runs, as its module states it.
PackagesSpec ==
    /\ PackagesInit /\ [][PackagesNext]_<<part, vars, canvasVars, widgetVars>>
    /\ WF_vars(part = "processes" /\ ChainSteps) /\ WF_vars(part = "processes" /\ ReadSteps(0))
    /\ \A p \in Handle :
          /\ WF_vars(part = "processes" /\ (ReadSteps(p) \/ Polled(p)))
          /\ WF_vars(part = "processes" /\ OwnEnds(p))
          /\ WF_vars(part = "processes" /\ shell[p] \in {"doomed", "called"} /\ ShellDies(p))
          /\ SF_vars(part = "processes" /\ GraceEnds(p))
          /\ SF_vars(part = "processes" /\ CancelOver(p))
    /\ \A n \in C!Room : WF_canvasVars(part = "canvas" /\ C!OnRoom(n))
    /\ \A c \in Child : WF_canvasVars(part = "canvas" /\ ~C!Due /\ C!Tells(c))
    /\ WF_canvasVars(part = "canvas" /\ C!Works)
    /\ WF_widgetVars(part = "widgets" /\ G!Works)

StopsTogether == C!StopsTogether
HearsOnce == C!HearsOnce
PressesHold == G!PressesHold
\* The calls on the rooms of a canvas, and those on its widgets, end.
CallsSettle == []<>((part = "canvas" => C!Quiet) /\ (part = "widgets" => ~G!Serving))
StoppedStaysDown == C!StoppedStaysDown

=============================================================================
