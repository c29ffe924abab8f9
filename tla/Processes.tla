----------------------------- MODULE Processes -----------------------------
(***************************************************************************)
(* The background processes of one agent (workspace/src processes.ts,      *)
(* process-files.ts, process-cancel.ts, process-run.ts).  The files of a   *)
(* process are the source of truth; a run of the host reads them for every *)
(* answer, owns the processes it started and adopts those of earlier runs. *)
(*                                                                         *)
(* The bash resource runs one operation at a time; the poll of a cancel    *)
(* and the end of a process's own run go beside it.  A listing is one      *)
(* shell script of two halves: it prints the files, then it asks ps.       *)
(***************************************************************************)
EXTENDS Integers, Sequences, FiniteSets

CONSTANTS
    Handle,         \* the processes, numbered in the order they start
    MaxRunning,     \* MAX_RUNNING_PROCESSES
    MaxFinished,    \* MAX_FINISHED_PROCESSES
    Scenes          \* the backend, and what the environment may do, how often

VARIABLES
    outlives,   \* the backend's commands outlive the host, and it has signals and ps
    disk,       \* the files of each process
    shell,      \* its shell: none, coming, called (aborted before it came), up, termed, doomed
                \* (SIGKILL follows) or gone
    host,       \* the run of the host: up, closing, leaving, down
    live,       \* the processes in memory
    own,        \* the run of a process on its own environment
    op,         \* the operation on the bash resource
    reads,      \* the read of that operation (0) and of each poll
    chain,      \* the cancel steps of the agent
    cancel,     \* the cancel that runs for each process
    told,       \* the ends this run of the host told its listeners of
    byRun,      \* history: what the process's own run left: no, settled or outlived
    named,      \* history: the first cause a cancel wrote for a process whose end is not told
    raced,      \* history: those whose cause came after a look that may still write over it
    missed,     \* history: shells that a failed ps hid, or that were still to come when their run ended
    answered,   \* history: the last state an operation answered
    spare       \* what is left for the environment

notes == <<told, byRun, named, raced, missed, answered>>

vars == <<outlives, disk, shell, host, live, own, op, reads, chain, cancel, notes, spare>>

Spend(what) == spare[what] > 0 /\ spare' = [spare EXCEPT ![what] = @ - 1]

NoFiles == [spec |-> FALSE, pid |-> FALSE, exit |-> "none", stop |-> "none", seen |-> FALSE]
NotLive == [in |-> FALSE, own |-> FALSE, stopping |-> "none", left |-> FALSE, armed |-> FALSE]
NoRun == [pc |-> "none", result |-> "none", files |-> NoFiles]
NoRead == [pc |-> "none", ours |-> {}, files |-> [p \in Handle |-> NoFiles], todo |-> {},
           found |-> [p \in Handle |-> "none"]]
NoCancel == [pc |-> "none", cause |-> "none", owned |-> FALSE]
Idle == [kind |-> "none", new |-> 0]

NoLives == [p \in Handle |-> NotLive]
NoRuns == [p \in Handle |-> NoRun]
NoReads == [r \in {0} \cup Handle |-> NoRead]
NoCancels == [p \in Handle |-> NoCancel]

Init ==
    /\ \E scene \in Scenes : outlives = scene.outlives /\ spare = scene.spare
    /\ disk = [p \in Handle |-> NoFiles] /\ shell = [p \in Handle |-> "none"]
    /\ host = "up" /\ live = NoLives /\ own = NoRuns /\ op = Idle /\ reads = NoReads
    /\ chain = <<>> /\ cancel = NoCancels
    /\ told = [p \in Handle |-> 0] /\ byRun = [p \in Handle |-> "no"]
    /\ named = [p \in Handle |-> "none"] /\ answered = [p \in Handle |-> "none"]
    /\ raced = {} /\ missed = {}

-----------------------------------------------------------------------------
(* The files *)

Running(p) == shell[p] \in {"up", "termed", "doomed"}
ToCome(p) == shell[p] \in {"coming", "called"}

\* The end the files give; owned says that a run of this host runs the process.
Ending(files, isLive) ==
    CASE files.exit = "term" /\ files.stop \in {"cancelled", "timed_out"} -> files.stop
      [] files.exit = "term" /\ files.stop \notin {"cancelled", "timed_out"} -> "exited"
      [] files.exit = "code" -> "exited"
      [] files.exit = "none" /\ isLive -> "running"
      [] OTHER -> IF files.stop = "none" THEN "lost" ELSE files.stop

Final == {"exited", "cancelled", "timed_out", "failed", "lost"}

\* What ps says of the shells that wrote a pid and no exit.
Alive(p) == outlives /\ disk[p].pid /\ disk[p].exit = "none" /\ Running(p)

\* writeStop: checks for exit and writes, in one command; a directory that is
\* gone takes nothing.
Stopped(p, line) ==
    disk' = IF disk[p].spec /\ disk[p].exit = "none" THEN [disk EXCEPT ![p].stop = line] ELSE disk

-----------------------------------------------------------------------------
(* The machine *)

\* What a wrapper writes; it writes nothing once its directory is gone.
Writes(p, files) == disk' = IF disk[p].spec THEN [disk EXCEPT ![p] = files] ELSE disk

\* The wrapper writes its pid first, whatever became of the host.  Without its
\* directory the command does not run.  An abort that came before takes effect.
ShellStarts(p) ==
    /\ shell[p] \in {"coming", "called"}
    /\ shell' = [shell EXCEPT ![p] = CASE ~disk[p].spec -> "gone"
                                      [] disk[p].spec /\ @ = "coming" -> "up"
                                      [] OTHER -> "doomed"]
    /\ Writes(p, [disk[p] EXCEPT !.pid = TRUE])
    /\ UNCHANGED <<outlives, host, live, own, op, reads, chain, cancel, notes, spare>>

\* The command ends and the wrapper writes its code; a command that got SIGTERM
\* may end by it.
ShellExits(p) ==
    /\ Running(p)
    /\ shell' = [shell EXCEPT ![p] = "gone"]
    /\ \E code \in IF shell[p] = "up" THEN {"code"} ELSE {"code", "term"} :
          Writes(p, [disk[p] EXCEPT !.exit = code])
    /\ UNCHANGED <<outlives, host, live, own, op, reads, chain, cancel, notes, spare>>

\* The shell goes and writes nothing: the SIGKILL that follows an abort, or
\* something beside the table.  One that an abort called off may never start.
ShellDies(p) ==
    /\ \/ shell[p] \in {"doomed", "called"} /\ UNCHANGED spare
       \/ shell[p] \in {"up", "termed"} /\ Spend("die")
    /\ shell' = [shell EXCEPT ![p] = "gone"]
    /\ UNCHANGED <<outlives, disk, host, live, own, op, reads, chain, cancel, notes>>

-----------------------------------------------------------------------------
(* Memory *)

\* A live process has ended: forget it, record the end and tell the host.
Settled(p) ==
    /\ live' = [live EXCEPT ![p] = NotLive]
    /\ named' = [named EXCEPT ![p] = "none"] /\ raced' = raced \ {p}
    /\ told' = [told EXCEPT ![p] = IF @ < 2 THEN @ + 1 ELSE @]

Runs(p) == live[p].in /\ live[p].own

Adopted == [NotLive EXCEPT !.in = TRUE, !.armed = TRUE]

-----------------------------------------------------------------------------
(* Reads *)

\* The first half of a listing, with the processes this run ran as it began.
Greps(r, want) ==
    reads' = [reads EXCEPT ![r] =
        [NoRead EXCEPT !.pc = "grepped", !.ours = {p \in Handle : Runs(p)},
                       !.files = [p \in Handle |-> IF p \in want THEN disk[p] ELSE NoFiles]]]

\* A ps may fail, and then it finds no shell.
PsFails(p) == Alive(p) /\ Spend("ps") /\ missed' = missed \cup {p}

\* The second half.  A process whose exit has come since is not asked about; one
\* with a lost line is, for its pid is in /proc while it is alive.
Lists(r, hidden) ==
    reads' = [reads EXCEPT ![r].pc = "listed",
                 ![r].todo = {p \in Handle : reads[r].files[p].spec},
                 ![r].found = [p \in Handle |->
                                   IF Alive(p) /\ p \notin hidden THEN "alive" ELSE "none"]]

AsksPs(r) ==
    /\ reads[r].pc = "grepped"
    /\ \/ Lists(r, {}) /\ UNCHANGED <<missed, spare>>
       \/ \E p \in Handle \ reads[r].ours : reads[r].files[p].spec /\ PsFails(p) /\ Lists(r, {p})
    /\ UNCHANGED <<outlives, disk, shell, host, live, own, op, chain, cancel, told, byRun, named,
                   raced, answered>>

First(todo) == CHOOSE p \in todo : \A q \in todo : p <= q

\* Mutant of Mine: what this run runs is asked only after the listing.
MineNow(r, p) == Runs(p)

Mine(r, p) == p \in reads[r].ours \/ Runs(p)

StatusIn(r, p) == Ending(reads[r].files[p], Mine(r, p) \/ reads[r].found[p] = "alive")

\* A lost process that had a shell gets a line; the read goes on after it.
RecordsLost(r) ==
    /\ reads[r].pc = "listed" /\ reads[r].todo # {}
    /\ LET p == First(reads[r].todo)
           files == reads[r].files[p]
       IN /\ StatusIn(r, p) = "lost" /\ files.stop = "none" /\ files.pid
          /\ Stopped(p, "lost")
          /\ reads' = [reads EXCEPT ![r].files[p].stop = "lost"]
    /\ UNCHANGED <<outlives, shell, host, live, own, op, chain, cancel, notes, spare>>

\* What a status implies: a process that runs and is not this run's is adopted,
\* and one that was adopted and has ended is settled.
Observes(r) ==
    /\ reads[r].pc = "listed" /\ reads[r].todo # {}
    /\ LET p == First(reads[r].todo)
           files == reads[r].files[p]
           status == StatusIn(r, p)
       IN /\ ~(status = "lost" /\ files.stop = "none" /\ files.pid)
          /\ reads' = [reads EXCEPT ![r].todo = @ \ {p}, ![r].found[p] = status]
          /\ \/ /\ status = "running" /\ ~Mine(r, p) /\ ~live[p].in
                /\ live' = [live EXCEPT ![p] = Adopted] /\ UNCHANGED <<told, named, raced>>
             \/ /\ status # "running" /\ live[p].in /\ ~live[p].own
                /\ Settled(p)
             \/ /\ ~(status = "running" /\ ~Mine(r, p) /\ ~live[p].in)
                /\ ~(status # "running" /\ live[p].in /\ ~live[p].own)
                /\ UNCHANGED <<live, told, named, raced>>
    /\ UNCHANGED <<outlives, disk, shell, host, own, op, chain, cancel, byRun, missed, answered, spare>>

HasRead(r) == reads[r].pc = "listed" /\ reads[r].todo = {}

-----------------------------------------------------------------------------
(* Operations on the bash resource *)

Up == host = "up"

\* list, find and each turn of wait read; start and remind go on after they read.
Operates(kind) ==
    /\ host # "down" /\ op = Idle /\ Spend(kind) /\ (kind = "start" => Up)
    /\ op' = [Idle EXCEPT !.kind = kind]
    /\ Greps(0, Handle)
    /\ UNCHANGED <<outlives, disk, shell, host, live, own, chain, cancel, notes>>

Ends == op' = Idle /\ reads' = [reads EXCEPT ![0] = NoRead]

Answers ==
    /\ op.kind = "look" /\ HasRead(0) /\ Ends
    /\ answered' = [p \in Handle |-> IF reads[0].files[p].spec THEN reads[0].found[p]
                                                               ELSE answered[p]]
    /\ UNCHANGED <<outlives, disk, shell, host, live, own, chain, cancel, told, byRun, named, raced,
                   missed, spare>>

FoundIn(states) == {p \in Handle : reads[0].files[p].spec /\ reads[0].found[p] \in states}

\* A reminder marks the ends it showed.
Reminds ==
    /\ op.kind = "remind" /\ HasRead(0) /\ Ends
    /\ disk' = [p \in Handle |-> IF p \in FoundIn(Final) THEN [disk[p] EXCEPT !.seen = TRUE]
                                                         ELSE disk[p]]
    /\ UNCHANGED <<outlives, shell, host, live, own, chain, cancel, notes, spare>>

\* The seen ones first, then the oldest.
Before(p, q) ==
    LET seen(h) == reads[0].files[h].seen IN
    (seen(p) /\ ~seen(q)) \/ (seen(p) = seen(q) /\ p < q)

\* The finished processes past the limit.
Excess ==
    {p \in FoundIn(Final) :
        Cardinality({q \in FoundIn(Final) : Before(q, p)})
            < Cardinality(FoundIn(Final)) - MaxFinished + 1}

\* Mutant of Refused: a process counts once its shell has written a pid.
RefusedStarted ==
    Cardinality({p \in FoundIn({"running"}) : reads[0].files[p].pid}) >= MaxRunning

Refused == Cardinality(FoundIn({"running"})) >= MaxRunning

Unused == {p \in Handle : shell[p] = "none" /\ ~disk[p].spec}

\* The limits, the files of the new process, and then its environment.
Starts ==
    /\ op.kind = "start" /\ op.new = 0 /\ HasRead(0)
    /\ IF Refused \/ Unused = {} THEN Ends /\ UNCHANGED disk
       ELSE LET new == First(Unused) IN
            /\ disk' = [p \in Handle |->
                           CASE p = new -> [NoFiles EXCEPT !.spec = TRUE]
                             [] p # new /\ p \in Excess -> NoFiles
                             [] OTHER -> disk[p]]
            /\ op' = [op EXCEPT !.new = new] /\ UNCHANGED reads
    /\ UNCHANGED <<outlives, shell, host, live, own, chain, cancel, notes, spare>>

\* A table that closed meanwhile, or a connection that fails, starts nothing.
Connects ==
    /\ op.kind = "start" /\ op.new # 0 /\ Ends
    /\ LET p == op.new IN
       \/ /\ Up
          /\ live' = [live EXCEPT ![p] = [NotLive EXCEPT !.in = TRUE, !.own = TRUE, !.armed = TRUE]]
          /\ own' = [own EXCEPT ![p].pc = "runs"]
          /\ shell' = [shell EXCEPT ![p] = "coming"]
          /\ UNCHANGED <<disk, spare>>
       \/ /\ IF Up THEN Spend("drop") ELSE UNCHANGED spare
          /\ disk' = [disk EXCEPT ![p] = NoFiles]
          /\ UNCHANGED <<live, own, shell>>
    /\ UNCHANGED <<outlives, host, chain, cancel, notes>>

-----------------------------------------------------------------------------
(* The run of a process of this run of the host *)

\* The run ends with its shell, or with its connection.  What the table left
\* running says nothing more.
RunEnds(p) ==
    /\ own[p].pc = "runs"
    /\ \/ (shell[p] = "gone" \/ live[p].left) /\ UNCHANGED spare
       \/ outlives /\ shell[p] # "gone" /\ ~live[p].left /\ Spend("drop")
    /\ live' = [live EXCEPT ![p].armed = FALSE]
    /\ \E result \in {"code", "error"} :
          /\ shell[p] # "gone" => result = "error"
          /\ own' = [own EXCEPT ![p] = [NoRun EXCEPT !.pc = IF live[p].left THEN "none" ELSE "over",
                                                     !.result = result]]
    /\ UNCHANGED <<outlives, disk, shell, host, op, reads, chain, cancel, notes>>

\* Whether the files lack an end: a cancel has named it, or there is an exit.
LooksForEnd(p) ==
    /\ own[p].pc = "over"
    /\ own' = [own EXCEPT ![p].pc = IF live[p].stopping # "none" \/ disk[p].exit # "none"
                                    THEN "recorded" ELSE "records"]
    /\ UNCHANGED <<outlives, disk, shell, host, live, op, reads, chain, cancel, notes, spare>>

\* The end is written in a command of its own, and a cancel may have named a
\* cause since.
RecordsEnd(p) ==
    /\ own[p].pc = "records"
    /\ IF own[p].result = "code" THEN Writes(p, [disk[p] EXCEPT !.exit = "code"])
                                 ELSE Stopped(p, "failed")
    /\ own' = [own EXCEPT ![p].pc = "recorded"]
    /\ UNCHANGED <<outlives, shell, host, live, op, reads, chain, cancel, notes, spare>>

\* The final status is a listing too.
ReadsEnd(p) ==
    /\ own[p].pc = "recorded"
    /\ own' = [own EXCEPT ![p].pc = "grepped", ![p].files = disk[p]]
    /\ UNCHANGED <<outlives, disk, shell, host, live, op, reads, chain, cancel, notes, spare>>

\* A shell that outlived the run is adopted, and keeps the cause of its cancel.
\* One that ps does not find, or that is still to come, is told as ended.
SettlesOwn(p) ==
    /\ own[p].pc = "grepped"
    /\ own' = [own EXCEPT ![p] = NoRun]
    /\ byRun' = [byRun EXCEPT ![p] = IF shell[p] = "gone" THEN "settled" ELSE "outlived"]
    /\ \E seen \in {Alive(p), FALSE} :
          /\ CASE seen # Alive(p) -> PsFails(p)
               [] seen = Alive(p) /\ ToCome(p) -> missed' = missed \cup {p} /\ UNCHANGED spare
               [] OTHER -> UNCHANGED <<missed, spare>>
          /\ IF Ending(own[p].files, seen) = "running"
             THEN /\ live' = [live EXCEPT ![p].own = FALSE, ![p].armed = TRUE]
                  /\ UNCHANGED <<told, named, raced>>
             ELSE Settled(p)
    /\ UNCHANGED <<outlives, disk, shell, host, op, reads, chain, cancel, answered>>

-----------------------------------------------------------------------------
(* Cancels *)

\* A cancel of a process that a cancel already ends joins it.
Cancelling(ps, cause) ==
    LET new == {p \in ps : cancel[p].pc = "none"} IN
    /\ cancel' = [p \in Handle |-> IF p \in new
                                      THEN [NoCancel EXCEPT !.pc = "queued", !.cause = cause]
                                      ELSE cancel[p]]
    /\ \E order \in [1..Cardinality(new) -> new] :
          /\ \A p \in new : \E i \in DOMAIN order : order[i] = p
          /\ chain' = chain \o order

\* The tool, or the host, cancels a process an answer showed running.
CancelCalled(p) ==
    /\ host # "down" /\ answered[p] = "running" /\ Spend("call")
    /\ Cancelling({p}, "cancelled")
    /\ UNCHANGED <<outlives, disk, shell, host, live, own, op, reads, notes>>

TimerFires(p) ==
    /\ live[p].armed /\ Spend("timeout")
    /\ live' = [live EXCEPT ![p].armed = FALSE]
    /\ Cancelling({p}, "timed_out")
    /\ UNCHANGED <<outlives, disk, shell, host, own, op, reads, notes>>

Phase(p, pc) == cancel' = [cancel EXCEPT ![p].pc = pc, ![p].owned = live[p].own]

\* Only the first cancel of a process names the cause.
Named(p) == IF live[p].stopping = "none" THEN cancel[p].cause ELSE live[p].stopping

\* A step of the chain reads the record again: a process that is gone needs nothing.
StepBegins ==
    /\ chain # <<>>
    /\ LET p == Head(chain) IN
       /\ cancel[p].pc = "queued"
       /\ IF live[p].in
          THEN /\ live' = [live EXCEPT ![p].stopping = Named(p)]
               /\ Phase(p, IF Named(p) = live[p].stopping THEN "signals" ELSE "names")
               /\ UNCHANGED chain
          ELSE Phase(p, "none") /\ chain' = Tail(chain) /\ UNCHANGED live
    /\ UNCHANGED <<outlives, disk, shell, host, own, op, reads, notes, spare>>

\* The end of a run, or a listing, that looked before a cause was written may
\* still write over it.
LookedBefore(p) ==
    \/ own[p].pc = "records"
    \/ \E r \in DOMAIN reads : /\ reads[r].files[p].spec /\ reads[r].files[p].stop = "none"
                              /\ p \notin reads[r].ours

NamesCause ==
    /\ chain # <<>> /\ cancel[Head(chain)].pc = "names"
    /\ LET p == Head(chain) IN
       /\ Stopped(p, cancel[p].cause) /\ cancel' = [cancel EXCEPT ![p].pc = "signals"]
       /\ named' = IF named[p] = "none" /\ live[p].stopping # "none" /\ disk[p].exit = "none"
                   THEN [named EXCEPT ![p] = cancel[p].cause] ELSE named
       /\ raced' = IF LookedBefore(p) THEN raced \cup {p} ELSE raced
    /\ UNCHANGED <<outlives, shell, host, live, own, op, reads, chain, told, byRun, missed, answered,
                   spare>>

\* The abort of a run sends SIGTERM, and SIGKILL after the grace; an adopted
\* process gets SIGTERM through its pid, if ps finds it.
Signals ==
    /\ chain # <<>> /\ cancel[Head(chain)].pc = "signals" /\ chain' = Tail(chain)
    /\ LET p == Head(chain)
           obeys == IF cancel[p].owned THEN own[p].pc = "runs" ELSE Alive(p)
           to == CASE ~outlives -> "gone"
                   [] outlives /\ ToCome(p) -> "called"
                   [] outlives /\ Running(p) /\ cancel[p].owned -> "doomed"
                   [] OTHER -> IF shell[p] = "up" THEN "termed" ELSE shell[p]
       IN /\ \/ /\ shell' = IF obeys /\ shell[p] # "gone" THEN [shell EXCEPT ![p] = to] ELSE shell
                /\ UNCHANGED <<missed, spare>>
             \/ ~cancel[p].owned /\ PsFails(p) /\ UNCHANGED shell
          /\ cancel' = [cancel EXCEPT ![p].pc = IF cancel[p].owned THEN "waits" ELSE "polls"]
    /\ UNCHANGED <<outlives, disk, host, live, own, op, reads, told, byRun, named, raced, answered>>

\* The wait for the end, up to the grace and the slack.
CancelOver(p) ==
    /\ cancel[p].pc \in {"waits", "polls after"} /\ reads[p] = NoRead
    /\ cancel' = [cancel EXCEPT ![p] = NoCancel]
    /\ UNCHANGED <<outlives, disk, shell, host, live, own, op, reads, chain, notes, spare>>

\* The poll of an adopted process reads its files beside the queue.
Polls(p) ==
    /\ cancel[p].pc \in {"polls", "polls after"} /\ live[p].in /\ host # "down"
    /\ reads[p] = NoRead /\ Greps(p, {p})
    /\ UNCHANGED <<outlives, disk, shell, host, live, own, op, chain, cancel, notes, spare>>

Polled(p) ==
    /\ HasRead(p) /\ reads' = [reads EXCEPT ![p] = NoRead]
    /\ UNCHANGED <<outlives, disk, shell, host, live, own, op, chain, cancel, notes, spare>>

\* Mutant of AfterGrace: a process that outlives the grace is left to its timeout.
AfterGraceNothing(p) == cancel' = [cancel EXCEPT ![p] = NoCancel] /\ UNCHANGED chain

\* After the grace a group that still runs gets SIGKILL, in a step of its own.
AfterGrace(p) ==
    IF live[p].in
    THEN chain' = Append(chain, p) /\ cancel' = [cancel EXCEPT ![p].pc = "kills"]
    ELSE cancel' = [cancel EXCEPT ![p] = NoCancel] /\ UNCHANGED chain

\* A listing is one command, shorter than a grace.
GraceEnds(p) ==
    /\ cancel[p].pc = "polls" /\ reads[p] = NoRead /\ reads[0].pc # "grepped"
    /\ AfterGrace(p)
    /\ UNCHANGED <<outlives, disk, shell, host, live, own, op, reads, notes, spare>>

Kills ==
    /\ chain # <<>> /\ cancel[Head(chain)].pc = "kills" /\ chain' = Tail(chain)
    /\ LET p == Head(chain) IN
       /\ \/ /\ shell' = IF live[p].in /\ Alive(p) THEN [shell EXCEPT ![p] = "gone"] ELSE shell
             /\ UNCHANGED <<missed, spare>>
          \/ live[p].in /\ PsFails(p) /\ UNCHANGED shell
       /\ cancel' = [cancel EXCEPT ![p].pc = "polls after"]
    /\ UNCHANGED <<outlives, disk, host, live, own, op, reads, told, byRun, named, raced, answered>>

-----------------------------------------------------------------------------
(* The run of the host *)

\* close: cancel what is live and wait for it, or leave it running.
Closes ==
    /\ Up /\ Spend("close")
    /\ \/ /\ host' = "closing" /\ UNCHANGED live
          /\ Cancelling({p \in Handle : live[p].in}, "cancelled")
       \/ /\ host' = "leaving" /\ UNCHANGED <<chain, cancel>>
          /\ live' = [p \in Handle |-> [live[p] EXCEPT !.armed = FALSE, !.left = live[p].own]]
    /\ UNCHANGED <<outlives, disk, shell, own, op, reads, notes>>

\* Nothing of the memory of a run is left.
Forgets ==
    /\ host' = "down" /\ live' = NoLives /\ own' = NoRuns /\ op' = Idle /\ reads' = NoReads
    /\ chain' = <<>> /\ cancel' = NoCancels
    /\ told' = [p \in Handle |-> 0] /\ byRun' = [p \in Handle |-> "no"]
    /\ named' = [p \in Handle |-> "none"] /\ raced' = {}
    /\ missed' = IF outlives THEN missed \cup {p \in Handle : ToCome(p)} ELSE missed

Released ==
    /\ host = "leaving" \/ (host = "closing" /\ \A p \in Handle : cancel[p].pc = "none")
    /\ op = Idle
    /\ Forgets
    /\ shell' = [p \in Handle |-> IF ~outlives /\ ToCome(p) THEN "gone" ELSE shell[p]]
    /\ UNCHANGED <<outlives, disk, answered, spare>>

\* The process of the host ends.  Commands that ran in it end with it.  A command
\* on its way may still start, or never.
Crash ==
    /\ host # "down" /\ Spend("crash")
    /\ Forgets
    /\ shell' = [p \in Handle |->
                    CASE ~outlives /\ (Running(p) \/ ToCome(p)) -> "gone"
                      [] outlives /\ shell[p] = "doomed" -> "termed"
                      [] outlives /\ shell[p] = "called" -> "coming"
                      [] OTHER -> shell[p]]
    /\ UNCHANGED <<outlives, disk, answered>>

Restart ==
    /\ host = "down" /\ host' = "up"
    /\ UNCHANGED <<outlives, disk, shell, live, own, op, reads, chain, cancel, notes, spare>>

-----------------------------------------------------------------------------
\* The chain of the agent, what is read, and the end of a process's own run.
ChainSteps == StepBegins \/ NamesCause \/ Signals \/ Kills
ReadSteps(r) == AsksPs(r) \/ RecordsLost(r) \/ Observes(r)
OwnEnds(p) == LooksForEnd(p) \/ RecordsEnd(p) \/ ReadsEnd(p) \/ SettlesOwn(p)

Next ==
    \/ ChainSteps
    \/ \E p \in Handle :
          \/ ShellStarts(p) \/ ShellExits(p) \/ ShellDies(p)
          \/ RunEnds(p) \/ OwnEnds(p)
          \/ CancelCalled(p) \/ TimerFires(p)
          \/ ReadSteps(p) \/ Polls(p) \/ Polled(p) \/ GraceEnds(p) \/ CancelOver(p)
    \/ ReadSteps(0)
    \/ \E kind \in {"look", "start", "remind"} : Operates(kind)
    \/ Answers \/ Reminds \/ Starts \/ Connects
    \/ Closes \/ Released \/ Crash \/ Restart

Spec == Init /\ [][Next]_vars

\* The steps of a cancel and of a run that is over end, a listing is a command of
\* bounded time, the clock that the polls read between two listings runs on, and
\* SIGKILL is obeyed.
FairSpec ==
    /\ Spec /\ WF_vars(ChainSteps) /\ WF_vars(ReadSteps(0))
    /\ \A p \in Handle : /\ WF_vars(ReadSteps(p) \/ Polled(p)) /\ WF_vars(OwnEnds(p))
                         /\ WF_vars(shell[p] \in {"doomed", "called"} /\ ShellDies(p))
                         /\ SF_vars(GraceEnds(p)) /\ SF_vars(CancelOver(p))

-----------------------------------------------------------------------------
(* No more processes run than the limit, counting those whose shell is on   *)
(* its way and those of an earlier run of the host (processes.ts start).    *)
(* Those that a ps which failed hid are not counted, nor those whose shell  *)
(* was still to come when the run that started them ended.                  *)
LimitHolds ==
    Cardinality({p \in Handle : (Running(p) \/ ToCome(p)) /\ p \notin missed}) <= MaxRunning

(* The end of a process comes once, with its first cause: after its own run *)
(* settled a process that is gone, no listing that began before brings it   *)
(* back, and until its end is told the file keeps the cause that the first  *)
(* cancel wrote, which no later cancel and no timeout writes over, nor the  *)
(* end of a run or a listing that looks for an end after it.  One that      *)
(* looked before may still write its own line over it, for each looks and   *)
(* writes in two commands (processes.ts observe, recordLost, recordEnd,     *)
(* process-cancel.ts nameCause).                                            *)
EndsOnce ==
    \A p \in Handle :
        /\ byRun[p] = "settled" => told[p] = 1 /\ ~live[p].in
        /\ named[p] # "none" /\ disk[p].spec =>
               \/ disk[p].stop = named[p]
               \/ p \in raced /\ disk[p].stop \in {"failed", "lost"}

(* The table of the processes: it is held to its limit, and each end is told *)
(* once, with its cause.                                                    *)
TableHolds == LimitHolds /\ EndsOnce

(* A cancel of a live process ends it, by its command's own end or by       *)
(* SIGKILL, whatever it does with SIGTERM and however many cancels wait in  *)
(* the chain, unless the host ends, the connection of its run dropped or a  *)
(* ps that failed hid its shell.                                            *)
CancelKills ==
    \A p \in Handle :
        cancel[p].pc = "queued" /\ live[p].in
            ~> shell[p] = "gone" \/ host # "up" \/ byRun[p] = "outlived" \/ p \in missed

=============================================================================
