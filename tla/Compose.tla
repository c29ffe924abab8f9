------------------------------- MODULE Compose -------------------------------
(***************************************************************************)
(* One compose call (compose/src compose-run.ts, quickjs.ts,               *)
(* compose-tool.ts): the code of a model calls the tools of its seat as    *)
(* nested calls, several at a time, while a cut of the activation, a time  *)
(* limit or the end of the code ends the call.  Most tools are effects of  *)
(* their own; a room tool commits to the record, has no cancel, and what   *)
(* it answers reaches the model only through the report of this call.  The *)
(* driver gives a commit up when it is cut or no try is answered, with the *)
(* request still out (runner.ts commitOnce).                               *)
(***************************************************************************)
EXTENDS Integers, Sequences, SequencesExt

CONSTANTS
    Tool,          \* the tools that the call binds
    Sequential,    \* those that run one call at a time
    RoomTool,      \* those of the room
    CallLimit,     \* compose.limits.calls
    Concurrent     \* compose.limits.concurrent

VARIABLES
    stage,     \* asked, running, ended, reported, refused
    code,      \* what runs in the engine: none, runs, then the result of the code
    calls,     \* the nested calls, in the order made
    ending,    \* how the call ended, none while it runs
    cut,       \* whether the activation is cut
    landed,    \* the calls that committed to the record
    doubt,     \* the calls whose commit the driver gave up
    notes,     \* the calls whose answers the report must show
    late,      \* the calls that outlived the code
    report     \* what the model reads: the status, the calls and the notes

vars == <<stage, code, calls, ending, cut, landed, doubt, notes, late, report>>

NoReport == [status |-> "none", calls |-> <<>>, notes |-> {}, late |-> {}]

Init ==
    /\ stage = "asked" /\ code = "none" /\ calls = <<>> /\ ending = "none"
    /\ cut = FALSE /\ landed = {} /\ doubt = {} /\ notes = {} /\ late = {} /\ report = NoReport

Unsettled(call) == call.state \in {"queued", "running"}

Running == {i \in DOMAIN calls : calls[i].state = "running"}

Committing == {i \in Running : calls[i].tool \in RoomTool}

-----------------------------------------------------------------------------
(* The queue: the calls that are queued, in the order made *)

Busy(cs, tool) ==
    tool \in Sequential /\ \E j \in DOMAIN cs : cs[j].tool = tool /\ cs[j].state = "running"

StartIfFree(cs, i) ==
    IF /\ cs[i].state = "queued" /\ ~Busy(cs, cs[i].tool)
       /\ Len(SelectSeq(cs, LAMBDA call : call.state = "running")) < Concurrent
    THEN [cs EXCEPT ![i].state = "running"] ELSE cs

Pumped(cs) == IF ending = "none" THEN FoldLeftDomain(StartIfFree, cs, cs) ELSE cs

\* A call that has ended starts no more calls, and drops those that wait.
Dropped(cs) ==
    [i \in DOMAIN cs |-> IF cs[i].state = "queued" THEN [cs[i] EXCEPT !.state = "dropped"] ELSE cs[i]]

-----------------------------------------------------------------------------

\* The tool resolves its program, and asks the approval: no code runs before.
Approve(allows) ==
    /\ stage = "asked"
    /\ IF allows
       THEN IF cut THEN /\ stage' = "ended" /\ ending' = "cancelled" /\ UNCHANGED code
                   ELSE /\ stage' = "running" /\ code' = "runs" /\ UNCHANGED ending
       ELSE stage' = "refused" /\ UNCHANGED <<code, ending>>
    /\ UNCHANGED <<calls, cut, landed, doubt, notes, late, report>>

\* The code is in the engine, and may call.
Runs == stage = "running" /\ code = "runs"

\* The code calls a tool.  A call over the limit is rejected, and has no entry.
CallTool(tool) ==
    /\ Runs /\ Len(calls) < CallLimit
    /\ calls' = Pumped(Append(calls, [tool |-> tool, state |-> "queued"]))
    /\ UNCHANGED <<stage, code, ending, cut, landed, doubt, notes, late, report>>

\* A commit lands, whatever has become of the call: a try that was lost or given
\* up may arrive when the call has failed.
Lands(i) ==
    /\ calls[i].tool \in RoomTool /\ calls[i].state \in {"running", "failed"}
    /\ i \notin landed /\ landed' = landed \cup {i}
    /\ UNCHANGED <<stage, code, calls, ending, cut, doubt, notes, late, report>>

\* What a room call answers is noted when it carries record, or is an error.
Noted(i, carries) == IF carries THEN notes \cup {i} ELSE notes

\* A nested call answers, and the queue moves on.  A room call that completed
\* has landed, or found nothing to change.
Settles(i, state, carries) ==
    /\ i \in Running
    /\ carries => calls[i].tool \in RoomTool
    /\ calls[i].tool \in RoomTool /\ state = "failed" => carries
    /\ calls' = Pumped([calls EXCEPT ![i].state = state])
    /\ notes' = Noted(i, carries)
    /\ UNCHANGED <<stage, code, ending, cut, landed, doubt, late, report>>

Ends(status) ==
    /\ stage' = "ended" /\ ending' = status /\ calls' = Dropped(calls)

\* The driver gives a commit up, as stale or as unknown.  The call fails with a
\* note, and the room tool cuts the activation, which ends a call that runs.
GivenUp(i) ==
    /\ i \in Committing
    /\ doubt' = doubt \cup {i} /\ notes' = Noted(i, TRUE) /\ cut' = TRUE
    /\ LET failed == [calls EXCEPT ![i].state = "failed"] IN
       IF stage = "running"
       THEN stage' = "ended" /\ ending' = "cancelled" /\ calls' = Dropped(failed)
       ELSE calls' = failed /\ UNCHANGED <<stage, ending>>
    /\ UNCHANGED <<code, landed, late, report>>

\* The code returns or throws, or the engine stops it.  What it did not wait
\* for is late.
CodeEnds(result) ==
    /\ Runs /\ code' = result
    /\ late' = {i \in DOMAIN calls : Unsettled(calls[i])}
    /\ UNCHANGED <<stage, calls, ending, cut, landed, doubt, notes, report>>

Drained ==
    /\ stage = "running" /\ code \in {"completed", "failed"}
    /\ \A i \in DOMAIN calls : ~Unsettled(calls[i])
    /\ Ends(code)
    /\ UNCHANGED <<code, cut, landed, doubt, notes, late, report>>

\* The time limit, or the deadline of the activation.
TimesOut ==
    /\ stage = "running" /\ Ends("failed")
    /\ UNCHANGED <<code, cut, landed, doubt, notes, late, report>>

\* The activation is cut: it ends a call that runs at once.
Cut ==
    /\ ~cut /\ cut' = TRUE
    /\ IF stage = "running" THEN Ends("cancelled") ELSE UNCHANGED <<stage, calls, ending>>
    /\ UNCHANGED <<code, landed, doubt, notes, late, report>>

\* Mutant of Answered: the call reports at once when it is cut or out of time.
AnsweredAtOnce == TRUE

\* A commit that the end of the call cannot cancel still answers, or is given up.
Answered == Committing = {}

Reports ==
    /\ stage = "ended" /\ Answered /\ stage' = "reported"
    /\ report' = [status |-> ending, calls |-> calls, notes |-> notes, late |-> late]
    /\ UNCHANGED <<code, calls, ending, cut, landed, doubt, notes, late>>

Next ==
    \/ \E allows \in BOOLEAN : Approve(allows)
    \/ \E tool \in Tool : CallTool(tool)
    \/ \E i \in DOMAIN calls : Lands(i) \/ GivenUp(i)
    \/ \E i \in DOMAIN calls, state \in {"completed", "failed"}, carries \in BOOLEAN :
          Settles(i, state, carries)
    \/ \E result \in {"completed", "failed"} : CodeEnds(result)
    \/ Drained \/ TimesOut \/ Cut \/ Reports

Spec == Init /\ [][Next]_vars

-----------------------------------------------------------------------------
(* What a compose call reports is whole, also when a cut or the time limit  *)
(* ended it while a commit was out (compose-run.ts run, committing;         *)
(* compose-tool.ts liveEntry).  The activation takes a room call for read   *)
(* by the model only when this report shows it.  So after the report no     *)
(* room call answers, and each answer that carries record, or fails, is in  *)
(* it; what the record holds of the call, also a commit that was given up   *)
(* and lands after the report, the report names as completed, or as failed  *)
(* with a note; with a commit given up it is no completed call, and the     *)
(* activation is cut.  A completed call has no nested call that may still   *)
(* answer.                                                                  *)
ReportIsWhole ==
    stage = "reported" =>
        /\ Committing = {} /\ notes \subseteq report.notes
        /\ \A i \in landed : \/ report.calls[i].state = "completed"
                            \/ (report.calls[i].state = "failed" /\ i \in report.notes)
        /\ doubt # {} => cut /\ report.status # "completed"
        /\ report.status = "completed" =>
              \A i \in DOMAIN calls : ~Unsettled(calls[i]) /\ calls[i].state # "dropped"

=============================================================================
