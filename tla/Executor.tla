------------------------------ MODULE Executor ------------------------------
(***************************************************************************)
(* What the driver of an activation may rely on, whatever executor runs it *)
(* (execution/contract.ts): passes that read the record, one after the     *)
(* other, over a conversation with a model.  The executors of Claude,      *)
(* Codex and Pi are shown to keep it.                                      *)
(*                                                                         *)
(* The record is the positions 1, 2, ...  A line is a position.            *)
(***************************************************************************)
EXTENDS Integers, FiniteSets

CONSTANT Line       \* the positions of the record

VARIABLES
    phase,      \* between two passes, in one, or over
    prompt,     \* the lines the running pass was given
    given,      \* how often each line was put before the model
    read,       \* the lines the executor reported as read
    cut,        \* whether the activation was cut: early, while its pass awaited its record,
                \* or later
    late,       \* the executor gave up waiting to hear what the model took
    unheard     \* the pass asked where nothing answers: it need not end

vars == <<phase, prompt, given, read, cut, late>>

Init ==
    /\ phase = "between" /\ prompt = {} /\ read = {} /\ late = FALSE
    /\ given = [l \in Line |-> 0]
    /\ cut = "no"

Begins ==
    /\ phase = "between" /\ phase' = "pass" /\ prompt' = {}
    /\ UNCHANGED <<given, read, cut, late>>

Renders(lines) ==
    /\ phase = "pass" /\ prompt = {} /\ prompt' = lines
    /\ UNCHANGED <<phase, given, read, cut, late>>

\* The model takes lines.  One comes twice only with an earlier line that the
\* model missed, for a delta starts at the first line not read, or after the
\* executor gave up on it.  The executor reports only lines the model took.
Reads(taken, lines) ==
    /\ late \/ \A l \in taken : given[l] = 0 \/ \E k \in Line : k < l /\ given[k] = 0
    /\ given' = [l \in Line |-> IF l \in taken THEN given[l] + 1 ELSE given[l]]
    /\ \A l \in lines : given'[l] > 0
    /\ read' = read \cup lines
    /\ UNCHANGED <<phase, prompt, cut, late>>

\* The first pass may go on with the conversation of an earlier activation: it
\* counts as read what that conversation gave, and some of it may be forgotten.
Resumes(lines) ==
    /\ phase = "pass" /\ prompt = {} /\ read = {}
    /\ \A l \in Line : given'[l] <= given[l] /\ (l \in lines => given'[l] > 0)
    /\ read' = lines
    /\ UNCHANGED <<phase, prompt, cut, late>>

\* A pass that ends well has had its prompt read, unless the cut ended it.
EndsWell ==
    /\ phase = "pass"
    /\ cut # "no" \/ late \/ prompt \subseteq read
    /\ phase' = IF cut = "no" THEN "between" ELSE "over"
    /\ UNCHANGED <<prompt, given, read, cut, late>>

\* A pass fails, but not when it was cut after it had its record.  One that was
\* cut while it awaited its record goes on to ask, and may fail: the contract
\* has no cut pass fail (contract.ts:189), and the executors do not keep that.
Fails ==
    /\ phase = "pass" /\ cut # "later" /\ phase' = "over"
    /\ UNCHANGED <<prompt, given, read, cut, late>>

Stops ==
    /\ phase = "between" /\ phase' = "over"
    /\ UNCHANGED <<prompt, given, read, cut, late>>

Cuts ==
    /\ cut = "no" /\ cut' \in {"early", "later"}
    /\ phase' = IF phase = "between" THEN "over" ELSE phase
    /\ UNCHANGED <<prompt, given, read, late>>

\* The activation is lost with its process.
Lost ==
    /\ phase' = "over" /\ UNCHANGED <<prompt, given, read, cut, late>>

\* The next activation of the seat.
Again ==
    /\ phase = "over" /\ phase' = "between"
    /\ prompt' = {} /\ read' = {} /\ cut' = "no" /\ late' = FALSE
    /\ UNCHANGED given

GivesUp ==
    /\ late' = TRUE /\ UNCHANGED <<phase, prompt, given, read, cut>>

Next ==
    \/ Begins \/ EndsWell \/ Fails \/ Stops \/ Cuts \/ GivesUp \/ Lost \/ Again
    \/ \E lines \in SUBSET Line : Renders(lines) \/ Resumes(lines)
    \/ \E taken, lines \in SUBSET Line : Reads(taken, lines)

\* Every pass ends, but for one that asks where nothing answers.
Spec == Init /\ [][Next]_vars /\ []<>(phase # "pass" \/ unheard)

=============================================================================
