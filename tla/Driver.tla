------------------------------- MODULE Driver -------------------------------
(***************************************************************************)
(* What an executor meets of its driver (execution/runner.ts, activation.  *)
(* ts): one pass after another over a record that grows, until nothing is  *)
(* new, a pass fails or the activation is cut.  The driver of a pass is a  *)
(* record; how the driver itself works is Seat.tla.                        *)
(***************************************************************************)
EXTENDS Integers, Sequences, SequencesExt, FiniteSetsExt

\* pc: between two passes, the steps of a pass, or over.  after, view: the
\* range of the record that the pass was opened on.
Rested == [pc |-> "between", passes |-> 0, after |-> 0, view |-> 0, prompt |-> {},
           failed |-> FALSE, cut |-> "no"]

\* The position up to which every line was read.
ReadThrough(read) == Max({0} \cup {n \in read : 1 .. n \subseteq read})

\* The first pass reads the view; a later one follows when the record stands
\* past what was read, and the activation was not cut.
Due(d, read, landed) ==
    /\ d.pc = "between" /\ d.cut = "no"
    /\ d.passes = 0 \/ landed > ReadThrough(read)

Opened(d, read, landed) ==
    [d EXCEPT !.pc = "reads", !.passes = @ + 1, !.after = ReadThrough(read),
              !.view = landed, !.prompt = {}]

\* The record of the pass: the whole view first, the delta later.
Rendered(d) == IF d.passes = 1 THEN 1 .. d.view ELSE d.after + 1 .. d.view

InPass(d) == d.pc \notin {"between", "over"}

Ends(d, failed) == [d EXCEPT !.pc = "ends", !.failed = failed]

\* A failed pass, or a cut, is the last.
Returned(d) ==
    [d EXCEPT !.pc = IF d.failed \/ d.cut # "no" THEN "over" ELSE "between"]

\* A steer for the pass: the driver forwards a line that its view does not hold.
Forwards(d, line) == InPass(d) /\ d.cut = "no" /\ line > d.view

\* A cut that comes before the pass had its record is told apart.
Cut(d) ==
    [d EXCEPT !.cut = IF d.pc = "reads" THEN "early" ELSE "later",
              !.pc = IF d.pc = "between" THEN "over" ELSE @]

Phase(d) == IF d.pc \in {"between", "over"} THEN d.pc ELSE "pass"

=============================================================================
