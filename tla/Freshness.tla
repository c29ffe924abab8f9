----------------------------- MODULE Freshness -----------------------------
(***************************************************************************)
(* The position one activation has read the record through                 *)
(* (execution/freshness.ts): it moves over ranges the model consumed, in   *)
(* whatever order they come, and over tool results once they reach the     *)
(* model.  A range that leaves a gap waits.                                *)
(***************************************************************************)
EXTENDS Integers, FiniteSets

Least(s) == CHOOSE x \in s : \A y \in s : x <= y
Greatest(s) == CHOOSE x \in s : \A y \in s : y <= x

\* read: the position; held: the ranges that do not join it yet; results: the
\* record a tool result carries; shown: the nested calls a compose result shows.
Unread == [read |-> 0, held |-> {}, results |-> {}, shown |-> {}]

Acknowledge(f, seq) == [f EXCEPT !.read = Greatest({@, seq})]

Expect(f, tool, seq) ==
    [f EXCEPT !.results = {r \in @ : r.tool # tool} \cup {[tool |-> tool, seq |-> seq]}]

Report(f, parent, nested) ==
    [f EXCEPT !.shown = @ \cup {[parent |-> parent, tool |-> n] : n \in nested}]

\* Mutant of Join: a range counts although what is before it was not read.
JoinOverGaps(f) ==
    [f EXCEPT !.read = Greatest({@} \cup {r.through : r \in f.held}), !.held = {}]

\* Advance over every held range that joins the position, lowest first.
Join(f) ==
    LET step[n \in 0..Cardinality(f.held)] ==
            LET g == IF n = 0 THEN f ELSE step[n - 1]
                open == {r \in g.held : r.through > g.read}
                next == {r.through : r \in {x \in open : x.after <= g.read}}
            IN [g EXCEPT !.held = open,
                         !.read = IF next = {} THEN @ ELSE Least(next)]
        last == step[Cardinality(f.held)]
    IN [last EXCEPT !.held = {r \in @ : r.through > last.read}]

\* Of two ranges through one position the one that starts lower stays.
Consume(f, range) ==
    LET same == {r \in f.held : r.through = range.through} IN
    Join(IF range.through > f.read /\ \A r \in same : range.after < r.after
         THEN [f EXCEPT !.held = (@ \ same) \cup {range}] ELSE f)

\* The result of a call reached the model, and with it what a compose shows.
Deliver(f, tool) ==
    LET reached == {tool} \cup {s.tool : s \in {x \in f.shown : x.parent = tool}}
        seqs == {r.seq : r \in {x \in f.results : x.tool \in reached}}
    IN Join([f EXCEPT !.shown = {s \in @ : s.parent # tool},
                      !.results = {r \in @ : r.tool \notin reached},
                      !.read = Greatest(seqs \cup {@})])

=============================================================================
