----------------------------- MODULE MCJournal -----------------------------
(***************************************************************************)
(* Journal.tla for TLC: two runs that fence each other and a journal that  *)
(* writes for no run, over storages with and without a history.            *)
(***************************************************************************)
EXTENDS Journal, FiniteSets, TLC

CONSTANTS w1, w2, w0, old, older, k1

Stored(kind, seq, key, run) == [kind |-> kind, seq |-> seq, key |-> key, run |-> run]

\* An empty storage; one whose last run is gone, with a keyed entry of no run that a later
\* run may ask for again; one in which the fence voids an earlier run's entry,
\* whose seq the next run took again.
MCHistory == {
    <<>>,
    <<Stored("run", 1, NoKey, old), Stored("note", 2, k1, NoRun)>>,
    <<Stored("run", 1, NoKey, old), Stored("run", 2, NoKey, older),
      Stored("note", 3, k1, old)>> }

\* The journals that are there: two runs, or a run beside one that writes for
\* none.  The first pair asks for more, the second meets more faults.
VARIABLE there

Pairs == {pair \in SUBSET Writer : Cardinality(pair) = 2}

PairsInit == Init /\ there \in Pairs

PairsNext ==
    /\ Next /\ UNCHANGED there
    /\ \A w \in Writer \ there : phase'[w] = phase[w] /\ closed'[w] = closed[w]
    /\ IF there \cap Runless = {} THEN faults' < MaxFaults ELSE asks' < MaxAsks

PairsSpec == PairsInit /\ [][PairsNext]_<<vars, there>>

\* Writers that write for a run of their own are interchangeable.
Runs == Permutations(Writer \ Runless)

=============================================================================
