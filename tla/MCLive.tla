------------------------------- MODULE MCLive -------------------------------
(***************************************************************************)
(* Journal.tla and Room.tla for TLC under fairness: the queues of two      *)
(* journals, and a room left to itself.  The two share nothing, so one     *)
(* check takes them one at a time: the part is chosen at the start.        *)
(***************************************************************************)
EXTENDS MCRoom

CONSTANTS w1, w2, old, older, k1, Journals, Runless, PastRun, NoRun, Key, NoKey,
          LastSeq, MaxAsks, MaxFaults

VARIABLES part, store, stage, queue, target, cursor, cache, sequence, byKey, fence, lost,
          closed, wire, strays, acked, asks, faults, past

journal == <<store, stage, queue, target, cursor, cache, sequence, byKey, fence, lost,
             closed, wire, strays, acked, asks, faults, past>>

Stored(kind, seq, key, run) == [kind |-> kind, seq |-> seq, key |-> key, run |-> run]

\* An empty storage, and two that earlier runs left.
Histories == {
    <<>>,
    <<Stored("run", 1, NoKey, old), Stored("note", 2, k1, NoRun)>>,
    <<Stored("run", 1, NoKey, old), Stored("run", 2, NoKey, older), Stored("note", 3, k1, old)>> }

J == INSTANCE Journal WITH Writer <- Journals, phase <- stage, sent <- wire,
                           History <- Histories

LiveInit ==
    /\ Init /\ J!Init /\ part \in {"journal", "room"}
    /\ part = "room" => store = <<>>

LiveNext ==
    /\ UNCHANGED part
    /\ \/ part = "room" /\ Next /\ UNCHANGED journal
       \/ part = "journal" /\ J!Next /\ UNCHANGED vars

\* The fairness of FairSpec in Room.tla, and of FairSpec in Journal.tla.
LiveSpec ==
    /\ LiveInit /\ [][LiveNext]_<<part, vars, journal>>
    /\ WF_vars(part = "room" /\ Confirm) /\ WF_vars(part = "room" /\ Hear)
    /\ WF_vars(part = "room" /\ Plan) /\ WF_vars(part = "room" /\ StepWrites)
    /\ WF_vars(part = "room" /\ StepWritesNothing) /\ WF_vars(part = "room" /\ Send)
    /\ WF_vars(part = "room" /\ Tick) /\ WF_vars(part = "room" /\ AlarmRings)
    /\ []<>(part = "room" => phase # "down")
    /\ WF_vars(part = "room" /\ \E id \in wired \ DOMAIN room.leases : Claim(id))
    /\ \A w \in Journals : WF_journal(part = "journal" /\ J!Work(w))

QueueDrains == J!QueueDrains

=============================================================================
