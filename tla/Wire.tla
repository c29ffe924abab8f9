-------------------------------- MODULE Wire --------------------------------
(***************************************************************************)
(* What a room does with its deliveries to the port of one seat            *)
(* (room-run/dispatch.ts): wakes, steers and cuts are sent and not         *)
(* awaited, each may be answered late, fail or stay unanswered, and the    *)
(* host hears of a failure once per outage.  The projection is given by    *)
(* the stage of each activation.                                           *)
(***************************************************************************)
EXTENDS Integers, Sequences, FiniteSets

CONSTANTS
    Act,        \* the activations of the seat
    Sends       \* bound: deliveries ever sent

Operation == {"wake", "steer", "cut"}
Key == Operation \X Act

VARIABLES
    stage,      \* none, due, running or ended, as the projection has it
    state,      \* the delivery states: token, pending, failed; token 0 is none
    effects,    \* the deliveries the publications of the last entry make
    calls,      \* the sends, in order: key, token and what became of each
    outage,     \* history, per key: it failed or was overtaken since it last worked
    told,       \* history, per key: diagnostics since it last worked
    evicted     \* the run is gone from memory

vars == <<stage, state, effects, calls, outage, told, evicted>>

NoState == [token |-> 0, pending |-> FALSE, failed |-> FALSE]

Init ==
    /\ stage = [a \in Act |-> "none"]
    /\ state = [k \in Key |-> NoState]
    /\ effects = <<>> /\ calls = <<>>
    /\ outage = [k \in Key |-> FALSE] /\ told = [k \in Key |-> 0]
    /\ evicted = FALSE

Active(stages, a) == stages[a] \in {"due", "running"}

\* Failures of activations that are neither owed nor live are dropped.
Pruned(states, stages) ==
    [k \in Key |-> IF Active(stages, k[2]) THEN states[k] ELSE NoState]

\* An entry of the record moves one activation on; what it publishes is sent
\* before the next entry is heard.  A message steers what runs; a revocation
\* cuts it, claimed or not.
Heard(a, to, sends) ==
    /\ effects = <<>> /\ ~evicted
    /\ stage' = [stage EXCEPT ![a] = to]
    /\ state' = Pruned(state, stage')
    /\ effects' = sends
    /\ UNCHANGED <<calls, outage, told, evicted>>

Owed(a) == stage[a] = "none" /\ Heard(a, "due", <<>>)

Claimed(a) == stage[a] = "due" /\ Heard(a, "running", <<>>)

Ends(a) ==
    /\ Active(stage, a)
    /\ \E sends \in {<<>>, <<<<"cut", a>>>>} : Heard(a, "ended", sends)

MessageLands(a) == stage[a] = "running" /\ Heard(a, "running", <<<<"steer", a>>>>)

Tells(k) == told' = [told EXCEPT ![k] = @ + 1]

\* One delivery.  One that is still unanswered counts as failed.
Dispatch(k) ==
    LET states == Pruned(state, stage)
        overtaken == states[k].pending /\ ~states[k].failed
        token == states[k].token + 1
    IN /\ Len(calls) < Sends
       /\ state' = [states EXCEPT ![k] = [token |-> token, pending |-> TRUE,
                                          failed |-> @.failed \/ overtaken]]
       /\ calls' = Append(calls, [key |-> k, token |-> token, end |-> "open"])
       /\ outage' = [outage EXCEPT ![k] = @ \/ states[k].pending]
       /\ IF overtaken THEN Tells(k) ELSE UNCHANGED told

Publishes ==
    /\ effects # <<>>
    /\ effects' = Tail(effects)
    /\ IF evicted THEN UNCHANGED <<state, calls, outage, told>> ELSE Dispatch(Head(effects))
    /\ UNCHANGED <<stage, evicted>>

\* A pass sends the wakes it planned, after the steps it planned with them: by
\* then the activation may have been claimed, or have ended.
SendWake(a) ==
    /\ effects = <<>> /\ ~evicted /\ stage[a] # "none"
    /\ Dispatch(<<"wake", a>>)
    /\ UNCHANGED <<stage, effects, evicted>>

Newest(n) == \A m \in DOMAIN calls : m > n => calls[m].key # calls[n].key

\* Mutant of IsCurrent: an answer counts whichever send it is for.
IsCurrentAny(n) == state[calls[n].key].token # 0

\* The answer is for the send the delivery state is about.
IsCurrent(n) == state[calls[n].key].token = calls[n].token

Works(n) ==
    LET k == calls[n].key IN
    /\ calls[n].end = "open"
    /\ calls' = [calls EXCEPT ![n].end = "worked"]
    /\ state' = IF IsCurrent(n)
                THEN [state EXCEPT ![k].pending = FALSE, ![k].failed = FALSE] ELSE state
    /\ outage' = IF Newest(n) THEN [outage EXCEPT ![k] = FALSE] ELSE outage
    /\ told' = IF Newest(n) THEN [told EXCEPT ![k] = 0] ELSE told
    /\ UNCHANGED <<stage, effects, evicted>>

\* The port rejects, or throws at once.
Fails(n) ==
    LET k == calls[n].key
        reports == IsCurrent(n) /\ ~evicted /\ (k[1] = "cut" \/ Active(stage, k[2]))
    IN /\ calls[n].end = "open"
       /\ calls' = [calls EXCEPT ![n].end = "failed"]
       /\ state' = IF reports THEN [state EXCEPT ![k].pending = FALSE, ![k].failed = TRUE]
                   ELSE state
       /\ outage' = [outage EXCEPT ![k] = @ \/ Newest(n)]
       /\ IF reports /\ ~state[k].failed THEN Tells(k) ELSE UNCHANGED told
       /\ UNCHANGED <<stage, effects, evicted>>

\* The room is dropped from memory.  A stop is not followed further: a run that
\* stops reports no failed answer any more (dispatch.ts:251), and the host has
\* the stop itself.
Evict ==
    /\ ~evicted /\ evicted' = TRUE
    /\ state' = [k \in Key |-> NoState]
    /\ UNCHANGED <<stage, effects, calls, outage, told>>

Next ==
    \/ \E a \in Act : Owed(a) \/ Claimed(a) \/ Ends(a) \/ MessageLands(a) \/ SendWake(a)
    \/ \E n \in DOMAIN calls : Works(n) \/ Fails(n)
    \/ Publishes \/ Evict

Spec == Init /\ [][Next]_vars

-----------------------------------------------------------------------------
(* The host hears of an outage of a delivery once: while a delivery of work *)
(* that is owed or live has failed, or was sent again unanswered, since it  *)
(* last worked, exactly one diagnostic stands, however late and in whatever *)
(* order the answers of the sends come (dispatch.ts dispatch).              *)
OutageToldOnce ==
    \A k \in Key : Active(stage, k[2]) /\ ~evicted =>
        told[k] = IF outage[k] THEN 1 ELSE 0

=============================================================================
