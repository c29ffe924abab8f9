----------------------------- MODULE SeatObject -----------------------------
(***************************************************************************)
(* A seat as a Durable Object (cloudflare/src seat-object.ts, storage.ts): *)
(* one durable row and one alarm, around a runner that lives in memory.    *)
(* The room sends wakes and cuts over calls that may be late or lost, and  *)
(* sends a wake again while the activation is owed; the object may be      *)
(* evicted at any time, and then runs the alarm that it lost again.        *)
(*                                                                         *)
(* The runner itself is Seat.tla; here it claims, works, releases, and     *)
(* takes what queued behind it.                                            *)
(***************************************************************************)
EXTENDS Integers, Sequences, SequencesExt

CONSTANTS
    Act,        \* the activations of the seat
    Chances     \* what the environment may do, and how often

VARIABLES
    lease,      \* the room's record of each activation: none, due, live, ended
    wires,      \* the wakes and cuts on their way to the seat
    requests,   \* the claims and releases on their way to the room
    stored,     \* the row: the activation held, its phase, the hold
    alarm,      \* whether the object's alarm is set
    alarming,   \* the activation the alarm works for, or 0
    runner,     \* what the runner of the object does, and what waits behind it
    excused,    \* history: the activations whose release nobody confirmed in time
    torn,       \* history: the activations that a recovery ended while they ran
    chance      \* what is left for the environment

vars == <<lease, wires, requests, stored, alarm, alarming, runner, excused, torn, chance>>

room == <<lease, wires>>
object == <<stored, alarm, alarming, runner>>

Meets(what) == chance[what] > 0 /\ chance' = [chance EXCEPT ![what] = @ - 1]

NoRow == [held |-> 0, phase |-> "none", hold |-> FALSE]

\* pc: none, claims, works, releases, or recovers
Idle == [now |-> 0, pc |-> "none", queue |-> <<>>]

Init ==
    /\ lease = [a \in Act |-> "none"] /\ wires = {} /\ requests = {}
    /\ stored = NoRow /\ alarm = FALSE /\ alarming = 0 /\ runner = Idle
    /\ excused = {} /\ torn = {}
    /\ chance \in Chances

-----------------------------------------------------------------------------
(* The room *)

Owes(a) ==
    /\ lease[a] = "none" /\ lease' = [lease EXCEPT ![a] = "due"]
    /\ UNCHANGED <<wires, requests, object, excused, torn, chance>>

\* A wake that nobody answered is sent again.
Sends(a) ==
    /\ lease[a] = "due" /\ wires' = wires \cup {<<"wake", a>>}
    /\ UNCHANGED <<lease, requests, object, excused, torn, chance>>

\* A cancellation, or the expiry of a lease: one that was live is cut.
Ends(a) ==
    /\ lease[a] \in {"due", "live"} /\ Meets("cancel")
    /\ lease' = [lease EXCEPT ![a] = "ended"]
    /\ wires' = IF lease[a] = "live" THEN wires \cup {<<"cut", a>>} ELSE wires
    /\ UNCHANGED <<requests, object, excused, torn>>

Drops(wire) ==
    /\ wire \in wires /\ Meets("fault") /\ wires' = wires \ {wire}
    /\ UNCHANGED <<lease, requests, object, excused, torn>>

\* A claim or a release reaches the room.
Reaches(request) ==
    LET a == request[2] IN
    /\ request \in requests /\ requests' = requests \ {request}
    /\ lease' = CASE request[1] = "claim" /\ lease[a] = "due" -> [lease EXCEPT ![a] = "live"]
                  [] request[1] # "claim" /\ lease[a] = "live" -> [lease EXCEPT ![a] = "ended"]
                  [] OTHER -> lease
    /\ torn' = IF request[1] = "recover" /\ lease[a] = "live" /\ runner.now = a /\ runner.pc = "works"
                  /\ a \notin excused
               THEN torn \cup {a} ELSE torn
    /\ UNCHANGED <<wires, object, excused, chance>>

-----------------------------------------------------------------------------
(* The runner *)

Asks(op, a) == requests' = requests \cup {<<op, a>>}

Takes(a, queue) == runner' = [now |-> a, pc |-> "claims", queue |-> queue] /\ Asks("claim", a)

\* Mutant of Cleared: a run that ended otherwise than by its release keeps its row.
ClearedIfConfirmed(confirmed) ==
    IF confirmed THEN [stored EXCEPT !.held = 0, !.phase = "none"] ELSE stored

\* The row is free again, however the run ended.
Cleared(confirmed) ==
    IF stored.held = alarming THEN [stored EXCEPT !.held = 0, !.phase = "none"] ELSE stored

HandlerEnds(confirmed) == stored' = Cleared(confirmed) /\ alarming' = 0 /\ UNCHANGED alarm

\* The runner goes on with what queued behind, and the alarm with it.
GoesOn(asked, confirmed) ==
    IF runner.queue = <<>>
    THEN runner' = Idle /\ requests' = asked /\ HandlerEnds(confirmed)
    ELSE /\ runner' = [now |-> Head(runner.queue), pc |-> "claims", queue |-> Tail(runner.queue)]
         /\ requests' = asked \cup {<<"claim", Head(runner.queue)>>}
         /\ UNCHANGED <<stored, alarm, alarming>>

\* The answer to a claim: granted, also when the lease runs already, or refused.
Claimed ==
    /\ runner.pc = "claims" /\ <<"claim", runner.now>> \notin requests
    /\ IF lease[runner.now] = "live"
       THEN runner' = [runner EXCEPT !.pc = "works"] /\ UNCHANGED <<requests, stored, alarm, alarming>>
       ELSE GoesOn(requests, TRUE)
    /\ UNCHANGED <<room, excused, torn, chance>>

Works ==
    /\ runner.pc = "works"
    /\ runner' = [runner EXCEPT !.pc = "releases"] /\ Asks("release", runner.now)
    /\ UNCHANGED <<room, stored, alarm, alarming, excused, torn, chance>>

Released ==
    /\ runner.pc \in {"releases", "recovers"}
    /\ \A op \in {"release", "recover"} : <<op, runner.now>> \notin requests
    /\ GoesOn(requests, TRUE)
    /\ UNCHANGED <<room, excused, torn, chance>>

\* No attempt of a call came back in time: it was lost, or lands later.
GivesUp ==
    /\ runner.pc \in {"claims", "releases", "recovers"} /\ Meets("fault")
    /\ \E lost \in SUBSET {r \in requests : r[2] = runner.now} : GoesOn(requests \ lost, FALSE)
    /\ excused' = excused \cup {runner.now}
    /\ UNCHANGED <<room, torn>>

-----------------------------------------------------------------------------
(* The object *)

Holds(a) == stored.held \in {0, a}

\* A wake for the activation that is held, or for the first one, sets the
\* alarm; another one goes to the runner, when there is one.
WakeArrives(a) ==
    /\ <<"wake", a>> \in wires /\ wires' = wires \ {<<"wake", a>>}
    /\ IF Holds(a)
       THEN /\ stored' = [stored EXCEPT !.held = a, !.phase = IF @ = "none" THEN "pending" ELSE @]
            /\ alarm' = (alarm \/ ~stored.hold)
            /\ UNCHANGED runner
       ELSE /\ runner' = IF runner.pc \in {"none", "recovers"} \/ a = runner.now \/ Contains(runner.queue, a)
                         THEN runner ELSE [runner EXCEPT !.queue = Append(@, a)]
            /\ UNCHANGED <<stored, alarm>>
    /\ UNCHANGED <<lease, requests, alarming, excused, torn, chance>>

\* A cut ends the claim or the work, and the release is sent without a wait.
CutArrives(a) ==
    /\ <<"cut", a>> \in wires /\ wires' = wires \ {<<"cut", a>>}
    /\ IF runner.now = a /\ runner.pc \in {"claims", "works", "releases"}
       THEN GoesOn(IF runner.pc = "works" THEN requests \cup {<<"release", a>>} ELSE requests, TRUE)
       ELSE UNCHANGED <<requests, object>>
    /\ UNCHANGED <<lease, excused, torn, chance>>

Hold(on) ==
    /\ Meets("hold") /\ stored.hold # on
    /\ stored' = [stored EXCEPT !.hold = on]
    /\ alarm' = (alarm \/ (~on /\ stored.held # 0))
    /\ UNCHANGED <<room, requests, alarming, runner, excused, torn>>

\* Mutant of Busy: a second alarm takes the row of the one that runs.
BusyNever == FALSE

\* The flag of the alarm that runs lives in memory.
Busy == alarming # 0

\* The alarm runs what the row holds; a run that an eviction lost is released.
AlarmFires ==
    /\ alarm /\ alarm' = FALSE
    /\ IF Busy \/ stored.held = 0 THEN UNCHANGED <<requests, stored, alarming, runner>>
       ELSE /\ alarming' = stored.held
            /\ IF stored.phase = "running"
               THEN /\ runner' = IF runner.pc = "none" THEN [Idle EXCEPT !.now = stored.held, !.pc = "recovers"]
                                 ELSE runner
                    /\ Asks("recover", stored.held) /\ UNCHANGED stored
               ELSE stored' = [stored EXCEPT !.phase = "running"] /\ Takes(stored.held, <<>>)
    /\ UNCHANGED <<room, excused, torn, chance>>

\* The object loses its memory.  An alarm that was under way runs again, and
\* a call that was under way may land after the calls of that second run.
Evicts ==
    /\ Meets("evict") /\ runner' = Idle /\ alarming' = 0
    /\ alarm' = (alarm \/ alarming # 0)
    /\ excused' = excused \cup {r[2] : r \in requests}
    /\ UNCHANGED <<room, requests, stored, torn>>

-----------------------------------------------------------------------------

Arrives(a) == WakeArrives(a) \/ CutArrives(a)

Runs == Claimed \/ Works \/ Released

Next ==
    \/ \E a \in Act : Owes(a) \/ Sends(a) \/ Ends(a) \/ Arrives(a)
    \/ \E wire \in wires : Drops(wire)
    \/ \E request \in requests : Reaches(request)
    \/ Runs \/ GivesUp \/ AlarmFires \/ Evicts
    \/ \E on \in BOOLEAN : Hold(on)

\* The room sends what is owed again, what is sent arrives, and the alarm fires.
FairSpec ==
    /\ Init /\ [][Next]_vars
    /\ \A a \in Act : /\ WF_vars(Sends(a)) /\ WF_vars(Arrives(a))
                      /\ \A op \in {"claim", "release", "recover"} : WF_vars(Reaches(<<op, a>>))
    /\ WF_vars(Runs) /\ WF_vars(AlarmFires)

-----------------------------------------------------------------------------
(* A recovery never ends a run that goes on: an alarm that fires while a    *)
(* run is live leaves it alone, also after an eviction and a new wake, as   *)
(* long as its calls come back in time (seat-object.ts alarm).              *)
RunKept == torn = {}

(* What the room owes is served: whatever the object holds, loses in an     *)
(* eviction or drops on the way, an activation that is due is claimed, or   *)
(* ends; and a lease that the object holds is not left to its expiry, as    *)
(* long as its calls come back in time.  A seat on hold serves nothing      *)
(* (seat-object.ts wake, runHeld, clear).                                   *)
SeatServes ==
    \A a \in Act :
        /\ []<>(lease[a] # "due" \/ stored.hold)
        /\ lease[a] = "live" /\ stored.held = a
              ~> lease[a] = "ended" \/ a \in excused \/ stored.hold

=============================================================================
