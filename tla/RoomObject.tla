----------------------------- MODULE RoomObject -----------------------------
(***************************************************************************)
(* Who runs a room: the registry of a runtime (ambion/src host/runtime.ts, *)
(* room.ts acquire), the start and the end of a run of the room (room-run/ *)
(* room.ts, control.ts stopRun), and the room as a Durable Object around   *)
(* them (cloudflare/src room-object.ts).                                   *)
(*                                                                         *)
(* The object has one durable flag beside the record, and loses its memory *)
(* at any time; no other host has its storage.  A run whose start failed   *)
(* frees its name and stays in memory until it hears of a newer one.       *)
(***************************************************************************)
EXTENDS Integers, Sequences

CONSTANTS
    Runs,       \* bound: runs ever made
    Chances     \* what the environment may do, and how often

VARIABLES
    fence,      \* the run whose fence is the last of the record, or 0
    composed,   \* the record has a composition
    stopped,    \* the flag of the object
    object,     \* down, building or up
    running,    \* the registry: the run that holds the name, or 0
    run,        \* every run of this memory and of earlier ones
    room,       \* the handle the object holds, or 0
    word,       \* history: the last thing a caller was told, or open while nothing is sure
    chance

vars == <<fence, composed, stopped, object, running, run, room, word, chance>>

Meets(what) == chance[what] > 0 /\ chance' = [chance EXCEPT ![what] = @ - 1]

Init ==
    /\ fence = 0 /\ composed = FALSE /\ stopped = FALSE
    /\ object = "down" /\ running = 0 /\ run = <<>> /\ room = 0 /\ word = "none"
    /\ chance \in Chances

-----------------------------------------------------------------------------
(* The registry and the runs *)

\* A run takes the name before it has written anything.
Opens(how) ==
    /\ Len(run) < Runs
    /\ run' = Append(run, [how |-> how, pc |-> "fences", phase |-> "running", stops |-> FALSE])
    /\ running' = Len(run) + 1

\* Mutant of Freed: a run that ends frees the name whoever holds it.
FreedAnyway(r) == 0

\* A run that ends frees the name if it holds it.
Freed(r) == IF running = r THEN 0 ELSE running

In(r, phase) == run[r].phase = phase

\* What a run hears at a write of its own: a later fence ends it.
Superseded(r) == run[r].pc # "fences" /\ fence # r

\* The caller that waits for a start: the object's constructor, or a call.
StartFails(r) ==
    /\ running' = Freed(r)
    /\ object' = IF run[r].how = "resume" THEN "down" ELSE object
    /\ word' = "open"

\* The fence lands, is refused, or is in doubt.
Fences(r) ==
    /\ run[r].pc = "fences" /\ In(r, "running")
    /\ \/ /\ fence' = r /\ run' = [run EXCEPT ![r].pc = "composes"]
          /\ UNCHANGED <<running, object, word, chance>>
       \/ /\ Meets("fault") /\ fence' \in {fence, r}
          /\ run' = [run EXCEPT ![r].pc = "failed"] /\ StartFails(r)
    /\ UNCHANGED <<composed, stopped, room>>

\* Then the composition, which a resumed run finds on the record.
Composes(r) ==
    /\ run[r].pc = "composes" /\ In(r, "running") /\ UNCHANGED <<fence, stopped, room>>
    /\ \/ /\ composed' = TRUE /\ run' = [run EXCEPT ![r].pc = "reconciles"]
          /\ UNCHANGED <<running, object, word, chance>>
       \/ /\ Meets("fault") /\ composed' \in {composed, TRUE}
          /\ run' = [run EXCEPT ![r].pc = "failed"] /\ StartFails(r)

\* The first reconcile never fails the start.
Starts(r) ==
    /\ run[r].pc = "reconciles"
    /\ run' = [run EXCEPT ![r].pc = "started"]
    /\ room' = r /\ object' = "up"
    /\ word' = IF run[r].how = "start" THEN "started" ELSE word
    /\ UNCHANGED <<fence, composed, stopped, running, chance>>

\* A run that writes or reads finds that another one took the name.
Hears(r) ==
    /\ run[r].phase # "evicted" /\ Superseded(r)
    /\ run' = [run EXCEPT ![r].phase = "evicted"]
    /\ running' = Freed(r)
    /\ UNCHANGED <<fence, composed, stopped, object, room, word, chance>>

-----------------------------------------------------------------------------
(* The object *)

\* The constructor answers no call before the room it resumes is up.
Builds ==
    /\ object = "down"
    /\ IF stopped \/ ~composed THEN object' = "up" /\ UNCHANGED <<run, running>>
                               ELSE object' = "building" /\ Opens("resume")
    /\ UNCHANGED <<fence, composed, stopped, room, word, chance>>

\* Mutant of Cleared: a start leaves the flag as it is.
ClearedNot == stopped

\* A start takes the flag away before anything is sure.
Cleared == FALSE

\* start, and ensureStart with no start under way: a name in use refuses it.
StartCalled ==
    /\ object = "up" /\ room = 0 /\ Meets("start")
    /\ stopped' = Cleared /\ word' = "open"
    /\ IF running = 0 THEN Opens("start") ELSE UNCHANGED <<run, running>>
    /\ UNCHANGED <<fence, composed, object, room>>

StopCalled ==
    /\ object = "up" /\ room # 0 /\ ~run[room].stops /\ Meets("stop")
    /\ word' = "open"
    /\ run' = [run EXCEPT ![room].stops = TRUE, ![room].phase = "stopped"]
    /\ UNCHANGED <<fence, composed, stopped, object, running, room>>

\* The flag is set once the stop is over.
Told == stopped' = TRUE /\ room' = 0 /\ word' = "stopped"

\* The stop is over, or failed; the name is free in both cases.
StopEnds ==
    /\ object = "up" /\ room # 0 /\ run[room].stops
    /\ running' = Freed(room) /\ run' = [run EXCEPT ![room].stops = FALSE]
    /\ \/ Told /\ UNCHANGED chance
       \/ Meets("fault") /\ UNCHANGED <<stopped, room, word>>
    /\ UNCHANGED <<fence, composed, object>>

\* The object loses its memory, and every call that is under way its answer.
Evicts ==
    /\ object # "down" /\ Meets("evict")
    /\ object' = "down" /\ running' = 0 /\ room' = 0
    /\ run' = [r \in DOMAIN run |-> [run[r] EXCEPT !.pc = "failed", !.phase = "evicted", !.stops = FALSE]]
    /\ UNCHANGED <<fence, composed, stopped, word>>

-----------------------------------------------------------------------------

Next ==
    \/ \E r \in DOMAIN run : Fences(r) \/ Composes(r) \/ Starts(r) \/ Hears(r)
    \/ Builds \/ StartCalled \/ StopCalled \/ StopEnds \/ Evicts

Spec == Init /\ [][Next]_vars

-----------------------------------------------------------------------------
(* A run that is at work holds its name, so nothing starts beside it: a run *)
(* that ends late, superseded or after a start that failed, does not free   *)
(* the name that a newer run of this memory holds (runtime.ts release).     *)
NameIsHeld ==
    \A r \in DOMAIN run : In(r, "running") /\ run[r].pc # "failed" => running = r

(* What the object last told a caller survives the loss of its memory: the  *)
(* next object resumes a room whose start it confirmed, and leaves one down *)
(* whose stop it confirmed (room-object.ts start, stop, constructor).       *)
LastWordKept ==
    object = "up" =>
        /\ word = "started" => room # 0 /\ In(room, "running")
        /\ word = "stopped" => room = 0 /\ running = 0

(* What the host was told and what the registry and the storage hold agree. *)
RegistryAgrees == NameIsHeld /\ LastWordKept

=============================================================================
