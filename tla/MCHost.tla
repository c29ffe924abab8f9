------------------------------- MODULE MCHost -------------------------------
(***************************************************************************)
(* What a host does around a room, for TLC: its callers (Callers.tla), its *)
(* deliveries (Wire.tla), the objects of a seat and of the room on         *)
(* Cloudflare (SeatObject.tla, RoomObject.tla), the executors of its seats *)
(* (MCExecutors.tla) and a compose call of one (Compose.tla).  They share  *)
(* no state, so one check takes them one at a time: the part is chosen at  *)
(* the start.                                                              *)
(***************************************************************************)
EXTENDS Callers, MCExecutors

CONSTANTS Parts, Act, WireSends, SeatChances, RoomRuns, RoomChances, Tool, Sequential,
          RoomTool, CallLimit, Concurrent

VARIABLES
    part,
    stage, state, sends, calls, outage, told, evicted,
    lease, wires, requests, row, alarm, alarming, runner, excused, torn, seatChance,
    fence, composed, stopped, object, running, run, room, word, roomChance,
    composing, program, nested, ending, severed, committed, doubted, notes, outlived, report

W == INSTANCE Wire WITH effects <- sends, Sends <- WireSends

S == INSTANCE SeatObject WITH stored <- row, chance <- seatChance, Chances <- SeatChances

R == INSTANCE RoomObject WITH chance <- roomChance, Chances <- RoomChances, Runs <- RoomRuns

K == INSTANCE Compose WITH stage <- composing, code <- program, calls <- nested, cut <- severed,
                           landed <- committed, doubt <- doubted, late <- outlived

wire == <<stage, state, sends, calls, outage, told, evicted>>

seatObject == <<lease, wires, requests, row, alarm, alarming, runner, excused, torn, seatChance>>

roomObject == <<fence, composed, stopped, object, running, run, room, word, roomChance>>

compose == <<composing, program, nested, ending, severed, committed, doubted, notes, outlived, report>>

-----------------------------------------------------------------------------
(* What the environment may do *)

Rest == [visit |-> 0, present |-> 0, leave |-> 0, cancel |-> 0, stop |-> 0,
         evict |-> 0, fault |-> 0, close |-> 0, wait |-> 0]

Play(ops) == [op \in DOMAIN Rest |-> IF op \in DOMAIN ops THEN ops[op] ELSE Rest[op]]

MCPlays ==
    { \* visits and departures whose confirmations are lost; a handle taken while
      \* the call of its arrival is under way, and left later
      Play([visit |-> 2, leave |-> 3, fault |-> 2, present |-> 1]),
      \* the same with a third arrival
      Play([visit |-> 3, leave |-> 2, fault |-> 1, present |-> 1]),
      \* the same against a stop that is asked for twice, and against an eviction
      Play([visit |-> 2, leave |-> 1, fault |-> 1, present |-> 1, stop |-> 2]),
      Play([visit |-> 2, leave |-> 2, fault |-> 1, stop |-> 2]),
      Play([visit |-> 2, leave |-> 2, fault |-> 1, evict |-> 1]),
      \* cancellations, in doubt and again
      Play([cancel |-> 3, fault |-> 2, stop |-> 1, evict |-> 1]),
      \* callers that wait for the close
      Play([wait |-> 2, close |-> 1, fault |-> 1, stop |-> 1, evict |-> 1, visit |-> 1]) }

Chance(names, ops) == [what \in names |-> IF what \in DOMAIN ops THEN ops[what] ELSE 0]

Seat(ops) == Chance({"evict", "fault", "hold", "cancel"}, ops)

MCSeatChances ==
    { Seat([evict |-> 2]), Seat([evict |-> 1, fault |-> 1]), Seat([evict |-> 1, hold |-> 2]),
      Seat([evict |-> 1, cancel |-> 1]), Seat([fault |-> 1, cancel |-> 1]) }

MCRoomChances == { Chance({"start", "stop", "fault", "evict"},
                          [start |-> 3, stop |-> 2, fault |-> 2, evict |-> 2]) }

-----------------------------------------------------------------------------

HostInit ==
    /\ part \in Parts
    /\ Init /\ W!Init /\ S!Init /\ R!Init /\ ExecutorInit /\ K!Init
    /\ part # "callers" => spare = CHOOSE play \in Plays : TRUE
    /\ part # "seat" => seatChance = CHOOSE ops \in SeatChances : TRUE
    /\ IF part = "executors" THEN kind # "none"
       ELSE kind = "none" /\ luck = CHOOSE ops \in PiLucks : TRUE

HostNext ==
    /\ UNCHANGED part
    /\ \/ part = "callers" /\ Next /\ UNCHANGED <<wire, seatObject, roomObject, executor, compose>>
       \/ part = "wire" /\ W!Next /\ UNCHANGED <<vars, seatObject, roomObject, executor, compose>>
       \/ part = "seat" /\ S!Next /\ UNCHANGED <<vars, wire, roomObject, executor, compose>>
       \/ part = "room" /\ R!Next /\ UNCHANGED <<vars, wire, seatObject, executor, compose>>
       \/ part = "executors" /\ ExecutorNext /\ UNCHANGED <<vars, wire, seatObject, roomObject, compose>>
       \/ part = "compose" /\ K!Next /\ UNCHANGED <<vars, wire, seatObject, roomObject, executor>>

\* The fairness of the part that runs, as its module states it.
HostSpec ==
    /\ HostInit /\ [][HostNext]_<<part, vars, wire, seatObject, roomObject, executor, compose>>
    /\ WF_vars(part = "callers" /\ Resolves)
    /\ \A a \in Act :
          /\ WF_seatObject(part = "seat" /\ S!Sends(a))
          /\ WF_seatObject(part = "seat" /\ S!Arrives(a))
          /\ \A op \in {"claim", "release", "recover"} :
                WF_seatObject(part = "seat" /\ S!Reaches(<<op, a>>))
    /\ WF_seatObject(part = "seat" /\ S!Runs)
    /\ WF_seatObject(part = "seat" /\ S!AlarmFires)
    /\ ExecutorFairness

OutageToldOnce == W!OutageToldOnce
RunKept == S!RunKept
SeatServes == S!SeatServes
RegistryAgrees == R!RegistryAgrees
ReportIsWhole == K!ReportIsWhole

=============================================================================
