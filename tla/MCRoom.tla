------------------------------- MODULE MCRoom -------------------------------
(***************************************************************************)
(* Room.tla for TLC: one person and two seats.  Each run gives the         *)
(* environment the operations its question needs, each as often as the     *)
(* budget says; claims, releases, summaries and the room's own steps are   *)
(* not rationed.                                                           *)
(***************************************************************************)
EXTENDS Exchanges

CONSTANTS a, b, ann

Nobody == [op \in Ops |-> 0]

\* A question, an answer that wakes a colleague, and a renewal.
TalkBudget == [Nobody EXCEPT !["speak"] = 1, !["say"] = 1, !["renew"] = 1, !["tick"] = 1]

\* Seats are removed and seated again around a question and an answer.
RosterBudget == [Nobody EXCEPT !["speak"] = 1, !["say"] = 1, !["seat"] = 2]

\* A person leaves and comes back, and a seat is removed.
MeetBudget == [Nobody EXCEPT !["meet"] = 2, !["speak"] = 1, !["seat"] = 1, !["crash"] = 1]

\* A scheduled say against a dismissal, a cancellation, a failure and its return.
ScheduleBudget ==
    [Nobody EXCEPT !["speak"] = 1, !["schedule"] = 1, !["dismiss"] = 1, !["cancel"] = 1,
                   !["resend"] = 1, !["fail"] = 1, !["tick"] = 1]

\* The host asks, the seat passes it on to a person, who answers.
AwaitBudget == [Nobody EXCEPT !["post"] = 1, !["say"] = 1, !["speak"] = 1]

\* The room is stopped, crashes, is started again with another cast and loses
\* a confirmation.
StopBudget ==
    [Nobody EXCEPT !["post"] = 1, !["stop"] = 1, !["crash"] = 1, !["recast"] = 1,
                   !["lose"] = 1, !["fault"] = 1, !["tick"] = 2]

\* The room is left to itself after a question, one answer and one crash.
LiveBudget == [Nobody EXCEPT !["speak"] = 1, !["say"] = 1, !["crash"] = 1, !["tick"] = 13]

LostBudget == [Nobody EXCEPT !["speak"] = 1, !["lose"] = 1, !["tick"] = 3]

LeaveWorkBudget == [Nobody EXCEPT !["speak"] = 1, !["stop"] = 1, !["tick"] = 2]

SlowBudget == [Nobody EXCEPT !["speak"] = 1, !["say"] = 1, !["tick"] = 3]

\* The question wakes a, and b wakes when a names it.
AddressedAttention == (a :> "broadcast") @@ (b :> "named")

\* Arrivals, departures and seatings wake a.
WatchingAttention == (a :> "presence") @@ (b :> "named")

AloneAttention == a :> "broadcast"

NoRecast == {}
RecastAlone == {{a}}

\* A room that starts with one of several budgets.
With(budget) == INSTANCE Room WITH Budget <- budget

TalkSpec == (\E budget \in {TalkBudget, ScheduleBudget, AwaitBudget} : With(budget)!Init) /\ [][Next]_vars

StopSpec == (\E budget \in {StopBudget, RosterBudget, MeetBudget} : With(budget)!Init) /\ [][Next]_vars

=============================================================================
