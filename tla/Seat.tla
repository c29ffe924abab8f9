------------------------------- MODULE Seat --------------------------------
(***************************************************************************)
(* One seat at the other end of the wire from its room: the driver of its  *)
(* activations (execution/runner.ts, execution/activation.ts) with the     *)
(* room tools that commit (execution/room-tools.ts), over calls that are   *)
(* served late, answered late or lost, against the room's answers          *)
(* (answers.ts, room-run/control.ts).  The executor is external: it reads, *)
(* calls tools and ends its passes as it likes, and may ignore a cut.      *)
(*                                                                         *)
(* The whole memory of the seat's process is the record seat.  What the    *)
(* code does in one turn of the event loop, microtasks included, is one    *)
(* action.                                                                 *)
(***************************************************************************)
EXTENDS Freshness, SequencesExt

CONSTANTS
    Act,        \* the activations the room owes this seat, small naturals
    CallTries,  \* attempts at one room call
    Ttl, Deadline,
    Scenes      \* what may be going on, see scene

ASSUME SeatAssumption ==
    /\ Act \subseteq Nat \ {0}
    /\ {CallTries, Ttl, Deadline} \subseteq Nat \ {0}

VARIABLES
    seat,       \* the memory of the process that runs the seat
    scene,      \* owes: the activations the room owes; broken: those whose opening
                \* fails; summary: those that close an exchange, in one pass and with
                \* no read position; horizon: where the clock stops; spare: how
                \* often the environment may act
    lease,      \* the room's leases
    record,     \* the messages of the record: who wrote each, under which key
    port,       \* wakes, steers and cuts on their way to the seat
    told,       \* history: the messages that reached the model, per activation
    now, spare  \* spare: what is left of the scene's budget

vars == <<seat, scene, lease, record, port, told, now, spare>>

Spend(op) == spare[op] > 0 /\ spare' = [spare EXCEPT ![op] = @ - 1]

NoCall == [op |-> "none"]
NoAnswer == [kind |-> "none"]

\* One activation as the driver holds it.  taken and steered are history: the
\* lines it took and the steer steps it recorded.
Blank ==
    [drv |-> "idle", loop |-> "idle", aborted |-> FALSE, expired |-> FALSE,
     failed |-> FALSE, fresh |-> Unread, view |-> 0, after |-> 0,
     waiting |-> TRUE, early |-> {}, forwarded |-> {}, taken |-> {}, steered |-> <<>>,
     nested |-> {}, held |-> 0, renewAt |-> 0,
     main |-> NoCall, renew |-> NoCall, tool |-> NoCall]

Slots == {"main", "renew", "tool"}

\* cur: the activation that holds the seat; refusing: one whose opening failed;
\* loose: passes that ignored a cut; stray: requests nobody awaits any more.
Fresh == [cur |-> 0, refusing |-> 0, queued |-> <<>>, run |-> [a \in Act |-> Blank],
          loose |-> {}, stray |-> {}]

\* A message of somebody else.
Other == [by |-> 0, key |-> 0, kind |-> "other", knew |-> {}]

NoLease == [phase |-> "none", claimed |-> 0, expires |-> 0, read |-> 0, reason |-> "none"]

Init ==
    /\ seat = Fresh
    /\ scene \in Scenes
    /\ lease = [a \in Act |-> NoLease]
    /\ record = <<Other>>
    /\ told = [a \in Act |-> {}]
    /\ port = [wakes |-> {}, steers |-> {}, cuts |-> {}]
    /\ now = 0
    /\ spare = scene.spare

-----------------------------------------------------------------------------
(* The driver's steps over the seat's memory s *)

Request(op, a, pos, detail) ==
    [op |-> op, act |-> a, pos |-> pos, detail |-> detail, key |-> 0, knew |-> {}]

\* A call in flight: its request, the attempt, and the answer once there is one.
Sent(req, try) == [op |-> req.op, req |-> req, try |-> try, answer |-> NoAnswer]

\* The request the room has not served; a view changes nothing when it is late.
Unserved(c) == IF c.op # "none" /\ c.answer = NoAnswer THEN {c.req} ELSE {}

Strays(c) == {req \in Unserved(c) : req.op # "view"}

\* The wait ends; a request the room has not served may still reach it.
Abandon(s, a, slot) ==
    [s EXCEPT !.stray = @ \cup Strays(s.run[a][slot]), !.run[a][slot] = NoCall]

Claiming(a) == Sent(Request("claim", a, 0, "none"), 1)

\* An activation takes the seat.  The opener may throw: the seat then claims
\* the lease only to release it as a permanent failure.
Take(s, a) ==
    [s EXCEPT !.cur = IF a \in scene.broken THEN 0 ELSE a,
              !.refusing = IF a \in scene.broken THEN a ELSE 0,
              !.run[a] = [Blank EXCEPT !.drv = "claim", !.main = Claiming(a)]]

\* The next wake that queued.
Following(s) ==
    LET free == [s EXCEPT !.cur = 0, !.refusing = 0] IN
    IF s.queued = <<>> THEN free
    ELSE Take([free EXCEPT !.queued = Tail(@)], Head(s.queued))

Enqueue(s, a) ==
    IF \E i \in DOMAIN s.queued : s.queued[i] = a THEN s
    ELSE [s EXCEPT !.queued = Append(@, a)]

\* Each of the lines gets its steer step.
Stamp(r, lines) == [r EXCEPT !.steered = @ \o SetToSeq(lines)]

\* Mutant of DropEarly: the lines that waited are stamped and still wait.
DropEarlyKeeps(r) == Stamp(r, r.early)

DropEarly(r) == [Stamp(r, r.early) EXCEPT !.early = {}, !.waiting = FALSE]

ExpireForwarded(r) == [Stamp(r, r.forwarded) EXCEPT !.forwarded = {}]

ReleaseOf(s, a) ==
    LET r == s.run[a] IN
    Request("release", a, r.fresh.read,
            IF a \in scene.broken \/ r.expired \/ r.failed THEN "failed" ELSE "released")

\* The activation stopped: renewals stop, the lines that waited are stamped,
\* and the lease is released.
Stopped(s, a) ==
    LET t == Abandon(s, a, "renew") IN
    [t EXCEPT !.run[a] = [DropEarly(@) EXCEPT !.drv = "release", !.loop = "done",
                                              !.renewAt = 0,
                                              !.main = Sent(ReleaseOf(s, a), 1)]]

\* The driver lets go of the activation and runs what queued behind it.
Done(s, a) ==
    LET r == DropEarly(s.run[a]) IN
    Following([s EXCEPT !.run[a] = [Blank EXCEPT !.taken = r.taken, !.steered = r.steered,
                                                 !.forwarded = r.forwarded]])

\* Mutant of Cut: the seat waits for a run that ignores the cut.
CutWaits(s, a) == [s EXCEPT !.run[a].aborted = TRUE]

\* The activation is cut.  Every wait of it ends at once; a pass in flight is
\* left to itself; a release is sent and not awaited; the seat moves on.
Cut(s, a) ==
    LET r == s.run[a]
        t == [Abandon(Abandon(Abandon(s, a, "main"), a, "renew"), a, "tool")
              EXCEPT !.run[a].aborted = TRUE, !.run[a].renewAt = 0]
        left == IF r.loop = "pass"
                THEN [t EXCEPT !.loose = @ \cup {[act |-> a, pos |-> r.fresh.read]}]
                ELSE t
        ended == IF r.drv = "running"
                 THEN [left EXCEPT !.stray = @ \cup {ReleaseOf(s, a)}] ELSE left
    IN Done([ended EXCEPT !.run[a].loop = "done"], a)

CutCurrent(s, a) == IF s.cur = a THEN Cut(s, a) ELSE s

\* The renewal and expiry alarms of a confirmed expiry.
Arm(r, expires) == [r EXCEPT !.held = expires, !.renewAt = now + (expires - now) \div 2]

-----------------------------------------------------------------------------
(* The port: what the room sends the seat *)

Calm == UNCHANGED <<scene, lease, record, told, now>>

\* Whatever the room sent may come twice, late or never.
Received(channel, item) ==
    \/ port' = [port EXCEPT ![channel] = @ \ {item}] /\ UNCHANGED spare
    \/ Spend("duplicate") /\ UNCHANGED port

\* A wake starts an activation when none runs, and queues behind another one.
Wake(a) ==
    /\ a \in port.wakes
    /\ Received("wakes", a)
    /\ LET running == IF seat.cur # 0 THEN seat.cur ELSE seat.refusing IN
       seat' = CASE running = 0 -> Take(seat, a)
                 [] running = a -> seat
                 [] OTHER       -> Enqueue(seat, a)
    /\ Calm

CutArrives(a) ==
    /\ a \in port.cuts
    /\ Received("cuts", a)
    /\ seat' = CutCurrent(seat, a)
    /\ Calm

\* A line that lands in a pass: read in its view, handed to the executor, or,
\* when the executor takes none, left to the next delta.
Place(r, line) ==
    CASE r.view = 0         -> {Stamp(r, {line})}
      [] line.seq <= r.view -> {Stamp(r, {line})}
      [] OTHER -> {Stamp(r, {line}), [r EXCEPT !.forwarded = @ \cup {line}]}

Over(r) == r.drv \notin {"claim", "running"}

SteerArrives(line) ==
    /\ line \in port.steers
    /\ port' = [port EXCEPT !.steers = @ \ {line}]
    /\ LET a == line.act
           r == [seat.run[a] EXCEPT !.taken = @ \cup {line}]
       IN IF seat.cur # a \/ Over(r) \/ r.aborted THEN UNCHANGED seat
          ELSE \E q \in IF r.waiting THEN {[r EXCEPT !.early = @ \cup {line}]}
                        ELSE Place(r, line) :
                  seat' = [seat EXCEPT !.run[a] = q]
    /\ Calm /\ UNCHANGED spare

-----------------------------------------------------------------------------
(* What the driver does with an answer *)

Ask(s, a, op) ==
    [s EXCEPT !.run[a].loop = IF op = "view" THEN "view" ELSE "refresh",
              !.run[a].main = Sent(Request(op, a, s.run[a].fresh.read, "none"), 1)]

\* A pass starts over the view: the lines that landed before the first one
\* reach it now.
StartPass(s, a, through) ==
    LET r == [s.run[a] EXCEPT !.view = through, !.after = @, !.loop = "pass",
                              !.main = NoCall, !.waiting = FALSE]
        covered == {l \in r.early : l.seq <= through}
    IN {[s EXCEPT !.run[a] =
            [Stamp(Stamp(r, covered), (r.early \ covered) \ handed)
             EXCEPT !.early = {}, !.forwarded = handed]] :
        handed \in SUBSET (r.early \ covered)}

\* What follows the claim: the first pass, or a release at once.
Claimed(s, a, answer) ==
    CASE answer.kind = "stale" -> {Done(s, a)}
      [] a \in scene.broken -> {[s EXCEPT !.run[a].drv = "release",
                                    !.run[a].main = Sent(ReleaseOf(s, a), 1)]}
      [] answer.expires <= now ->
            {Cut([s EXCEPT !.run[a].drv = "running", !.run[a].expired = TRUE], a)}
      [] OTHER ->
            {Ask([s EXCEPT !.run[a] = [Arm(@, answer.expires) EXCEPT !.drv = "running"]],
                 a, "view")}

Refreshed(s, a, answer) ==
    IF answer.kind # "stale" /\ answer.through > s.run[a].fresh.read
    THEN {Ask(s, a, "view")} ELSE {Stopped(s, a)}

MainAnswered(s, a, answer) ==
    LET op == s.run[a].main.op IN
    CASE op = "claim"   -> Claimed(s, a, answer)
      [] op = "release" -> {Done(s, a)}
      [] op = "view" /\ answer.kind = "stale" -> {Stopped(s, a)}
      [] op = "view"    -> StartPass(s, a, answer.through)
      [] OTHER          -> Refreshed(s, a, answer)

\* No attempt came back: a lost view or refresh fails the activation.
MainLost(s, a) ==
    IF s.run[a].main.op \in {"claim", "release"} THEN Done(s, a)
    ELSE Stopped([s EXCEPT !.run[a].failed = TRUE], a)

\* The answer of a renewal: the room ended the lease, or confirms it for longer.
Renewed(s, a, answer) ==
    LET r == s.run[a] IN
    CASE answer.kind = "stale"    -> Cut(s, a)
      [] answer.expires <= r.held -> [s EXCEPT !.run[a].held = answer.expires]
      [] OTHER                    -> [s EXCEPT !.run[a] = Arm(r, answer.expires)]

Landing(f, req, answer) ==
    LET clean == answer.unread = {} IN
    CASE req.act \in scene.summary -> f
      [] req.detail = "say"   -> Acknowledge(f, answer.seq)
      [] req.detail = "note"  -> IF clean THEN Acknowledge(f, answer.seq)
                                 ELSE Expect(f, req.key, answer.seq)
      [] OTHER -> Consume(f, [after |-> IF clean THEN req.pos ELSE answer.seq - 1,
                              through |-> answer.seq])

\* What a commit was answered; a stale or unknown one ends the activation.
ToolAnswered(r, req, answer) ==
    CASE answer.kind = "landed" -> [r EXCEPT !.fresh = Landing(@, req, answer)]
      [] answer.kind = "missed" -> [r EXCEPT !.fresh = Expect(@, req.key, answer.through)]
      [] OTHER                  -> [r EXCEPT !.aborted = TRUE]

Hears(a, slot) ==
    LET c == seat.run[a][slot]
        s == [seat EXCEPT !.run[a][slot] = NoCall]
    IN /\ c.op # "none" /\ c.answer # NoAnswer
       /\ CASE slot = "main"  -> \E t \in MainAnswered(seat, a, c.answer) : seat' = t
            [] slot = "renew" -> seat' = Renewed(s, a, c.answer)
            [] slot = "tool"  -> seat' = [s EXCEPT !.run[a] = ToolAnswered(@, c.req, c.answer)]
       /\ Calm /\ UNCHANGED <<port, spare>>

Retried == {"claim", "release", "commit"}

\* A call times out, or its transport fails: the request or its answer may
\* still be on the way.  A claim, a release and a commit are sent again.
Loses(a, slot) ==
    LET c == seat.run[a][slot]
        s == Abandon(seat, a, slot)
    IN /\ c.op # "none" /\ Spend("lose")
       /\ \E stray \in {seat.stray, s.stray} :
          seat' = [(IF c.op \in Retried /\ c.try < CallTries
                    THEN [s EXCEPT !.run[a][slot] = Sent(c.req, c.try + 1)]
                    ELSE CASE slot = "main"  -> MainLost(seat, a)
                           [] slot = "tool"  -> [s EXCEPT !.run[a].aborted = TRUE]
                           [] slot = "renew" -> s)
                   EXCEPT !.stray = (@ \ Strays(c)) \cup stray]
       /\ Calm /\ UNCHANGED port

Working(a) == seat.cur = a /\ seat.run[a].drv = "running"

RenewalDue(a) ==
    LET r == seat.run[a] IN
    /\ Working(a) /\ r.renewAt # 0 /\ r.renewAt <= now
    /\ seat' = [seat EXCEPT !.run[a].renewAt = 0,
                 !.run[a].renew = Sent(Request("renew", a, r.fresh.read, "none"), 1)]
    /\ Calm /\ UNCHANGED <<port, spare>>

\* The last confirmed expiry is the seat's own boundary.
ExpiryDue(a) ==
    /\ Working(a) /\ seat.run[a].held <= now
    /\ seat' = CutCurrent([seat EXCEPT !.run[a].expired = TRUE], a)
    /\ Calm /\ UNCHANGED <<port, spare>>

-----------------------------------------------------------------------------
(* The executor and its tools: external but for the tools *)

InPass(a) == Working(a) /\ seat.run[a].loop = "pass"

Told(a, seqs) == told' = [told EXCEPT ![a] = @ \cup seqs]

\* The model consumes the record of the pass: whole, or what is new.  A pass
\* with nothing new counts its view as read.
ReadsRecord(a) ==
    LET r == seat.run[a] IN
    /\ InPass(a)
    /\ ~(r.after + 1..r.view \subseteq told[a]) \/ r.fresh.read < r.view
    /\ seat' = [seat EXCEPT !.run[a].fresh =
                   IF r.view <= r.after THEN Acknowledge(@, r.view)
                   ELSE Consume(@, [after |-> r.after, through |-> r.view])]
    /\ Told(a, r.after + 1..r.view)
    /\ UNCHANGED <<scene, lease, record, port, now, spare>>

\* The model consumes a line the executor holds.
ReadsLine(a) ==
    /\ InPass(a)
    /\ \E line \in seat.run[a].forwarded :
          /\ seat' = [seat EXCEPT !.run[a] =
                [Stamp(@, {line}) EXCEPT !.forwarded = @ \ {line},
                    !.fresh = Consume(@, [after |-> line.after, through |-> line.seq])]]
          /\ Told(a, {line.seq})
    /\ UNCHANGED <<scene, lease, record, port, now, spare>>

\* The id of the compose call a pass may make around its other calls.
Compose == 0

\* The result of a call that carries record reaches the model; that of a call
\* nested in a compose reaches it with the compose result, if that shows it.
ReadsResult(a) ==
    LET f == seat.run[a].fresh
        direct == {r.tool : r \in f.results} \ seat.run[a].nested
    IN /\ InPass(a)
       /\ \E tool \in direct \cup {x.parent : x \in f.shown} :
             LET g == Deliver(f, tool) IN
             /\ seat' = [seat EXCEPT !.run[a].fresh = g]
             /\ Told(a, UNION {f.read + 1..r.seq : r \in f.results \ g.results})
       /\ UNCHANGED <<scene, lease, record, port, now, spare>>

\* A compose call ends: its result shows some of the nested results.
ComposeEnds(a) ==
    /\ InPass(a) /\ seat.run[a].tool = NoCall
    /\ Spend("compose")
    /\ \E shows \in SUBSET seat.run[a].nested :
          seat' = [seat EXCEPT !.run[a].fresh = Report(@, Compose, shows)]
    /\ UNCHANGED <<scene, lease, record, port, told, now>>

\* A tool call that commits: a say, a note to itself, or a seating.  Its id is
\* the key under which every attempt of it is sent.  A pass
\* that still has a compose call to end makes it inside that call.
CallsTool(a, kind) ==
    LET req == [Request("commit", a, seat.run[a].fresh.read, kind)
                EXCEPT !.key = spare["tool"], !.knew = told[a]]
    IN /\ InPass(a) /\ ~seat.run[a].aborted
       /\ seat.run[a].tool = NoCall
       /\ a \in scene.summary => kind = "say"
       /\ Spend("tool")
       /\ seat' = [seat EXCEPT !.run[a].tool = Sent(req, 1),
                               !.run[a].nested = IF spare["compose"] > 0 THEN @ \cup {req.key} ELSE @]
       /\ UNCHANGED <<scene, lease, record, port, told, now>>

\* A pass that ignores the cut may still commit; nobody hears the answer.
LooseCommit ==
    /\ Spend("tool")
    /\ \E p \in seat.loose :
          seat' = [seat EXCEPT !.stray = @ \cup
                    {[Request("commit", p.act, p.pos, "say")
                      EXCEPT !.key = spare["tool"], !.knew = told[p.act]]}]
    /\ UNCHANGED <<scene, lease, record, port, told, now>>

\* The pass settles.  A failed pass, a cut and a summary end the activation;
\* any other asks the room where the record stands.
PassEnds(a, fails) ==
    LET r == seat.run[a]
        s == [seat EXCEPT !.run[a] =
                [ExpireForwarded(DropEarly(r)) EXCEPT !.view = 0, !.after = r.fresh.read,
                                                     !.failed = fails]]
    IN /\ InPass(a) /\ r.tool = NoCall
       /\ IF fails THEN Spend("fail") ELSE UNCHANGED spare
       /\ seat' = IF fails \/ r.aborted \/ a \in scene.summary THEN Stopped(s, a)
                  ELSE Ask(s, a, "renew")
       /\ Calm /\ UNCHANGED port

-----------------------------------------------------------------------------
(* The room: what it answers and what it does by itself *)

Live(a) == lease[a].phase = "running" /\ now < lease[a].expires

SeatHeld(a) == \E b \in Act \ {a} : Live(b)

Stale == [kind |-> "stale"]

\* What the room makes of a request now: the lease, the record, the answer.
Outcome(l, rec, answer) == [lease |-> l, record |-> rec, answer |-> answer]

Refused == Outcome(lease, record, Stale)

HoldOutcome(req) ==
    LET a == req.act
        old == lease[a]
        claimed == IF old.phase = "none" THEN now ELSE old.claimed
        expires == Least({now + Ttl, claimed + Deadline})
    IN IF \/ Live(a)
          \/ old.phase = "none" /\ req.op = "claim" /\ ~SeatHeld(a)
       THEN Outcome([lease EXCEPT ![a] = [phase |-> "running", claimed |-> claimed,
                                          expires |-> expires, reason |-> "none",
                                          read |-> Greatest({@.read, req.pos})]],
                    record,
                    [kind |-> "held", expires |-> expires, through |-> Len(record)])
       ELSE Refused

ReleaseOutcome(req) ==
    LET a == req.act IN
    IF Live(a)
    THEN Outcome([lease EXCEPT ![a] = [@ EXCEPT !.phase = "ended", !.reason = req.detail,
                                                !.read = Greatest({@, req.pos})]],
                 record, [kind |-> "released"])
    ELSE Refused

\* Mutant of Kept: a repeated call is a new message.
KeptNot(key) == {}

\* The entry of the record that a call's key is already on.
Kept(key) == {i \in DOMAIN record : record[i].by # 0 /\ record[i].key = key}

Landed(req, rec, seq) ==
    Outcome(lease, rec, [kind |-> "landed", seq |-> seq, unread |-> req.pos + 1..seq - 1])

\* A key the journal holds returns its entry.  A say is refused when anything
\* landed past its read position; the rest lands at any position.
CommitOutcome(req) ==
    CASE ~Live(req.act)       -> Refused
      [] Kept(req.key) # {}   -> Landed(req, record, Least(Kept(req.key)))
      [] req.detail = "say" /\ req.act \notin scene.summary /\ Len(record) > req.pos ->
            Outcome(lease, record, [kind |-> "missed", through |-> Len(record)])
      [] OTHER -> Landed(req, Append(record, [by |-> req.act, key |-> req.key,
                                              kind |-> req.detail, knew |-> req.knew]),
                         Len(record) + 1)

ViewOutcome(req) ==
    IF Live(req.act)
    THEN Outcome(lease, record, [kind |-> "view", through |-> Len(record)])
    ELSE Refused

Served(req) ==
    CASE req.op \in {"claim", "renew"} -> HoldOutcome(req)
      [] req.op = "release"            -> ReleaseOutcome(req)
      [] req.op = "commit"             -> CommitOutcome(req)
      [] OTHER                         -> ViewOutcome(req)

\* A message steers the other activations at work when it lands.
SteersOf(rec, author) ==
    {[act |-> a, after |-> Len(rec) - 1, seq |-> Len(rec)] :
        a \in {b \in Act \ scene.summary : Live(b) /\ b # author}}

Lands(o, author) ==
    /\ lease' = o.lease /\ record' = o.record
    /\ port' = IF Len(o.record) > Len(record)
               THEN [port EXCEPT !.steers = @ \cup SteersOf(o.record, author)] ELSE port

Serves(a, slot) ==
    LET c == seat.run[a][slot] IN
    /\ Unserved(c) # {}
    /\ LET o == Served(c.req) IN
       /\ Lands(o, a)
       /\ seat' = [seat EXCEPT !.run[a][slot].answer = o.answer]
    /\ UNCHANGED <<scene, told, now, spare>>

\* A request nobody waits for reaches the room late.
ServesLate ==
    /\ \E req \in seat.stray :
          /\ Lands(Served(req), req.act)
          /\ seat' = [seat EXCEPT !.stray = @ \ {req}]
    /\ UNCHANGED <<scene, told, now, spare>>

\* The room wakes what it owes, and again while nobody has claimed it.
RoomWakes(a) ==
    /\ a \in scene.owes /\ lease[a].phase = "none" /\ a \notin port.wakes
    /\ Spend("wake")
    /\ port' = [port EXCEPT !.wakes = @ \cup {a}]
    /\ UNCHANGED <<seat, scene, lease, record, told, now>>

OtherSpeaks ==
    /\ Spend("other")
    /\ Lands(Outcome(lease, Append(record, Other), Stale), 0)
    /\ UNCHANGED <<seat, scene, told, now>>

RoomEnds(a) ==
    /\ lease[a].phase = "running"
    /\ \/ ~Live(a) /\ lease' = [lease EXCEPT ![a].phase = "ended", ![a].reason = "expired"]
          /\ UNCHANGED <<port, spare>>
       \/ /\ Spend("revoke")
          /\ lease' = [lease EXCEPT ![a].phase = "ended", ![a].reason = "revoked"]
          /\ port' = [port EXCEPT !.cuts = @ \cup {a}]
    /\ UNCHANGED <<seat, scene, record, told, now>>

\* The process of the seat is lost; one that comes back releases, as failed,
\* the activation it lost.
Crash ==
    /\ Spend("crash")
    /\ LET out == seat.stray \cup
                  UNION {Strays(seat.run[a][slot]) : a \in Act, slot \in Slots}
       IN \E lost \in {{}, {seat.cur} \ {0}} :
          seat' = [Fresh EXCEPT !.stray = out \cup
                    {Request("release", a, 0, "failed") : a \in lost}]
    /\ Calm /\ UNCHANGED port

Tick ==
    /\ now < scene.horizon
    /\ \E a \in Act : Live(a) \/ (Working(a) /\ now < seat.run[a].held)
    /\ now' = now + 1
    /\ UNCHANGED <<seat, scene, lease, record, port, told, spare>>

-----------------------------------------------------------------------------
Next ==
    \/ \E a \in Act :
          \/ Wake(a) \/ CutArrives(a) \/ RenewalDue(a) \/ ExpiryDue(a)
          \/ \E slot \in Slots : Hears(a, slot) \/ Loses(a, slot) \/ Serves(a, slot)
          \/ ReadsRecord(a) \/ ReadsLine(a) \/ ReadsResult(a)
          \/ \E kind \in {"say", "note", "seat"} : CallsTool(a, kind)
          \/ ComposeEnds(a)
          \/ \E fails \in BOOLEAN : PassEnds(a, fails)
          \/ RoomWakes(a) \/ RoomEnds(a)
    \/ \E line \in port.steers : SteerArrives(line)
    \/ LooseCommit \/ ServesLate \/ OtherSpeaks \/ Crash \/ Tick

Spec == Init /\ [][Next]_vars

(* The clock goes on and its alarms ring, and a room call is answered, or    *)
(* lost, in the end.  No executor is assumed to read, to commit or to end.   *)
FairSpec ==
    /\ Spec
    /\ WF_vars(Tick \/ \E a \in Act : ExpiryDue(a))
    /\ WF_vars(\E a \in Act : Serves(a, "main") \/ Hears(a, "main"))

(* What a seat tells the room is true of its model: a say was written by an *)
(* author whose model had read, or been steered with, what others had said, *)
(* and what an activation acknowledges with a renewal or a release had      *)
(* reached its model - the room wakes nobody again for a message at or      *)
(* below that position (execution/freshness.ts, room/transition.ts          *)
(* speechFreshness, room/rules.verified.ts answers).                        *)
Informed ==
    /\ \A i \in DOMAIN record :
          record[i].kind = "say" /\ record[i].by \notin scene.summary =>
              \A j \in 1..i - 1 : record[j].by = record[i].by \/ j \in record[i].knew
    /\ \A a \in Act : \A j \in 1..lease[a].read :
          j \in DOMAIN record => record[j].by = a \/ j \in told[a]

(* A tool call lands once, however many attempts of it were lost, served    *)
(* late or answered late (execution/runner.ts commitOnce).                  *)
CallLandsOnce ==
    \A i, j \in DOMAIN record :
        record[i].by # 0 /\ record[j].by # 0 /\ record[i].key = record[j].key => i = j

(* Every line an activation took gets one steer step by the time it lets go *)
(* of the seat; a line that a pass left to itself still holds is the        *)
(* exception (execution/activation.ts).                                     *)
SteeredOnce ==
    \A a \in Act :
        LET r == seat.run[a] IN
        /\ \A i, j \in DOMAIN r.steered : r.steered[i] = r.steered[j] => i = j
        /\ r.drv \in {"idle", "release"} =>
              r.taken \subseteq Range(r.steered) \cup r.forwarded

(* A wake that queued behind an activation runs, although that activation's *)
(* executor never ends and ignores every cut: the local expiry cuts it, and *)
(* the driver moves on (execution/runner.ts renewUntil, cut, next).  Asked  *)
(* of the scenes whose clock reaches the deadline.                          *)
QueueMoves ==
    \A a \in Act : a \in Range(seat.queued) /\ Deadline <= scene.horizon
                        ~> a \notin Range(seat.queued)

=============================================================================
