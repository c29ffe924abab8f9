----------------------------- MODULE RoomProofs -----------------------------
(***************************************************************************)
(* Theorems about Room.tla: for every cast, every people, every span of    *)
(* the clock and every budget, what the record of a room can never hold.   *)
(*                                                                         *)
(* One invariant carries them.  Every entry of the record was decided on   *)
(* the replay of all the entries before it (Serial): the serial queue of   *)
(* the journal lets no write be decided on less.  What a property says of  *)
(* the record then follows from the record alone (RoomRecordProofs).       *)
(***************************************************************************)
EXTENDS RoomSafety, RoomIndexProofs

\* The room holds the replay of what it heard, and that is all but at most one.
Serial ==
    /\ Sound(log)
    /\ now \in Nat /\ \A i \in 1..Len(log) : Clocked(log[i]) => log[i].at <= now
    /\ heard \in Nat \ {0} /\ log[1].type = "composition"
    /\ heard = Len(log) \/ heard + 1 = Len(log)
    /\ flight # "none" => heard + 1 = Len(log)
    /\ room = Replays(log)[heard]

\* What the room holds is what its record tells.
LEMMA RoomIs ==
    ASSUME Serial, RulesAssumption
    PROVE  /\ Len(log) \in Nat /\ heard \in 0..Len(log) /\ heard + 1 >= Len(log)
           /\ Formed(log, heard, room) /\ Chained(log, heard, room)
           /\ Leased(log, heard, room) /\ Waiting(log, heard, room)
<1>1. Len(log) \in Nat
  BY SequenceGrows DEF Serial, Sound
<1>2. heard \in 0..Len(log) /\ heard + 1 >= Len(log)
  BY <1>1 DEF Serial
<1>. QED BY <1>1, <1>2, Formation, Chain, Leasing, Waits DEF Serial

\* An activation that a seat owes for a message is one: it is not the held wake.
LEMMA DueIsReal ==
    ASSUME Serial, RulesAssumption, NEW seat \in Seat, NEW seq \in Nat
    PROVE  DueRespond(room.leases, seat, seq) # Held
<1>. DEFINE failed == {id \in Taken(room.leases, seat, seq) :
                          CountsAgainst(id, room.leases[id], seq)}
            id == Activation("message", seq, seat, Cardinality(failed) + 1)
<1>1. IsFiniteSet(failed)
  <2>1. IsFiniteSet(DOMAIN room.leases)
    <3>1. heard \in Nat /\ Formed(log, heard, room) /\ Leased(log, heard, room)
      BY RoomIs
    <3>. QED BY <3>1, Finite
  <2>2. failed \subseteq DOMAIN room.leases
    BY DEF Taken, SeatLeases
  <2>. QED BY <2>1, <2>2, FS_Subset
<1>2. Cardinality(failed) \in Nat
  BY <1>1, FS_CardinalityType
<1>3. DueRespond(room.leases, seat, seq).id = id
  BY DEF DueRespond, DueActivation
<1>. HIDE DEF failed
<1>4. id \in [source : {"message", "closed"}, position : Nat, seat : Seat, attempt : Nat]
  BY <1>2 DEF Activation
<1>5. id # None
  BY <1>4 DEF RulesAssumption
<1>. HIDE DEF id
<1>. QED BY <1>3, <1>5 DEF Held

\* The wakes and the summaries that are due are those the whole record decides.
LEMMA DueAgrees ==
    ASSUME Serial, RulesAssumption
    PROVE  Due(room) = FoldedWakes(room) \cup FoldedOwed(room)
<1>0. /\ heard \in Nat /\ Formed(log, heard, room) /\ Leased(log, heard, room)
      /\ Indexed(room) /\ Judged(room)
  BY RoomIs, Indexes, Judges DEF Serial
<1>. DEFINE wakes == {w \in room.wakes : w.due # Held /\ w.seat \in room.roster}
            open == {x \in room.roster \X room.messages :
                       /\ x[2].seq > room.cancelledAt
                       /\ x[1] \in Recipients(x[2], room.leases)
                       /\ ~RemovedAfter(room.messages, x[1], x[2].seq)
                       /\ ~Answered(room.leases, Taken(room.leases, x[1], x[2].seq), x[2].seq)}
<1>1. ASSUME NEW w \in wakes PROVE w.due \in FoldedWakes(room)
  <2>1. w \in JudgeWake(room.leases, w.seat, w.position)
    BY <1>0 DEF Indexed
  <2>2. PICK m \in room.messages : m.seq = w.position /\ Wakeable(room, m, w.seat)
    BY <1>0 DEF Indexed
  <2>3. /\ ~Answered(room.leases, Taken(room.leases, w.seat, m.seq), m.seq)
        /\ w.due = DueRespond(room.leases, w.seat, m.seq)
    BY <2>1, <2>2, JudgeWakeForm
  <2>4. <<w.seat, m>> \in open
    BY <2>2, <2>3 DEF Wakeable
  <2>. QED BY <2>3, <2>4 DEF FoldedWakes
<1>2. ASSUME NEW x \in open
      PROVE  \E w \in wakes : w.due = DueRespond(room.leases, x[1], x[2].seq)
  <2>1. PICK seat \in room.roster, m \in room.messages : x = <<seat, m>>
    OBVIOUS
  <2>2. Wakeable(room, m, seat)
        /\ ~Answered(room.leases, Taken(room.leases, seat, m.seq), m.seq)
    BY <2>1 DEF Wakeable
  <2>. DEFINE w == [seat |-> seat, position |-> m.seq, due |-> DueRespond(room.leases, seat, m.seq)]
  <2>3. w \in JudgeWake(room.leases, seat, m.seq)
    BY <2>2, JudgeWakeForm
  <2>4. w \in room.wakes
    BY <1>0, <2>2, <2>3 DEF Indexed
  <2>5. DueRespond(room.leases, seat, m.seq) # Held
    <3>1. m.seq \in Nat
      <4>1. m.seq \in 1..heard
        BY <1>0, MessageAt
      <4>. QED BY <4>1
    <3>2. seat \in Seat
      BY <1>0 DEF Formed
    <3>. QED BY <3>1, <3>2, DueIsReal
  <2>. QED BY <2>1, <2>4, <2>5
<1>3. FoldedWakes(room) = {DueRespond(room.leases, x[1], x[2].seq) : x \in open}
  BY DEF FoldedWakes
<1>4. {w.due : w \in wakes} = FoldedWakes(room)
  <2>. HIDE DEF wakes, open
  <2>. QED BY <1>1, <1>2, <1>3
<1>5. {o.due : o \in room.owed} = FoldedOwed(room)
  <2>1. ASSUME NEW o \in room.owed PROVE o.due \in FoldedOwed(room)
    <3>1. PICK i \in DOMAIN room.closes : o \in JudgeOwed(room, room.closes[i])
      BY <1>0 DEF Judged, ClosesOf
    <3>2. room.closes[i].writer # None
      BY <3>1, JudgeOwedIs
    <3>. QED BY <3>1, <3>2 DEF FoldedOwed
  <2>2. ASSUME NEW i \in DOMAIN room.closes, NEW o \in JudgeOwed(room, room.closes[i])
        PROVE  o \in room.owed
    BY <1>0 DEF Judged, ClosesOf
  <2>. QED BY <2>1, <2>2 DEF FoldedOwed
<1>. QED BY <1>4, <1>5 DEF Due

\* An activation that is due may be owed, and no lease has its number yet: none, or,
\* for a summary, the one that runs.
LEMMA DueIsNext ==
    ASSUME Serial, NEW d \in Due(room)
    PROVE  /\ Owable(room, d.id)
           /\ PhaseOf(room.leases, d.id) \in (IF d.id.source = "closed" THEN {"none", "running"}
                                              ELSE {"none"})
<1>0. /\ heard \in Nat /\ Formed(log, heard, room) /\ Chained(log, heard, room)
      /\ Leased(log, heard, room) /\ Numbered(heard, room)
  BY RoomIs, Numbers, RulesAssumption DEF Serial
<1>1. IsFiniteSet(DOMAIN room.leases)
  BY <1>0, Finite, RulesAssumption
<1>2. \A id \in DOMAIN room.leases : room.leases[id].phase \in {"running", "ended"}
  BY <1>0 DEF Leased, LeaseIs
<1>m. \A m \in room.messages : m.seq \in 1..heard /\ log[m.seq].type = "message"
  BY <1>0, MessageAt
<1>. DEFINE id == d.id
<1>3. CASE d \in FoldedWakes(room)
  <2>1. PICK seat \in room.roster, m \in room.messages :
            /\ ~Answered(room.leases, Taken(room.leases, seat, m.seq), m.seq)
            /\ d = DueRespond(room.leases, seat, m.seq)
    BY <1>3 DEF FoldedWakes
  <2>2. seat \in Seat /\ m.seq \in 1..room.lastSeq
    <3>1. m.seq \in 1..heard /\ log[m.seq].type = "message"
      BY <1>m
    <3>2. m.seq <= room.lastSeq /\ room.lastSeq \in Nat
      BY <1>0, <3>1 DEF Formed
    <3>. QED BY <1>0, <3>1, <3>2 DEF Formed
  <2>3. id = Activation("message", m.seq, seat, Cardinality(Tried(room.leases, id)) + 1)
    BY <2>1, RespondIs, RulesAssumption
  <2>4. id.source = "message" /\ id.position = m.seq /\ id.seat = seat
    BY <2>3 DEF Activation
  <2>. HIDE DEF id
  <2>5. Owable(room, id) /\ (id \in DOMAIN room.leases => room.leases[id].phase # "ended")
    BY <1>0, <1>1, <2>2, <2>3, NextAttempt, RulesAssumption
  <2>6. ASSUME id \in DOMAIN room.leases PROVE FALSE
    <3>1. room.leases[id].phase = "running"
      BY <1>2, <2>5, <2>6
    <3>2. id \in Taken(room.leases, seat, m.seq)
      BY <2>4, <2>6, <3>1 DEF Taken, SeatLeases, CoversAttempt
    <3>. QED BY <2>1, <3>1, <3>2 DEF Answered, Answers
  <2>. QED BY <2>5, <2>6 DEF PhaseOf, id
<1>4. CASE d \in FoldedOwed(room)
  <2>0. PICK i \in DOMAIN room.closes : /\ room.closes[i].writer # None
                                        /\ \E o \in JudgeOwed(room, room.closes[i]) : d = o.due
    BY <1>4 DEF FoldedOwed
  <2>1. PICK o \in JudgeOwed(room, room.closes[i]) : d = o.due
    BY <2>0
  <2>. DEFINE c == room.closes[i]
  <2>2. o = OwedItem(room.leases, c)
    BY <2>1, JudgeOwedForm
  <2>3. c.writer \in Seat /\ c.through \in 1..room.lastSeq
    <3>1. i \in 1..Len(room.closes)
      BY <1>0, SequenceGrows DEF Chained
    <3>2. Enclosed(log, heard, room.boundary, c) /\ room.boundary \in 0..room.lastSeq
      BY <1>0, <3>1 DEF Chained
    <3>3. room.lastSeq \in Nat
      BY <1>0 DEF Formed
    <3>. QED BY <2>0, <3>2, <3>3, <1>0 DEF Enclosed
  <2>. HIDE DEF c
  <2>4. id = Activation("closed", c.through, c.writer, Cardinality(Tried(room.leases, id)) + 1)
    BY <2>1, <2>2, SummaryIs, RulesAssumption
  <2>5. id.source = "closed"
    BY <2>4 DEF Activation
  <2>. HIDE DEF id
  <2>6. Owable(room, id) /\ (id \in DOMAIN room.leases => room.leases[id].phase # "ended")
    BY <1>0, <1>1, <2>3, <2>4, NextAttempt, RulesAssumption
  <2>. QED BY <1>2, <2>5, <2>6 DEF PhaseOf, id
<1>. QED BY <1>3, <1>4, DueAgrees, RulesAssumption

\* Either the record knows the activation, or the room may owe it.
Known(p, id) == id \in DOMAIN p.leases \/ Owable(p, id)

-----------------------------------------------------------------------------
(* The entries of the room's actions are decided on the whole record *)

\* A message as an action writes it.
Carries(m, kind, from, to, act, delay, about, through) ==
    /\ IsMessage(m) /\ m.type = "message" /\ m.at = now
    /\ m.kind = kind /\ m.from = from /\ m.to = to /\ m.act = act
    /\ m.delay = delay /\ m.about = about /\ m.through = through

\* The fields of a message as an action first builds it.
LEMMA MessageCarries ==
    ASSUME NEW kind, NEW from, NEW to
    PROVE  Carries(Message(kind, from, to), kind, from, to, None, 0, 0, 0)
BY DEF Carries, Message, IsMessage, MessageParts

\* The fields of a message about another.
LEMMA AboutCarries ==
    ASSUME NEW kind, NEW from, NEW to, NEW about
    PROVE  Carries([Message(kind, from, to) EXCEPT !.about = about],
                   kind, from, to, None, 0, about, 0)
BY DEF Carries, Message, IsMessage, MessageParts

\* The fields of a scheduled say.
LEMMA DelayCarries ==
    ASSUME NEW kind, NEW from, NEW to, NEW delay
    PROVE  Carries([Message(kind, from, to) EXCEPT !.delay = delay],
                   kind, from, to, None, delay, 0, 0)
BY DEF Carries, Message, IsMessage, MessageParts

\* The fields of a summary.
LEMMA RangeCarries ==
    ASSUME NEW kind, NEW from, NEW to, NEW about, NEW through
    PROVE  Carries([Message(kind, from, to) EXCEPT !.about = about, !.through = through],
                   kind, from, to, None, 0, about, through)
BY DEF Carries, Message, IsMessage, MessageParts

\* Routing changes none of the fields that the rules read.
LEMMA RoutedCarries ==
    ASSUME NEW m, NEW kind, NEW from, NEW to, NEW act, NEW delay, NEW about, NEW through,
           Carries(m, kind, from, to, act, delay, about, through)
    PROVE  Carries(Routed(m), kind, from, to, act, delay, about, through)
<1>. DEFINE w == {s \in room.roster \cup (IF m.kind = "seated" THEN {m.to} ELSE {}) :
                    s # m.from /\ ~HoldsOrdinary(s) /\ Wakes(s, m)}
<1>1. Routed(m) = [m EXCEPT !.wakes = w]
  BY DEF Routed
<1>. HIDE DEF w
<1>. QED BY <1>1 DEF Carries, IsMessage, MessageParts

\* Stamping a message changes its activation and no other field that the rules read.
LEMMA StampedCarries ==
    ASSUME NEW m, NEW kind, NEW from, NEW to, NEW act, NEW delay, NEW about, NEW through,
           Carries(m, kind, from, to, act, delay, about, through), NEW id
    PROVE  Carries(Stamped(m, id), kind, from, to, id, delay, about, through)
BY DEF Stamped, Carries, IsMessage, MessageParts

\* A landed entry that was decided on the room's projection keeps the record sound.
LEMMA LandKeeps ==
    ASSUME Serial, NEW by, by # "none", NEW e, Land(by, e), Decided(e, room),
           Clocked(e) => e.at = now
    PROVE  Serial'
<1>1. /\ log' = Append(log, e) /\ heard = Len(log) /\ flight' = by
      /\ heard' = heard /\ room' = room /\ now' = now
  BY DEF Land, Free, memory
<1>2. /\ Len(log) \in Nat /\ Len(log') = Len(log) + 1
      /\ \A k \in 1..Len(log) : log'[k] = log[k]
      /\ log'[Len(log) + 1] = e
  BY <1>1, SequenceGrows DEF Serial, Sound
<1>3. Sound(log')
  BY <1>1, SoundGrows DEF Serial
<1>4. Replays(log')[heard] = Replays(log)[heard] /\ log'[1] = log[1]
  BY <1>1, <1>2, ReplayGrows DEF Serial, Sound
<1>5. \A i \in 1..Len(log') : Clocked(log'[i]) => log'[i].at <= now
  <2>1. \A i \in 1..Len(log') : i \in 1..Len(log) \/ i = Len(log) + 1
    BY <1>2
  <2>. QED BY <1>2, <2>1 DEF Serial
<1>. QED BY <1>1, <1>2, <1>3, <1>4, <1>5 DEF Serial

\* A message without an activation, that returns, dismisses and reports nothing.
LEMMA PlainLands ==
    ASSUME Serial, NEW by, by # "none", NEW m, Land(by, m), NEW kind, NEW from, NEW to,
           Carries(m, kind, from, to, None, 0, 0, 0),
           kind \in {"said", "system", "arrived", "left", "seated", "unseated"},
           kind = "said" => from \in room.present,
           kind = "arrived" => to \in Person,
           kind \in {"seated", "unseated"} => to \in Seat
    PROVE  Serial'
<1>1. MessageDecided(m, room)
  BY DEF MessageDecided, Carries, Serial
<1>2. Decided(m, room) /\ m.at = now
  BY <1>1 DEF Decided, Carries
<1>. QED BY <1>2, LandKeeps

\* What an activation commits: it says, schedules, seats, unseats, dismisses a say
\* that waits, or summarizes for the close that names it.
Acts(m, id, kind, to, delay, about, through) ==
    /\ Carries(m, kind, id.seat, to, id, delay, about, through)
    /\ kind \in {"said", "seated", "unseated", "dismissed", "summary"}
    /\ delay \in Nat /\ about \in Nat
    /\ kind \in {"seated", "unseated"} => to \in Seat
    /\ delay # 0 => kind = "said" /\ about = 0
    /\ kind = "dismissed" => \E say \in room.scheduled : say.seq = about
    /\ kind = "summary" =>
          /\ \E i \in DOMAIN room.closes :
                /\ room.closes[i].writer = id.seat
                /\ about = room.closes[i].from /\ through = room.closes[i].through
          /\ Covering(room.messages, to, about, through) = {}

\* A message of an activation with the authority of its seat.
LEMMA ActLands ==
    ASSUME Serial, RulesAssumption, NEW by, by # "none", NEW m, Land(by, m),
           NEW id, SeatAuthority(room, id, now),
           NEW kind, NEW to, NEW delay, NEW about, NEW through,
           Acts(m, id, kind, to, delay, about, through)
    PROVE  Serial'
<1>1. Granted(room, id) /\ id.seat \in room.roster
  BY DEF SeatAuthority, Granted
<1>2. MessageDecided(m, room)
  BY <1>1 DEF MessageDecided, Acts, Carries, Serial
<1>3. Decided(m, room) /\ m.at = now
  BY <1>2 DEF Decided, Acts, Carries
<1>. QED BY <1>3, LandKeeps

-----------------------------------------------------------------------------
(* The actions, one by one *)

\* What people say, schedule and dismiss keeps the record sound.
LEMMA PeopleKeep == ASSUME Serial, RulesAssumption, People PROVE Serial'
<1>1. ASSUME NEW p \in Person, Arrive(p) PROVE Serial'
  <2>1. Land("other", Routed(Message("arrived", p, p)))
    BY <1>1 DEF Arrive
  <2>2. Carries(Routed(Message("arrived", p, p)), "arrived", p, p, None, 0, 0, 0)
    BY MessageCarries, RoutedCarries
  <2>. QED BY <2>1, <2>2, PlainLands
<1>2. ASSUME NEW p \in Person, Leave(p) PROVE Serial'
  <2>1. Land("other", Routed(Message("left", p, p)))
    BY <1>2 DEF Leave
  <2>2. Carries(Routed(Message("left", p, p)), "left", p, p, None, 0, 0, 0)
    BY MessageCarries, RoutedCarries
  <2>. QED BY <2>1, <2>2, PlainLands
<1>3. ASSUME NEW p \in Person, NEW to \in Named, Deliver(p, to) PROVE Serial'
  <2>1. Land("other", Routed(Message("said", p, to))) /\ p \in room.present
    BY <1>3 DEF Deliver
  <2>2. Carries(Routed(Message("said", p, to)), "said", p, to, None, 0, 0, 0)
    BY MessageCarries, RoutedCarries
  <2>. QED BY <2>1, <2>2, PlainLands
<1>4. ASSUME NEW to \in Named, Post(to) PROVE Serial'
  <2>1. Land("other", Routed(Message("system", None, to)))
    BY <1>4 DEF Post
  <2>2. Carries(Routed(Message("system", None, to)), "system", None, to, None, 0, 0, 0)
    BY MessageCarries, RoutedCarries
  <2>. QED BY <2>1, <2>2, PlainLands
<1>. QED BY <1>1, <1>2, <1>3, <1>4 DEF People

\* What leaves the record, the projection and the clock alone.
LEMMA StutterKeeps ==
    ASSUME Serial, UNCHANGED <<log, heard, room, flight, now>>
    PROVE  Serial'
BY DEF Serial

\* What the host writes keeps the record sound.
LEMMA HostKeeps == ASSUME Serial, RulesAssumption, Host PROVE Serial'
<1>1. ASSUME NEW s \in Seat, SeatAgent(s) PROVE Serial'
  <2>1. Land("other", Routed(Message("seated", None, s)))
    BY <1>1 DEF SeatAgent
  <2>2. Carries(Routed(Message("seated", None, s)), "seated", None, s, None, 0, 0, 0)
    BY MessageCarries, RoutedCarries
  <2>. QED BY <2>1, <2>2, PlainLands
<1>2. ASSUME NEW s \in Seat, UnseatAgent(s) PROVE Serial'
  <2>1. Land("asks", Routed(Message("unseated", None, s)))
    BY <1>2 DEF UnseatAgent
  <2>2. Carries(Routed(Message("unseated", None, s)), "unseated", None, s, None, 0, 0, 0)
    BY MessageCarries, RoutedCarries
  <2>. QED BY <2>1, <2>2, PlainLands
<1>3. ASSUME NEW say \in room.scheduled, Dismiss(say) PROVE Serial'
  <2>. DEFINE m == [Message("dismissed", None, None) EXCEPT !.about = say.seq]
  <2>1. Land("asks", m)
    BY <1>3 DEF Dismiss
  <2>2. Carries(m, "dismissed", None, None, None, 0, say.seq, 0)
    BY AboutCarries
  <2>. HIDE DEF m
  <2>3. say.seq \in Nat
    <3>1. \E i \in 1..heard : say = Waiter(log, i)
      BY RoomIs DEF Waiting
    <3>. QED BY <3>1 DEF Waiter, Serial
  <2>4. MessageDecided(m, room)
    BY <2>2, <2>3 DEF MessageDecided, Carries, Serial
  <2>5. Decided(m, room) /\ m.at = now
    BY <2>2, <2>4 DEF Decided, Carries
  <2>. QED BY <2>1, <2>5, LandKeeps
<1>4. ASSUME Cancel PROVE Serial'
  <2>. DEFINE e == [type |-> "cancel", at |-> now]
  <2>1. Land("other", e)
    BY <1>4 DEF Cancel
  <2>2. Decided(e, room) /\ e.at = now
    BY DEF Decided, Serial
  <2>. HIDE DEF e
  <2>. QED BY <2>1, <2>2, LandKeeps
<1>5. ASSUME Stop PROVE Serial'
  BY <1>5, StutterKeeps DEF Stop
<1>. QED BY <1>1, <1>2, <1>3, <1>4, <1>5 DEF Host

\* The fields of a lease entry the room writes.
LEMMA LeaseEntryIs ==
    ASSUME NEW id, NEW ph, NEW reason, NEW cause, NEW read, NEW expires
    PROVE  LET e == LeaseEntry(id, ph, reason, cause, read, expires) IN
           /\ e.type = "lease" /\ e.id = id /\ e.phase = ph /\ e.reason = reason
           /\ e.expires = expires /\ e.at = now
           /\ e = [f \in LeaseParts |-> e[f]]
BY DEF LeaseEntry, LeaseParts

\* An ending that the lease of the activation admits.
LEMMA EndingLands ==
    ASSUME Serial, NEW by, by # "none", NEW id, NEW reason, NEW cause, NEW read, NEW expires,
           Land(by, LeaseEntry(id, "ended", reason, cause, read, expires)),
           MayEnd(PhaseOf(room.leases, id), reason,
                  id \in DOMAIN room.leases /\ IsExpired(room.leases[id], now)),
           Known(room, id)
    PROVE  Serial'
<1>. DEFINE e == LeaseEntry(id, "ended", reason, cause, read, expires)
<1>1. /\ e.type = "lease" /\ e.id = id /\ e.phase = "ended" /\ e.reason = reason
      /\ e.at = now /\ e = [f \in LeaseParts |-> e[f]]
  BY LeaseEntryIs
<1>. HIDE DEF e
<1>2. LeaseDecided(e, room)
  BY <1>1 DEF LeaseDecided, Serial, Known
<1>3. Decided(e, room)
  BY <1>1, <1>2 DEF Decided
<1>. QED BY <1>1, <1>3, LandKeeps DEF e

\* A claim or a renewal runs to a time of the clock.
LEMMA RunKeeps ==
    ASSUME Serial, RulesAssumption, NEW kind \in {"claim", "renew"}, NEW id, NEW read,
           Run(kind, id, read)
    PROVE  Serial'
<1>. DEFINE claimedAt == IF id \in DOMAIN room.leases THEN room.leases[id].claimedAt ELSE now
            expires == LeaseExpiry(now, claimedAt)
            e == LeaseEntry(id, "running", "none", "none", read, expires)
<1>1. claimedAt \in Nat /\ now \in Nat
  BY RoomIs DEF Leased, LeaseIs, Serial
<1>. HIDE DEF claimedAt
<1>2. expires \in Nat
  <2>. DEFINE T == {now + Ttl, claimedAt + Deadline}
  <2>1. T \in SUBSET Nat /\ T # {}
    BY <1>1 DEF RulesAssumption
  <2>2. Earliest(T) \in T
    BY <2>1, EarliestIs
  <2>. HIDE DEF T
  <2>3. Earliest(T) \in Nat
    BY <2>1, <2>2
  <2>. QED BY <2>3 DEF LeaseExpiry, T
<1>3. /\ Land("other", e) /\ Granted(room, id) /\ Admission(kind, id) = "granted"
  BY DEF Run, claimedAt
<1>. HIDE DEF expires
<1>4. /\ e.type = "lease" /\ e.id = id /\ e.phase = "running" /\ e.reason = "none"
      /\ e.expires = expires /\ e.at = now /\ e = [f \in LeaseParts |-> e[f]]
  BY LeaseEntryIs
<1>. HIDE DEF e
<1>5. Admitted(kind, e, room)
  BY <1>3, <1>4 DEF Admitted, Admission, SeatHeld, Live, Holding
<1>a. e.id \in DOMAIN room.leases \/ Owable(room, e.id)
  <2>1. ASSUME e.id \notin DOMAIN room.leases PROVE Owable(room, e.id)
    <3>1. \E d \in Due(room) : d.id = e.id
      BY <1>5, <2>1, AdmitsIs DEF PhaseOf
    <3>. QED BY <3>1, DueIsNext
  <2>. QED BY <2>1
<1>6. LeaseDecided(e, room)
  BY <1>1, <1>2, <1>3, <1>4, <1>5, <1>a DEF LeaseDecided
<1>7. Decided(e, room)
  BY <1>4, <1>6 DEF Decided
<1>. QED BY <1>3, <1>4, <1>7, LandKeeps

\* A release keeps the record sound.
LEMMA ReleaseKeeps ==
    ASSUME Serial, NEW id, NEW reason \in {"released", "failed"}, NEW cause, NEW read,
           Release(id, reason, cause, read)
    PROVE  Serial'
<1>1. /\ Land("asks", LeaseEntry(id, "ended", reason, cause, read, 0))
      /\ id \in DOMAIN room.leases /\ IsLive(room.leases[id], now)
  BY DEF Release, SeatAuthority
<1>2. MayEnd(PhaseOf(room.leases, id), reason,
             id \in DOMAIN room.leases /\ IsExpired(room.leases[id], now))
  BY <1>1 DEF MayEnd, PhaseOf, IsLive
<1>. QED BY <1>1, <1>2, EndingLands DEF Known

\* What seats write through their activations keeps the record sound.
LEMMA SeatsKeep == ASSUME Serial, RulesAssumption, RoomAssumption, Seats PROVE Serial'
<1>1. ASSUME NEW id \in wired, Claim(id) PROVE Serial'
  BY <1>1, RunKeeps DEF Claim
<1>2. ASSUME NEW id, NEW read, Renew(id, read) PROVE Serial'
  BY <1>2, RunKeeps DEF Renew
<1>3. ASSUME NEW id, NEW to, Say(id, to) PROVE Serial'
  <2>. DEFINE m == Stamped(Routed(Message("said", id.seat, to)), id)
  <2>1. Land("other", m) /\ SeatAuthority(room, id, now)
    BY <1>3 DEF Say, Committing
  <2>2. Carries(m, "said", id.seat, to, id, 0, 0, 0)
    BY MessageCarries, RoutedCarries, StampedCarries
  <2>. HIDE DEF m
  <2>3. Acts(m, id, "said", to, 0, 0, 0)
    BY <2>2 DEF Acts
  <2>. QED BY <2>1, <2>3, ActLands
<1>4. ASSUME NEW id, Schedule(id) PROVE Serial'
  <2>. DEFINE m == Stamped(Routed([Message("said", id.seat, id.seat) EXCEPT !.delay = Delay]), id)
  <2>1. Land("other", m) /\ SeatAuthority(room, id, now)
    BY <1>4 DEF Schedule, Committing
  <2>2. Carries(m, "said", id.seat, id.seat, id, Delay, 0, 0)
    BY DelayCarries, RoutedCarries, StampedCarries
  <2>. HIDE DEF m
  <2>3. Acts(m, id, "said", id.seat, Delay, 0, 0)
    BY <2>2 DEF Acts, RoomAssumption
  <2>. QED BY <2>1, <2>3, ActLands
<1>5. ASSUME NEW id, NEW say \in room.scheduled, DismissOwn(id, say) PROVE Serial'
  <2>. DEFINE m == Stamped([Message("dismissed", id.seat, None) EXCEPT !.about = say.seq], id)
  <2>1. Land("other", m) /\ SeatAuthority(room, id, now)
    BY <1>5 DEF DismissOwn, Committing
  <2>2. Carries(m, "dismissed", id.seat, None, id, 0, say.seq, 0)
    BY AboutCarries, StampedCarries
  <2>. HIDE DEF m
  <2>3. say.seq \in Nat
    <3>1. \E i \in 1..heard : say = Waiter(log, i)
      BY RoomIs DEF Waiting
    <3>. QED BY <3>1 DEF Waiter, Serial
  <2>4. Acts(m, id, "dismissed", None, 0, say.seq, 0)
    BY <2>2, <2>3 DEF Acts
  <2>. QED BY <2>1, <2>4, ActLands
<1>6. ASSUME NEW id, NEW s \in Seat, SeatIntent(id, s) PROVE Serial'
  <2>. DEFINE m == Stamped(Routed(Message("seated", id.seat, s)), id)
  <2>1. Land("other", m) /\ SeatAuthority(room, id, now)
    BY <1>6 DEF SeatIntent, Committing
  <2>2. Carries(m, "seated", id.seat, s, id, 0, 0, 0)
    BY MessageCarries, RoutedCarries, StampedCarries
  <2>. HIDE DEF m
  <2>3. Acts(m, id, "seated", s, 0, 0, 0)
    BY <2>2 DEF Acts
  <2>. QED BY <2>1, <2>3, ActLands
<1>7. ASSUME NEW id, NEW s \in Seat, UnseatIntent(id, s) PROVE Serial'
  <2>. DEFINE m == Stamped(Routed(Message("unseated", id.seat, s)), id)
  <2>1. Land("other", m) /\ SeatAuthority(room, id, now)
    BY <1>7 DEF UnseatIntent, Committing
  <2>2. Carries(m, "unseated", id.seat, s, id, 0, 0, 0)
    BY MessageCarries, RoutedCarries, StampedCarries
  <2>. HIDE DEF m
  <2>3. Acts(m, id, "unseated", s, 0, 0, 0)
    BY <2>2 DEF Acts
  <2>. QED BY <2>1, <2>3, ActLands
<1>8. ASSUME NEW id, NEW to \in Person, Summarize(id, to) PROVE Serial'
  <2>1. PICK i \in OwingClose(room, id) :
            LET c == room.closes[i] IN
            /\ Covering(room.messages, to, c.from, c.through) = {}
            /\ Land("other", Stamped(Routed([Message("summary", id.seat, to)
                                EXCEPT !.about = c.from, !.through = c.through]), id))
    BY <1>8 DEF Summarize
  <2>. DEFINE from == room.closes[i].from
              through == room.closes[i].through
              m == Stamped(Routed([Message("summary", id.seat, to)
                                EXCEPT !.about = from, !.through = through]), id)
  <2>2. Land("other", m) /\ Covering(room.messages, to, from, through) = {}
    BY <2>1
  <2>3. i \in DOMAIN room.closes /\ room.closes[i].writer = id.seat
    BY DEF OwingClose
  <2>4. from \in Nat
    <3>0. Chained(log, heard, room)
      BY RoomIs
    <3>1. i \in 1..Len(room.closes)
      BY <2>3, <3>0, SequenceGrows DEF Chained
    <3>2. Formed(log, heard, room) /\ heard \in Nat
      BY RoomIs
    <3>. QED BY <3>0, <3>1, <3>2, EndsAreNumbers
  <2>5. \E j \in DOMAIN room.closes :
           /\ room.closes[j].writer = id.seat
           /\ from = room.closes[j].from /\ through = room.closes[j].through
    BY <2>3
  <2>. HIDE DEF from, through
  <2>6. Carries(m, "summary", id.seat, to, id, 0, from, through)
    BY RangeCarries, RoutedCarries, StampedCarries
  <2>. HIDE DEF m
  <2>7. Acts(m, id, "summary", to, 0, from, through)
    BY <2>2, <2>4, <2>5, <2>6 DEF Acts
  <2>8. SeatAuthority(room, id, now)
    BY <1>8 DEF Summarize, Committing
  <2>. QED BY <2>2, <2>7, <2>8, ActLands
<1>9. ASSUME NEW id, NEW reason \in {"released", "failed"}, NEW cause, NEW read,
             Release(id, reason, cause, read)
      PROVE  Serial'
  BY <1>9, ReleaseKeeps
<1>. QED BY <1>1, <1>2, <1>3, <1>4, <1>5, <1>6, <1>7, <1>8, <1>9 DEF Seats

\* What is heard joins the projection where it stands on the record.
LEMMA HearingKeeps ==
    ASSUME Serial, heard < Len(log), NEW asks, Hearing(asks),
           log' = log, now' = now, flight' = "none"
    PROVE  Serial'
<1>1. heard \in Nat /\ Len(log) = heard + 1 /\ Len(log) \in Nat /\ IsSequence(log)
  BY SequenceGrows DEF Serial, Sound
<1>2. Last(log) = log[Len(log)]
  BY DEF Last
<1>3. heard' = Len(log) /\ room' = Advance(room, log[Len(log)], Len(log))
  BY <1>2 DEF Hearing
<1>4. Replays(log)[Len(log)] = Advance(Replays(log)[heard], log[Len(log)], Len(log))
  <2>1. Len(log) \in 1..Len(log) /\ Len(log) - 1 = heard
    BY <1>1
  <2>. QED BY <1>1, <2>1, ReplaySteps
<1>. QED BY <1>1, <1>3, <1>4 DEF Serial

\* The next run replays the record and composes the room on it.
LEMMA ComposeKeeps ==
    ASSUME Serial, NEW seats, seats \subseteq Seat, Compose(seats), flight = "none"
    PROVE  Serial'
<1>. DEFINE e == Composition(seats)
<1>1. /\ log' = Append(log, e) /\ heard' = Len(log') /\ room' = Replays(log')[Len(log')]
      /\ flight' = flight /\ now' = now
  BY DEF Compose, Replay
<1>2. e.type = "composition" /\ e.seated = seats
  BY DEF Composition
<1>. HIDE DEF e
<1>3. Sound(log')
  <2>1. Decided(e, Replays(log)[Len(log)]) /\ ~Clocked(e)
    BY <1>2 DEF Decided, Clocked
  <2>. QED BY <1>1, <2>1, SoundGrows DEF Serial
<1>4. /\ Len(log) \in Nat /\ Len(log') = Len(log) + 1
      /\ \A k \in 1..Len(log) : log'[k] = log[k]
      /\ log'[Len(log) + 1] = e
  BY <1>1, SequenceGrows DEF Serial, Sound
<1>5. \A i \in 1..Len(log') : Clocked(log'[i]) => log'[i].at <= now
  <2>1. \A i \in 1..Len(log') : i \in 1..Len(log) \/ i = Len(log) + 1
    BY <1>4
  <2>. QED BY <1>2, <1>4, <2>1 DEF Serial, Clocked
<1>. QED BY <1>1, <1>3, <1>4, <1>5 DEF Serial

\* What a pass decided to end is known to the room, or may be owed; while a step of
\* the pass is written, it is the first one left.
Planned ==
    /\ DOMAIN pass = DOMAIN NoPass /\ IsSequence(pass.steps)
    /\ \A i \in 1..Len(pass.steps) :
          pass.steps[i].type = "end" => Known(room, pass.steps[i].id)
    /\ flight = "pass" => pass.stage = "steps" /\ pass.steps # <<>>

\* A step of the pass lands as it is decided where it lands.
LEMMA StepKeeps == ASSUME Serial, Planned, RulesAssumption, StepWrites PROVE Serial'
<1>. DEFINE s == Head(pass.steps)
<1>1. PICK e \in StepEntry(s) : Land("pass", e)
  BY DEF StepWrites
<1>. HIDE DEF s
<1>2. CASE s.type = "end"
  <2>1. e \in EndDecision(s)
    BY <1>1, <1>2 DEF StepEntry
  <2>2. /\ e = LeaseEntry(s.id, "ended", s.reason, s.cause, s.read, 0)
        /\ MayEnd(PhaseOf(room.leases, s.id), s.reason,
                  s.id \in DOMAIN room.leases /\ IsExpired(room.leases[s.id], now))
    BY <2>1 DEF EndDecision
  <2>3. Known(room, s.id)
    <3>1. pass.steps # <<>> /\ IsSequence(pass.steps) /\ Len(pass.steps) \in Nat
      BY SequenceGrows DEF Planned, StepWrites, Stepping
    <3>2. 1 \in 1..Len(pass.steps) /\ s = pass.steps[1]
      BY <3>1 DEF s, IsSequence
    <3>. QED BY <1>2, <3>2 DEF Planned
  <2>. QED BY <1>1, <2>2, <2>3, EndingLands
<1>3. CASE s.type = "return"
  <2>1. e \in ReturnDecision(s)
    BY <1>1, <1>3 DEF StepEntry
  <2>2. PICK say \in room.scheduled :
          /\ say.due <= now
          /\ e = Routed([Message("system", None, say.seat) EXCEPT !.about = say.seq])
    BY <2>1 DEF ReturnDecision, Returnable
  <2>3. Carries(e, "system", None, say.seat, None, 0, say.seq, 0)
    BY <2>2, AboutCarries, RoutedCarries
  <2>4. say.seq \in Nat
    <3>1. \E i \in 1..heard : say = Waiter(log, i)
      BY RoomIs DEF Waiting
    <3>. QED BY <3>1 DEF Waiter, Serial
  <2>5. MessageDecided(e, room)
    <3>1. \E x \in room.scheduled : x.seq = say.seq /\ x.due <= now
      BY <2>2
    <3>. QED BY <2>3, <2>4, <3>1 DEF MessageDecided, Carries, Serial
  <2>6. Decided(e, room) /\ e.at = now
    BY <2>3, <2>5 DEF Decided, Carries
  <2>. QED BY <1>1, <2>6, LandKeeps
<1>4. CASE s.type \notin {"end", "return"}
  <2>1. CloseDecision(s) = "admitted" /\ e = CloseEntry(s)
    BY <1>1, <1>4 DEF StepEntry
  <2>2. room.exchange.from # 0 /\ s.from = room.exchange.from /\ s.through = room.lastSeq
    BY <2>1 DEF CloseDecision, CloseAdmission
  <2>. DEFINE w == IF room.exchange.person # None
                      /\ OwesSummary(room.messages, room.known, s.from, s.through)
                   THEN SummaryWriter(room.roster) ELSE None
  <2>3. /\ e.type = "close" /\ e.from = s.from /\ e.through = s.through
        /\ e.person = room.exchange.person /\ e.writer = w
    BY <2>1 DEF CloseEntry
  <2>4. w # None => w = SummaryWriter(room.roster) /\ room.exchange.person # None
    OBVIOUS
  <2>. HIDE DEF w
  <2>5. Decided(e, room) /\ ~Clocked(e)
    BY <2>2, <2>3, <2>4 DEF Decided, CloseDecided, Clocked
  <2>. QED BY <1>1, <2>5, LandKeeps
<1>. QED BY <1>2, <1>3, <1>4

\* A room that is down waits for no confirmation, and its pass is gone.
Quiet == phase = "down" => flight = "none" /\ pass = NoPass

\* What the room's own passes write keeps the record sound, given what a pass holds.
LEMMA MachineKeeps == ASSUME Serial, Quiet, Planned, RulesAssumption, Machine PROVE Serial'
<1>1. ASSUME Confirm PROVE Serial'
  <2>1. heard < Len(log)
    <3>1. Len(log) \in Nat
      BY RoomIs
    <3>. QED BY <1>1, <3>1 DEF Confirm, Serial
  <2>. QED BY <1>1, <2>1, HearingKeeps DEF Confirm
<1>2. ASSUME Hear PROVE Serial'
  BY <1>2, HearingKeeps DEF Hear
<1>3. ASSUME Plan \/ StepWritesNothing \/ Send \/ AlarmRings \/ StopEnds PROVE Serial'
  BY <1>3, StutterKeeps DEF Plan, StepWritesNothing, Send, AlarmRings, StopEnds
<1>4. ASSUME StepWrites PROVE Serial'
  BY <1>4, StepKeeps
<1>5. ASSUME Tick PROVE Serial'
  <2>1. UNCHANGED <<log, heard, room, flight>> /\ now' = now + 1
    BY <1>5 DEF Tick
  <2>2. \A i \in 1..Len(log) : Clocked(log[i]) => log[i].at \in Nat
    <3>1. \A i \in 1..Len(log) : Decided(log[i], Replays(log)[i - 1])
      BY DEF Serial, Sound
    <3>. QED BY <3>1 DEF Decided, LeaseDecided, MessageDecided, Clocked
  <2>3. now' \in Nat /\ \A i \in 1..Len(log) : Clocked(log[i]) => log[i].at <= now'
    BY <2>1, <2>2 DEF Serial
  <2>. QED BY <2>1, <2>3 DEF Serial
<1>6. ASSUME StopRevokes PROVE Serial'
  <2>1. PICK id \in RunningLeases :
            Land("stop", LeaseEntry(id, "ended", "revoked", "none", 0, 0))
    BY <1>6 DEF StopRevokes
  <2>2. MayEnd(PhaseOf(room.leases, id), "revoked",
               id \in DOMAIN room.leases /\ IsExpired(room.leases[id], now))
    BY DEF RunningLeases, MayEnd, PhaseOf
  <2>. QED BY <2>1, <2>2, EndingLands DEF Known, RunningLeases
<1>7. ASSUME StopLeaves PROVE Serial'
  <2>1. PICK p \in room.present : Land("stop", Message("left", p, p))
    BY <1>7 DEF StopLeaves
  <2>. QED BY <2>1, MessageCarries, PlainLands
<1>8. ASSUME Resume PROVE Serial'
  <2>1. Compose(Replay(log).roster) /\ flight = "none"
    BY <1>8 DEF Resume, Compose, Quiet
  <2>2. Replay(log).roster \subseteq Seat
    <3>1. Formed(log, Len(log), Replays(log)[Len(log)])
      BY RoomIs, Formation DEF Serial
    <3>. QED BY <3>1 DEF Formed, Replay
  <2>. QED BY <2>1, <2>2, ComposeKeeps
<1>. QED BY <1>1, <1>2, <1>3, <1>4, <1>5, <1>6, <1>7, <1>8 DEF Machine

\* A write is under way only while its run is up.
LEMMA QuietKeeps == ASSUME Quiet, [Next]_vars PROVE Quiet'
<1>0. ASSUME NEW by, NEW e, Land(by, e), phase # "down" PROVE Quiet'
  BY <1>0 DEF Land, Quiet
<1>1. ASSUME People PROVE Quiet'
  BY <1>0, <1>1 DEF People, Arrive, Leave, Deliver, Post, Admitting
<1>2. ASSUME Host PROVE Quiet'
  <2>1. CASE Stop
    BY <2>1 DEF Stop, Quiet
  <2>2. CASE ~Stop
    BY <1>0, <1>2, <2>2 DEF Host, SeatAgent, UnseatAgent, Dismiss, Cancel, Admitting
  <2>. QED BY <2>1, <2>2
<1>3. ASSUME Seats PROVE Quiet'
  BY <1>0, <1>3 DEF Seats, Claim, Run, Renew, Release, Say, Schedule, DismissOwn, SeatIntent,
                    UnseatIntent, Summarize, Committing, Admitting
<1>4. ASSUME Machine PROVE Quiet'
  <2>1. CASE StepWrites \/ StopRevokes \/ StopLeaves
    BY <1>0, <2>1 DEF StepWrites, Stepping, Admitting, StopRevokes, StopLeaves
  <2>2. CASE Confirm \/ Hear \/ StopEnds
    BY <2>2 DEF Confirm, Hear, StopEnds, Forget, Free, Quiet
  <2>3. CASE Plan \/ StepWritesNothing \/ Send \/ AlarmRings \/ Tick
    BY <2>3 DEF Plan, StepWritesNothing, Stepping, Admitting, Send, AlarmRings, Tick, memory, Quiet
  <2>4. CASE Resume
    BY <2>4 DEF Resume, Compose, Quiet
  <2>. QED BY <1>4, <2>1, <2>2, <2>3, <2>4 DEF Machine
<1>5. ASSUME LoseAnswer \/ StepFails \/ Crash \/ Restart PROVE Quiet'
  BY <1>5 DEF LoseAnswer, StepFails, Stepping, Admitting, Crash, Restart, Compose, Forget, Quiet
<1>6. ASSUME UNCHANGED vars PROVE Quiet'
  BY <1>6 DEF vars, memory, Quiet
<1>. QED BY <1>1, <1>2, <1>3, <1>4, <1>5, <1>6 DEF Next

\* Every step of a room keeps its record sound.
LEMMA SerialKeeps ==
    ASSUME Serial, Quiet, Planned, RulesAssumption, RoomAssumption, [Next]_vars
    PROVE  Serial'
<1>1. ASSUME LoseAnswer \/ Crash PROVE Serial'
  BY <1>1 DEF LoseAnswer, Crash, Serial
<1>2. ASSUME StepFails PROVE Serial'
  BY <1>2, StutterKeeps DEF StepFails
<1>3. ASSUME Restart PROVE Serial'
  <2>1. PICK cast \in Recasts : Compose(cast)
    BY <1>3 DEF Restart
  <2>. QED BY <2>1, ComposeKeeps DEF RoomAssumption, Compose, Quiet
<1>4. ASSUME UNCHANGED vars PROVE Serial'
  BY <1>4, StutterKeeps DEF vars
<1>. QED BY <1>1, <1>2, <1>3, <1>4, PeopleKeep, HostKeeps, SeatsKeep, MachineKeeps DEF Next

\* A finite set lists as a sequence of its elements.
LEMMA SetLists ==
    ASSUME NEW S, IsFiniteSet(S)
    PROVE  SetToSeq(S) \in Seq(S)
<1>1. Cardinality(S) \in Nat /\ ExistsBijection(1..Cardinality(S), S)
  BY FS_CardinalityType
<1>2. \E f \in [1..Cardinality(S) -> S] : IsInjective(f)
  BY <1>1 DEF ExistsBijection, Bijection, Injection
<1>3. SetToSeq(S) \in [1..Cardinality(S) -> S]
  BY <1>2 DEF SetToSeq
<1>. QED BY <1>1, <1>3

\* The record a room opens with: a composition, and the guests as they arrive.
LEMMA InitSerial ==
    ASSUME RoomAssumption, Init
    PROVE  Serial /\ Quiet /\ \A i \in 1..Len(log) : log[i].type # "lease"
<1>. DEFINE S == {Message("arrived", p, p) : p \in Guest}
            f == SetToSeq(S)
            c == Composition(Cast)
<1>1. IsFiniteSet(S)
  <2>. DEFINE g == [p \in Guest |-> Message("arrived", p, p)]
  <2>1. g \in Surjection(Guest, S)
    BY DEF Surjection
  <2>. QED BY <2>1, FS_Surjection DEF RoomAssumption
<1>2. \A m \in S : \E p \in Guest : Carries(m, "arrived", p, p, None, 0, 0, 0)
  BY MessageCarries
<1>3. f \in Seq(S) /\ log = <<c>> \o f
  BY <1>1, SetLists DEF Init
<1>. HIDE DEF S, f
<1>4. /\ Len(log) \in Nat \ {0} /\ IsSequence(log)
      /\ log[1] = c /\ \A i \in 2..Len(log) : log[i] \in S
  <2>1. /\ log \in Seq({c} \cup S) /\ Len(log) = Len(f) + 1 /\ Len(f) \in Nat
        /\ log[1] = c /\ \A i \in 2..Len(log) : log[i] = f[i - 1]
    BY <1>3
  <2>2. \A i \in 2..Len(log) : i - 1 \in 1..Len(f)
    BY <2>1
  <2>3. \A i \in 2..Len(log) : log[i] \in S
    BY <1>3, <2>1, <2>2
  <2>4. IsSequence(log)
    <3>1. log \in [1..Len(log) -> {log[i] : i \in DOMAIN log}] /\ Len(log) \in Nat
      BY <2>1
    <3>. QED BY <3>1 DEF IsSequence
  <2>. QED BY <2>1, <2>3, <2>4
<1>5. c.type = "composition" /\ c.seated \subseteq Seat
  BY DEF Composition, RoomAssumption
<1>. HIDE DEF c
<1>6. now = 1 /\ heard = Len(log) /\ flight = "none" /\ room = Replays(log)[heard]
  BY DEF Init, Replay
<1>7. ASSUME NEW i \in 1..Len(log), NEW p
      PROVE  Decided(log[i], p) /\ (Clocked(log[i]) => log[i].at = 1)
  <2>1. CASE i = 1
    BY <2>1, <1>4, <1>5 DEF Decided, Clocked
  <2>2. CASE i \in 2..Len(log)
    <3>1. PICK g \in Guest : Carries(log[i], "arrived", g, g, None, 0, 0, 0)
      BY <2>2, <1>2, <1>4
    <3>2. MessageDecided(log[i], p)
      BY <3>1, <1>6 DEF MessageDecided, Carries, RoomAssumption
    <3>. QED BY <3>1, <3>2, <1>6 DEF Decided, Carries
  <2>. QED BY <1>4, <2>1, <2>2
<1>8. Sound(log)
  <2>1. \A i \in 1..Len(log) : Decided(log[i], Replays(log)[i - 1])
    BY <1>7
  <2>2. \A i \in 1..Len(log) : Clocked(log[i]) => log[i].at = 1
    BY <1>7
  <2>3. \A i, j \in 1..Len(log) :
           i < j /\ Clocked(log[i]) /\ Clocked(log[j]) => log[i].at <= log[j].at
    BY <2>2
  <2>. QED BY <1>4, <2>1, <2>3 DEF Sound
<1>9. phase = "running"
  BY DEF Init
<1>10. ASSUME NEW i \in 1..Len(log) PROVE log[i].type # "lease"
  <2>1. CASE i = 1
    BY <2>1, <1>4, <1>5
  <2>2. CASE i \in 2..Len(log)
    BY <2>2, <1>2, <1>4 DEF Carries
  <2>. QED BY <1>4, <2>1, <2>2
<1>. QED BY <1>4, <1>5, <1>6, <1>7, <1>8, <1>9, <1>10 DEF Serial, Quiet

-----------------------------------------------------------------------------
(* What a pass plans *)

\* What the room knows, or may owe, it still does once it has heard the next entry.
LEMMA KnownStays ==
    ASSUME Serial, heard < Len(log), NEW asks, Hearing(asks),
           NEW id, Known(room, id)
    PROVE  Known(room', id)
<1>. DEFINE q == Replays(log)[heard + 1]
<1>1. /\ heard \in Nat /\ Len(log) = heard + 1 /\ Len(log) \in Nat /\ IsSequence(log)
      /\ heard + 1 \in 1..Len(log) /\ heard + 1 - 1 = heard
  BY SequenceGrows DEF Serial, Sound
<1>2. Last(log) = log[heard + 1]
  BY <1>1 DEF Last
<1>3. room' = Advance(room, log[heard + 1], heard + 1)
  BY <1>1, <1>2 DEF Hearing
<1>4. q = Advance(room, log[heard + 1], heard + 1)
  BY <1>1, ReplaySteps DEF Serial
<1>5. /\ Formed(log, heard, room) /\ Leased(log, heard, room)
      /\ Decided(log[heard + 1], room)
  BY <1>1, RoomIs, RulesAssumption DEF Serial, Sound
<1>6. Formed(log, heard + 1, q) /\ Leased(log, heard + 1, q)
  <2>1. heard + 1 \in 0..Len(log)
    BY <1>1
  <2>. QED BY <2>1, Formation, Leasing, RulesAssumption DEF Serial
<1>7. Proceeds(room, q, heard + 1)
  BY <1>1, <1>4, <1>5, ProceedsStep, RulesAssumption
<1>8. IsFiniteSet(DOMAIN q.leases) /\ room.lastSeq \in Nat /\ q.lastSeq \in Nat
  <2>1. IsFiniteSet(DOMAIN q.leases)
    BY <1>1, <1>6, Finite, RulesAssumption
  <2>2. room.lastSeq \in 0..heard /\ q.lastSeq \in 0..heard + 1
    BY <1>5, <1>6 DEF Formed
  <2>. QED BY <1>1, <2>1, <2>2
<1>9. room' = q
  BY <1>3, <1>4
<1>. HIDE DEF q
<1>10. CASE id \in DOMAIN room.leases
  <2>1. id \in DOMAIN q.leases
    BY <1>7, <1>10 DEF Proceeds, Moves
  <2>. QED BY <1>9, <2>1 DEF Known
<1>11. CASE Owable(room, id)
  <2>1. Owable(q, id)
    BY <1>7, <1>8, <1>11, OwableStays, RulesAssumption
  <2>. QED BY <1>9, <2>1 DEF Known
<1>. QED BY <1>10, <1>11 DEF Known

\* What is due, and the says that wait, are finitely many.
LEMMA DueFinite ==
    ASSUME Serial
    PROVE  IsFiniteSet(Due(room)) /\ IsFiniteSet(DOMAIN room.leases)
           /\ IsFiniteSet(room.scheduled)
<1>0. /\ heard \in Nat /\ Formed(log, heard, room) /\ Chained(log, heard, room)
      /\ Leased(log, heard, room) /\ Waiting(log, heard, room)
  BY RoomIs, RulesAssumption DEF Serial
<1>1. IsFiniteSet(DOMAIN room.leases) /\ IsFiniteSet(room.messages)
  BY <1>0, Finite, RulesAssumption
<1>2. IsFiniteSet(room.roster)
  BY <1>0, FS_Subset, RulesAssumption DEF Formed
<1>3. IsFiniteSet(FoldedWakes(room))
  <2>. DEFINE P == room.roster \X room.messages
              f == [x \in P |-> DueRespond(room.leases, x[1], x[2].seq)]
  <2>1. IsFiniteSet(P)
    BY <1>1, <1>2, FS_Product
  <2>. HIDE DEF P
  <2>2. IsFiniteSet({f[x] : x \in P})
    BY <2>1, FiniteImage
  <2>3. FoldedWakes(room) \subseteq {f[x] : x \in P}
    BY DEF FoldedWakes, P
  <2>. QED BY <2>2, <2>3, FS_Subset
<1>4. IsFiniteSet(FoldedOwed(room))
  <2>. DEFINE D == DOMAIN room.closes
              f == [i \in D |-> OwedItem(room.leases, room.closes[i]).due]
  <2>1. IsFiniteSet(D)
    <3>1. Len(room.closes) \in Nat /\ D = 1..Len(room.closes)
      BY <1>0, SequenceGrows DEF Chained
    <3>. QED BY <3>1, FS_Interval
  <2>. HIDE DEF D
  <2>2. IsFiniteSet({f[i] : i \in D})
    BY <2>1, FiniteImage
  <2>3. ASSUME NEW d \in FoldedOwed(room) PROVE d \in {f[i] : i \in D}
    <3>1. PICK i \in D : \E o \in JudgeOwed(room, room.closes[i]) : d = o.due
      BY <2>3 DEF FoldedOwed, D
    <3>2. d = OwedItem(room.leases, room.closes[i]).due
      BY <3>1, JudgeOwedForm
    <3>. QED BY <3>2
  <2>4. FoldedOwed(room) \subseteq {f[i] : i \in D}
    BY <2>3
  <2>. HIDE DEF f
  <2>. QED BY <2>2, <2>4, FS_Subset
<1>5. IsFiniteSet(Due(room))
  <2>1. IsFiniteSet(FoldedWakes(room) \cup FoldedOwed(room))
    BY <1>3, <1>4, FS_Union
  <2>. QED BY <2>1, DueAgrees, RulesAssumption
<1>6. IsFiniteSet(room.scheduled)
  <2>. DEFINE f == [i \in 1..heard |-> Waiter(log, i)]
  <2>1. IsFiniteSet({f[i] : i \in 1..heard})
    <3>1. IsFiniteSet(1..heard)
      BY <1>0, FS_Interval
    <3>. QED BY <3>1, FiniteImage
  <2>2. room.scheduled \subseteq {f[i] : i \in 1..heard}
    BY <1>0 DEF Waiting
  <2>. QED BY <2>1, <2>2, FS_Subset
<1>. QED BY <1>1, <1>5, <1>6

\* The list of the images of a finite set lists such images.
LEMMA ImageLists ==
    ASSUME NEW S, IsFiniteSet(S), NEW f, S = DOMAIN f, f = [x \in S |-> f[x]],
           NEW l, l = SetToSeq({f[x] : x \in S})
    PROVE  l \in Seq({f[x] : x \in S})
<1>. DEFINE R == {f[x] : x \in S}
<1>1. f \in Surjection(S, R)
  BY DEF Surjection
<1>. HIDE DEF R
<1>2. IsFiniteSet(R)
  BY <1>1, FS_Surjection
<1>3. SetToSeq(R) \in Seq(R)
  BY <1>2, SetLists
<1>. QED BY <1>3 DEF R

\* A sequence over any set is one.
LEMMA Sequenced == ASSUME NEW S, NEW l \in Seq(S) PROVE IsSequence(l)
BY DEF IsSequence

\* A sequence of the elements of two, and one of the elements of another.
Joins(u, s, t) ==
    /\ IsSequence(u)
    /\ \A i \in 1..Len(u) : \/ \E k \in 1..Len(s) : u[i] = s[k]
                            \/ \E k \in 1..Len(t) : u[i] = t[k]

PartOf(t, s) == IsSequence(t) /\ \A i \in 1..Len(t) : \E k \in 1..Len(s) : t[i] = s[k]

\* Two sequences together have the elements of both.
LEMMA Concatenates ==
    ASSUME NEW s, IsSequence(s), NEW t, IsSequence(t)
    PROVE  Joins(s \o t, s, t)
<1>. DEFINE S == {s[i] : i \in DOMAIN s}
            T == {t[i] : i \in DOMAIN t}
            u == s \o t
<1>1. s \in Seq(S) /\ t \in Seq(T)
  BY DEF IsSequence
<1>. HIDE DEF S, T
<1>2. s \in Seq(S \cup T) /\ t \in Seq(S \cup T)
  BY <1>1
<1>3. u \in Seq(S \cup T)
  BY <1>2
<1>4. /\ Len(s) \in Nat /\ Len(t) \in Nat /\ Len(u) = Len(s) + Len(t)
      /\ \A i \in 1..Len(u) : u[i] = IF i <= Len(s) THEN s[i] ELSE t[i - Len(s)]
  BY <1>2
<1>5. \A i \in 1..Len(u) : i \in 1..Len(s) \/ i - Len(s) \in 1..Len(t)
  BY <1>4
<1>6. ASSUME NEW i \in 1..Len(u)
      PROVE  (\E k \in 1..Len(s) : u[i] = s[k]) \/ (\E k \in 1..Len(t) : u[i] = t[k])
  <2>1. CASE i <= Len(s)
    <3>1. i \in 1..Len(s) /\ u[i] = s[i]
      BY <1>4, <2>1
    <3>. QED BY <3>1
  <2>2. CASE ~(i <= Len(s))
    <3>1. i - Len(s) \in 1..Len(t) /\ u[i] = t[i - Len(s)]
      BY <1>4, <2>2
    <3>. QED BY <3>1
  <2>. QED BY <2>1, <2>2
<1>. QED BY <1>3, <1>6, Sequenced DEF Joins

\* What is left of a sequence is part of it.
LEMMA TailsOf ==
    ASSUME NEW s, IsSequence(s), s # <<>>
    PROVE  PartOf(Tail(s), s)
<1>. DEFINE S == {s[i] : i \in DOMAIN s}
            t == Tail(s)
<1>1. s \in Seq(S)
  BY DEF IsSequence
<1>. HIDE DEF S
<1>2. /\ t \in Seq(S) /\ Len(s) \in Nat /\ Len(t) = Len(s) - 1
      /\ \A i \in 1..Len(t) : t[i] = s[i + 1]
  BY <1>1
<1>3. \A i \in 1..Len(t) : i + 1 \in 1..Len(s)
  BY <1>2
<1>. QED BY <1>2, <1>3, Sequenced DEF PartOf

\* With no pass under way nothing is planned.
LEMMA NothingPlanned == ASSUME pass' = NoPass, flight' # "pass" PROVE Planned'
BY DEF Planned, NoPass, IsSequence

\* A pass that ends, or goes on, has nothing planned.
LEMMA FinishPlans ==
    ASSUME NEW p, NEW keeps, SendAndFinish(p, keeps), flight' # "pass" PROVE Planned'
<1>1. \/ pass' = NoPass
      \/ pass' = [NoPass EXCEPT !.stage = "next", !.count = p.count + 1]
  BY DEF SendAndFinish
<1>. DEFINE q == [NoPass EXCEPT !.stage = "next", !.count = p.count + 1]
<1>a. NoPass.steps = <<>> /\ DOMAIN q = DOMAIN NoPass /\ q.steps = <<>>
  BY DEF NoPass
<1>. HIDE DEF q
<1>b. pass' = NoPass \/ pass' = q
  BY <1>1 DEF q
<1>2. DOMAIN pass' = DOMAIN NoPass /\ pass'.steps = <<>>
  BY <1>a, <1>b
<1>. QED BY <1>2 DEF Planned, IsSequence

\* A pass plans to end only what the room knows or may owe.
LEMMA StepsPlanned ==
    ASSUME Serial
    PROVE  /\ IsSequence(Steps)
           /\ \A i \in 1..Len(Steps) : Steps[i].type = "end" => Known(room, Steps[i].id)
<1>0. IsFiniteSet(Due(room)) /\ IsFiniteSet(DOMAIN room.leases) /\ IsFiniteSet(room.scheduled)
  BY DueFinite, RulesAssumption
<1>1. ASSUME NEW reason
      PROVE  /\ IsSequence(EndSteps(reason))
             /\ \A i \in 1..Len(EndSteps(reason)) :
                   EndSteps(reason)[i].id \in DOMAIN room.leases
  <2>. DEFINE S == {i \in DOMAIN room.leases : EndingOf(room.leases[i], IsStale(i), now) = reason}
              f == [id \in S |-> [type |-> "end", id |-> id, reason |-> reason, cause |-> "none",
                                  read |-> room.leases[id].read]]
              l == EndSteps(reason)
  <2>1. IsFiniteSet(S)
    BY <1>0, FS_Subset
  <2>2. l = SetToSeq({f[id] : id \in S})
    BY DEF EndSteps
  <2>3. \A id \in S : f[id].id = id /\ id \in DOMAIN room.leases
    OBVIOUS
  <2>. HIDE DEF S, l
  <2>4. l \in Seq({f[id] : id \in S})
    BY <2>1, <2>2, ImageLists
  <2>. HIDE DEF f
  <2>5. \A i \in 1..Len(l) : l[i].id \in DOMAIN room.leases
    BY <2>3, <2>4
  <2>6. IsSequence(l)
    BY <2>4, Sequenced
  <2>. QED BY <2>5, <2>6 DEF l
<1>2. /\ IsSequence(Abandonments)
      /\ \A i \in 1..Len(Abandonments) : Owable(room, Abandonments[i].id)
  <2>. DEFINE S == {o \in Due(room) : Capped(o)}
              f == [d \in S |-> [type |-> "end", id |-> d.id, reason |-> "abandoned", read |-> 0,
                                 cause |-> IF d.permanent THEN "permanent" ELSE "transient"]]
              l == Abandonments
  <2>1. IsFiniteSet(S)
    BY <1>0, FS_Subset
  <2>2. l = SetToSeq({f[d] : d \in S})
    BY DEF Abandonments
  <2>3. \A d \in S : f[d].id = d.id /\ Owable(room, d.id)
    BY DueIsNext, RulesAssumption
  <2>. HIDE DEF S, l
  <2>4. l \in Seq({f[d] : d \in S})
    BY <2>1, <2>2, ImageLists
  <2>. HIDE DEF f
  <2>5. \A i \in 1..Len(l) : Owable(room, l[i].id)
    BY <2>3, <2>4
  <2>6. IsSequence(l)
    BY <2>4, Sequenced
  <2>. QED BY <2>5, <2>6 DEF l
<1>3. /\ IsSequence(Closing)
      /\ \A i \in 1..Len(Closing) : Closing[i].type # "end"
  <2>. DEFINE c == [type |-> "close", from |-> room.exchange.from, through |-> room.lastSeq]
  <2>1. Closing = <<c>> \/ Closing = <<>>
    BY DEF Closing
  <2>2. c.type = "close"
    OBVIOUS
  <2>. HIDE DEF c
  <2>a. <<c>> \in Seq({c}) /\ <<>> \in Seq({c})
    OBVIOUS
  <2>3. Closing \in Seq({c})
    BY <2>1, <2>a
  <2>. QED BY <2>2, <2>3, Sequenced
<1>4. /\ IsSequence(Returns)
      /\ \A i \in 1..Len(Returns) : Returns[i].type # "end"
  <2>. DEFINE ready == {s \in room.scheduled : Returnable(s)}
              nth(n) == CHOOSE s \in ready : Cardinality({r \in ready : r.seq < s.seq}) = n - 1
              c == Cardinality(ready)
  <2>1. IsFiniteSet(ready)
    BY <1>0, FS_Subset
  <2>. HIDE DEF ready
  <2>2. c \in Nat
    BY <2>1, FS_CardinalityType
  <2>3. Returns = [n \in 1..c |-> [type |-> "return", seq |-> nth(n).seq]]
    BY DEF Returns, ready
  <2>. HIDE DEF c, nth
  <2>. DEFINE R == [type : {"return"}, seq : {nth(n).seq : n \in 1..c}]
  <2>a. \A r \in R : r.type = "return"
    OBVIOUS
  <2>4. Returns \in Seq(R)
    BY <2>2, <2>3
  <2>. HIDE DEF R
  <2>5. ASSUME NEW i \in 1..Len(Returns) PROVE Returns[i].type # "end"
    <3>1. Returns[i] \in R
      BY <2>4
    <3>. QED BY <2>a, <3>1
  <2>. QED BY <2>4, <2>5, Sequenced
<1>5. \A i \in 1..Len(Abandonments) : Known(room, Abandonments[i].id)
  BY <1>2 DEF Known
<1>6. \A reason : \A i \in 1..Len(EndSteps(reason)) : Known(room, EndSteps(reason)[i].id)
  BY <1>1 DEF Known
<1>. DEFINE a == EndSteps("revoked")
            b == EndSteps("expired")
            c == Abandonments
            ends == a \o b \o c
<1>7. /\ IsSequence(a) /\ IsSequence(b) /\ IsSequence(c)
      /\ \A i \in 1..Len(a) : Known(room, a[i].id)
      /\ \A i \in 1..Len(b) : Known(room, b[i].id)
      /\ \A i \in 1..Len(c) : Known(room, c[i].id)
  BY <1>1, <1>2, <1>5, <1>6
<1>8. Steps = IF ends # <<>> THEN ends ELSE Closing \o Returns
  BY DEF Steps
<1>. HIDE DEF a, b, c
<1>9. IsSequence(a \o b) /\ \A i \in 1..Len(a \o b) : Known(room, (a \o b)[i].id)
  <2>1. Joins(a \o b, a, b)
    BY <1>7, Concatenates
  <2>. QED BY <1>7, <2>1 DEF Joins
<1>. DEFINE ab == a \o b
<1>10. IsSequence(ab) /\ \A i \in 1..Len(ab) : Known(room, ab[i].id)
  BY <1>9
<1>11. ends = ab \o c
  OBVIOUS
<1>. HIDE DEF ab, ends
<1>12. IsSequence(ends) /\ \A i \in 1..Len(ends) : Known(room, ends[i].id)
  <2>1. Joins(ends, ab, c)
    BY <1>7, <1>10, <1>11, Concatenates
  <2>. QED BY <1>7, <1>10, <2>1 DEF Joins
<1>13. /\ IsSequence(Closing \o Returns)
       /\ \A i \in 1..Len(Closing \o Returns) : (Closing \o Returns)[i].type # "end"
  <2>. DEFINE u == Closing
              v == Returns
              w == u \o v
  <2>1. /\ IsSequence(u) /\ IsSequence(v)
        /\ \A i \in 1..Len(u) : u[i].type # "end"
        /\ \A i \in 1..Len(v) : v[i].type # "end"
    BY <1>3, <1>4
  <2>. HIDE DEF u, v
  <2>2. Joins(w, u, v)
    BY <2>1, Concatenates
  <2>. HIDE DEF w
  <2>3. IsSequence(w) /\ \A i \in 1..Len(w) : w[i].type # "end"
    BY <2>1, <2>2 DEF Joins
  <2>. QED BY <2>3 DEF w, u, v
<1>. QED BY <1>8, <1>12, <1>13

\* What a stop leaves of a pass is the step it was at, or nothing.
LEMMA QueuedIs ==
    ASSUME Planned
    PROVE  \/ Queued = NoPass /\ flight # "pass"
           \/ /\ pass.steps # <<>> /\ pass.stage = "steps"
              /\ DOMAIN Queued = DOMAIN NoPass /\ Queued.steps = <<pass.steps[1]>>
              /\ Queued.stage = pass.stage /\ Queued.sends = pass.sends
              /\ Queued.alarm = pass.alarm /\ Queued.count = pass.count
<1>. DEFINE q == [pass EXCEPT !.steps = <<Head(@)>>]
<1>1. DOMAIN pass = {"stage", "steps", "sends", "alarm", "changed", "count"}
  BY DEF Planned, NoPass
<1>2. /\ DOMAIN q = DOMAIN NoPass /\ q.steps = <<Head(pass.steps)>>
      /\ q.stage = pass.stage /\ q.sends = pass.sends
      /\ q.alarm = pass.alarm /\ q.count = pass.count
  BY <1>1 DEF NoPass
<1>3. ASSUME pass.steps # <<>> PROVE Head(pass.steps) = pass.steps[1]
  BY <1>3 DEF Planned, IsSequence
<1>4. \/ Queued = q /\ pass.stage = "steps" /\ pass.steps # <<>>
      \/ Queued = NoPass /\ flight # "pass"
  BY DEF Queued, Planned
<1>. HIDE DEF q
<1>. QED BY <1>2, <1>3, <1>4

\* A stop plans nothing more.
LEMMA StopPlans == ASSUME Planned, Stop PROVE Planned'
<1>1. pass' = Queued /\ UNCHANGED <<room, flight>>
  BY DEF Stop
<1>2. CASE Queued = NoPass /\ flight # "pass"
  BY <1>1, <1>2, NothingPlanned
<1>3. CASE /\ pass.steps # <<>> /\ pass.stage = "steps"
           /\ DOMAIN Queued = DOMAIN NoPass /\ Queued.steps = <<pass.steps[1]>>
           /\ Queued.stage = pass.stage
  <2>1. IsSequence(pass.steps) /\ Len(pass.steps) \in Nat
    BY SequenceGrows DEF Planned
  <2>2. 1 \in 1..Len(pass.steps)
    BY <1>3, <2>1 DEF IsSequence
  <2>3. pass.steps[1].type = "end" => Known(room, pass.steps[1].id)
    BY <2>2 DEF Planned
  <2>4. \A id : Known(room, id) => Known(room', id)
    BY <1>1
  <2>. DEFINE t == <<pass.steps[1]>>
  <2>5. IsSequence(t) /\ t # <<>> /\ \A i \in 1..Len(t) : t[i] = pass.steps[1]
    BY DEF IsSequence
  <2>6. pass'.steps = t /\ DOMAIN pass' = DOMAIN NoPass /\ pass'.stage = "steps"
    BY <1>1, <1>3
  <2>. HIDE DEF t
  <2>. QED BY <2>3, <2>4, <2>5, <2>6 DEF Planned
<1>. QED BY <1>2, <1>3, QueuedIs

\* A pass keeps to what it planned, and the room to what it knows.
LEMMA PlannedKeeps ==
    ASSUME Serial, Quiet, Planned, [Next]_vars
    PROVE  Planned'
<1>0. IsSequence(pass.steps) /\ Len(pass.steps) \in Nat
  BY SequenceGrows DEF Planned
<1>1. ASSUME NEW by, by # "pass", NEW e, Land(by, e) PROVE Planned'
  BY <1>1 DEF Land, memory, Planned
<1>2. ASSUME UNCHANGED <<room, flight>>, pass' = pass \/ (pass' = NoPass /\ flight # "pass")
      PROVE  Planned'
  <2>1. CASE pass' = NoPass /\ flight # "pass"
    BY <1>2, <2>1, NothingPlanned
  <2>2. CASE pass' = pass
    BY <1>2, <2>2 DEF Planned
  <2>. QED BY <1>2, <2>1, <2>2
<1>3. ASSUME heard < Len(log), NEW asks, Hearing(asks), flight' = "none", pass' = pass
      PROVE  Planned'
  <2>1. \A id : Known(room, id) => Known(room', id)
    BY <1>3, KnownStays, RulesAssumption
  <2>. QED BY <1>3, <2>1 DEF Planned
<1>4. ASSUME Confirm PROVE Planned'
  <2>1. heard < Len(log)
    BY <1>4, RoomIs, RulesAssumption DEF Confirm, Serial
  <2>2. CASE flight # "pass"
    <3>1. \E asks : Hearing(asks) /\ flight' = "none" /\ pass' = pass
      BY <1>4, <2>2 DEF Confirm
    <3>. QED BY <1>3, <2>1, <3>1
  <2>3. CASE flight = "pass"
    <3>1. /\ pass' = [pass EXCEPT !.steps = Tail(@), !.changed = TRUE] /\ flight' = "none"
          /\ \E asks : Hearing(asks)
      BY <1>4, <2>3 DEF Confirm
    <3>2. \A id : Known(room, id) => Known(room', id)
      BY <2>1, <3>1, KnownStays, RulesAssumption
    <3>3. pass.steps # <<>> /\ DOMAIN pass = DOMAIN NoPass
      BY <2>3 DEF Planned
    <3>4. DOMAIN pass' = DOMAIN NoPass /\ pass'.steps = Tail(pass.steps)
      BY <3>1, <3>3 DEF NoPass
    <3>5. PartOf(Tail(pass.steps), pass.steps)
      BY <1>0, <3>3, TailsOf
    <3>. QED BY <3>1, <3>2, <3>4, <3>5 DEF Planned, PartOf
  <2>. QED BY <2>2, <2>3
<1>5. ASSUME NEW seats, Compose(seats) PROVE Planned'
  <2>1. pass' = NoPass /\ flight' = "none"
    BY <1>5 DEF Compose, Quiet
  <2>. QED BY <2>1, NothingPlanned
<1>6. ASSUME Plan PROVE Planned'
  <2>. DEFINE p == [stage |-> "steps", steps |-> Steps, sends |-> Sends,
                    alarm |-> NextAlarm, changed |-> FALSE, count |-> pass.count]
  <2>1. UNCHANGED <<room, flight>> /\ flight # "pass"
    BY <1>6 DEF Plan, Planned
  <2>2. CASE p.steps = <<>>
    <3>1. SendAndFinish(p, Kept)
      BY <1>6, <2>2 DEF Plan
    <3>. QED BY <2>1, <3>1, FinishPlans
  <2>3. CASE p.steps # <<>>
    <3>1. pass' = p
      BY <1>6, <2>3 DEF Plan
    <3>2. DOMAIN p = DOMAIN NoPass /\ p.steps = Steps
      BY DEF NoPass
    <3>. HIDE DEF p
    <3>. QED BY <2>1, <3>1, <3>2, StepsPlanned, RulesAssumption DEF Planned
  <2>. QED BY <2>2, <2>3
<1>7. ASSUME Send PROVE Planned'
  <2>1. UNCHANGED <<room, flight>> /\ flight # "pass" /\ SendAndFinish(pass, sent)
    BY <1>7 DEF Send, Planned
  <2>. QED BY <2>1, FinishPlans
<1>8. ASSUME StepWrites PROVE Planned'
  <2>1. PICK e : Land("pass", e)
    BY <1>8 DEF StepWrites
  <2>2. pass.stage = "steps" /\ pass.steps # <<>>
    BY <1>8 DEF StepWrites, Stepping
  <2>. QED BY <2>1, <2>2 DEF Land, memory, Planned
<1>9. ASSUME StepWritesNothing PROVE Planned'
  <2>1. /\ UNCHANGED <<room, flight>> /\ flight # "pass" /\ pass.steps # <<>>
        /\ \E x : pass' = [pass EXCEPT !.steps = Tail(@), !.changed = x]
    BY <1>9 DEF StepWritesNothing, Stepping, Free
  <2>2. DOMAIN pass' = DOMAIN NoPass /\ pass'.steps = Tail(pass.steps)
    BY <2>1 DEF Planned, NoPass
  <2>3. PartOf(Tail(pass.steps), pass.steps)
    BY <1>0, <2>1, TailsOf
  <2>. QED BY <2>1, <2>2, <2>3 DEF Planned, PartOf
<1>10. ASSUME LoseAnswer \/ StepFails \/ Crash PROVE Planned'
  <2>1. CASE StepFails
    BY <1>2, <2>1 DEF StepFails, Free
  <2>2. CASE LoseAnswer \/ Crash
    <3>1. flight' = "none" /\ room' = room /\ (pass' = NoPass \/ pass' = pass)
      BY <2>2 DEF LoseAnswer, Crash, Forget
    <3>2. CASE pass' = NoPass
      BY <3>1, <3>2, NothingPlanned
    <3>3. CASE pass' = pass
      BY <3>1, <3>3 DEF Planned
    <3>. QED BY <3>1, <3>2, <3>3
  <2>. QED BY <1>10, <2>1, <2>2
<1>11. ASSUME People \/ Host PROVE Planned'
  <2>1. CASE Stop
    BY <2>1, StopPlans
  <2>2. CASE ~Stop
    BY <1>1, <1>11, <2>2 DEF People, Host, Arrive, Leave, Deliver, Post, SeatAgent, UnseatAgent,
                             Dismiss, Cancel
  <2>. QED BY <2>1, <2>2
<1>12. ASSUME Seats PROVE Planned'
  BY <1>1, <1>12 DEF Seats, Claim, Run, Renew, Release, Say, Schedule, DismissOwn, SeatIntent,
                     UnseatIntent, Summarize
<1>13. ASSUME Machine PROVE Planned'
  <2>1. CASE Hear
    BY <1>3, <2>1 DEF Hear
  <2>2. CASE AlarmRings \/ Tick
    BY <1>2, <2>2 DEF AlarmRings, Tick, memory
  <2>3. CASE StopRevokes \/ StopLeaves
    BY <1>1, <2>3 DEF StopRevokes, StopLeaves
  <2>4. CASE StopEnds
    BY <1>2, <2>4 DEF StopEnds, Free, Forget
  <2>5. CASE Resume
    BY <1>5, <2>5 DEF Resume
  <2>. QED BY <1>4, <1>6, <1>7, <1>8, <1>9, <1>13, <2>1, <2>2, <2>3, <2>4, <2>5 DEF Machine
<1>14. ASSUME Restart PROVE Planned'
  BY <1>5, <1>14 DEF Restart
<1>15. ASSUME UNCHANGED vars PROVE Planned'
  BY <1>2, <1>15 DEF vars, memory
<1>. QED BY <1>10, <1>11, <1>12, <1>13, <1>14, <1>15 DEF Next

\* A pass that has not started holds nothing.
LEMMA InitPlanned == ASSUME Init PROVE Planned
<1>1. pass = NoPass /\ flight = "none"
  BY DEF Init
<1>. QED BY <1>1 DEF Planned, NoPass, IsSequence

-----------------------------------------------------------------------------
(* The theorems *)

\* Whatever people, the host, the seats, the clock and the wire do, every entry of
\* the record was decided on the replay of all the entries before it.
THEOREM SerialAlways == Spec => [](Serial /\ Quiet /\ Planned)
<1>1. Init => Serial /\ Quiet /\ Planned
  BY InitSerial, InitPlanned, RoomAssumption
<1>2. Serial /\ Quiet /\ Planned /\ [Next]_vars => (Serial /\ Quiet /\ Planned)'
  BY SerialKeeps, QuietKeeps, PlannedKeeps, RulesAssumption, RoomAssumption
<1>. QED BY <1>1, <1>2, PTL DEF Spec

\* No lease runs and no seat writes for an activation caused before a cancellation, or
\* before its seat was removed (activationSpec, seatAuthority in room/activation.ts).
THEOREM AuthorityAlways == Spec => []AuthorityHolds
<1>1. Serial => AuthorityHolds
  <2>. SUFFICES ASSUME Serial, NEW i \in Places PROVE AuthorityHolds!(i)
    BY DEF AuthorityHolds
  <2>1. Authority(log)
    BY AuthorityOfRecord, RulesAssumption DEF Serial
  <2>2. \A j, seat : Ends(log, j, seat) <=> EndsAuthority(j, seat)
    BY DEF Ends, EndsAuthority, Said
  <2>. QED BY <2>1, <2>2 DEF Authority, Places, Said
<1>. QED BY <1>1, SerialAlways, PTL

\* The lease entries of one activation tell one story: nothing after its end, an
\* abandonment only of what never ran, an expiry only of what had run out (mayEnd).
THEOREM LeasesTellOneStory == Spec => []LeaseStory
<1>1. Serial => LeaseStory
  <2>1. Serial => Story(log)
    BY StoryOfRecord, RulesAssumption DEF Serial
  <2>. QED BY <2>1 DEF Story, LeaseStory, Places
<1>. QED BY <1>1, SerialAlways, PTL

\* A scheduled say returns once and not before its time, or is dismissed, never both
\* (returnSay, dismissing in room/transition.ts).
THEOREM SaysReturnOnce == Spec => []ReturnedOnce
<1>1. Serial => ReturnedOnce
  <2>. SUFFICES ASSUME Serial PROVE ReturnedOnce
    OBVIOUS
  <2>1. Returned(log)
    BY ReturnedOfRecord, RulesAssumption DEF Serial
  <2>. QED BY <2>1 DEF Returned, Finishes, ReturnedOnce, Places, Said
<1>. QED BY <1>1, SerialAlways, PTL

\* An exchange is summarised at most once to one person, by the writer its close names
\* (summaryCommit in room/transition.ts, owesSummary).
THEOREM SummariesOnce == Spec => []SummaryOnce
<1>1. Serial => SummaryOnce
  <2>1. Serial => Summaries(log)
    BY SummariesOfRecord, RulesAssumption DEF Serial
  <2>. QED BY <2>1 DEF Summaries, SummaryOnce, Places, Said
<1>. QED BY <1>1, SerialAlways, PTL

\* Nothing from before a cancellation is owed, runs or waits to return, and no later
\* entry revives it (onCancel in room/projection.ts).
THEOREM CancelledNeverRevives == Spec => []CancelledStaysDead
<1>1. Serial => CancelledStaysDead
  <2>. SUFFICES ASSUME Serial PROVE CancelledStaysDead
    OBVIOUS
  <2>1. heard \in 0..Len(log) /\ heard + 1 >= Len(log)
    BY RoomIs, RulesAssumption
  <2>2. Dead(log, heard, room)
    BY <2>1, DeadOfRecord, RulesAssumption DEF Serial
  <2>. QED BY <2>2 DEF Dead, CancelledStaysDead, RunningLeases, Said
<1>. QED BY <1>1, SerialAlways, PTL

\* Every question belongs to exactly one exchange, the open one or one that is closed
\* (closeAdmission, the exchange fold of room/projection.ts).
THEOREM QuestionsInOneExchange == Spec => []OneExchangeEach
<1>1. Serial => OneExchangeEach
  <2>. SUFFICES ASSUME Serial PROVE OneExchangeEach
    OBVIOUS
  <2>1. heard \in 0..Len(log)
    BY RoomIs, RulesAssumption
  <2>2. OneEach(log, heard, room)
    BY <2>1, OneEachOfRecord, RulesAssumption DEF Serial
  <2>. QED BY <2>2 DEF OneEach, OneExchangeEach, Questions, IsQuestion, Said
<1>. QED BY <1>1, SerialAlways, PTL

\* A seat is at work on one activation at a time, whichever of its wakes, early, late
\* or repeated, is claimed first (seatHeld in room/transition.ts).
THEOREM SeatsWorkOnOne == Spec => []OneLivePerSeat
<1>1. Serial => OneLivePerSeat
  <2>. SUFFICES ASSUME Serial PROVE OneLivePerSeat
    OBVIOUS
  <2>1. heard \in 0..Len(log) /\ Len(log) \in Nat
    BY RoomIs, RulesAssumption
  <2>2. LiveOnce(log, heard, room)
    BY <2>1, LivingOnce, RulesAssumption DEF Serial
  <2>3. now \in Nat /\ \A i \in 1..heard : Clocked(log[i]) => log[i].at <= now
    BY <2>1 DEF Serial
  <2>4. \A x, y \in DOMAIN room.leases :
            IsLive(room.leases[x], now) /\ IsLive(room.leases[y], now) /\ x.seat = y.seat => x = y
    BY <2>2, <2>3 DEF LiveOnce
  <2>. QED BY <2>4 DEF OneLivePerSeat
<1>. QED BY <1>1, SerialAlways, PTL

\* The roster is what the last composition and the moves after it make of it.
LEMMA RosterAgrees ==
    ASSUME Serial, RulesAssumption
    PROVE  room.roster = FoldedRoster
<1>0. heard \in 1..Len(log) /\ Len(log) \in Nat
  BY RoomIs DEF Serial
<1>1. PICK c \in 1..heard : /\ Composes(log, c, heard)
                            /\ \A seat : seat \in room.roster <=> SeatedSince(log, c, heard, seat)
  <2>1. Rostered(log, heard, room)
    BY <1>0, Rosters DEF Serial
  <2>. QED BY <2>1 DEF Rostered
<1>2. LastComposition = c
  <2>. DEFINE S == {i \in 1..heard : log[i].type = "composition"}
  <2>1. c \in S /\ S \in SUBSET Nat /\ c \in Nat
    BY <1>0, <1>1 DEF Composes
  <2>2. \A i \in S : i <= c
    BY <1>0, <1>1 DEF Composes
  <2>. HIDE DEF S
  <2>3. Latest(S) \in S /\ \A i \in S : i <= Latest(S)
    BY <2>1, <2>2, LatestIs
  <2>4. Latest(S) = c
    BY <2>1, <2>2, <2>3
  <2>. QED BY <2>4 DEF LastComposition, S
<1>. DEFINE after == {i \in c + 1..heard : Said(i) /\ log[i].kind \in {"seated", "unseated"}}
            moves(s) == {i \in after : log[i].to = s}
<1>3. FoldedRoster = {s \in Seat : IF \E i \in after : log[i].to = s
                                   THEN log[Latest(moves(s))].kind = "seated"
                                   ELSE s \in log[c].seated}
  BY <1>2 DEF FoldedRoster
<1>4. ASSUME NEW s, NEW i \in c + 1..heard
      PROVE  i \in moves(s) <=> SeatMove(log, i, s)
  BY <1>4 DEF SeatMove, Said
<1>5. ASSUME NEW s \in Seat
      PROVE  s \in room.roster <=> IF moves(s) # {} THEN log[Latest(moves(s))].kind = "seated"
                                   ELSE s \in log[c].seated
  <2>1. CASE moves(s) = {}
    <3>1. \A i \in c + 1..heard : ~SeatMove(log, i, s)
      BY <1>4, <2>1
    <3>. QED BY <1>1, <2>1, <3>1 DEF SeatedSince
  <2>2. CASE moves(s) # {}
    <3>. DEFINE S == moves(s)
                l == Latest(S)
    <3>1. S \in SUBSET Nat /\ S # {} /\ heard \in Nat /\ \A i \in S : i <= heard
      BY <1>0, <2>2
    <3>a. \A i \in S : i \in c + 1..heard
      OBVIOUS
    <3>. HIDE DEF moves, after
    <3>2. l \in S /\ \A i \in S : i <= l
      BY <3>1, LatestIs
    <3>3. l \in c + 1..heard /\ SeatMove(log, l, s)
      BY <1>4, <3>2, <3>a
    <3>4. \A j \in l + 1..heard : ~SeatMove(log, j, s)
      <4>1. \A j \in l + 1..heard : j \in c + 1..heard /\ j > l
        BY <1>0, <3>3
      <4>2. \A j \in l + 1..heard : j \notin S
        BY <1>0, <3>2, <3>3, <4>1
      <4>. QED BY <1>4, <4>1, <4>2
    <3>5. ASSUME NEW i \in c + 1..heard, SeatMove(log, i, s),
                 \A j \in i + 1..heard : ~SeatMove(log, j, s)
          PROVE  i = l
      <4>1. i \in S
        BY <1>4, <3>5
      <4>2. i <= l /\ i \in Nat /\ l \in Nat
        BY <1>0, <3>2, <3>3, <4>1
      <4>3. ~(i < l)
        BY <1>0, <3>3, <3>5
      <4>. QED BY <4>2, <4>3
    <3>. HIDE DEF l
    <3>6. SeatedSince(log, c, heard, s) <=> log[l].kind = "seated"
      BY <3>3, <3>4, <3>5 DEF SeatedSince
    <3>. QED BY <1>1, <2>2, <3>6 DEF l
  <2>. QED BY <2>1, <2>2
<1>6. \A s : moves(s) # {} <=> \E i \in after : log[i].to = s
  OBVIOUS
<1>7. room.roster \subseteq Seat
  BY RoomIs DEF Formed
<1>. HIDE DEF moves, after
<1>. QED BY <1>3, <1>5, <1>6, <1>7

\* The indexes answer what the whole record answers, whatever entries changed them
\* (advanceStep in room/projection.ts against what it summarises).
THEOREM IndexesAgree == Spec => []IndexAgrees
<1>1. Serial => IndexAgrees
  <2>. SUFFICES ASSUME Serial PROVE IndexAgrees
    OBVIOUS
  <2>1. /\ heard \in Nat /\ Formed(log, heard, room) /\ Chained(log, heard, room)
        /\ Waiting(log, heard, room)
    BY RoomIs, RulesAssumption
  <2>2. Due(room) = FoldedWakes(room) \cup FoldedOwed(room)
    BY DueAgrees, RulesAssumption
  <2>3. {m.seq : m \in room.messages} = {i \in 1..heard : Said(i)}
    <3>1. \A m \in room.messages : m.seq \in 1..heard /\ Said(m.seq)
      BY <2>1, MessageAt DEF Said
    <3>2. ASSUME NEW i \in 1..heard, Said(i) PROVE \E m \in room.messages : m.seq = i
      <4>1. IsMessage(log[i]) /\ Placed(log[i], i) \in room.messages
        BY <2>1, <3>2 DEF Formed, Said
      <4>. QED BY <4>1, PlacedIs
    <3>. QED BY <3>1, <3>2
  <2>4. room.roster = FoldedRoster
    BY RosterAgrees, RulesAssumption
  <2>5. {x.seq : x \in room.scheduled} = FoldedScheduled
    <3>1. \A i \in 1..heard : i \in FoldedScheduled <=> Unfinished(log, heard, i)
      BY DEF FoldedScheduled, Unfinished, Ends, EndsAuthority, Finishes, Said
    <3>2. \A i : Waiter(log, i).seq = i
      BY DEF Waiter
    <3>3. FoldedScheduled \subseteq 1..heard
      BY DEF FoldedScheduled
    <3>. QED BY <2>1, <3>1, <3>2, <3>3 DEF Waiting
  <2>6. room.exchange = ExchangeAfter(room.messages, room.known, room.boundary)
    BY <2>1, ExchangeOfRecord
  <2>. QED BY <2>2, <2>3, <2>4, <2>5, <2>6 DEF IndexAgrees
<1>. QED BY <1>1, SerialAlways, PTL

-----------------------------------------------------------------------------
(* Closes *)

\* A claim takes a wake that is on the wire, a renewal a lease that runs.
Claims(e) ==
    e.type = "lease" /\ e.phase = "running" =>
        e.id \in wired \/ (e.id \in DOMAIN room.leases /\ room.leases[e.id].phase = "running")

\* A step adds at most one entry, and a close only where nothing is live.
Writes ==
    \/ log' = log
    \/ \E e : /\ log' = Append(log, e)
              /\ Claims(e)
              /\ e.type = "close" =>
                    /\ heard = Len(log) /\ e.through = room.lastSeq
                    /\ ~ExchangeLive(room.leases, Due(room), now)

\* An entry that lands is an admissible write, if it is no close and claims what is on the wire.
LEMMA LandWrites ==
    ASSUME NEW by, NEW e, Land(by, e), e.type \in {"message", "lease", "cancel"}, Claims(e)
    PROVE  Writes
BY DEF Land, Writes

\* A message that an action lands is no close.
LEMMA CarriedWrites ==
    ASSUME NEW by, NEW m, Land(by, m), NEW kind, NEW from, NEW to, NEW act, NEW delay,
           NEW about, NEW through, Carries(m, kind, from, to, act, delay, about, through)
    PROVE  Writes
BY LandWrites DEF Carries, Claims

\* Nothing but the clock spends ticks.
Paid == UNCHANGED left \/ \E op \in Ops \ {"tick"} : Spend(op)

\* What people, the host and the seats write: messages, cancellations, claims of wakes
\* that are on the wire, renewals of leases that run, and releases.
Contribution(by, e) ==
    /\ Land(by, e) /\ Paid /\ phase # "down"
    /\ e.type \in {"message", "lease", "cancel"}
    /\ Claims(e)
    /\ \/ by = "asks"
       \/ by = "other" /\ (e.type = "lease" => e.phase = "running")

Contributed == \E by, e : Contribution(by, e)

\* A message is a contribution.
LEMMA CarriedContributes ==
    ASSUME NEW by \in {"asks", "other"}, NEW m, Land(by, m), Paid, phase # "down",
           NEW kind, NEW from, NEW to, NEW act, NEW delay, NEW about, NEW through,
           Carries(m, kind, from, to, act, delay, about, through)
    PROVE  Contributed
<1>1. Contribution(by, m)
  BY DEF Contribution, Claims, Carries
<1>. QED BY <1>1 DEF Contributed

\* What people and the host do, but for a stop, they contribute.
LEMMA PeopleContribute == ASSUME People \/ Host, ~Stop PROVE Contributed
<1>0. /\ \A op \in {"speak", "post", "meet", "seat", "dismiss", "cancel"} : Spend(op) => Paid
      /\ Admitting => phase # "down"
  BY DEF Paid, Ops, Admitting
<1>1. ASSUME NEW p, Arrive(p) PROVE Contributed
  BY <1>1, <1>0, MessageCarries, RoutedCarries, CarriedContributes DEF Arrive
<1>2. ASSUME NEW p, Leave(p) PROVE Contributed
  BY <1>2, <1>0, MessageCarries, RoutedCarries, CarriedContributes DEF Leave
<1>3. ASSUME NEW p, NEW to, Deliver(p, to) PROVE Contributed
  BY <1>3, <1>0, MessageCarries, RoutedCarries, CarriedContributes DEF Deliver
<1>4. ASSUME NEW to, Post(to) PROVE Contributed
  BY <1>4, <1>0, MessageCarries, RoutedCarries, CarriedContributes DEF Post
<1>5. ASSUME NEW s, SeatAgent(s) PROVE Contributed
  BY <1>5, <1>0, MessageCarries, RoutedCarries, CarriedContributes DEF SeatAgent
<1>6. ASSUME NEW s, UnseatAgent(s) PROVE Contributed
  BY <1>6, <1>0, MessageCarries, RoutedCarries, CarriedContributes DEF UnseatAgent
<1>7. ASSUME NEW say, Dismiss(say) PROVE Contributed
  BY <1>7, <1>0, AboutCarries, CarriedContributes DEF Dismiss
<1>8. ASSUME Cancel PROVE Contributed
  <2>. DEFINE e == [type |-> "cancel", at |-> now]
  <2>1. e.type = "cancel" /\ Land("other", e) /\ phase # "down"
    BY <1>8 DEF Cancel
  <2>2. Spend("cancel")
    BY <1>8 DEF Cancel
  <2>. HIDE DEF e
  <2>3. Contribution("other", e)
    BY <1>0, <2>1, <2>2 DEF Contribution, Claims
  <2>. QED BY <2>3 DEF Contributed
<1>. QED BY <1>1, <1>2, <1>3, <1>4, <1>5, <1>6, <1>7, <1>8 DEF People, Host

\* What the seats do they contribute.
LEMMA SeatsContribute == ASSUME Seats PROVE Contributed
<1>0. /\ \A op \in {"say", "schedule", "dismiss", "seat", "renew", "fail"} : Spend(op) => Paid
      /\ UNCHANGED left => Paid
      /\ Admitting => phase # "down"
  BY DEF Paid, Ops, Admitting
<1>1. ASSUME NEW kind, NEW id, NEW read, Run(kind, id, read), Paid,
             id \in wired \/ kind = "renew"
      PROVE  Contributed
  <2>1. PICK expires : Land("other", LeaseEntry(id, "running", "none", "none", read, expires))
    BY <1>1 DEF Run
  <2>. DEFINE e == LeaseEntry(id, "running", "none", "none", read, expires)
  <2>2. e.type = "lease" /\ e.id = id /\ e.phase = "running"
    BY LeaseEntryIs
  <2>3. phase # "down" /\ Admission(kind, id) = "granted"
    BY <1>1 DEF Run
  <2>4. kind = "renew" => id \in DOMAIN room.leases /\ room.leases[id].phase = "running"
    BY <2>3 DEF Admission, AdmitsLease, PhaseOf, IsLive
  <2>. HIDE DEF e
  <2>5. Contribution("other", e)
    BY <1>1, <2>1, <2>2, <2>3, <2>4 DEF Contribution, Claims, e
  <2>. QED BY <2>5 DEF Contributed
<1>2. ASSUME NEW id, NEW read, (id \in wired /\ Claim(id)) \/ Renew(id, read) PROVE Contributed
  BY <1>0, <1>1, <1>2 DEF Claim, Renew
<1>3. ASSUME NEW id, NEW to, Say(id, to) PROVE Contributed
  <2>. DEFINE m == Stamped(Routed(Message("said", id.seat, to)), id)
  <2>1. Land("other", m) /\ Paid /\ phase # "down"
    BY <1>0, <1>3 DEF Say, Committing
  <2>2. Carries(m, "said", id.seat, to, id, 0, 0, 0)
    BY MessageCarries, RoutedCarries, StampedCarries
  <2>. HIDE DEF m
  <2>. QED BY <2>1, <2>2, CarriedContributes
<1>4. ASSUME NEW id, Schedule(id) PROVE Contributed
  <2>. DEFINE m == Stamped(Routed([Message("said", id.seat, id.seat) EXCEPT !.delay = Delay]), id)
  <2>1. Land("other", m) /\ Paid /\ phase # "down"
    BY <1>0, <1>4 DEF Schedule, Committing
  <2>2. Carries(m, "said", id.seat, id.seat, id, Delay, 0, 0)
    BY DelayCarries, RoutedCarries, StampedCarries
  <2>. HIDE DEF m
  <2>. QED BY <2>1, <2>2, CarriedContributes
<1>5. ASSUME NEW id, NEW say, DismissOwn(id, say) PROVE Contributed
  <2>. DEFINE m == Stamped([Message("dismissed", id.seat, None) EXCEPT !.about = say.seq], id)
  <2>1. Land("other", m) /\ Paid /\ phase # "down"
    BY <1>0, <1>5 DEF DismissOwn, Committing
  <2>2. Carries(m, "dismissed", id.seat, None, id, 0, say.seq, 0)
    BY AboutCarries, StampedCarries
  <2>. HIDE DEF m
  <2>. QED BY <2>1, <2>2, CarriedContributes
<1>6. ASSUME NEW id, NEW s, SeatIntent(id, s) PROVE Contributed
  <2>. DEFINE m == Stamped(Routed(Message("seated", id.seat, s)), id)
  <2>1. Land("other", m) /\ Paid /\ phase # "down"
    BY <1>0, <1>6 DEF SeatIntent, Committing
  <2>2. Carries(m, "seated", id.seat, s, id, 0, 0, 0)
    BY MessageCarries, RoutedCarries, StampedCarries
  <2>. HIDE DEF m
  <2>. QED BY <2>1, <2>2, CarriedContributes
<1>7. ASSUME NEW id, NEW s, UnseatIntent(id, s) PROVE Contributed
  <2>. DEFINE m == Stamped(Routed(Message("unseated", id.seat, s)), id)
  <2>1. Land("other", m) /\ Paid /\ phase # "down"
    BY <1>0, <1>7 DEF UnseatIntent, Committing
  <2>2. Carries(m, "unseated", id.seat, s, id, 0, 0, 0)
    BY MessageCarries, RoutedCarries, StampedCarries
  <2>. HIDE DEF m
  <2>. QED BY <2>1, <2>2, CarriedContributes
<1>8. ASSUME NEW id, NEW to, Summarize(id, to) PROVE Contributed
  <2>1. PICK from, through :
            Land("other", Stamped(Routed([Message("summary", id.seat, to)
                                EXCEPT !.about = from, !.through = through]), id))
    BY <1>8 DEF Summarize
  <2>. DEFINE m == Stamped(Routed([Message("summary", id.seat, to)
                                EXCEPT !.about = from, !.through = through]), id)
  <2>2. Carries(m, "summary", id.seat, to, id, 0, from, through)
    BY RangeCarries, RoutedCarries, StampedCarries
  <2>. HIDE DEF m
  <2>3. Land("other", m) /\ Paid /\ phase # "down"
    BY <1>0, <1>8, <2>1 DEF Summarize, Committing, m
  <2>. QED BY <2>2, <2>3, CarriedContributes
<1>9. ASSUME NEW id, NEW reason, NEW cause, NEW read, Release(id, reason, cause, read)
      PROVE  Contributed
  <2>. DEFINE e == LeaseEntry(id, "ended", reason, cause, read, 0)
  <2>1. e.type = "lease" /\ e.phase = "ended"
    BY LeaseEntryIs
  <2>2. Land("asks", e) /\ Paid /\ phase # "down"
    BY <1>0, <1>9 DEF Release
  <2>. HIDE DEF e
  <2>3. Contribution("asks", e)
    BY <2>1, <2>2 DEF Contribution, Claims
  <2>. QED BY <2>3 DEF Contributed
<1>. QED BY <1>1, <1>2, <1>3, <1>4, <1>5, <1>6, <1>7, <1>8, <1>9 DEF Seats

\* The end of a lease is an admissible write.
LEMMA LeaseWrites ==
    ASSUME NEW by, NEW id, NEW reason, NEW cause, NEW read, NEW expires,
           Land(by, LeaseEntry(id, "ended", reason, cause, read, expires))
    PROVE  Writes
<1>. DEFINE e == LeaseEntry(id, "ended", reason, cause, read, expires)
<1>1. e.type = "lease" /\ e.phase = "ended"
  BY LeaseEntryIs
<1>. HIDE DEF e
<1>2. Claims(e)
  BY <1>1 DEF Claims
<1>. QED BY <1>1, <1>2, LandWrites DEF e

\* Every step of the room's own machinery writes nothing or an admissible entry.
LEMMA MachineWrites == ASSUME Machine PROVE Writes
<1>1. ASSUME StepWrites PROVE Writes
  <2>. DEFINE s == Head(pass.steps)
  <2>1. PICK e \in StepEntry(s) : Land("pass", e)
    BY <1>1 DEF StepWrites
  <2>. HIDE DEF s
  <2>2. CASE s.type = "end"
    <3>1. e = LeaseEntry(s.id, "ended", s.reason, s.cause, s.read, 0)
      BY <2>1, <2>2 DEF StepEntry, EndDecision
    <3>. QED BY <2>1, <3>1, LeaseWrites
  <2>3. CASE s.type = "return"
    <3>1. PICK to, about : e = Routed([Message("system", None, to) EXCEPT !.about = about])
      BY <2>1, <2>3 DEF StepEntry, ReturnDecision
    <3>2. Carries(e, "system", None, to, None, 0, about, 0)
      BY <3>1, AboutCarries, RoutedCarries
    <3>. QED BY <2>1, <3>2, CarriedWrites
  <2>4. CASE s.type \notin {"end", "return"}
    <3>1. CloseDecision(s) = "admitted" /\ e = CloseEntry(s)
      BY <2>1, <2>4 DEF StepEntry
    <3>2. s.through = room.lastSeq /\ ~ExchangeLive(room.leases, Due(room), now)
      BY <3>1 DEF CloseDecision, CloseAdmission
    <3>3. e.through = s.through
      BY <3>1 DEF CloseEntry
    <3>4. Claims(e)
      BY <3>1 DEF CloseEntry, Claims
    <3>. QED BY <2>1, <3>2, <3>3, <3>4 DEF Land, Free, Writes
  <2>. QED BY <2>2, <2>3, <2>4
<1>2. ASSUME StopRevokes PROVE Writes
  BY <1>2, LeaseWrites DEF StopRevokes
<1>3. ASSUME StopLeaves PROVE Writes
  BY <1>3, MessageCarries, CarriedWrites DEF StopLeaves
<1>4. ASSUME NEW seats, Compose(seats) PROVE Writes
  BY <1>4 DEF Compose, Composition, Writes, Claims
<1>5. ASSUME Resume PROVE Writes
  BY <1>4, <1>5 DEF Resume
<1>6. ASSUME Confirm \/ Hear \/ Plan \/ StepWritesNothing \/ Send \/ AlarmRings \/ Tick \/ StopEnds
      PROVE  Writes
  BY <1>6 DEF Confirm, Hear, Plan, StepWritesNothing, Send, AlarmRings, Tick, StopEnds, Writes
<1>. QED BY <1>1, <1>2, <1>3, <1>5, <1>6 DEF Machine

\* Every step of the room writes nothing or an admissible entry.
LEMMA NextWrites == ASSUME [Next]_vars PROVE Writes
<1>1. ASSUME LoseAnswer \/ StepFails \/ Crash PROVE Writes
  BY <1>1 DEF LoseAnswer, StepFails, Crash, Writes
<1>2. ASSUME Restart PROVE Writes
  BY <1>2 DEF Restart, Compose, Composition, Writes, Claims
<1>3. ASSUME UNCHANGED vars PROVE Writes
  BY <1>3 DEF vars, Writes
<1>4. Contributed => Writes
  BY LandWrites DEF Contributed, Contribution
<1>5. Stop => Writes
  BY DEF Stop, Writes
<1>. QED BY <1>1, <1>2, <1>3, <1>4, <1>5, PeopleContribute, SeatsContribute, MachineWrites DEF Next

\* A close lands only on a quiet record: no seat is at work on a message, none is owed
\* for one, and it reaches the last message (closing in room/transition.ts, closeAdmission).
THEOREM ClosesOnQuiet == Spec => CloseQuiet
<1>1. ASSUME Serial, [Next]_vars PROVE ClosesWhenQuiet
  <2>. SUFFICES ASSUME NEW i \in Len(log) + 1..Len(log'), log'[i].type = "close"
                PROVE  /\ FoldedWakes(Replay(log)) = {}
                       /\ \A id \in DOMAIN Replay(log).leases :
                             id.source = "message" => ~IsLive(Replay(log).leases[id], now)
                       /\ \A j \in log'[i].through + 1..Len(log) : ~Said(j)
    BY DEF ClosesWhenQuiet
  <2>0. Len(log) \in Nat /\ IsSequence(log)
    BY <1>1, SequenceGrows DEF Serial, Sound
  <2>1. PICK e : /\ log' = Append(log, e)
                 /\ e.type = "close" =>
                       /\ heard = Len(log) /\ e.through = room.lastSeq
                       /\ ~ExchangeLive(room.leases, Due(room), now)
    BY <1>1, <2>0, NextWrites DEF Writes
  <2>2. i = Len(log) + 1 /\ log'[i] = e
    BY <2>0, <2>1, SequenceGrows
  <2>3. room = Replay(log) /\ heard = Len(log)
    BY <1>1, <2>1, <2>2 DEF Serial, Replay
  <2>4. \A d \in Due(room) : d.id.source # "message"
    BY <2>1, <2>2 DEF ExchangeLive
  <2>5. FoldedWakes(room) = {}
    <3>1. \A d \in FoldedWakes(room) : d \in Due(room)
      BY <1>1, DueAgrees, RulesAssumption
    <3>2. \A seat, seq : DueRespond(room.leases, seat, seq).id.source = "message"
      BY DEF DueRespond, DueActivation, Activation
    <3>3. \A d \in FoldedWakes(room) : d.id.source = "message"
      BY <3>2 DEF FoldedWakes
    <3>. QED BY <2>4, <3>1, <3>3
  <2>6. \A id \in DOMAIN room.leases : id.source = "message" => ~IsLive(room.leases[id], now)
    BY <2>1, <2>2 DEF ExchangeLive
  <2>7. \A j \in e.through + 1..Len(log) : ~Said(j)
    <3>1. Formed(log, heard, room)
      BY <1>1, RoomIs, RulesAssumption
    <3>2. \A j \in 1..Len(log) : Said(j) => j <= room.lastSeq
      BY <2>3, <3>1 DEF Formed, Said
    <3>3. room.lastSeq \in Nat /\ e.through = room.lastSeq
      BY <2>1, <2>2, <3>1 DEF Formed
    <3>. QED BY <2>0, <3>2, <3>3
  <2>. QED BY <2>2, <2>3, <2>5, <2>6, <2>7
<1>. QED BY <1>1, SerialAlways, PTL DEF Spec, CloseQuiet

\* Every activation the room owes has a number that no lease has spent: none, or, for a
\* summary, the one that runs (dueActivation, admitsLease).
THEOREM AttemptsStayFresh == Spec => []AttemptFresh
<1>1. Serial => AttemptFresh
  <2>. SUFFICES ASSUME Serial, NEW d \in Due(room)
                PROVE  PhaseOf(room.leases, d.id) \in
                           (IF d.id.source = "closed" THEN {"none", "running"} ELSE {"none"})
    BY DEF AttemptFresh
  <2>. QED BY DueIsNext
<1>. QED BY <1>1, SerialAlways, PTL

-----------------------------------------------------------------------------
(* Times *)

\* A finite set of numbers is bounded.
LEMMA FiniteBound ==
    ASSUME NEW S \in SUBSET Nat, IsFiniteSet(S)
    PROVE  \E b \in Nat : \A x \in S : x <= b
<1>. DEFINE Bounded(R) == \E b \in Nat : \A x \in R : x <= b
            T == {n \in Nat : \A R \in SUBSET Nat : IsFiniteSet(R) /\ Cardinality(R) = n => Bounded(R)}
<1>1. 0 \in T
  <2>. SUFFICES ASSUME NEW R \in SUBSET Nat, IsFiniteSet(R), Cardinality(R) = 0 PROVE Bounded(R)
    OBVIOUS
  <2>1. R = {}
    BY FS_EmptySet
  <2>. QED BY <2>1
<1>2. ASSUME NEW n \in Nat, n \in T PROVE n + 1 \in T
  <2>. SUFFICES ASSUME NEW R \in SUBSET Nat, IsFiniteSet(R), Cardinality(R) = n + 1
                PROVE  Bounded(R)
    OBVIOUS
  <2>1. PICK x : x \in R
    <3>1. R # {}
      BY FS_EmptySet
    <3>. QED BY <3>1
  <2>. DEFINE Q == R \ {x}
  <2>2. IsFiniteSet(Q) /\ Cardinality(Q) = n
    <3>1. IsFiniteSet(Q) /\ Cardinality(Q) = Cardinality(R) - 1
      BY <2>1, FS_RemoveElement
    <3>. QED BY <3>1
  <2>3. Q \in SUBSET Nat
    OBVIOUS
  <2>4. Bounded(Q)
    BY <1>2, <2>2, <2>3
  <2>5. PICK b \in Nat : \A y \in Q : y <= b
    BY <2>4
  <2>6. CASE x <= b
    BY <2>5, <2>6
  <2>7. CASE ~(x <= b)
    <3>1. \A y \in R : y <= x
      BY <2>1, <2>5, <2>7
    <3>. QED BY <2>1, <3>1
  <2>. QED BY <2>6, <2>7
<1>3. \A n \in Nat : n \in T => n + 1 \in T
  BY <1>2
<1>. HIDE DEF T
<1>4. Nat \subseteq T
  BY <1>1, <1>3, SetInduction
<1>5. Cardinality(S) \in T
  BY <1>4, FS_CardinalityType
<1>. QED BY <1>5 DEF T

\* The times of finitely many leases are finitely many.
LEMMA FiniteTimes ==
    ASSUME NEW failed, IsFiniteSet(failed), NEW leases, \A f \in failed : leases[f].at \in Nat
    PROVE  LET S == {leases[f].at : f \in failed} IN IsFiniteSet(S) /\ S \in SUBSET Nat
<1>. DEFINE S == {leases[f].at : f \in failed}
            g == [f \in failed |-> leases[f].at]
<1>1. g \in Surjection(failed, S)
  BY DEF Surjection
<1>2. S \in SUBSET Nat
  OBVIOUS
<1>. HIDE DEF S, g
<1>3. IsFiniteSet(S)
  BY <1>1, FS_Surjection
<1>. QED BY <1>2, <1>3 DEF S

\* When an activation is due is a time.
LEMMA DueTime ==
    ASSUME RulesAssumption, NEW source, NEW position, NEW seat, NEW failed, IsFiniteSet(failed),
           NEW leases, \A f \in failed : leases[f].at \in Nat
    PROVE  DueActivation(source, position, seat, failed, leases).notBefore \in Nat
<1>. DEFINE d == DueActivation(source, position, seat, failed, leases)
            S == {leases[f].at : f \in failed}
<1>1. IsFiniteSet(S) /\ S \in SUBSET Nat
  BY FiniteTimes
<1>3. d.notBefore = IF failed = {} THEN 0 ELSE Latest(S) + Backoff
  BY DEF DueActivation
<1>4. failed # {} => S # {}
  OBVIOUS
<1>. HIDE DEF S, d
<1>5. failed # {} => Latest(S) \in Nat
  <2>. SUFFICES ASSUME failed # {} PROVE Latest(S) \in Nat
    OBVIOUS
  <2>1. PICK b \in Nat : \A x \in S : x <= b
    BY <1>1, FiniteBound
  <2>2. Latest(S) \in S
    BY <1>1, <1>4, <2>1, LatestIs
  <2>. QED BY <1>1, <2>2
<1>. QED BY <1>3, <1>5 DEF RulesAssumption, d

\* Whatever is due has a time from which it is.
LEMMA DueInTime ==
    ASSUME Serial, NEW d \in Due(room)
    PROVE  d.notBefore \in Nat
<1>0. /\ Numbered(heard, room) /\ IsFiniteSet(DOMAIN room.leases)
  BY RoomIs, Numbers, DueFinite, RulesAssumption DEF Serial
<1>1. ASSUME NEW source, NEW position, NEW seat, NEW failed, failed \subseteq DOMAIN room.leases
      PROVE  DueActivation(source, position, seat, failed, room.leases).notBefore \in Nat
  <2>1. IsFiniteSet(failed) /\ \A f \in failed : room.leases[f].at \in Nat
    BY <1>0, <1>1, FS_Subset DEF Numbered
  <2>. QED BY <2>1, DueTime, RulesAssumption
<1>2. CASE d \in FoldedWakes(room)
  <2>1. PICK x \in room.roster \X room.messages : d = DueRespond(room.leases, x[1], x[2].seq)
    BY <1>2 DEF FoldedWakes
  <2>. QED BY <1>1, <2>1 DEF DueRespond, Taken, SeatLeases
<1>3. CASE d \in FoldedOwed(room)
  <2>1. PICK i \in DOMAIN room.closes : \E o \in JudgeOwed(room, room.closes[i]) : d = o.due
    BY <1>3 DEF FoldedOwed
  <2>2. d = OwedItem(room.leases, room.closes[i]).due
    BY <2>1, JudgeOwedForm
  <2>. QED BY <1>1, <2>2 DEF OwedItem, SummaryLeases
<1>. QED BY <1>2, <1>3, DueAgrees, RulesAssumption

\* A say that waits has a place and a time to return at.
LEMMA WaitersInTime ==
    ASSUME Serial, NEW x \in room.scheduled
    PROVE  x.seq \in Nat /\ x.due \in Nat
<1>1. PICK i \in 1..heard : x = Waiter(log, i) /\ Unfinished(log, heard, i)
  BY RoomIs, RulesAssumption DEF Waiting
<1>2. i \in 1..Len(log) /\ i \in Nat /\ log[i].type = "message"
  BY <1>1, RoomIs, RulesAssumption DEF Unfinished
<1>3. Decided(log[i], Replays(log)[i - 1])
  BY <1>2 DEF Serial, Sound
<1>4. log[i].at \in Nat /\ log[i].delay \in Nat
  BY <1>2, <1>3 DEF Decided, MessageDecided
<1>. QED BY <1>1, <1>2, <1>4 DEF Waiter

\* When the room looks again is a time, or never.
LEMMA AlarmInTime ==
    ASSUME Serial, \A id \in DOMAIN sent : sent[id] \in Nat
    PROVE  NextAlarm \in Nat
<1>. DEFINE expiries == {room.leases[id].expires :
                           id \in {i \in DOMAIN room.leases : IsLive(room.leases[i], now)}}
            dues == {IF DueAt(d) > now THEN DueAt(d) ELSE now + Resend : d \in Owing}
            returns == {s.due : s \in room.scheduled}
            times == expiries \cup dues \cup returns
            future == {t \in times : t > now}
<1>1. expiries \subseteq Nat
  BY RoomIs, RulesAssumption DEF Leased, LeaseIs, IsLive
<1>2. now \in Nat /\ Resend \in Nat
  BY RulesAssumption DEF Serial, RulesAssumption
<1>3. ASSUME NEW d \in Owing PROVE (IF DueAt(d) > now THEN DueAt(d) ELSE now + Resend) \in Nat
  <2>1. d.notBefore \in Nat
    BY DueInTime DEF Owing
  <2>2. DueAt(d) \in Nat
    BY <1>2, <2>1 DEF DueAt
  <2>. QED BY <1>2, <2>2
<1>4. returns \subseteq Nat
  BY WaitersInTime
<1>5. NextAlarm = IF future = {} THEN 0 ELSE Earliest(future)
  BY DEF NextAlarm
<1>6. future \in SUBSET Nat
  BY <1>1, <1>3, <1>4
<1>. HIDE DEF future
<1>7. future # {} => Earliest(future) \in Nat
  BY <1>6, EarliestIs
<1>. QED BY <1>5, <1>7

-----------------------------------------------------------------------------
(* Bounds *)

\* What is left of the budgets; the clock goes on by what is spent of its ticks.
Metered ==
    /\ left \in [Ops -> Nat] /\ now \in Nat \ {0}
    /\ now + left["tick"] = Budget["tick"] + 1

\* What a run holds in memory.
Remembers ==
    /\ flight \in {"none", "pass", "asks", "other", "stop"}
    /\ phase \in {"running", "stopping", "down"}
    /\ alarm \in Nat /\ asked \in BOOLEAN
    /\ pass.stage \in {"idle", "next", "steps"} /\ pass.alarm \in Nat
    /\ pass.count \in Nat /\ pass.count < Passes
    /\ \A id \in DOMAIN sent : id \in wired /\ sent[id] \in Nat

\* No number past the cap goes on the wire, and no lease ran that never was there.
Numbering ==
    /\ \A id \in wired \cup pass.sends : id.attempt \in Nat /\ id.attempt <= Attempts
    /\ \A i \in 1..Len(log) :
          log[i].type = "lease" /\ log[i].phase = "running" => log[i].id \in wired

\* A lease that runs was claimed off the wire.
LEMMA RunsOnWire ==
    ASSUME Serial, Numbering, NEW id \in DOMAIN room.leases, room.leases[id].phase = "running"
    PROVE  id \in wired
<1>0. heard \in 0..Len(log) /\ Len(log) \in Nat /\ Leased(log, heard, room)
  BY RoomIs, RulesAssumption
<1>1. LeaseIs(log, heard, room.cancelledAt, id, room.leases[id])
  BY <1>0 DEF Leased
<1>2. PICK i \in 1..heard : log[i].type = "lease" /\ log[i].id = id /\ log[i].phase = "running"
  BY <1>1 DEF LeaseIs, LastLease
<1>3. i \in 1..Len(log)
  BY <1>0
<1>. QED BY <1>2, <1>3 DEF Numbering

\* What a pass sends is under the cap.
LEMMA SendsCapped ==
    ASSUME Serial, NEW id \in Sends
    PROVE  id.attempt \in Nat /\ id.attempt <= Attempts
<1>1. PICK d \in Due(room) : ~Capped(d) /\ id = d.id
  BY DEF Sends, Owing
<1>2. id.attempt \in Nat /\ ~(id.attempt > Attempts)
  BY <1>1, DueIsNext DEF Owable, Capped
<1>. QED BY <1>2, RulesAssumption DEF RulesAssumption

\* Spending anything but a tick leaves the clock's count.
LEMMA PaidMeters == ASSUME Metered, Paid, now' = now PROVE Metered'
<1>1. CASE UNCHANGED left
  BY <1>1 DEF Metered
<1>2. ASSUME NEW op \in Ops \ {"tick"}, Spend(op) PROVE Metered'
  <2>1. left[op] \in Nat \ {0} /\ left' = [left EXCEPT ![op] = @ - 1] /\ "tick" \in Ops
    BY <1>2 DEF Metered, Spend, Ops
  <2>2. left[op] - 1 \in Nat
    BY <2>1
  <2>3. left' \in [Ops -> Nat] /\ left'["tick"] = left["tick"]
    BY <2>1, <2>2 DEF Metered
  <2>. QED BY <2>3 DEF Metered
<1>. QED BY <1>1, <1>2 DEF Paid

\* Every step keeps the counters within their bounds.
LEMMA MeteredKeeps == ASSUME Metered, [Next]_vars PROVE Metered'
<1>1. Contributed => Metered'
  BY PaidMeters DEF Contributed, Contribution, Land
<1>2. /\ UNCHANGED left => Paid
      /\ \A op \in {"stop", "lose", "fault", "crash", "recast"} : Spend(op) => Paid
  BY DEF Paid, Ops
<1>3. ASSUME Stop \/ LoseAnswer \/ StepFails \/ Crash \/ Restart PROVE Metered'
  <2>1. Paid /\ now' = now
    BY <1>2, <1>3 DEF Stop, LoseAnswer, StepFails, Crash, Restart, Compose
  <2>. QED BY <2>1, PaidMeters
<1>4. ASSUME Confirm \/ Hear \/ Plan \/ StepWrites \/ StepWritesNothing \/ Send \/ AlarmRings
             \/ StopRevokes \/ StopLeaves \/ StopEnds \/ Resume
      PROVE  Metered'
  <2>1. UNCHANGED left /\ now' = now
    BY <1>4 DEF Confirm, Hear, Plan, StepWrites, StepWritesNothing, Send, AlarmRings, Land,
                StopRevokes, StopLeaves, StopEnds, Resume, Compose
  <2>. QED BY <1>2, <2>1, PaidMeters
<1>5. ASSUME Tick PROVE Metered'
  <2>1. left["tick"] \in Nat \ {0} /\ "tick" \in Ops /\ "resend" \in Ops /\ now' = now + 1
    BY <1>5 DEF Metered, Tick, Ops
  <2>2. \/ left' = [left EXCEPT !["tick"] = @ - 1]
        \/ left["resend"] > 0 /\ left' = [left EXCEPT !["resend"] = @ - 1, !["tick"] = @ - 1]
    BY <1>5 DEF Tick, Spend
  <2>3. left["resend"] \in Nat
    BY <2>1 DEF Metered
  <2>4. left' \in [Ops -> Nat] /\ left'["tick"] = left["tick"] - 1
    <3>1. CASE left' = [left EXCEPT !["tick"] = @ - 1]
      BY <2>1, <3>1 DEF Metered
    <3>2. CASE left["resend"] > 0 /\ left' = [left EXCEPT !["resend"] = @ - 1, !["tick"] = @ - 1]
      <4>1. left["resend"] - 1 \in Nat /\ left["tick"] - 1 \in Nat
        BY <2>1, <2>3, <3>2
      <4>. QED BY <2>1, <3>2, <4>1 DEF Metered
    <3>. QED BY <2>2, <3>1, <3>2
  <2>. QED BY <2>1, <2>4 DEF Metered
<1>6. ASSUME UNCHANGED vars PROVE Metered'
  BY <1>6 DEF vars, Metered
<1>. QED BY <1>1, <1>3, <1>4, <1>5, <1>6, PeopleContribute, SeatsContribute DEF Next, Machine

\* The end of a pass keeps the memory of a run in its bounds.
LEMMA FinishRemembers ==
    ASSUME Remembers, now \in Nat, NEW p, p.count \in Nat, p.alarm \in Nat,
           NEW keeps, \A id \in DOMAIN keeps : id \in wired /\ keeps[id] \in Nat,
           SendAndFinish(p, keeps), UNCHANGED <<flight, phase>>, asked' \in BOOLEAN
    PROVE  Remembers'
<1>. DEFINE going == {id \in p.sends : Granted(room, id)}
<1>1. /\ wired' = wired \cup going
      /\ sent' = [id \in DOMAIN keeps \cup going |-> IF id \in going THEN now ELSE keeps[id]]
      /\ \/ /\ p.count + 1 < Passes /\ alarm' = alarm
            /\ pass' = [NoPass EXCEPT !.stage = "next", !.count = p.count + 1]
         \/ pass' = NoPass /\ (alarm' = now + Resend \/ alarm' = p.alarm)
  BY DEF SendAndFinish
<1>. HIDE DEF going
<1>2. \A id \in DOMAIN sent' : id \in wired' /\ sent'[id] \in Nat
  BY <1>1
<1>3. now + Resend \in Nat /\ 0 < Passes
  BY RulesAssumption, RoomAssumption DEF RulesAssumption, RoomAssumption
<1>4. alarm' \in Nat
  BY <1>1, <1>3 DEF Remembers
<1>5. /\ pass'.stage \in {"idle", "next", "steps"} /\ pass'.alarm \in Nat
      /\ pass'.count \in Nat /\ pass'.count < Passes
  <2>1. CASE pass' = NoPass
    BY <1>3, <2>1 DEF NoPass
  <2>. DEFINE q == [NoPass EXCEPT !.stage = "next", !.count = p.count + 1]
  <2>2. q.stage = "next" /\ q.alarm = 0 /\ q.count = p.count + 1
    BY DEF NoPass
  <2>3. pass' = NoPass \/ (p.count + 1 < Passes /\ pass' = q)
    BY <1>1
  <2>. HIDE DEF q
  <2>4. CASE p.count + 1 < Passes /\ pass' = q
    BY <2>2, <2>4
  <2>. QED BY <2>1, <2>3, <2>4
<1>. QED BY <1>2, <1>4, <1>5 DEF Remembers

\* Every step keeps what a run holds in memory.
LEMMA RemembersKeeps ==
    ASSUME Serial, Planned, Remembers, [Next]_vars
    PROVE  Remembers'
<1>0. /\ now \in Nat /\ now + Resend \in Nat /\ 0 < Passes
      /\ pass.count \in Nat /\ pass.count < Passes /\ pass.alarm \in Nat /\ alarm \in Nat
      /\ \A id \in DOMAIN sent : id \in wired /\ sent[id] \in Nat
  BY RulesAssumption, RoomAssumption DEF RulesAssumption, RoomAssumption, Serial, Remembers
<1>1. ASSUME NEW by \in {"pass", "asks", "other", "stop"}, NEW e, Land(by, e) PROVE Remembers'
  BY <1>1 DEF Land, memory, Remembers
<1>n. NoPass.stage = "idle" /\ NoPass.alarm = 0 /\ NoPass.count = 0
  BY DEF NoPass
<1>2. ASSUME wired' = wired, flight' = flight \/ flight' = "none",
             phase' \in {"running", "stopping", "down"}, alarm' \in Nat, asked' \in BOOLEAN,
             sent' = sent \/ sent' = [id \in {} |-> 0],
             pass' = pass \/ pass' = NoPass
      PROVE  Remembers'
  <2>1. \A id \in DOMAIN sent' : id \in wired' /\ sent'[id] \in Nat
    BY <1>0, <1>2
  <2>2. /\ pass'.stage \in {"idle", "next", "steps"} /\ pass'.alarm \in Nat
        /\ pass'.count \in Nat /\ pass'.count < Passes
    BY <1>0, <1>2, <1>n DEF Remembers
  <2>. QED BY <1>2, <2>1, <2>2 DEF Remembers
<1>3. ASSUME NEW asks, Hearing(asks)
      PROVE  asked' \in BOOLEAN /\ (sent' = sent \/ sent' = [id \in {} |-> 0])
  BY <1>3 DEF Hearing
<1>t. ASSUME NEW x, NEW q, q = [pass EXCEPT !.steps = Tail(@), !.changed = x]
      PROVE  q.stage = pass.stage /\ q.alarm = pass.alarm /\ q.count = pass.count
  BY <1>t DEF Planned, NoPass
<1>4. ASSUME Confirm PROVE Remembers'
  <2>1. /\ UNCHANGED <<wired, phase, alarm>> /\ flight' = "none"
        /\ \E asks : Hearing(asks)
        /\ pass' = pass \/ pass' = [pass EXCEPT !.steps = Tail(@), !.changed = TRUE]
    BY <1>4 DEF Confirm
  <2>2. asked' \in BOOLEAN /\ (sent' = sent \/ sent' = [id \in {} |-> 0])
    BY <1>3, <2>1
  <2>3. pass'.stage = pass.stage /\ pass'.alarm = pass.alarm /\ pass'.count = pass.count
    BY <1>t, <2>1
  <2>4. \A id \in DOMAIN sent' : id \in wired' /\ sent'[id] \in Nat
    BY <1>0, <2>1, <2>2
  <2>. QED BY <2>1, <2>2, <2>3, <2>4 DEF Remembers
<1>5. ASSUME StepWritesNothing PROVE Remembers'
  <2>1. /\ UNCHANGED <<wired, phase, alarm, flight, asked, sent>>
        /\ \E x : pass' = [pass EXCEPT !.steps = Tail(@), !.changed = x]
    BY <1>5 DEF StepWritesNothing
  <2>2. pass'.stage = pass.stage /\ pass'.alarm = pass.alarm /\ pass'.count = pass.count
    BY <1>t, <2>1
  <2>. QED BY <2>1, <2>2 DEF Remembers
<1>k. \A id \in DOMAIN Kept : id \in wired /\ Kept[id] \in Nat
  BY <1>0 DEF Kept
<1>6. ASSUME Plan PROVE Remembers'
  <2>. DEFINE p == [stage |-> "steps", steps |-> Steps, sends |-> Sends,
                    alarm |-> NextAlarm, changed |-> FALSE, count |-> pass.count]
  <2>1. UNCHANGED <<flight, phase>> /\ asked' \in BOOLEAN
    BY <1>6 DEF Plan
  <2>2. SendAndFinish(p, Kept) \/ (pass' = p /\ sent' = Kept /\ UNCHANGED <<alarm, wired>>)
    BY <1>6 DEF Plan
  <2>3. NextAlarm \in Nat
    BY <1>0, AlarmInTime
  <2>4. p.stage = "steps" /\ p.count = pass.count /\ p.alarm \in Nat
    BY <2>3
  <2>. HIDE DEF p
  <2>5. CASE SendAndFinish(p, Kept)
    <3>1. p.count \in Nat
      BY <1>0, <2>4
    <3>. QED BY <1>0, <1>k, <2>1, <2>4, <2>5, <3>1, FinishRemembers
  <2>6. CASE pass' = p /\ sent' = Kept /\ UNCHANGED <<alarm, wired>>
    BY <1>0, <1>k, <2>1, <2>4, <2>6 DEF Remembers
  <2>. QED BY <2>2, <2>5, <2>6
<1>7. ASSUME Send PROVE Remembers'
  <2>1. SendAndFinish(pass, sent) /\ UNCHANGED <<flight, phase, asked>>
    BY <1>7 DEF Send
  <2>2. asked' \in BOOLEAN
    BY <2>1 DEF Remembers
  <2>. QED BY <1>0, <2>1, <2>2, FinishRemembers
<1>8. ASSUME Contributed \/ StepWrites \/ StopRevokes \/ StopLeaves PROVE Remembers'
  BY <1>1, <1>8 DEF Contributed, Contribution, StepWrites, StopRevokes, StopLeaves
<1>9. ASSUME Hear PROVE Remembers'
  <2>1. /\ UNCHANGED <<wired, phase, alarm, flight, pass>> /\ Hearing(FALSE)
    BY <1>9 DEF Hear
  <2>. QED BY <1>2, <1>3, <2>1 DEF Remembers
<1>f. ASSUME wired' = wired, flight' = flight \/ flight' = "none", Forget("down") PROVE Remembers'
  <2>1. /\ phase' = "down" /\ alarm' = 0 /\ asked' = FALSE /\ pass' = NoPass
        /\ sent' = [id \in {} |-> 0]
    BY <1>f DEF Forget
  <2>2. alarm' \in Nat /\ asked' \in BOOLEAN /\ phase' \in {"running", "stopping", "down"}
    BY <2>1
  <2>. QED BY <1>2, <1>f, <2>1, <2>2
<1>10. ASSUME Stop \/ StopEnds \/ Crash \/ LoseAnswer \/ StepFails \/ AlarmRings PROVE Remembers'
  <2>1. CASE Stop
    <3>1. /\ pass' = Queued /\ phase' = "stopping" /\ alarm' = 0
          /\ UNCHANGED <<flight, sent, asked, wired>>
      BY <2>1 DEF Stop
    <3>2. /\ pass'.stage \in {"idle", "next", "steps"} /\ pass'.alarm \in Nat
          /\ pass'.count \in Nat /\ pass'.count < Passes
      BY <1>0, <1>n, <3>1, QueuedIs DEF Remembers
    <3>. QED BY <1>0, <3>1, <3>2 DEF Remembers
  <2>2. CASE StopEnds \/ Crash
    BY <1>f, <2>2 DEF StopEnds, Crash
  <2>3. CASE LoseAnswer
    <3>1. CASE flight = "stop"
      BY <1>f, <2>3, <3>1 DEF LoseAnswer
    <3>2. CASE flight # "stop"
      <4>1. /\ UNCHANGED <<wired, phase, sent, asked>> /\ flight' = "none"
            /\ pass' = pass \/ pass' = NoPass
            /\ alarm' \in {alarm, now + Resend, 0}
        BY <2>3, <3>2 DEF LoseAnswer
      <4>2. alarm' \in Nat
        BY <1>0, <4>1
      <4>. QED BY <1>2, <4>1, <4>2 DEF Remembers
    <3>. QED BY <3>1, <3>2
  <2>4. CASE StepFails
    BY <1>0, <1>2, <2>4 DEF StepFails, Remembers
  <2>5. CASE AlarmRings
    BY <1>2, <2>5 DEF AlarmRings, Remembers
  <2>. QED BY <1>10, <2>1, <2>2, <2>3, <2>4, <2>5
<1>11. ASSUME Tick \/ Restart \/ Resume \/ UNCHANGED vars PROVE Remembers'
  <2>1. CASE Tick \/ UNCHANGED vars
    BY <2>1 DEF Tick, vars, memory, Remembers
  <2>2. CASE Restart \/ Resume
    BY <1>0, <1>2, <2>2 DEF Restart, Resume, Compose, Remembers
  <2>. QED BY <1>11, <2>1, <2>2
<1>. QED BY <1>4, <1>5, <1>6, <1>7, <1>8, <1>9, <1>10, <1>11, PeopleContribute, SeatsContribute
         DEF Next, Machine

\* Nothing past the cap gets on the wire, and no entry says that it ran.
LEMMA NumberingKeeps ==
    ASSUME Serial, Numbering, [Next]_vars
    PROVE  Numbering'
<1>0. Len(log) \in Nat /\ IsSequence(log)
  BY SequenceGrows DEF Serial, Sound
<1>1. ASSUME wired \subseteq wired', \A id \in wired' \cup pass'.sends : id \in wired \cup pass.sends \cup Sends
      PROVE  Numbering'
  <2>1. \A id \in wired' \cup pass'.sends : id.attempt \in Nat /\ id.attempt <= Attempts
    BY <1>1, SendsCapped DEF Numbering
  <2>2. ASSUME NEW e, log' = Append(log, e), Claims(e)
        PROVE  \A i \in 1..Len(log') : log'[i].type = "lease" /\ log'[i].phase = "running"
                                          => log'[i].id \in wired'
    <3>1. /\ Len(log') = Len(log) + 1 /\ \A k \in 1..Len(log) : log'[k] = log[k]
          /\ log'[Len(log) + 1] = e
      BY <1>0, <2>2, SequenceGrows
    <3>2. \A i \in 1..Len(log') : i \in 1..Len(log) \/ i = Len(log) + 1
      BY <1>0, <3>1
    <3>3. e.type = "lease" /\ e.phase = "running" => e.id \in wired
      BY <2>2, RunsOnWire DEF Claims
    <3>. QED BY <1>1, <3>1, <3>2, <3>3 DEF Numbering
  <2>3. CASE log' = log
    BY <1>1, <2>1, <2>3 DEF Numbering
  <2>. QED BY <2>1, <2>2, <2>3, NextWrites DEF Numbering, Writes
<1>2. ASSUME wired' = wired, pass' = pass \/ pass' = NoPass PROVE Numbering'
  BY <1>1, <1>2 DEF NoPass
<1>3. ASSUME NEW p, NEW keeps, SendAndFinish(p, keeps), p.sends \subseteq pass.sends \cup Sends
      PROVE  Numbering'
  <2>1. wired \subseteq wired' /\ \A id \in wired' : id \in wired \/ id \in p.sends
    BY <1>3 DEF SendAndFinish
  <2>. DEFINE q == [NoPass EXCEPT !.stage = "next", !.count = p.count + 1]
  <2>2. q.sends = {} /\ NoPass.sends = {}
    BY DEF NoPass
  <2>3. pass' = NoPass \/ pass' = q
    BY <1>3 DEF SendAndFinish
  <2>. HIDE DEF q
  <2>4. pass'.sends = {}
    BY <2>2, <2>3
  <2>. QED BY <1>1, <1>3, <2>1, <2>4
<1>4. ASSUME Contributed \/ StepWrites \/ StopRevokes \/ StopLeaves \/ Hear \/ AlarmRings \/ Tick
             \/ UNCHANGED vars
      PROVE  Numbering'
  <2>1. wired' = wired /\ pass' = pass
    BY <1>4 DEF Contributed, Contribution, Land, StepWrites, StopRevokes, StopLeaves, Hear,
                AlarmRings, Tick, vars, memory
  <2>. QED BY <1>2, <2>1
<1>s. ASSUME Stop PROVE Numbering'
  <2>1. wired' = wired /\ pass' = Queued
    BY <1>s DEF Stop
  <2>2. [pass EXCEPT !.steps = <<Head(@)>>].sends = pass.sends /\ NoPass.sends = {}
    BY DEF NoPass
  <2>3. Queued = [pass EXCEPT !.steps = <<Head(@)>>] \/ Queued = NoPass
    BY DEF Queued
  <2>4. pass'.sends \subseteq pass.sends
    BY <2>1, <2>2, <2>3
  <2>. QED BY <1>1, <2>1, <2>4
<1>5. ASSUME StopEnds \/ Crash \/ LoseAnswer \/ StepFails \/ Restart \/ Resume PROVE Numbering'
  <2>1. wired' = wired /\ (pass' = pass \/ pass' = NoPass)
    BY <1>5 DEF StopEnds, Crash, LoseAnswer, StepFails, Restart, Resume, Compose, Forget
  <2>. QED BY <1>2, <2>1
<1>6. ASSUME Confirm \/ StepWritesNothing PROVE Numbering'
  <2>1. /\ wired' = wired
        /\ pass' = pass \/ \E x : pass' = [pass EXCEPT !.steps = Tail(@), !.changed = x]
    BY <1>6 DEF Confirm, StepWritesNothing
  <2>2. \A x : [pass EXCEPT !.steps = Tail(@), !.changed = x].sends = pass.sends
    OBVIOUS
  <2>3. pass'.sends = pass.sends
    BY <2>1, <2>2
  <2>. QED BY <1>1, <2>1, <2>3
<1>7. ASSUME Plan PROVE Numbering'
  <2>. DEFINE p == [stage |-> "steps", steps |-> Steps, sends |-> Sends,
                    alarm |-> NextAlarm, changed |-> FALSE, count |-> pass.count]
  <2>1. SendAndFinish(p, Kept) \/ (pass' = p /\ wired' = wired)
    BY <1>7 DEF Plan
  <2>2. p.sends = Sends
    OBVIOUS
  <2>. HIDE DEF p
  <2>3. CASE SendAndFinish(p, Kept)
    BY <1>3, <2>2, <2>3
  <2>4. CASE pass' = p /\ wired' = wired
    BY <1>1, <2>2, <2>4
  <2>. QED BY <2>1, <2>3, <2>4
<1>8. ASSUME Send PROVE Numbering'
  BY <1>3, <1>8 DEF Send
<1>. QED BY <1>s, <1>4, <1>5, <1>6, <1>7, <1>8, PeopleContribute, SeatsContribute DEF Next, Machine

\* What a run has in memory stays in its bounds: no attempt past the cap is on the wire
\* or runs, a reconcile stays under its passes, the room remembers only wakes it sent.
THEOREM TypesHold == Spec => []TypeOK
<1>1. Init => Metered /\ Remembers /\ Numbering
  <2>. SUFFICES ASSUME Init PROVE Metered /\ Remembers /\ Numbering
    OBVIOUS
  <2>1. Metered
    <3>1. Budget["tick"] \in Nat
      BY RoomAssumption DEF RoomAssumption, Ops
    <3>. QED BY <3>1, RoomAssumption DEF Init, Metered, RoomAssumption
  <2>2. Remembers
    <3>1. 0 \in Nat /\ 0 < Passes
      BY RoomAssumption DEF RoomAssumption
    <3>. QED BY <3>1 DEF Init, Remembers, NoPass
  <2>3. Numbering
    <3>1. wired = {} /\ pass.sends = {}
      BY DEF Init, NoPass
    <3>2. \A i \in 1..Len(log) : log[i].type # "lease"
      BY InitSerial, RoomAssumption
    <3>. QED BY <3>1, <3>2 DEF Numbering
  <2>. QED BY <2>1, <2>2, <2>3
<1>2. Serial /\ Quiet /\ Planned /\ Metered /\ Remembers /\ Numbering /\ [Next]_vars
        => (Metered /\ Remembers /\ Numbering)'
  BY MeteredKeeps, RemembersKeeps, NumberingKeeps
<1>3. Serial /\ Metered /\ Remembers /\ Numbering => TypeOK
  <2>. SUFFICES ASSUME Serial, Metered, Remembers, Numbering PROVE TypeOK
    OBVIOUS
  <2>0. /\ heard \in 0..Len(log) /\ Len(log) \in Nat /\ Formed(log, heard, room)
        /\ Numbered(heard, room)
    BY RoomIs, Numbers, RulesAssumption DEF Serial
  <2>1. now \in 1..Budget["tick"] + 1
    <3>1. left["tick"] \in Nat /\ Budget["tick"] \in Nat
      BY RoomAssumption DEF Metered, RoomAssumption, Ops
    <3>. QED BY <3>1 DEF Metered
  <2>2. DOMAIN room.leases \subseteq LeaseId
    <3>1. 1..heard \subseteq Places
      BY <2>0 DEF Places
    <3>2. \A id \in DOMAIN room.leases :
             id \in [source : {"message", "closed"}, position : 1..heard, seat : Seat,
                     attempt : Nat \ {0}]
      BY <2>0 DEF Numbered
    <3>. QED BY <3>1, <3>2 DEF LeaseId
  <2>3. \A d \in Due(room) : d.id \in LeaseId
    <3>1. room.lastSeq \in 0..Len(log)
      BY <2>0 DEF Formed
    <3>2. 1..room.lastSeq \subseteq Places
      BY <2>0, <3>1 DEF Places
    <3>. QED BY <3>2, DueIsNext DEF Owable, LeaseId
  <2>4. \A id \in wired \cup RunningLeases : id.attempt <= Attempts
    BY RunsOnWire DEF RunningLeases, Numbering
  <2>5. DOMAIN sent \subseteq wired
    BY DEF Remembers
  <2>. QED BY <2>0, <2>1, <2>2, <2>3, <2>4, <2>5 DEF TypeOK, Remembers, Metered
<1>. QED BY <1>1, <1>2, <1>3, SerialAlways, PTL DEF Spec

=============================================================================
