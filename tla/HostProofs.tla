----------------------------- MODULE HostProofs -----------------------------
(***************************************************************************)
(* Theorems about what a host does around a room, whatever fails: its      *)
(* deliveries (Wire.tla), the room as a Durable Object (RoomObject.tla)    *)
(* and the seat as one (SeatObject.tla).  They hold of the specification   *)
(* the runs check (MCHost.tla), which runs the parts of a host beside each *)
(* other.  The parts share no state, so a step of one leaves the           *)
(* invariants of the others alone.                                         *)
(***************************************************************************)
EXTENDS MCHost, FiniteSetTheorems, TLAPS

-----------------------------------------------------------------------------
(* Deliveries *)

\* The delivery state of a key is about the newest send of it.
AboutNewest(k) ==
    \A n \in DOMAIN calls : calls[n].key = k =>
        /\ calls[n].token <= state[k].token
        /\ calls[n].token = state[k].token <=> W!Newest(n)

\* While the activation is owed or live, the state remembers a failure as long as the
\* outage lasts, and that is what keeps the host from being told again.
Tracked(k) ==
    /\ stage[k[2]] = "none" => state[k] = W!NoState /\ ~outage[k] /\ told[k] = 0
    /\ W!Active(stage, k[2]) =>
          /\ AboutNewest(k)
          /\ outage[k] <=> state[k].failed
          /\ told[k] = IF outage[k] THEN 1 ELSE 0

SendState == [token : Nat, pending : BOOLEAN, failed : BOOLEAN]

Delivery == [key : W!Key, token : Nat, end : {"open", "worked", "failed"}]

\* Only activations the room has come to owe are sent for.
WireTypes ==
    /\ stage \in [Act -> {"none", "due", "running", "ended"}]
    /\ state \in [W!Key -> SendState]
    /\ calls \in Seq(Delivery)
    /\ sends \in Seq(W!Key)
    /\ outage \in [W!Key -> BOOLEAN] /\ told \in [W!Key -> Nat] /\ evicted \in BOOLEAN
    /\ \A i \in DOMAIN sends : stage[sends[i][2]] # "none"
    /\ \A n \in DOMAIN calls : stage[calls[n].key[2]] # "none"

Deliveries == WireTypes /\ (~evicted => \A k \in W!Key : Tracked(k))

\* The record moves on: what the activation owed or ran is dropped with its states.
LEMMA HeardDelivers ==
    ASSUME Deliveries, NEW a \in Act, NEW to \in {"due", "running", "ended"},
           NEW es \in {<<>>, <<<<"steer", a>>>>, <<<<"cut", a>>>>},
           IF stage[a] = "none" THEN to = "due" ELSE W!Active(stage, a), W!Heard(a, to, es)
    PROVE  Deliveries'
<1>1. /\ stage' = [stage EXCEPT ![a] = to] /\ ~evicted /\ evicted' = evicted /\ sends' = es
      /\ calls' = calls /\ outage' = outage /\ told' = told
      /\ state' = [k \in W!Key |-> IF W!Active(stage', k[2]) THEN state[k] ELSE W!NoState]
  BY DEF W!Heard, W!Pruned
<1>2. \A k \in W!Key : k[2] \in Act
  BY DEF W!Key
<1>3. \A b \in Act : stage'[b] = IF b = a THEN to ELSE stage[b]
  BY <1>1 DEF Deliveries, WireTypes
<1>4. WireTypes'
  <2>0. W!NoState \in SendState
    BY DEF W!NoState, SendState
  <2>1. state' \in [W!Key -> SendState]
    BY <1>1, <2>0 DEF Deliveries, WireTypes
  <2>2. sends' \in Seq(W!Key) /\ \A i \in DOMAIN sends' : stage'[sends'[i][2]] # "none"
    <3>1. <<"steer", a>> \in W!Key /\ <<"cut", a>> \in W!Key /\ stage'[a] # "none"
      BY <1>3 DEF W!Key, W!Operation
    <3>2. CASE es = <<>>
      BY <1>1, <3>2
    <3>3. CASE es = <<<<"steer", a>>>> \/ es = <<<<"cut", a>>>>
      BY <1>1, <3>1, <3>3
    <3>. QED BY <3>2, <3>3
  <2>3. stage' \in [Act -> {"none", "due", "running", "ended"}]
    BY <1>1 DEF Deliveries, WireTypes
  <2>4. \A n \in DOMAIN calls : calls[n].key[2] \in Act
    <3>1. \A n \in DOMAIN calls : calls[n] \in Delivery
      BY DEF Deliveries, WireTypes
    <3>. QED BY <1>2, <3>1 DEF Delivery
  <2>. QED BY <1>1, <1>3, <2>1, <2>2, <2>3, <2>4 DEF Deliveries, WireTypes
<1>5. ASSUME NEW k \in W!Key PROVE Tracked(k)'
  <2>1. Tracked(k) /\ k[2] \in Act
    BY <1>1, <1>2 DEF Deliveries
  <2>2. CASE stage'[k[2]] = "none"
    <3>1. stage[k[2]] = "none" /\ ~W!Active(stage', k[2])
      BY <1>3, <2>1, <2>2 DEF W!Active
    <3>2. state'[k] = W!NoState
      BY <1>1, <3>1
    <3>. QED BY <1>1, <2>1, <2>2, <3>1, <3>2 DEF Tracked
  <2>3. CASE W!Active(stage', k[2])
    <3>1. state'[k] = state[k] /\ stage'[k[2]] # "none"
      BY <1>1, <2>3 DEF W!Active
    <3>2. CASE W!Active(stage, k[2])
      BY <1>1, <2>1, <3>1, <3>2 DEF Tracked, AboutNewest, W!Newest
    <3>3. CASE ~W!Active(stage, k[2])
      <4>1. stage[k[2]] = "none"
        BY <1>3, <2>1, <2>3, <3>3 DEF W!Active, Deliveries, WireTypes
      <4>2. \A n \in DOMAIN calls : calls[n].key # k
        BY <4>1 DEF Deliveries, WireTypes
      <4>3. ~state[k].failed /\ ~outage[k] /\ told[k] = 0
        BY <2>1, <4>1 DEF Tracked, W!NoState, Deliveries, WireTypes
      <4>. QED BY <1>1, <2>1, <3>1, <4>2, <4>3 DEF Tracked, AboutNewest
    <3>. QED BY <3>2, <3>3
  <2>. QED BY <2>2, <2>3 DEF Tracked
<1>. QED BY <1>4, <1>5 DEF Deliveries

\* One delivery: one that is still unanswered has failed, and the host hears it once.
LEMMA DispatchDelivers ==
    ASSUME Deliveries, NEW k \in W!Key, ~evicted, evicted' = evicted, stage' = stage,
           stage[k[2]] # "none", W!Dispatch(k),
           sends' \in Seq(W!Key), \A i \in DOMAIN sends' : stage[sends'[i][2]] # "none"
    PROVE  Deliveries'
<1>. DEFINE prior == IF W!Active(stage, k[2]) THEN state[k] ELSE W!NoState
            overtaken == prior.pending /\ ~prior.failed
            next == [token |-> prior.token + 1, pending |-> TRUE,
                     failed |-> prior.failed \/ overtaken]
            pruned == [q \in W!Key |-> IF W!Active(stage, q[2]) THEN state[q] ELSE W!NoState]
<1>1. prior \in SendState
  BY DEF Deliveries, WireTypes, W!NoState, SendState
<1>2. pruned[k] = prior
  OBVIOUS
<1>3. /\ state' = [pruned EXCEPT ![k] = next]
      /\ calls' = Append(calls, [key |-> k, token |-> prior.token + 1, end |-> "open"])
      /\ outage' = [outage EXCEPT ![k] = @ \/ prior.pending]
      /\ told' = IF overtaken THEN [told EXCEPT ![k] = @ + 1] ELSE told
  BY <1>2 DEF W!Dispatch, W!Pruned, W!Tells
<1>4. next \in SendState
  BY <1>1 DEF SendState
<1>5. /\ state'[k] = next
      /\ \A q \in W!Key \ {k} : state'[q] = IF W!Active(stage, q[2]) THEN state[q] ELSE W!NoState
  BY <1>3
<1>6. /\ outage'[k] <=> (outage[k] \/ prior.pending)
      /\ told'[k] = IF overtaken THEN told[k] + 1 ELSE told[k]
      /\ \A q \in W!Key \ {k} : outage'[q] = outage[q] /\ told'[q] = told[q]
  BY <1>3 DEF Deliveries, WireTypes
<1>7. /\ Len(calls') = Len(calls) + 1 /\ Len(calls) \in Nat
      /\ DOMAIN calls = 1..Len(calls) /\ DOMAIN calls' = 1..Len(calls')
      /\ \A n \in 1..Len(calls) : calls'[n] = calls[n]
      /\ calls'[Len(calls) + 1] = [key |-> k, token |-> prior.token + 1, end |-> "open"]
  BY <1>3 DEF Deliveries, WireTypes
<1>8. WireTypes'
  <2>1. state' \in [W!Key -> SendState]
    BY <1>3, <1>4 DEF Deliveries, WireTypes, W!NoState, SendState
  <2>2. calls' \in Seq(Delivery)
    <3>1. [key |-> k, token |-> prior.token + 1, end |-> "open"] \in Delivery
      BY <1>1 DEF Delivery, SendState
    <3>. QED BY <1>3, <3>1 DEF Deliveries, WireTypes
  <2>3. outage' \in [W!Key -> BOOLEAN] /\ told' \in [W!Key -> Nat]
    BY <1>1, <1>3 DEF Deliveries, WireTypes
  <2>4. ASSUME NEW n \in DOMAIN calls' PROVE stage[calls'[n].key[2]] # "none"
    <3>1. CASE n \in 1..Len(calls)
      BY <1>7, <3>1 DEF Deliveries, WireTypes
    <3>2. CASE n = Len(calls) + 1
      BY <1>7, <3>2
    <3>. QED BY <1>7, <3>1, <3>2
  <2>. QED BY <2>1, <2>2, <2>3, <2>4 DEF Deliveries, WireTypes
<1>. HIDE DEF prior, next, pruned
<1>9. ASSUME NEW q \in W!Key \ {k} PROVE Tracked(q)'
  <2>1. Tracked(q)
    BY DEF Deliveries
  <2>2. ASSUME W!Active(stage, q[2]) PROVE AboutNewest(q)'
    <3>1. state'[q] = state[q] /\ AboutNewest(q)
      BY <1>5, <2>1, <2>2 DEF Tracked
    <3>2. ASSUME NEW n \in 1..Len(calls), calls[n].key = q
          PROVE  W!Newest(n)' <=> W!Newest(n)
      BY <1>7, <3>2 DEF W!Newest
    <3>. QED BY <1>7, <3>1, <3>2 DEF AboutNewest
  <2>3. stage[q[2]] = "none" => state[q] = W!NoState /\ ~W!Active(stage, q[2])
    BY <2>1 DEF Tracked, W!Active
  <2>. QED BY <1>5, <1>6, <2>1, <2>2, <2>3 DEF Tracked
<1>10. Tracked(k)'
  <2>. SUFFICES ASSUME W!Active(stage, k[2])
                PROVE  /\ AboutNewest(k)' /\ (outage'[k] <=> next.failed)
                       /\ told'[k] = IF outage'[k] THEN 1 ELSE 0
    BY <1>5 DEF Tracked
  <2>1. Tracked(k) /\ prior = state[k] /\ AboutNewest(k)
    BY DEF Deliveries, Tracked, prior
  <2>2. AboutNewest(k)'
    <3>1. ASSUME NEW n \in 1..Len(calls), calls[n].key = k PROVE ~W!Newest(n)'
      BY <1>7, <3>1 DEF W!Newest
    <3>2. \A n \in 1..Len(calls) : calls[n].key = k => calls[n].token <= prior.token
      BY <1>7, <2>1 DEF AboutNewest
    <3>3. \A n \in DOMAIN calls' : n = Len(calls) + 1 => W!Newest(n)'
      BY <1>7 DEF W!Newest
    <3>4. \A n \in 1..Len(calls) : calls[n].token \in Nat
      <4>1. calls \in Seq(Delivery)
        BY DEF Deliveries, WireTypes
      <4>2. \A n \in 1..Len(calls) :
               calls[n] \in Delivery
        BY <1>7, <4>1
      <4>. QED BY <4>2 DEF Delivery
    <3>5. next.token = prior.token + 1 /\ prior.token \in Nat
      BY <1>1 DEF next, SendState
    <3>. SUFFICES ASSUME NEW n \in DOMAIN calls', calls'[n].key = k
                  PROVE  /\ calls'[n].token <= next.token
                         /\ calls'[n].token = next.token <=> W!Newest(n)'
      BY <1>5 DEF AboutNewest
    <3>6. CASE n \in 1..Len(calls)
      <4>1. calls'[n] = calls[n] /\ calls[n].token \in Nat /\ calls[n].token <= prior.token
        BY <1>7, <3>2, <3>4, <3>6
      <4>. QED BY <1>7, <3>1, <3>5, <3>6, <4>1
    <3>7. CASE n = Len(calls) + 1
      BY <1>7, <3>3, <3>5, <3>7
    <3>. QED BY <1>7, <3>6, <3>7
  <2>3. (outage[k] <=> prior.failed) /\ told[k] = IF outage[k] THEN 1 ELSE 0
    BY <2>1 DEF Tracked
  <2>4. next.failed <=> (prior.failed \/ (prior.pending /\ ~prior.failed))
    BY DEF next
  <2>5. prior.failed \in BOOLEAN /\ prior.pending \in BOOLEAN /\ outage[k] \in BOOLEAN
    BY <1>1 DEF Deliveries, WireTypes, SendState
  <2>6. outage'[k] <=> next.failed
    BY <1>6, <2>3, <2>4, <2>5
  <2>7. told'[k] = IF outage'[k] THEN 1 ELSE 0
    BY <1>6, <2>3, <2>5
  <2>. QED BY <2>2, <2>6, <2>7
<1>. QED BY <1>8, <1>9, <1>10 DEF Deliveries

\* An answer counts only when it is for the newest send; it ends the outage, or is it.
LEMMA AnswerDelivers ==
    ASSUME Deliveries, NEW n \in DOMAIN calls, NEW k, k = calls[n].key, W!Works(n) \/ W!Fails(n)
    PROVE  Deliveries'
<1>1. /\ stage' = stage /\ evicted' = evicted /\ sends' = sends
      /\ \E end \in {"worked", "failed"} : calls' = [calls EXCEPT ![n].end = end]
  BY DEF W!Works, W!Fails
<1>2. /\ k \in W!Key /\ DOMAIN calls = 1..Len(calls) /\ Len(calls) \in Nat
      /\ \A m \in DOMAIN calls : calls[m] \in Delivery
  <2>1. calls \in Seq(Delivery)
    BY DEF Deliveries, WireTypes
  <2>2. \A m \in DOMAIN calls : calls[m] \in Delivery
    BY <2>1
  <2>. QED BY <2>1, <2>2 DEF Delivery
<1>3. /\ DOMAIN calls' = DOMAIN calls
      /\ \A m \in DOMAIN calls : calls'[m].key = calls[m].key /\ calls'[m].token = calls[m].token
  BY <1>1, <1>2
<1>4. \A m \in DOMAIN calls : W!Newest(m)' <=> W!Newest(m)
  BY <1>3 DEF W!Newest
<1>5. /\ \A q \in W!Key : state'[q].token = state[q].token
      /\ \A q \in W!Key \ {k} : state'[q] = state[q] /\ outage'[q] = outage[q] /\ told'[q] = told[q]
      /\ state' \in [W!Key -> SendState]
      /\ outage' \in [W!Key -> BOOLEAN] /\ told' \in [W!Key -> Nat]
  <2>0. /\ state \in [W!Key -> SendState] /\ state[k] \in SendState
        /\ outage \in [W!Key -> BOOLEAN] /\ told \in [W!Key -> Nat]
    BY <1>2 DEF Deliveries, WireTypes
  <2>1. /\ state' = state \/ \E failed \in BOOLEAN :
                                state' = [state EXCEPT ![k].pending = FALSE, ![k].failed = failed]
        /\ outage' = outage \/ \E x \in BOOLEAN : outage' = [outage EXCEPT ![k] = x]
        /\ told' = told \/ \E x \in Nat : told' = [told EXCEPT ![k] = x]
    <3>1. CASE W!Works(n)
      BY <3>1 DEF W!Works
    <3>2. CASE W!Fails(n)
      <4>1. told[k] + 1 \in Nat /\ (outage[k] \/ W!Newest(n)) \in BOOLEAN
        BY <1>2, <2>0
      <4>2. /\ state' = state \/ state' = [state EXCEPT ![k].pending = FALSE, ![k].failed = TRUE]
            /\ outage' = [outage EXCEPT ![k] = outage[k] \/ W!Newest(n)]
            /\ told' = told \/ told' = [told EXCEPT ![k] = told[k] + 1]
        BY <3>2 DEF W!Fails, W!Tells
      <4>. QED BY <4>1, <4>2
    <3>. QED BY <3>1, <3>2
  <2>2. /\ outage' \in [W!Key -> BOOLEAN] /\ told' \in [W!Key -> Nat]
        /\ \A q \in W!Key \ {k} : outage'[q] = outage[q] /\ told'[q] = told[q]
    <3>1. outage' \in [W!Key -> BOOLEAN] /\ \A q \in W!Key \ {k} : outage'[q] = outage[q]
      BY <2>0, <2>1
    <3>2. told' \in [W!Key -> Nat] /\ \A q \in W!Key \ {k} : told'[q] = told[q]
      BY <2>0, <2>1
    <3>. QED BY <3>1, <3>2
  <2>3. /\ state' \in [W!Key -> SendState]
        /\ \A q \in W!Key \ {k} : state'[q] = state[q]
        /\ state'[k].token = state[k].token
    <3>1. CASE state' = state
      BY <1>2, <2>0, <3>1
    <3>2. ASSUME NEW failed \in BOOLEAN,
                 state' = [state EXCEPT ![k].pending = FALSE, ![k].failed = failed]
          PROVE  /\ state' \in [W!Key -> SendState]
                 /\ \A q \in W!Key \ {k} : state'[q] = state[q]
                 /\ state'[k].token = state[k].token
      <4>. DEFINE r == [state[k] EXCEPT !.pending = FALSE, !.failed = failed]
      <4>1. r \in SendState /\ r.token = state[k].token
        BY <2>0 DEF SendState
      <4>2. state' = [state EXCEPT ![k] = r]
        BY <1>2, <2>0, <3>2
      <4>. HIDE DEF r
      <4>. QED BY <1>2, <2>0, <4>1, <4>2
    <3>. QED BY <2>1, <3>1, <3>2
  <2>. QED BY <2>2, <2>3
<1>6. WireTypes'
  <2>1. calls' \in Seq(Delivery)
    <3>1. PICK end \in {"worked", "failed"} : calls' = [calls EXCEPT ![n].end = end]
      BY <1>1
    <3>2. [calls[n] EXCEPT !.end = end] \in Delivery
      BY <1>2 DEF Delivery
    <3>. QED BY <3>1, <3>2 DEF Deliveries, WireTypes
  <2>. QED BY <1>1, <1>3, <1>5, <2>1 DEF Deliveries, WireTypes
<1>7. ASSUME ~evicted, NEW q \in W!Key \ {k} PROVE Tracked(q)'
  <2>1. Tracked(q)
    BY <1>7 DEF Deliveries
  <2>. QED BY <1>1, <1>3, <1>4, <1>5, <2>1 DEF Tracked, AboutNewest
<1>8. ASSUME ~evicted PROVE Tracked(k)'
  <2>1. Tracked(k) /\ stage[k[2]] # "none"
    BY <1>2, <1>8 DEF Deliveries, WireTypes
  <2>2. ASSUME W!Active(stage, k[2])
        PROVE  (outage'[k] <=> state'[k].failed) /\ told'[k] = IF outage'[k] THEN 1 ELSE 0
    <3>1. /\ W!IsCurrent(n) <=> W!Newest(n)
          /\ (outage[k] <=> state[k].failed) /\ told[k] = IF outage[k] THEN 1 ELSE 0
      <4>1. AboutNewest(k)
        BY <2>1, <2>2 DEF Tracked
      <4>. QED BY <2>1, <2>2, <4>1 DEF Tracked, AboutNewest, W!IsCurrent
    <3>2. /\ state[k] \in SendState
          /\ outage[k] \in BOOLEAN
      BY <1>2 DEF Deliveries, WireTypes
    <3>3. CASE W!Works(n)
      <4>1. CASE W!Newest(n)
        <5>1. /\ state' = [state EXCEPT ![k].pending = FALSE, ![k].failed = FALSE]
              /\ outage' = [outage EXCEPT ![k] = FALSE] /\ told' = [told EXCEPT ![k] = 0]
          BY <3>1, <3>3, <4>1 DEF W!Works
        <5>2. ~state'[k].failed /\ ~outage'[k] /\ told'[k] = 0
          BY <1>2, <5>1 DEF Deliveries, WireTypes
        <5>. QED BY <5>2
      <4>2. CASE ~W!Newest(n)
        BY <3>1, <3>3, <4>2 DEF W!Works
      <4>. QED BY <4>1, <4>2
    <3>4. CASE W!Fails(n)
      <4>1. CASE W!Newest(n)
        <5>1. /\ state' = [state EXCEPT ![k].pending = FALSE, ![k].failed = TRUE]
              /\ outage' = [outage EXCEPT ![k] = @ \/ W!Newest(n)]
              /\ told' = IF state[k].failed THEN told ELSE [told EXCEPT ![k] = @ + 1]
          BY <1>8, <2>2, <3>1, <3>4, <4>1 DEF W!Fails, W!Tells
        <5>2. state'[k].failed /\ outage'[k]
          <6>1. state \in [W!Key -> SendState] /\ outage \in [W!Key -> BOOLEAN] /\ k \in W!Key
            BY <1>2 DEF Deliveries, WireTypes
          <6>2. state'[k].failed
            BY <5>1, <6>1 DEF SendState
          <6>. QED BY <4>1, <5>1, <6>1, <6>2
        <5>3. told'[k] = IF state[k].failed THEN told[k] ELSE told[k] + 1
          BY <1>2, <5>1 DEF Deliveries, WireTypes
        <5>4. CASE state[k].failed
          BY <3>1, <5>2, <5>3, <5>4
        <5>5. CASE ~state[k].failed
          BY <3>1, <5>2, <5>3, <5>5
        <5>. QED BY <5>4, <5>5
      <4>2. CASE ~W!Newest(n)
        <5>1. state' = state /\ told' = told /\ outage' = [outage EXCEPT ![k] = @ \/ W!Newest(n)]
          BY <3>1, <3>4, <4>2 DEF W!Fails
        <5>2. outage'[k] = outage[k]
          BY <1>2, <3>2, <4>2, <5>1 DEF Deliveries, WireTypes
        <5>. QED BY <3>1, <5>1, <5>2
      <4>. QED BY <4>1, <4>2
    <3>. QED BY <3>3, <3>4
  <2>3. W!Active(stage, k[2]) => AboutNewest(k)'
    BY <1>2, <1>3, <1>4, <1>5, <2>1 DEF Tracked, AboutNewest
  <2>. QED BY <1>1, <2>1, <2>2, <2>3 DEF Tracked
<1>. QED BY <1>1, <1>6, <1>7, <1>8 DEF Deliveries

\* A step of the host is a step of the deliveries or leaves them alone.
LEMMA WireMoves == ASSUME [HostNext]_<<part, vars, wire, seatObject, roomObject, executor, compose>>
                   PROVE  W!Next \/ UNCHANGED wire
  BY DEF HostNext, wire

\* Whatever the room sends and however late or in whatever order it is answered, the
\* host is told once of an outage (dispatch in room-run/dispatch.ts).
THEOREM OutagesToldOnce == HostSpec => []OutageToldOnce
<1>1. HostInit => Deliveries
  <2>. SUFFICES ASSUME HostInit PROVE Deliveries
    OBVIOUS
  <2>1. /\ stage = [a \in Act |-> "none"] /\ state = [k \in W!Key |-> W!NoState]
        /\ sends = <<>> /\ calls = <<>> /\ evicted = FALSE
        /\ outage = [k \in W!Key |-> FALSE] /\ told = [k \in W!Key |-> 0]
    BY DEF HostInit, W!Init
  <2>2. WireTypes
    <3>1. W!NoState \in SendState
      BY DEF W!NoState, SendState
    <3>2. stage \in [Act -> {"none", "due", "running", "ended"}] /\ state \in [W!Key -> SendState]
      BY <2>1, <3>1
    <3>3. outage \in [W!Key -> BOOLEAN] /\ told \in [W!Key -> Nat] /\ evicted \in BOOLEAN
      BY <2>1
    <3>4. calls \in Seq(Delivery) /\ sends \in Seq(W!Key) /\ DOMAIN calls = {} /\ DOMAIN sends = {}
      BY <2>1
    <3>. QED BY <3>2, <3>3, <3>4 DEF WireTypes
  <2>3. ASSUME NEW k \in W!Key PROVE Tracked(k)
    <3>1. k[2] \in Act
      BY DEF W!Key
    <3>. QED BY <2>1, <3>1 DEF Tracked, W!Active
  <2>. QED BY <2>2, <2>3 DEF Deliveries
<1>2. ASSUME Deliveries, [HostNext]_<<part, vars, wire, seatObject, roomObject, executor, compose>>
      PROVE  Deliveries'
  <2>1. CASE UNCHANGED wire
    BY <1>2, <2>1 DEF wire, Deliveries, WireTypes, Tracked, AboutNewest, W!Newest
  <2>2. ASSUME NEW a \in Act, W!Owed(a) \/ W!Claimed(a) \/ W!MessageLands(a) \/ W!Ends(a)
        PROVE  Deliveries'
    <3>2. CASE W!Owed(a)
      BY <1>2, <3>2, HeardDelivers DEF W!Owed
    <3>3. CASE W!Claimed(a)
      BY <1>2, <3>3, HeardDelivers DEF W!Claimed, W!Active
    <3>4. CASE W!MessageLands(a)
      BY <1>2, <3>4, HeardDelivers DEF W!MessageLands, W!Active
    <3>5. CASE W!Ends(a)
      <4>1. W!Active(stage, a) /\ \E es \in {<<>>, <<<<"cut", a>>>>} : W!Heard(a, "ended", es)
        BY <3>5 DEF W!Ends
      <4>. QED BY <1>2, <4>1, HeardDelivers DEF W!Active
    <3>. QED BY <2>2, <3>2, <3>3, <3>4, <3>5
  <2>3. ASSUME NEW a \in Act, W!SendWake(a) PROVE Deliveries'
    <3>1. <<"wake", a>> \in W!Key
      BY DEF W!Key, W!Operation
    <3>. QED BY <1>2, <2>3, <3>1, DispatchDelivers DEF W!SendWake, Deliveries, WireTypes
  <2>4. CASE W!Publishes
    <3>1. /\ sends \in Seq(W!Key) /\ sends # <<>> /\ sends' = Tail(sends)
          /\ \A i \in DOMAIN sends : stage[sends[i][2]] # "none"
      BY <1>2, <2>4 DEF W!Publishes, Deliveries, WireTypes
    <3>2. Head(sends) \in W!Key /\ stage[Head(sends)[2]] # "none" /\ sends' \in Seq(W!Key)
      BY <3>1
    <3>3. \A i \in DOMAIN sends' : stage[sends'[i][2]] # "none"
      BY <3>1
    <3>4. CASE evicted
      BY <1>2, <2>4, <3>2, <3>3, <3>4 DEF W!Publishes, Deliveries, WireTypes
    <3>5. CASE ~evicted
      BY <1>2, <2>4, <3>2, <3>3, <3>5, DispatchDelivers DEF W!Publishes
    <3>. QED BY <3>4, <3>5
  <2>5. CASE W!Evict
    <3>1. W!NoState \in SendState
      BY DEF W!NoState, SendState
    <3>2. state' \in [W!Key -> SendState]
      BY <2>5, <3>1 DEF W!Evict
    <3>. QED BY <1>2, <2>5, <3>2 DEF W!Evict, Deliveries, WireTypes
  <2>. QED BY <1>2, <2>1, <2>2, <2>3, <2>4, <2>5, AnswerDelivers, WireMoves DEF W!Next
<1>3. Deliveries => OutageToldOnce
  BY DEF Deliveries, Tracked, OutageToldOnce, W!OutageToldOnce
<1>. QED BY <1>1, <1>2, <1>3, PTL DEF HostSpec

-----------------------------------------------------------------------------
(* The room as a Durable Object *)

RunOfRoom == [how : {"start", "resume"},
              pc : {"fences", "composes", "reconciles", "started", "failed"},
              phase : {"running", "stopped", "evicted"}, stops : BOOLEAN]

Starting(r) == run[r].pc \in {"fences", "composes", "reconciles"}

RegistryTypes ==
    /\ run \in Seq(RunOfRoom)
    /\ running \in 0..Len(run) /\ room \in 0..Len(run)
    /\ object \in {"down", "building", "up"}

\* A run that starts holds the name alone, nothing is stopped, and no other has fenced it.
StartsAlone ==
    \A r \in 1..Len(run) : Starting(r) =>
        /\ run[r].phase = "running" /\ running = r /\ room = 0 /\ ~stopped
        /\ run[r].pc # "fences" => fence = r
        /\ run[r].pc = "reconciles" => composed

\* A run that is up holds the name and the fence until it is asked to stop.
UpHolds ==
    \A r \in 1..Len(run) :
        /\ run[r].pc = "started" /\ run[r].phase = "running" => running = r /\ fence = r /\ composed
        /\ run[r].stops => run[r].phase # "running"

\* The name is held by a run that starts, or by the one the object has.
NameIsOurs ==
    /\ running # 0 => Starting(running) \/ (run[running].pc = "started" /\ room = running)
    /\ room # 0 => object = "up" /\ run[room].pc = "started"
    /\ object = "down" => running = 0

\* What the object told last is what its storage says.
WordIsStored ==
    /\ word = "started" => composed /\ ~stopped
    /\ word = "stopped" => stopped

Registry == RegistryTypes /\ StartsAlone /\ UpHolds /\ NameIsOurs /\ WordIsStored /\ R!LastWordKept

\* One run goes on, the others stay.
LEMMA RunGoesOn ==
    ASSUME run \in Seq(RunOfRoom), NEW r \in DOMAIN run, NEW f \in RunOfRoom,
           run' = [run EXCEPT ![r] = f]
    PROVE  /\ run' \in Seq(RunOfRoom) /\ Len(run') = Len(run) /\ r \in 1..Len(run)
           /\ run'[r] = f /\ run[r] \in RunOfRoom
           /\ \A q \in 1..Len(run) : q # r => run'[q] = run[q]
  OBVIOUS

\* A new run takes a name that is free while the object holds no room.
LEMMA OpensKeeps ==
    ASSUME Registry, NEW how \in {"start", "resume"}, R!Opens(how), running = 0, room = 0, ~stopped',
           object' \in {"building", "up"}, room' = room, fence' = fence, composed' = composed,
           word' = "open" \/ (word' = word /\ object' = "building"), stopped' = stopped \/ word' = "open"
    PROVE  Registry'
<1>. DEFINE new == [how |-> how, pc |-> "fences", phase |-> "running", stops |-> FALSE]
<1>1. run' = Append(run, new) /\ running' = Len(run) + 1
  BY DEF R!Opens
<1>2. new \in RunOfRoom /\ new.pc = "fences" /\ new.phase = "running" /\ ~new.stops
  BY DEF RunOfRoom
<1>. HIDE DEF new
<1>3. /\ run \in Seq(RunOfRoom) /\ Len(run) \in Nat
      /\ run' \in Seq(RunOfRoom) /\ Len(run') = Len(run) + 1 /\ run'[Len(run) + 1] = new
      /\ \A r \in 1..Len(run) : run'[r] = run[r]
  BY <1>1, <1>2 DEF Registry, RegistryTypes
<1>4. \A r \in 1..Len(run') : r \in 1..Len(run) \/ r = Len(run) + 1
  BY <1>3
<1>5. \A r \in 1..Len(run) : ~Starting(r) /\ ~(run[r].pc = "started" /\ run[r].phase = "running")
  BY <1>3 DEF Registry, StartsAlone, UpHolds
<1>6. RegistryTypes'
  BY <1>1, <1>3 DEF Registry, RegistryTypes
<1>7. StartsAlone' /\ UpHolds'
  BY <1>1, <1>2, <1>3, <1>4, <1>5 DEF StartsAlone, UpHolds, Starting, Registry
<1>8. NameIsOurs'
  BY <1>1, <1>2, <1>3 DEF NameIsOurs, Starting
<1>9. WordIsStored' /\ R!LastWordKept'
  BY DEF Registry, WordIsStored, R!LastWordKept
<1>. QED BY <1>6, <1>7, <1>8, <1>9 DEF Registry

\* A start that failed frees the name; whether its write landed is open.
LEMMA StartFailsKeeps ==
    ASSUME Registry, NEW r \in DOMAIN run, Starting(r), running = r, room = 0,
           run' = [run EXCEPT ![r].pc = "failed"], R!StartFails(r),
           room' = room
    PROVE  Registry'
<1>. DEFINE f == [run[r] EXCEPT !.pc = "failed"]
<1>0. run \in Seq(RunOfRoom) /\ run[r] \in RunOfRoom
  BY DEF Registry, RegistryTypes
<1>1. f \in RunOfRoom /\ f.pc = "failed" /\ f.phase = run[r].phase /\ f.stops = run[r].stops
  BY <1>0 DEF RunOfRoom
<1>2. run' = [run EXCEPT ![r] = f]
  OBVIOUS
<1>. HIDE DEF f
<1>3. /\ run' \in Seq(RunOfRoom) /\ Len(run') = Len(run) /\ run'[r] = f /\ r \in 1..Len(run)
      /\ \A q \in 1..Len(run) : q # r => run'[q] = run[q]
  BY <1>0, <1>1, <1>2, RunGoesOn
<1>4. running' = 0 /\ object' \in {"down", object} /\ word' = "open"
  BY DEF R!StartFails, R!Freed
<1>5. \A q \in 1..Len(run) : ~Starting(q)' /\ ~(run'[q].pc = "started" /\ run'[q].phase = "running")
  BY <1>1, <1>3 DEF Registry, StartsAlone, UpHolds, Starting
<1>6. StartsAlone' /\ UpHolds'
  BY <1>1, <1>3, <1>5 DEF StartsAlone, UpHolds, Registry
<1>. QED BY <1>3, <1>4, <1>6 DEF Registry, RegistryTypes, NameIsOurs, WordIsStored, R!LastWordKept

\* A step of the host is a step of the room's object or leaves it alone.
LEMMA RoomObjectMoves ==
    ASSUME [HostNext]_<<part, vars, wire, seatObject, roomObject, executor, compose>>
    PROVE  R!Next \/ UNCHANGED roomObject
  BY DEF HostNext, roomObject

\* A run at work holds its name, and the next object keeps what the last one told its
\* caller (room-object.ts start, stop; runtime.ts release).
THEOREM RegistryAlwaysAgrees == HostSpec => []RegistryAgrees
<1>1. HostInit => Registry
  <2>. SUFFICES ASSUME HostInit PROVE Registry
    OBVIOUS
  <2>1. running = 0 /\ run = <<>> /\ room = 0 /\ word = "none" /\ object = "down"
    BY DEF HostInit, R!Init
  <2>2. Len(run) = 0 /\ run \in Seq(RunOfRoom)
    BY <2>1
  <2>. QED BY <2>1, <2>2 DEF Registry, RegistryTypes, StartsAlone, UpHolds, NameIsOurs, WordIsStored,
                             R!LastWordKept
<1>2. ASSUME Registry, R!Next PROVE Registry'
  <2>0. /\ run \in Seq(RunOfRoom) /\ Len(run) \in Nat /\ DOMAIN run = 1..Len(run)
        /\ \A r \in 1..Len(run) : run[r] \in RunOfRoom
        /\ running \in 0..Len(run) /\ room \in 0..Len(run)
    BY <1>2 DEF Registry, RegistryTypes
  <2>1. ASSUME NEW r \in DOMAIN run, R!Fences(r) PROVE Registry'
    <3>1. Starting(r) /\ running = r /\ room = 0 /\ ~stopped
      BY <1>2, <2>0, <2>1 DEF R!Fences, Starting, Registry, StartsAlone
    <3>2. ASSUME run' = [run EXCEPT ![r].pc = "composes"], fence' = r, UNCHANGED <<running, object, word>>
          PROVE  Registry'
      <4>. DEFINE f == [run[r] EXCEPT !.pc = "composes"]
      <4>1. f \in RunOfRoom /\ f.pc = "composes" /\ f.phase = run[r].phase /\ f.stops = run[r].stops
        BY <2>0 DEF RunOfRoom
      <4>2. run' = [run EXCEPT ![r] = f]
        BY <3>2
      <4>. HIDE DEF f
      <4>3. /\ run' \in Seq(RunOfRoom) /\ Len(run') = Len(run) /\ run'[r] = f /\ r \in 1..Len(run)
            /\ \A q \in 1..Len(run) : q # r => run'[q] = run[q]
        BY <2>0, <4>1, <4>2, RunGoesOn
      <4>4. composed' = composed /\ stopped' = stopped /\ room' = room
        BY <2>1 DEF R!Fences
      <4>. QED BY <1>2, <3>1, <3>2, <4>1, <4>3, <4>4 DEF Registry, RegistryTypes, StartsAlone, UpHolds,
                  NameIsOurs, WordIsStored, R!LastWordKept, R!In, Starting
    <3>3. ASSUME run' = [run EXCEPT ![r].pc = "failed"], R!StartFails(r) PROVE Registry'
      BY <1>2, <2>0, <2>1, <3>1, <3>3, StartFailsKeeps DEF R!Fences
    <3>. QED BY <2>1, <3>2, <3>3 DEF R!Fences
  <2>2. ASSUME NEW r \in DOMAIN run, R!Composes(r) PROVE Registry'
    <3>1. Starting(r) /\ running = r /\ room = 0 /\ ~stopped /\ fence = r
      BY <1>2, <2>0, <2>2 DEF R!Composes, Starting, Registry, StartsAlone
    <3>2. ASSUME run' = [run EXCEPT ![r].pc = "reconciles"], composed' = TRUE,
                 UNCHANGED <<running, object, word>>
          PROVE  Registry'
      <4>. DEFINE f == [run[r] EXCEPT !.pc = "reconciles"]
      <4>1. f \in RunOfRoom /\ f.pc = "reconciles" /\ f.phase = run[r].phase /\ f.stops = run[r].stops
        BY <2>0 DEF RunOfRoom
      <4>2. run' = [run EXCEPT ![r] = f]
        BY <3>2
      <4>. HIDE DEF f
      <4>3. /\ run' \in Seq(RunOfRoom) /\ Len(run') = Len(run) /\ run'[r] = f /\ r \in 1..Len(run)
            /\ \A q \in 1..Len(run) : q # r => run'[q] = run[q]
        BY <2>0, <4>1, <4>2, RunGoesOn
      <4>4. fence' = fence /\ stopped' = stopped /\ room' = room
        BY <2>2 DEF R!Composes
      <4>. QED BY <1>2, <3>1, <3>2, <4>1, <4>3, <4>4 DEF Registry, RegistryTypes, StartsAlone, UpHolds,
                  NameIsOurs, WordIsStored, R!LastWordKept, R!In, Starting
    <3>3. ASSUME run' = [run EXCEPT ![r].pc = "failed"], R!StartFails(r) PROVE Registry'
      BY <1>2, <2>0, <2>2, <3>1, <3>3, StartFailsKeeps DEF R!Composes
    <3>. QED BY <2>2, <3>2, <3>3 DEF R!Composes
  <2>3. ASSUME NEW r \in DOMAIN run, R!Starts(r) PROVE Registry'
    <3>1. /\ Starting(r) /\ running = r /\ room = 0 /\ ~stopped /\ fence = r /\ composed
          /\ run[r].phase = "running"
      BY <1>2, <2>0, <2>3 DEF R!Starts, Starting, Registry, StartsAlone
    <3>. DEFINE f == [run[r] EXCEPT !.pc = "started"]
    <3>2. f \in RunOfRoom /\ f.pc = "started" /\ f.phase = run[r].phase /\ f.stops = run[r].stops
      BY <2>0 DEF RunOfRoom
    <3>3. run' = [run EXCEPT ![r] = f]
      BY <2>3 DEF R!Starts
    <3>. HIDE DEF f
    <3>4. /\ run' \in Seq(RunOfRoom) /\ Len(run') = Len(run) /\ run'[r] = f /\ r \in 1..Len(run)
          /\ \A q \in 1..Len(run) : q # r => run'[q] = run[q]
      BY <2>0, <3>2, <3>3, RunGoesOn
    <3>5. /\ room' = r /\ object' = "up" /\ word' \in {"started", word}
          /\ UNCHANGED <<fence, composed, stopped, running>>
      BY <2>3 DEF R!Starts
    <3>. QED BY <1>2, <3>1, <3>2, <3>4, <3>5 DEF Registry, RegistryTypes, StartsAlone, UpHolds,
                NameIsOurs, WordIsStored, R!LastWordKept, R!In, Starting
  <2>4. ASSUME NEW r \in DOMAIN run, R!Hears(r) PROVE Registry'
    <3>1. ~Starting(r) /\ (run[r].pc = "started" => run[r].phase # "running")
      BY <1>2, <2>0, <2>4 DEF R!Hears, R!Superseded, Starting, Registry, StartsAlone, UpHolds
    <3>. DEFINE f == [run[r] EXCEPT !.phase = "evicted"]
    <3>2. f \in RunOfRoom /\ f.pc = run[r].pc /\ f.phase = "evicted" /\ f.stops = run[r].stops
      BY <2>0 DEF RunOfRoom
    <3>3. run' = [run EXCEPT ![r] = f]
      BY <2>4 DEF R!Hears
    <3>. HIDE DEF f
    <3>4. /\ run' \in Seq(RunOfRoom) /\ Len(run') = Len(run) /\ run'[r] = f /\ r \in 1..Len(run)
          /\ \A q \in 1..Len(run) : q # r => run'[q] = run[q]
      BY <2>0, <3>2, <3>3, RunGoesOn
    <3>5. /\ running' = IF running = r THEN 0 ELSE running
          /\ UNCHANGED <<fence, composed, stopped, object, room, word>>
      BY <2>4 DEF R!Hears, R!Freed
    <3>. QED BY <1>2, <3>1, <3>2, <3>4, <3>5 DEF Registry, RegistryTypes, StartsAlone, UpHolds,
                NameIsOurs, WordIsStored, R!LastWordKept, R!In, Starting
  <2>5. CASE R!Builds
    <3>1. CASE stopped \/ ~composed
      BY <1>2, <2>5, <3>1 DEF R!Builds, Registry, RegistryTypes, StartsAlone, UpHolds, NameIsOurs,
                              WordIsStored, R!LastWordKept, R!In, Starting
    <3>2. CASE ~(stopped \/ ~composed)
      BY <1>2, <2>5, <3>2, OpensKeeps DEF R!Builds, Registry, NameIsOurs
    <3>. QED BY <3>1, <3>2
  <2>6. CASE R!StartCalled
    <3>1. CASE running = 0
      BY <1>2, <2>6, <3>1, OpensKeeps DEF R!StartCalled, R!Cleared
    <3>2. CASE running # 0
      BY <1>2, <2>6, <3>2 DEF R!StartCalled, R!Cleared, Registry, RegistryTypes, StartsAlone, UpHolds,
                              NameIsOurs, WordIsStored, R!LastWordKept, R!In, Starting
    <3>. QED BY <3>1, <3>2
  <2>7. CASE R!StopCalled
    <3>. DEFINE f == [run[room] EXCEPT !.stops = TRUE, !.phase = "stopped"]
    <3>0. room \in 1..Len(run)
      BY <2>0, <2>7 DEF R!StopCalled
    <3>1. room \in DOMAIN run /\ f \in RunOfRoom /\ f.pc = run[room].pc /\ f.phase = "stopped"
      BY <2>0, <3>0 DEF RunOfRoom
    <3>2. run' = [run EXCEPT ![room] = f]
      BY <2>0, <2>7, <3>1 DEF R!StopCalled
    <3>. HIDE DEF f
    <3>3. /\ run' \in Seq(RunOfRoom) /\ Len(run') = Len(run) /\ run'[room] = f /\ room \in 1..Len(run)
          /\ \A q \in 1..Len(run) : q # room => run'[q] = run[q]
      BY <2>0, <3>1, <3>2, RunGoesOn
    <3>4. word' = "open" /\ UNCHANGED <<fence, composed, stopped, object, running, room>>
      BY <2>7 DEF R!StopCalled
    <3>. QED BY <1>2, <3>1, <3>3, <3>4 DEF Registry, RegistryTypes, StartsAlone, UpHolds,
                NameIsOurs, WordIsStored, R!LastWordKept, R!In, Starting
  <2>8. CASE R!StopEnds
    <3>. DEFINE f == [run[room] EXCEPT !.stops = FALSE]
    <3>0. room \in 1..Len(run) /\ run[room].stops
      BY <2>0, <2>8 DEF R!StopEnds
    <3>1. /\ room \in DOMAIN run /\ run[room].stops /\ f \in RunOfRoom /\ ~f.stops
          /\ f.pc = run[room].pc /\ f.phase = run[room].phase
      BY <2>0, <3>0 DEF RunOfRoom
    <3>2. run' = [run EXCEPT ![room] = f]
      BY <2>0, <2>8, <3>1 DEF R!StopEnds
    <3>. HIDE DEF f
    <3>3. /\ run' \in Seq(RunOfRoom) /\ Len(run') = Len(run) /\ run'[room] = f /\ room \in 1..Len(run)
          /\ \A q \in 1..Len(run) : q # room => run'[q] = run[q]
      BY <2>0, <3>1, <3>2, RunGoesOn
    <3>4. running \in {0, room} /\ run[room].phase # "running" /\ object = "up"
          /\ \A q \in 1..Len(run) : ~Starting(q)
      BY <1>2, <2>8, <3>1, <3>3 DEF R!StopEnds, Registry, UpHolds, NameIsOurs, StartsAlone, RegistryTypes
    <3>5. running' = 0 /\ UNCHANGED <<fence, composed, object>>
      BY <2>8, <3>4 DEF R!StopEnds, R!Freed
    <3>6. \/ stopped' = TRUE /\ room' = 0 /\ word' = "stopped"
          \/ UNCHANGED <<stopped, room, word>>
      BY <2>8 DEF R!StopEnds, R!Told
    <3>7. \A q \in 1..Len(run) : ~Starting(q)' /\ ~(run[q].pc = "started" /\ run[q].phase = "running")
      BY <1>2, <3>1, <3>3, <3>4 DEF Starting, Registry, UpHolds
    <3>8. word # "started"
      BY <1>2, <3>4, <2>8 DEF Registry, R!LastWordKept, R!In
    <3>9. StartsAlone' /\ UpHolds'
      BY <1>2, <3>1, <3>3, <3>7 DEF StartsAlone, UpHolds, Registry
    <3>10. RegistryTypes' /\ NameIsOurs'
      BY <1>2, <3>1, <3>3, <3>4, <3>5, <3>6 DEF Registry, RegistryTypes, NameIsOurs
    <3>11. WordIsStored' /\ R!LastWordKept'
      BY <1>2, <3>4, <3>5, <3>6, <3>8 DEF Registry, WordIsStored, R!LastWordKept, R!In
    <3>. QED BY <3>9, <3>10, <3>11 DEF Registry
  <2>9. CASE R!Evicts
    <3>1. /\ object' = "down" /\ running' = 0 /\ room' = 0 /\ UNCHANGED <<fence, composed, stopped, word>>
          /\ run' = [r \in DOMAIN run |->
                        [run[r] EXCEPT !.pc = "failed", !.phase = "evicted", !.stops = FALSE]]
      BY <2>9 DEF R!Evicts
    <3>2. /\ run' \in Seq(RunOfRoom) /\ Len(run') = Len(run)
          /\ \A r \in 1..Len(run) : run'[r].pc = "failed" /\ ~run'[r].stops
      <4>1. ASSUME NEW r \in 1..Len(run)
            PROVE  run'[r] \in RunOfRoom /\ run'[r].pc = "failed" /\ ~run'[r].stops
        BY <2>0, <3>1 DEF RunOfRoom
      <4>2. run' \in [1..Len(run) -> RunOfRoom]
        BY <2>0, <3>1, <4>1
      <4>3. run' \in Seq(RunOfRoom) /\ Len(run') = Len(run)
        BY <2>0, <4>2
      <4>. QED BY <4>1, <4>3
    <3>3. \A r \in 1..Len(run') : ~Starting(r)' /\ run'[r].pc # "started"
      BY <3>2 DEF Starting
    <3>4. StartsAlone' /\ UpHolds'
      BY <3>2, <3>3 DEF StartsAlone, UpHolds
    <3>5. RegistryTypes'
      <4>1. object' = "down" /\ running' = 0 /\ room' = 0
        BY <3>1
      <4>. QED BY <2>0, <3>2, <4>1 DEF RegistryTypes
    <3>. QED BY <1>2, <3>1, <3>4, <3>5 DEF Registry, NameIsOurs, WordIsStored, R!LastWordKept
  <2>. QED BY <1>2, <2>1, <2>2, <2>3, <2>4, <2>5, <2>6, <2>7, <2>8, <2>9 DEF R!Next
<1>3. ASSUME Registry, UNCHANGED roomObject PROVE Registry'
  BY <1>3 DEF roomObject, Registry, RegistryTypes, StartsAlone, UpHolds, NameIsOurs, WordIsStored,
              R!LastWordKept, R!In, Starting
<1>4. Registry => RegistryAgrees
  <2>. SUFFICES ASSUME Registry, NEW r \in DOMAIN run, run[r].phase = "running", run[r].pc # "failed"
                PROVE  running = r
    BY DEF Registry, RegistryAgrees, R!RegistryAgrees, R!NameIsHeld, R!In
  <2>1. r \in 1..Len(run) /\ run[r] \in RunOfRoom
    BY DEF Registry, RegistryTypes
  <2>2. Starting(r) \/ run[r].pc = "started"
    BY <2>1 DEF RunOfRoom, Starting
  <2>. QED BY <2>1, <2>2 DEF Registry, StartsAlone, UpHolds
<1>. QED BY <1>1, <1>2, <1>3, <1>4, RoomObjectMoves, PTL DEF HostSpec

-----------------------------------------------------------------------------
(* A seat as a Durable Object *)

\* A recovery that is on its way is one that the runner waits for, or one that came too
\* late; the alarm starts one only while the runner is idle.
Recovery ==
    /\ runner = [now |-> runner.now, pc |-> runner.pc, queue |-> runner.queue]
    /\ alarming = 0 => runner.pc = "none"
    /\ \A r \in requests : r = <<r[1], r[2]>>
    /\ \A a : <<"recover", a>> \in requests =>
          a \in excused \/ (runner.now = a /\ runner.pc = "recovers")
    /\ torn = {}

\* What the runner goes on with recovers nothing.
LEMMA GoesOnRecovers ==
    ASSUME Recovery, NEW asked, NEW confirmed, S!GoesOn(asked, confirmed), runner.pc # "none",
           \A r \in asked : r = <<r[1], r[2]>>,
           \A a : <<"recover", a>> \in asked => a \in excused',
           torn' = torn
    PROVE  Recovery'
<1>1. CASE runner.queue = <<>>
  BY <1>1 DEF S!GoesOn, S!HandlerEnds, S!Idle, Recovery
<1>2. CASE runner.queue # <<>>
  <2>1. /\ runner' = [now |-> Head(runner.queue), pc |-> "claims", queue |-> Tail(runner.queue)]
        /\ requests' = asked \cup {<<"claim", Head(runner.queue)>>} /\ alarming' = alarming
    BY <1>2 DEF S!GoesOn
  <2>2. runner'.pc = "claims" /\ runner' = [now |-> runner'.now, pc |-> runner'.pc, queue |-> runner'.queue]
    BY <2>1
  <2>3. /\ \A a : <<"recover", a>> \in requests' => <<"recover", a>> \in asked
        /\ \A r \in requests' : r = <<r[1], r[2]>>
    BY <2>1
  <2>4. alarming # 0
    BY DEF Recovery
  <2>. QED BY <2>1, <2>2, <2>3, <2>4 DEF Recovery
<1>. QED BY <1>1, <1>2

\* A step of the host is a step of the seat's object or leaves it alone.
LEMMA SeatObjectMoves ==
    ASSUME [HostNext]_<<part, vars, wire, seatObject, roomObject, executor, compose>>
    PROVE  S!Next \/ UNCHANGED seatObject
  BY DEF HostNext, seatObject

\* An alarm never recovers a run that goes on, as long as its calls come back in time
\* (alarm in cloudflare/src/seat-object.ts).
THEOREM RunsAreKept == HostSpec => []RunKept
<1>1. HostInit => Recovery
  <2>. SUFFICES ASSUME HostInit PROVE Recovery
    OBVIOUS
  <2>1. runner = [now |-> 0, pc |-> "none", queue |-> <<>>] /\ requests = {} /\ torn = {}
    BY DEF HostInit, S!Init, S!Idle
  <2>. QED BY <2>1 DEF Recovery
<1>2. ASSUME Recovery, S!Next PROVE Recovery'
  <2>1. ASSUME NEW a \in Act, S!Owes(a) \/ S!Sends(a) \/ S!Ends(a) PROVE Recovery'
    BY <1>2, <2>1 DEF S!Owes, S!Sends, S!Ends, S!object, Recovery
  <2>2. ASSUME NEW a \in Act, S!WakeArrives(a) PROVE Recovery'
    <3>1. /\ UNCHANGED <<requests, alarming, excused, torn>>
          /\ runner' = runner \/ runner' = [runner EXCEPT !.queue = Append(@, a)]
      BY <2>2 DEF S!WakeArrives
    <3>2. /\ runner'.now = runner.now /\ runner'.pc = runner.pc
          /\ runner' = [now |-> runner'.now, pc |-> runner'.pc, queue |-> runner'.queue]
      BY <1>2, <3>1 DEF Recovery
    <3>. QED BY <1>2, <3>1, <3>2 DEF Recovery
  <2>3. ASSUME NEW a \in Act, S!CutArrives(a) PROVE Recovery'
    <3>1. CASE runner.now = a /\ runner.pc \in {"claims", "works", "releases"}
      <4>. DEFINE asked == IF runner.pc = "works" THEN requests \cup {<<"release", a>>} ELSE requests
      <4>1. S!GoesOn(asked, TRUE) /\ excused' = excused /\ torn' = torn /\ runner.pc # "none"
        BY <2>3, <3>1 DEF S!CutArrives
      <4>2. /\ \A b : <<"recover", b>> \in asked => b \in excused'
            /\ \A r \in asked : r = <<r[1], r[2]>>
        BY <1>2, <3>1, <4>1 DEF Recovery
      <4>. HIDE DEF asked
      <4>. QED BY <1>2, <4>1, <4>2, GoesOnRecovers
    <3>2. CASE ~(runner.now = a /\ runner.pc \in {"claims", "works", "releases"})
      BY <1>2, <2>3, <3>2 DEF S!CutArrives, S!object, Recovery
    <3>. QED BY <3>1, <3>2
  <2>4. ASSUME NEW w \in wires, S!Drops(w) PROVE Recovery'
    BY <1>2, <2>4 DEF S!Drops, S!object, Recovery
  <2>5. ASSUME NEW r \in requests, S!Reaches(r) PROVE Recovery'
    <3>1. r[1] = "recover" /\ runner.now = r[2] /\ runner.pc = "works" => r[2] \in excused
      BY <1>2 DEF Recovery
    <3>2. torn' = torn /\ requests' = requests \ {r} /\ UNCHANGED <<runner, alarming, excused>>
      BY <2>5, <3>1 DEF S!Reaches, S!object
    <3>. QED BY <1>2, <3>2 DEF Recovery
  <2>6. CASE S!Claimed
    <3>1. CASE lease[runner.now] = "live"
      <4>1. /\ runner' = [runner EXCEPT !.pc = "works"] /\ runner.pc = "claims"
            /\ UNCHANGED <<requests, alarming, excused, torn>>
        BY <2>6, <3>1 DEF S!Claimed
      <4>2. runner' = [now |-> runner'.now, pc |-> runner'.pc, queue |-> runner'.queue]
        BY <1>2, <4>1 DEF Recovery
      <4>. QED BY <1>2, <4>1, <4>2 DEF Recovery
    <3>2. CASE lease[runner.now] # "live"
      <4>1. S!GoesOn(requests, TRUE) /\ runner.pc = "claims" /\ excused' = excused /\ torn' = torn
        BY <2>6, <3>2 DEF S!Claimed
      <4>2. \A a : <<"recover", a>> \in requests => a \in excused
        BY <1>2, <4>1 DEF Recovery
      <4>3. \A r \in requests : r = <<r[1], r[2]>>
        BY <1>2 DEF Recovery
      <4>. QED BY <1>2, <4>1, <4>2, <4>3, GoesOnRecovers
    <3>. QED BY <3>1, <3>2
  <2>7. CASE S!Works
    <3>1. /\ runner' = [runner EXCEPT !.pc = "releases"] /\ runner.pc = "works"
          /\ requests' = requests \cup {<<"release", runner.now>>} /\ UNCHANGED <<alarming, excused, torn>>
      BY <2>7 DEF S!Works, S!Asks
    <3>2. runner' = [now |-> runner'.now, pc |-> runner'.pc, queue |-> runner'.queue]
      BY <1>2, <3>1 DEF Recovery
    <3>. QED BY <1>2, <3>1, <3>2 DEF Recovery
  <2>8. CASE S!Released
    <3>1. /\ S!GoesOn(requests, TRUE) /\ runner.pc \in {"releases", "recovers"} /\ excused' = excused
          /\ torn' = torn /\ <<"recover", runner.now>> \notin requests
      BY <2>8 DEF S!Released
    <3>2. \A a : <<"recover", a>> \in requests => a \in excused
      BY <1>2, <3>1 DEF Recovery
    <3>3. \A r \in requests : r = <<r[1], r[2]>>
      BY <1>2 DEF Recovery
    <3>. QED BY <1>2, <3>1, <3>2, <3>3, GoesOnRecovers
  <2>9. CASE S!GivesUp
    <3>1. PICK lost \in SUBSET {r \in requests : r[2] = runner.now} :
             S!GoesOn(requests \ lost, FALSE)
      BY <2>9 DEF S!GivesUp
    <3>2. runner.pc # "none" /\ excused' = excused \cup {runner.now} /\ torn' = torn
      BY <2>9 DEF S!GivesUp
    <3>3. /\ \A a : <<"recover", a>> \in requests \ lost => a \in excused'
          /\ \A r \in requests \ lost : r = <<r[1], r[2]>>
      BY <1>2, <3>2 DEF Recovery
    <3>. QED BY <1>2, <3>1, <3>2, <3>3, GoesOnRecovers
  <2>10. CASE S!AlarmFires
    <3>1. excused' = excused /\ torn' = torn
      BY <2>10 DEF S!AlarmFires
    <3>2. CASE S!Busy \/ row.held = 0
      BY <1>2, <2>10, <3>1, <3>2 DEF S!AlarmFires, Recovery
    <3>3. CASE ~S!Busy /\ row.held # 0 /\ row.phase = "running"
      <4>1. /\ alarming' = row.held /\ runner.pc = "none"
            /\ runner' = [S!Idle EXCEPT !.now = row.held, !.pc = "recovers"]
            /\ requests' = requests \cup {<<"recover", row.held>>}
        BY <1>2, <2>10, <3>3 DEF S!AlarmFires, S!Busy, S!Asks, Recovery
      <4>2. runner' = [now |-> row.held, pc |-> "recovers", queue |-> <<>>]
        BY <4>1 DEF S!Idle
      <4>3. runner'.now = row.held /\ runner'.pc = "recovers" /\ alarming' # 0
            /\ runner' = [now |-> runner'.now, pc |-> runner'.pc, queue |-> runner'.queue]
        BY <3>3, <4>1, <4>2
      <4>4. \A r \in requests' : r = <<r[1], r[2]>>
        BY <1>2, <4>1 DEF Recovery
      <4>5. ASSUME NEW a, <<"recover", a>> \in requests'
            PROVE  a \in excused' \/ (runner'.now = a /\ runner'.pc = "recovers")
        <5>1. CASE <<"recover", a>> \in requests
          BY <1>2, <3>1, <4>1, <5>1 DEF Recovery
        <5>2. CASE a = row.held
          BY <4>3, <5>2
        <5>. QED BY <4>1, <4>5, <5>1, <5>2
      <4>6. torn' = {}
        BY <1>2, <3>1 DEF Recovery
      <4>. QED BY <4>3, <4>4, <4>5, <4>6 DEF Recovery
    <3>4. CASE ~S!Busy /\ row.held # 0 /\ row.phase # "running"
      <4>1. /\ alarming' = row.held /\ runner.pc = "none"
            /\ runner' = [now |-> row.held, pc |-> "claims", queue |-> <<>>]
            /\ requests' = requests \cup {<<"claim", row.held>>}
        BY <1>2, <2>10, <3>4 DEF S!AlarmFires, S!Busy, S!Takes, S!Asks, Recovery
      <4>. QED BY <1>2, <3>1, <3>4, <4>1 DEF Recovery
    <3>. QED BY <3>2, <3>3, <3>4
  <2>11. CASE S!Evicts
    <3>1. /\ runner' = [now |-> 0, pc |-> "none", queue |-> <<>>] /\ alarming' = 0
          /\ excused' = excused \cup {r[2] : r \in requests} /\ UNCHANGED <<requests, torn>>
      BY <2>11 DEF S!Evicts, S!Idle
    <3>2. \A a : <<"recover", a>> \in requests => a \in excused'
      BY <3>1
    <3>. QED BY <1>2, <3>1, <3>2 DEF Recovery
  <2>12. ASSUME NEW on \in BOOLEAN, S!Hold(on) PROVE Recovery'
    BY <1>2, <2>12 DEF S!Hold, Recovery
  <2>. QED BY <1>2, <2>1, <2>2, <2>3, <2>4, <2>5, <2>6, <2>7, <2>8, <2>9, <2>10, <2>11, <2>12
           DEF S!Next, S!Arrives, S!Runs
<1>3. ASSUME Recovery, UNCHANGED seatObject PROVE Recovery'
  BY <1>3 DEF seatObject, Recovery
<1>4. Recovery => RunKept
  BY DEF Recovery, RunKept, S!RunKept
<1>. QED BY <1>1, <1>2, <1>3, <1>4, SeatObjectMoves, PTL DEF HostSpec

=============================================================================
