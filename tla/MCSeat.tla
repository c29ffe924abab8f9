------------------------------- MODULE MCSeat -------------------------------
(***************************************************************************)
(* Seat.tla for TLC: one or two activations of one seat over a faulty      *)
(* wire, in scenes that each give the environment the operations one       *)
(* question needs.                                                         *)
(***************************************************************************)
EXTENDS Seat

Quiet == [wake |-> 1, duplicate |-> 0, lose |-> 0, tool |-> 0, fail |-> 0, other |-> 0, compose |-> 0,
          revoke |-> 0, crash |-> 0]

Scene(owes, broken, summary, horizon, ops) ==
    [owes |-> owes, broken |-> broken, summary |-> summary, horizon |-> horizon,
     spare |-> [op \in DOMAIN Quiet |-> IF op \in DOMAIN ops THEN ops[op] ELSE Quiet[op]]]

MCScenes ==
    { \* messages land and steer while the model reads and calls tools
      Scene({1}, {}, {}, 0, [tool |-> 1, other |-> 2]),
      Scene({1}, {}, {}, 0, [tool |-> 2, other |-> 1]),
      \* calls nested in a compose, whose result shows some of theirs
      Scene({1}, {}, {}, 0, [tool |-> 2, other |-> 1, compose |-> 1]),
      \* a cut in the middle of that, and calls by a pass that ignores it
      Scene({1}, {}, {}, 0, [tool |-> 2, other |-> 1, revoke |-> 1]),
      \* calls lost, late and sent again; renewals and the expiry of the lease
      Scene({1}, {}, {}, 0, [tool |-> 1, other |-> 1, lose |-> 2]),
      Scene({1}, {}, {}, 3, [tool |-> 1, lose |-> 1]),
      \* wakes that queue, come twice and are revoked
      Scene({1, 2}, {}, {}, 3, [wake |-> 2]),
      Scene({1, 2}, {}, {}, 0, [wake |-> 2, revoke |-> 1, duplicate |-> 1, lose |-> 1]),
      Scene({1, 2}, {}, {}, 0, [wake |-> 2, revoke |-> 1, tool |-> 1]),
      \* an opening that fails, and a pass that fails
      Scene({1, 2}, {1}, {}, 1, [wake |-> 2, fail |-> 1, revoke |-> 1, lose |-> 1]),
      \* the activation that closes the exchange
      Scene({1}, {}, {1}, 0, [tool |-> 2, other |-> 1, lose |-> 1]),
      \* the process is lost in the middle of a call
      Scene({1}, {}, {}, 0, [wake |-> 2, tool |-> 1, crash |-> 1, lose |-> 1]) }

=============================================================================
