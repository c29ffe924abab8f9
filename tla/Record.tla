------------------------------- MODULE Record -------------------------------
(***************************************************************************)
(* What a journal promises the rooms that share one named storage          *)
(* (packages/journal, docs/durability.md sections 1 and 2): one record     *)
(* that only grows, one run at a time that may write it, and readers that  *)
(* each hold a prefix of that one record.  Nothing here knows of cursors,  *)
(* appends in doubt, crashes or queues: Journal.tla shows that the code    *)
(* implements this.                                                        *)
(*                                                                         *)
(* An accepted entry keeps the place the storage gave it, so the record is *)
(* a function from the places taken to the entries.                        *)
(***************************************************************************)
EXTENDS Naturals

CONSTANTS Reader,  \* everybody who holds a view of the record
          NoRun,   \* the writer of an entry that names none
          NoKey    \* the key of an entry that carries none

VARIABLES record,  \* place -> accepted entry
          holder,  \* the run whose run entry stands, or NoRun
          view     \* view[r]: the places reader r has accepted

recordVars == <<record, holder, view>>

\* The history a record starts with is whatever the storage held; nobody has
\* read it yet.
RecordInit ==
    /\ DOMAIN record \subseteq Nat
    /\ view = [r \in Reader |-> {}]

\* A new entry lands past every accepted one, with a seq above every accepted
\* seq, under a key that names no accepted entry.
Extends(place, entry) ==
    /\ place \in Nat
    /\ record' = [p \in DOMAIN record \cup {place} |->
                     IF p = place THEN entry ELSE record[p]]
    /\ \A p \in DOMAIN record :
          /\ p < place
          /\ record[p].seq < entry.seq
          /\ entry.key # NoKey => record[p].key # entry.key

\* Only the run that holds the record writes to it, or one that names no run.
Write(place, entry) ==
    /\ entry.kind # "run"
    /\ holder # NoRun => entry.run \in {holder, NoRun}
    /\ Extends(place, entry)
    /\ UNCHANGED <<holder, view>>

\* A run takes the record over with its run entry, and never again once
\* another run has.
TakeOver(place, entry) ==
    /\ entry.kind = "run"
    /\ \/ entry.run \in {holder, NoRun}
       \/ \A p \in DOMAIN record :
             ~(record[p].kind = "run" /\ record[p].run = entry.run)
    /\ Extends(place, entry)
    /\ holder' = entry.run
    /\ UNCHANGED view

\* A reader accepts more of the record, in order and without a gap.
Learn(r) ==
    /\ \E seen \in SUBSET DOMAIN record :
          /\ view[r] \subseteq seen
          /\ \A p \in seen, q \in DOMAIN record : q < p => q \in seen
          /\ view' = [view EXCEPT ![r] = seen]
    /\ UNCHANGED <<record, holder>>

\* The process of a reader ends, and its view with it.
Forget(r) ==
    /\ view' = [view EXCEPT ![r] = {}]
    /\ UNCHANGED <<record, holder>>

\* The place and the entry are read off the step that adds them, so that no
\* bound on places is needed to evaluate the action.
RecordNext ==
    \/ \E place \in DOMAIN record' \ DOMAIN record :
          \/ Write(place, record'[place])
          \/ TakeOver(place, record'[place])
    \/ \E r \in Reader : Learn(r) \/ Forget(r)

RecordSpec == RecordInit /\ [][RecordNext]_recordVars

=============================================================================
