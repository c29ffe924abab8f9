# A TLA+ model of ambion

ambion runs *rooms*: people, agents and a host write messages to one durable
record, and the room wakes agents, holds their leases, closes exchanges and
asks for summaries until nothing is left to do. This directory models what
carries that: the **journal** (`packages/journal`), the **room**
(`packages/ambion/src/room`, `room-run`), the **seat** that works for it
(`execution`), the **hosts** around both (callers, deliveries, Durable
Objects), the **executors** that meet a model (`packages/claude`, `codex`,
`pi`), and the packages that use rooms or serve their agents (`canvas`,
`workspace`'s processes, `compose`).

TLC checks every module on small instances. TLAPS proves, for every size, the
journal's invariants and that it implements an abstract record; that a room
decides every entry on the replay of all entries before it, and eleven
invariants and step properties that rest on it; and the safety of deliveries,
of the registry, of the seat object's recovery, of cancellations and of visits.

Run from this directory, for example:

    tlc -config MCJournal.cfg MCJournal
    tlc -config MCRoomTalk.cfg MCRoom
    tlapm RoomProofs.tla

`PROJECT.json` lists the components, the runs, the mutants that show that each
property can fail, the lines every definition translates, the hazards, the
findings and the theorems.

## 1. The system

| Part | State | Operations | Talks to |
| --- | --- | --- | --- |
| Journal storage (`memory.ts`, `sqlite.ts`) | entries by position | `read` past a position, `append` if it still ends at a position | any number of journals |
| Journal (`journal.ts`, its `rules.verified.ts`) | cursor, cache, last seq, key index, fence, serial queue | replay, `append` (decide, write), `settled`, `close` | storage; calls `hear` for each entry |
| Room rules (`room/rules.verified.ts`, `lease.ts`, `exchange.ts`, `routing.ts`, `delivery.ts`) | none | pure decisions about leases, attempts, exchanges, summaries, routing | projection, transition |
| Projection (`room/projection.ts`, `responds.ts`, `owed.ts`, `fold.ts`, `scheduled.ts`, `presence.ts`) | roster, people, leases, open wakes, owed summaries, scheduled says, exchange, closes | one step per journal entry, full replay | read by every decision |
| Transition, reconcile (`room/transition.ts`, `reconcile.ts`) | none | decide a command; plan a pass | control |
| Room run (`room-run/*`, `answers.ts`) | projection, alarm, resend windows, reconcile chain, delivery tokens, waiters, visits | people, host and seats write; passes; wakes, steers and cuts; stop, evict, resume | journal below, ports to seats, clock |
| Seat (`execution/*`) | one activation, queued wakes, read position | claim, renew, pass, say, release | room, over calls that may be lost; an executor |
| Executors (`claude`, `codex`, `pi`) | a conversation, messages on their way to a model | open, pass, steer, cut, close | a model's process |
| Compose (`compose`) | one call, its nested calls | approve, call, cut, time out, report | tools of the seat, the record |
| Host runtime (`host/runtime.ts`, `room.ts`) | rooms by name | start, resume, stop | room run |
| Durable Objects (`cloudflare`) | a flag or a row, an alarm, and a memory that an eviction takes | `start`, `stop`, `wake`, `cut`, `alarm` | room run, runner |
| Canvas (`canvas`) | rows of rooms, revisions of widgets, a bridge between rooms | open, start, stop, break out, report; show, press | rooms |
| Workspace processes (`workspace/src/process*.ts`) | files of each process, a table in memory | start, list, wait, cancel, adopt | a shell |

What is hard in it:

- **Two runs, one name.** A second process may start a room whose first process
  still lives. A run writes a *fence* (its run entry), and everything an
  earlier run writes after it is void. Each journal finds that out only when it
  reads.
- **Writes in doubt.** An append whose confirmation is lost may have landed,
  may never land, or may land later.
- **Decide, then write.** Every entry is decided on the whole record at the
  moment it is appended, but a *pass* of the room plans several steps on one
  state and writes them one at a time among other writers.
- **Indexes that only forget.** The projection keeps open wakes, owed summaries
  and scheduled says as indexes; what an index drops, no later entry restores.
- **Time.** Leases expire, attempts back off, wakes are sent again, scheduled
  says return, and the room sleeps between: an alarm forgotten is a room asleep.
- **At-least-once wakes.** A wake may be lost, late, or taken twice. Seats may
  die, and nothing but the lease says so.
- **State read before an await.** Visits, cancellations, acts on widgets,
  listings of processes and launches of rooms all decide before an await and
  act after it.
- **Evictions.** A Durable Object may lose its memory at any await and keep its
  row and its alarm.
- **A model on the other end.** What a model has read is learned from echoes,
  events and results of a process that may die, fall silent or answer late.

What makes each part correct:

- *Journal*: every reader that scanned the same positions holds the same
  entries; an acknowledged append stays; nothing is stored that readers skip;
  the loss of the name is told once; a key names one entry; the queue drains.
- *Projection*: it equals a fold of the whole record.
- *Leases and activations*: one live lease per seat; one story per activation;
  an owed activation can always be claimed; no authority survives a
  cancellation or a removal.
- *Exchanges*: every question is in exactly one; a close lands on a quiet
  record; a summary is given once; what a reader is told of a close is final.
- *Room run*: the room never sleeps over something only it can settle, and left
  alone it comes to rest; a handle stands for a person who is present; a
  cancellation is retried and never doubled; the host hears once of an outage;
  every caller is answered.
- *Seat*: what it tells the room its model had read; a call lands once; a line
  is steered once; a queued wake runs in the end.
- *Executors*: each keeps the contract the driver relies on.
- *Hosts*: registry, storage and what the caller was told agree; an alarm
  recovers what was lost and nothing that goes on.
- *Canvas, processes, compose*: a stop stops the rooms below; a report reaches
  its opener once; a press lands once and for the revision shown; the table of
  processes keeps its limit and tells each end once; a report is whole.

## 2. Modules

| Module | Models | Built from |
| --- | --- | --- |
| `Record` | what a journal promises: one record that grows, one holder at a time, readers with gapless prefixes | |
| `Journal` | `journal.ts`, the journal's `rules.verified.ts`, both storages | refines `Record` |
| `RoomRules` | the room's pure rules | |
| `Projection` | the incremental projection and its replay | `RoomRules` |
| `Room` | commands, passes, clock, stop, crash, resume | `Projection` |
| `RoomSafety` | the room's properties, and the full fold the projection is compared with | `Room` |
| `Exchanges` | what readers are told of a closed exchange | `RoomSafety` |
| `Callers` | visits, departures, cancellation, stop, eviction, waits for a close | |
| `Wire` | wakes, steers and cuts on a port | |
| `Freshness` | the ranges of the record an activation has read | |
| `Seat` | the runner and the activation, over a faulty wire | `Freshness` |
| `Executor` | the contract an executor owes the driver | |
| `Driver` | what an executor meets of the driver | |
| `ClaudePass`, `CodexPass`, `PiPass` | the three executors, each with the process of its model | `Driver`, refine `Executor` |
| `Compose` | one compose call | |
| `SeatObject`, `RoomObject` | the Durable Objects of a seat and of a room, the registry of a runtime | |
| `Canvas`, `Widgets` | the rooms of a canvas; the widgets of one room | |
| `Processes` | the background processes of one agent | |
| `MCJournal`, `MCRoom`, `MCSeat` | constants, budgets and scenes for TLC | one module each |
| `MCLive` | a journal and a room under fairness | `Journal`, `MCRoom` |
| `MCExecutors` | the three executors against `Executor` | |
| `MCHost` | what stands around a room, part by part | `Callers`, `Wire`, `SeatObject`, `RoomObject`, `MCExecutors`, `Compose` |
| `MCPackages` | the packages beside the room, part by part | `Processes`, `Canvas`, `Widgets` |
| `JournalProofs`, `RecordProofs` | the journal's theorems | `Journal` |
| `ProjectionProofs` | what each entry does to a projection; induction over the replay | `Projection` |
| `RoomRecordProofs` | what a record says if every entry was decided on the replay before it | `ProjectionProofs` |
| `RoomIndexProofs` | the indexes and the numbers of attempts of such a record | `RoomRecordProofs` |
| `RoomProofs` | the room keeps such a record, and its theorems | `RoomSafety`, `RoomIndexProofs` |
| `HostProofs` | theorems about `Wire`, `RoomObject` and `SeatObject` | `MCHost` |
| `CallersProofs` | theorems about `Callers` | `Callers` |

What the code does in one turn of the event loop, microtasks included, is one
action; an `await` on something that may be slow or fail ends it.

### Journal

A `Writer` is one `Journal` object; its name doubles as its run unless it is in
`Runless`. `store` is the storage. A link of the serial queue is an action per
`await`: `Open` takes the read's snapshot (`target`), `Scan` takes one entry of
it through the fence (`Take`), `LandNothing`/`LandReplay`/`LandSend` decide,
`StoreSent` is the storage's compare-and-append, `Confirm`/`Moved`/`LoseAnswer`
are the three ways an append ends. `LoseAnswer` may leave the request in
`strays`, which the storage may still take (`StoreStray`). A failure queues the
settling read behind the queue (`DoneInDoubt`), as `persist` does. A crash
forgets everything but what is on the wire. Entries have no bodies: a place in
the storage names the entry. `acked`, `past`, `asks` and `faults` are history
variables and bounds and guard nothing but the bounds.

`Record` has no cursor, queue or doubt. Under the refinement mapping its
`record` is the accepted entries of the storage by position, its `holder` the
run of the standing run entry, and each `view` the elements of a journal's cache.

### Room

The room sits on what `Record` promises: `log` is the record, an entry is
decided and stored in one step (`Land`) and heard in a later one (`Confirm`), as
`submit` decides on the serial queue with everything before it heard. Between
them the run's projection (`room`) does not hold the entry: planning, ticking
and the alarm go on. `LoseAnswer` loses the confirmation, and `Hear` finds the
entry by the next read. `flight` says whose write is stored and unconfirmed.

An activation id is a record (source, position, seat, attempt), as in
`activation-id.ts`. `room` has the fields of `projection.ts`; `Advance` is its
`advance`, one operator per kind of entry; `Replay` is its `replay`.

A pass is `Plan` (`planReconciliation` on the projection of that moment:
endings, abandonments, then a close and returns, the wakes to send and the
alarm), one `StepWrites` or `StepWritesNothing` per step, decided again where it
lands, and `Send` (or `Plan` itself when there is no step), which sends the
wakes the record still grants and either goes on to the next pass, gives up
after `Passes` of them and looks again later, or arms the alarm. `StepFails` is
the storage refusing a step. `Stop` drops what a pass has planned but not the step
under way nor an ending already queued (`Queued`), which land before the stop goes
on.

`People`, `Host` and `Seats` are the operations of the environment: deliver,
post, arrive, leave, seat, unseat, dismiss, cancel, stop; claim, renew, release
(released or failed), say, schedule, dismiss, seat, unseat, summarise. A seat
may do any of them in any order while it holds the authority: `Seat` is a
stricter client. A wake on the wire is a member of `wired`, which is never taken
out: it may be claimed late, twice, or never.

`Exchanges` computes from the projection what `closedExchange` gives a caller:
range, activations, outcome, summary. It has no state of its own; its property
compares two readings of the same close.

### Callers and deliveries

`Callers` is one person's visits and everybody's calls on one run. `stored` and
`heard` are the journal and how far the run has heard it; `queue` is the serial
queue, whose head `Lands` with one of the outcomes a storage has (entry,
nothing, refused, in doubt and landed or not). A visit is `VisitStarts`,
`VisitSettles`, `Arrives`, `Arrived`; a departure is `EndVisit`, `LeaveSettles`,
`Leaves`, `Left`; each stops where the code awaits. `cancel` keeps the key of a
cancellation in doubt. `Stopping` walks the shutdown; `Evict` drops the run.
`WaitStarts` and `Looks` are `waits.ts`: look, join, look again at every
publication.

`Wire` takes the projection as the `stage` of each activation and has every send
answered, failed, late or never; `state` is the map of delivery states with its
tokens. A stop of the run is not followed here: from then on its reports are
suppressed (`dispatch.ts:251`), and the property speaks of a run that is up.

### Seat and executors

`Seat` holds the memory of the seat's process in one record: the activation that
holds the seat, what queues behind it, the call in each slot (main, renewal,
tool), the passes that ignored a cut, the requests nobody awaits any more.
`Serves` is the room answering a request (admission, release, commit with its
freshness check), `Hears` the answer arriving, `Loses` a call that times out
while the request is still on its way, `ServesLate` the room serving it then.
`ReadsRecord`, `ReadsLine`, `ReadsResult` are the model taking what a pass gave
it; `told` is the history of what reached the model.

`Executor` promises the driver: what is reported as read was given, a pass that
ended well had its prompt read, a line comes twice only with one that was
missed, a pass cut after it had its record has not failed, every pass ends unless
nothing answers. It is weaker than what the docs and comments say where the code
is: a pass cut while it awaits `record()` (`cut = "early"`) may fail, and one that
asks where nothing answers (`unheard`) need not end (section 4). Each executor maps its own state to the contract's in `MCExecutors`: the passes are
awaits on echoes and results (`ClaudePass`), on two pipes of requests and
notifications (`CodexPass`), or on a harness with a queue of writes
(`PiPass`). `Compose` is one call of the compose tool with its nested calls, the
queue of the sequential tools, the limits, the drain and the report. A commit that
a cut answers as stale, or lost tries as unknown, leaves its request on the way
(`GivenUp`): it may land before or after the report (`Lands`).

### Hosts and packages

`RoomObject` has the registry of a runtime, every run of this memory and earlier
ones, and the object's durable flag. `SeatObject` has the row, the alarm and a
runner that claims, works and releases. Both may be evicted between any two
steps.

`Canvas` has the rows of a root and its breakout rooms, durable and in memory,
one queue of operations for each room, and the chain of the bridge that posts
notices and reports. A pass reads the root's keys and then the child; a read that
fails drops its notices, a post that fails may have landed or land later
(`LandsLate`). `Widgets` has the revisions of one widget, the presses in
the room's journal and the queue of calls. `Processes` has the files of each
process, its shell, the operation on the bash resource, a listing as two reads
and a `ps` that may fail, the end of a run as a look (`LooksForEnd`) and a write
(`RecordsEnd`), and the chain of cancels. A shell with no pid may still start
after its host is gone.

## 3. Runs

The environment's operations are rationed (a `Budget`, a play, a scene, or
chances: how often each may happen); the system's own steps are not. A run that
asks one question of several situations starts in any of them.

| Run | Checks | Shows |
| --- | --- | --- |
| `journal` | `TypeOK CachesAgree AcknowledgedKept NothingVoid LostOnce`, refines `Record` | two runs that fence each other with 3 appends, or a run beside a journal that writes for no run, over three histories, with closes, crashes, lost confirmations and strays |
| `room_talk` | `AttemptFresh LeaseStory SummaryOnce NeverAsleep CancelledStaysDead ReturnedOnce OneLivePerSeat CloseQuiet ViewsSettle` | three budgets: a question and an answer that wakes a colleague, with renewals, expiry, retry, close and summary; a scheduled say against dismissal, cancellation, failure and resend; a host's question passed on to a person |
| `room_stop` | `IndexAgrees AuthorityHolds OneExchangeEach` | three budgets: stop, crash, lost confirmation, refused write and another cast; seats removed and seated again; a person who leaves and comes back |
| `live` | `TypeOK`, `ComesToRest`, `QueueDrains` | the room left to itself comes to rest; every journal's queue drains |
| `seat` | `Informed CallLandsOnce SteeredOnce`, `QueueMoves` | twelve scenes of one or two activations: steers, reads, tools, compose, lost and late calls, renewals, expiry, queued, doubled and revoked wakes, failures, crash |
| `host` | `VisitsAgree CancelOnce OutageToldOnce RunKept RegistryAgrees ReportIsWhole`, `CallersAnswered SeatServes KeepsContract` | one part at a time: callers, deliveries, seat object, room object, executors, compose |
| `packages` | `TableHolds StopsTogether`, `CancelKills HearsOnce CallsSettle PressesHold` | one part at a time: processes, canvas, widgets |
| `room_lost` | violates `NeverAsleep` | finding 1 |
| `room_leave_work` | violates `StopSettlesEverything` | finding 2 |
| `room_slow` | violates `ResendsOnlyUnanswered` | finding 3 |
| `pi_gap` | violates `ReadIsGiven` | finding 4 |
| `canvas_stopped` | violates `StoppedStaysDown` | finding 5 |

`live`, `host` and `packages` hold parts that share no state, chosen at the start
by `part`: the others stay as they began, so the states add up and do not
multiply.

**Bounds.** *Journal*: `MaxAsks` appends and `MaxFaults` faults (closes, crashes,
failed calls, foreign entries) over histories of up to three entries, with
`LastSeq = 4` so that the last seq is reached; one key suffices, since keys never
interact, and two runs with one past run of each kind give every order of
fences: own, other's, own again. *Room*: one person and two seats, `a` woken by
any message and `b` by name (or `a` also by presence), which gives a seat that
is woken, one that is steered, one that is named, and the summary writer being
either. `Attempts = 2` reaches a retry and the cap; `Ttl = 1` and `Deadline = 2`
make a renewal both extend a lease and be cut by the deadline; `Passes = 3`
stands for the code's 8, and the cap is reached. The budget of ticks is the
horizon of the clock: 1 or 2 in the safety runs, which reach an expiry and a
return, none where the question is about authority alone, and 13 in `live`,
more than any behaviour of its budget needs. `Reads` and `Named` bound what a
seat acknowledges and whom people address. *Seat*: two activations, since a
third can only queue behind the second; two tries of a call; a deadline of 3
ticks. *Host*: up to three visits and two waiters, so that a departure may meet the
visit before and the visit after, with a handle taken while an arrival is under
way and left later; three sends on the wire, for a token that is
two behind; five runs of a room object; three lines and two passes for an
executor. *Packages*: two processes with a limit of one, two breakout rooms,
two persons and up to three presses. No run uses a constraint or a view.

**Deadlock** checking is off where the system may really stop: a journal whose
appends are done, a room at rest at the end of its clock, a part whose budget is
spent. That they do not stop too early is what `QueueDrains`, `NeverAsleep`,
`QueueMoves`, `ComesToRest`, `CallersAnswered`, `SeatServes` and `CallsSettle`
say.

**Symmetry** is used in `journal` only, over the writers that write for a run:
nothing orders them. The liveness properties use none.

**Fairness.** A promise chain runs and a storage call settles: weak fairness of
the steps that go on by themselves, in every part. Beyond that:

- `live`: an alarm that is due rings, the clock goes on while something waits on
  it, a host starts a room that is down (written as `[]<>(phase # "down")`,
  since `Resume` is always possible then), and a seat answers a wake that was
  never claimed. No seat is assumed to renew, to release or to say anything, so
  the lease expiry, the retry and the attempt cap must do it all. A tick that
  only waits out the resend window of an unclaimed wake is bounded by the
  budget. Nothing is assumed about new appends, faults or strays.
- `seat`: the clock goes on and rings, a main call is answered or lost. No
  executor is assumed to read, to commit or to end.
- `host`: the room sends an owed wake again, a call arrives or is dropped, the
  alarm of a seat object fires, and a model's process works; faults, evictions
  and cuts are free.
- `packages`: the steps of operations and polls; strong fairness only for the
  grace of a cancel and its end (`GraceEnds`, `CancelOver`), which are enabled
  between two polls of that cancel and disabled while a poll lists the
  processes; the clock they are read from runs on.

## 4. Findings

1. **A lost confirmation can put a room to sleep with an exchange open**
   (`room_lost`, `room-run/control.ts:199`). A release is stored and its
   confirmation lost while the lease runs out. The pass plans to end the lease
   as expired; the read of that write hears the release, which asks for no
   reconcile (`dispatch.ts:177`); the step writes nothing; the pass arms the
   alarm of its plan, which was none. Nothing will close the exchange until
   somebody writes to the room. `exchange.ts:18`: "Quiescence closes it."
2. **A stop leaves unclaimed work** (`room_leave_work`).
   `docs/durability.md:236` says a stop settles every pending activation and
   ends with no execution obligations; `control.ts:363` says and does otherwise.
3. **A claimed summary wake is sent again** (`room_slow`). `docs/limits.md:19`
   speaks of a wake that stays unanswered; a summary stays due while its lease
   runs, so its wake is resent every window. The claim of a wake that was taken
   already is a renewal, so no invariant breaks.
4. **A continued Pi session counts as read a line it never held** (`pi_gap`,
   `pi/src/transcript.ts:132`). The position of a session is the end of its last
   range, whether or not the ranges before it leave a gap.
5. **A stopped breakout room is launched** (`canvas_stopped`,
   `canvas/src/canvas.ts:338`). A launch that waits in the room's queue does not
   look at the row again.

Smaller things the modelling met, which no run states:

- *Visits.* `presentVisit` in the turn that publishes an arrival gives a handle
  that `arrive` (`people.ts:132`) then marks gone, though `people.ts:65` and
  `room.ts:458` say that a second visit is the same visit. Left later, it has kept
  no key of its visit, and ends the visit there is. The plays of `host` have it;
  `VisitsAgree` says nothing once a replaced handle asks for its departure
  (`Strayed`), and without that exception TLC finds it violated.
- *Deliveries.* A cut that fails after the next entry tells nobody, though
  `docs/durability.md:204` promises a `port_error`.
- *Processes.* The end of a run looks for a cause, awaits `env.exists` and writes
  (`processes.ts:279`): a cause that a cancel names in between is written over
  with `failed`, which the listeners are then told; `recordLost` can do the same
  (`raced`). A `ps` that fails once hides a live shell, which then counts as ended
  and not against the limit until a listing finds it; so does a shell that starts
  after its host is gone (`missed`). `docs/processes.md:145` and `:154` say both.
- *Compose.* A nested commit that was given up may land after the report, which
  names its call as failed.
- *Canvas.* `completeBreakout` does not look at the parent: a breakout call that
  goes on after the root stopped launches its room. A pass whose reads fail loses
  its notices until the next pass or resume of that room; a report in doubt may
  land between the keys a pass reads and its notice, which then follows it
  (`doubted`). A stop of a root that fails leaves the rooms below running (`torn`).
  A show whose store write landed in doubt is not held until a restart, so two
  revisions may carry one `rev`; an answer whose send was in doubt is unknown
  until the next act or launch (`excused`).
- *Codex.* The timer of `CUT_GRACE` does not release a pass that awaits the
  opening or `turn/start`; the close does. A silent server holds a pass until a
  cut (`unheard`).
- *Claude.* After the stream ends between two passes the next pass waits on a
  dead query until the lease's deadline, though the comment in `consume` and
  `docs/executors.md:607` say otherwise; a cut while `record()` is awaited lets
  the pass go on, and it may report failed (`docs/executors.md:264` says it may
  not) or wait. A failed result of a left-over turn between passes can fail the
  next pass.
- *Pi.* After a cut breaks the wait for the earlier close, `resumed` still opens
  the session, although the comment says that a session opens once.
- *Seat object.* `hold` is not looked at when a pending alarm fires or a wake
  goes to a live runner, though the comment says that a seat on hold runs
  nothing. An eviction while a queued activation runs recovers only the stored
  one. A claim under way at an eviction may land after the recovery's release.
- *Room object.* `start` removes `stopped` before `startRoom` succeeds; a failed
  `startRoom` releases the name and never evicts the run; a run superseded
  during its start frees its name, and `startRoom` still resolves.
- *Exchanges.* An `abandoned` end planned by a pass may land after a
  cancellation and then appears in the cancelled exchange.
- *Workspace fetch* (read, not modelled): a forward whose endpoint closes by
  itself stays in the cache, so later fetches of the running process fail,
  though `docs/processes.md:635` says otherwise; a forward opened after its
  process ended leaks if its sender aborts while it opens.

## 5. Proofs

All theorems are about the specifications the runs check, for every value of
the constants that satisfies the named assumptions. Each of their properties
was checked by TLC first, and so were the strengthenings, on the instances of the
runs (with `Nat` cut to a small range where TLC has to enumerate it).

**Assumptions.** `JournalAssumption` (writers, past runs and the two absent
values are apart, `LastSeq` is positive, a history is made of entries),
`RulesAssumption` (finitely many seats, apart from the people; positive spans;
an attention for each seat), `RoomAssumption` (casts are seats, guests are
finitely many people, a budget for each operation), `CallersAssumption` (0 names
no call). They say what the code's types and validated options say. TLC
evaluates each of them.

### The journal (`JournalProofs`, `RecordProofs`)

    Inductive             Spec => []IInv
    TypeCorrect           Spec => []TypeOK
    ReplicasAgree         Spec => []CachesAgree
    AcknowledgementsHold  Spec => []AcknowledgedKept
    NoEntryWasted         Spec => []NothingVoid
    LossToldOnce          Spec => []LostOnce
    RecordImplemented     Spec => ImplementsRecord

None of the five properties is inductive. `NothingVoid` fails a step later if an
append in flight was admitted under another fence than the one its position
meets, so `IInv` says what every request, sent or stray, knows: its condition
names a prefix of the storage, and its entry is kept after that prefix
(`RequestsOK`). That holds because the journal that sent it had read exactly
that prefix (`SentOK`, `ReadsOK`) and its fence is the one standing there
(`FenceOK`), whose three fields are functions of the prefix. `AcknowledgedKept`
needs the key index (`KeysOK`) for an append answered by an earlier entry. The
lemmas are about prefixes: the storage only grows, and whether an entry is kept
depends on the entries before it, so a step can only disturb what its own
journal says.

For the refinement the step that matters is the storage taking an append,
perhaps long after its sender died: it must be a write or a takeover the record
allows. `RInv` adds that every append in flight is new to the prefix its
condition names (`FreshOK`: a higher seq, a key not used, a run not beaten
there), since the sender knew the last seq (`SequenceOK`) and every key
(`IndexOK`) of that prefix; the condition then makes the prefix the whole
storage when it lands.

### The room (`ProjectionProofs`, `RoomRecordProofs`, `RoomIndexProofs`, `RoomProofs`)

    SerialAlways            Spec => [](Serial /\ Quiet /\ Planned)
    AuthorityAlways         Spec => []AuthorityHolds
    LeasesTellOneStory      Spec => []LeaseStory
    SaysReturnOnce          Spec => []ReturnedOnce
    SummariesOnce           Spec => []SummaryOnce
    CancelledNeverRevives   Spec => []CancelledStaysDead
    QuestionsInOneExchange  Spec => []OneExchangeEach
    SeatsWorkOnOne          Spec => []OneLivePerSeat
    IndexesAgree            Spec => []IndexAgrees
    ClosesOnQuiet           Spec => CloseQuiet
    AttemptsStayFresh       Spec => []AttemptFresh
    TypesHold               Spec => []TypeOK

The argument has two halves. The first is about the room alone: whatever
people, seats, passes, lost confirmations, stops and crashes do, **every entry
of the record was decided on the replay of all the entries before it**
(`Sound(log)`), and what the run holds is the replay of what it heard, which is
all entries but at most one (`Serial`). It needs what a pass holds (`Planned`):
its steps were planned on an older state, and each is decided again where it
lands. The proof has a case per operation.

The second half is about records alone: a *sound* record, whoever wrote it, has
the property. It goes by induction over the record, with one lemma `...Step`
per part of the replay (people and messages, the chain of closes, leases, says
that wait, what is owed, reports) that takes one more decided entry, and one
lemma that collects them. `LeaseStory`, for instance, holds because the replay's
leases are those of the record (`Leased`), and no entry is decided about a lease
that ended.

*Induction.* The library's induction theorems take an operator, which no
installed prover instantiates. `ProjectionProofs` gets induction over sets of
numbers instead: proper inclusion is well founded on finite sets
(`FS_StrictSubsetOrderingWellFounded`, `WFMin`), so a set of numbers that is not
empty has a least one (`LeastNat`), and a set with 0 and every successor is all of
`Nat` (`SetInduction`). The replay is the fold of a function over prefixes (`Through`),
whose existence and uniqueness follow from that, and `Replays` is shown to be it.

*Indexes.* `IndexAgrees` compares each index with a fold of the whole record. An
index changes only where its entry says; the lemmas show that what the entry
left alone would be judged the same. `Indexed` is about the open wakes, `Judged`
about the summaries owed (those the closes of the record owe; `SameClose`: two
projections that agree on what a close is judged on owe the same), `Rostered`
about the seating since the last composition.

*Attempts.* `AttemptFresh` rests on the attempts of one activation being
numbered from one without a gap (`Numbered`): a due attempt is one more than
those over, a lease for it exists only if it was due, so its number is spent by
no lease. `TypesHold` adds the bounds of what a run holds in memory
(`Metered`, `Remembers`, `Numbering`: no number past the cap is sent, and only
what was sent is claimed).

*Closes.* `CloseQuiet` is a step property: `Writes` says that a close lands only
when the run has heard everything, so the room's view at that moment is the
record's (`Serial`), and `closeAdmission` on it is the property.

### Hosts (`HostProofs`, `CallersProofs`)

    OutagesToldOnce        HostSpec => []OutageToldOnce
    RegistryAlwaysAgrees   HostSpec => []RegistryAgrees
    RunsAreKept            HostSpec => []RunKept
    CancelledOnce          Spec => []CancelOnce
    VisitsKeepAgreeing     Spec => []VisitsAgree

- *Deliveries* (`Deliveries`): the state of a key carries the token of its
  newest send, so an answer with a lower token changes nothing; while work is
  owed or live, the state remembers a failure exactly as long as the outage
  lasts.
- *Registry* (`Registry`): a run that starts holds the name alone, with nothing
  stopped and no other fence (`StartsAlone`); a run that is up holds name and
  fence until it is asked to stop (`UpHolds`); a held name is held by a run that
  starts or by the one the object has (`NameIsOurs`); what was told last is what
  the storage says (`WordIsStored`).
- *Recovery* (`Recovery`): a recovery on its way is one the runner waits for, or
  one that came too late (`excused`); the alarm starts one only while the runner
  is idle.
- *Cancellations* (`OneInDoubt`): at most one cancellation is in the queue, under
  the key in doubt, and every marker but that key's was confirmed.
- *Visits* (`VisitsInv`): arrivals and departures alternate in the storage, and
  the run is at most one entry behind (`Alternates`); only the latest handle and
  those an arrival replaced can still depart (`OneHandle`, `Superseded`); each handle is based on the visit it is for
  (`Based`); the handle that takes messages stands for one who is present
  (`Held`); each request in the queue has its caller, and no arrival waits
  behind a departure of the same person (`Requests`); what a caller was told is
  about the record as it stands (`Told`). No
  hypothesis is needed: the inductive invariant holds until a replaced handle asks
  for its departure, where `VisitsAgree` says no more.

### What is only model-checked

- Liveness and `KeepsContract` (which states fairness): `ComesToRest`,
  `QueueDrains`, `QueueMoves`, `CallersAnswered`, `SeatServes`, `CancelKills`,
  `HearsOnce`, `CallsSettle`, and the parts of `PressesHold` that are. Liveness
  and ENABLED are outside the prover's reach.
- `NeverAsleep` is false of the code when a confirmation is lost (finding 1), so
  a theorem needs that operation's budget to be empty; it is planned. So are
  `CallLandsOnce`, `Informed`, `SteeredOnce` (`Seat`), `TableHolds`
  (`Processes`), `StopsTogether` (`Canvas`) and `ReportIsWhole` (`Compose`, which
  needs a lemma on the fold that starts queued calls).
- `ViewsSettle` compares two states of what is computed from the projection; it
  is within reach of the sound-record argument, and planned last.

## 6. Not modelled

- Text, refs, sizes, identities, usage, notifications: no property is about
  them. Refusals that depend only on them write nothing. Of exchanges, usage,
  per-recipient summaries and the choice of a session are left out.
- Keys at the room's level: `Journal` shows that a keyed retry answers with the
  first entry, so a retry changes nothing in `Room`.
- Stored entries of a known kind that are malformed: the journal throws on every
  read, so such a room does not start. A `hear` callback that throws.
- Backoff that doubles: one span, since only its presence orders events.
- Widgets: a repeated show of equal content, the checks of forms and catalog, the
  texts of tools. A start of a room writes its row and launches in one step.
- The workstation's SIGKILL that is decided before an exit and sent after it.
- `workspace` beyond its processes, `workstation`, `just-bash`, definitions,
  conformance kits, catalogs and macros of compose, the executors' traces and
  options: `PROJECT.json` says why for each.

## 7. Plan

1. Proofs: `CallLandsOnce`, `TableHolds`, `ReportIsWhole`, `StopsTogether`,
   `SteeredOnce`, `Informed`; `NeverAsleep` of a room that loses no
   confirmation; `ViewsSettle`.
2. Models: the workstation's sessions and forwards, the workspace's files and
   registrations, the view windows of readers.
