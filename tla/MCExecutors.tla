---------------------------- MODULE MCExecutors -----------------------------
(***************************************************************************)
(* The three executors that run an activation against a model, for TLC:    *)
(* Claude, Codex and Pi, one at a time, each against the contract that the *)
(* driver relies on (Executor.tla).                                        *)
(***************************************************************************)
EXTENDS Integers, Sequences

CONSTANTS Kinds, Size, Passes, ClaudeLucks, CodexLucks, PiLucks

VARIABLES
    kind,       \* the executor that runs, or none
    landed, drv, self, given, read, late, luck,
    sent, inbox, sdk,
    expected, asks, says, server,
    base, chat, writes, turn

claude == <<sent, inbox, sdk>>
codex == <<expected, asks, says, server>>
pi == <<base, chat, writes, turn>>
executor == <<kind, landed, drv, self, given, read, late, luck, claude, codex, pi>>

C == INSTANCE ClaudePass WITH Lucks <- ClaudeLucks

X == INSTANCE CodexPass WITH Lucks <- CodexLucks

P == INSTANCE PiPass WITH Lucks <- PiLucks, queue <- writes

E == INSTANCE Executor WITH
        Line <- 1 .. Size, phase <- C!Phase(drv), prompt <- drv.prompt, cut <- drv.cut,
        given <- IF kind = "pi" THEN P!Given ELSE given,
        unheard <- (kind = "claude" /\ C!Deaf) \/ (kind = "codex" /\ X!Silent)

-----------------------------------------------------------------------------
(* What may go wrong *)

Luck(names, ops) == [what \in names |-> IF what \in DOMAIN ops THEN ops[what] ELSE 0]

\* resume: the session of an earlier activation is continued, refused by the
\* SDK in a result, or refused with an error.
Claude(how, ops) ==
    [what \in {"resume", "die", "fail", "cut", "break"} |->
        IF what = "resume" THEN how ELSE IF what \in DOMAIN ops THEN ops[what] ELSE 0]

MCClaudeLucks ==
    {Claude(how, [die |-> 1]) : how \in {"no", "refused", "throws"}}
    \cup {Claude(how, [cut |-> 1, fail |-> 1]) : how \in {"no", "refused"}}
    \cup {Claude("fits", [break |-> 1]), Claude("fits", [die |-> 1, cut |-> 1])}

Codex(ops) == Luck({"die", "fail", "cut", "refuse", "silence"}, ops)

MCCodexLucks ==
    {Codex([die |-> 1, cut |-> 1]), Codex([silence |-> 1, cut |-> 1]), Codex([refuse |-> 1, fail |-> 1])}

Pi(ops) == Luck({"lose", "lost", "tool", "fail", "cut", "view", "again", "crash"}, ops)

\* No steer is lost before another activation goes on with the session.
MCPiLucks ==
    { Pi([again |-> 1, tool |-> 1, view |-> 1]), Pi([again |-> 1, tool |-> 1, fail |-> 1]),
      Pi([cut |-> 1, again |-> 1, tool |-> 1]),
      Pi([again |-> 2, crash |-> 1, tool |-> 1, view |-> 1]),
      Pi([again |-> 1, lost |-> 1]), Pi([lose |-> 1, tool |-> 1]) }

\* One steer is lost, and another activation follows.
GapLucks == { Pi([again |-> 1, lose |-> 1, tool |-> 1, view |-> 1]) }

-----------------------------------------------------------------------------

NoClaude == sent = <<>> /\ inbox = 0 /\ sdk = 0
NoCodex == expected = {} /\ asks = <<>> /\ says = <<>> /\ server = 0
NoPi == base = 0 /\ chat = <<>> /\ writes = <<>> /\ turn = "none"

ExecutorInit ==
    /\ kind \in Kinds
    /\ \/ kind = "claude" /\ C!Init /\ NoCodex /\ NoPi
       \/ kind = "codex" /\ X!Init /\ NoClaude /\ NoPi /\ late = FALSE
       \/ kind \in {"pi", "none"} /\ P!Init /\ NoClaude /\ NoCodex /\ late = FALSE
                                 /\ given = [l \in 1 .. Size |-> 0]

OfClaude == kind = "claude" /\ UNCHANGED <<kind, codex, pi>>
OfCodex == kind = "codex" /\ UNCHANGED <<kind, claude, pi, late>>
OfPi == kind = "pi" /\ UNCHANGED <<kind, claude, codex, given, late>>

ExecutorNext == (OfClaude /\ C!Next) \/ (OfCodex /\ X!Next) \/ (OfPi /\ P!Next)

Works == (OfClaude /\ C!Works) \/ (OfCodex /\ X!Works) \/ (OfPi /\ P!Works)
ModelWorks == (OfClaude /\ C!SdkWorks) \/ (OfCodex /\ X!ServerWorks) \/ (OfPi /\ P!HarnessWorks)
Listens == (OfClaude /\ C!Handles) \/ (OfCodex /\ X!Hears)
GraceEnds == (OfClaude /\ C!GraceEnds) \/ (OfCodex /\ X!GraceEnds)
Closes == (OfClaude /\ C!Closes) \/ (OfCodex /\ X!Closes)

\* The activation, its process, its streams, its timers and its driver go on.
ExecutorFairness ==
    /\ WF_executor(Works) /\ WF_executor(ModelWorks)
    /\ WF_executor(Listens) /\ WF_executor(GraceEnds) /\ WF_executor(Closes)

ExecutorSpec == ExecutorInit /\ [][ExecutorNext]_executor /\ ExecutorFairness

\* Each executor keeps what the driver relies on: what it reports as read the
\* model was given, a prompt that ended well was read, and a line comes twice
\* only with one the model missed, or after the executor gave up on it.  A pass
\* that is cut after it had its record has not failed; one that is cut while it
\* awaits record() goes on, and may fail (docs/executors.md:264 and
\* contract.ts:189 make no such exception).  Every pass ends, but for one that
\* asks where nothing answers: of Claude, after the cut or when the stream of
\* the query has ended; of Codex, a server that fell silent.  That one waits
\* for a cut, and a Claude pass that was cut first waits for good
\* (docs/executors.md:607 and the comment at claude/src/executor.ts:297 have
\* it fail).
KeepsContract == E!Spec

\* What a continued session counts as read, its conversation holds.
ReadIsGiven == P!ReadIsGiven

=============================================================================
