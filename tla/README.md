# OpenSKS: formal models of the durable execution core

OpenSKS runs coding-agent turns as durable work. A user's message becomes a
turn with one run; daemon threads claim the run under a fenced lease, execute
it, journal what happened and project the journal into the read models the
application shows. Around that core, patches are applied to the workspace as
transactions, changes prepared in isolation are integrated, commits are pushed
through an outbox, and the application follows runs, terminals and imports.
This directory holds TLA+ models of the core and of those services, the TLC
runs that check them on small instances, and TLAPS proofs of what matters most
for every instance. Paths below are relative to `src/crates/` unless they say
otherwise.

1. [Inventory](#1-inventory)
2. [Plan](#2-plan)
3. [The models and the code](#3-the-models-and-the-code)
4. [Runs: what is checked, within which bounds](#4-runs)
5. [Fairness](#5-fairness)
6. [Findings](#6-findings)
7. [Proofs](#7-proofs)
8. [What is not modelled](#8-what-is-not-modelled)
9. [Running it](#9-running-it)

## 1. Inventory

### Components that carry the core logic

| Component | State it keeps | Operations | Interacts with |
|---|---|---|---|
| **Conversation repository** (`opensks-conversation/src/lib.rs`) | SQLite: `turns`, `runs` (lease owner, expiry, fencing token), `messages`, `run_projections`, `stream_cursors`, `conversations.status` | accept a turn; claim, heartbeat, recover, finish a lease; project events; set a message | the daemon, which calls one transaction at a time |
| **Run projection reducer** (same file, 3213-3330) | none | state, terminal kind and sequence of a batch of events | every projection |
| **Event store** (`opensks-event-store/src/lib.rs`) | a second SQLite database: one gap-free journal per run, event ids unique | append, replay, look an id up | daemon, engine, scheduler |
| **Run control events** (`opensks-engine/src/lib.rs`) | none | append pause / resume / cancel | event store |
| **Daemon turn execution** (`opensks-daemon/src/lib.rs`) | threads; worktrees and candidate receipts on disk | turn start, supervisor tick with heartbeat thread, failure arm, run control, subscription | both databases, scheduler |
| **Streaming loop and resident drain** (`opensks-daemon/src/lib.rs` 90-440) | request counter, two tick generations, the flags `active` and `requested` | read, refuse or dispatch a line; drain the queue in the background | turn start and ticks |
| **Durable scheduler** (`opensks-scheduler/src/lib.rs`, `mailbox.rs`) | work items, leases, commit counter; the run's journal | lease one item, transition, heartbeat, expire, dispatch a batch, recover | event store, worker drivers |

How they interact: `conversation.turn.start` accepts the turn (conversation
database), then bootstraps the run's journal (event database), then wakes the
resident drain. A tick claims the oldest queued run, replays its journal,
starts a heartbeat thread, appends `RunStarted`, dispatches through the
scheduler, appends the terminal event, projects it, sets the assistant message
and gives the lease back. Run control appends to the journal and projects later.
A subscription replays the journal and projects what it replayed later. No
transaction spans the two databases, and every thread may die between two.

### What is hard about each, and what makes it correct

| Component | Hard behaviour | Correct when |
|---|---|---|
| Conversation repository | claims race recoveries; a late heartbeat renews an expired lease; pause and rebuild change the projection that gates the lease statements | an unexpired lease has one holder and only the holder changes it; the cached conversation status is never stale |
| Projection reducer | sticky terminal states, order of events, three separate folds over one batch | batch reduction equals the event-by-event fold; ended runs stay ended; a read model names an end the journal holds |
| Daemon turn execution | a crash between any two of some two dozen transactions; error in the failure arm; ids looked up and appended in two transactions | every accepted turn ends; a turn's model is run at most once; a journaled cancellation ends the run |
| Resident drain | wakeups coalesce over two flags cleared in two steps; check-then-add admission | one drainer; a pending bit always has a taker; no accepted turn is stranded; admission respects its limit |
| Scheduler | any append may fail mid-call; leases expire under late workers; batches are admitted under three limits | memory is the fold of the journal; no commit under a lease that is over; dependents wait; a dispatch call comes back and leaves nothing running |

### The other components

| Component | State and operations | Correct when | Status |
|---|---|---|---|
| Push outbox (`opensks-git/src/push.rs`) | intents, approvals, receipts, failure diagnostics in SQLite; a remote | a push is approved for what it pushes; a receipt stands for commits that landed | modelled, proved |
| Integration candidates and apply lock (`opensks-daemon/src/lib.rs` 5581-6235) | candidate directories, receipts, a lock file | the answer tells what happened to the workspace; nothing is applied unverified or unapproved | modelled but for receipts' contents |
| Git isolation (`opensks-git/src/lib.rs`) | worktrees and branches of runs | recover removes only orphans | the patch part, in `IntegrationApply` |
| Patch engine (`opensks-patch-engine`) | prepared transactions, before-images, a journal | all or nothing, or an operator is told | modelled |
| File service (`opensks-file-service`) | files with content hashes | a save never overwrites what its author has not seen | open and save |
| Agent adapter, agentic loop (`opensks-adapter`) | steps, tool calls, planned writes | the outcome lists what was really applied | the loop |
| Stream framer and the application's subscription (`opensks-stream`, `opensks-daemon`, `src/swift/Sources/Conversations`) | cursors, frames, timeline | no event lost, repeated or out of order; an end is seen | modelled as used |
| Terminal sessions (`opensks-terminal`) | session table, shells | no shell is left behind | the registry |
| Design registry (`opensks-design`) | quarantines, a package of files, revision records | what was promoted or proposed stands | import, token edits, revisions |
| Engine projection (`opensks-engine/src/projection.rs`, `opensks-contracts/src/projection.rs`) | node and run states | rebuild equals live | left for later |
| Process supervisor, batcher (`opensks-perf`) | owned processes, a bounded buffer | every process is reaped | left for later; only the stress tool uses them |
| Graph compiler (`opensks-graph`) | none | order respects edges; cycles are refused | left for later |
| Git inspection and mutation (`opensks-git-service`) | git's | git's own guarantees | not modelled: shells git |
| Providers and routing (`opensks-provider`) | registry table with revisions, routing | compare-and-set of a row | not modelled: mostly network I/O and ranking |
| Context, code graph, intel, triwiki | files, append-only records | functional | not modelled |
| Policy, hooks, proof, reasoning, retention | none | functional | not modelled |
| Image, artifacts, vault | files, keys | per request | not modelled |
| Terminal suggestions, native collaboration, CLI and root crate, contracts | none that outlives a call | none across steps | not modelled |
| macOS application (`src/swift`) | view state | see the subscription | its run event task only |

`PROJECT.json` lists every component with its sources, and under `hazards` what
in this code is hard to test, at the line where it bites, with the properties
that watch it.

## 2. Plan

Ordered so that what decides whether a user's turn runs, runs once and ends
comes first.

| # | Module | Composes | State |
|---|---|---|---|
| 1 | `RunProjection`, `TurnSupervisor`, `TurnSupervisorProofs`, `TurnJournalProofs` | TurnSupervisor extends RunProjection | checked; safety proved |
| 2 | `ResidentDrain`, `ResidentDrainProofs` | the ticks it requests are those of TurnSupervisor | checked; safety proved |
| 3 | `WorkScheduler`, `WorkSchedulerProofs`, `SchedulerBatchProofs` | its dispatch is one step of TurnSupervisor | checked; safety proved |
| 4 | `FencedLease`: what a lease promises, abstractly | implemented by `TurnSupervisor` | checked; refinement proved |
| 5 | `PushOutbox`, `PushOutboxProofs` | processes of the command line | checked; safety proved |
| 6 | `PatchTransaction`, `FileService`, `Workspace`, `WorkspaceProofs` | Workspace composes the two over the same files | checked; safety proved |
| 7 | `IntegrationApply` | a turn that may run twice, apply calls, the user | checked; safety proved |
| 8 | `AgentLoop`, `LiveSubscription`, `TerminalSessions` | each on its own | checked; safety proved |
| 9 | `DesignImport`, `DesignRevision` | each on its own | checked; safety proved |
| 10 | `Services`, `MC_Services`, `ServicesProofs` | one part of 5-9 per behaviour; the theorems of 7-9 are in `ServicesProofs`, the typing of all parts in `WorkspaceProofs` | checked; typing proved |
| 11 | git worktree isolation, provider registry, node-level projection, `GraphCompile` | - | open |

Every invariant and every action property that a passing run checks is stated by
a theorem ([Proofs](#7-proofs)). What is open: the parts of row 11; an abstract
specification for the single-worker leases of `WorkScheduler`, whose ids are
numbers of transitions and not, as the tokens of `FencedLease`, counted per run;
and every liveness property, which stays with TLC.

## 3. The models and the code

`PROJECT.json` maps every definition to the lines it stands for.

### RunProjection

The reducers of `run_projections` and `stream_cursors`: `StateOf` (what an event
kind projects to), `Merge` (`merge_run_projection_state`, sticky terminal
states), and the result for a whole batch as non-recursive operators
(`StateAfter`, `TerminalKind`), so that proofs may use them. `FoldedState` and
`FoldedKind` are the loop the code runs over the batch; the run `settling`
compares the two on every journal written, and `ProjectionIsFoldHolds` proves
them equal on all.

### TurnSupervisor

Every action is one SQLite transaction, or one read a later step acts upon.

| Variables | Code |
|---|---|
| `lease` | `runs.lease_owner`, `lease_expires_at_ms`, `fencing_token` |
| `proj`, `cursor`, `message`, `conversation` | `run_projections`, `stream_cursors`, state of the assistant message, `conversations.status` |
| `journal`, `candidate` | events of each run in sequence order; integration candidate receipts on disk |
| `starter` | progress of `conversation_turn_start_lines` for each turn |
| `pc`, `held`, `now`, `seen`, `outcome`, `beating`, `until` | one supervisor thread: where its tick is, the lease it was given, the clock it read, how much it replayed, its result, its heartbeat thread, the expiry it was last told |
| `request` | a run control or subscription request between its read or append and its projection |

| Actions | Code |
|---|---|
| `AcceptTurn`, `BootstrapTurn`, `BootstrapAppend`, `StartFail*`, `StartCrash` | acceptance in the conversation database, bootstrap of the journal, the three-step failure of a start, its death |
| `RecoverExpired`, `ClaimTurn`, `ClaimNothing` | the recover and claim statements with their WHERE clauses; a foreground tick names its run |
| `ObserveRun`, `SkipMessage`, `ReadJournal`, `ApplyJournal`, `AdoptCandidate` | the look at projection and journal before executing, catching up with the journal, adopting an earlier candidate |
| `StartHeartbeat`, `Heartbeat` | the thread that renews the lease and stops at the first refusal |
| `EmitRunStarted`, `Dispatch`, `ExecuteTurn`, `Adjudicate`, `EmitRunFinished` | look-up-then-append of lifecycle events, the first scheduler transition, the outcome, the final cancellation check |
| `FinishMessage`, `FinishLease` | the unfenced message update, the fenced release |
| `FailMessage`, `FailAppend`, `FallbackFinish` | the failure arm, ending in the fallback that writes sequence 0 |
| `StepFails`, `Crash`, `RequestCrash` | an error from any step, the death of the process |
| `RequestControl`, `AppendControl`, `Subscribe`, `ProjectRequest` | clients |

The model's execution is one step whose outcome is chosen: success, failure of
the root item, failure of a child, a candidate left behind. Every event is its
kind and what its id names, because the collisions of ids are what decide
several races.

### ResidentDrain

Every action is one atomic operation of a thread of `run_stdio_stream` or one
whole tick (whose inside is TurnSupervisor). Threads are the requests and the
startup drain: `ReadLine` (which may refuse), `CountRequest`, `Dispatch` are the
reader; `StartTurn`, `ExplicitTick`, `CountClaim`, `Answer` the request threads;
`Debounce`, `Grace`, `Quiesce`, `Decide` the waits before a wakeup;
`RequestDrain`, `Enter`, `BeginPass`, `DrainTick`, `Recheck`, `Leave`, `Collect`,
`Reenter` the coalescing handshake. Sleeps are steps that may take any time.

### WorkScheduler

A scheduler has one user (`&mut self`), so its calls do not overlap. A dispatch
call is followed transition by transition, since each append may fail and end
it: `DispatchStarts` / `DispatchCancelled` (the control events are folded once),
`SelectBatch` (greedy admission, defined by what the chosen batch satisfies),
`LeaseNext`, `ExecuteBatch` (the driver's answer: per item ok, failed, missing,
or from another holder), `ReportItem`, `ReportNext`, `FailNext`, `DispatchEnds`.
`LeaseReadyItem`, `WorkerTransition`, `Heartbeat` and `ExpireStaleLeases` are one
action each. `log` holds, per item, what the journal says of it; `tokens` every
lease a single worker was ever given, so that late workers can use them.

### FencedLease

The lease columns seen without runs, journals or read models: `time`, `grant`
(owner, expiry and token of each run) and `belief` (what each worker thinks it
holds). `Acquire`, `Renew`, `Return`, `Reap` stand for claim, heartbeat, finish
and recovery, `Forget` for a tick that dies or gives up. A worker acts on a
clock it read some time ago, and its belief outlives the grant.
`TurnSupervisor` maps `clock`, `lease` and what a working tick holds onto them
(`Fenced`); `ImplementsFencedLease` says that all the rest of a tick only adds
stuttering to it.

### PushOutbox

`local` and `remote` are what the two refs have, as sets of commits; `intents`,
`approvals`, `receipts`, `failures` are the tables; `enq` and `exe` follow each
call of `enqueue` and `execute` from statement to statement, as processes of
their own that may die or return an error (`Crash`). `EnqueueReads` /
`EnqueueObserves` / `EnqueueInserts`, `Approve`, `ExecuteLoads`,
`ExecuteChecksApproval`, `ExecutePushes`, `ExecuteObserves` (`git ls-remote`),
`ExecuteReceipts`, `ExecuteClears` are the steps between which others act. A push
sends what the ref is at that moment, may be refused, and may land and still
report failure. `Commit`, `ForeignPush` and `Pull` are git used from elsewhere;
`Amend` takes commits out of the local ref (amend, rebase, reset: what replaces
them is a `Commit`), `ForcePush` out of the remote's. `amended` and `forced`
remember which, `granted` every approval.

### Services

The components below share no state. `Services` extends `PushOutbox`,
instantiates the others, lets `part` choose one of them for a behaviour, and
states their properties; `MC_Services` gives the constants for TLC. The runs and
the proofs speak of the same definitions through it.

### PatchTransaction, FileService, Workspace

`file` is the workspace: what is at each path is a set of edits, or nothing.
A call of the patch engine goes from `Propose` (the caller reads the files)
through `BeginApply` (journal mutex, attempt limit), `ReadTarget` and `Decide`
(preflight), then per target `CheckTarget`, `WriteTarget`, `VerifyTarget`, and
either way to `RollBack` and `Conclude`, each of which may meet an I/O error;
`Crash` ends them all. An editing session is `OpenText`, `SaveCheck`,
`SaveReplace`. `Workspace` lets both act on the same files and records, as
history, whose targets others touched (`disturbed`) and which writes fell between
a writer's comparison and its replacement (`unseen`).

### IntegrationApply

`head` and `tree` are HEAD and the main workspace, as sets of edits, each in a
file and of a version or the user; `patch`, `receipt`, `finalDiff`, `seal`, `lock`
the files of a run's candidate directory; `turn` writes the candidate, perhaps
twice. An apply call is `AcquireLock`, `ReadCandidate`, `ReadPatch`, `Verify` (with
any verdict of the semantic checks), `Gate`, `Capture`, `GitApply`, `CaptureDiff`
with the rollback, `WriteFinalDiff`, `WriteSeal`, `WriteReceipt`. The receipt is
read two steps before the patch, so the two may be of different turn executions:
`Files`, the target paths of the receipt, is what the base fence, the cleanliness
checks, the policy and the rollback look at, while `EditsOf` the patch is what is
written. `Restore` puts the captured bytes back, or only those of some files when
it fails in between. An I/O error of `git apply` or of the rollback is answered as
`io_error` (`integration_io_error`), and a receipt that cannot be written turns any
answer into an error (`Answer`). `UserMoves` edits, commits or reverts at any
moment.

### AgentLoop, LiveSubscription, TerminalSessions

`AgentLoop` is `run_agentic_loop_inner`: `BeginStep`, `DriverAnswers`,
`ExecuteCall` (under the tool policy), `ApplyPlanned`, `EndStep`, with `Cancel`
and `OthersWrite` in between. `LiveSubscription` is the application's task for
one run (`Subscribe`, `Receive`, `Resubscribe`; it sorts what it received by
sequence), the daemon's answer with its
tail of polls (`CheckCursor`, `Replay`, `Poll`) and the connection that may be cut
(`DaemonEnds`). `TerminalSessions` follows each `start_session` from its lookup
over the spawn to the registration, against `ShellExits`, `ReadReaps`,
`WriteInput`, `Stop` and artifacts that cannot be written.

### DesignImport, DesignRevision

`package` says whose contents each file of the registered package has; `stage`,
`payload` and `locked` describe the quarantines. An approval is `Claim`,
`Validate`, `LookAtTarget`, `Copy` for each file, `Resolve`, `Undo`; `Reject`
removes a quarantine entry by entry; `SaveLoads` and `SaveWrites` edit the
tokens; `contested` is history. `DesignRevision` numbers, creates and decides
about revision records (`ProposeNumbers`, `ProposeLinks`, `DecideLoads`,
`DecideWrites`).

## 4. Runs

| Run | Asks | Bounds, and why they are enough |
|---|---|---|
| `lease_recovery` | Two threads with one `supervisor_id` race for one turn through crashes, late heartbeats, expiry, recovery and errors in both the execution and the failure arm. `TypeOK`, `LeaseExclusion`, `DispatchedOnce`, `TerminalHasEvidence`, `OnlyHolderChangesLease`, and the refinement `ImplementsFencedLease` | TTL 1, clock to 2: a lease expires, is recovered, and its successor's expires as well. One crash, one error, one error of the failure arm. Ticks as slow as they like; role children, which may fail as the root does. The starts are quick, which `subscriptions` drops |
| `subscriptions` | The same race with a client that replays from any cursor and projects later; `ConversationFresh` | nobody is quick; one subscription, which may be a rebuild; objective children. One rebuild is what puts a running run back in the queue under its holder |
| `two_turns` | Two turns, a background and a foreground tick, two failing starts: `OneSupervisorPerTurn`, `SettledMessageAgrees`, `TerminalSticky` | no client, no crash, and no tick that dallies for the time of its lease. These three properties hold only there: `pause_resume` and `stale_rebuild` show what breaks them elsewhere, and a tick that sleeps through its lease breaks the first. Section 7 has the theorems, with less restrictive hypotheses |
| `settling` | With fairness, a crash, an error and a cancellation request: every accepted turn ends (`AcceptedTurnsSettle`), every journaled cancellation ends its run (`CancelledRunsStop`), and `ProjectionIsFold` | one supervisor, isolated execution, so a recovered turn may find the candidate of its first execution. The crash may only happen while the clock can still pass the lease's expiry (`TimeToExpire`), as real time always can |
| `early_tick`, `pause_resume`, `stale_rebuild`, `redispatch`, `lost_wakeup` | violations, see [Findings](#6-findings) | the least bound at which each appears |
| `resident_drain` | startup drain, two turn starts, one explicit tick: `TypeOK`, `OneDrainer`, `RequestHasTaker`, `AdmissionBounded`, `PairNeverStrands`, `ComesToRest` | a limit of two requests with three wanting in, two ticks per pass, a backlog of one: every limit is reached |
| `scheduler` | `TypeOK`, `LogAgrees`, `FencesCurrent`, `DependentsWait`, `ExecutingIsSound`, `NothingLeftRunning`, `TerminalStays`, `DispatchReturns` | four items: a dependency, a path conflict, a shared provider with a limit of one, two admitted workers; one single-worker lease, TTL 0, one failing append or bad answer. The case of one worker leasing the same item twice is beyond these bounds; `FencesCurrentHolds` covers it |
| `services` | Patches and editors (`AllOrNothing`, `PartialWriteReported`, `NoSilentOverwrite`), candidate apply (`ReceiptTellsTruth`, `AppliedAsVerified`), push outbox (`ReceiptMeansLanded`, `PushedWithApproval`), agent loop (`OutcomeListsApplied`), subscription (`TimelineIsPrefix`, `EndIsSeen`), terminals (`NoShellLost`), design packages (`DesignAnswersStand`), `ServicesTypeOK` | `part` chooses one component per behaviour: they share no state. Two proposals over three files with all four operations, one editor, two I/O errors and a crash; a candidate written twice, whose second patch edits a secret-looking file besides the first one's, and two apply calls, one I/O error or crash, and two moves of the user; one intent for a protected branch enqueued and executed twice, two approvals, one commit here and one elsewhere, and one failing push, crash, amend or forced push (the enqueuers and the executors are interchangeable, `PushSymmetry`; the temporal property speaks of another part); three agent steps of two calls; a journal of four events, two things that break; three starts of one session id; two quarantines of one package and two approvals with an error and a crash; two proposals and three decisions. Each lets two callers of the same kind meet at every pair of their steps, and one failure hit every step |

Deadlock checking is on for WorkScheduler. It is off in the other runs, whose
program really stops: `resident_drain` when the client sends nothing more, the
parts of `services` when their calls are answered, the TurnSupervisor runs when
every turn has settled or the bounds on the clock, ticks and faults are used up.

What some properties do not say. `PairNeverStrands` speaks of two wakeups, when
neither was suppressed by an explicit tick, nor gave up at the quiescence
deadline, nor reached the cap of a pass or an erring tick (`NoWayOut`): these
are the documented ways to leave work to a later wakeup. `DispatchedOnce` holds
because a second dispatch collides with the first lease event of the root item,
which is also why a recovered turn cannot be retried (`redispatch`).
`TerminalHasEvidence` excepts a failure arm that could not record the failure.
`NothingLeftRunning` speaks of calls whose appends succeeded and whose answers
were for the items asked.

`AllOrNothing` and `PartialWriteReported` speak of calls whose files nobody else
touched meanwhile, `NoSilentOverwrite` of writes but not of rollbacks, which put
the preflight's bytes back whatever is there. `ReceiptTellsTruth` and
`AppliedAsVerified` except the user who moves between the verification and the
apply, which nothing in the code prevents. The first says nothing of a call that
ends with an error or `io_error`, whose patch may be there, in part or whole, and
of a failure only where patch and receipt are of one turn execution: otherwise the
rollback may not cover a file the patch wrote. The second speaks of the receipt's
files; those that only a later patch edits are neither asked for nor fenced.
`PushedWithApproval` asks for an approval of the row the push is for, not of what
the ref is when it is pushed; `ReceiptMeansLanded` excepts the commits that an
amend, a reset or a forced push took out of a ref. Section 6 has what the code
does there. `DesignAnswersStand` excepts two quarantines of one package approved at
the same time and a rejection that overtakes an approval; two decisions about one
revision that were both allowed are both reported, and the later one stays.

## 5. Fairness

TurnSupervisor: weak fairness on each turn start, tick, heartbeat, client
continuation and the clock. Threads are the operating system's to schedule; a
tick that runs keeps running; a request that appended goes on to project. That
ticks are *requested* again and again is an assumption about the environment
(the resident drain at startup and after each turn start, and the application's
own ticks); without it a recovered turn waits for the next wakeup. Accepting a
turn, crashing, failing and sending control requests are never fair.

`Prompt` is no fairness but a bound on slowness: with `"ticks"`, a tick claims
before the lease it computes is over, and a lease that can still be renewed is
renewed in time, which is what a heartbeat interval of a third of the TTL is
for. With `"starts"`, a turn start bootstraps its run before a tick claims it.
Runs that leave one out let the corresponding threads be as slow as they like.

The subscription part of `services`: the daemon answers a request it has taken,
and the application's task asks and consumes (`Serve`, `Subscribe`, `Receive`).
Nobody must retry, and events need not come. The other parts have safety
properties only.

ResidentDrain: weak fairness on every thread that has something to do; the
client need not send a line. WorkScheduler: weak fairness on the steps of a
dispatch call; that the driver returns is what `WorkerDriver` obliges it to
(`opensks-scheduler/src/lib.rs` 314-334).

## 6. Findings

Each is a run in which TLC finds the behaviour, against a sentence of the
repository.

- **`pause_resume`** (`OneSupervisorPerTurn`). A heartbeat only renews a running
  run. A pause makes a healthy supervisor's heartbeats fail, its lease expires,
  a resume makes the run recoverable, and a second supervisor executes it beside
  the first.
- **`stale_rebuild`** (`TerminalSticky`). A subscription at cursor 0 replays, the
  supervisor ends the run, and the late rebuild from the old events takes the
  ended run back to an active state.
- **`redispatch`** (`RedispatchIsClean`). The scheduler's event ids count from zero
  in every dispatch, so a recovered turn meets the lease event of the dispatch
  that died, and the retry fails the turn.
- **`early_tick`** (`RebuildEqualsLive`). A tick may bootstrap a run its start
  request has not bootstrapped yet; the start then fails on the collision and
  projects its failure ahead of journal order, so live state and rebuild differ.
- **`lost_wakeup`** (`NoTurnStranded`). A drainer clears `active` and collects the
  pending bit in two steps. With three wakeups it may collect a bit meant for
  the drainer that came in between, and an accepted turn stays queued.

Three more, met while modelling. They are in the models as the code has them, and
no run has them as a claim:

- **An approval does not go stale when the ref moves.** Enqueue and approve, then
  commit, amend or reset, then execute: the digest is recomputed by the next
  enqueue only, so `execute` finds the approval valid and pushes
  `<ref>:<ref>` as it is now (`opensks-git/src/push.rs` 359, 608-615), and writes
  the receipt under the key of the old oid. `opensks-contracts/src/git_push.rs`
  14-16 says that "if the oid or ref moves, the digest changes and the stale
  approval no longer matches", and `push.rs` 12-13 and 316-318 say the like. What
  is left is `PushedWithApproval` and `ReceiptMeansLanded`.
- **A failed rollback is reported as an unmodified workspace.** If the final diff
  cannot be taken and `restore_rollback` fails at a file (`opensks-git/src/lib.rs`
  434, 780-798), part of the patch stays, and the receipt says `failed`,
  `integration_io_error`, `main_workspace_modified: false`
  (`opensks-daemon/src/lib.rs` 6143-6163). `ReceiptTellsTruth` keeps `io_error`
  apart for this reason.
- **Receipt and patch may be of different turn executions.** The target paths come
  from `candidate.json` as read at 5701, the patch from `candidate.patch` as read at
  6673. A recovered turn that writes its candidate in between has its patch applied
  under the target paths of the earlier receipt: a file only the later one edits is
  outside the policy, the base fence, the cleanliness check and the rollback.

## 7. Proofs

All from the named ASSUMEs of the modules, for any number of runs, threads,
clients, items, calls, files and faults, and any bounds. What they assume:
positive TTL and run count, a holder that is nobody's id, the driver not among
the workers, finitely many items and proposers, a strict dispatch order, names
that stand for "nothing" being nothing else, and for patches a plan that is not
empty (`WorkspaceAssumption`), because the one caller modelled, the agentic loop,
applies only what it has planned. The bounds of the other parts are natural numbers
(`AgentAssumption`, `LiveAssumption`). TLC evaluates each of them in a run.

**TurnSupervisorProofs**: `Typing`, `LeaseExclusionHolds`,
`OnlyHolderChangesLeaseHolds`, `Refinement`. Exclusion is not inductive: it speaks of expiries
threads remember. `LeaseInv` adds that tokens are issued once
(`FencesIssuedOnce`: a working thread's token is at most the run's, and no two
working threads have the same) and that a lease stands as its holder wrote it
until the expiry the holder was told (`LeaseStands`). Claim and recovery preserve
it because both take an expiry as over at the moment a holder stops believing in
it; the supervisors' sharing one id does no harm, because the token decides.
Typing needs `BatchInJournal` (nobody projects events that are not there) and
`OutcomeKnown`. Each action has a step of its own. `Refinement` maps the initial
states, and each action to one abstract step or a stutter: with `FencesIssuedOnce`
no two beliefs have one token, so changing one tick's belief is changing one
worker's, and the WHERE clauses give the abstract guards.

**ResidentDrainProofs**: `Typing`, `OneDrainerHolds`, `RequestHasTakerHolds`,
`AdmissionBoundedHolds`. The counter equals a cardinality, so each action moves
one thread into or out of the counted set and the finite-set lemmas do the
arithmetic. The bound needs that one reader admits one line
at a time (`AdmittedRequests`), although its check and its count are two steps.

**WorkSchedulerProofs**: `Typing`, `LogAgreesHolds`, `FencesCurrentHolds`,
`DependentsWaitHolds`, `TerminalStaysHolds`. In two stages: first every action is
shown to be, for each item, one of a few steps (a valid commit, a grant, a
heartbeat, an expiry, nothing), then each invariant is proved over those. The
strengthening says that a lease in memory was granted in the journal
(`LeaseGranted`), likewise every token a worker still holds (`TokensGranted`), and what
each stage of a dispatch call knows of its items (`DispatchKnown`).

**PushOutboxProofs**: `TypeCorrect`, `ReceiptsAreTrue`, `PushesAreApproved`, for
any number of intents, calls, commits, approvals and mishaps. A receipt is written
two steps after the push it stands for, so the invariant carries what a call knows
along: the row it read names commits the ref has, but for those amended away
(`RowsBehind`), whoever is about to push has an approval for the digest of that row
(`PushApproved`), whoever has pushed has the row's commits on the remote, but for
those somebody took out (`PushLanded`), and the oid it then read back names what
was there (`OidSeen`). The histories `amended` and `forced` only grow, which is what
keeps the exceptions stable.

**TurnJournalProofs**: `DispatchedOnceHolds`, `TerminalHasEvidenceHolds`,
`ConversationFreshHolds`, `OneSupervisorHolds`. Dispatching once is not inductive:
a second tick is stopped by an id, so `DispatchInv` says that whoever is past the
dispatch has its lease event in the journal, that it is the only one on its run,
that a journal holds one kind of end, and that a run with an end was leased. Since
events are never taken out, the id stays taken. `EvidenceInv` follows an error
through the failure arm, so that a terminal state without an end event means that
an append of this arm, or of a start, had failed. `ConversationFresh` needs only
the nine steps that write a projection. `OneSupervisorHolds` is proved under `Undisturbed` (ticks are
prompt, nobody pauses, nobody subscribes), which the run `two_turns` satisfies.
Each of the three is needed: `pause_resume` shows it of the second, and with its
bounds but one rebuild, or a tick that sleeps through its lease, in place of the
pause TLC finds two ticks on one turn as well. `SoleInv` says that a working tick's lease is still
renewed in time and that no batch of events takes a running run back.

Three more theorems say where the claims that the runs of section 6 refute do
hold, and `SettledMessageAgrees` besides:

| Theorem | Hypotheses beside `Undisturbed` | Invariant |
|---|---|---|
| `TerminalStickyHolds` | `ArmsHold`: the failure arm meets no error of its own, nor does a start, unless starts are prompt and nobody cancels | `StickyInv`: no tick falls back to writing "failed" past the journal, because the failures in a journal are older than the lease of whoever fails next (`FailuresPast`) |
| `RebuildEqualsLiveHolds` | `InOrder`: starts are over before ticks begin, nobody cancels, the failure arm does not fail. Crashes, errors, failing starts and failing children are allowed | itself, with `StartsFailAlone` (a journal whose turn is still being started knows no end but that start's failure) and `StickyInv`. A tick projects the journal from its beginning, so what ends the run live is what ends it in a rebuild |
| `SettledMessageAgreesHolds` | `Uneventful`: as `InOrder`, but with no crash, no error of an execution and no objective children; errors of starts and of the failure arm are allowed | `StraightInv`: what a tick at each step has and has not journaled, that a journal knows one way to end, and that the projection and then the message follow it |

TLC gives a counterexample without either part of `ArmsHold`, and without any part
of `InOrder` (that of the start is `early_tick`). The run `two_turns` is an
instance of all of them.

`ProjectionIsFoldHolds` needs no invariant but the types: `StateAfter` and
`TerminalKind` satisfy the equations of the loop event by event
(`StateAfterAppend`, `TerminalKindAppend`), and two functions that begin alike and
go on alike cannot have a first place where they differ (`SameFold`, from the
well-foundedness of the numbers, in place of an induction). From the same lemma
follows `BatchesCompose`: how a journal is cut into batches does not matter for
the state.

**SchedulerBatchProofs**: `ExecutingIsSoundHolds`, `NothingLeftRunningHolds`. The
invariant follows a batch from selection to answer: which items still wait, which
one is being leased, which run under the driver's lease. What the greedy admission
chose is sound, and never empty because among the ready items one is first in
the order of dispatch, which rests on the well-foundedness of the numbers.

**ResidentDrainProofs** also has `PairNeverStrandsHolds`. With at most two roused
threads, a queued turn always has somebody on the way to drain it, or the bit is
set, or a thread is about to reenter and finds nobody in its place (`PairInv`).
The last is what a third wakeup breaks (`lost_wakeup`).

**WorkspaceProofs**: `AllOrNothingHolds`, `PartialWriteReportedHolds`,
`NoSilentOverwriteHolds`, `ServicesTyping`. `TransactionInv` relates a call to the files it has
written: its place in the plan says which targets have the new text and which
the old one, as far as nobody else touched them; what preflight saved is what was
there, so a rollback restores it; and the attempt of a call at work is the latest
of the journal and its last event is `planned`, so a call that dies, or whose
rollback fails, leaves a journal the recovery report shows to an operator.
`OverwriteInv` says that a file a writer is about to replace is as it compared
it, unless it was written since, in which case `unseen` has it. `ServicesTyping`
is the type invariant of the whole composition. Types alone are not inductive:
the number of attempts, the quarantine's versions, a loop's calls and a
subscription's cursors stay in their ranges only with what the parts' invariants
know, so `ServicesInv` conjoins those of all parts, each kept by its own part's
steps and by the steps of the others, which leave its variables alone.

**ServicesProofs**: `ReceiptTellsTruthHolds` and `AppliedAsVerifiedHolds`
(`IntegrationInv`: what a call past each of its steps knows of the patch it read,
the receipt's files and its approval; two calls are never both at work under the
lock, and what the one would roll back to has, in the files of its receipt, what
the other reported, so that a rollback spares it however far it gets,
`RestoreSpares`), `OutcomeListsAppliedHolds` (`LoopInv`), `NoShellLostHolds` (`ShellInv`:
the step of a start says what has become of its shell), `DesignAnswersStandHolds`
(`ImportInv`, with `contested` where two approvals met; `RevisionInv`: the numbers
taken are 1 to the number of proposals answered), and `TimelineIsPrefixHolds`
(`LiveInv`: the frames of an answer are the events after the client's cursor one
by one, whatever ends it comes last, and no cursor is beyond the timeline).

**Model-checked only.** Liveness (`AcceptedTurnsSettle`, `CancelledRunsStop`,
`ComesToRest`, `DispatchReturns`, `EndIsSeen`) and ENABLED are beyond the prover.
Every safety property of the passing runs has its theorem; under hypotheses on the
environment: `OneSupervisorPerTurn`, `TerminalSticky`, `SettledMessageAgrees`. That
the refuted claims fail is TLC's to show.

## 8. What is not modelled

In the modelled components: `runs.last_event_sequence`, timeline rows, titles
and `updated_at`; steering; the early failed outcome of a prompt that requires
raw content (`opensks-daemon/src/lib.rs` 2690-2700); idempotency keys of
requests; model routing; applying a candidate; request threads that panic, and
the end of the input; event payloads, digests, redaction and paging. In the
scheduler: `simulate_until_idle`, the unfenced `transition` call, states nothing
reaches, steering targets and the reasons of control commands. Control events that arrive during a
dispatch call are equivalent to events after it, because the call reads them
once.

Smaller abstractions, each of which leaves the properties as they are: claims ignore
`archived = 0` (`opensks-conversation/src/lib.rs` 1554); the bootstrap's events are
one; an item counts against one pool, where the code counts provider and model
apart (`opensks-scheduler/src/lib.rs` 461-509); of the dispatch entry points,
`dispatch_until_idle_with_control` is the call, while the daemon also uses
`dispatch_ready_batch` and `dispatch_until_idle` (`opensks-daemon/src/lib.rs`
4781-4803), which are one round of it, and its rounds without the look at
the control events.

In the services: an I/O error of the patch engine before its first journaled event
(`opensks-patch-engine/src/lib.rs` 258, 301, 321) and a journal line that a failing
append leaves behind (1215-1226); the file service's checks of times and sizes,
which only refuse more (`opensks-file-service/src/lib.rs` 188-196); the partial
writes that an error of the engine may leave under the agentic loop; a cut of a
subscription within its first line; the removal of a promoted directory entry by
entry (`Undo`). In an apply call, the git commands of a verification are one step,
`git apply` writes all files of a patch or none, a git command that fails for a
reason of its own (and then writes nothing) is left out, and a file that a failing
rollback writes is written whole. That a patch's text asks for approval
(`Destructive`) is in the proofs; the run has none. An amend leaves a commit on the
branch.

In the services also: paths are abstract, so symlinks, escapes, scopes and the making
of directories are only reasons to refuse; the semantic checks of a candidate and
the defences of an import may give any verdict; git is a few operations on sets
of commits or edits. Not there at all: creation, recovery and cleanup of
worktrees, the adapters' own HTTP and process handling, the tools of the agent,
the terminal's bytes and blocks, design audit, compiler and activation, stream
routing, and the application's views.

The other components are in the inventory with the reason or their place in the
plan. Most lines of the repository are theirs: rendering of reports and receipts
in the legacy root crate and the command line, parsing of verbs, type
definitions, HTTP of providers, ranking and indexing. They keep no state from one
call to the next, or none that two actors share, and a model of them would say
what their code says; so the share of lines the models stand for stays small.

## 9. Running it

    tlc -workers 2 -config scheduler.cfg MC_WorkScheduler
    tlapm WorkSchedulerProofs.tla

Each `.cfg` belongs to the MC module that `PROJECT.json` names for it. The
longest run takes about two minutes, the longest proof some minutes more.
`mutants` in `PROJECT.json` names, for every property of a passing run, a
plausible wrong form of a definition (kept next to the right one and marked
`Mutant`) under which the property fails.
