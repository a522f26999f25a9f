# A TLA+ model of the Tribe campaign runner

Tribe (`src/plugins/tribe`) works through a *campaign*: a set of cards with
dependencies, each a plan of tasks that a Claude Code session carries out on a
branch of its own, opens as a pull request and merges. The program that drives
it is the campaign runner, `src/plugins/tribe/scripts/runner`; paths below are
relative to that directory unless they start with `src/` or `../`. A runner
process selects cards, starts sessions, runs the plan's Done commands on what
they deliver, verifies the merge and records everything in
`campaign-state.json`. Around it are the sessions themselves, git and GitHub,
people who rule on escalations, other runner starts, a watchdog that relaunches
the runner, a supervisor that starts the watchdog and answers escalations, a
viewer that shows what the sessions write, and the registry of harness gaps that
the cards' gates keep in the repository.

The models are about control: which step may follow which, what is on disk when
a step is interrupted, what has gone stale by the time it is used. Texts,
prompts, paths and formats are left out.

## 1. Inventory

| Component | State it keeps | Operations | Hard part | What makes it correct |
|---|---|---|---|---|
| Campaign state and selection (`core/state.ts`) | `campaign-state.json`: status, dependencies, branch, session, passes per card | parse and validate, `computeBlockedCardIds`, `reconcileBlockedStatuses`, `nextCard`, `resetCard` | `blocked` is stored but derived; `nextCard` rewrites the whole state on every call | the fixpoint is right whatever was stored; selection never disturbs a card in flight; nobody is forgotten |
| Run loop (`core/loop/run-loop.ts`, `run-reason.ts`) | the state in memory, `processed`, the active workers, the STOP flag | `runLoop`, `runPass`, `runPassPool`, `runCardTurn`, exit code | workers interleave with a selection that is suspended in the middle; budgets are claimed optimistically; retries | budgets hold, an outcome is final, dependencies ship first, every run ends |
| Card actions (`core/loop/card-actions.ts`) | card entry, escalation files | `actOnCard`, `escalateCard`, `shipCard`, `performRevertAndRedo`, heal of residue | several writes per outcome, kills in between; destructive git commands on facts probed earlier | a kill loses nothing but what is derived again; work is torn down only on purpose |
| Phase derivation (`core/loop/phase.ts`) | none | `deriveCardPhase` | a failing query reads as an absence | pending escalations park; work on a branch is found again |
| Turn driver and Done runs (`core/loop/turns.ts`, `core/done.ts`) | passes per task, `doneSha`, attempts | `driveCardTurns`, `applyPass`, Done runs | the commit moves while it is tested; one attempt budget for several failures | passes on record are one story about one commit; a call ends |
| Sessions (`core/session.ts`, `core/api-error.ts`) | session id, wall clock | start, resume, time out, terminal lines | an aborted session may still start, commit, push and merge | a late message or commit never ships unverified work |
| Merge gate (`core/merge-gate.ts`) | none | decide before a session's merge command | decision and merge are two moments | what merges through the gate is what passed |
| Verification (`core/verify.ts`) | none | `verifyShipped`, two looks with a heal between | reads refs that are stale, and answers that fail | shipped means merged and proven |
| Lock and `reset-card` (`core/loop/lock.ts`, `cli/main.ts`, `adapters/run-io.adapter.ts`) | `.runner.lock` | acquire, release, reset | look and claim are separate system calls; debris of killed processes | one runner at a time; no lost update |
| Watchdog (`core/watchdog`) | child, counters per cause, the wait ordered last, whose silence is timed | observe the disk, decide, spawn, adopt, wait, exit | a run has no directory yet when it is forked; the disk is full of earlier runs; each relaunch has a cause that may come back | relaunches are budgeted and paid for; an old run decides nothing; a hang is reported |
| Supervisor (`core/supervisor`) | `supervisor/state.json` (rounds, spawns, retriggers, bodies seen), `status.json`, `NEEDS_OWNER.md` | rule on an escalation, close, resume, park, supersede a park, start the watchdog | kills between its writes; parks that outlive their reason; budgets that refill one another | no body is ruled on twice; one watchdog; an acknowledged park is spent; every invocation ends |
| Viewer (`../viewer`) | a tail per connection, a window of rows per client | tail a file, pair calls with results, stream, page back | rows split over reads, files that rotate, answers that overtake frames | the window is one range of the file; the client catches up |
| Gap registry (`../gaps`) | `.tribe/harness-gaps.jsonl` and debt entities, in the repository; a gate report per card | gate, reconcile, rule, count debts, create issues | every branch has a copy; merges bring them together; tools are killed between two writes | an id names one gap; a ruling is final and backed by an entity; debt does not grow past the gate |
| CLI, ledgers, metrics, prompts, scripts, evaluation | caches, files | read-only views, batch checks | - | not modelled, see section 5 |

They interact as follows. The run loop and the workers share one state object in
one Node process; a worker runs only where the pass awaits. Runner starts and
`reset-card` share the state file and the lock. The runner and its sessions share
the git repository and GitHub without any lock. The watchdog and the supervisor
never talk to the runner: they start processes and read what those leave on disk -
run directories, exit codes, logs, the lock, escalation files, status files.
People act through files: rulings, `STOP`, `NEEDS_OWNER.md`. The viewer only
reads. The gates of the cards meet in git merges.

`PROJECT.json` lists all components, the hazards at their lines, and for each
modelled definition the lines it stands for.

## 2. Modules

* **`DependencyGraph`** - cards, statuses, acyclic graphs, `BlockedCards` (the
  least set closed under "waits for a parked card") and `Reconciled`. Shared by
  the next three.
* **`BlockedLoop`** - the loop of `computeBlockedCardIds`, visit by visit over the
  key order, then `reconcileBlockedStatuses`; graph, order and statuses are
  arbitrary. It implements the abstract operators of `DependencyGraph`, on which
  `CampaignPass` is built.
* **`Campaign`** - the abstract campaign: what whoever reads the campaign's directory
  is promised. Per card a status on disk, a question asked or ruled on, and whether
  somebody works on it. A card is taken up, shipped or parked only when all it
  depends on is shipped; a question is on disk before its card is parked; a write
  about one card may only clear or set the derived status of another, and blocks
  only a card that nobody works on.
* **`CampaignPass`** - a campaign and the runner: memory and disk copies of every
  card's status, escalation files, plans, STOP, one `stage` per card for its turn
  and one `pc` for the pass. `CanYield` is Node's rule that a worker's callback
  runs only while the pass is suspended at an await; kills fall between any two
  system calls, so `escalateCard` and `shipCard` are two actions. The serial pass
  is `maxConcurrent = 1` of the same actions. What a session or a verification
  answers is free; that freedom is refined by the next module. `CampaignKept` says
  that it implements `Campaign`: `status` is the disk's, `working` the cards in a
  stage or with a session given up on, `forced` the command line's flag.
* **`CardTurns`** - one card's turn, await by await: phase derivation, session
  turns, Done runs, the merge gate, verification, the heal between its two looks,
  revert-and-redo; and beside it what sessions, a session the runner has given up
  on, and people do to the branch, its remote, the PR and the base. Commits are
  numbers in the order they are made. Every change of the card in memory is
  written in the same synchronous span, so one copy stands for memory and file.
* **`RunnerLock`** - `.runner.lock` and the state file, one action per system call:
  `existsSync`, read and parse, open-and-truncate, write, `rmSync`. Starts and
  resets are processes that may be killed anywhere. A write through a handle whose
  file was removed has no effect (`inode`, `fd`). Releasing does not look whose
  lock it removes, as in the code.
* **`Watchdog`** - `runWatchdog`'s loop over the runners of one campaign home. A
  runner is what it leaves on disk: its lock, its run directory, `run.json`, the
  age and the tail of its newest log. Between the fork and the run directory the
  child is invisible, which is what `priorRunIds` is for; the directory is there before
  `run.json` is, and when that cannot be written the run goes on without one
  (`MakeRunDir`, `WriteRunRecord`, `FailRunRecord`), so a look in between finds a living
  runner without a record. `Observed` is
  `observe()`, `decide` the whole decision table, `Loop` one round. A pass that has
  ended frees the lock first and then writes its report and finalizes `run.json`
  ("reporting"); the watchdog may look in between. Time is a
  tick: ages and waits count ticks and stop at the value beyond which nothing
  depends on them. Runners that hang, crash, are killed, leave no record, or are
  started by hand are the environment.
* **`Supervisor`** - `runSupervisor`'s loop: `decide` with its precedence, the ruling
  and closing sessions, the five caps, parks, acknowledgement by deleting
  `NEEDS_OWNER.md`, supersession of a park by the facts on disk. The writes of
  `state.json`, `status.json` and `NEEDS_OWNER.md` are steps with kills in between,
  except where `persist` is followed by a `publish` that leaves `status.json` as it is to
  every reader (`PersistRun`, `SessionEnds`: its terminal is null already). Watchdogs are
  processes that share one status file, which names the one that wrote it last; a child
  of a supervisor that was killed or stopped goes on, and until it has written its status
  the next supervisor does not know of it. The runners below are seen only as facts
  about runs.
* **`Transcript`** - the pure half of a session view: `advanceTail` (bytes to
  complete rows, with the cap on a row's size, offsets, truncation), `findWindow`
  (the last rows before an offset) and `pair` (results to calls, patches, orphans).
  Bytes are a newline and one letter per kind of row.
* **`EventStream`** - one session view: the file, the poller of the connection, the
  frames under way, the client's controller and its row store, and the two requests
  that change the window beside the stream.
* **`GapRegistry`** - the registry of gaps over the branches of a repository: the
  gate of each card (`gap-gate.ts`, `gap-reconcile.ts`, `gap-candidates.ts`), the
  rulings of the closing branch (`gap-rule.ts`), the debt meter (`debt-count.ts`),
  the issues (`debt-backfill.ts`), and git's merges and conflicts between them.
  A fingerprint or check is a pattern with the files it ranges over; code is the
  set of its hits, at most one of a pattern in a file (two lines that are found in one
  file are two files here). Files can be deleted. A grep fires when it finds something and
  ends with exit code 0: not when one of the changed files it is given is gone, nor when it
  times out (`Failing`). Changes of both sides to one file may be in lines apart or
  the same, and then merge line by line (`MergedCode`), or be rebased; only what cannot
  be merged is a `Conflict`.
* **`EventStreamInvariant`** - the inductive invariant of `EventStream`, part by part;
  no theorem and no code.
* **`CampaignPassProofs`, `RunnerLockProofs`, `CardTurnsProofs`, `WatchdogProofs`,
  `SupervisorProofs`, `GapRegistryProofs`, `EventStreamServerProofs`,
  `EventStreamProofs`** - theorems. The first holds those about `BlockedLoop` too, the
  seventh the lemmas about `Transcript` and the steps of the file and of the poller, the
  last the steps of the browser and the theorems.
* **`MC...`** - instances for TLC.

The modules share boundaries rather than variables: what `CardTurns` does in a call
is one choice of outcome in `CampaignPass`; the exit codes `CampaignPass` derives
are the `PassCodes` of `Watchdog`; the reasons `Watchdog` ends with are the
`TerminalReasons` of `Supervisor`; the escalation files of `CampaignPass` are the
bodies of `Supervisor`. Composing them in one state space is out of TLC's reach.

Variables keep the names of the code where there is one: `processed` is
`outcome` (with its entries), `state.cards[id].status` is `mem` and `disk`,
`doneSha`, `passed`, `attempts`, `sha` are those of `turns.ts`, the counters of
`Watchdog` and `Supervisor` those of their loops. Operators marked "Mutant of" are
the plausible bugs with which each property is tested; they are not part of a
specification.

## 3. Runs

Passing runs (`tlc -config <run>.cfg <module>`):

* **`CampaignPass_safety`** (2.2 million states). Cards a, b, c; b waits for a; c is
  independent and competes for the second slot; the sequence is against the
  dependency order. Runs follow one another with any of three command lines: a
  pool of two, a pool of two with `--max-cards 1 --cards b,c`, a serial
  `--include-escalated --cards a,b`. One kill, STOP or reset; rulings, plans and late sessions at any
  time. Shows that cards in flight have all their dependencies shipped in memory
  and on disk, that memory is never ahead of the disk but by what `nextCard`
  derives again, that both budgets hold, that a pass that runs out leaves
  `blocked` exact and forgets nobody, that selection leaves cards in flight and
  late writers alone - and, as `CampaignKept`, that every step is a step of the
  abstract campaign or a stutter: questions are asked before cards are parked,
  open questions park, nothing un-ships. Two cards in flight, one waiting and a
  second run after each end are what these properties need to break: every mutant
  is found in this instance.
* **`CampaignPass_completes`** - two cards, a pool and a serial re-trigger. Every run
  ends, and no history of a kill or reset, escalations, timeouts and partial
  re-triggers strands a card (see Fairness).
* **`BlockedLoop`** - every acyclic graph, key order and status of three cards: the
  loop ends, with the least fixpoint, and a second call changes nothing. A chain
  of three visited in the wrong order needs more than one pass.
* **`RunnerLock_serial`** - three starts and one reset, each killed anywhere: if no
  process looks at the lock between another's look and its claim, they exclude
  one another and no update of the state file is lost. Three starts allow a holder,
  a dead holder's lock and a newcomer together.
* **`CardTurns_safety`** (903,242 states) - two tasks, two commits, one fault
  (kill, reset, merge past the gate). What is shipped was merged at a commit on
  which the runner saw all Done commands pass; passes on record are the first
  tasks of the plan on one commit; work is reverted only after an operator's
  reset; a merge the first look saw and fetched is an ancestor for the second;
  every call of `actOnCard` ends, even when the session answers `TASK_DONE` at
  delivery for ever. Two commits are what a push after a pass, or passes on
  different commits, need; a call that fails leaves for a reset what a kill does.
  The safety properties were also checked once with two faults (1.6 million states).
* **`Watchdog`** (712,865 states) - three runners, one fault, both modes, one unit of each
  budget, two backoff steps, with a fallback model; a log that tells nothing, an
  overload under a quota that is two ticks away, or a permanent error.
  An invocation starts no more runners than its budgets and the waits it has served
  add up to; a crash or lock relaunch is paid for by a run that has ended since
  the start or, once, by a living run without a record that was taken for dead; never
  two children; exit codes of runs that were over at the start
  decide nothing; nothing is relaunched after an error no relaunch can cure; a
  runner that hangs is reported. Three runners are an old run, the child and a
  relaunch or a stranger; two of them can be alive at once.
* **`Supervisor`** (752,059 states) - one card that escalates again and again, one round,
  two spawns, two watchdog runs, two watchdogs alive at a time, one retry, one kill, run
  by hand, state file of another version or STOP before a child has written its status.
  No body is ruled on more often than the retries of one spawn; a watchdog is never
  started beside the invocation's own child, nor beside one that has written its status,
  unless there have been two before; the invocation that reads the owner's
  acknowledgement of a terminal does not park before a fresh watchdog has run, but for
  the run cap; a superseded park is not published again over the same disk; every
  invocation ends. Two watchdogs are what a kill before the first publish needs. One card suffices because the caps
  over all cards are counted separately from its rounds, and both can be reached.
* **`EventStream`** (426,268 states) - files that are empty, end within a row after a
  call, or end within a row that is too large; five bytes more in rows of up to
  two; reads of up to four bytes, frames of one row; one lost connection, read error, rotation or deletion;
  a page asked back and a return to the tail. The window is one range of the file,
  a result is shown once, the reader at the tail comes to see the last row. Rows
  are larger than the cap, larger than a read, or smaller than both. `OneRange` and
  `ResultShownOnce` except a window to which an answer was applied that was asked for
  another, or to which rows were appended that a reload of the tail had overtaken;
  `ResultShownOnce` also excepts a call that is too large to be shown. Without the
  exceptions TLC refutes them. The run asks for one page of each kind at a time; the
  properties were also checked once on larger instances (up to 7.2 million states).
* **`GapRegistry`** (1,229,637 states) - two cards, one closing branch, three files, two
  patterns of one category over the same files (so each is like the other), a
  repository the tools have never seen or one with a debt, two edits (that remove a hit,
  move it, or delete its file and leave hits elsewhere), one Tracker report per card, one
  fault, two backfills. An id names one gap in
  every tree; nothing follows a ruling; a debt ruling has its entity; a debt that
  grew did so through a branch without the entity or through one that removed a hit the
  default branch had removed too; a gap that is open on the
  default branch is in a merged card's list unless a merged card was edited or rebased
  after a finding, or a gate of its had a grep fail; one issue per debt unless two
  backfills overlap. Each exception is needed: without it TLC refutes the property.
  Two edits are one card's hit that becomes a debt and another's that adds to
  it, or two cards that move the same hit to different files.

Runs in which TLC finds a promise of the repository broken (the `findings` of
`PROJECT.json` quote the lines):

* **`RunnerLock_exclusion`** - two starts that both look before either writes both run.
* **`CardTurns_gate`** - a push between the merge gate's look and `gh pr merge` is
  merged without a Done run. Verification then escalates, after the merge; that
  is why `ShippedIsProven` still holds.
* **`Watchdog_once`** - with `--once`, a runner that ended overloaded is never
  relaunched: each invocation orders the first backoff from its own start, exits
  and forgets it. The quota wait, whose end is absolute, is not affected.

Other statements of the repository that the models contain a counterexample to,
recorded as hazards: a permanent API error that arrives during the top-up's
planning question does not stop the next launch (`CampaignPass`); a commit made
after the heal's probes is dropped with its branch, and a card reset after its
merge escalates before any session has worked on it (`CardTurns`); a page of
history is put before a window it does not adjoin, and rows that a reload of the tail
overtook are put after it (`EventStream`, `Contiguous` without the exceptions of
`OneRange`); a gap that no longer fires - its hit is gone, a changed file that its grep is
given was deleted, or the grep timed out - is opened again
under another id by the report that named it, and drops out of the gate's list
(`GapRegistry`, `OpenGapsAreListed` without its exceptions); two cards that remove the same
hit of a debt and add one each are both green, and together leave the debt above its
baseline (`LeaksAreUnguarded` without `removed`; `debt-count.ts:58-59` says that a leak
was merged without the gates); a runner started by hand that has no `run.json`
yet is taken for dead, and a crash relaunch is charged to it and started beside it
(`Watchdog`, `BudgetsAreEarned` without `misread`; `watch-loop.ts:194-196` calls such a
crash confirmed by a dead pid); a supervisor that is started after a kill, or after STOP, and before
the last one's watchdog has written its status starts a second one (`Supervisor`,
`NeverTwoWatchdogs` without its exception; `decide.ts:144` says never); an acknowledgement
that was read by an invocation that STOP, the run cap or a kill ends before its fresh watchdog is
forgotten, and the next invocation parks on the same terminal
(`AcknowledgedParkIsSpent` is about the one that reads it; `decide.ts:33-36` says that the
terminal is spent); a start killed between
truncating and writing the lock leaves a file on which every later start throws
(`RunnerLock`).

`CHECK_DEADLOCK FALSE` is set where the modelled system stops: a loop that has
ended, processes that come once, a stream that is closed, bounds on commits, runs,
bytes and faults that are used up.

`TypeOK` of `CardTurns`, `Watchdog`, `Supervisor`, `GapRegistry` and `EventStream`
says what the variables range over; in all but the last, whose bounds are those of the
run, it is proved. The runs spend their time on the other properties. The parts of the
inductive invariants (`LoopInv`, `SupervisionInv`, `GapInv`, `IInv`, `OInv`) were checked once on
the same instances before they were proved.

### Bounds

`MaxFaults` bounds kills, resets, merges past the gate, runs by hand,
lost connections, failed calls and records that are not written, gates run again on a head
they have judged, greps that time out, and STOP files (in `Supervisor` only those set while a child
has not written its status) in a behaviour; so a watchdog that always ends before its first
status is seen only that often. `MaxWatchdogs` bounds the watchdogs alive at once, and
`CrowdedReasons` is how they end when there have been two. `Commits` is what a commit may leave, the
contents of the tree as a whole; `MaxCommits`, `MaxRuns`,
`MaxWrites`, `MaxRequests`, `MaxEdits`, `MaxRounds`, `MaxRulings` and `MaxFills`
bound what their names say. `MaxRetries = 2` and `MaxStepAttempts = 3` are the
code's own. The budgets of watchdog and supervisor are the code's parameters, at
small values; a counter is compared with its limit only. Runs of `CampaignPass`,
its rulings and retries over several runs, invocations of watchdog and supervisor
and answers of the owner are not bounded.

### Fairness

`FairSpec` is weak fairness of the program's own steps: Node's event loop keeps
running. For `CampaignPass` and `CardTurns` it includes that a session either ends
or meets its wall clock, which `runSession` enforces. For `Watchdog` time passes,
and a runner that has come up reaches its run directory; nothing says that a pass
ever ends. For `Supervisor` the watchdog it waits for ends (the property above is
what justifies that) and so does a session, which is aborted at its timeout. For
`EventStream` the timers tick, frames arrive, an idle stream is closed. Nothing is
assumed of people, sessions, faults or GitHub. Where an action is expensive to
enable, its weak fairness is written with what makes it due,
`[]<>~Due \/ []<><<Moves>>_vars`, or `[]<>~Due` where its steps cannot go on without
ending that. That `Due` is when the action is enabled, and that it moves what
`Moves` says, were checked once on the same instances.

`CampaignCompletes` needs the world as well, and `CompletionSpec` says what:
somebody keeps starting full runs (the watchdog, or a person), a refused state is
mended, rulings come, missing plans get written, STOP files get removed, and a
card that is tried infinitely often ships at some point. Given that, the theorem
is that the *runner* strands nobody - the mutant that parks by status alone does.
`HangsAreReported` excepts a lock holder that is not the newest run or has no record:
beside such a one the watchdog sits without a bound.

## 4. Proofs

All theorems hold for every value of the constants: any finite set of cards, any
dependency graph and sequence, any set of command lines, any number of starts and
resets, any budgets. The assumptions are the `ASSUME`s of the modules: finitely many
cards, options in their domain, disjoint process names; for the supervisor, that a
card's id is none of the other keys of its retriggers; for the registry, that files
and patterns are finite, that the closing branch is no card, that a hit is in a file that is
there and in the paths its grep ranges over, and that the tools left the first tree
with a sound registry, every gap ruled and no debt grown; for the event stream, that caps and
limits are positive, that a page is no larger than the window (`Limit <= WindowCap`) and
that what a transcript holds at first `IsTranscript`.

* **Pass.** `TypeCorrect` and `SafetyInvariant`; from these
  `DependenciesShipFirst`, `KillLosesNothing`, `EscalationsAreAsked`,
  `PendingEscalationsPark` and the action property `OutcomesAreFinal`. None of the
  properties is inductive alone. `SafetyInv` adds that nothing of a run is left
  between runs, that a card with an outcome is not in flight and only such a card
  has a late session, that whoever may still write a card's status holds a card
  that has not shipped (so no late `running` and no escalation un-ships a
  dependency), and that between the two writes of an escalation the question is
  on disk or answered. Two lemmas about `Reconcile` carry the selection steps: it
  changes only staged, running and blocked cards, and never a card whose
  dependencies have all shipped. The acyclicity of the graph is not needed.
* **Campaign kept.** On top of these, two more invariants. `HoldInv`: whoever holds a
  card found its dependencies shipped, a late session's card is still open, a
  `blocked` that is not on disk yet has a dependency that has not shipped, and an
  answer on disk has closed its question. `PlaceInv`: one card is in planning and only while
  the pass asks, one outcome is between its two writes, and nobody is in flight when
  a pass has run out. From these `SelectionsLeaveHoldersAlone`; `CampaignIsKept`,
  the refinement, with one lemma per kind of write (a run that starts or reloads, a
  card's own write, a save of what was derived, a write that only derives);
  `BudgetsHold`, for which a slot that is claimed must count as worked or in
  flight at each moment of a turn; `BlockedStaysExact`, as nothing writes between the
  last derivation and the end; and `NobodyIsForgotten`: were a card of the sequence
  progressable, there would be a least index with one, by the well-foundedness of
  the naturals, and `nextCard` would have returned it.
* **Fixpoint.** `LoopInvariantHolds` says that nothing is blocked without need and
  that what a quiet pass has visited is where it belongs; when the flag stays down
  the result is closed, hence the least such set (`LoopIsCorrect`);
  `ReconciliationIsStable` adds that rewriting the statuses does not move the
  fixpoint, and `LoopReconciles` that what the loop leaves is what `CampaignPass` takes
  in one step.
* **Lock.** `SerialStartsExclude`, through an invariant that ties every process's
  place to who may be alive, to the lock's content and to the file it names;
  `SerialUpdatesAreKept`, because nobody but the holder of the lock writes between
  its read of the state file and its write.
* **Turn.** For any number of tasks, commits and faults: `TurnTypeCorrect`;
  `PassesAreCoherent`, which needs only that a Done run is always on a commit - the
  next task is one behind which nothing has passed; `ShippedCardsAreProven` and
  `StaleBaseCostsOneLook`, over `MergeInv`: there is one merge and it is never
  undone, what the verification has read of it stays true, a fetched base keeps
  it, and a shipped card is not taken up again; and `WorkIsTornDownOnPurpose`, over
  `ResetInv`: a recorded branch without a session is what only a reset leaves.

* **Watchdog.** For any number of runs and faults, any budgets and tails. `LoopInv` is
  what makes the loop's counters mean something: records are final once their process
  has gone; between two invocations nothing is remembered, so that what is final at
  the start stays so (`OldRunsStayOld`); without a child nothing has been spent and
  the run that is tracked was seen alive; an exit code is owned only of a child that
  has gone; a wait that is ordered has been counted and has not been used yet; and
  there is a run other than the child for each relaunch, which has ended or, once, lives
  and has no record (`misread`): a run is taken for dead only as long as no child has been
  started, as afterwards only the exit code of the child leads to a relaunch. None of
  `SpawnsStayBudgeted` and `RelaunchesAreEarned` is inductive: a round first charges a
  budget and only a later round starts the runner. `OneChildAtATime` and
  `NoRelaunchIsFutile` need, besides, what `SpawnHasCause` says of `decide`: a runner is
  started for one of five causes only, each of which rules out a living child and an
  error that would come back.
* **Supervisor.** For any number of cards, rounds, spawns, runs, retries and kills.
  `SupervisionInv` relates memory, disk and history: how often a body has been ruled
  on is covered by what is marked as seen and retried both in memory and on disk, since
  the write comes before the session (`RulingsAreNotRepeated`); as long as no
  two watchdogs have been alive at once, one that has published is the one the status file
  names, and one that has not is the supervisor's own child or that of an invocation that
  has ended (`OneWatchdogAtATime`: the first that is started beside another is started
  beside the latter); an acknowledgement is the absence of a document while the
  supervisor is down and a variable once it is up, until a watchdog runs or the
  invocation ends (`AcknowledgementsAreSpent`); a superseded park leaves a disk that still contradicts
  the terminal, so the same reason cannot be given again (`SupersessionsLead`). For the
  last, the counter of stale terminals has to be on disk whenever the loop is not
  within the tick that starts a watchdog.
* **Gap registry.** For any number of cards, files, patterns, reports, rulings and
  merges. The actions are first reduced to what they do to the trees (`NextIsTreeStep`);
  every part of `GapInv` is then a statement about one branch and the default branch.
  A registry is `Sound` when an id is opened once, before anything else is said of it,
  and a ruling is last; with it a fresh id is greater than all others, and no greater
  than the number of events plus one. Branches only append, cards no rulings and the
  closing branch nothing else, and a merge in which both sides appended is a conflict:
  from these `IdsStayUnique` and `RulingsAreLast`. `RulingsHaveArtifacts`: entities keep
  their gaps through every merge, and the ruling under way has its entity already.
  `LeaksStayUnguarded`: a merge gives the default branch more hits of a pattern only if
  the branch added more than it removed, or if the default branch had lost a hit that the
  branch removed (`MergeGrows`, by `SetGrows`, which counts what is added and what is
  removed); in the first case either the head's entities did not guard the pattern or the
  gate was not green; and where the default branch has outgrown the base of a branch, on
  whose code a baseline was measured, one of the two has happened. `OpenGapsStayListed`:
  what the Trackers found on a card that was not reworked is still there, and fires as
  long as no grep fails, so an open gap of its branch is in the last list or will be
  found by the next run of the gate; this is where the exceptions for reworked cards and failed greps are needed. `IssuesAreSingle`: at
  most one backfill has something left to do, and all of that is owed an issue.

* **Event stream.** For any contents of the file, any number of writes, rotations,
  disconnections and requests, any caps, and rows of any length. `OneRange` says of the
  window alone what only the window, the frames and answers under way, the tail and the
  file say together: `IInv`, which `StreamFitsFile` proves. Its parts are the versions of
  the file in the order in which a connection passes through them (`Versions`: a rotated
  file's rows follow its reset); the place in the file at which the tail stands, whatever it has
  carried over or is skipping (`TailFits`); rows under way in file order, behind that
  place and true of the file (`InSequence`, `FramesValid`); nothing left out from the
  window's beginning to the tail that is neither held nor under way (`WindowCovers`, and
  before a first row has come `HelloFits` and `FirstFrames`); rows under way that come
  after those held (`WindowFits`); and a page under way that ends where the window
  begins, or reaches beyond it (`EarlierFits`, `TailPageFits`). Two notions carry the
  growth of the file: at a `Clean` place no row that is shown is cut in two, and what a
  `Valid` node says of its row stays so, as a transcript is only appended to or replaced.
  `Transcript`'s sequences are defined by what they hold, without recursion, so what
  `findWindow`, `advanceTail` and `pair` yield are lemmas about ends of rows and need no
  induction over the file; that a finite set of numbers has a sequence in order is an
  argument by counting.

  `ResultShownOnce` (`ResultIsShownOnce`) speaks of the window too, but a result can be an
  orphan of the window, an orphan or a completed call of a page that was read before or
  after it, or a patch of the stream, and each of these may overtake the others. `OInv`,
  which `ResultToldOnce` proves, adds two parts to `IInv`. `ToldOnce`: among the frames under way at
  most one of a version has the poller's word on the result, and only when the tail has
  passed it. `ShownOnce`: the nodes of the window - and those it will have when the page
  or the reload on its way is taken - have one form of the result; if they
  tell of it, no later frame the window will take does; and if they have it as an
  orphan, no patch that is under way or may yet be sent finds its call among them. That a
  page takes the orphan it completes away with it (`Prepended`) is what keeps the second part, and
  a call too large to be shown, which is held as a row without content until its patch comes,
  is where the exception is needed.

Only model-checked: liveness (termination of the loop, of a run, of a call, of a
supervisor's invocation, completion of the campaign, a watchdog's report of a
hang, a client that catches up), which is out of the proof system's reach with
fairness. Every safety invariant and action property of the passing runs is stated by a theorem.

## 5. Not modelled

* File-system errors, and a campaign state file torn by a kill in the middle of a write.
* Process ids that are reused by another program.
* `baseSha`, the base commit of a card (`recordBaseSha`) and `normalizeStaleBaseShas`;
  `card.pr`.
* `--dry-run`, reports, run records, logs, the spawn ledger, metrics, prompts.
* In `CardTurns`: more than one PR of the card merged in one behaviour, more than
  one session given up on, and that session's late init message (`CampaignPass`
  has it); a `git worktree list` that fails and reads as no worktree
  (`phase.ts:85`, `verify.ts:288`); parsing of merge commands (and a second PR in one chained command) and of
  terminal lines; the schema guard's staleness.
* In `Watchdog`: `status.json`, the usage ledger, the replay tool, the parsing of
  quota texts and time zones (what they yield is a reset time or none).
* In `Supervisor`: usage accounting, permissions, prompts and briefs of the
  sessions (`buildOneShotOptions`), what a session does after its timeout, and its own
  lock - with it the race of two starts that reclaim a dead
  supervisor's lock, which is that of `RunnerLock_exclusion`. The escalations pending in
  a report and the files of their bodies are one fact (`EscalatesIf`); the code reads
  `campaign-report.json` and the files one after the other.
* In the viewer: the cap on how far ahead of a page its orphans are completed
  (`ORPHAN_SCAN_CAP`, `serve.ts:689`); a second reload of the tail asked while one is under way; lists of campaigns and sessions, sub-agents, markdown, component
  layout, the campaign status page, metadata frames, and the normalisation of
  transcript rows beyond the kind of row that it yields (`ParsedKind`).
* In the gap registry: file layouts, refused fingerprints, `rulings-check`, the
  precision of a fingerprint, matching of debt issues by a prefix of the id and
  the 200 issues `gh` lists. `c3 add` and `c3 set status open` of an entity are one step
  (`CreateDebtEntity`; the ruling comes after both, but a kill between them leaves an entity
  that is not open). That a card drops its lines of the registry when it is rebased
  (`Rebase`) is what agents do, not code; `warchief.md:1248` only says that a line is never
  edited.
* The queue that serialises git mutations across cards (`serializeRepoGitMutation`):
  `CardTurns` has one card, whose mutations the turn orders anyway.
* The CLI's command line and views, environment guard, model probe, the evaluation
  harness, shell scripts, installers, agents and skills: parsing, input and output
  or prose, with no state that a step order could break.
* The composition of runner, watchdog and supervisor in one state space: out of
  TLC's reach. They are composed by their shared boundaries (section 2).

## 6. Plan

Done: `DependencyGraph`, `BlockedLoop`, `CampaignPass`, `RunnerLock`, `CardTurns`,
the abstract `Campaign` and its refinement, `Watchdog`, `Supervisor` and `GapRegistry`,
`Transcript` and `EventStream`, with the proofs above. What would come next:

1. The viewer's campaign status, derived from a runner's files while it writes them.
