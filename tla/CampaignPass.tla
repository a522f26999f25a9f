---------------------------- MODULE CampaignPass ----------------------------
(***************************************************************************)
(* One campaign and the runner process that works through it: selection    *)
(* (core/state.ts nextCard), the serial and the concurrent pass            *)
(* (core/loop/run-loop.ts runPass, runPassPool), the card turn with its    *)
(* retries (runCardTurn), what a turn may write (core/loop/card-actions.ts)*)
(* and the people and processes around the runner: rulings that archive an *)
(* escalation, the STOP file, reset-card, kill -9.                         *)
(*                                                                         *)
(* Node runs one callback to completion before the next one, so a worker   *)
(* moves only where the pass awaits (CanYield); a kill and another         *)
(* process's file operation may fall between any two system calls, so      *)
(* escalateCard and shipCard are two steps each.                           *)
(***************************************************************************)
EXTENDS Naturals, FiniteSets, Sequences, DependencyGraph

CONSTANTS
  Sequence,    \* its "sequence"
  DependsOn,   \* DependsOn[c]: the ids card c declares
  RunOptions,  \* the command lines a run may be started with
  MaxFaults    \* bound: kills, STOP files and resets in one behaviour

Options ==
  [ includeEscalated : BOOLEAN,   \* --include-escalated
    cards            : SUBSET Cards, \* --cards; {} when absent
    maxCards         : Nat,       \* --max-cards; at least |Cards| when absent
    maxConcurrent    : Nat \ {0} ] \* --max-concurrent

ASSUME SequenceAssumption == Sequence \in Seq(Cards)
ASSUME DependsOnAssumption == DependsOn \in [Cards -> SUBSET Cards]
ASSUME OptionsAssumption  == RunOptions \subseteq Options
ASSUME FaultsAssumption   == MaxFaults \in Nat

Outcome == {"none", "shipped", "escalated", "escalation_pending",
            "stopped", "stopped_permanent"}
Reason  == {"none", "done", "escalations_pending", "session_incomplete",
            "stop_requested", "error"}
Stage   == {"idle",       \* not attempted, or its outcome is in
            "planning",   \* planning_needed, its detail is being awaited
            "parking",    \* planning_needed, between escalateCard's two writes
            "parked",     \* launched on a pending escalation, about to settle
            "acting",     \* its turn is in progress
            "escalating", \* between escalateCard's two writes
            "archiving"}  \* between shipCard's persist and its archive
MaxRetries == 2

VARIABLES
  pc,        \* where the pass is
  opts,      \* the running command line
  mem,       \* status of every card in the runner's memory
  disk,      \* status of every card in campaign-state.json
  escalations, \* cards whose escalation file is present
  answered,  \* history: cards whose latest escalation was archived by a ruling
  plans,     \* cards whose spec and plan are on disk
  indexed,   \* cards whose task index was resolved at load
  stop,      \* the STOP file is present
  stage,     \* per card, where its turn is
  retries,   \* per card, retries of its turn in this run
  outcome,   \* per card, its entry in processed
  zombies,   \* cards whose session timed out before its init message came
  halted,    \* history: a top-up of this run was skipped for the STOP file
  exit,      \* reason of the last run that ended by itself
  faults     \* kills, STOP files and resets so far

files == <<escalations, answered, plans, stop>>
turn  == <<stage, retries, outcome, zombies>>
vars  == <<pc, opts, mem, disk, files, indexed, turn, halted, exit, faults>>

-----------------------------------------------------------------------------
(* Selection: core/state.ts *)

\* computeBlockedCardIds over the campaign's own graph.
Blocked(st) == BlockedCards(st, DependsOn)

\* Mutant of Reconcile: blocked is set and never cleared.
ReconcileSetsOnly(st) ==
  [c \in Cards |-> IF c \in Blocked(st) THEN "blocked" ELSE st[c]]

\* Mutant of Reconcile: whatever is not blocked starts from staged again.
ReconcileRestages(st) ==
  [c \in Cards |-> IF c \in Blocked(st) THEN "blocked"
                   ELSE IF st[c] \in {"blocked", "running"} THEN "staged"
                   ELSE st[c]]

\* reconcileBlockedStatuses, as nextCard calls it.
Reconcile(st) == Reconciled(st, DependsOn)

InSequence == {Sequence[i] : i \in DOMAIN Sequence}
Requested  == IF opts.cards = {} THEN InSequence ELSE InSequence \cap opts.cards

\* Mutant of Attempted: a card that is not in flight may be selected again.
AttemptedInFlight == {c \in Cards : stage[c] # "idle"}

Attempted  == {c \in Cards : stage[c] # "idle" \/ outcome[c] # "none"}

\* Mutant of DepsShipped: a healthy dependency is as good as a shipped one.
DepsUnparked(c, st) == \A d \in DependsOn[c] : st[d] \notin {"escalated", "blocked"}

DepsShipped(c, st) == \A d \in DependsOn[c] : st[d] = "shipped"

\* Mutant of StillParked: the status alone keeps the card out.
ParkedByStatus(c, st) == st[c] = "escalated" /\ ~opts.includeEscalated

\* An escalated card is passed over while its escalation file is there.
StillParked(c, st) ==
  st[c] = "escalated" /\ ~opts.includeEscalated /\ c \in escalations

Progressable(c, st) ==
  /\ c \in Requested \ Attempted
  /\ st[c] \notin {"shipped", "blocked"}
  /\ ~StillParked(c, st)
  /\ DepsShipped(c, st)

\* nextCard returns the first progressable card of the sequence.
IsNext(c, st) ==
  \E i \in DOMAIN Sequence :
    /\ Sequence[i] = c
    /\ Progressable(c, st)
    /\ \A j \in 1 .. i - 1 : ~Progressable(Sequence[j], st)

\* deriveCardPhase looks at the escalation file before anything else.
LaunchStage(c) ==
  IF c \in escalations /\ ~opts.includeEscalated THEN "parked" ELSE "acting"

-----------------------------------------------------------------------------
(* The pass: core/loop/run-loop.ts *)

Active == {c \in Cards : stage[c] \in {"parked", "acting", "escalating", "archiving"}}
Worked == {c \in Cards : outcome[c] \notin {"none", "escalation_pending"}}
PermanentApiErrorSeen == \E c \in Cards : outcome[c] = "stopped_permanent"

\* Mutant of HasCapacity: the cards in flight do not count against --max-cards.
HasSlot ==
  /\ Cardinality(Active) < opts.maxConcurrent
  /\ Cardinality(Worked) < opts.maxCards

\* A worker slot is free and the optimistic --max-cards budget is not spent.
HasCapacity ==
  /\ Cardinality(Active) < opts.maxConcurrent
  /\ Cardinality(Worked) + Cardinality(Active) < opts.maxCards

Serial == opts.maxConcurrent = 1

\* Between two system calls of one synchronous span.
InSpan == \E c \in Cards : stage[c] \in {"parking", "escalating", "archiving"}

\* The pass is suspended at an await, so a worker's callback may run.
CanYield == pc \in {"check", "planning", "wait"} /\ ~InSpan

ExitReason ==
  IF \E c \in Cards : outcome[c] \in {"escalated", "escalation_pending"}
    THEN "escalations_pending"
  ELSE IF \E c \in Cards : outcome[c] \in {"stopped", "stopped_permanent"}
    THEN "session_incomplete"
  ELSE "done"

NoTurns ==
  /\ stage'   = [c \in Cards |-> "idle"]
  /\ retries' = [c \in Cards |-> 0]
  /\ outcome' = [c \in Cards |-> "none"]
  /\ zombies' = {}

Init ==
  /\ pc = "off" /\ opts \in RunOptions
  /\ mem = [c \in Cards |-> "staged"] /\ disk = mem
  /\ escalations = {} /\ answered = {}
  /\ plans \in SUBSET Cards /\ indexed = {}
  /\ stop = FALSE
  /\ stage = [c \in Cards |-> "idle"] /\ retries = [c \in Cards |-> 0]
  /\ outcome = [c \in Cards |-> "none"] /\ zombies = {}
  /\ halted = FALSE
  /\ exit = "none" /\ faults = 0

\* The process is gone: nothing of its memory survives.
Down(reason) ==
  /\ pc' = "off" /\ exit' = reason
  /\ mem' = disk' /\ indexed' = {} /\ halted' = FALSE
  /\ NoTurns

\* runLoop up to its STOP check: with the STOP file there the run ends at once.
Start(o) ==
  /\ pc = "off"
  /\ opts' = o
  /\ IF stop THEN pc' = "off" /\ exit' = "stop_requested"
             ELSE pc' = "loading" /\ exit' = "none"
  /\ UNCHANGED <<mem, disk, files, indexed, turn, halted, faults>>

\* loadState, then resolveTaskIndexes for the cards this run may touch.
Load ==
  /\ pc = "loading"
  /\ pc' = "check"
  /\ mem' = disk
  /\ indexed' = {c \in Requested \cap plans : disk[c] # "shipped"}
  /\ UNCHANGED <<opts, disk, files, turn, halted, exit, faults>>

\* A dangling task reference, an unreadable state: the run is refused.
LoadRefused ==
  /\ pc = "loading"
  /\ UNCHANGED <<opts, disk, files, faults>>
  /\ Down("error")

\* The head of the loop: no top-up under STOP or after a permanent API error.
Check ==
  /\ pc = "check" /\ ~InSpan
  /\ \/ /\ ~stop /\ ~PermanentApiErrorSeen
        /\ pc' = "fill"
        /\ UNCHANGED halted
     \/ /\ stop \/ PermanentApiErrorSeen
        /\ pc' = IF Active = {} THEN "finish" ELSE "wait"
        /\ halted' = (halted \/ stop)
  /\ UNCHANGED <<opts, mem, disk, files, indexed, turn, exit, faults>>

\* No slot or no budget: the top-up ends without asking nextCard.
FillFull ==
  /\ pc = "fill" /\ ~HasCapacity
  /\ pc' = IF Active = {} THEN "finish" ELSE "wait"
  /\ UNCHANGED <<opts, mem, disk, files, indexed, turn, halted, exit, faults>>

\* nextCard answers "done"; its reconciliation stays in memory for now.
FillDone ==
  /\ pc = "fill" /\ HasCapacity
  /\ \A c \in Cards : ~IsNext(c, Reconcile(mem))
  /\ mem' = Reconcile(mem)
  /\ pc' = IF Active = {} THEN "finish" ELSE "wait"
  /\ UNCHANGED <<opts, disk, files, indexed, turn, halted, exit, faults>>

\* nextCard answers "planning_needed": the pass awaits its detail.
SelectPlanningNeeded(c) ==
  /\ pc = "fill" /\ HasCapacity
  /\ IsNext(c, Reconcile(mem)) /\ c \notin plans
  /\ mem' = Reconcile(mem)
  /\ stage' = [stage EXCEPT ![c] = "planning"]
  /\ pc' = "planning"
  /\ UNCHANGED <<opts, disk, files, indexed, retries, outcome, zombies,
                 halted, exit, faults>>

\* nextCard answers a card; its turn starts, up to deriveCardPhase's look at
\* the escalation file, in the same synchronous span.
SelectCard(c) ==
  /\ pc = "fill" /\ HasCapacity
  /\ IsNext(c, Reconcile(mem)) /\ c \in plans
  /\ mem' = Reconcile(mem)
  /\ stage' = [stage EXCEPT ![c] = LaunchStage(c)]
  /\ pc' = IF Serial THEN "wait" ELSE "fill"
  /\ UNCHANGED <<opts, disk, files, indexed, retries, outcome, zombies,
                 halted, exit, faults>>

\* escalateCard for a planning_needed card: the file first ...
PlanningEscalate(c) ==
  /\ pc = "planning" /\ ~InSpan /\ stage[c] = "planning"
  /\ stage' = [stage EXCEPT ![c] = "parking"]
  /\ escalations' = escalations \cup {c}
  /\ answered' = answered \ {c}
  /\ UNCHANGED <<pc, opts, mem, disk, plans, stop, indexed, retries, outcome,
                 zombies, halted, exit, faults>>

\* ... then the status and the state file; the pool tops up on without a new
\* look at STOP, the serial pass goes round its loop.
PlanningEscalated(c) ==
  /\ stage[c] = "parking"
  /\ stage' = [stage EXCEPT ![c] = "idle"]
  /\ mem' = [mem EXCEPT ![c] = "escalated"]
  /\ disk' = mem'
  /\ outcome' = [outcome EXCEPT ![c] = "escalated"]
  /\ pc' = IF Serial THEN "check" ELSE "fill"
  /\ UNCHANGED <<opts, files, indexed, retries, zombies, halted, exit, faults>>

\* The end of runLoop: the final persist, then the lock is released.
Finish ==
  /\ pc = "finish"
  /\ disk' = mem
  /\ Down(ExitReason)
  /\ UNCHANGED <<opts, files, faults>>

-----------------------------------------------------------------------------
(* A card's turn: runCardTurn, actOnCard and the writers of card-actions.ts *)

\* The worker's promise resolves: processed gets its outcome, the slot is
\* free, and a pass that waits on the race goes round.
Settle(c, result) ==
  /\ stage' = [stage EXCEPT ![c] = "idle"]
  /\ outcome' = [outcome EXCEPT ![c] = result]
  /\ pc' = IF pc = "wait" THEN "check" ELSE pc

\* A turn that met a pending escalation reports it and does nothing.
SettleParked(c) ==
  /\ CanYield /\ stage[c] = "parked"
  /\ Settle(c, "escalation_pending")
  /\ UNCHANGED <<opts, mem, disk, files, indexed, retries, zombies, halted, exit, faults>>

\* onSessionStart: the session's id and "running" are persisted.
SessionStart(c) ==
  /\ CanYield /\ stage[c] = "acting" /\ c \in indexed
  /\ mem' = [mem EXCEPT ![c] = "running"]
  /\ disk' = mem'
  /\ UNCHANGED <<pc, opts, files, indexed, stage, retries, outcome, zombies,
                 halted, exit, faults>>

\* recordBaseSha, recordBranch, recordPass, clearFinalPass: the whole state is
\* written, other cards' unflushed reconciliation with it.
PersistProgress(c) ==
  /\ CanYield /\ stage[c] = "acting"
  /\ disk' = mem
  /\ UNCHANGED <<pc, opts, mem, files, indexed, turn, halted, exit, faults>>

\* Mutant of Escalate: the status and the state file before the escalation file.
EscalateStatusFirst(c) ==
  /\ CanYield /\ stage[c] = "acting"
  /\ stage' = [stage EXCEPT ![c] = "escalating"]
  /\ mem' = [mem EXCEPT ![c] = "escalated"]
  /\ disk' = mem'
  /\ answered' = answered \ {c}
  /\ UNCHANGED <<pc, opts, escalations, plans, stop, indexed, retries, outcome,
                 zombies, halted, exit, faults>>

\* escalateCard: the escalation file is written first ...
Escalate(c) ==
  /\ CanYield /\ stage[c] = "acting"
  /\ stage' = [stage EXCEPT ![c] = "escalating"]
  /\ escalations' = escalations \cup {c}
  /\ answered' = answered \ {c}
  /\ UNCHANGED <<pc, opts, mem, disk, plans, stop, indexed, retries, outcome,
                 zombies, halted, exit, faults>>

\* Mutant of Escalated: the state file is left for a later write.
EscalatedInMemory(c) ==
  /\ stage[c] = "escalating"
  /\ mem' = [mem EXCEPT ![c] = "escalated"]
  /\ Settle(c, "escalated")
  /\ UNCHANGED <<opts, disk, files, indexed, retries, zombies, halted, exit, faults>>

\* ... then the status, in memory and on disk.
Escalated(c) ==
  /\ stage[c] = "escalating"
  /\ mem' = [mem EXCEPT ![c] = "escalated"]
  /\ disk' = mem'
  /\ Settle(c, "escalated")
  /\ UNCHANGED <<opts, files, indexed, retries, zombies, halted, exit, faults>>

\* shipCard: the status is persisted first ...
Ship(c) ==
  /\ CanYield /\ stage[c] = "acting"
  /\ mem' = [mem EXCEPT ![c] = "shipped"]
  /\ disk' = mem'
  /\ stage' = [stage EXCEPT ![c] = "archiving"]
  /\ UNCHANGED <<pc, opts, files, indexed, retries, outcome, zombies,
                 halted, exit, faults>>

\* ... then a leftover escalation file is archived.
Shipped(c) ==
  /\ stage[c] = "archiving"
  /\ escalations' = escalations \ {c}
  /\ Settle(c, "shipped")
  /\ UNCHANGED <<opts, mem, disk, answered, plans, stop, indexed, retries, zombies,
                 halted, exit, faults>>

\* Mutant of Retry: no bound.
RetryForever(c) ==
  /\ CanYield /\ stage[c] = "acting" /\ c \in indexed
  /\ retries' = [retries EXCEPT ![c] = @ + 1]
  /\ UNCHANGED <<pc, opts, mem, disk, files, indexed, stage, outcome, zombies,
                 halted, exit, faults>>

\* A session ends in an error: up to two more attempts, the phase re-derived.
Retry(c) ==
  /\ CanYield /\ stage[c] = "acting" /\ c \in indexed
  /\ retries[c] < MaxRetries
  /\ c \in escalations => opts.includeEscalated
  /\ retries' = [retries EXCEPT ![c] = @ + 1]
  /\ UNCHANGED <<pc, opts, mem, disk, files, indexed, stage, outcome, zombies,
                 halted, exit, faults>>

\* The retries are spent, or the Done commands could not be run.
Stopped(c) ==
  /\ CanYield /\ stage[c] = "acting" /\ c \in indexed
  /\ Settle(c, "stopped")
  /\ UNCHANGED <<opts, mem, disk, files, indexed, retries, zombies, halted, exit, faults>>

\* runSession gives up on the session, whose init message may still be coming.
Timeout(c) ==
  /\ CanYield /\ stage[c] = "acting" /\ c \in indexed
  /\ zombies' \in {zombies, zombies \cup {c}}
  /\ Settle(c, "stopped")
  /\ UNCHANGED <<opts, mem, disk, files, indexed, retries, halted, exit, faults>>

\* The init message of a session runSession gave up on arrives after all.
LateSessionStart(c) ==
  /\ CanYield /\ c \in zombies
  /\ mem' = [mem EXCEPT ![c] = "running"]
  /\ disk' = mem'
  /\ zombies' = zombies \ {c}
  /\ UNCHANGED <<pc, opts, files, indexed, stage, retries, outcome,
                 halted, exit, faults>>

\* An API error that no retry can fix.
PermanentApiError(c) ==
  /\ CanYield /\ stage[c] = "acting" /\ c \in indexed
  /\ Settle(c, "stopped_permanent")
  /\ UNCHANGED <<opts, mem, disk, files, indexed, retries, zombies, halted, exit, faults>>

\* The turn throws: the pool contains it, the serial pass does not.
TurnThrows(c) ==
  /\ CanYield /\ stage[c] = "acting"
  /\ UNCHANGED <<opts, disk, files, faults>>
  /\ \/ /\ ~Serial
        /\ Settle(c, "stopped")
        /\ UNCHANGED <<mem, indexed, retries, zombies, halted, exit>>
     \/ Serial /\ Down("error")

-----------------------------------------------------------------------------
(* The world around the runner *)

\* kill -9, an OOM, a power cut.
Crash ==
  /\ pc # "off" /\ faults < MaxFaults
  /\ faults' = faults + 1
  /\ UNCHANGED <<opts, disk, files>>
  /\ Down("none")

\* A ruling is recorded and its escalation file archived, at any time.
ArchiveEscalation(c) ==
  /\ c \in escalations
  /\ escalations' = escalations \ {c}
  /\ answered' = answered \cup {c}
  /\ UNCHANGED <<pc, opts, mem, disk, plans, stop, indexed, turn, halted, exit, faults>>

\* The missing spec or plan is written.
AuthorPlan(c) ==
  /\ c \notin plans
  /\ plans' = plans \cup {c}
  /\ UNCHANGED <<pc, opts, mem, disk, escalations, answered, stop, indexed, turn,
                 halted, exit, faults>>

TouchStop ==
  /\ ~stop /\ faults < MaxFaults
  /\ stop' = TRUE /\ faults' = faults + 1
  /\ UNCHANGED <<pc, opts, mem, disk, escalations, answered, plans, indexed, turn,
                 halted, exit>>

RemoveStop ==
  /\ stop /\ stop' = FALSE
  /\ UNCHANGED <<pc, opts, mem, disk, escalations, answered, plans, indexed, turn,
                 halted, exit, faults>>

\* reset-card refuses while a live runner holds the lock; it leaves the
\* escalation file alone.
ResetCard(c) ==
  /\ pc = "off" /\ faults < MaxFaults
  /\ disk[c] # "staged"
  /\ disk' = [disk EXCEPT ![c] = "staged"]
  /\ mem' = disk'
  /\ faults' = faults + 1
  /\ UNCHANGED <<pc, opts, files, indexed, turn, halted, exit>>

-----------------------------------------------------------------------------
PassStep == Load \/ LoadRefused \/ Check \/ FillFull \/ FillDone \/ Finish

SelectStep(c) == SelectPlanningNeeded(c) \/ SelectCard(c)

TurnStep(c) ==
  \/ PlanningEscalate(c) \/ PlanningEscalated(c)
  \/ SettleParked(c) \/ SessionStart(c) \/ PersistProgress(c)
  \/ Escalate(c) \/ Escalated(c) \/ Ship(c) \/ Shipped(c)
  \/ Retry(c) \/ Stopped(c) \/ Timeout(c) \/ LateSessionStart(c)
  \/ PermanentApiError(c) \/ TurnThrows(c)

RunnerStep == PassStep \/ \E c \in Cards : SelectStep(c) \/ TurnStep(c)

OperatorStep ==
  \/ TouchStop \/ RemoveStop
  \/ \E c \in Cards : ArchiveEscalation(c) \/ AuthorPlan(c) \/ ResetCard(c)

Next ==
  \/ \E o \in RunOptions : Start(o)
  \/ RunnerStep
  \/ Crash
  \/ OperatorStep

Spec == Init /\ [][Next]_vars

\* The runner's event loop keeps running, and a session ends or times out.
FairSpec == Spec /\ WF_vars(RunnerStep)

\* Somebody keeps starting full runs, mends a refused state, rules on what is
\* asked, writes missing plans and removes STOP files, and a card that is tried
\* again and again ships.
CompletionSpec ==
  /\ FairSpec
  /\ SF_vars(\E o \in RunOptions : o.cards = {} /\ Start(o))
  /\ SF_vars(opts.cards = {} /\ Load)
  /\ WF_vars(RemoveStop)
  /\ \A c \in Cards :
       WF_vars(ArchiveEscalation(c)) /\ WF_vars(AuthorPlan(c)) /\ SF_vars(Ship(c))
-----------------------------------------------------------------------------
(* Properties *)

\* Every variable stays in its domain: in particular no card is retried more
\* than twice in a run (runCardTurn) and a status is one loadState accepts.
TypeOK ==
  /\ pc \in {"off", "loading", "check", "fill", "planning", "wait", "finish"}
  /\ opts \in Options
  /\ mem \in [Cards -> Status] /\ disk \in [Cards -> Status]
  /\ escalations \subseteq Cards /\ answered \subseteq Cards
  /\ plans \subseteq Cards /\ indexed \subseteq Cards
  /\ stop \in BOOLEAN /\ halted \in BOOLEAN
  /\ stage \in [Cards -> Stage]
  /\ retries \in [Cards -> 0 .. MaxRetries]
  /\ outcome \in [Cards -> Outcome]
  /\ zombies \subseteq Cards
  /\ exit \in Reason
  /\ faults \in Nat

InFlight == {c \in Cards : stage[c] # "idle"}

\* While a card is in flight every card it depends on is shipped, in memory and
\* in the state file: no interleaving of selections, outcomes, late session
\* starts and restarts lets a card build on work that has not shipped.
InFlightDepsShipped ==
  \A c \in InFlight : \A d \in DependsOn[c] :
    mem[d] = "shipped" /\ disk[d] = "shipped"

\* What a kill can lose is only nextCard's reconciliation, which the next
\* nextCard derives again: a ship, an escalation and a started session are on
\* disk as soon as they are in memory, whichever worker wrote last.
OnlyDerivedStatusUnsaved ==
  \A c \in Cards : mem[c] # disk[c] =>
    /\ mem[c] \in {"staged", "blocked"}
    /\ disk[c] \in {"staged", "running", "blocked"}

\* A card the state file calls escalated has its escalation file, unless a
\* ruling archived it: no kill between the two writes of escalateCard leaves a
\* parked card that nobody is asked about (a missing file reads as "answered").
EscalationIsAsked ==
  \A c \in Cards :
    disk[c] = "escalated" => c \in escalations \/ c \in answered

\* A flag-less run never works on a card whose escalation is unanswered,
\* whatever reset-card or a crash made of its status.
PendingEscalationParks ==
  ~opts.includeEscalated =>
    \A c \in escalations : stage[c] # "acting"

\* --max-cards is never overshot, although a slot is claimed before it is known
\* whether its card is work or a parked escalation; nor is --max-concurrent.
BudgetHolds ==
  pc \notin {"off", "loading"} =>
    /\ Cardinality(Worked) + Cardinality(InFlight) <= opts.maxCards
    /\ Cardinality(Active) <= opts.maxConcurrent

\* The pass ended because nothing more was progressable.
RanOut ==
  /\ pc = "finish" /\ ~halted /\ ~PermanentApiErrorSeen
  /\ Cardinality(Worked) < opts.maxCards

\* When a pass runs out of cards, "blocked" in the state about to be persisted
\* is exactly the dependency fixpoint: stale in neither direction.
BlockedIsExact ==
  RanOut => {c \in Cards : mem[c] = "blocked"} = Blocked(mem)

\* A pass that runs out of cards forgets nobody: a requested card it did not
\* attempt is shipped, waits for a ruling that has not come, or waits for a
\* dependency. An answered escalation is taken up without any flag.
NobodyForgotten ==
  [][pc = "fill" /\ pc' = "finish" /\ HasCapacity =>
       \A c \in Requested \ Attempted :
         \/ mem'[c] = "shipped"
         \/ mem'[c] = "escalated" /\ c \notin answered /\ ~opts.includeEscalated
         \/ \E d \in DependsOn[c] : mem'[d] # "shipped"]_vars

\* A card is attempted at most once in a run: its outcome is final until the
\* run ends and its turn never starts again.
OutcomeIsFinal ==
  [][\A c \in Cards : outcome[c] # "none" /\ pc' # "off" =>
       outcome'[c] = outcome[c] /\ stage'[c] = "idle"]_vars

\* nextCard's reconciliation of the whole state never touches a card that a
\* worker holds, nor one whose late session may still write.
SelectionLeavesInFlightAlone ==
  [][pc = "fill" /\ pc' # "off" =>
       \A c \in Active \cup zombies : mem'[c] = mem[c]]_vars

\* Cards somebody works on: their turn acts, or its session was given up on and
\* may still start.
Working ==
  {c \in Cards : stage[c] \in {"acting", "escalating", "archiving"}} \cup zombies

C == INSTANCE Campaign WITH status <- disk, asked <- escalations,
       ruled <- answered, working <- Working, forced <- opts.includeEscalated

\* The runner, its pool and its kills keep the promises of Campaign to everybody
\* who reads the state file and the escalation files.
CampaignKept == C!Spec

\* Every run ends, whatever its cards do, as long as its sessions end.
RunEnds == (pc # "off") ~> (pc = "off")

\* No history of kills, resets, timeouts, escalations and partial re-triggers
\* strands a card: the whole campaign ends up shipped.
CampaignCompletes == <>[](\A c \in InSequence : disk[c] = "shipped")
-----------------------------------------------------------------------------
(* The inductive invariant behind the safety properties *)

\* Between runs nothing of a run is left.
QuietWhenDown ==
  pc \in {"off", "loading"} =>
    zombies = {} /\ \A c \in Cards : stage[c] = "idle" /\ outcome[c] = "none"

\* An outcome ends the turn; a late session start can only follow an outcome.
OutcomeEndsTurn ==
  /\ \A c \in Cards : outcome[c] # "none" => stage[c] = "idle"
  /\ \A c \in zombies : outcome[c] # "none"

\* Whoever may still write a card's status holds a card that has not shipped;
\* a turn that archives has shipped its card.
HoldersAreUnshipped ==
  /\ \A c \in zombies : mem[c] # "shipped"
  /\ \A c \in Cards :
       /\ stage[c] \in {"planning", "parking", "parked", "acting", "escalating"}
            => mem[c] # "shipped"
       /\ stage[c] = "archiving" => mem[c] = "shipped"

\* Between escalateCard's two writes the question is on disk or answered.
SpanIsAsked ==
  \A c \in Cards : stage[c] \in {"parking", "escalating"}
    => c \in escalations \/ c \in answered

\* Together these are inductive.
SafetyInv ==
  /\ QuietWhenDown
  /\ OutcomeEndsTurn
  /\ HoldersAreUnshipped
  /\ SpanIsAsked
  /\ OnlyDerivedStatusUnsaved
  /\ InFlightDepsShipped
  /\ EscalationIsAsked
  /\ PendingEscalationParks

-----------------------------------------------------------------------------
(* What the refinement, the selection and the budgets rest on besides *)

\* Whoever holds a card, a session given up on included, holds one that is not
\* blocked and whose dependencies have shipped.
HoldersAreReady ==
  \A c \in InFlight \cup zombies :
    mem[c] # "blocked" /\ \A d \in DependsOn[c] : mem[d] = "shipped"

\* A late session start is about a card that no open question keeps from work.
LateSessionsAreOpen ==
  ~opts.includeEscalated => zombies \cap escalations = {}

\* A block that is not on disk yet has a reason that holds.
UnsavedBlockWaits ==
  \A c \in Cards : mem[c] = "blocked" /\ disk[c] # "blocked" =>
    \E d \in DependsOn[c] : mem[d] # "shipped"

\* A question is either open or answered.
AnswersCloseQuestions == escalations \cap answered = {}

HoldInv ==
  /\ HoldersAreReady
  /\ LateSessionsAreOpen
  /\ UnsavedBlockWaits
  /\ AnswersCloseQuestions

\* One card at a time is planned for, and one is between two writes; the pass
\* selects and ends only when nobody is.
Planned == {c \in Cards : stage[c] \in {"planning", "parking"}}
Spanned == {c \in Cards : stage[c] \in {"parking", "escalating", "archiving"}}

PlaceInv ==
  /\ \A c, d \in Planned : c = d
  /\ \A c, d \in Spanned : c = d
  /\ Planned # {} => pc = "planning"
  /\ pc = "fill" => Spanned = {}
  /\ pc = "finish" => InFlight = {}
=============================================================================
