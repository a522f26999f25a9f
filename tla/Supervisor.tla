---------------------------- MODULE Supervisor ----------------------------
(***************************************************************************)
(* The supervisor (core/supervisor/loop.ts, decide.ts, truth.ts, state.ts, *)
(* verify.ts): observe, decide, perform, persist, publish, until a park or *)
(* an exit; with the watchdogs it starts or adopts, the one-shot sessions  *)
(* it spawns, the owner who answers its parks, and kills between any two   *)
(* of its writes. What it keeps in memory is lost in a kill; what is in    *)
(* supervisor/state.json, supervisor/status.json and NEEDS_OWNER.md stays. *)
(***************************************************************************)
EXTENDS Integers

CONSTANTS
  Cards,             \* the cards that can escalate
  MaxFaults,         \* bound: kills of supervisors and watchdogs, runs by hand, state
                     \* files of another version, and STOP files while a child has
                     \* not written its status
  MaxWatchdogs,      \* bound: watchdogs alive at a time
  TerminalReasons,   \* the reasons a watchdog ends with
  CrowdedReasons,    \* bound: and, when there have been two, those followed
  MaxRulingRounds, MaxSpawns, MaxWatchdogRuns, SessionRetries,
  VerifyShippedPlugin   \* the composition root has found the plugin's directory

ASSUME LimitsAssumption ==
  /\ MaxFaults \in Nat /\ MaxRulingRounds \in Nat /\ MaxSpawns \in Nat
  /\ MaxWatchdogRuns \in Nat \ {0} /\ SessionRetries \in Nat
  /\ MaxWatchdogs \in Nat \ {0}
  /\ Cards # {} /\ VerifyShippedPlugin \in BOOLEAN

ASSUME ReasonsAssumption ==
  CrowdedReasons \subseteq TerminalReasons /\ TerminalReasons \subseteq
    {"runner_done", "stop_requested", "escalations_pending", "session_incomplete",
     "quota_cap", "overloaded", "stalled", "lock_conflict", "error",
     "permanent_api_error"}

\* A card's id is none of the other keys of the retriggers.
ASSUME CardsAssumption ==
  Cards \cap {"no card", "session_incomplete", "watchdog_no_terminal", "stale_terminal",
              "closing"} = {}

terminalReasonForRunReason(r) == IF r = "done" THEN "runner_done" ELSE r

\* ExitReason, what run.json says of a run that has ended.
RunReasons == {r \in {"done", "stop_requested", "escalations_pending",
                      "session_incomplete", "error"} :
                 terminalReasonForRunReason(r) \in TerminalReasons}
NoCard == "no card"

\* Places for the watchdogs that are alive.
Place   == 1 .. MaxWatchdogs
Nobody  == 0

VARIABLES
  pc,          \* "off", "observe", "await", "spawned", "session", "parked", "exiting"
  st,          \* supState: the counters, in memory
  last,        \* lastSessionOutcome, and the session it is about
  priorPark,   \* priorParkedTerminal, as Kept
  acked,       \* acknowledgedPark, as Kept, if it is about a watchdog
  handle,      \* the watchdog it started last, while that lives
  park,        \* the reason of the park or exit being published, as Kept
  disk,        \* supervisor/state.json
  readable,    \* and it is of the version this supervisor writes
  terminal,    \* supervisor/status.json: its terminal's reason as Kept, or "none"
  needsOwner, stop,
  body,        \* escalations/<card>.md: "none", "open", "owner_only"
  marker,      \* park/<card>.json is there
  wd,          \* the watchdog processes: "down", "starting", "up"
  said,        \* watchdog/status.json: "absent", "none" or its terminal's reason
  named,       \* the watchdog whose pid it gives, while that lives
  fact,        \* of said's run and newer ones: is one alive, how did the newest that
               \* finished end, and was that said's own
  faults,
  begun,       \* history: ruling sessions begun, for each card's present body
  spent,       \* history: the owner has acknowledged a park about a watchdog, and the
               \* next invocation has not ended and has started no watchdog
  superseded,  \* history: a park was superseded and no run came or went since
  crowded      \* history: two watchdogs were alive at once, and one still is

memory  == <<st, last, priorPark, acked, handle, park>>
home    == <<disk, readable, terminal, needsOwner>>
dogs    == <<wd, said, named, crowded>>
world   == <<stop, body, marker, dogs, fact, faults>>
history == <<begun, spent, superseded>>
vars    == <<pc, memory, home, world, history>>

Retriggers == {"session_incomplete", "watchdog_no_terminal", "stale_terminal", "closing"}
                \cup Cards
Kinds      == {"ruling", "closing"}

\* SessionOutcome: the verdict of the session that has just returned, if one has.
NoOutcome  == [kind |-> "none", card |-> NoCard, outcome |-> "none"]

\* What readRunFacts finds of said's run and of newer ones, as far as decide can tell.
NoFact     == [alive |-> "no", is |-> "none", own |-> TRUE]

zeroState == [rounds |-> [c \in Cards |-> 0], spawns |-> 0, runs |-> 0,
              seen |-> [c \in Cards |-> FALSE], closingVerified |-> FALSE,
              retriggers |-> [k \in Retriggers |-> 0]]

\* A counter is compared with its limit only, and stops there.
Counted(n, limit) == IF n >= limit THEN n ELSE n + 1

Init ==
  /\ pc = "off" /\ st = zeroState /\ last = NoOutcome
  /\ priorPark = "none" /\ acked = "none" /\ handle = Nobody /\ park = "none"
  /\ readable = TRUE
  /\ disk = zeroState /\ terminal = "none" /\ needsOwner = FALSE
  /\ stop = FALSE /\ body = [c \in Cards |-> "none"]
  /\ marker = [c \in Cards |-> FALSE]
  /\ wd = [w \in Place |-> "down"] /\ said = "absent" /\ named = Nobody
  /\ fact = NoFact /\ faults = 0
  /\ begun = [c \in Cards |-> 0]
  /\ spent = FALSE /\ superseded = FALSE /\ crowded = FALSE
-----------------------------------------------------------------------------
(* observe and decide                                                      *)

\* Mutant of WatchdogLive: what watchdog/status.json says, and nothing else.
WatchdogLiveOnDisk == said = "none" /\ named # Nobody

WatchdogLive == (said = "none" /\ named # Nobody) \/ handle # Nobody

\* WatchdogStatusFacts: the watchdog has published how it ended.
HasTerminal == said \notin {"absent", "none"}

\* terminalContradiction: "newer_run_alive", "run_finalised", or none.
Contradiction ==
  IF ~HasTerminal THEN "none"
  ELSE IF fact.alive # "no" THEN "newer_run_alive"
  ELSE IF fact.is # "none" THEN "run_finalised" ELSE "none"

staleTerminalRetriggerAvailable ==
  st.runs < MaxWatchdogRuns /\ st.retriggers["stale_terminal"] < 1

\* The condition of the park that a previous invocation recorded, while its
\* document is there: the snapshot of the start, as this run's own publishes
\* have erased it from status.json.
parkedTerminal == IF needsOwner THEN priorPark ELSE "none"

\* Mutant of parkStillHolds: a live run supersedes, remedy or no remedy (B-F3).
parkStillHoldsUnlessAlive ==
  parkedTerminal # "stalled" \/ Contradiction = "none"

parkStillHolds ==
  \/ parkedTerminal # "stalled" \/ Contradiction = "none"
  \/ Contradiction = "newer_run_alive" /\ ~staleTerminalRetriggerAvailable

WatchdogParks == {"session_incomplete", "permanent_api_error", "quota_cap", "overloaded",
                  "stalled", "lock_conflict", "error", "watchdog_no_terminal"}

\* Of the reason in a terminal, what a later invocation can tell.
Kept(why) == IF why = "stalled" THEN why
             ELSE IF why \in WatchdogParks THEN "of a watchdog" ELSE "other"

\* Mutant of acknowledgedParkAllowsResume: the owner's word on a stall only.
acknowledgedParkAllowsResumeStalled == acked = "stalled"

acknowledgedParkAllowsResume == acked \in {"stalled", "of a watchdog"}

OwnRunVerdict == said = "permanent_api_error" /\ fact.own /\ fact.alive # "newer"

Reason == IF Contradiction = "run_finalised" /\ ~OwnRunVerdict
          THEN terminalReasonForRunReason(fact.is) ELSE said

\* SupervisorAction: one per tick.
Act(do, why, card) == [do |-> do, why |-> why, card |-> card]
Park(why)      == Act("park", why, NoCard)
Exit(why)      == Act("exit", why, NoCard)
Run(retrigger) == Act("run", retrigger, NoCard)
Session(kind, card) == Act("session", kind, card)

Failed == [ruling |-> "ruling_failed", closing |-> "closing_failed"]
RetryKey(kind, card) == IF kind = "closing" THEN "closing" ELSE card

AfterSession ==
  CASE last.outcome = "history_rewritten" -> Park("history_rewritten")
    [] last.outcome = "ruled"  -> Act("archive", "ruled", last.card)
    [] last.outcome = "parked" -> Park("too_hard")
    [] last.outcome = "closed" -> Exit("campaign_closed")
    [] last.outcome = "failed" ->
         IF st.retriggers[RetryKey(last.kind, last.card)] < SessionRetries
         THEN Session(last.kind, last.card) ELSE Park(Failed[last.kind])

\* The escalations of campaign-report.json whose files are there.
Unanswered == {c \in Cards : body[c] # "none"}

\* campaign-state.json's ownerOnlyEscalations, against the body's trigger.
ownerOnlyEscalation(c) == body[c] = "owner_only"

\* supervisor/park/<card>.json, that a session wrote.
parkMarker(c) == marker[c]

Answer(c) ==
  IF parkMarker(c) THEN Park("too_hard")
  ELSE IF ownerOnlyEscalation(c) THEN Park("owner_only")
  ELSE IF st.seen[c] THEN Park("repeat_escalation")
  ELSE IF st.rounds[c] >= MaxRulingRounds THEN Park("w7_cap")
  ELSE IF st.spawns >= MaxSpawns THEN Park("spawn_cap")
  ELSE Session("ruling", c)
Escalations ==
  IF Unanswered = {} THEN Run("none") ELSE Answer(CHOOSE c \in Cards : c \in Unanswered)

OneShot(key) ==
  IF st.runs < MaxWatchdogRuns /\ st.retriggers[key] < 1 THEN Run(key) ELSE Park(key)

FromTerminal ==
  IF Contradiction = "newer_run_alive" /\ staleTerminalRetriggerAvailable
  THEN Run("stale_terminal")
  ELSE CASE Reason = "runner_done" ->
              IF st.closingVerified THEN Exit("campaign_closed")
              ELSE IF ~VerifyShippedPlugin THEN Park("closing_failed")
              ELSE Session("closing", NoCard)
         [] Reason = "stop_requested"      -> Exit("stop_requested")
         [] Reason = "escalations_pending" -> Escalations
         [] Reason = "session_incomplete"  -> OneShot("session_incomplete")
         [] Reason = "none"                -> OneShot("watchdog_no_terminal")
         [] OTHER                          -> Park(Reason)

decide ==
  IF last # NoOutcome THEN AfterSession
  ELSE IF needsOwner
  THEN IF parkStillHolds THEN Park("resume_blocked") ELSE Act("supersede", "none", NoCard)
  ELSE IF stop THEN Exit("stop_requested")
  ELSE IF WatchdogLive THEN Act("await", "none", NoCard)
  ELSE IF acknowledgedParkAllowsResume
  THEN IF st.runs >= MaxWatchdogRuns THEN Park("watchdog_run_cap") ELSE Run("owner_resume")
  ELSE IF said = "absent" THEN Run("none")
  ELSE FromTerminal
-----------------------------------------------------------------------------
(* The loop                                                                *)

\* The lock is free, or a dead supervisor's.
tryAcquireLock == pc = "off"

\* The counters of a file of this version, as an earlier invocation left them.
parseState == disk

\* runSupervisor up to its first publish, which erases the terminal: what a
\* previous run's park was, and whether its document is gone, is read before.
Start ==
  /\ tryAcquireLock /\ readable
  /\ pc' = "observe" /\ st' = parseState
  /\ priorPark' = terminal
  /\ acked' = IF ~needsOwner /\ terminal \in {"stalled", "of a watchdog"} THEN terminal ELSE "none"
  /\ last' = NoOutcome /\ handle' = Nobody /\ park' = "none"
  /\ terminal' = "none"
  /\ UNCHANGED <<disk, readable, needsOwner, world, history>>

\* A state file it cannot resume from is a park of its own: falling back to zero
\* would forget the bodies that were ruled on.
StartUnreadable ==
  /\ tryAcquireLock /\ ~readable
  /\ pc' = "parked" /\ needsOwner' = TRUE /\ park' = "other"
  /\ UNCHANGED <<st, last, priorPark, acked, handle, disk, readable, terminal, world,
                 history>>

Perform(do) == pc = "observe" /\ decide.do = do /\ last' = NoOutcome
Persist     == disk' = st'
Republish   == terminal' = "none"

clearWatchdogRetriggers(s) ==
  [s EXCEPT !.retriggers = [k \in Retriggers |->
     IF k \in {"session_incomplete", "watchdog_no_terminal", "stale_terminal"} THEN 0 ELSE @[k]]]
Retries(key) == IF key \in Cards \cup {"closing"} THEN SessionRetries ELSE 1
incrementRetrigger(s, key) == [s EXCEPT !.retriggers[key] = Counted(@, Retries(key))]

\* The budget a run is charged to: by the watchdog's own terminal, whatever
\* reason was decided on.
Charged(s) ==
  IF said = "session_incomplete" THEN incrementRetrigger(s, "session_incomplete")
  ELSE IF said = "none" THEN incrementRetrigger(s, "watchdog_no_terminal") ELSE s
Credited ==
  IF decide.why = "owner_resume" THEN clearWatchdogRetriggers(st)
  ELSE IF decide.why = "stale_terminal" THEN incrementRetrigger(Charged(st), "stale_terminal")
  ELSE Charged(st)

Alive(dog) == {w \in Place : dog[w] # "down"}
RunWatchdog ==
  /\ Perform("run") /\ pc' = "spawned"
  /\ Alive(wd) # Place
  /\ st' = [Credited EXCEPT !.runs = Counted(@, MaxWatchdogRuns)]
  /\ acked' = IF decide.why = "owner_resume" THEN "none" ELSE acked
  /\ handle' = CHOOSE w \in Place : w \notin Alive(wd)
  /\ wd' = [wd EXCEPT ![handle'] = "starting"]
  /\ crowded' = (Alive(wd) # {})
  /\ spent' = FALSE /\ superseded' = FALSE
  /\ UNCHANGED <<priorPark, park, home, stop, body, marker, said, named, fact, faults,
                 begun>>

\* The end of its tick: the child is there before its run is counted on disk.
PersistRun ==
  /\ pc = "spawned" /\ pc' = "observe"
  /\ disk' = st /\ Republish
  /\ UNCHANGED <<memory, readable, needsOwner, world, history>>

AwaitWatchdog ==
  /\ Perform("await") /\ pc' = "await"
  /\ UNCHANGED <<st, priorPark, acked, handle, park, home, world, history>>

\* waitFor, or a sleep, comes to its end, with a watchdog that has or has not.
WakeUp ==
  /\ pc = "await" /\ pc' = "observe"
  /\ Republish
  /\ UNCHANGED <<st, last, priorPark, acked, handle, park, disk, readable, needsOwner, world,
                 history>>

applyRulingOutcome(s, c) ==
  [s EXCEPT !.rounds[c] = Counted(@, MaxRulingRounds), !.seen[c] = TRUE]

\* Mutant of Spent: the new state that applyRulingOutcome returns is dropped.
SpentSpawnOnly(kind, card) == [st EXCEPT !.spawns = Counted(@, MaxSpawns)]

Spent(kind, card) ==
  LET s == [st EXCEPT !.spawns = Counted(@, MaxSpawns)]
      r == IF kind = "ruling" THEN applyRulingOutcome(s, card) ELSE s
  IN  IF last # NoOutcome THEN incrementRetrigger(r, RetryKey(kind, card)) ELSE r

\* Mutant of SpawnSession: the round is on disk when the session has returned.
SpawnSessionPersistsLater ==
  /\ pc = "observe" /\ decide.do = "session" /\ pc' = "session"
  /\ st' = Spent(decide.why, decide.card) /\ UNCHANGED disk
  /\ last' = [kind |-> decide.why, card |-> decide.card, outcome |-> "none"]
  /\ begun' = [c \in Cards |-> IF c = decide.card
       THEN Counted(begun[c], SessionRetries + 2) ELSE begun[c]]
  /\ UNCHANGED <<priorPark, acked, handle, park, readable, terminal, needsOwner, world,
                 spent, superseded>>

\* The round is on disk before the session is spawned (S-P6).
SpawnSession ==
  /\ pc = "observe" /\ decide.do = "session" /\ pc' = "session"
  /\ st' = Spent(decide.why, decide.card) /\ Persist
  /\ last' = [kind |-> decide.why, card |-> decide.card, outcome |-> "none"]
  /\ begun' = [c \in Cards |-> IF c = decide.card
       THEN Counted(begun[c], SessionRetries + 2) ELSE begun[c]]
  /\ UNCHANGED <<priorPark, acked, handle, park, readable, terminal, needsOwner, world,
                 spent, superseded>>

\* What a ruling session has done to answers.md and to the repository, with the
\* marker of its card there or not: history first, then the block, then the marker.
verifyRuling(did, marked) ==
  IF did = "rewrote" THEN "history_rewritten"
  ELSE IF did = "ruled in a dirty repository" THEN "failed"
  ELSE IF did = "ruled" THEN "ruled"
  ELSE IF marked THEN "parked" ELSE "failed"

\* The final report, and one verdict for each shipped card.
checkShippedVerdict(verdict) == verdict = "PASS"
verifyClosing(report, verdict) ==
  IF report = "complete" /\ checkShippedVerdict(verdict) THEN "closed" ELSE "failed"

Verdicts(marked) ==
  IF last.kind = "ruling"
  THEN {verifyRuling(did, marked) :
          did \in {"rewrote", "ruled in a dirty repository", "ruled", "nothing"}}
  ELSE {verifyClosing(report, verdict) : report \in {"missing", "blocked", "complete"},
                                         verdict \in {"missing", "FAIL", "PASS"}}

\* A session's stream ends with a result, or fails or stops without one; its wall
\* clock may win the race. Only one that ended well is verified.
consumeOneShot == {"success", "error"}
raceWallClock  == consumeOneShot \cup {"timeout"}
SessionOutcomes(marked) ==
  UNION {IF result = "success" THEN Verdicts(marked) ELSE {"failed"} : result \in raceWallClock}

\* Whatever the session comes to, it may have left a marker.
SessionEnds(outcome, left) ==
  /\ pc = "session" /\ pc' = "observe"
  /\ left => last.kind = "ruling"
  /\ LET marked == last.kind = "ruling" /\ (left \/ parkMarker(last.card))
     IN  outcome \in SessionOutcomes(marked)
  /\ marker' = IF left THEN [marker EXCEPT ![last.card] = TRUE] ELSE marker
  /\ last' = [last EXCEPT !.outcome = outcome]
  /\ disk' = st /\ Republish
  /\ UNCHANGED <<st, priorPark, acked, handle, park, readable, needsOwner, stop, body,
                 dogs, fact, faults, history>>

ArchiveEscalation ==
  /\ Perform("archive") /\ UNCHANGED pc
  /\ body' = [body EXCEPT ![decide.card] = "none"]
  /\ Republish
  /\ UNCHANGED <<st, priorPark, acked, handle, park, disk, readable, needsOwner, stop,
                 marker, dogs, fact, faults, history>>

SupersedePark ==
  /\ Perform("supersede") /\ UNCHANGED pc
  /\ needsOwner' = FALSE /\ superseded' = TRUE
  /\ Republish
  /\ UNCHANGED <<st, priorPark, acked, handle, park, disk, readable, world, begun,
                 spent>>

\* NEEDS_OWNER.md; a refusal keeps the reason of the park it refuses to lift.
ParkCampaign ==
  /\ Perform("park") /\ pc' = "parked"
  /\ needsOwner' = TRUE
  /\ park' = IF decide.why = "resume_blocked" /\ priorPark # "none" THEN priorPark
             ELSE Kept(decide.why)
  /\ UNCHANGED <<st, priorPark, acked, handle, disk, readable, terminal, world,
                 history>>

\* state.json first, so that a closing that was verified is not done again.
ExitLoop ==
  /\ Perform("exit") /\ pc' = "exiting"
  /\ park' = Kept(decide.why)
  /\ st' = [st EXCEPT !.closingVerified = @ \/ last.outcome = "closed"] /\ Persist
  /\ UNCHANGED <<priorPark, acked, handle, readable, terminal, needsOwner, world,
                 history>>

\* What was in memory is gone, an acknowledgement that was read among it.
Forgotten ==
  /\ pc' = "off" /\ st' = disk /\ last' = NoOutcome /\ priorPark' = "none"
  /\ acked' = "none" /\ handle' = Nobody /\ park' = "none"
  /\ spent' = FALSE

\* The last publish, and the end of the process.
Publish ==
  /\ pc \in {"parked", "exiting"}
  /\ terminal' = park
  /\ Forgotten
  /\ UNCHANGED <<disk, readable, needsOwner, world, begun, superseded>>

\* The watchdogs it started go on.
KillSupervisor ==
  /\ pc # "off" /\ faults < MaxFaults /\ faults' = faults + 1
  /\ Forgotten
  /\ UNCHANGED <<home, stop, body, marker, dogs, fact, begun, superseded>>

Loop ==
  \/ RunWatchdog \/ PersistRun \/ AwaitWatchdog \/ WakeUp \/ SpawnSession
  \/ ArchiveEscalation \/ SupersedePark \/ ParkCampaign \/ ExitLoop \/ Publish
-----------------------------------------------------------------------------
(* The watchdogs, the runners and the owner.                               *)

supervisor == <<pc, memory, readable, terminal>>

\* A watchdog writes its status: at once when it has come up, and again at every
\* poll, over what another one may have written.
WatchdogPublishes(w) ==
  /\ wd[w] # "down"
  /\ wd' = [wd EXCEPT ![w] = "up"]
  /\ said' = "none" /\ named' = w /\ fact' = NoFact
  /\ superseded' = FALSE
  /\ UNCHANGED <<supervisor, disk, needsOwner, stop, body, marker, faults, crowded,
                 begun, spent>>

\* The process is gone.
Gone(w) ==
  /\ wd' = [wd EXCEPT ![w] = "down"]
  /\ handle' = IF handle = w THEN Nobody ELSE handle
  /\ crowded' = (crowded /\ Alive(wd) # {w})

\* What run.json says of the watchdog's own run when it ends with reason r.
Evidence(r) ==
  CASE r = "runner_done" -> {"none", "done"}
    [] r = "stalled" -> {"none"}
    [] r \in {"error", "escalations_pending"} -> {"none", r}
    [] r \in {"session_incomplete", "quota_cap", "overloaded", "permanent_api_error"}
         -> {"none"} \cup (RunReasons \cap {"session_incomplete"})
    [] OTHER -> {"none"} \cup RunReasons

\* A card escalates, with a body never seen before or with the body it had.
Escalate(c, to, fresh) ==
  /\ body' = [body EXCEPT ![c] = to]
  /\ st' = IF fresh THEN [st EXCEPT !.seen[c] = FALSE] ELSE st
  /\ disk' = IF fresh THEN [disk EXCEPT !.seen[c] = FALSE] ELSE disk
  /\ begun' = IF fresh THEN [begun EXCEPT ![c] = 0] ELSE begun

\* A run that ends with escalations pending has written one, or leaves those
\* that were pending: a card whose escalation is pending is not worked.
EscalatesIf(pending) ==
  \/ pending /\ \E c \in Cards \ Unanswered, to \in {"open", "owner_only"},
                   fresh \in BOOLEAN : Escalate(c, to, fresh)
  \/ (pending => Unanswered # {}) /\ UNCHANGED <<body, st, disk, begun>>

\* Beside another watchdog, a newer run may be alive.
WatchdogEnds(w, r, f) ==
  /\ wd[w] = "up" /\ f \in Evidence(r)
  /\ crowded => r \in CrowdedReasons
  /\ Gone(w)
  /\ said' = r /\ named' = Nobody
  /\ \E newer \in {Alive(wd) # {w}, FALSE} :
       fact' = [alive |-> IF newer THEN "newer" ELSE IF r = "stalled" THEN "own" ELSE "no",
                is |-> f, own |-> TRUE]
  /\ EscalatesIf(r = "escalations_pending")
  /\ superseded' = FALSE
  /\ UNCHANGED <<pc, last, priorPark, acked, park, readable, terminal, needsOwner, stop,
                 marker, faults, spent>>

\* A kill, or an exit before the first publish, which leaves the old status.
WatchdogDies(w) ==
  /\ wd[w] # "down" /\ faults < MaxFaults /\ faults' = faults + 1
  /\ Gone(w)
  /\ named' = IF named = w THEN Nobody ELSE named
  /\ UNCHANGED <<pc, st, last, priorPark, acked, park, readable, terminal, disk,
                 needsOwner, stop, body, marker, said, fact, history>>

\* A runner that somebody starts by hand, or a watchdog that said is not about, and
\* the end of one that is alive: with its run record, or without ("none"). Runs
\* older than said's tell nothing.
RunStarts ==
  /\ faults < MaxFaults /\ faults' = faults + 1
  /\ HasTerminal
  /\ fact.alive = "no" /\ fact' = [fact EXCEPT !.alive = "newer"]
  /\ superseded' = FALSE
  /\ UNCHANGED <<supervisor, disk, needsOwner, stop, body, marker, dogs, begun, spent>>

RunEnds(f) ==
  /\ fact.alive # "no" /\ f \in RunReasons \cup {"none"}
  /\ fact' = IF f = "none" THEN [fact EXCEPT !.alive = "no"]
             ELSE [alive |-> "no", is |-> f, own |-> fact.alive = "own"]
  /\ EscalatesIf(f = "escalations_pending")
  /\ superseded' = FALSE
  /\ UNCHANGED <<pc, last, priorPark, acked, handle, park, readable, terminal,
                 needsOwner, stop, marker, dogs, faults, spent>>

\* The owner has handled the park.
DeleteNeedsOwner ==
  /\ needsOwner /\ needsOwner' = FALSE
  /\ spent' = (spent \/ (pc = "off" /\ terminal \in {"stalled", "of a watchdog"}))
  /\ UNCHANGED <<supervisor, disk, world, begun, superseded>>

AnswerByHand(c) ==
  /\ needsOwner /\ body[c] # "none"
  /\ body' = [body EXCEPT ![c] = "none"] /\ marker' = [marker EXCEPT ![c] = FALSE]
  /\ UNCHANGED <<supervisor, disk, needsOwner, stop, dogs, fact, faults, history>>

\* A state file left by a supervisor of another version, and its repair.
SwitchVersion ==
  /\ pc = "off"
  /\ \/ readable /\ faults < MaxFaults /\ faults' = faults + 1
     \/ ~readable /\ UNCHANGED faults
  /\ readable' = ~readable
  /\ UNCHANGED <<pc, memory, disk, terminal, needsOwner, stop, body, marker, dogs,
                 fact, history>>

FlipStop ==
  /\ stop' = ~stop
  /\ IF stop \/ \A w \in Place : wd[w] # "starting" THEN UNCHANGED faults ELSE faults < MaxFaults /\ faults' = faults + 1
  /\ UNCHANGED <<supervisor, disk, needsOwner, body, marker, dogs, fact,
                 history>>

Owner == DeleteNeedsOwner \/ FlipStop \/ SwitchVersion \/ \E c \in Cards : AnswerByHand(c)
Watchdog(w) ==
  WatchdogPublishes(w) \/ \E r \in TerminalReasons : \E f \in Evidence(r) : WatchdogEnds(w, r, f)
Watchdogs == \E w \in Place : Watchdog(w) \/ WatchdogDies(w)
SessionReturns ==
  \E outcome \in {"ruled", "parked", "closed", "failed", "history_rewritten"},
     left \in BOOLEAN : SessionEnds(outcome, left)

Next ==
  \/ Start \/ StartUnreadable \/ Loop \/ KillSupervisor
  \/ Watchdogs \/ SessionReturns \/ RunStarts \/ Owner
  \/ \E f \in RunReasons \cup {"none"} : RunEnds(f)

Spec == Init /\ [][Next]_vars

\* The supervisor goes on, every watchdog comes to an end, and so does a session,
\* which is aborted after --session-timeout-seconds: weak
\* fairness of Loop, Watchdog and SessionReturns, each written with what makes it
\* due and, for Loop, with what it cannot go on for ever without.
FairSpec ==
  /\ Spec
  /\ []<>(pc \in {"off", "session"}) \/ []<><<pc' # pc>>_vars
  /\ \A w \in Place : []<>(wd[w] = "down")
  /\ []<>(pc # "session")
-----------------------------------------------------------------------------
\* Every variable stays in its domain, and the owner is told a reason that is
\* one of the documented ones.
ParkReasons ==
  WatchdogParks \cup
    {"resume_blocked", "watchdog_run_cap", "too_hard", "owner_only", "repeat_escalation",
     "w7_cap", "spawn_cap", "ruling_failed", "closing_failed", "history_rewritten"}
Counters ==
  {s \in [rounds : [Cards -> 0 .. MaxRulingRounds], spawns : 0 .. MaxSpawns,
          runs : 0 .. MaxWatchdogRuns, seen : [Cards -> BOOLEAN],
          closingVerified : BOOLEAN, retriggers : [Retriggers -> Nat]] :
     \A key \in Retriggers : s.retriggers[key] <= Retries(key)}
KeptReasons == {"none", "stalled", "of a watchdog", "other"}
Typed ==
  /\ pc \in {"off", "observe", "await", "spawned", "session", "parked", "exiting"}
  /\ st \in Counters /\ disk \in Counters
  /\ last \in [kind : Kinds \cup {"none"}, card : Cards \cup {NoCard},
               outcome : {"none", "ruled", "parked", "closed", "failed", "history_rewritten"}]
  /\ {priorPark, acked, park, terminal} \subseteq KeptReasons
  /\ {handle, named} \subseteq Place \cup {Nobody}
  /\ readable \in BOOLEAN /\ needsOwner \in BOOLEAN /\ stop \in BOOLEAN
  /\ body \in [Cards -> {"none", "open", "owner_only"}] /\ marker \in [Cards -> BOOLEAN]
  /\ wd \in [Place -> {"down", "starting", "up"}]
  /\ said \in TerminalReasons \cup {"absent", "none"}
  /\ fact \in [alive : {"no", "own", "newer"}, is : RunReasons \cup {"none"}, own : BOOLEAN]
  /\ faults \in 0 .. MaxFaults /\ begun \in [Cards -> Nat]
  /\ {spent, superseded, crowded} \subseteq BOOLEAN
TypeOK ==
  /\ Typed
  /\ pc = "observe" /\ decide.do = "park" => decide.why \in ParkReasons

\* Whatever is killed and when, no body is ruled on more often than the retries
\* of one spawn allow: the body was seen before the session began, on disk (S-P6).
NoDoubleRuling == \A c \in Cards : begun[c] <= 1 + SessionRetries

\* A supervisor never starts a watchdog beside its own, from the instant of the
\* spawn on, though the child has not written its status yet (P4); nor beside one
\* that has written its status, unless there are two already. The first that is
\* started beside a living one is started beside a child that has not written yet,
\* of an invocation that a kill or STOP has ended.
NeverTwoWatchdogs ==
  [][pc = "observe" /\ pc' = "spawned" =>
       handle = Nobody /\ (crowded \/ \A w \in Place : wd[w] # "up")]_vars

\* The owner's deletion of NEEDS_OWNER.md spends the terminal the park was about
\* (G4): the invocation that reads the deletion runs a fresh watchdog before it
\* parks or exits, the run cap and STOP apart. One that ends before (the cap, STOP,
\* a kill, a state file of another version) has forgotten what it read.
AcknowledgedParkIsSpent ==
  [][pc = "observe" /\ pc' \in {"parked", "exiting"} /\ spent
       => decide.why \in {"watchdog_run_cap", "stop_requested"}]_vars

\* A park that was superseded is not published again over the same disk: the
\* supersession led somewhere (B-F3).
NoChurn == [][pc = "observe" /\ pc' = "parked" /\ superseded => park' # "stalled"]_vars

\* Every invocation ends, once nothing is killed or started by hand any more: no
\* cycle of rulings, retriggers, resumptions and supersessions goes on for ever.
SupervisionEnds == pc # "off" ~> pc = "off"
-----------------------------------------------------------------------------
(* What these rest on.                                                     *)

\* A session is about a card, or about the closing, and has an outcome when the
\* next tick looks at it.
SessionsAreKnown ==
  /\ last = NoOutcome \/ (last.kind = "ruling" /\ last.card \in Cards)
                      \/ (last.kind = "closing" /\ last.card = NoCard)
  /\ pc = "session" => last.kind \in Kinds
  /\ pc # "session" /\ last # NoOutcome =>
       last.outcome \in {"ruled", "parked", "closed", "failed", "history_rewritten"}

\* What a round has cost is in memory and on disk.
RulingsArePaid ==
  \A s \in {st, disk}, c \in Cards :
    begun[c] <= (IF s.seen[c] THEN 1 ELSE 0) + s.retriggers[c]

\* Only within the tick that starts a watchdog is the disk behind.
RunsAreSaved ==
  pc # "spawned" =>
    /\ disk.runs = st.runs
    /\ disk.retriggers["stale_terminal"] = st.retriggers["stale_terminal"]

\* A watchdog that lives, alone as they are but for a child that had not written its
\* status, has said so or is this supervisor's own or of one that has ended.
WatchdogIsKnown ==
  /\ named # Nobody => wd[named] = "up" /\ said = "none"
  /\ handle # Nobody => wd[handle] # "down" /\ pc # "off"
  /\ crowded \/ \A v, w \in Alive(wd) : v = w
  /\ crowded \/ \A w \in Place : wd[w] = "up" => named = w

\* An acknowledgement is on disk until it is read, and then in memory.
AcknowledgementIsRead ==
  spent =>
    /\ pc \notin {"spawned", "session"}
    /\ pc = "off" => ~needsOwner /\ terminal \in {"stalled", "of a watchdog"}
    /\ pc \in {"observe", "await"} =>
         ~needsOwner /\ last = NoOutcome /\ acked \in {"stalled", "of a watchdog"}

\* A park that was superseded leaves a disk that says otherwise, a run to spend on it
\* if a run is alive, and no reason that could be given again.
SupersessionLeads ==
  superseded =>
    /\ pc # "spawned"
    /\ Contradiction # "none"
    /\ Contradiction = "newer_run_alive" => staleTerminalRetriggerAvailable
    /\ terminal # "stalled"
    /\ pc \in {"parked", "exiting"} => park # "stalled"
    /\ needsOwner /\ pc \notin {"off", "parked"} => priorPark # "stalled"

SupervisionInv ==
  /\ SessionsAreKnown
  /\ RulingsArePaid
  /\ RunsAreSaved
  /\ WatchdogIsKnown
  /\ AcknowledgementIsRead
  /\ SupersessionLeads
=============================================================================
