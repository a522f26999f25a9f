------------------------------ MODULE Watchdog ------------------------------
(***************************************************************************)
(* The watchdog (core/watchdog/decide.ts, watch-loop.ts, select.ts) over   *)
(* the runners of one campaign home: those it starts, those it adopts and  *)
(* those people start by hand. A runner is seen through what it leaves on  *)
(* disk: its lock, its run directory, run.json and the tail of its newest  *)
(* log. One tick is one poll interval; every clock counts ticks and stops  *)
(* at the value beyond which nothing depends on it.                        *)
(***************************************************************************)
EXTENDS Integers, FiniteSets

CONSTANTS
  MaxRuns,    \* bound: runner processes in one behaviour
  MaxFaults,  \* bound: kills, records not finalized, runners started by hand, STOP flips
  Modes,      \* the modes the watchdog is started in: "once", "follow"
  Stall,      \* --stall-minutes
  Grace,      \* --quota-grace-seconds
  PassCodes,  \* the exit codes of a pass that took the lock
  Tails,      \* what a log's tail can say: [reset, result], see parseSessionSignals
  MaxQuotaWait,         \* MAX_QUOTA_WAIT_MS
  Backoffs,             \* the entries of OVERLOAD_BACKOFF_SECONDS in use
  MaxQuotaWaits,        \* --max-quota-waits
  MaxOverloadBackoffs,  \* --max-overload-backoffs
  MaxCrashRelaunches,   \* --max-crash-relaunches
  FallbackModel         \* --fallback-model is given

ASSUME LimitsAssumption ==
  /\ MaxRuns \in Nat /\ MaxFaults \in Nat
  /\ Modes \subseteq {"once", "follow"}
  /\ Stall \in Nat /\ Grace \in Nat
  /\ PassCodes \subseteq {"ok", "escalated", "incomplete", "error"}
  /\ Tails \subseteq [reset : Nat \cup {-1},
                     result : {"fine", "overload", "permanent"}]
  /\ MaxQuotaWait \in Nat \ {0}
  /\ Backoffs \in Nat \ {0}
  /\ MaxQuotaWaits \in Nat /\ MaxOverloadBackoffs \in Nat
  /\ MaxCrashRelaunches \in Nat /\ FallbackModel \in BOOLEAN

Run      == 1 .. MaxRuns   \* in the order of their starts, as run ids sort
NoRun    == 0
NoReset  == -1
\* The runner's exit codes 0, 1, 2, 3, 4 and any other; "none": not known.
ExitCode == {"ok", "locked", "escalated", "incomplete", "error", "other"}
NoTail   == [reset |-> NoReset, result |-> "fine"]

VARIABLES
  run,      \* the runners
  lock,     \* the runner .runner.lock names
  stop,     \* <home>/STOP is there
  faults,   \* disturbances so far
  pc,       \* the watchdog: "off", "look", "child", "poll", "wait"
  mode,
  child, ownedExitCode, attempt, trackedRunId, priorRunIds,
  quotaWaits, overloadBackoffs, crashRelaunches, lockRelaunches, fallbackUsed,
  pendingWait,  \* the wait ordered last, and the ticks left of it
  noLogSince,   \* whose silence is being timed, and for how long
  old,          \* history: the runs already finalized when it started
  misread       \* history: the run a crash relaunch took for dead while it lives

world    == <<lock, stop, faults>>
counters == <<quotaWaits, overloadBackoffs, crashRelaunches, lockRelaunches,
              fallbackUsed>>
loop     == <<child, ownedExitCode, attempt, trackedRunId, priorRunIds, counters,
              pendingWait, noLogSince>>
history  == <<old, misread>>
vars     == <<run, world, pc, mode, loop, history>>

Least(a, b)  == IF a < b THEN a ELSE b
Up(r)        == run[r].stage \notin {"unborn", "down"}
Born         == {r \in Run : run[r].stage # "unborn"}
OnDisk       == {r \in Run : run[r].dir}
Newest(S)    == IF S = {} THEN NoRun ELSE CHOOSE r \in S : \A q \in S : q <= r
Unborn       == [stage |-> "unborn", dir |-> FALSE, recorded |-> FALSE, final |-> FALSE,
                 code |-> "none", logged |-> FALSE, age |-> 0, tail |-> NoTail]
NoWait       == [cause |-> "none", left |-> 0]
NoSilence    == [key |-> <<"none", 0>>, age |-> 0]

\* A process's memory before it starts.
NoMemory ==
  /\ old = {} /\ misread = NoRun
  /\ child = NoRun /\ ownedExitCode = "none" /\ attempt = 0
  /\ trackedRunId = NoRun /\ priorRunIds = {}
  /\ quotaWaits = 0 /\ overloadBackoffs = 0 /\ crashRelaunches = 0
  /\ lockRelaunches = 0 /\ fallbackUsed = FALSE
  /\ pendingWait = NoWait /\ noLogSince = NoSilence

Init ==
  /\ run = [r \in Run |-> Unborn]
  /\ lock = NoRun /\ stop = FALSE /\ faults = 0
  /\ pc = "off" /\ mode = "follow" /\ NoMemory
-----------------------------------------------------------------------------
(* The runners, people and time.                                           *)

Watchdog == <<pc, mode, loop, history>>

Become(r, s) == run' = [run EXCEPT ![r].stage = s]

\* The process of the next runner comes up.
Fork ==
  /\ Cardinality(Born) < MaxRuns
  /\ run' = [run EXCEPT ![Cardinality(Born) + 1].stage = "starting"]

StartByHand ==
  /\ faults < MaxFaults /\ faults' = faults + 1
  /\ Fork
  /\ UNCHANGED <<lock, stop, Watchdog>>

\* Of a runner that is down nothing but its record and its tail is looked at.
Down(r, code, tail, final) ==
  run' = [run EXCEPT ![r] = [@ EXCEPT !.stage = "down", !.code = code, !.tail = tail,
                                      !.final = final, !.recorded = FALSE,
                                      !.logged = FALSE, !.age = 0]]

\* runLoop: acquireLock, or exit 1, which leaves no run directory.
AcquireLock(r) ==
  /\ run[r].stage = "starting"
  /\ IF lock # NoRun /\ Up(lock)
     THEN Down(r, "locked", NoTail, FALSE) /\ UNCHANGED lock
     ELSE Become(r, "locked") /\ lock' = r
  /\ UNCHANGED <<stop, faults, Watchdog>>

\* Its run directory, in which no run.json is yet. No tail but the newest run's
\* is ever read again.
MakeRunDir(r) ==
  /\ run[r].stage = "locked"
  /\ run' = [q \in Run |-> IF q = r THEN [run[r] EXCEPT !.stage = "dirmade", !.dir = TRUE]
                           ELSE [run[q] EXCEPT !.tail = NoTail]]
  /\ UNCHANGED <<world, Watchdog>>

\* run.json, with endedAt null.
WriteRunRecord(r) ==
  /\ run[r].stage = "dirmade"
  /\ run' = [run EXCEPT ![r].stage = "running", ![r].recorded = TRUE]
  /\ UNCHANGED <<world, Watchdog>>

\* The write fails, and the run goes on without a record.
FailRunRecord(r) ==
  /\ run[r].stage = "dirmade"
  /\ faults < MaxFaults /\ faults' = faults + 1
  /\ Become(r, "running")
  /\ UNCHANGED <<lock, stop, Watchdog>>

\* appendLog: a line of a session, which leaves the log's last result fine.
AppendLog(r) ==
  /\ run[r].stage = "running"
  /\ run' = [run EXCEPT ![r].logged = TRUE, ![r].age = 0]
  /\ UNCHANGED <<world, Watchdog>>

\* The pass ends and the lock goes; the process has its report to write yet.
EndPass(r) ==
  /\ run[r].stage = "running"
  /\ Become(r, "reporting") /\ lock' = NoRun
  /\ UNCHANGED <<stop, faults, Watchdog>>

\* tryFinalizeRunRecord, and the process exits; what it has to say of the pass
\* is not looked at before. A session that did not finish has left a signal in
\* the log, when there is a log.
FinalizeRunRecord(r, code, tail) ==
  /\ run[r].stage = "reporting" /\ run[r].recorded
  /\ tail = NoTail \/ (code = "incomplete" /\ run[r].logged /\ r = Newest(OnDisk))
  /\ Down(r, code, tail, TRUE)
  /\ UNCHANGED <<world, Watchdog>>

\* tryFinalizeRunRecord fails, as it always does for a run without a record, and
\* says nothing of it.
EndUnrecorded(r, code) ==
  /\ run[r].stage = "reporting"
  /\ IF run[r].recorded THEN faults < MaxFaults /\ faults' = faults + 1
                        ELSE UNCHANGED faults
  /\ Down(r, code, NoTail, FALSE)
  /\ UNCHANGED <<lock, stop, Watchdog>>

Report(r) ==
  \E code \in PassCodes, tail \in Tails : FinalizeRunRecord(r, code, tail)

\* kill -9, an OOM: the lock stays, the record is never finalized. The adapter
\* answers 128 for a child that a signal ended.
KillRunner(r, tail) ==
  /\ Up(r) /\ faults < MaxFaults /\ faults' = faults + 1
  /\ tail = NoTail \/ run[r].logged
  /\ Down(r, "other", tail, FALSE)
  /\ UNCHANGED <<lock, stop, Watchdog>>

FlipStop ==
  /\ faults < MaxFaults /\ faults' = faults + 1
  /\ stop' = ~stop
  /\ UNCHANGED <<run, lock, Watchdog>>

\* A tick passes everywhere: the watchdog takes none of its own, it sleeps one
\* between two looks. In a wait it then looks for STOP and for nothing else.
Older(a) == Least(a + 1, Stall + 1)
Tick ==
  /\ pc # "look" /\ \A r \in Run : run[r].stage # "reporting"
  /\ run' = [r \in Run |->
       [run[r] EXCEPT !.age = IF run[r].logged THEN Older(@) ELSE @,
                      !.tail.reset = IF @ > 0 THEN @ - 1 ELSE @]]
  /\ noLogSince' = [noLogSince EXCEPT !.age = IF noLogSince = NoSilence THEN @ ELSE Older(@)]
  /\ pendingWait' = [pendingWait EXCEPT !.left = IF @ > 0 THEN @ - 1 ELSE @]
  /\ pc' = IF pc \in {"child", "poll"} \/ (pc = "wait" /\ (stop \/ pendingWait'.left = 0))
           THEN "look" ELSE pc
  /\ UNCHANGED <<world, mode, child, ownedExitCode, attempt, trackedRunId,
                 priorRunIds, counters, history>>
-----------------------------------------------------------------------------
(* observe                                                                 *)

OwnsLiveChild == child # NoRun /\ ownedExitCode = "none"

\* newestRunId, and newestRunIdExcluding while a child of its own is alive.
Picked == IF OwnsLiveChild THEN Newest(OnDisk \ priorRunIds) ELSE Newest(OnDisk)

\* What run.json says of it, and of its pid: nothing, when there is none yet.
Final        == Picked # NoRun /\ run[Picked].final
RecordCode   == IF Final THEN run[Picked].code ELSE "none"
NotFinalized == Picked # NoRun /\ run[Picked].recorded /\ ~Final /\ Up(Picked)
Tracked      == IF Picked # NoRun /\ (child # NoRun \/ NotFinalized)
                THEN Picked ELSE trackedRunId
Provenance   == Picked # NoRun /\ Picked = Tracked

\* Mutant of Alive: a child is alive once its record says so.
AliveByRecord == NotFinalized

Alive == OwnsLiveChild \/ NotFinalized
CrashSuspected == Picked # NoRun /\ ~Alive /\ ~Final /\ ownedExitCode = "none"

\* A run that lives, and has no record, is taken for dead.
Misreading == CrashSuspected /\ Up(Picked)
Logged       == Picked # NoRun /\ run[Picked].logged

\* Mutant of LastExitCode: any finalized record counts.
LastExitCodeAny == IF ownedExitCode # "none" THEN ownedExitCode ELSE RecordCode

LastExitCode ==
  IF ownedExitCode # "none" THEN ownedExitCode
  ELSE IF RecordCode \in {"locked", "incomplete"} \/ Provenance THEN RecordCode
  ELSE "none"

\* Mutant of Provenanced: no record is too old.
ProvenancedAlways == TRUE

Provenanced == ownedExitCode # "none" \/ CrashSuspected \/ (Final /\ Provenance)

OurOwnRun  == attempt > 0 /\ Picked \notin priorRunIds

SilenceKey == IF OurOwnRun THEN <<"attempt", attempt>> ELSE <<"run", Picked>>
Silence ==
  IF ~Alive \/ Logged THEN NoSilence
  ELSE IF noLogSince.key = SilenceKey THEN noLogSince
  ELSE [key |-> SilenceKey, age |-> 0]

\* Mutant of Stale: a run with no log is never stale.
StaleLogOnly == Logged /\ run[Picked].age > Stall

Stale == IF Logged THEN run[Picked].age > Stall ELSE Silence.age > Stall

\* parseSessionSignals, of the tail of the picked run's newest log: what the
\* last rate limit event and the last result in it say.
Signals == IF Picked = NoRun THEN NoTail ELSE run[Picked].tail

\* readLock: a lock that cannot be read names nobody.
LockHolder == lock # NoRun /\ Up(lock)

\* The run decide() is told of: none when no directory is visible and no
\* child is alive.
Observed ==
  [alive |-> Alive, stale |-> Stale, code |-> LastExitCode,
   provenanced |-> Provenanced, crashSuspected |-> CrashSuspected,
   tail |-> Signals, holder |-> LockHolder]
-----------------------------------------------------------------------------
(* decide                                                                  *)

Exit(why)       == [do |-> "exit", why |-> why, model |-> FALSE, ticks |-> 0]
Attach          == [Exit("none") EXCEPT !.do = "attach"]
Spawn(cause)    == [Exit(cause) EXCEPT !.do = "spawn"]
Wait(cause, n)  == [Exit(cause) EXCEPT !.do = "wait", !.ticks = n]
Unstopped(d)    == IF stop THEN Exit("stop_requested") ELSE d
Running         == IF mode = "once" THEN Exit("runner_alive") ELSE Attach

Verdict == [c \in {"ok", "escalated", "error"} |->
              CASE c = "ok"        -> "runner_done"
                [] c = "escalated" -> "escalations_pending"
                [] c = "error"     -> "error"]

Served(cause) == pendingWait.cause = cause /\ pendingWait.left = 0

Refused ==
  IF lockRelaunches >= 1 THEN Exit("lock_conflict") ELSE Spawn("lock_free")

QuotaUntil(o) == Least(o.tail.reset + Grace, MaxQuotaWait)
Quota(o) ==
  IF quotaWaits >= MaxQuotaWaits THEN Exit("quota_cap")
  ELSE IF mode = "once" THEN Exit("quota_wait_pending")
  ELSE Wait("quota", QuotaUntil(o))

overloadBackoffSeconds(n) == Least(n + 1, Backoffs)
Overload ==
  IF Served("overload") THEN Spawn("overload")
  ELSE IF overloadBackoffs >= MaxOverloadBackoffs
  THEN IF FallbackModel /\ ~fallbackUsed
       THEN [Spawn("overload") EXCEPT !.model = TRUE] ELSE Exit("overloaded")
  ELSE IF mode = "once" THEN Exit("overload_backoff_pending")
  ELSE Wait("overload", overloadBackoffSeconds(overloadBackoffs))

Crash ==
  IF crashRelaunches >= MaxCrashRelaunches
  THEN Exit("session_incomplete") ELSE Spawn("crash")

\* A dead run that is not evidence of this invocation's and carries no signal
\* is no reason for anything.
Died(o)      == o.code \in {"incomplete", "other"} \/ (o.code = "none" /\ o.crashSuspected)
ServedQuota(o) == o.tail.reset # NoReset /\ Served("quota")
Telling(o)   == o.provenanced \/ o.tail.reset > 0 \/ ServedQuota(o) \/ o.tail.result = "overload"

\* Mutant of Recover: what no relaunch can cure is looked at last.
RecoverPermanentLast(o) ==
  Unstopped(
    IF o.tail.reset > 0 THEN Quota(o)
    ELSE IF ServedQuota(o) THEN Spawn("quota")
    ELSE IF o.tail.result = "overload" THEN Overload
    ELSE Crash)

Recover(o) ==
  IF o.tail.result = "permanent" /\ o.provenanced THEN Exit("permanent_api_error")
  ELSE Unstopped(
    IF o.tail.reset > 0 THEN Quota(o)
    ELSE IF ServedQuota(o) THEN Spawn("quota")
    ELSE IF o.tail.result = "overload" THEN Overload
    ELSE Crash)

decide(o) ==
  IF o.alive THEN (IF o.stale THEN Exit("stalled") ELSE Running)
  ELSE IF o.code \in DOMAIN Verdict THEN Exit(Verdict[o.code])
  ELSE IF o.code = "locked" /\ o.holder THEN Running
  ELSE IF o.code = "locked" /\ o.provenanced THEN Unstopped(Refused)
  ELSE IF Died(o) /\ Telling(o) THEN Recover(o)
  ELSE IF o.holder THEN Running
  ELSE Unstopped(Spawn("launch"))
-----------------------------------------------------------------------------
(* The loop                                                                *)

\* A new invocation: every counter starts over.
Invoke(m) ==
  /\ pc = "off" /\ pc' = "look" /\ mode' = m
  /\ old' = {r \in Run : run[r].final}
  /\ UNCHANGED <<run, world, loop, misread>>

\* The process ends, and its memory with it.
Stopped ==
  /\ pc' = "off" /\ old' = {} /\ misread' = NoRun
  /\ child' = NoRun /\ ownedExitCode' = "none" /\ attempt' = 0
  /\ trackedRunId' = NoRun /\ priorRunIds' = {}
  /\ quotaWaits' = 0 /\ overloadBackoffs' = 0 /\ crashRelaunches' = 0
  /\ lockRelaunches' = 0 /\ fallbackUsed' = FALSE
  /\ pendingWait' = NoWait /\ noLogSince' = NoSilence

Judge(d) == pc = "look" /\ decide(Observed).do = d /\ UNCHANGED <<world, mode>>
Noted   == trackedRunId' = Tracked /\ noLogSince' = Silence
Count(counter, why) ==
  counter' = counter + (IF decide(Observed).why = why THEN 1 ELSE 0)

\* History of a relaunch.
Misread ==
  misread' = IF decide(Observed).why = "crash" /\ Misreading THEN Picked ELSE misread

\* Mutant of SpawnRunner: a spawn leaves the wait that led to it standing.
SpawnRunnerKeepsWait ==
  /\ Judge("spawn")
  /\ Fork
  /\ IF mode = "once" THEN Stopped ELSE
       /\ pc' = "look" /\ trackedRunId' = Tracked
       /\ attempt' = attempt + 1 /\ child' = Cardinality(Born) + 1
       /\ ownedExitCode' = "none" /\ priorRunIds' = OnDisk
       /\ Count(crashRelaunches, "crash") /\ Count(lockRelaunches, "lock_free")
       /\ fallbackUsed' = (fallbackUsed \/ decide(Observed).model)
       /\ noLogSince' = NoSilence
       /\ UNCHANGED pendingWait
       /\ Misread /\ UNCHANGED <<quotaWaits, overloadBackoffs, old>>

SpawnRunner ==
  /\ Judge("spawn")
  /\ Fork
  /\ IF mode = "once" THEN Stopped ELSE
       /\ pc' = "look" /\ trackedRunId' = Tracked
       /\ attempt' = attempt + 1 /\ child' = Cardinality(Born) + 1
       /\ ownedExitCode' = "none" /\ priorRunIds' = OnDisk
       /\ Count(crashRelaunches, "crash") /\ Count(lockRelaunches, "lock_free")
       /\ fallbackUsed' = (fallbackUsed \/ decide(Observed).model)
       /\ noLogSince' = NoSilence
       /\ pendingWait' = NoWait
       /\ Misread /\ UNCHANGED <<quotaWaits, overloadBackoffs, old>>

\* attach: wait for the child it owns, or sleep beside a runner it does not own.
AttachRunner ==
  /\ Judge("attach")
  /\ Noted
  /\ pc' = IF OwnsLiveChild THEN "child" ELSE "poll"
  /\ UNCHANGED <<run, child, ownedExitCode, attempt, priorRunIds, counters,
                 pendingWait, history>>

\* waitFor: the child's exit code, as soon as it has one (null after a tick).
WaitForChild ==
  /\ pc = "child" /\ run[child].stage = "down"
  /\ pc' = "look" /\ ownedExitCode' = run[child].code
  /\ UNCHANGED <<run, world, mode, child, attempt, trackedRunId, priorRunIds,
                 counters, pendingWait, noLogSince, history>>

WaitUntil ==
  /\ Judge("wait")
  /\ Noted
  /\ pc' = "wait"
  /\ pendingWait' = [cause |-> decide(Observed).why, left |-> decide(Observed).ticks]
  /\ Count(quotaWaits, "quota") /\ Count(overloadBackoffs, "overload")
  /\ UNCHANGED <<run, child, ownedExitCode, attempt, priorRunIds, crashRelaunches,
                 lockRelaunches, fallbackUsed, history>>

Terminate == Judge("exit") /\ Stopped /\ UNCHANGED run

\* The watchdog's own process is killed; the runner it started goes on.
KillWatchdog ==
  /\ pc # "off" /\ faults < MaxFaults /\ faults' = faults + 1
  /\ Stopped
  /\ UNCHANGED <<run, lock, stop, mode>>

Loop == SpawnRunner \/ AttachRunner \/ WaitForChild \/ WaitUntil \/ Terminate

RunnerStep(r) ==
  AcquireLock(r) \/ MakeRunDir(r) \/ WriteRunRecord(r) \/ EndPass(r) \/ Report(r)

Next ==
  \/ Loop \/ KillWatchdog \/ StartByHand \/ FlipStop \/ Tick
  \/ \E m \in Modes : Invoke(m)
  \/ \E r \in Run :
       \/ RunnerStep(r) \/ FailRunRecord(r) \/ AppendLog(r)
       \/ \E code \in PassCodes : EndUnrecorded(r, code)
       \/ \E tail \in Tails : KillRunner(r, tail)

Spec == Init /\ [][Next]_vars
-----------------------------------------------------------------------------
\* Every variable stays in its domain.
TypeOK ==
  /\ run \in [Run -> [stage : {"unborn", "starting", "locked", "dirmade", "running",
                              "reporting", "down"},
                     dir : BOOLEAN, recorded : BOOLEAN, final : BOOLEAN, code : ExitCode \cup {"none"},
                     logged : BOOLEAN, age : 0 .. Stall + 1,
                     tail : [reset : Nat \cup {NoReset},
                             result : {"fine", "overload", "permanent"}]]]
  /\ lock \in Run \cup {NoRun} /\ stop \in BOOLEAN
  /\ faults \in 0 .. MaxFaults
  /\ pc \in {"off", "look", "child", "poll", "wait"}
  /\ mode \in {"once", "follow"}
  /\ child \in Run \cup {NoRun} /\ ownedExitCode \in ExitCode \cup {"none"}
  /\ trackedRunId \in Run \cup {NoRun}
  /\ attempt \in Nat /\ priorRunIds \subseteq Run /\ old \subseteq Run
  /\ misread \in Run \cup {NoRun}
  /\ quotaWaits \in Nat /\ overloadBackoffs \in Nat /\ crashRelaunches \in Nat
  /\ lockRelaunches \in Nat /\ fallbackUsed \in BOOLEAN
  /\ pendingWait \in [cause : {"none", "quota", "overload"}, left : Nat]

\* However the signals of the logs come and go, an invocation starts no more
\* runners than its budgets and the waits it has served add up to (FIX F-C1,
\* F-C2): one launch, and one start for each unit spent.
Spent == crashRelaunches + lockRelaunches + quotaWaits + overloadBackoffs
SpawnsAreBudgeted ==
  /\ attempt <= 1 + Spent + (IF fallbackUsed THEN 1 ELSE 0)
  /\ crashRelaunches <= MaxCrashRelaunches /\ lockRelaunches <= 1
  /\ quotaWaits <= MaxQuotaWaits /\ overloadBackoffs <= MaxOverloadBackoffs

\* A crash or lock relaunch is paid for by a run that has ended badly since this
\* invocation started, never by what an earlier one left on disk (FIX F-C4). One
\* of them may be paid for by a run that lives and has no record yet, or none at
\* all: crashSuspected takes a directory without a run.json for a dead runner.
Ended == {r \in Born \ old : run[r].final \/ run[r].stage = "down"}
Paying == Ended \cup ({misread} \ {NoRun})
BudgetsAreEarned == crashRelaunches + lockRelaunches <= Cardinality(Paying)

\* The watchdog never starts a runner beside its own living child, from the
\* instant of the fork on, directory or not (C1).
NeverTwoChildren ==
  [][attempt' > attempt => child = NoRun \/ run[child].stage = "down"]_vars

Ends(why) == pc = "look" /\ pc' = "off" /\ decide(Observed) = Exit(why)

\* What an earlier invocation left behind never ends this one: a runner's exit
\* code is an outcome only of a run that was not over when it started (FIX S1).
OldRunsDecideNothing ==
  [][(\E why \in {"runner_done", "escalations_pending", "error"} : Ends(why))
     => ownedExitCode # "none" \/ Newest(OnDisk) \notin old]_vars

\* Once its child has ended on an error no relaunch can cure (G3), or under a
\* quota that is not over, this invocation starts nothing: as long as the child
\* is the newest run, for the log it looks into is the newest run's.
NoFutileRelaunch ==
  [][attempt' > attempt /\ child # NoRun /\ child = Newest(OnDisk)
     => run[child].tail.result # "permanent" /\ run[child].tail.reset <= 0]_vars

NoSlots == Cardinality(Born) = MaxRuns
Stuck   == pc = "look" /\ NoSlots /\ decide(Observed).do = "spawn"

\* What is due: a step of Loop; the end of a sleep; and of a runner that has come
\* up its run directory, of one that writes its report the end.
LoopDue   == (pc = "look" /\ ~Stuck) \/ (pc = "child" /\ run[child].stage = "down")
Asleep    == pc \in {"child", "poll", "wait"}
RunnerDue == \E r \in Run : run[r].stage \in {"starting", "locked", "dirmade", "reporting"}

\* The watchdog is a program that goes on, time passes while it sleeps, and its
\* runners come up and end: weak fairness of Loop, of Tick and of those steps. None
\* can be taken for ever without leaving what made it due, so each is written as
\* that this ends. Nothing says that a pass ever ends.
FairSpec ==
  /\ Spec
  /\ []<>~LoopDue
  /\ []<>~Asleep
  /\ []<>~RunnerDue

\* A runner that hangs is reported: an invocation ends, or somebody's session
\* goes on logging for ever (or the instance has no runner left to start). Not
\* so for a lock holder that is not the newest run, an older id that got the
\* lock later, or that has no record: beside these the watchdog sits without a
\* bound.
Unbounded == lock # NoRun /\ Up(lock) /\ (lock # Newest(OnDisk) \/ ~run[lock].recorded)
HangsAreReported ==
  \/ <>[]Unbounded
  \/ []<>(pc = "off" \/ Stuck)
  \/ []<><<\E r \in Run : AppendLog(r)>>_vars

\* --once from cron: it is started again and again.
CronSpec == FairSpec /\ SF_vars(Tick) /\ \A m \in Modes : WF_vars(Invoke(m))

\* "Usable from cron/launchd" (W-P5): a run that ended overloaded is followed by
\* another one, unless somebody says STOP. Refuted for --once: every invocation
\* counts from zero, orders the same first backoff anew and forgets it.
OverloadIsRetried ==
  (Newest(OnDisk) # NoRun /\ Newest(Born) = Newest(OnDisk)
     /\ run[Newest(OnDisk)].code = "incomplete" /\ run[Newest(OnDisk)].tail.result = "overload")
    ~> (NoSlots \/ stop)
-----------------------------------------------------------------------------
(* What the budgets and the outcomes rest on.                              *)

\* Runs are born in the order of their numbers; a record is final when its process
\* has gone, and a runner that was refused the lock has left no signal.
RecordsAreTrue ==
  /\ \E n \in 0 .. MaxRuns : Born = 1 .. n
  /\ \A r \in Run :
       /\ run[r].dir => run[r].stage # "unborn"
       /\ run[r].final => run[r].stage = "down"
       /\ run[r].code = "locked" => run[r].tail = NoTail

\* Between two invocations nothing is remembered, and an old run stays final.
NothingIsCarried ==
  /\ pc = "off" => NoMemory
  /\ \A r \in old : run[r].final

\* What the loop knows of its child is so; without one, it has started none and
\* tracks a run only that it has seen alive.
ChildIsKnown ==
  /\ child = NoRun <=> attempt = 0
  /\ child = NoRun =>
       /\ ownedExitCode = "none" /\ trackedRunId \notin old
       /\ crashRelaunches = 0 /\ lockRelaunches = 0
  /\ child # NoRun => child \in Born \ old
  /\ pc = "child" => child # NoRun
  /\ ownedExitCode # "none" =>
       child # NoRun /\ run[child].stage = "down" /\ run[child].code = ownedExitCode

\* A wait that was ordered has been counted and has not been used yet.
WaitsAreCounted ==
  /\ attempt + (IF pendingWait.cause = "none" THEN 0 ELSE 1)
       <= 1 + Spent + (IF fallbackUsed THEN 1 ELSE 0)
  /\ crashRelaunches <= MaxCrashRelaunches /\ lockRelaunches <= 1
  /\ quotaWaits <= MaxQuotaWaits /\ overloadBackoffs <= MaxOverloadBackoffs

\* One run that has ended or was taken for dead, not the child, for each relaunch.
RelaunchesArePaid ==
  /\ misread \in Born \cup {NoRun}
  /\ crashRelaunches + lockRelaunches <= Cardinality(Paying \ {child})

LoopInv ==
  /\ RecordsAreTrue
  /\ NothingIsCarried
  /\ ChildIsKnown
  /\ WaitsAreCounted
  /\ RelaunchesArePaid
=============================================================================
