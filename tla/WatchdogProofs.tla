--------------------------- MODULE WatchdogProofs ---------------------------
(***************************************************************************)
(* Theorems about Watchdog, for any number of runs and faults, any budgets *)
(* and any signals in the logs: types, the budgets and what pays for them, *)
(* and what a step of the loop may never do.                               *)
(***************************************************************************)
EXTENDS Watchdog, FiniteSetTheorems, WellFoundedInduction, TLAPS

USE LimitsAssumption DEF ExitCode

\* The parts of a runner's record.
TailOf    == [reset : Nat \cup {NoReset}, result : {"fine", "overload", "permanent"}]
StageOf   == {"unborn", "starting", "locked", "dirmade", "running", "reporting", "down"}
RunRecord == [stage : StageOf, dir : BOOLEAN, recorded : BOOLEAN, final : BOOLEAN,
              code : ExitCode \cup {"none"}, logged : BOOLEAN, age : 0 .. Stall + 1,
              tail : TailOf]
-----------------------------------------------------------------------------
(* The runs                                                                *)

\* The newest of some runs is one of them.
LEMMA NewestIsOne ==
  ASSUME NEW S \in SUBSET Run, S # {}
  PROVE  Newest(S) \in S
<1> DEFINE U == {n \in Nat : \A q \in S : q <= n}
<1>1. U \subseteq Nat /\ MaxRuns \in U
  BY DEF Run
<1>2. PICK m \in U : \A n \in U : ~(<<n, m>> \in OpToRel(<, Nat))
  <2> HIDE DEF U
  <2>1. QED
    BY <1>1, NatLessThanWellFounded, WFMin
<1>3. ASSUME NEW n \in U PROVE m <= n
  <2>1. m \in Nat /\ n \in Nat
    OBVIOUS
  <2>2. CASE n < m
    <3>1. <<n, m>> \in OpToRel(<, Nat)
      BY <2>1, <2>2 DEF OpToRel
    <3>2. QED
      BY <1>2, <3>1
  <2>3. QED
    BY <2>1, <2>2
<1>4. ASSUME m \notin S PROVE FALSE
  <2>1. PICK s \in S : TRUE
    OBVIOUS
  <2>2. s \in 1 .. MaxRuns /\ s <= m /\ m \in Nat
    BY DEF Run
  <2>3. ASSUME NEW q \in S PROVE q <= m - 1
    <3>1. q \in Int /\ q <= m /\ q # m
      BY <1>4 DEF Run
    <3>2. QED
      BY <2>2, <3>1
  <2>4. m - 1 \in U
    BY <2>2, <2>3
  <2>5. QED
    BY <1>3, <2>2, <2>4
<1>5. \E r \in S : \A q \in S : q <= r
  BY <1>4
<1>6. QED
  BY <1>5 DEF Newest

\* A runner that comes to its end.
LEMMA DownRun ==
  ASSUME run \in [Run -> RunRecord], NEW r \in Run, NEW code \in ExitCode,
         NEW tail \in TailOf, NEW final \in BOOLEAN, Down(r, code, tail, final)
  PROVE  /\ run' \in [Run -> RunRecord]
         /\ \A q \in Run \ {r} : run'[q] = run[q]
         /\ run'[r].stage = "down" /\ run'[r].code = code /\ run'[r].tail = tail
         /\ run'[r].final = final /\ run'[r].dir = run[r].dir
<1> DEFINE new == [run[r] EXCEPT !.stage = "down", !.code = code, !.tail = tail,
                                 !.final = final, !.recorded = FALSE,
                                 !.logged = FALSE, !.age = 0]
<1>1. run' = [run EXCEPT ![r] = new]
  BY DEF Down
<1>2. new \in RunRecord
  <2>1. 0 \in 0 .. Stall + 1 /\ "down" \in StageOf
    BY DEF StageOf
  <2>2. QED
    BY <2>1, ZenonT(60) DEF RunRecord
<1>3. /\ new.stage = "down" /\ new.code = code /\ new.tail = tail
      /\ new.final = final /\ new.dir = run[r].dir
  BY DEF RunRecord
<1> HIDE DEF new
<1>4. QED
  BY <1>1, <1>2, <1>3

\* A runner that goes on to another stage.
LEMMA StageRun ==
  ASSUME run \in [Run -> RunRecord], NEW r \in Run, NEW s \in StageOf,
         run' = [run EXCEPT ![r].stage = s]
  PROVE  /\ run' \in [Run -> RunRecord]
         /\ \A q \in Run \ {r} : run'[q] = run[q]
         /\ run'[r].stage = s /\ run'[r].code = run[r].code /\ run'[r].tail = run[r].tail
         /\ run'[r].final = run[r].final /\ run'[r].dir = run[r].dir
<1> DEFINE new == [run[r] EXCEPT !.stage = s]
<1>1. run' = [run EXCEPT ![r] = new]
  OBVIOUS
<1>2. new \in RunRecord
  BY DEF RunRecord
<1>3. /\ new.stage = s /\ new.code = run[r].code /\ new.tail = run[r].tail
      /\ new.final = run[r].final /\ new.dir = run[r].dir
  BY DEF RunRecord
<1> HIDE DEF new
<1>4. QED
  BY <1>1, <1>2, <1>3

\* What a step does to the runners: nobody comes back, and a record stays true.
RunsMove ==
  /\ run' \in [Run -> RunRecord]
  /\ \A q \in Run :
       /\ run[q].stage = "down" => /\ run'[q].stage = "down" /\ run'[q].code = run[q].code
                                  /\ run'[q].final = run[q].final
       /\ run[q].stage # "unborn" => run'[q].stage # "unborn"
  /\ RecordsAreTrue'

\* The runners' records, of TypeOK.
LEMMA RunsAreTyped == TypeOK => run \in [Run -> RunRecord]
  BY DEF TypeOK, RunRecord, StageOf, TailOf

\* One runner changes its record, and nobody is born.
LEMMA OneRunMoves ==
  ASSUME TypeOK, RecordsAreTrue, NEW r \in Run, run' \in [Run -> RunRecord],
         \A q \in Run \ {r} : /\ run'[q].stage = run[q].stage /\ run'[q].code = run[q].code
                               /\ run'[q].final = run[q].final /\ run'[q].dir = run[q].dir
                               /\ run'[q].tail \in {run[q].tail, NoTail},
         Up(r), run'[r].stage # "unborn", run'[r].final => run'[r].stage = "down",
         run'[r].code = "locked" => run'[r].tail = NoTail
  PROVE  RunsMove
<1>1. \A q \in Run : (run'[q].stage # "unborn") = (run[q].stage # "unborn")
  BY DEF Up
<1>2. Born' = Born
  BY <1>1 DEF Born
<1>3. RecordsAreTrue'
  <2>1. \E n \in 0 .. MaxRuns : Born' = 1 .. n
    BY <1>2 DEF RecordsAreTrue
  <2>2. ASSUME NEW q \in Run
        PROVE  /\ run'[q].dir => run'[q].stage # "unborn"
               /\ run'[q].final => run'[q].stage = "down"
               /\ run'[q].code = "locked" => run'[q].tail = NoTail
    BY DEF RecordsAreTrue
  <2>3. QED
    BY <2>1, <2>2 DEF RecordsAreTrue
<1>4. QED
  BY <1>1, <1>3 DEF RunsMove, Up

\* The next runner comes up.
LEMMA ForkMoves ==
  ASSUME TypeOK, RecordsAreTrue, Fork
  PROVE  /\ RunsMove
         /\ Cardinality(Born) + 1 \in Run \ Born
         /\ run[Cardinality(Born) + 1].stage = "unborn"
         /\ run'[Cardinality(Born) + 1].stage = "starting"
         /\ \A q \in Run \ {Cardinality(Born) + 1} : run'[q] = run[q]
         /\ Born' = Born \cup {Cardinality(Born) + 1}
<1>1. PICK n \in 0 .. MaxRuns : Born = 1 .. n
  BY DEF RecordsAreTrue
<1>2. Cardinality(Born) = n
  BY <1>1, FS_Interval
<1>3. n + 1 \in Run /\ n + 1 \notin Born /\ n + 1 \in 1 .. MaxRuns
  BY <1>1, <1>2 DEF Fork, Run
<1>4. run[n + 1].stage = "unborn"
  BY <1>3 DEF Born
<1>5. run' = [run EXCEPT ![n + 1].stage = "starting"]
  BY <1>2 DEF Fork
<1>6. /\ run' \in [Run -> RunRecord]
      /\ \A q \in Run \ {n + 1} : run'[q] = run[q]
      /\ run'[n + 1].stage = "starting" /\ run'[n + 1].code = run[n + 1].code
      /\ run'[n + 1].tail = run[n + 1].tail
      /\ run'[n + 1].final = run[n + 1].final /\ run'[n + 1].dir = run[n + 1].dir
  BY <1>3, <1>5, RunsAreTyped, StageRun DEF StageOf
<1>7. Born' = Born \cup {n + 1}
  BY <1>3, <1>4, <1>6 DEF Born
<1>8. Born' = 1 .. n + 1
  BY <1>1, <1>7
<1>9. RecordsAreTrue'
  <2>1. \E m \in 0 .. MaxRuns : Born' = 1 .. m
    BY <1>3, <1>8
  <2>2. ASSUME NEW q \in Run
        PROVE  /\ run'[q].dir => run'[q].stage # "unborn"
               /\ run'[q].final => run'[q].stage = "down"
               /\ run'[q].code = "locked" => run'[q].tail = NoTail
    <3>1. CASE q = n + 1
      BY <1>4, <1>6, <3>1 DEF RecordsAreTrue
    <3>2. CASE q # n + 1
      BY <1>6, <3>2 DEF RecordsAreTrue
    <3>3. QED
      BY <3>1, <3>2
  <2>3. QED
    BY <2>1, <2>2 DEF RecordsAreTrue
<1>10. QED
  <2>1. RunsMove
    <3>1. ASSUME NEW q \in Run, q # n + 1 PROVE run'[q] = run[q]
      BY <1>6, <3>1
    <3>2. QED
      BY <1>4, <1>6, <1>9, <3>1 DEF RunsMove
  <2>2. QED
    BY <1>2, <1>3, <1>4, <1>6, <1>7, <2>1

\* Runners that are only a tick older.
LEMMA TickMoves ==
  ASSUME TypeOK, RecordsAreTrue, Tick
  PROVE  RunsMove
<1>0. run \in [Run -> RunRecord]
  BY RunsAreTyped
<1> DEFINE Aged(r) == IF run[r].logged THEN Older(run[r].age) ELSE run[r].age
           Left(r) == IF run[r].tail.reset > 0 THEN run[r].tail.reset - 1
                      ELSE run[r].tail.reset
           New(r)  == [run[r] EXCEPT !.age = Aged(r), !.tail.reset = Left(r)]
<1>1. run' = [r \in Run |-> New(r)]
  BY DEF Tick
<1>2. ASSUME NEW r \in Run
      PROVE  /\ New(r) \in RunRecord
             /\ New(r).stage = run[r].stage /\ New(r).code = run[r].code
             /\ New(r).final = run[r].final /\ New(r).dir = run[r].dir
             /\ run[r].tail = NoTail => New(r).tail = NoTail
  <2>1. run[r] \in RunRecord
    BY <1>0
  <2>2. Aged(r) \in 0 .. Stall + 1
    <3>1. run[r].age \in 0 .. Stall + 1
      BY <2>1 DEF RunRecord
    <3>2. QED
      BY <3>1 DEF Older, Least
  <2>3. run[r].tail \in TailOf
    BY <2>1 DEF RunRecord
  <2>4. Left(r) \in Nat \cup {NoReset}
    BY <2>3 DEF TailOf, NoReset
  <2>5. New(r) = [run[r] EXCEPT !.age = Aged(r), !.tail = [run[r].tail EXCEPT !.reset = Left(r)]]
    BY <2>1 DEF RunRecord
  <2>6. [run[r].tail EXCEPT !.reset = Left(r)] \in TailOf
    BY <2>3, <2>4 DEF TailOf
  <2>7. run[r].tail = NoTail => [run[r].tail EXCEPT !.reset = Left(r)] = NoTail
    BY DEF NoTail, NoReset
  <2> HIDE DEF Aged, Left, New
  <2>8. QED
    BY <2>1, <2>2, <2>5, <2>6, <2>7 DEF RunRecord
<1> HIDE DEF New
<1>3. run' \in [Run -> RunRecord]
  BY <1>1, <1>2
<1>4. Born' = Born
  BY <1>1, <1>2 DEF Born
<1>5. QED
  BY <1>1, <1>2, <1>3, <1>4 DEF RunsMove, RecordsAreTrue

\* No tail, and the tails of this instance.
LEMMA NoTailIsATail == NoTail \in TailOf /\ Tails \subseteq TailOf
  BY DEF NoTail, TailOf, NoReset

\* A runner takes one of its own steps, or is disturbed.
LEMMA RunnerMoves ==
  ASSUME TypeOK, RecordsAreTrue, NEW r \in Run,
         \/ RunnerStep(r) \/ FailRunRecord(r) \/ AppendLog(r)
         \/ \E code \in PassCodes : EndUnrecorded(r, code)
         \/ \E tail \in Tails : KillRunner(r, tail)
  PROVE  RunsMove
<1>0. run \in [Run -> RunRecord]
  BY RunsAreTyped
<1>1. CASE AcquireLock(r)
  <2>1. CASE Down(r, "locked", NoTail, FALSE)
    <3>1. /\ run' \in [Run -> RunRecord]
          /\ \A q \in Run \ {r} : run'[q] = run[q]
          /\ run'[r].stage = "down" /\ run'[r].tail = NoTail /\ run'[r].final = FALSE
      BY <1>0, <2>1, DownRun, NoTailIsATail
    <3>2. QED
      BY <1>1, <3>1, OneRunMoves DEF AcquireLock, Up
  <2>2. CASE Become(r, "locked")
    <3>1. /\ run' \in [Run -> RunRecord]
          /\ \A q \in Run \ {r} : run'[q] = run[q]
          /\ run'[r].stage = "locked" /\ run'[r].code = run[r].code
          /\ run'[r].tail = run[r].tail /\ run'[r].final = run[r].final
      BY <1>0, <2>2, StageRun DEF Become, StageOf
    <3>2. run[r].stage = "starting"
      BY <1>1 DEF AcquireLock
    <3>3. run[r].final = FALSE
      BY <1>0, <3>2 DEF RecordsAreTrue, RunRecord
    <3>4. QED
      BY <3>1, <3>2, <3>3, OneRunMoves DEF Up, RecordsAreTrue
  <2>3. QED
    BY <1>1, <2>1, <2>2 DEF AcquireLock
<1>2. CASE MakeRunDir(r)
  <2> DEFINE New(q) == IF q = r THEN [run[r] EXCEPT !.stage = "dirmade", !.dir = TRUE]
                       ELSE [run[q] EXCEPT !.tail = NoTail]
  <2>1. run' = [q \in Run |-> New(q)] /\ run[r].stage = "locked"
    BY <1>2 DEF MakeRunDir
  <2>2. ASSUME NEW q \in Run PROVE New(q) \in RunRecord
    <3>1. CASE q = r
      BY <1>0, <3>1, ZenonT(60) DEF RunRecord, StageOf
    <3>2. CASE q # r
      BY <1>0, <3>2, NoTailIsATail, ZenonT(60) DEF RunRecord
    <3>3. QED
      BY <3>1, <3>2
  <2>3. ASSUME NEW q \in Run, q # r
        PROVE  /\ New(q).stage = run[q].stage /\ New(q).code = run[q].code
               /\ New(q).final = run[q].final /\ New(q).dir = run[q].dir
               /\ New(q).tail = NoTail
    BY <1>0, <2>3 DEF RunRecord
  <2>4. /\ New(r).stage = "dirmade" /\ New(r).code = run[r].code
        /\ New(r).final = run[r].final /\ New(r).tail = run[r].tail
    BY <1>0 DEF RunRecord
  <2> HIDE DEF New
  <2>5. run' \in [Run -> RunRecord]
    BY <2>1, <2>2
  <2>6. run[r].final = FALSE
    BY <1>0, <2>1 DEF RecordsAreTrue, RunRecord
  <2>7. run'[r] = New(r) /\ \A q \in Run : run'[q] = New(q)
    BY <2>1
  <2>8. \A q \in Run \ {r} :
          /\ run'[q].stage = run[q].stage /\ run'[q].code = run[q].code
          /\ run'[q].final = run[q].final /\ run'[q].dir = run[q].dir
          /\ run'[q].tail \in {run[q].tail, NoTail}
    BY <2>3, <2>7
  <2>9. Up(r) /\ run'[r].stage # "unborn"
    BY <2>1, <2>4, <2>7 DEF Up
  <2>10. ~run'[r].final /\ (run'[r].code = "locked" => run'[r].tail = NoTail)
    BY <2>4, <2>6, <2>7 DEF RecordsAreTrue
  <2>11. QED
    BY <2>5, <2>8, <2>9, <2>10, OneRunMoves
<1>3. CASE AppendLog(r)
  <2> DEFINE new == [run[r] EXCEPT !.logged = TRUE, !.age = 0]
  <2>1. run' = [run EXCEPT ![r] = new] /\ run[r].stage = "running"
    BY <1>3 DEF AppendLog
  <2>2. new \in RunRecord
    <3>1. 0 \in 0 .. Stall + 1
      OBVIOUS
    <3>2. QED
      BY <1>0, <3>1, ZenonT(60) DEF RunRecord
  <2>3. /\ new.stage = run[r].stage /\ new.code = run[r].code /\ new.tail = run[r].tail
        /\ new.final = run[r].final
    BY <1>0 DEF RunRecord
  <2> HIDE DEF new
  <2>4. run' \in [Run -> RunRecord] /\ run'[r] = new
        /\ \A q \in Run \ {r} : run'[q] = run[q]
    BY <1>0, <2>1, <2>2
  <2>5. run[r].final = FALSE
    BY <1>0, <2>1 DEF RecordsAreTrue, RunRecord
  <2>6. run'[r].stage # "unborn" /\ Up(r) /\ ~run'[r].final
        /\ (run'[r].code = "locked" => run'[r].tail = NoTail)
    BY <2>1, <2>3, <2>4, <2>5 DEF Up, RecordsAreTrue
  <2>7. QED
    BY <2>4, <2>6, OneRunMoves
<1>3a. CASE WriteRunRecord(r)
  <2> DEFINE new == [run[r] EXCEPT !.stage = "running", !.recorded = TRUE]
  <2>1. run' = [run EXCEPT ![r] = new] /\ run[r].stage = "dirmade"
    BY <1>3a DEF WriteRunRecord
  <2>2. new \in RunRecord
    BY <1>0, ZenonT(60) DEF RunRecord, StageOf
  <2>3. /\ new.stage = "running" /\ new.code = run[r].code /\ new.tail = run[r].tail
        /\ new.final = run[r].final
    BY <1>0 DEF RunRecord
  <2> HIDE DEF new
  <2>4. run' \in [Run -> RunRecord] /\ run'[r] = new
        /\ \A q \in Run \ {r} : run'[q] = run[q]
    BY <1>0, <2>1, <2>2
  <2>5. run[r].final = FALSE
    BY <1>0, <2>1 DEF RecordsAreTrue, RunRecord
  <2>6. run'[r].stage # "unborn" /\ Up(r) /\ ~run'[r].final
        /\ (run'[r].code = "locked" => run'[r].tail = NoTail)
    BY <2>1, <2>3, <2>4, <2>5 DEF Up, RecordsAreTrue
  <2>7. QED
    BY <2>4, <2>6, OneRunMoves
<1>3b. CASE FailRunRecord(r)
  <2>1. /\ run' \in [Run -> RunRecord]
        /\ \A q \in Run \ {r} : run'[q] = run[q]
        /\ run'[r].stage = "running" /\ run'[r].code = run[r].code
        /\ run'[r].tail = run[r].tail /\ run'[r].final = run[r].final
    BY <1>0, <1>3b, StageRun DEF FailRunRecord, Become, StageOf
  <2>2. run[r].stage = "dirmade"
    BY <1>3b DEF FailRunRecord
  <2>3. run[r].final = FALSE
    BY <1>0, <2>2 DEF RecordsAreTrue, RunRecord
  <2>4. QED
    BY <2>1, <2>2, <2>3, OneRunMoves DEF Up, RecordsAreTrue
<1>4. CASE EndPass(r)
  <2>1. /\ run' \in [Run -> RunRecord]
        /\ \A q \in Run \ {r} : run'[q] = run[q]
        /\ run'[r].stage = "reporting" /\ run'[r].code = run[r].code
        /\ run'[r].tail = run[r].tail /\ run'[r].final = run[r].final
    BY <1>0, <1>4, StageRun DEF EndPass, Become, StageOf
  <2>2. run[r].stage = "running"
    BY <1>4 DEF EndPass
  <2>3. run[r].final = FALSE
    BY <1>0, <2>2 DEF RecordsAreTrue, RunRecord
  <2>4. QED
    BY <2>1, <2>2, <2>3, OneRunMoves DEF Up, RecordsAreTrue
<1>5. ASSUME NEW code \in ExitCode \ {"locked"}, NEW tail \in TailOf, NEW final \in BOOLEAN,
             Down(r, code, tail, final), Up(r)
      PROVE  RunsMove
  <2>1. /\ run' \in [Run -> RunRecord]
        /\ \A q \in Run \ {r} : run'[q] = run[q]
        /\ run'[r].stage = "down" /\ run'[r].code = code
    BY <1>0, <1>5, DownRun
  <2>2. QED
    BY <1>5, <2>1, OneRunMoves
<1>6. CASE Report(r)
  <2>1. PICK code \in PassCodes, tail \in Tails : FinalizeRunRecord(r, code, tail)
    BY <1>6 DEF Report
  <2>2. Up(r) /\ Down(r, code, tail, TRUE) /\ code \in ExitCode \ {"locked"}
    BY <2>1 DEF FinalizeRunRecord, Up
  <2>3. QED
    BY <1>5, <2>2, NoTailIsATail
<1>7. ASSUME NEW code \in PassCodes, EndUnrecorded(r, code) PROVE RunsMove
  <2>1. Up(r) /\ Down(r, code, NoTail, FALSE) /\ code \in ExitCode \ {"locked"}
    BY <1>7 DEF EndUnrecorded, Up
  <2>2. QED
    BY <1>5, <2>1, NoTailIsATail
<1>8. ASSUME NEW tail \in Tails, KillRunner(r, tail) PROVE RunsMove
  <2>1. Up(r) /\ Down(r, "other", tail, FALSE)
    BY <1>8 DEF KillRunner
  <2>2. QED
    BY <1>5, <2>1, NoTailIsATail
<1>9. QED
  BY <1>1, <1>2, <1>3, <1>3a, <1>3b, <1>4, <1>6, <1>7, <1>8 DEF RunnerStep

\* Every other step leaves the runners alone, or brings up the next one.
LEMMA StandStill ==
  ASSUME TypeOK, RecordsAreTrue, UNCHANGED run
  PROVE  RunsMove
  BY RunsAreTyped DEF RunsMove, RecordsAreTrue, Born

\* The runners' part of each step.
LEMMA RunsDoMove ==
  ASSUME TypeOK, RecordsAreTrue, [Next]_vars
  PROVE  RunsMove
<1>1. CASE UNCHANGED vars
  BY <1>1, StandStill DEF vars
<1>2. CASE Loop
  BY <1>2, StandStill, ForkMoves
     DEF Loop, SpawnRunner, AttachRunner, WaitForChild, WaitUntil, Terminate
<1>3. CASE KillWatchdog \/ FlipStop \/ \E m \in Modes : Invoke(m)
  BY <1>3, StandStill DEF KillWatchdog, FlipStop, Invoke
<1>4. CASE StartByHand
  BY <1>4, ForkMoves DEF StartByHand
<1>5. CASE Tick
  BY <1>5, TickMoves
<1>6. QED
  BY <1>1, <1>2, <1>3, <1>4, <1>5, RunnerMoves DEF Next
-----------------------------------------------------------------------------
(* What decide decides                                                     *)

\* The relaunch with the fallback model.
Fallback == [Spawn("overload") EXCEPT !.model = TRUE]

\* What a decision does, and why.
LEMMA Deeds ==
  /\ \A why : Exit(why).do = "exit" /\ Exit(why).why = why
  /\ \A why : Spawn(why).do = "spawn" /\ Spawn(why).why = why /\ Spawn(why).model = FALSE
  /\ \A why, n : Wait(why, n).do = "wait" /\ Wait(why, n).why = why /\ Wait(why, n).ticks = n
  /\ Fallback.do = "spawn" /\ Fallback.why = "overload" /\ Fallback.model = TRUE
  /\ Attach.do = "attach" /\ Running.do \in {"exit", "attach"}
  /\ Running.do = "exit" => Running.why = "runner_alive"
  BY DEF Exit, Spawn, Wait, Attach, Running, Fallback

\* A decision under the STOP file is an exit.
LEMMA UnstoppedDeeds ==
  ASSUME NEW d, Unstopped(d).do \in {"spawn", "wait"}
  PROVE  Unstopped(d) = d
  BY Deeds DEF Unstopped

\* A run that died is recovered by what its log says.
LEMMA RecoveryHasCause ==
  ASSUME NEW o, Recover(o).do \in {"spawn", "wait"}
  PROVE  /\ ~(o.tail.result = "permanent" /\ o.provenanced)
         /\ \/ Recover(o) = Wait("quota", QuotaUntil(o)) /\ o.tail.reset > 0
                /\ ~(quotaWaits >= MaxQuotaWaits)
            \/ Recover(o) = Spawn("quota") /\ Served("quota") /\ ~(o.tail.reset > 0)
            \/ Recover(o) = Spawn("overload") /\ Served("overload") /\ ~(o.tail.reset > 0)
            \/ Recover(o) = Fallback /\ ~fallbackUsed
                /\ ~(o.tail.reset > 0)
            \/ Recover(o) = Wait("overload", overloadBackoffSeconds(overloadBackoffs))
                /\ ~(overloadBackoffs >= MaxOverloadBackoffs)
            \/ Recover(o) = Spawn("crash") /\ ~(crashRelaunches >= MaxCrashRelaunches)
                /\ ~(o.tail.reset > 0) /\ ~ServedQuota(o) /\ o.tail.result # "overload"
<1> DEFINE d == IF o.tail.reset > 0 THEN Quota(o)
                ELSE IF ServedQuota(o) THEN Spawn("quota")
                ELSE IF o.tail.result = "overload" THEN Overload
                ELSE Crash
<1>1. ~(o.tail.result = "permanent" /\ o.provenanced)
  BY Deeds DEF Recover
<1>2. Recover(o) = Unstopped(d)
  BY <1>1 DEF Recover
<1>3. Recover(o) = d /\ d.do \in {"spawn", "wait"}
  BY <1>2, UnstoppedDeeds
<1>4. CASE o.tail.reset > 0
  BY <1>1, <1>3, <1>4, Deeds DEF Quota
<1>5. CASE ~(o.tail.reset > 0) /\ ServedQuota(o)
  BY <1>1, <1>3, <1>5 DEF ServedQuota
<1>6. CASE ~(o.tail.reset > 0) /\ ~ServedQuota(o) /\ o.tail.result = "overload"
  <2>1. d = Overload
    BY <1>6
  <2>2. QED
    BY <1>1, <1>3, <1>6, <2>1, Deeds DEF Overload, Fallback
<1>7. CASE ~(o.tail.reset > 0) /\ ~ServedQuota(o) /\ o.tail.result # "overload"
  <2>1. d = Crash
    BY <1>7
  <2>2. QED
    BY <1>1, <1>3, <1>7, <2>1, Deeds DEF Crash
<1>8. QED
  BY <1>4, <1>5, <1>6, <1>7

\* A runner is started, or waited for, after a refusal, after a death that tells
\* something, or for the first time.
LEMMA DecisionHasCause ==
  ASSUME NEW o, decide(o).do \in {"spawn", "wait"}
  PROVE  /\ ~o.alive /\ o.code \notin {"ok", "escalated", "error"}
         /\ \/ decide(o) = Spawn("lock_free") /\ o.code = "locked" /\ o.provenanced
                /\ ~(lockRelaunches >= 1)
            \/ decide(o) = Recover(o) /\ o.code # "locked" /\ Died(o) /\ Telling(o)
            \/ decide(o) = Spawn("launch") /\ ~(Died(o) /\ Telling(o))
                /\ ~(o.code = "locked" /\ o.provenanced)
<1>0. DOMAIN Verdict = {"ok", "escalated", "error"}
  BY DEF Verdict
<1>1. ~o.alive
  BY Deeds DEF decide
<1>2. o.code \notin DOMAIN Verdict
  BY <1>1, Deeds DEF decide
<1>3. ~(o.code = "locked" /\ o.holder)
  BY <1>1, <1>2, Deeds DEF decide
<1>4. CASE o.code = "locked" /\ o.provenanced
  <2>1. decide(o) = Unstopped(Refused)
    BY <1>1, <1>2, <1>3, <1>4 DEF decide
  <2>2. decide(o) = Refused
    BY <2>1, UnstoppedDeeds
  <2>3. QED
    BY <1>0, <1>1, <1>2, <1>4, <2>2, Deeds DEF Refused
<1>5. CASE ~(o.code = "locked" /\ o.provenanced) /\ Died(o) /\ Telling(o)
  <2>1. decide(o) = Recover(o)
    BY <1>1, <1>2, <1>3, <1>5 DEF decide
  <2>2. o.code # "locked"
    BY <1>5 DEF Died
  <2>3. QED
    BY <1>0, <1>1, <1>2, <1>5, <2>1, <2>2
<1>6. CASE ~(o.code = "locked" /\ o.provenanced) /\ ~(Died(o) /\ Telling(o))
  <2>1. ~o.holder
    BY <1>1, <1>2, <1>3, <1>6, Deeds DEF decide
  <2>2. decide(o) = Unstopped(Spawn("launch"))
    BY <1>1, <1>2, <1>3, <1>6, <2>1 DEF decide
  <2>3. decide(o) = Spawn("launch")
    BY <2>2, UnstoppedDeeds
  <2>4. QED
    BY <1>0, <1>1, <1>2, <1>6, <2>3
<1>7. QED
  BY <1>4, <1>5, <1>6

\* An outcome is an exit code.
LEMMA OutcomeIsACode ==
  ASSUME NEW o, NEW why \in {"runner_done", "escalations_pending", "error"},
         decide(o) = Exit(why)
  PROVE  ~o.alive /\ o.code \in {"ok", "escalated", "error"}
<1>0. DOMAIN Verdict = {"ok", "escalated", "error"}
  BY DEF Verdict
<1>1. decide(o).do = "exit" /\ decide(o).why = why
  BY Deeds
<1>2. ASSUME NEW d, d.do # "exit" \/ d.why \notin {"runner_done", "escalations_pending", "error"}
      PROVE  decide(o) # Unstopped(d)
  BY <1>1, <1>2, Deeds DEF Unstopped
<1>3. ~o.alive
  BY <1>1, Deeds DEF decide
<1>4. SUFFICES ASSUME o.code \notin DOMAIN Verdict PROVE FALSE
  BY <1>0, <1>3
<1>5. ~(o.code = "locked" /\ o.holder)
  BY <1>1, <1>3, <1>4, Deeds DEF decide
<1>6. CASE o.code = "locked" /\ o.provenanced
  <2>1. decide(o) = Unstopped(Refused)
    BY <1>3, <1>4, <1>5, <1>6 DEF decide
  <2>2. QED
    BY <1>2, <2>1, Deeds DEF Refused
<1>7. CASE ~(o.code = "locked" /\ o.provenanced) /\ Died(o) /\ Telling(o)
  <2>1. decide(o) = Recover(o)
    BY <1>3, <1>4, <1>5, <1>7 DEF decide
  <2> DEFINE d == IF o.tail.reset > 0 THEN Quota(o)
                  ELSE IF ServedQuota(o) THEN Spawn("quota")
                  ELSE IF o.tail.result = "overload" THEN Overload
                  ELSE Crash
  <2>2. Recover(o) = Exit("permanent_api_error") \/ Recover(o) = Unstopped(d)
    BY DEF Recover
  <2>3. d.do # "exit" \/ d.why \notin {"runner_done", "escalations_pending", "error"}
    <3>1. d \in {Quota(o), Spawn("quota"), Overload, Crash}
      OBVIOUS
    <3> HIDE DEF d
    <3>2. ASSUME d = Quota(o) PROVE d.do # "exit" \/ d.why \in {"quota_cap", "quota_wait_pending"}
      BY <3>2, Deeds DEF Quota
    <3>3. ASSUME d = Overload
          PROVE  d.do # "exit" \/ d.why \in {"overloaded", "overload_backoff_pending"}
      BY <3>3, Deeds DEF Overload
    <3>4. ASSUME d = Crash PROVE d.do # "exit" \/ d.why = "session_incomplete"
      BY <3>4, Deeds DEF Crash
    <3>5. QED
      BY <3>1, <3>2, <3>3, <3>4, Deeds
  <2>4. QED
    BY <1>1, <1>2, <2>1, <2>2, <2>3, Deeds
<1>8. CASE ~(o.code = "locked" /\ o.provenanced) /\ ~(Died(o) /\ Telling(o))
  <2>1. decide(o) = Running \/ decide(o) = Unstopped(Spawn("launch"))
    BY <1>3, <1>4, <1>5, <1>8 DEF decide
  <2>2. QED
    BY <1>1, <1>2, <2>1, Deeds
<1>9. QED
  BY <1>6, <1>7, <1>8
-----------------------------------------------------------------------------
(* What the loop looks at                                                  *)

\* The run that is looked at is on disk.
LEMMA PickedIsThere ==
  ASSUME TypeOK
  PROVE  Picked = NoRun \/ (Picked \in Run /\ Picked \in OnDisk)
<1>1. OnDisk \in SUBSET Run /\ OnDisk \ priorRunIds \in SUBSET Run
  BY DEF OnDisk
<1>2. \A S \in SUBSET Run : Newest(S) = NoRun \/ Newest(S) \in S
  BY NewestIsOne DEF Newest
<1>3. QED
  BY <1>1, <1>2 DEF Picked

LEMMA TrackedIsARun ==
  ASSUME TypeOK
  PROVE  Tracked \in Run \cup {NoRun}
  BY PickedIsThere DEF Tracked, TypeOK

LEMMA ObservedIs ==
  /\ Observed.alive = Alive /\ Observed.code = LastExitCode
  /\ Observed.provenanced = Provenanced /\ Observed.crashSuspected = CrashSuspected
  /\ Observed.tail = Signals
  BY DEF Observed

\* The ticks of a wait are a number.
LEMMA WaitsAreFinite ==
  ASSUME TypeOK, decide(Observed).do = "wait"
  PROVE  decide(Observed).why \in {"quota", "overload"} /\ decide(Observed).ticks \in Nat
<1>0. Signals.reset \in Nat \cup {NoReset} /\ NoReset = -1
  <2>1. Picked # NoRun => run[Picked] \in RunRecord
    BY PickedIsThere, RunsAreTyped
  <2>2. Signals \in TailOf
    BY <2>1, NoTailIsATail DEF Signals, RunRecord
  <2>3. QED
    BY <2>2 DEF TailOf, NoReset
<1>1. Observed.tail.reset > 0 => QuotaUntil(Observed) \in Nat
  BY <1>0, ObservedIs DEF QuotaUntil, Least
<1>2. overloadBackoffSeconds(overloadBackoffs) \in Nat
  BY DEF overloadBackoffSeconds, Least, TypeOK
<1>3. decide(Observed) = Recover(Observed)
  BY DecisionHasCause, Deeds
<1>4. \/ Recover(Observed) = Wait("quota", QuotaUntil(Observed)) /\ Observed.tail.reset > 0
      \/ Recover(Observed) = Wait("overload", overloadBackoffSeconds(overloadBackoffs))
  <2>1. Recover(Observed).do = "wait"
    BY <1>3
  <2>2. Recover(Observed).do # "spawn"
    BY <2>1
  <2>3. \A why : Recover(Observed) # Spawn(why)
    BY <2>2, Deeds
  <2>4. Recover(Observed) # Fallback
    BY <2>2, Deeds
  <2>5. QED
    BY <2>1, <2>3, <2>4, RecoveryHasCause
<1> HIDE DEF Wait, decide, Recover
<1>5. QED
  BY <1>1, <1>2, <1>3, <1>4, Deeds

\* A process that has stopped remembers nothing, with the types of nothing.
LEMMA StoppedIsTyped ==
  ASSUME Stopped
  PROVE  /\ NoMemory' /\ pc' = "off"
         /\ child' \in Run \cup {NoRun} /\ ownedExitCode' \in ExitCode \cup {"none"}
         /\ trackedRunId' \in Run \cup {NoRun}
         /\ attempt' \in Nat /\ priorRunIds' \subseteq Run /\ old' \subseteq Run
         /\ misread' \in Run \cup {NoRun}
         /\ quotaWaits' \in Nat /\ overloadBackoffs' \in Nat /\ crashRelaunches' \in Nat
         /\ lockRelaunches' \in Nat /\ fallbackUsed' \in BOOLEAN
         /\ pendingWait' \in [cause : {"none", "quota", "overload"}, left : Nat]
  BY DEF Stopped, NoMemory, NoWait

\* The counters of a step of the loop.
LEMMA CountIsTyped ==
  ASSUME NEW n \in Nat, NEW m, NEW why, m = n + (IF decide(Observed).why = why THEN 1 ELSE 0)
  PROVE  m \in Nat
  OBVIOUS

\* The types of the world that the loop leaves behind.
TypesOfLoop ==
  /\ child \in Run \cup {NoRun} /\ ownedExitCode \in ExitCode \cup {"none"}
  /\ trackedRunId \in Run \cup {NoRun}
  /\ attempt \in Nat /\ priorRunIds \subseteq Run /\ old \subseteq Run
  /\ misread \in Run \cup {NoRun}
  /\ quotaWaits \in Nat /\ overloadBackoffs \in Nat /\ crashRelaunches \in Nat
  /\ lockRelaunches \in Nat /\ fallbackUsed \in BOOLEAN
  /\ pendingWait \in [cause : {"none", "quota", "overload"}, left : Nat]

\* The types of the loop's own memory.
LEMMA LoopIsTyped ==
  ASSUME TypeOK, LoopInv, [Next]_vars
  PROVE  TypesOfLoop'
<1>0. TypesOfLoop
  BY DEF TypesOfLoop, TypeOK
<1>1. CASE UNCHANGED <<loop, history>>
  BY <1>0, <1>1 DEF TypesOfLoop, loop, counters, history
<1>2. CASE Stopped
  BY <1>2, StoppedIsTyped DEF TypesOfLoop
<1>3. CASE SpawnRunner /\ ~Stopped
  <2>1. child' = Cardinality(Born) + 1 /\ Fork
    BY <1>3 DEF SpawnRunner
  <2>2. child' \in Run
    BY <2>1, ForkMoves DEF LoopInv
  <2>3. crashRelaunches' \in Nat /\ lockRelaunches' \in Nat
    BY <1>0, <1>3, CountIsTyped DEF SpawnRunner, Count, TypesOfLoop
  <2>4. trackedRunId' \in Run \cup {NoRun} /\ priorRunIds' \subseteq Run
    BY <1>3, TrackedIsARun DEF SpawnRunner, OnDisk
  <2>5. /\ attempt' = attempt + 1 /\ ownedExitCode' = "none" /\ pendingWait' = NoWait
        /\ old' = old /\ quotaWaits' = quotaWaits /\ overloadBackoffs' = overloadBackoffs
    BY <1>3 DEF SpawnRunner
  <2>6. fallbackUsed' \in BOOLEAN
    BY <1>3 DEF SpawnRunner
  <2>7. misread' \in Run \cup {NoRun}
    BY <1>0, <1>3, PickedIsThere DEF SpawnRunner, Misread, TypesOfLoop
  <2>8. QED
    BY <1>0, <2>2, <2>3, <2>4, <2>5, <2>6, <2>7 DEF TypesOfLoop, NoWait
<1>4. CASE AttachRunner
  BY <1>0, <1>4, TrackedIsARun DEF AttachRunner, Noted, TypesOfLoop, counters, history
<1>5. CASE WaitForChild
  <2>1. child \in Run
    BY <1>0, <1>5 DEF WaitForChild, TypesOfLoop, LoopInv, ChildIsKnown
  <2>2. run[child].code \in ExitCode \cup {"none"}
    BY <2>1, RunsAreTyped DEF RunRecord
  <2>3. QED
    BY <1>0, <1>5, <2>2 DEF WaitForChild, TypesOfLoop, counters, history
<1>6. CASE WaitUntil
  <2>1. pendingWait' \in [cause : {"none", "quota", "overload"}, left : Nat]
    BY <1>6, WaitsAreFinite DEF WaitUntil, Judge
  <2>2. quotaWaits' \in Nat /\ overloadBackoffs' \in Nat
    BY <1>0, <1>6, CountIsTyped DEF WaitUntil, Count, TypesOfLoop
  <2>3. QED
    BY <1>0, <1>6, <2>1, <2>2, TrackedIsARun DEF WaitUntil, Noted, TypesOfLoop, history
<1>7. CASE Tick
  <2>1. pendingWait' = [pendingWait EXCEPT !.left = IF @ > 0 THEN @ - 1 ELSE @]
    BY <1>7 DEF Tick
  <2>2. pendingWait' \in [cause : {"none", "quota", "overload"}, left : Nat]
    BY <1>0, <2>1 DEF TypesOfLoop
  <2>3. QED
    BY <1>0, <1>7, <2>2 DEF Tick, TypesOfLoop, counters, history
<1>8. CASE \E m \in Modes : Invoke(m)
  BY <1>0, <1>8 DEF Invoke, TypesOfLoop, loop, counters
<1>9. QED
  BY <1>1, <1>2, <1>3, <1>4, <1>5, <1>6, <1>7, <1>8
     DEF Next, vars, Loop, Terminate, KillWatchdog, StartByHand, FlipStop, Watchdog,
         RunnerStep, AcquireLock, MakeRunDir, WriteRunRecord, FailRunRecord, EndPass, Report, FinalizeRunRecord,
         AppendLog, EndUnrecorded, KillRunner

\* The types of the rest.
LEMMA StepIsTyped ==
  ASSUME TypeOK, LoopInv, [Next]_vars
  PROVE  TypeOK'
<1>1. TypesOfLoop'
  BY LoopIsTyped
<1>2. run' \in [Run -> RunRecord]
  BY RunsDoMove DEF RunsMove, LoopInv
<1>3a. lock' \in Run \cup {NoRun}
  BY DEF TypeOK, Next, vars, world, Loop, SpawnRunner, AttachRunner, WaitForChild,
     WaitUntil, Terminate, Judge, Invoke, Tick, KillWatchdog, StartByHand, FlipStop,
     RunnerStep, AcquireLock, MakeRunDir, WriteRunRecord, FailRunRecord, EndPass, Report, FinalizeRunRecord,
     AppendLog, EndUnrecorded, KillRunner
<1>3b. stop' \in BOOLEAN
  BY DEF TypeOK, Next, vars, world, Loop, SpawnRunner, AttachRunner, WaitForChild,
     WaitUntil, Terminate, Judge, Invoke, Tick, KillWatchdog, StartByHand, FlipStop,
     RunnerStep, AcquireLock, MakeRunDir, WriteRunRecord, FailRunRecord, EndPass, Report, FinalizeRunRecord,
     AppendLog, EndUnrecorded, KillRunner
<1>3c. faults' = faults \/ (faults < MaxFaults /\ faults' = faults + 1)
  BY DEF Next, vars, world, Loop, SpawnRunner, AttachRunner, WaitForChild,
     WaitUntil, Terminate, Judge, Invoke, Tick, KillWatchdog, StartByHand, FlipStop,
     RunnerStep, AcquireLock, MakeRunDir, WriteRunRecord, FailRunRecord, EndPass, Report, FinalizeRunRecord,
     AppendLog, EndUnrecorded, KillRunner
<1>3d. faults' \in 0 .. MaxFaults
  BY <1>3c DEF TypeOK
<1>4. pc' \in {"off", "look", "child", "poll", "wait"}
  BY DEF TypeOK, Next, vars, Loop, SpawnRunner, AttachRunner, WaitForChild,
     WaitUntil, Terminate, Stopped, Invoke, Tick, KillWatchdog, StartByHand, FlipStop,
     RunnerStep, AcquireLock, MakeRunDir, WriteRunRecord, FailRunRecord, EndPass, Report, FinalizeRunRecord,
     AppendLog, EndUnrecorded, KillRunner, Watchdog
<1>5. mode' \in {"once", "follow"}
  BY DEF TypeOK, Next, vars, Loop, SpawnRunner, AttachRunner, WaitForChild,
     WaitUntil, Terminate, Judge, Invoke, Tick, KillWatchdog, StartByHand, FlipStop,
     RunnerStep, AcquireLock, MakeRunDir, WriteRunRecord, FailRunRecord, EndPass, Report, FinalizeRunRecord,
     AppendLog, EndUnrecorded, KillRunner, Watchdog
<1>6. QED
  BY <1>1, <1>2, <1>3a, <1>3b, <1>3d, <1>4, <1>5
     DEF TypeOK, TypesOfLoop, RunRecord, StageOf, TailOf
-----------------------------------------------------------------------------
(* The loop's invariant                                                    *)

\* Runs can be counted.
LEMMA RunsAreFinite == \A S \in SUBSET Run : IsFiniteSet(S) /\ Cardinality(S) \in Nat
<1>1. IsFiniteSet(Run)
  BY FS_Interval DEF Run
<1>2. QED
  BY <1>1, FS_Subset, FS_CardinalityType

\* A process that has stopped is where another may start.
LEMMA StoppedKeeps ==
  ASSUME TypeOK, LoopInv, RunsMove, Stopped
  PROVE  LoopInv'
<1>1. NoMemory' /\ pc' = "off"
  BY StoppedIsTyped
<1>2. RecordsAreTrue' /\ NothingIsCarried'
  BY <1>1 DEF RunsMove, NothingIsCarried, NoMemory
<1>3. ChildIsKnown'
  BY <1>1 DEF ChildIsKnown, NoMemory
<1>4. WaitsAreCounted'
  BY <1>1 DEF WaitsAreCounted, NoMemory, Spent, NoWait
<1>5. RelaunchesArePaid'
  <2>1. (Paying \ {child})' \in SUBSET Run
    BY <1>1 DEF Paying, Ended, Born, NoMemory
  <2>2. Cardinality((Paying \ {child})') \in Nat
    BY <2>1, RunsAreFinite
  <2>3. crashRelaunches' = 0 /\ lockRelaunches' = 0 /\ misread' = NoRun
    BY <1>1 DEF NoMemory
  <2>4. QED
    BY <2>2, <2>3 DEF RelaunchesArePaid
<1>6. QED
  BY <1>2, <1>3, <1>4, <1>5 DEF LoopInv

\* Who has ended, or was taken for dead, stays so, and the sets that are counted
\* are finite.
LEMMA EndedGrows ==
  ASSUME TypeOK, LoopInv, RunsMove, UNCHANGED old, misread' \in Born' \cup {NoRun},
         misread # NoRun => misread' = misread
  PROVE  /\ Ended \subseteq Ended' /\ Ended' \subseteq Run
         /\ Paying \subseteq Paying' /\ Paying' \subseteq Run
         /\ \A S \in SUBSET Run : IsFiniteSet(S) /\ Cardinality(S) \in Nat
<1>1. Ended \subseteq Ended' /\ Ended' \subseteq Run
  BY DEF Ended, Born, RunsMove, LoopInv, RecordsAreTrue
<1>2. Paying \subseteq Paying' /\ Paying' \subseteq Run
  BY <1>1 DEF Paying, Born
<1>3. QED
  BY <1>1, <1>2, RunsAreFinite

\* A larger finite set has no fewer elements.
LEMMA MoreRuns ==
  ASSUME NEW S, IsFiniteSet(S), NEW T, T \subseteq S
  PROVE  Cardinality(T) <= Cardinality(S)
  BY FS_Subset, FS_CardinalityType

\* Steps after which the loop has started nothing, and knows what it knew.
LEMMA QuietKeeps ==
  ASSUME TypeOK, LoopInv, RunsMove, WaitsAreCounted',
         UNCHANGED <<child, attempt, crashRelaunches, lockRelaunches, history>>,
         pc' = "off" => NoMemory', pc' = "child" => child # NoRun,
         trackedRunId' = trackedRunId \/ (child = NoRun => trackedRunId' \notin old),
         \/ ownedExitCode' = ownedExitCode
         \/ /\ child # NoRun /\ run[child].stage = "down"
            /\ ownedExitCode' = run[child].code
  PROVE  LoopInv'
<1>1. child # NoRun => child \in Run /\ child \in Born \ old
  BY DEF LoopInv, ChildIsKnown, Born
<1>2. NothingIsCarried'
  BY DEF LoopInv, NothingIsCarried, RunsMove, RecordsAreTrue, TypeOK, history
<1>3. ChildIsKnown'
  <2>1. child # NoRun => child \in (Born \ old)'
    BY <1>1 DEF RunsMove, Born, history
  <2>2. ownedExitCode' # "none" =>
          child # NoRun /\ run'[child].stage = "down" /\ run'[child].code = ownedExitCode'
    BY <1>1 DEF RunsMove, LoopInv, ChildIsKnown
  <2>3. child = NoRun => ownedExitCode' = "none" /\ trackedRunId' \notin old
    BY DEF LoopInv, ChildIsKnown
  <2>4. QED
    BY <2>1, <2>2, <2>3 DEF LoopInv, ChildIsKnown, history
<1>4. RelaunchesArePaid'
  <2>1. misread' = misread /\ old' = old /\ misread' \in (Born \cup {NoRun})'
    BY DEF history, LoopInv, RelaunchesArePaid, RunsMove, Born
  <2>2. /\ Paying \subseteq Paying' /\ Paying' \subseteq Run
        /\ \A S \in SUBSET Run : IsFiniteSet(S) /\ Cardinality(S) \in Nat
    BY <2>1, EndedGrows
  <2>3. (Paying \ {child})' = Paying' \ {child}
    OBVIOUS
  <2>4. Cardinality(Paying \ {child}) <= Cardinality((Paying \ {child})')
    BY <2>2, <2>3, MoreRuns
  <2>5. Cardinality(Paying \ {child}) \in Nat /\ Cardinality((Paying \ {child})') \in Nat
    BY <2>2, <2>3
  <2>6. QED
    BY <2>1, <2>4, <2>5 DEF LoopInv, RelaunchesArePaid, TypeOK
<1>5. QED
  BY <1>2, <1>3, <1>4 DEF LoopInv, RunsMove

\* A run that is tracked while no child is known was not over at the start.
LEMMA TrackedIsNotOld ==
  ASSUME TypeOK, LoopInv, child = NoRun
  PROVE  Tracked \notin old
  BY PickedIsThere DEF Tracked, NotFinalized, Final, LoopInv, ChildIsKnown, NothingIsCarried

\* Why a runner is started: nothing is launched twice, every relaunch is within its
\* budget, and one after a crash or a refusal has a run that ended, or that the very
\* first start takes for dead.
LEMMA SpawnHasCause ==
  ASSUME TypeOK, LoopInv, decide(Observed).do = "spawn"
  PROVE  /\ child # NoRun => ownedExitCode # "none"
         /\ LET why == decide(Observed).why
                model == decide(Observed).model
            IN  \/ why = "launch" /\ child = NoRun /\ ~model
                \/ why = "quota" /\ Served("quota") /\ ~model
                \/ why = "overload" /\ Served("overload") /\ ~model
                \/ why = "overload" /\ model /\ ~fallbackUsed
                \/ /\ why = "crash" /\ crashRelaunches < MaxCrashRelaunches /\ ~model
                   /\ Ended # {} \/ (Misreading /\ child = NoRun)
                \/ /\ why = "lock_free" /\ lockRelaunches < 1 /\ ~model
                   /\ Ended # {}
<1> DEFINE o == Observed
<1>0. /\ ~Alive
      /\ LastExitCode \notin {"ok", "escalated", "error"}
      /\ \/ decide(o) = Spawn("lock_free") /\ LastExitCode = "locked" /\ Provenanced
             /\ ~(lockRelaunches >= 1)
         \/ decide(o) = Recover(o) /\ LastExitCode # "locked" /\ Died(o) /\ Telling(o)
         \/ decide(o) = Spawn("launch") /\ ~(Died(o) /\ Telling(o))
             /\ ~(LastExitCode = "locked" /\ Provenanced)
  <2>1. decide(o).do \in {"spawn", "wait"}
    OBVIOUS
  <2>2. QED
    BY <2>1, DecisionHasCause, ObservedIs
<1>1. child # NoRun => ownedExitCode # "none"
  BY <1>0 DEF Alive, OwnsLiveChild
<1>2. ASSUME Provenanced, ~Misreading PROVE Ended # {}
  <2>1. CASE ownedExitCode # "none"
    <3>1. child \in Ended
      BY <2>1 DEF LoopInv, ChildIsKnown, Ended
    <3>2. QED
      BY <3>1
  <2>2. CASE ownedExitCode = "none"
    <3>1. Picked \in Run /\ Picked \in OnDisk
      BY <1>2, <2>2, PickedIsThere DEF Provenanced, CrashSuspected, Final
    <3>2. run[Picked].stage # "unborn"
      BY <3>1 DEF OnDisk, LoopInv, RecordsAreTrue
    <3>3. CASE CrashSuspected
      <4>1. ~run[Picked].final /\ ~Up(Picked)
        BY <1>2, <3>3 DEF CrashSuspected, Final, Misreading
      <4>2. Picked \in Ended
        BY <3>1, <3>2, <4>1 DEF Ended, Born, Up, LoopInv, NothingIsCarried
      <4>3. QED
        BY <4>2
    <3>4. CASE Final /\ Provenance
      <4>1. child = NoRun
        BY <1>1, <2>2
      <4>2. Picked \notin old
        BY <3>4, <4>1, TrackedIsNotOld DEF Provenance
      <4>3. Picked \in Ended
        BY <3>1, <3>2, <3>4, <4>2 DEF Ended, Born, Final
      <4>4. QED
        BY <4>3
    <3>5. QED
      BY <1>2, <2>2, <3>3, <3>4 DEF Provenanced
  <2>3. QED
    BY <2>1, <2>2
<1>2a. Misreading => child = NoRun
  BY DEF Misreading, CrashSuspected, Alive, OwnsLiveChild
<1>3. CASE decide(o) = Spawn("lock_free") /\ LastExitCode = "locked" /\ Provenanced
           /\ ~(lockRelaunches >= 1)
  <2>1. lockRelaunches < 1
    BY <1>3 DEF TypeOK
  <2>2. ~Misreading
    BY <1>3 DEF Misreading, CrashSuspected, LastExitCode, RecordCode
  <2>3. QED
    BY <1>1, <1>2, <1>3, <2>1, <2>2, Deeds
<1>4. CASE decide(o) = Spawn("launch") /\ ~(Died(o) /\ Telling(o))
           /\ ~(LastExitCode = "locked" /\ Provenanced)
  <2>1. ASSUME child # NoRun PROVE FALSE
    <3>1. LastExitCode = ownedExitCode /\ ownedExitCode # "none" /\ Provenanced
      BY <1>1, <2>1 DEF LastExitCode, Provenanced
    <3>2. LastExitCode \in {"incomplete", "other"}
      BY <1>0, <1>4, <3>1 DEF TypeOK
    <3>3. o.code = LastExitCode /\ o.provenanced
      BY <3>1, ObservedIs
    <3> HIDE DEF o
    <3>4. Died(o) /\ Telling(o)
      BY <3>2, <3>3 DEF Died, Telling
    <3>5. QED
      BY <1>4, <3>4
  <2>2. QED
    BY <1>1, <1>4, <2>1, Deeds
<1>5. CASE decide(o) = Recover(o) /\ Telling(o)
  <2>1. Recover(o).do = "spawn"
    BY <1>5
  <2>2. \A why, n : Recover(o) # Wait(why, n)
    BY <2>1, Deeds
  <2>3. Recover(o).do \in {"spawn", "wait"}
    BY <2>1
  <2>4. \/ Recover(o) = Spawn("quota") /\ Served("quota")
        \/ Recover(o) = Spawn("overload") /\ Served("overload")
        \/ Recover(o) = Fallback /\ ~fallbackUsed
        \/ Recover(o) = Spawn("crash") /\ ~(crashRelaunches >= MaxCrashRelaunches)
            /\ ~(o.tail.reset > 0) /\ ~ServedQuota(o) /\ o.tail.result # "overload"
    BY <2>2, <2>3, RecoveryHasCause
  <2>5. CASE Recover(o) = Spawn("crash") /\ ~(crashRelaunches >= MaxCrashRelaunches)
            /\ ~(o.tail.reset > 0) /\ ~ServedQuota(o) /\ o.tail.result # "overload"
    <3>1. Provenanced
      BY <1>5, <2>5, ObservedIs DEF Telling
    <3>2. crashRelaunches < MaxCrashRelaunches
      BY <2>5 DEF TypeOK
    <3>3. Ended # {} \/ (Misreading /\ child = NoRun)
      BY <1>2, <1>2a, <3>1
    <3>4. QED
      BY <1>1, <1>5, <2>5, <3>2, <3>3, Deeds
  <2>6. QED
    BY <1>1, <1>5, <2>4, <2>5, Deeds
<1>6. QED
  BY <1>0, <1>3, <1>4, <1>5

\* A spawn is counted, or is the first, or serves a wait that has been counted.
LEMMA SpawnKeeps ==
  ASSUME TypeOK, LoopInv, RunsMove, SpawnRunner, mode # "once"
  PROVE  LoopInv'
<1> DEFINE why == decide(Observed).why
           model == decide(Observed).model
           Paid(c) == IF why = c THEN 1 ELSE 0
<1>0. /\ decide(Observed).do = "spawn" /\ Fork /\ pc' = "look"
      /\ trackedRunId' = Tracked /\ attempt' = attempt + 1
      /\ child' = Cardinality(Born) + 1 /\ ownedExitCode' = "none"
      /\ pendingWait' = NoWait
      /\ misread' = (IF why = "crash" /\ Misreading THEN Picked ELSE misread)
      /\ UNCHANGED <<quotaWaits, overloadBackoffs, old>>
  BY DEF SpawnRunner, Judge, Misread
<1>1. /\ crashRelaunches' = crashRelaunches + Paid("crash")
      /\ lockRelaunches' = lockRelaunches + Paid("lock_free")
      /\ fallbackUsed' = (fallbackUsed \/ model)
  BY DEF SpawnRunner, Count
<1>2. /\ child # NoRun => ownedExitCode # "none"
      /\ \/ why = "launch" /\ child = NoRun /\ ~model
         \/ why = "quota" /\ Served("quota") /\ ~model
         \/ why = "overload" /\ Served("overload") /\ ~model
         \/ why = "overload" /\ model /\ ~fallbackUsed
         \/ /\ why = "crash" /\ crashRelaunches < MaxCrashRelaunches /\ ~model
            /\ Ended # {} \/ (Misreading /\ child = NoRun)
         \/ why = "lock_free" /\ lockRelaunches < 1 /\ ~model /\ Ended # {}
  BY <1>0, SpawnHasCause
<1>3. /\ child' \in Run \ Born /\ run[child'].stage = "unborn"
      /\ run'[child'].stage = "starting" /\ Born' = Born \cup {child'}
  BY <1>0, ForkMoves DEF LoopInv
<1> HIDE DEF why, model
<1>4. NothingIsCarried'
  BY <1>0 DEF NothingIsCarried, LoopInv, RunsMove, RecordsAreTrue, TypeOK
<1>5. ChildIsKnown'
  <2>1. child' \notin old
    BY <1>3 DEF LoopInv, NothingIsCarried, RecordsAreTrue
  <2>2. child' # NoRun /\ attempt' # 0
    BY <1>0, <1>3 DEF Run, NoRun, TypeOK
  <2>3. QED
    BY <1>0, <1>3, <2>1, <2>2 DEF ChildIsKnown
<1>6. WaitsAreCounted'
  <2>1. /\ attempt \in Nat /\ quotaWaits \in Nat /\ overloadBackoffs \in Nat
        /\ crashRelaunches \in Nat /\ lockRelaunches \in Nat
    BY DEF TypeOK
  <2>2. /\ attempt + (IF pendingWait.cause = "none" THEN 0 ELSE 1)
               <= 1 + Spent + (IF fallbackUsed THEN 1 ELSE 0)
        /\ crashRelaunches <= MaxCrashRelaunches /\ lockRelaunches <= 1
        /\ quotaWaits <= MaxQuotaWaits /\ overloadBackoffs <= MaxOverloadBackoffs
    BY DEF LoopInv, WaitsAreCounted
  <2>3. child = NoRun => attempt = 0
    BY DEF LoopInv, ChildIsKnown
  <2>4. pendingWait'.cause = "none"
    BY <1>0 DEF NoWait
  <2>5. Spent' = Spent + Paid("crash") + Paid("lock_free")
    BY <1>0, <1>1, <2>1 DEF Spent
  <2>6. Spent \in Nat
    BY <2>1 DEF Spent
  <2>7. attempt + 1 <= 1 + Spent' + (IF fallbackUsed' THEN 1 ELSE 0)
    <3>1. CASE why = "launch" /\ child = NoRun
      BY <2>3, <2>5, <2>6, <3>1
    <3>2. CASE why \in {"quota", "overload"} /\ Served(why)
      <4>1. pendingWait.cause # "none"
        BY <3>2 DEF Served
      <4>2. Spent' = Spent
        BY <2>5, <2>6, <3>2
      <4>3. (IF fallbackUsed THEN 1 ELSE 0) <= (IF fallbackUsed' THEN 1 ELSE 0)
        <5>1. fallbackUsed => fallbackUsed'
          BY <1>1, Zenon
        <5>2. QED
          BY <5>1
      <4>4. QED
        BY <2>1, <2>2, <2>6, <4>1, <4>2, <4>3
    <3>3. CASE why = "overload" /\ model /\ ~fallbackUsed
      <4>1. Spent' = Spent
        BY <2>5, <2>6, <3>3
      <4>2. fallbackUsed'
        BY <1>1, <3>3
      <4>3. QED
        BY <2>1, <2>2, <2>6, <3>3, <4>1, <4>2
    <3>4. CASE why \in {"crash", "lock_free"}
      <4>1. Spent' = Spent + 1
        BY <2>5, <2>6, <3>4
      <4>2. (IF fallbackUsed THEN 1 ELSE 0) <= (IF fallbackUsed' THEN 1 ELSE 0)
        <5>1. fallbackUsed => fallbackUsed'
          BY <1>1, Zenon
        <5>2. QED
          BY <5>1
      <4>3. QED
        BY <2>1, <2>2, <2>6, <4>1, <4>2
    <3>5. QED
      BY <1>2, <3>1, <3>2, <3>3, <3>4
  <2>8. crashRelaunches' <= MaxCrashRelaunches /\ lockRelaunches' <= 1
    BY <1>1, <1>2, <2>1, <2>2
  <2>9. QED
    BY <1>0, <2>2, <2>4, <2>7, <2>8 DEF WaitsAreCounted
<1>7. RelaunchesArePaid'
  <2>0. /\ misread \in Born \cup {NoRun}
        /\ crashRelaunches + lockRelaunches <= Cardinality(Paying \ {child})
        /\ crashRelaunches \in Nat /\ lockRelaunches \in Nat
    BY DEF LoopInv, RelaunchesArePaid, TypeOK
  <2>0a. Misreading => Picked \in Born
    BY PickedIsThere DEF Misreading, CrashSuspected, OnDisk, Born, LoopInv, RecordsAreTrue
  <2>0b. misread' \in Born \cup {NoRun}
    BY <1>0, <2>0, <2>0a
  <2>0c. /\ Ended \subseteq Ended' /\ Ended' \subseteq Run /\ child' \notin Ended
         /\ child' \notin Born /\ NoRun \notin Born /\ NoRun \notin Ended
    BY <1>0, <1>3 DEF Ended, Born, RunsMove, LoopInv, RecordsAreTrue, Run, NoRun
  <2>0d. Paying' \ {child'} \in SUBSET Run /\ Paying \in SUBSET Run
    BY <2>0, <2>0b, <2>0c DEF Paying, Born
  <2>1. CASE why = "crash" /\ Misreading
    <3>1. crashRelaunches = 0 /\ lockRelaunches = 0
      BY <1>2, <2>1 DEF LoopInv, ChildIsKnown, Misreading, CrashSuspected
    <3>2. crashRelaunches' + lockRelaunches' = 1
      BY <1>1, <2>1, <3>1
    <3>3. misread' \in Born
      BY <1>0, <2>0a, <2>1
    <3>4. misread' \in Paying' \ {child'}
      BY <2>0c, <3>3 DEF Paying
    <3>5. Cardinality(Paying' \ {child'}) # 0 /\ Cardinality(Paying' \ {child'}) \in Nat
      BY <2>0d, <3>4, RunsAreFinite, FS_EmptySet
    <3>6. crashRelaunches' + lockRelaunches' <= Cardinality(Paying' \ {child'})
      BY <3>2, <3>5
    <3>7. QED
      BY <1>3, <3>3, <3>6 DEF RelaunchesArePaid
  <2>2. CASE ~(why = "crash" /\ Misreading)
    <3>1. misread' = misread
      BY <1>0, <2>2
    <3>2. Paying \subseteq Paying' \ {child'}
      BY <2>0, <2>0c, <3>1 DEF Paying
    <3>3. /\ IsFiniteSet(Paying) /\ Cardinality(Paying) \in Nat
          /\ IsFiniteSet(Paying \ {child}) /\ Cardinality(Paying \ {child}) \in Nat
          /\ IsFiniteSet(Paying' \ {child'}) /\ Cardinality(Paying' \ {child'}) \in Nat
      BY <2>0d, RunsAreFinite
    <3>4. Cardinality(Paying) <= Cardinality(Paying' \ {child'})
      BY <3>2, <3>3, MoreRuns
    <3>5. Cardinality(Paying \ {child}) <= Cardinality(Paying)
      BY <3>3, MoreRuns
    <3>6. crashRelaunches' + lockRelaunches' <= Cardinality(Paying' \ {child'})
      <4>1. CASE why \notin {"crash", "lock_free"}
        BY <1>1, <2>0, <3>3, <3>4, <3>5, <4>1
      <4>2. CASE why \in {"crash", "lock_free"}
        <5>1. crashRelaunches' + lockRelaunches' = crashRelaunches + lockRelaunches + 1
          BY <1>1, <2>0, <4>2
        <5>2. Ended # {}
          BY <1>2, <2>2, <4>2
        <5>3. crashRelaunches + lockRelaunches + 1 <= Cardinality(Paying)
          <6>1. CASE child = NoRun
            <7>1. crashRelaunches = 0 /\ lockRelaunches = 0
              BY <6>1 DEF LoopInv, ChildIsKnown
            <7>2. Cardinality(Paying) # 0
              BY <3>3, <5>2, FS_EmptySet DEF Paying
            <7>3. QED
              BY <3>3, <7>1, <7>2
          <6>2. CASE child # NoRun
            <7>1. child \in Ended
              BY <1>2, <6>2 DEF LoopInv, ChildIsKnown, Ended
            <7>2. child \in Paying
              BY <7>1 DEF Paying
            <7>3. Cardinality(Paying \ {child}) = Cardinality(Paying) - 1
              BY <3>3, <7>2, FS_RemoveElement
            <7>4. QED
              BY <2>0, <3>3, <7>3
          <6>3. QED
            BY <6>1, <6>2
        <5>4. QED
          BY <3>3, <3>4, <5>1, <5>3, <2>0
      <4>3. QED
        BY <4>1, <4>2
    <3>7. misread' \in Born' \cup {NoRun}
      BY <1>3, <2>0, <3>1
    <3>8. QED
      BY <3>6, <3>7 DEF RelaunchesArePaid
  <2>3. QED
    BY <2>1, <2>2
<1>8. QED
  BY <1>4, <1>5, <1>6, <1>7 DEF LoopInv, RunsMove

\* A wait is counted when it is ordered.
LEMMA WaitKeeps ==
  ASSUME TypeOK, LoopInv, RunsMove, WaitUntil
  PROVE  LoopInv'
<1> DEFINE why == decide(Observed).why
           Paid(c) == IF why = c THEN 1 ELSE 0
<1>1. /\ decide(Observed).do = "wait" /\ trackedRunId' = Tracked /\ pc' = "wait"
      /\ pendingWait'.cause = why
      /\ quotaWaits' = quotaWaits + Paid("quota")
      /\ overloadBackoffs' = overloadBackoffs + Paid("overload")
      /\ UNCHANGED <<child, ownedExitCode, attempt, crashRelaunches, lockRelaunches,
                     fallbackUsed, history>>
  BY DEF WaitUntil, Judge, Noted, Count
<1>2. \/ why = "quota" /\ quotaWaits < MaxQuotaWaits
      \/ why = "overload" /\ overloadBackoffs < MaxOverloadBackoffs
  <2>1. decide(Observed) = Recover(Observed) /\ Recover(Observed).do = "wait"
    BY <1>1, DecisionHasCause, Deeds
  <2>2. Recover(Observed).do # "spawn" /\ Recover(Observed).do \in {"spawn", "wait"}
    BY <2>1
  <2>3. \A c : Recover(Observed) # Spawn(c)
    BY <2>2, Deeds
  <2>4. Recover(Observed) # Fallback
    BY <2>2, Deeds
  <2>5. \/ Recover(Observed) = Wait("quota", QuotaUntil(Observed))
            /\ ~(quotaWaits >= MaxQuotaWaits)
        \/ Recover(Observed) = Wait("overload", overloadBackoffSeconds(overloadBackoffs))
            /\ ~(overloadBackoffs >= MaxOverloadBackoffs)
    BY <2>2, <2>3, <2>4, RecoveryHasCause
  <2>6. quotaWaits \in Nat /\ overloadBackoffs \in Nat
    BY DEF TypeOK
  <2>7. QED
    BY <2>1, <2>5, <2>6, Deeds
<1> HIDE DEF why
<1>3. WaitsAreCounted'
  <2>1. /\ attempt \in Nat /\ quotaWaits \in Nat /\ overloadBackoffs \in Nat
        /\ crashRelaunches \in Nat /\ lockRelaunches \in Nat
    BY DEF TypeOK
  <2>2. Spent' = Spent + 1 /\ Spent \in Nat
    BY <1>1, <1>2, <2>1 DEF Spent
  <2>3. quotaWaits' <= MaxQuotaWaits /\ overloadBackoffs' <= MaxOverloadBackoffs
    BY <1>1, <1>2, <2>1 DEF LoopInv, WaitsAreCounted
  <2>4. attempt <= 1 + Spent + (IF fallbackUsed THEN 1 ELSE 0)
    BY <2>1, <2>2 DEF LoopInv, WaitsAreCounted
  <2>5. attempt' + (IF pendingWait'.cause = "none" THEN 0 ELSE 1)
          <= 1 + Spent' + (IF fallbackUsed' THEN 1 ELSE 0)
    BY <1>1, <2>1, <2>2, <2>4
  <2>6. QED
    BY <1>1, <2>3, <2>5 DEF LoopInv, WaitsAreCounted
<1>4. QED
  BY <1>1, <1>3, QuietKeeps, TrackedIsNotOld

\* The counters do not move, and a wait that stands stays.
LEMMA CountsStay ==
  ASSUME LoopInv, UNCHANGED <<attempt, counters>>, pendingWait'.cause = pendingWait.cause
  PROVE  WaitsAreCounted'
  BY DEF LoopInv, WaitsAreCounted, Spent, counters

LEMMA StepKeepsLoopInv ==
  ASSUME TypeOK, LoopInv, [Next]_vars
  PROVE  LoopInv'
<1>0. RunsMove
  BY RunsDoMove DEF LoopInv
<1>1. CASE UNCHANGED Watchdog
  BY <1>0, <1>1, CountsStay, QuietKeeps
     DEF Watchdog, loop, counters, history, LoopInv, NothingIsCarried, NoMemory, ChildIsKnown
<1>2. CASE Stopped
  BY <1>0, <1>2, StoppedKeeps
<1>3. CASE SpawnRunner
  <2>1. CASE mode = "once"
    BY <1>2, <1>3, <2>1 DEF SpawnRunner
  <2>2. QED
    BY <1>0, <1>3, <2>1, SpawnKeeps
<1>4. CASE AttachRunner
  BY <1>0, <1>4, CountsStay, QuietKeeps, TrackedIsNotOld
     DEF AttachRunner, Noted, counters, OwnsLiveChild, history
<1>5. CASE WaitForChild
  BY <1>0, <1>5, CountsStay, QuietKeeps
     DEF WaitForChild, counters, LoopInv, ChildIsKnown
<1>6. CASE WaitUntil
  BY <1>0, <1>6, WaitKeeps
<1>7. CASE Tick
  <2>1. pendingWait'.cause = pendingWait.cause
    BY <1>7 DEF Tick, TypeOK
  <2>2. pc' \notin {"off", "child"} \/ pc' = pc
    BY <1>7 DEF Tick
  <2>3. pc = "off" => NoMemory'
    <3> SUFFICES ASSUME pc = "off" PROVE NoMemory'
      OBVIOUS
    <3>1. NoMemory
      BY DEF LoopInv, NothingIsCarried
    <3>2. pendingWait' = NoWait
      <4>1. pendingWait' = [NoWait EXCEPT !.left = IF NoWait.left > 0 THEN NoWait.left - 1
                                                   ELSE NoWait.left]
        BY <1>7, <3>1 DEF Tick, NoMemory
      <4>2. QED
        BY <4>1 DEF NoWait
    <3>3. noLogSince' = NoSilence
      <4>1. noLogSince' = [NoSilence EXCEPT !.age = NoSilence.age]
        BY <1>7, <3>1 DEF Tick, NoMemory
      <4>2. QED
        BY <4>1 DEF NoSilence
    <3>4. QED
      BY <1>7, <3>1, <3>2, <3>3 DEF Tick, NoMemory, counters, history
  <2>4. QED
    BY <1>0, <1>7, <2>1, <2>2, <2>3, CountsStay, QuietKeeps
       DEF Tick, counters, LoopInv, ChildIsKnown
<1>8. ASSUME NEW m \in Modes, Invoke(m) PROVE LoopInv'
  <2>1. /\ NoMemory /\ pc' = "look" /\ run' = run /\ UNCHANGED loop
        /\ old' = {r \in Run : run[r].final} /\ misread' = NoRun
    BY <1>8 DEF NoMemory, Invoke, LoopInv, NothingIsCarried
  <2>2. NothingIsCarried' /\ ChildIsKnown' /\ WaitsAreCounted'
    BY <2>1 DEF NothingIsCarried, ChildIsKnown, WaitsAreCounted, NoMemory, loop, counters,
       NoRun, Run, LoopInv, Spent
  <2>3. RelaunchesArePaid'
    <3>1. (Paying \ {child})' \in SUBSET Run
      BY <2>1 DEF Paying, Ended, Born
    <3>2. Cardinality((Paying \ {child})') \in Nat
      BY <3>1, RunsAreFinite
    <3>3. QED
      BY <2>1, <3>2 DEF RelaunchesArePaid, NoMemory, loop, counters
  <2>4. QED
    BY <1>0, <2>2, <2>3 DEF LoopInv, RunsMove
<1>9. QED
  BY <1>1, <1>2, <1>3, <1>4, <1>5, <1>6, <1>7, <1>8
     DEF Next, vars, Watchdog, Loop, Terminate, KillWatchdog, StartByHand, FlipStop,
         RunnerStep, AcquireLock, MakeRunDir, WriteRunRecord, FailRunRecord, EndPass, Report, FinalizeRunRecord,
         AppendLog, EndUnrecorded, KillRunner
-----------------------------------------------------------------------------
(* Theorems                                                                *)

LEMMA InitIsTyped == Init => TypeOK /\ LoopInv
<1> SUFFICES ASSUME Init PROVE TypeOK /\ LoopInv
  OBVIOUS
<1>1. TypeOK
  <2>1. Unborn \in RunRecord
    <3>1. 0 \in 0 .. Stall + 1
      OBVIOUS
    <3>2. QED
      BY <3>1, NoTailIsATail DEF Unborn, RunRecord, StageOf
  <2>2. run \in [Run -> RunRecord]
    BY <2>1 DEF Init
  <2>3. faults \in 0 .. MaxFaults
    BY DEF Init
  <2>4. QED
    BY <2>2, <2>3 DEF Init, NoMemory, NoWait, TypeOK, RunRecord, StageOf, TailOf
<1>2. RecordsAreTrue
  <2>1. Born = 1 .. 0 /\ 0 \in 0 .. MaxRuns
    BY DEF Init, Born, Unborn
  <2>2. \A r \in Run : run[r] = Unborn
    BY DEF Init
  <2>3. QED
    BY <2>1, <2>2 DEF RecordsAreTrue, Unborn
<1>3. NothingIsCarried /\ ChildIsKnown /\ WaitsAreCounted
  BY DEF Init, NoMemory, NothingIsCarried, ChildIsKnown, WaitsAreCounted, Spent, NoWait
<1>4. RelaunchesArePaid
  <2>1. Paying \ {child} \in SUBSET Run
    BY DEF Paying, Ended, Born, Init, NoMemory
  <2>2. Cardinality(Paying \ {child}) \in Nat
    BY <2>1, RunsAreFinite
  <2>3. QED
    BY <2>2 DEF RelaunchesArePaid, Init, NoMemory
<1>5. QED
  BY <1>1, <1>2, <1>3, <1>4 DEF LoopInv

\* Types, for any runs, faults, budgets and signals.
THEOREM WatchdogTypeCorrect == Spec => []TypeOK
<1>1. TypeOK /\ LoopInv /\ [Next]_vars => (TypeOK /\ LoopInv)'
  BY StepIsTyped, StepKeepsLoopInv
<1>2. QED
  BY <1>1, InitIsTyped, PTL DEF Spec

\* What the loop knows, has counted and has been paid for is so in every state.
THEOREM LoopIsSound == Spec => []LoopInv
<1>1. TypeOK /\ LoopInv /\ [Next]_vars => (TypeOK /\ LoopInv)'
  BY StepIsTyped, StepKeepsLoopInv
<1>2. QED
  BY <1>1, InitIsTyped, PTL DEF Spec

\* However signals come and go, an invocation starts no more runners than one, its
\* budgets and the waits it has served.
THEOREM SpawnsStayBudgeted == Spec => []SpawnsAreBudgeted
<1>1. TypeOK /\ LoopInv => SpawnsAreBudgeted
  BY DEF TypeOK, LoopInv, WaitsAreCounted, SpawnsAreBudgeted, Spent
<1>2. QED
  BY <1>1, WatchdogTypeCorrect, LoopIsSound, PTL

\* No relaunch after a crash or a refusal is paid for by an old run; at most one
\* by a run that lives and was read without its record.
THEOREM RelaunchesAreEarned == Spec => []BudgetsAreEarned
<1>1. TypeOK /\ LoopInv => BudgetsAreEarned
  <2> SUFFICES ASSUME TypeOK, LoopInv PROVE BudgetsAreEarned
    OBVIOUS
  <2>1. Paying \in SUBSET Run /\ Paying \ {child} \in SUBSET Run
    BY DEF Paying, Ended, Born, LoopInv, RelaunchesArePaid
  <2>2. IsFiniteSet(Paying) /\ Cardinality(Paying) \in Nat
        /\ Cardinality(Paying \ {child}) \in Nat
    BY <2>1, RunsAreFinite
  <2>3. Cardinality(Paying \ {child}) <= Cardinality(Paying)
    BY <2>2, MoreRuns
  <2>4. crashRelaunches + lockRelaunches <= Cardinality(Paying \ {child})
        /\ crashRelaunches \in Nat /\ lockRelaunches \in Nat
    BY DEF LoopInv, RelaunchesArePaid, TypeOK
  <2>5. QED
    BY <2>2, <2>3, <2>4 DEF BudgetsAreEarned
<1>2. QED
  BY <1>1, WatchdogTypeCorrect, LoopIsSound, PTL

\* Only a spawn in follow mode is an attempt.
LEMMA AttemptsAreSpawns ==
  ASSUME TypeOK, LoopInv, [Next]_vars, attempt' > attempt
  PROVE  pc = "look" /\ decide(Observed).do = "spawn"
<1>1. attempt' # attempt /\ attempt' # 0
  BY DEF TypeOK
<1>2. SpawnRunner
  BY <1>1 DEF Next, vars, loop, Watchdog, Loop, AttachRunner, WaitForChild, WaitUntil, Terminate,
     Stopped, Invoke, Tick, KillWatchdog, StartByHand, FlipStop, RunnerStep,
     AcquireLock, MakeRunDir, WriteRunRecord, FailRunRecord, EndPass, Report, FinalizeRunRecord, AppendLog,
     EndUnrecorded, KillRunner
<1>3. QED
  BY <1>2 DEF SpawnRunner, Judge

\* No runner is started beside a living child, directory or not.
THEOREM OneChildAtATime == Spec => NeverTwoChildren
<1>1. TypeOK /\ LoopInv /\ [Next]_vars
        => [attempt' > attempt => child = NoRun \/ run[child].stage = "down"]_vars
  BY AttemptsAreSpawns, SpawnHasCause DEF LoopInv, ChildIsKnown
<1>2. QED
  BY <1>1, WatchdogTypeCorrect, LoopIsSound, PTL DEF Spec, NeverTwoChildren

\* A run that was over when the invocation started does not end it.
THEOREM OldRunsStayOld == Spec => OldRunsDecideNothing
<1>1. ASSUME TypeOK, LoopInv, NEW why \in {"runner_done", "escalations_pending", "error"},
             Ends(why)
      PROVE  ownedExitCode # "none" \/ Newest(OnDisk) \notin old
  <2>1. ~Alive /\ LastExitCode \in {"ok", "escalated", "error"}
    BY <1>1, OutcomeIsACode, ObservedIs DEF Ends
  <2>2. SUFFICES ASSUME ownedExitCode = "none" PROVE Newest(OnDisk) \notin old
    OBVIOUS
  <2>3. child = NoRun /\ Picked = Newest(OnDisk)
    BY <2>1, <2>2 DEF Alive, OwnsLiveChild, Picked
  <2>4. Provenance
    BY <2>1, <2>2 DEF LastExitCode
  <2>5. QED
    BY <1>1, <2>3, <2>4, TrackedIsNotOld DEF Provenance
<1>2. TypeOK /\ LoopInv
        => [(\E why \in {"runner_done", "escalations_pending", "error"} : Ends(why))
              => ownedExitCode # "none" \/ Newest(OnDisk) \notin old]_vars
  BY <1>1
<1>3. QED
  BY <1>2, WatchdogTypeCorrect, LoopIsSound, PTL DEF OldRunsDecideNothing

\* Nothing is started after an error that no relaunch can cure, nor under a quota
\* that is not over.
THEOREM NoRelaunchIsFutile == Spec => NoFutileRelaunch
<1>1. ASSUME TypeOK, LoopInv, [Next]_vars, attempt' > attempt, child # NoRun,
             child = Newest(OnDisk)
      PROVE  run[child].tail.result # "permanent" /\ run[child].tail.reset <= 0
  <2>1. decide(Observed).do = "spawn" /\ decide(Observed).do \in {"spawn", "wait"}
    BY <1>1, AttemptsAreSpawns
  <2>2. ownedExitCode # "none" /\ child \in Run /\ run[child].code = ownedExitCode
    BY <1>1, <2>1, SpawnHasCause DEF LoopInv, ChildIsKnown, Born
  <2>3. /\ LastExitCode = ownedExitCode /\ Provenanced
        /\ Picked = child /\ Signals = run[child].tail
    BY <1>1, <2>2 DEF LastExitCode, Provenanced, Picked, OwnsLiveChild, Signals
  <2>4. run[child].tail.reset \in Nat \cup {NoReset} /\ NoReset = -1
    BY <1>1, <2>2, RunsAreTyped DEF RunRecord, TailOf, NoReset
  <2>5. CASE LastExitCode = "locked"
    <3>1. run[child].tail = NoTail
      BY <1>1, <2>2, <2>3, <2>5 DEF LoopInv, RecordsAreTrue
    <3>2. QED
      BY <3>1 DEF NoTail, NoReset
  <2>6. CASE decide(Observed) = Recover(Observed)
    <3>1. Recover(Observed).do = "spawn" /\ Recover(Observed).do \in {"spawn", "wait"}
      BY <2>1, <2>6
    <3>2. \A why, n : Recover(Observed) # Wait(why, n)
      BY <3>1, Deeds
    <3>3. ~(Observed.tail.result = "permanent" /\ Observed.provenanced)
          /\ ~(Observed.tail.reset > 0)
      BY <3>1, <3>2, RecoveryHasCause
    <3>4. Observed.tail = run[child].tail /\ Observed.provenanced
      BY <2>3, ObservedIs
    <3>5. QED
      BY <2>4, <3>3, <3>4
  <2>7. CASE decide(Observed) = Spawn("launch")
    <3>1. decide(Observed).why = "launch"
      BY <2>7, Deeds
    <3>2. QED
      BY <1>1, <2>1, <3>1, SpawnHasCause
  <2>8. QED
    BY <2>1, <2>5, <2>6, <2>7, DecisionHasCause, ObservedIs
<1>2. TypeOK /\ LoopInv /\ [Next]_vars
        => [attempt' > attempt /\ child # NoRun /\ child = Newest(OnDisk)
              => run[child].tail.result # "permanent" /\ run[child].tail.reset <= 0]_vars
  BY <1>1
<1>3. QED
  BY <1>2, WatchdogTypeCorrect, LoopIsSound, PTL DEF Spec, NoFutileRelaunch

=============================================================================
