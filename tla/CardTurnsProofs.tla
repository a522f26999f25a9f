--------------------------- MODULE CardTurnsProofs ---------------------------
(***************************************************************************)
(* Theorems about CardTurns, for every plan and every number of commits    *)
(* and faults.                                                             *)
(***************************************************************************)
EXTENDS CardTurns, TLAPS

-----------------------------------------------------------------------------
(* Types *)

ControlType ==
  /\ pc \in {"off", "derive", "residue", "act", "revert", "revert_branch", "revert_remote",
             "entry", "turn", "session", "done", "verify", "verify_rest",
             "heal", "heal_remote", "heal_tree", "heal_branch", "heal_base"}
  /\ phase \in Phase
  /\ first \in BOOLEAN /\ attempts \in 0 .. MaxStepAttempts - 1 /\ sha \in Commit

RepoType ==
  /\ tip \in Commit /\ tree \in BOOLEAN /\ remote \in Commit
  /\ pr \in {"none", "open", "merged"} /\ merged \in Commit
  /\ tracking \in BOOLEAN /\ base \in BOOLEAN /\ made \in Commit /\ gate \in BOOLEAN
  /\ zombie \in BOOLEAN

HistoryType ==
  /\ proven \subseteq Commit /\ wasReset \in BOOLEAN /\ faults \in 0 .. MaxFaults

LEMMA IdleControl == Idle => ControlType'
BY BoundsAssumption DEF Idle, ControlType, Phase, Commit, MaxStepAttempts

LEMMA RefuseControl == attempts \in 0 .. MaxStepAttempts - 1 /\ phase \in Phase /\ Refuse => ControlType'
<1> SUFFICES ASSUME attempts \in 0 .. MaxStepAttempts - 1, phase \in Phase, Refuse PROVE ControlType'
  OBVIOUS
<1>1. CASE attempts + 1 >= MaxStepAttempts
  BY <1>1, IdleControl DEF Refuse, End
<1>2. CASE ~(attempts + 1 >= MaxStepAttempts)
  <2>1. /\ pc' = "turn" /\ first' = FALSE /\ phase' = phase
        /\ attempts' = attempts + 1 /\ sha' = 0
    BY <1>2 DEF Refuse, Again
  <2>2. attempts' \in 0 .. MaxStepAttempts - 1
    BY <1>2, <2>1 DEF MaxStepAttempts
  <2>3. first' \in BOOLEAN
    BY <2>1, Zenon
  <2>4. sha' \in Commit
    BY <2>1, BoundsAssumption DEF Commit
  <2>5. pc' = "turn" /\ phase' \in Phase
    BY <2>1, Zenon
  <2>6. QED
    BY <2>2, <2>3, <2>4, <2>5 DEF ControlType
<1>3. QED
  BY <1>1, <1>2

LEMMA ControlStep == TypeOK /\ Next => ControlType'
<1> SUFFICES ASSUME TypeOK, Next PROVE ControlType'
  OBVIOUS
<1>0. 0 \in Commit
  BY BoundsAssumption DEF Commit
<1> USE <1>0, IdleControl DEF TypeOK, ControlType, turn, Phase, MaxStepAttempts
<1>1. CASE Launch \/ Act
  BY <1>1 DEF Launch, Act
<1>2. CASE DeriveWithoutBranch \/ DeriveFromPr \/ DeriveFromResidue
  BY <1>2 DEF DeriveWithoutBranch, DeriveFromPr, queryPrForBranch, DeriveFromResidue,
      branchOrWorktreeExists
<1>3. CASE RevertWorktree \/ RevertBranch \/ RevertRemote
  BY <1>3 DEF RevertWorktree, RevertBranch, RevertRemote, clearProgress
<1>4. CASE Enter \/ EnterDelivery
  BY <1>4 DEF Enter, EnterDelivery, Stop
<1>5. CASE SessionStart \/ SessionFails \/ SessionTimesOut
  BY <1>5 DEF SessionStart, SessionFails, SessionTimesOut, Stop
<1>6. CASE AnswerNeedsDirection \/ AnswerShipped
  BY <1>6 DEF AnswerNeedsDirection, AnswerShipped, End
<1>7. CASE AnswerRefused \/ DoneFailed
  BY <1>7, RefuseControl DEF AnswerRefused, DoneFailed
<1>8. CASE AnswerTaskDone \/ DoneInfrastructure
  BY <1>8 DEF AnswerTaskDone, DoneInfrastructure, Stop
<1>9. CASE DonePassed
  BY <1>9 DEF DonePassed
<1>10. CASE VerifyMerged \/ VerifyRest
  BY <1>10, ZenonT(60) DEF VerifyMerged, VerifyRest, checkChecksGreen, checkSchemaGuard, End
<1>11. CASE GatherResidueFacts \/ HealRemote \/ HealWorktree \/ HealBranch \/ HealBase
  BY <1>11 DEF GatherResidueFacts, HealRemote, HealWorktree, HealBranch, HealBase
<1>12. CASE MakeCommit \/ RemoveWorktree \/ Push \/ OpenPr \/ MergeGate \/ MergeThroughGate \/ CleanUp
  BY <1>12 DEF MakeCommit, RemoveWorktree, Push, OpenPr, MergeGate, buildMergeGateDecision,
      MergeThroughGate, CleanUp, NotRunner
<1>13. CASE ZombieEnds \/ MergePastGate \/ Kill \/ ResetCard
  BY <1>13 DEF ZombieEnds, MergePastGate, Kill, ResetCard, Stop
<1>14. QED
  BY <1>1, <1>2, <1>3, <1>4, <1>5, <1>6, <1>7, <1>8, <1>9, <1>10, <1>11, <1>12, <1>13
  DEF Next, RunnerStep, WorldStep

LEMMA RepoStep == TypeOK /\ Next => RepoType' /\ HistoryType'
<1> SUFFICES ASSUME TypeOK, Next PROVE RepoType' /\ HistoryType'
  OBVIOUS
<1>0. 0 \in Commit
  BY BoundsAssumption DEF Commit
<1> USE <1>0 DEF TypeOK, RepoType, HistoryType, git, hist
<1>1. CASE Launch \/ Act
  BY <1>1 DEF Launch, Act
<1>2. CASE DeriveWithoutBranch \/ DeriveFromPr \/ DeriveFromResidue
  BY <1>2 DEF DeriveWithoutBranch, DeriveFromPr, queryPrForBranch, DeriveFromResidue,
      branchOrWorktreeExists
<1>3. CASE RevertWorktree \/ RevertBranch \/ RevertRemote
  BY <1>3 DEF RevertWorktree, RevertBranch, RevertRemote, clearProgress, DropBranch, DropRemote
<1>4. CASE Enter \/ EnterDelivery
  BY <1>4 DEF Enter, EnterDelivery, CardType
<1>5. CASE SessionStart \/ SessionFails \/ SessionTimesOut
  BY <1>5 DEF SessionStart, SessionFails, SessionTimesOut
<1>6. CASE AnswerNeedsDirection \/ AnswerShipped
  BY <1>6 DEF AnswerNeedsDirection, AnswerShipped, Answered
<1>7. CASE AnswerRefused \/ DoneFailed
  BY <1>7 DEF AnswerRefused, DoneFailed, Answered
<1>8. CASE AnswerTaskDone \/ DoneInfrastructure
  BY <1>8 DEF AnswerTaskDone, DoneInfrastructure, Answered
<1>9. CASE DonePassed
  BY <1>9 DEF DonePassed
<1>10. CASE VerifyMerged \/ VerifyRest
  <2>1. CASE VerifyMerged
    BY <2>1 DEF VerifyMerged
  <2>2. CASE VerifyRest
    <3>1. PICK reached \in BOOLEAN : Fetch(reached)
      BY <2>2 DEF VerifyRest
    <3>2. tracking' \in BOOLEAN
      BY <3>1 DEF Fetch
    <3>3. UNCHANGED <<tip, tree, remote, pr, merged, base, made, gate, zombie, hist>>
      BY <2>2 DEF VerifyRest
    <3>4. QED
      BY <3>2, <3>3
  <2>3. QED
    BY <1>10, <2>1, <2>2
<1>11. CASE GatherResidueFacts \/ HealRemote \/ HealWorktree \/ HealBranch \/ HealBase
  BY <1>11 DEF GatherResidueFacts, HealRemote, HealWorktree, HealBranch, HealBase, DropBranch
<1>12. CASE MakeCommit
  BY <1>12, BoundsAssumption DEF MakeCommit, NotRunner, Commit
<1>13. CASE RemoveWorktree \/ Push \/ OpenPr \/ MergeGate \/ MergeThroughGate \/ CleanUp
  BY <1>13 DEF RemoveWorktree, Push, OpenPr, MergeGate, buildMergeGateDecision, MergeThroughGate,
      Merge, CleanUp, NotRunner
<1>14. CASE ZombieEnds
  BY <1>14 DEF ZombieEnds
<1>15. CASE MergePastGate \/ Kill \/ ResetCard
  <2>1. faults' = faults + 1 /\ faults < MaxFaults
    BY <1>15 DEF MergePastGate, Kill, ResetCard
  <2>2. faults' \in 0 .. MaxFaults
    BY <2>1, BoundsAssumption
  <2>3. RepoType' /\ proven' \subseteq Commit /\ wasReset' \in BOOLEAN
    BY <1>15 DEF MergePastGate, Merge, Kill, ResetCard, AtWork
  <2>4. QED
    BY <2>2, <2>3
<1>16. QED
  BY <1>1, <1>2, <1>3, <1>4, <1>5, <1>6, <1>7, <1>8, <1>9, <1>10, <1>11, <1>12, <1>13, <1>14, <1>15
  DEF Next, RunnerStep, WorldStep

-----------------------------------------------------------------------------
(* The card's entry: what each way of rewriting it keeps *)

Statuses == {"staged", "running", "shipped", "escalated"}

\* New passes with a new Done commit are still an entry.
LEMMA WithPasses ==
  ASSUME NEW c \in CardType, NEW p \in [1 .. Tasks -> Commit], NEW d \in Commit
  PROVE  [c EXCEPT !.passed = p, !.doneSha = d] \in CardType
BY DEF CardType

LEMMA NoCardType == NoCard \in CardType /\ NoCard.passed \in [1 .. Tasks -> Commit]
BY BoundsAssumption DEF CardType, NoCard, Commit

LEMMA ClearFinalPassType ==
  ASSUME card \in CardType PROVE ClearFinalPass \in CardType
<1>1. 0 \in Commit
  BY BoundsAssumption DEF Commit
<1>2. card.passed \in [1 .. Tasks -> Commit]
  BY DEF CardType
<1>3. [card.passed EXCEPT ![Tasks] = 0] \in [1 .. Tasks -> Commit]
  BY <1>1, <1>2
<1>4. QED
  BY <1>1, <1>3, WithPasses DEF ClearFinalPass

LEMMA ApplyPassType ==
  ASSUME card \in CardType, sha \in Commit, NEW t \in 1 .. Tasks
  PROVE  ApplyPass(t) \in CardType
<1>1. 0 \in Commit
  BY BoundsAssumption DEF Commit
<1>2. card.passed \in [1 .. Tasks -> Commit]
  BY DEF CardType
<1>3. [u \in 1 .. Tasks |-> IF u <= t THEN sha ELSE card.passed[u]] \in [1 .. Tasks -> Commit]
  BY <1>2
<1>4. (IF t = Tasks THEN sha ELSE 0) \in Commit
  BY <1>1
<1>5. QED
  BY <1>3, <1>4, WithPasses DEF ApplyPass

LEMMA WithStatus ==
  ASSUME NEW c \in CardType, NEW s \in Statuses
  PROVE  /\ [c EXCEPT !.status = s] \in CardType
         /\ [c EXCEPT !.status = s].status = s
         /\ [c EXCEPT !.status = s].session = c.session
         /\ [c EXCEPT !.status = s].branch = c.branch
         /\ [c EXCEPT !.status = s].passed = c.passed
         /\ [c EXCEPT !.status = s].doneSha = c.doneSha
BY DEF CardType, Statuses

\* An escalation or a ship ends the call and changes the status alone.
LEMMA EndEffect ==
  ASSUME card \in CardType, NEW s \in Statuses, End(s)
  PROVE  /\ pc' = "off" /\ card' \in CardType
         /\ card'.status = s /\ card'.session = card.session /\ card'.branch = card.branch
         /\ card'.passed = card.passed /\ card'.doneSha = card.doneSha
BY WithStatus DEF End, Idle

\* onSessionStart keeps the passes.
LEMMA StartedCard ==
  ASSUME NEW c \in CardType
  PROVE  LET d == [c EXCEPT !.session = TRUE, !.status = "running"] IN
         /\ d \in CardType /\ d.session = TRUE /\ d.status = "running" /\ d.branch = c.branch
         /\ d.passed = c.passed /\ d.doneSha = c.doneSha
BY DEF CardType

LEMMA BranchedCard ==
  ASSUME NEW c \in CardType
  PROVE  LET d == [c EXCEPT !.branch = TRUE] IN
         /\ d \in CardType /\ d.session = c.session /\ d.status = c.status
         /\ d.passed = c.passed /\ d.doneSha = c.doneSha
BY DEF CardType

\* clearProgress takes all passes back and keeps the trace of the work.
LEMMA RevertedCard ==
  ASSUME NEW c \in CardType
  PROVE  LET d == [c EXCEPT !.passed = NoCard.passed, !.doneSha = 0] IN
         /\ d \in CardType /\ d.session = c.session /\ d.status = c.status
         /\ d.branch = c.branch /\ d.doneSha = 0
         /\ \A t \in 1 .. Tasks : d.passed[t] = 0
<1>1. 0 \in Commit
  BY BoundsAssumption DEF Commit
<1>2. [c EXCEPT !.passed = NoCard.passed, !.doneSha = 0] \in CardType
  BY <1>1, NoCardType, WithPasses
<1>3. \A t \in 1 .. Tasks : NoCard.passed[t] = 0
  BY DEF NoCard
<1>4. QED
  BY <1>2, <1>3 DEF CardType

\* resetCard keeps the branch alone.
LEMMA ResetCardEntry ==
  ASSUME NEW c \in CardType
  PROVE  LET d == [NoCard EXCEPT !.branch = c.branch] IN
         /\ d \in CardType /\ d.session = FALSE /\ d.status = "staged"
         /\ d.branch = c.branch /\ d.doneSha = 0
         /\ \A t \in 1 .. Tasks : d.passed[t] = 0
<1>1. [NoCard EXCEPT !.branch = c.branch] \in CardType
  BY NoCardType DEF CardType
<1>2. QED
  BY <1>1 DEF NoCard

\* applyPass, task by task.
LEMMA AppliedPass ==
  ASSUME card \in CardType, NEW t \in 1 .. Tasks
  PROVE  /\ ApplyPass(t).doneSha = IF t = Tasks THEN sha ELSE 0
         /\ \A u \in 1 .. Tasks : ApplyPass(t).passed[u] = IF u <= t THEN sha ELSE card.passed[u]
         /\ ApplyPass(t).status = card.status /\ ApplyPass(t).session = card.session
         /\ ApplyPass(t).branch = card.branch
BY TasksAssumption, BoundsAssumption DEF CardType, Commit, ApplyPass

\* A failed re-check takes the last pass back.
LEMMA ClearedFinalPass ==
  ASSUME card \in CardType
  PROVE  /\ ClearFinalPass.doneSha = 0
         /\ \A u \in 1 .. Tasks : ClearFinalPass.passed[u] = IF u = Tasks THEN 0 ELSE card.passed[u]
         /\ ClearFinalPass.status = card.status /\ ClearFinalPass.session = card.session
         /\ ClearFinalPass.branch = card.branch
BY TasksAssumption, BoundsAssumption DEF CardType, Commit, ClearFinalPass

LEMMA CardStep == TypeOK /\ Next => card' \in CardType
<1> SUFFICES ASSUME TypeOK, Next PROVE card' \in CardType
  OBVIOUS
<1>0. card \in CardType /\ sha \in Commit /\ {"escalated", "shipped"} \subseteq Statuses
  BY DEF TypeOK, Statuses
<1>1. CASE UNCHANGED card
  BY <1>0, <1>1
<1>2. CASE \E s \in Statuses : End(s)
  BY <1>0, <1>2, EndEffect
<1>3. CASE Refuse
  BY <1>0, <1>1, <1>2, <1>3 DEF Refuse
<1>4. CASE RevertRemote
  BY <1>0, <1>4, RevertedCard DEF RevertRemote, clearProgress
<1>5. CASE EnterDelivery
  BY <1>0, <1>5, ClearFinalPassType DEF EnterDelivery, Stop
<1>6. CASE SessionStart
  BY <1>0, <1>6, StartedCard DEF SessionStart
<1>7. CASE AnswerTaskDone
  BY <1>0, <1>7, BranchedCard DEF AnswerTaskDone
<1>8. CASE DonePassed
  <2>1. PICK t \in 1 .. Tasks :
          card' = ApplyPass(t) \/ card' = [ApplyPass(t) EXCEPT !.status = "escalated"]
    BY <1>8 DEF DonePassed
  <2>2. QED
    BY <1>0, <2>1, ApplyPassType, WithStatus
<1>9. CASE VerifyRest
  BY <1>0, <1>1, <1>2, <1>9 DEF VerifyRest, checkChecksGreen, checkSchemaGuard
<1>10. CASE ResetCard
  BY <1>0, <1>10, ResetCardEntry DEF ResetCard
<1>11. QED
  BY <1>0, <1>1, <1>2, <1>3, <1>4, <1>5, <1>6, <1>7, <1>8, <1>9, <1>10
  DEF Next, RunnerStep, WorldStep, Launch, DeriveWithoutBranch, DeriveFromPr, queryPrForBranch,
      DeriveFromResidue, branchOrWorktreeExists,
      Act, RevertWorktree, RevertBranch, Enter, SessionFails, SessionTimesOut, Stop,
      AnswerNeedsDirection, AnswerShipped, AnswerRefused, DoneFailed, DoneInfrastructure,
      VerifyMerged, GatherResidueFacts, HealRemote, HealWorktree, HealBranch, HealBase,
      MakeCommit, RemoveWorktree, Push, OpenPr, MergeGate, buildMergeGateDecision,
      MergeThroughGate, CleanUp,
      NotRunner, ZombieEnds, MergePastGate, Kill

-----------------------------------------------------------------------------
(* What the verification has read *)

LEMMA UnseenType == Unseen \in SeenType /\ Unseen.head = 0 /\ Unseen.fetched = FALSE
BY BoundsAssumption DEF SeenType, Unseen, Commit

LEMMA FirstLook ==
  ASSUME NEW s \in SeenType, NEW h \in Commit, NEW a \in BOOLEAN
  PROVE  LET d == [s EXCEPT !.head = h, !.ancestor = a] IN
         /\ d \in SeenType /\ d.head = h /\ d.ancestor = a
         /\ d.fetched = s.fetched /\ d.second = s.second
BY DEF SeenType

LEMMA LookEffect ==
  ASSUME seen \in SeenType, tree \in BOOLEAN, base \in BOOLEAN,
         NEW reached \in BOOLEAN, NEW answer \in Commit
  PROVE  /\ Look(reached, answer) \in SeenType
         /\ Look(reached, answer).head = seen.head
         /\ Look(reached, answer).ancestor = seen.ancestor
         /\ Look(reached, answer).second = seen.second
         /\ Look(reached, answer).fetched = (reached /\ seen.head # 0)
BY DEF SeenType, Look

LEMMA ResidueFacts ==
  ASSUME NEW s \in SeenType, NEW a \in BOOLEAN, NEW b \in BOOLEAN
  PROVE  LET d == [s EXCEPT !.remote = a, !.tree = b] IN
         d \in SeenType /\ d.head = s.head /\ d.fetched = s.fetched
BY DEF SeenType

LEMMA SecondLook ==
  ASSUME NEW s \in SeenType
  PROVE  LET d == [s EXCEPT !.second = TRUE] IN
         d \in SeenType /\ d.head = s.head /\ d.fetched = s.fetched
BY DEF SeenType

LEMMA SeenStep == TypeOK /\ Next => seen' \in SeenType
<1> SUFFICES ASSUME TypeOK, Next PROVE seen' \in SeenType
  OBVIOUS
<1>0. /\ seen \in SeenType /\ 0 \in Commit /\ merged \in Commit /\ remote \in Commit
      /\ tree \in BOOLEAN /\ base \in BOOLEAN /\ tracking \in BOOLEAN
  BY BoundsAssumption DEF TypeOK, Commit
<1>1. CASE UNCHANGED seen
  BY <1>0, <1>1
<1>2. CASE Idle
  BY <1>2, UnseenType DEF Idle
<1>3. CASE VerifyMerged
  <2>1. PICK answered \in BOOLEAN :
          seen' = [seen EXCEPT !.head = IF answered THEN merged ELSE 0,
                               !.ancestor = answered /\ merged # 0 /\ tracking]
    BY <1>3 DEF VerifyMerged
  <2>2. (IF answered THEN merged ELSE 0) \in Commit /\ (answered /\ merged # 0 /\ tracking) \in BOOLEAN
    BY <1>0
  <2>3. QED
    BY <1>0, <2>1, <2>2, FirstLook
<1>4. CASE VerifyRest
  <2>1. PICK reached \in BOOLEAN, answer \in {remote, 0} :
          seen' = Look(reached, answer) \/ Idle
    BY <1>4 DEF VerifyRest, checkChecksGreen, checkSchemaGuard, End
  <2>2. answer \in Commit
    BY <1>0
  <2>3. QED
    BY <1>0, <1>2, <2>1, <2>2, LookEffect
<1>5. CASE GatherResidueFacts
  <2>1. PICK clean \in BOOLEAN :
          seen' = [seen EXCEPT
            !.remote = seen.remote /\ seen.head # 0,
            !.tree = seen.tree /\ seen.head # 0 /\ tree /\ clean /\ tip <= merged /\ tracking]
    BY <1>5 DEF GatherResidueFacts
  <2>2. /\ (seen.remote /\ seen.head # 0) \in BOOLEAN
        /\ (seen.tree /\ seen.head # 0 /\ tree /\ clean /\ tip <= merged /\ tracking) \in BOOLEAN
    OBVIOUS
  <2>3. QED
    BY <1>0, <2>1, <2>2, ResidueFacts
<1>6. CASE HealBase
  BY <1>0, <1>6, SecondLook DEF HealBase
<1>7. CASE Refuse
  BY <1>1, <1>2, <1>7 DEF Refuse, End, Again
<1>8. CASE DonePassed
  BY <1>1, <1>2, <1>8 DEF DonePassed
<1>9. QED
  BY <1>0, <1>1, <1>2, <1>3, <1>4, <1>5, <1>6, <1>7, <1>8
  DEF Next, RunnerStep, WorldStep, Launch, DeriveWithoutBranch, DeriveFromPr, queryPrForBranch,
      DeriveFromResidue, branchOrWorktreeExists,
      Act, RevertWorktree, RevertBranch, RevertRemote, clearProgress, Enter, EnterDelivery,
      SessionStart,
      SessionFails, SessionTimesOut, Stop, End, turn, AnswerNeedsDirection, AnswerShipped,
      AnswerRefused, AnswerTaskDone, DoneFailed, DoneInfrastructure, HealRemote, HealWorktree,
      HealBranch, MakeCommit, RemoveWorktree, Push, OpenPr, MergeGate, buildMergeGateDecision,
      MergeThroughGate, CleanUp,
      NotRunner, ZombieEnds, MergePastGate, Kill, ResetCard

\* Whatever a session, a person or a kill does, every variable of the turn stays
\* in its domain; in particular no step has more than MAX_STEP_ATTEMPTS turns.
THEOREM TurnTypeCorrect == Spec => []TypeOK
<1>1. Init => TypeOK
  <2> SUFFICES ASSUME Init PROVE TypeOK
    OBVIOUS
  <2>1. card \in CardType /\ seen \in SeenType
    BY NoCardType, UnseenType DEF Init
  <2>2. ControlType
    BY BoundsAssumption DEF Init, ControlType, Commit, Phase, MaxStepAttempts
  <2>3. /\ {tip, remote, merged, made} \subseteq Commit /\ proven \subseteq Commit
        /\ faults \in 0 .. MaxFaults
    BY BoundsAssumption DEF Init, Commit
  <2>4. /\ {tree, tracking, base, gate, zombie, wasReset} \subseteq BOOLEAN
        /\ pr \in {"none", "open", "merged"}
    BY DEF Init
  <2>5. QED
    BY <2>1, <2>2, <2>3, <2>4 DEF TypeOK, ControlType
<1>2. TypeOK /\ Next => TypeOK'
  <2> SUFFICES ASSUME TypeOK, Next PROVE TypeOK'
    OBVIOUS
  <2>1. ControlType' /\ card' \in CardType /\ seen' \in SeenType /\ RepoType' /\ HistoryType'
    BY ControlStep, CardStep, SeenStep, RepoStep
  <2>2. QED
    BY <2>1 DEF TypeOK, ControlType, RepoType, HistoryType
<1>3. TypeOK /\ UNCHANGED vars => TypeOK'
  BY DEF TypeOK, vars, turn, git, hist
<1>4. QED
  BY <1>1, <1>2, <1>3, PTL DEF Spec

-----------------------------------------------------------------------------
(* The passes on record *)

\* ProgressIsCoherent, and a Done run is always on a commit.
PassInv == ProgressIsCoherent /\ (pc = "done" => sha # 0)

\* A card whose passes are not touched, or all taken back, keeps a coherent record.
LEMMA PassesKept ==
  ASSUME ProgressIsCoherent, card'.passed = card.passed, card'.doneSha = card.doneSha,
         proven \subseteq proven'
  PROVE  ProgressIsCoherent'
BY DEF ProgressIsCoherent, Passed

LEMMA PassesErased ==
  ASSUME card'.doneSha = 0, \A t \in 1 .. Tasks : card'.passed[t] = 0
  PROVE  ProgressIsCoherent'
BY DEF ProgressIsCoherent, Passed

LEMMA PassesCleared ==
  ASSUME card \in CardType, ProgressIsCoherent, card' = ClearFinalPass
  PROVE  ProgressIsCoherent'
<1>1. /\ card'.doneSha = 0
      /\ \A u \in 1 .. Tasks : card'.passed[u] = IF u = Tasks THEN 0 ELSE card.passed[u]
  BY ClearedFinalPass
<1>2. QED
  BY <1>1, TasksAssumption DEF ProgressIsCoherent, Passed

\* applyPass for the next task: what lies behind it has not passed.
LEMMA PassesApplied ==
  ASSUME card \in CardType, ProgressIsCoherent, NEW t \in 1 .. Tasks, IsNextTask(t), sha # 0,
         card'.passed = ApplyPass(t).passed, card'.doneSha = ApplyPass(t).doneSha,
         proven' = IF t = Tasks THEN proven \cup {sha} ELSE proven
  PROVE  ProgressIsCoherent'
<1>1. /\ card'.doneSha = IF t = Tasks THEN sha ELSE 0
      /\ \A u \in 1 .. Tasks : card'.passed[u] = IF u <= t THEN sha ELSE card.passed[u]
  BY AppliedPass
<1>2. \A v \in 1 .. Tasks : v > t => card.passed[v] = 0
  <2> SUFFICES ASSUME NEW v \in 1 .. Tasks, v > t, card.passed[v] # 0 PROVE FALSE
    OBVIOUS
  <2>1. v \in Passed /\ t \in 1 .. v
    BY TasksAssumption DEF Passed
  <2>2. card.passed[t] = card.passed[v]
    BY <2>1 DEF ProgressIsCoherent
  <2>3. t \in Passed
    BY <2>2 DEF Passed
  <2>4. t = Tasks
    BY <2>3 DEF IsNextTask
  <2>5. QED
    BY <2>4, TasksAssumption
<1>3. \A v \in 1 .. Tasks : card'.passed[v] = IF v <= t THEN sha ELSE 0
  BY <1>1, <1>2, TasksAssumption
<1>4. \A v \in Passed' : \A u \in 1 .. v : card'.passed[u] = card'.passed[v]
  <2> SUFFICES ASSUME NEW v \in 1 .. Tasks, card'.passed[v] # 0, NEW u \in 1 .. v
               PROVE  card'.passed[u] = card'.passed[v]
    BY DEF Passed
  <2>1. v <= t
    BY <1>3
  <2>2. u \in 1 .. Tasks /\ u <= t
    BY <2>1, TasksAssumption
  <2>3. QED
    BY <1>3, <2>1, <2>2
<1>5. card'.doneSha # 0 =>
        card'.doneSha \in proven' /\ \A v \in 1 .. Tasks : card'.passed[v] = card'.doneSha
  BY <1>1, TasksAssumption
<1>6. QED
  BY <1>4, <1>5 DEF ProgressIsCoherent

LEMMA PassStep == TypeOK /\ PassInv /\ Next => PassInv'
<1> SUFFICES ASSUME TypeOK, PassInv, Next PROVE PassInv'
  OBVIOUS
<1>0. /\ card \in CardType /\ ProgressIsCoherent /\ (pc = "done" => sha # 0)
      /\ {"escalated", "shipped"} \subseteq Statuses
  BY DEF TypeOK, PassInv, Statuses
<1>1. CASE UNCHANGED <<card, proven>> /\ pc' # "done"
  BY <1>0, <1>1, PassesKept DEF PassInv
<1>2. CASE UNCHANGED <<card, proven, pc, sha>>
  BY <1>0, <1>2, PassesKept DEF PassInv
<1>3. CASE UNCHANGED proven /\ \E s \in Statuses : End(s)
  BY <1>0, <1>3, EndEffect, PassesKept DEF PassInv
<1>4. CASE UNCHANGED proven /\ Refuse
  BY <1>0, <1>1, <1>3, <1>4 DEF Refuse, Again
<1>5. CASE RevertRemote
  BY <1>0, <1>5, RevertedCard, PassesErased DEF RevertRemote, clearProgress, PassInv
<1>6. CASE EnterDelivery
  <2>1. pc' # "done" /\ proven \subseteq proven'
    BY <1>6 DEF EnterDelivery, Stop, Idle
  <2>2. card' = card \/ card' = ClearFinalPass
    BY <1>6 DEF EnterDelivery, Stop
  <2>3. QED
    BY <1>0, <2>1, <2>2, PassesKept, PassesCleared DEF PassInv
<1>7. CASE SessionStart
  BY <1>0, <1>7, StartedCard, PassesKept DEF SessionStart, PassInv
<1>8. CASE AnswerTaskDone
  <2>1. card'.passed = card.passed /\ card'.doneSha = card.doneSha
    BY <1>0, <1>8, BranchedCard DEF AnswerTaskDone
  <2>2. sha' # 0 /\ proven' = proven
    BY <1>8 DEF AnswerTaskDone, hist
  <2>3. QED
    BY <1>0, <2>1, <2>2, PassesKept DEF PassInv
<1>9. CASE DonePassed
  <2>1. PICK t \in 1 .. Tasks :
          /\ IsNextTask(t)
          /\ proven' = IF t = Tasks THEN proven \cup {sha} ELSE proven
          /\ \/ Idle /\ card' = [ApplyPass(t) EXCEPT !.status = "escalated"]
             \/ pc' = "turn" /\ card' = ApplyPass(t)
    BY <1>9 DEF DonePassed
  <2>2. ApplyPass(t) \in CardType
    BY <1>0, ApplyPassType DEF TypeOK
  <2>3. card'.passed = ApplyPass(t).passed /\ card'.doneSha = ApplyPass(t).doneSha
    <3>1. "escalated" \in Statuses
      BY DEF Statuses
    <3>2. LET d == [ApplyPass(t) EXCEPT !.status = "escalated"] IN
            d.passed = ApplyPass(t).passed /\ d.doneSha = ApplyPass(t).doneSha
      BY <2>2, <3>1, WithStatus
    <3>3. QED
      BY <2>1, <3>2
  <2>4. pc' # "done"
    BY <2>1 DEF Idle
  <2>5. sha # 0
    BY <1>0, <1>9 DEF DonePassed
  <2>6. QED
    BY <1>0, <2>1, <2>3, <2>4, <2>5, PassesApplied DEF PassInv
<1>10. CASE VerifyRest
  BY <1>0, <1>1, <1>3, <1>10 DEF VerifyRest, checkChecksGreen, checkSchemaGuard, hist
<1>11. CASE ResetCard
  BY <1>0, <1>11, ResetCardEntry, PassesErased DEF ResetCard, PassInv
<1>12. CASE Launch \/ DeriveWithoutBranch \/ DeriveFromPr \/ DeriveFromResidue \/ Act
            \/ RevertWorktree \/ RevertBranch \/ Enter
  BY <1>1, <1>12 DEF Launch, DeriveWithoutBranch, DeriveFromPr, queryPrForBranch,
      DeriveFromResidue, branchOrWorktreeExists, Act,
     RevertWorktree, RevertBranch, Enter, hist
<1>13. CASE SessionFails \/ SessionTimesOut \/ AnswerShipped \/ DoneInfrastructure \/ Kill
  BY <1>1, <1>13 DEF SessionFails, SessionTimesOut, AnswerShipped, DoneInfrastructure, Kill,
     Stop, Idle, hist
<1>14. CASE AnswerNeedsDirection \/ AnswerRefused \/ DoneFailed
  BY <1>0, <1>3, <1>4, <1>14 DEF AnswerNeedsDirection, AnswerRefused, DoneFailed, hist
<1>15. CASE VerifyMerged \/ GatherResidueFacts \/ HealRemote \/ HealWorktree \/ HealBranch \/ HealBase
  BY <1>1, <1>15 DEF VerifyMerged, GatherResidueFacts, HealRemote, HealWorktree, HealBranch,
     HealBase, hist
<1>16. CASE MakeCommit \/ RemoveWorktree \/ Push \/ OpenPr \/ MergeGate \/ MergeThroughGate
            \/ CleanUp \/ ZombieEnds \/ MergePastGate
  BY <1>2, <1>16 DEF MakeCommit, RemoveWorktree, Push, OpenPr, MergeGate, buildMergeGateDecision,
      MergeThroughGate,
     CleanUp, NotRunner, ZombieEnds, MergePastGate, turn, hist
<1>17. QED
  BY <1>4, <1>5, <1>6, <1>7, <1>8, <1>9, <1>10, <1>11, <1>12, <1>13, <1>14, <1>15, <1>16
  DEF Next, RunnerStep, WorldStep

LEMMA PassInvHolds == Spec => []PassInv
<1>1. Init => PassInv
  BY DEF Init, NoCard, PassInv, ProgressIsCoherent, Passed
<1>2. PassInv /\ UNCHANGED vars => PassInv'
  BY PassesKept DEF PassInv, vars, turn, hist
<1>3. QED
  BY <1>1, <1>2, PassStep, TurnTypeCorrect, PTL DEF Spec

\* The passes on record are the first tasks of the plan on one commit, and the
\* commit recorded as done has had a Done run of all tasks.
THEOREM PassesAreCoherent == Spec => []ProgressIsCoherent
BY PassInvHolds, PTL DEF PassInv

-----------------------------------------------------------------------------
(* The merge, what the verification has read of it, and the ship *)

\* What the verification holds on to is about the one merge there is, and only a
\* card that is not being worked on is shipped.
MergeInv ==
  /\ merged # 0 => pr = "merged"
  /\ seen.head # 0 => seen.head = merged
  /\ seen.fetched => pr = "merged" /\ tracking
  /\ card.status = "shipped" => pc = "off" /\ pr = "merged" /\ merged \in proven
  /\ SecondLookSeesTheMerge

\* A merge is never undone, and a base ref that has it keeps it; Done runs that
\* have passed are not forgotten.
LEMMA MergeStays ==
  ASSUME TypeOK, MergeInv, Next
  PROVE  /\ merged' # 0 => pr' = "merged"
         /\ pr = "merged" => pr' = "merged" /\ merged' = merged /\ (tracking => tracking')
         /\ proven \subseteq proven'
<1> USE DEF MergeInv, git, hist
<1>1. CASE Launch \/ DeriveWithoutBranch \/ DeriveFromPr \/ DeriveFromResidue \/ Act
            \/ RevertWorktree \/ RevertBranch \/ RevertRemote \/ Enter \/ EnterDelivery
  BY <1>1 DEF Launch, DeriveWithoutBranch, DeriveFromPr, queryPrForBranch, DeriveFromResidue,
      branchOrWorktreeExists, Act,
     RevertWorktree, RevertBranch, RevertRemote, clearProgress, DropRemote, Enter, EnterDelivery
<1>2. CASE SessionStart \/ SessionFails \/ SessionTimesOut \/ AnswerNeedsDirection
            \/ AnswerShipped \/ AnswerRefused \/ AnswerTaskDone
  BY <1>2 DEF SessionStart, SessionFails, SessionTimesOut, AnswerNeedsDirection,
     AnswerShipped, AnswerRefused, AnswerTaskDone, Answered
<1>3. CASE DonePassed \/ DoneFailed \/ DoneInfrastructure
  BY <1>3 DEF DonePassed, DoneFailed, DoneInfrastructure
<1>4. CASE VerifyMerged \/ GatherResidueFacts \/ HealRemote \/ HealWorktree \/ HealBranch \/ HealBase
  BY <1>4 DEF VerifyMerged, GatherResidueFacts, HealRemote, HealWorktree, HealBranch, HealBase
<1>5. CASE VerifyRest
  BY <1>5 DEF VerifyRest, checkChecksGreen, checkSchemaGuard, Fetch
<1>6. CASE MakeCommit \/ RemoveWorktree \/ Push \/ OpenPr \/ MergeGate \/ CleanUp \/ ZombieEnds
  BY <1>6 DEF MakeCommit, RemoveWorktree, Push, OpenPr, MergeGate, buildMergeGateDecision,
      CleanUp, NotRunner, ZombieEnds
<1>7. CASE MergeThroughGate \/ MergePastGate \/ Kill \/ ResetCard
  BY <1>7 DEF MergeThroughGate, MergePastGate, Merge, NotRunner, Kill, ResetCard
<1>8. QED
  BY <1>1, <1>2, <1>3, <1>4, <1>5, <1>6, <1>7 DEF Next, RunnerStep, WorldStep

\* What the verification holds on to stays true under every step.
LEMMA LookStep ==
  ASSUME TypeOK, MergeInv, Next
  PROVE  /\ seen'.head # 0 => seen'.head = merged /\ pr = "merged"
         /\ seen'.fetched => pr' = "merged" /\ tracking'
         /\ SecondLookSeesTheMerge'
<1>0. /\ seen \in SeenType /\ 0 \in Commit /\ merged \in Commit /\ remote \in Commit
      /\ tree \in BOOLEAN /\ base \in BOOLEAN /\ tracking \in BOOLEAN
  BY BoundsAssumption DEF TypeOK, Commit
<1>00. /\ seen.head # 0 => seen.head = merged /\ pr = "merged"
       /\ seen.fetched => pr' = "merged" /\ tracking'
       /\ SecondLookSeesTheMerge
  BY MergeStays DEF MergeInv
<1>1. CASE UNCHANGED seen /\ pc' # "verify_rest"
  BY <1>1, <1>00 DEF SecondLookSeesTheMerge
<1>2. CASE UNCHANGED <<seen, pc>>
  BY <1>2, <1>00 DEF SecondLookSeesTheMerge
<1>3. CASE Idle
  BY <1>3, UnseenType DEF Idle, SecondLookSeesTheMerge
<1>4. CASE VerifyMerged
  <2>1. PICK h \in Commit, a \in BOOLEAN :
          /\ seen' = [seen EXCEPT !.head = h, !.ancestor = a]
          /\ h # 0 => h = merged
          /\ h # 0 /\ tracking => a
    <3>1. PICK answered \in BOOLEAN :
            seen' = [seen EXCEPT !.head = IF answered THEN merged ELSE 0,
                                 !.ancestor = answered /\ merged # 0 /\ tracking]
      BY <1>4 DEF VerifyMerged
    <3>2. CASE answered
      BY <1>0, <3>1, <3>2
    <3>3. CASE ~answered
      BY <1>0, <3>1, <3>3
    <3>4. QED
      BY <3>2, <3>3
  <2>2. seen'.head = h /\ seen'.ancestor = a /\ seen'.fetched = seen.fetched
    <3>1. h \in Commit /\ a \in BOOLEAN /\ seen \in SeenType
      BY <1>0, <2>1
    <3>2. LET d == [seen EXCEPT !.head = h, !.ancestor = a] IN
            d.head = h /\ d.ancestor = a /\ d.fetched = seen.fetched
      BY <3>1 DEF SeenType
    <3>3. QED
      BY <2>1, <3>2
  <2>3. h # 0 => pr = "merged"
    BY <2>1 DEF MergeInv
  <2>4. seen.fetched => tracking
    BY DEF MergeInv
  <2>5. QED
    BY <1>00, <2>1, <2>2, <2>3, <2>4 DEF SecondLookSeesTheMerge
<1>5. CASE VerifyRest
  <2>1. PICK reached \in BOOLEAN, answer \in {remote, 0} :
          /\ Fetch(reached)
          /\ (seen' = Look(reached, answer) /\ pc' = "heal") \/ Idle
    BY <1>5 DEF VerifyRest, checkChecksGreen, checkSchemaGuard, End
  <2>2. answer \in Commit
    BY <1>0
  <2>3. /\ Look(reached, answer).head = seen.head
        /\ Look(reached, answer).fetched = (reached /\ seen.head # 0)
    BY <1>0, <2>2, LookEffect
  <2>4. reached => tracking'
    BY <2>1 DEF Fetch
  <2>5. seen.head # 0 => pr' = "merged"
    BY <1>00, MergeStays
  <2>6. CASE seen' = Look(reached, answer) /\ pc' = "heal"
    BY <1>00, <2>3, <2>4, <2>5, <2>6 DEF SecondLookSeesTheMerge
  <2>7. QED
    BY <1>3, <2>1, <2>6
<1>6. CASE GatherResidueFacts
  <2>1. PICK clean \in BOOLEAN :
          seen' = [seen EXCEPT
            !.remote = seen.remote /\ seen.head # 0,
            !.tree = seen.tree /\ seen.head # 0 /\ tree /\ clean /\ tip <= merged /\ tracking]
    BY <1>6 DEF GatherResidueFacts
  <2>2. /\ (seen.remote /\ seen.head # 0) \in BOOLEAN
        /\ (seen.tree /\ seen.head # 0 /\ tree /\ clean /\ tip <= merged /\ tracking) \in BOOLEAN
    OBVIOUS
  <2>3. seen'.head = seen.head /\ seen'.fetched = seen.fetched
    BY <1>0, <2>1, <2>2, ResidueFacts
  <2>4. pc' # "verify_rest"
    BY <1>6 DEF GatherResidueFacts
  <2>5. QED
    BY <1>00, <2>3, <2>4 DEF SecondLookSeesTheMerge
<1>7. CASE HealBase
  <2>1. seen'.head = seen.head /\ seen'.fetched = seen.fetched /\ pc' # "verify_rest"
    BY <1>0, <1>7, SecondLook DEF HealBase
  <2>2. QED
    BY <1>00, <2>1 DEF SecondLookSeesTheMerge
<1>8. CASE Refuse
  BY <1>1, <1>3, <1>8 DEF Refuse, End, Again
<1>9. CASE DonePassed
  BY <1>1, <1>3, <1>9 DEF DonePassed
<1>10. CASE Launch \/ DeriveWithoutBranch \/ DeriveFromPr \/ DeriveFromResidue \/ Act
             \/ RevertWorktree \/ RevertBranch \/ RevertRemote \/ Enter \/ EnterDelivery
  BY <1>1, <1>3, <1>10 DEF Launch, DeriveWithoutBranch, DeriveFromPr, queryPrForBranch,
      DeriveFromResidue, branchOrWorktreeExists, Act,
     RevertWorktree, RevertBranch, RevertRemote, clearProgress, Enter, EnterDelivery, Stop, turn
<1>11. CASE SessionStart \/ SessionFails \/ SessionTimesOut \/ AnswerNeedsDirection
             \/ AnswerShipped \/ AnswerRefused \/ AnswerTaskDone
  BY <1>1, <1>3, <1>8, <1>11 DEF SessionStart, SessionFails, SessionTimesOut,
     AnswerNeedsDirection, AnswerShipped, AnswerRefused, AnswerTaskDone, Stop, End, turn
<1>12. CASE DoneFailed \/ DoneInfrastructure \/ HealRemote \/ HealWorktree \/ HealBranch \/ Kill
             \/ ResetCard
  BY <1>1, <1>3, <1>8, <1>12 DEF DoneFailed, DoneInfrastructure, HealRemote, HealWorktree,
     HealBranch, Kill, ResetCard, Stop, turn
<1>13. CASE MakeCommit \/ RemoveWorktree \/ Push \/ OpenPr \/ MergeGate \/ MergeThroughGate
             \/ CleanUp \/ ZombieEnds \/ MergePastGate
  BY <1>2, <1>13 DEF MakeCommit, RemoveWorktree, Push, OpenPr, MergeGate, buildMergeGateDecision,
      MergeThroughGate,
     CleanUp, NotRunner, ZombieEnds, MergePastGate, turn
<1>14. QED
  BY <1>4, <1>5, <1>6, <1>7, <1>9, <1>10, <1>11, <1>12, <1>13 DEF Next, RunnerStep, WorldStep

\* A card becomes shipped only at the end of a verification that held, and a
\* shipped card is not taken up again.
LEMMA ShipStep ==
  ASSUME TypeOK, PassInv, MergeInv, Next, card'.status = "shipped"
  PROVE  pc' = "off" /\ pr = "merged" /\ merged \in proven
<1>0. card \in CardType /\ "escalated" \in Statuses /\ "shipped" \in Statuses
  BY DEF TypeOK, Statuses
<1>00. card.status = "shipped" => pc = "off" /\ pr = "merged" /\ merged \in proven
  BY DEF MergeInv
<1>1. CASE UNCHANGED <<card, pc>>
  BY <1>1, <1>00
<1>2. CASE pc # "off" /\ card'.status = card.status
  BY <1>2, <1>00
<1>3. CASE End("escalated")
  BY <1>0, <1>3, EndEffect
<1>4. CASE pc # "off" /\ Refuse
  BY <1>2, <1>3, <1>4 DEF Refuse, Again
<1>5. CASE Launch
  BY <1>5, <1>00 DEF Launch
<1>6. CASE RevertRemote \/ EnterDelivery
  BY <1>0, <1>2, <1>6, RevertedCard, ClearedFinalPass DEF RevertRemote, clearProgress,
      EnterDelivery, Stop
<1>7. CASE SessionStart
  BY <1>0, <1>7, StartedCard DEF SessionStart
<1>8. CASE AnswerTaskDone
  BY <1>0, <1>2, <1>8, BranchedCard DEF AnswerTaskDone, Answered
<1>9. CASE DonePassed
  <2>1. PICK t \in 1 .. Tasks :
          card' = ApplyPass(t) \/ card' = [ApplyPass(t) EXCEPT !.status = "escalated"]
    BY <1>9 DEF DonePassed
  <2>2. ApplyPass(t) \in CardType
    BY <1>0, ApplyPassType DEF TypeOK
  <2>3. [ApplyPass(t) EXCEPT !.status = "escalated"].status = "escalated"
    BY <1>0, <2>2, WithStatus
  <2>4. card'.status = card.status
    BY <1>0, <2>1, <2>3, AppliedPass
  <2>5. QED
    BY <1>2, <1>9, <2>4 DEF DonePassed
<1>10. CASE VerifyRest
  <2>1. PICK reached \in BOOLEAN, answer \in {remote, 0} :
          \/ AllPointsHold(Look(reached, answer)) /\ End("shipped")
          \/ End("escalated")
          \/ UNCHANGED card
    BY <1>10 DEF VerifyRest, checkChecksGreen, checkSchemaGuard
  <2>2. CASE AllPointsHold(Look(reached, answer)) /\ End("shipped")
    <3>1. card.doneSha # 0 /\ seen.head = card.doneSha
      BY <2>2 DEF AllPointsHold, DoneAtHead
    <3>2. card.doneSha \in proven
      BY <3>1 DEF PassInv, ProgressIsCoherent
    <3>3. seen.head = merged /\ pr = "merged"
      BY <3>1 DEF MergeInv
    <3>4. pc' = "off"
      BY <2>2 DEF End, Idle
    <3>5. QED
      BY <3>1, <3>2, <3>3, <3>4
  <2>3. CASE UNCHANGED card
    BY <1>2, <1>10, <2>3 DEF VerifyRest, checkChecksGreen, checkSchemaGuard
  <2>4. QED
    BY <1>3, <2>1, <2>2, <2>3
<1>11. CASE ResetCard
  BY <1>0, <1>11, ResetCardEntry DEF ResetCard
<1>12. CASE DeriveWithoutBranch \/ DeriveFromPr \/ DeriveFromResidue \/ Act
             \/ RevertWorktree \/ RevertBranch \/ Enter
  BY <1>2, <1>12 DEF DeriveWithoutBranch, DeriveFromPr, queryPrForBranch, DeriveFromResidue,
      branchOrWorktreeExists, Act,
     RevertWorktree, RevertBranch, Enter
<1>13. CASE SessionFails \/ SessionTimesOut \/ AnswerShipped \/ DoneInfrastructure \/ Kill
  BY <1>2, <1>13 DEF SessionFails, SessionTimesOut, AnswerShipped, Answered,
     DoneInfrastructure, Kill, Stop
<1>14. CASE AnswerNeedsDirection \/ AnswerRefused \/ DoneFailed
  BY <1>3, <1>4, <1>14 DEF AnswerNeedsDirection, AnswerRefused, DoneFailed, Answered
<1>15. CASE VerifyMerged \/ GatherResidueFacts \/ HealRemote \/ HealWorktree \/ HealBranch \/ HealBase
  BY <1>2, <1>15 DEF VerifyMerged, GatherResidueFacts, HealRemote, HealWorktree, HealBranch,
      HealBase
<1>16. CASE MakeCommit \/ RemoveWorktree \/ Push \/ OpenPr \/ MergeGate \/ MergeThroughGate
             \/ CleanUp \/ ZombieEnds \/ MergePastGate
  BY <1>1, <1>16 DEF MakeCommit, RemoveWorktree, Push, OpenPr, MergeGate, buildMergeGateDecision,
      MergeThroughGate,
     CleanUp, NotRunner, ZombieEnds, MergePastGate
<1>17. QED
  BY <1>5, <1>6, <1>7, <1>8, <1>9, <1>10, <1>11, <1>12, <1>13, <1>14, <1>15, <1>16
  DEF Next, RunnerStep, WorldStep

LEMMA MergeInvHolds == Spec => []MergeInv
<1>1. Init => MergeInv
  BY UnseenType DEF Init, NoCard, MergeInv, SecondLookSeesTheMerge
<1>2. TypeOK /\ PassInv /\ MergeInv /\ Next => MergeInv'
  <2> SUFFICES ASSUME TypeOK, PassInv, MergeInv, Next PROVE MergeInv'
    OBVIOUS
  <2>1. seen'.head # 0 => seen'.head = merged'
    BY LookStep, MergeStays
  <2>2. card'.status = "shipped" => pc' = "off" /\ pr' = "merged" /\ merged' \in proven'
    BY ShipStep, MergeStays
  <2>3. QED
    BY <2>1, <2>2, LookStep, MergeStays DEF MergeInv
<1>3. MergeInv /\ UNCHANGED vars => MergeInv'
  BY DEF MergeInv, SecondLookSeesTheMerge, vars, turn, git, hist
<1>4. QED
  BY <1>1, <1>2, <1>3, TurnTypeCorrect, PassInvHolds, PTL DEF Spec

\* Whatever a session says, whichever way the merge went and whoever pushed in
\* between: what a shipped card has merged is a commit on which the runner has
\* seen all Done commands pass.
THEOREM ShippedCardsAreProven == Spec => []ShippedIsProven
BY MergeInvHolds, PTL DEF MergeInv, ShippedIsProven

\* A merge that the first look has seen and fetched is an ancestor of the remote
\* base for the second.
THEOREM StaleBaseCostsOneLook == Spec => []SecondLookSeesTheMerge
BY MergeInvHolds, PTL DEF MergeInv

-----------------------------------------------------------------------------
(* Tearing work down *)

\* A branch without a session is what only a reset leaves behind, and a call that
\* saw one is still before its first session.
ResetInv ==
  /\ card.branch /\ ~card.session => wasReset
  /\ pc \in {"session", "done"} => card.session
  /\ pc = "residue" => card.branch
  /\ pc = "act" /\ phase = "revert_and_redo" => wasReset
  /\ RevertOnlyAfterReset

LEMMA ResetStep == TypeOK /\ ResetInv /\ Next => ResetInv'
<1> SUFFICES ASSUME TypeOK, ResetInv, Next PROVE ResetInv'
  OBVIOUS
<1>0. card \in CardType /\ "escalated" \in Statuses /\ "shipped" \in Statuses
  BY DEF TypeOK, Statuses
<1> USE DEF ResetInv, RevertOnlyAfterReset, hist
<1> DEFINE SameTrace == card'.branch = card.branch /\ card'.session = card.session
<1>1. CASE /\ SameTrace /\ UNCHANGED wasReset
           /\ pc' \notin {"session", "done", "residue", "act", "revert", "revert_branch",
                       "revert_remote"}
  BY <1>1
<1>2. CASE UNCHANGED <<card, pc, phase, wasReset>>
  BY <1>2
<1>3. CASE UNCHANGED wasReset /\ \E s \in Statuses : End(s)
  BY <1>0, <1>1, <1>3, EndEffect
<1>4. CASE UNCHANGED wasReset /\ Refuse
  BY <1>0, <1>1, <1>3, <1>4 DEF Refuse, Again
<1>5. CASE DeriveWithoutBranch
  BY <1>5 DEF DeriveWithoutBranch
<1>6. CASE DeriveFromPr
  BY <1>6 DEF DeriveFromPr, queryPrForBranch
<1>7. CASE DeriveFromResidue
  BY <1>7 DEF DeriveFromResidue, branchOrWorktreeExists
<1>8. CASE Act
  BY <1>8 DEF Act, turn
<1>9. CASE RevertWorktree \/ RevertBranch
  BY <1>9 DEF RevertWorktree, RevertBranch
<1>10. CASE RevertRemote
  BY <1>0, <1>1, <1>10, RevertedCard DEF RevertRemote, clearProgress
<1>11. CASE EnterDelivery
  BY <1>0, <1>1, <1>11, ClearedFinalPass DEF EnterDelivery, Stop, Idle
<1>12. CASE SessionStart
  BY <1>0, <1>12, StartedCard DEF SessionStart
<1>13. CASE AnswerTaskDone
  <2>1. card'.session = card.session /\ card.session /\ pc' = "done" /\ UNCHANGED wasReset
    BY <1>0, <1>13, BranchedCard DEF AnswerTaskDone, Answered
  <2>2. QED
    BY <2>1
<1>14. CASE DonePassed
  <2>1. PICK t \in 1 .. Tasks :
          \/ Idle /\ card' = [ApplyPass(t) EXCEPT !.status = "escalated"]
          \/ pc' = "turn" /\ card' = ApplyPass(t)
    BY <1>14 DEF DonePassed
  <2>2. ApplyPass(t) \in CardType
    BY <1>0, ApplyPassType DEF TypeOK
  <2>3. LET d == [ApplyPass(t) EXCEPT !.status = "escalated"] IN
          d.session = ApplyPass(t).session /\ d.branch = ApplyPass(t).branch
    BY <1>0, <2>2, WithStatus
  <2>4. SameTrace
    BY <1>0, <2>1, <2>3, AppliedPass
  <2>5. QED
    BY <1>1, <1>14, <2>1, <2>4 DEF DonePassed, Idle
<1>15. CASE VerifyRest
  BY <1>0, <1>1, <1>3, <1>15 DEF VerifyRest, checkChecksGreen, checkSchemaGuard
<1>16. CASE ResetCard
  BY <1>0, <1>16, ResetCardEntry DEF ResetCard
<1>17. CASE Launch \/ Enter \/ SessionFails \/ SessionTimesOut \/ AnswerShipped
             \/ DoneInfrastructure \/ Kill
  BY <1>1, <1>17 DEF Launch, Enter, SessionFails, SessionTimesOut, AnswerShipped,
     DoneInfrastructure, Kill, Stop, Idle
<1>18. CASE AnswerNeedsDirection \/ AnswerRefused \/ DoneFailed
  BY <1>0, <1>3, <1>4, <1>18 DEF AnswerNeedsDirection, AnswerRefused, DoneFailed
<1>19. CASE VerifyMerged \/ GatherResidueFacts \/ HealRemote \/ HealWorktree \/ HealBranch \/ HealBase
  BY <1>1, <1>19 DEF VerifyMerged, GatherResidueFacts, HealRemote, HealWorktree, HealBranch,
      HealBase
<1>20. CASE MakeCommit \/ RemoveWorktree \/ Push \/ OpenPr \/ MergeGate \/ MergeThroughGate
             \/ CleanUp \/ ZombieEnds \/ MergePastGate
  BY <1>2, <1>20 DEF MakeCommit, RemoveWorktree, Push, OpenPr, MergeGate, buildMergeGateDecision,
      MergeThroughGate,
     CleanUp, NotRunner, ZombieEnds, MergePastGate, turn
<1>21. QED
  BY <1>5, <1>6, <1>7, <1>8, <1>9, <1>10, <1>11, <1>12, <1>13, <1>14, <1>15, <1>16, <1>17,
     <1>18, <1>19, <1>20
  DEF Next, RunnerStep, WorldStep

LEMMA ResetInvHolds == Spec => []ResetInv
<1>1. Init => ResetInv
  BY DEF Init, NoCard, ResetInv, RevertOnlyAfterReset
<1>2. ResetInv /\ UNCHANGED vars => ResetInv'
  BY DEF ResetInv, RevertOnlyAfterReset, vars, turn, hist
<1>3. QED
  BY <1>1, <1>2, ResetStep, TurnTypeCorrect, PTL DEF Spec

\* performRevertAndRedo takes a worktree and a branch down only between an
\* operator's reset and the next session.
THEOREM WorkIsTornDownOnPurpose == Spec => []RevertOnlyAfterReset
BY ResetInvHolds, PTL DEF ResetInv
=============================================================================
