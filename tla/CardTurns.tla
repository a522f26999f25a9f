----------------------------- MODULE CardTurns -----------------------------
(***************************************************************************)
(* One card, from the derivation of its phase (core/loop/phase.ts) over    *)
(* the turns of its sessions (core/loop/turns.ts, core/session.ts) and the *)
(* runner's Done runs (core/done.ts) to the merge, the verification        *)
(* (core/verify.ts), the heal between its two looks and the ship           *)
(* (core/loop/card-actions.ts). Every await is a step of its own: git and  *)
(* GitHub are shared with the session, with a session the runner has given *)
(* up on, and with people. CampaignPass holds what a turn means for the    *)
(* other cards; here "off" is anything but a turn of this card.            *)
(*                                                                         *)
(* Every change of the card in memory is written out in the same           *)
(* synchronous span, so one copy stands for memory and state file.         *)
(***************************************************************************)
EXTENDS Naturals, FiniteSets

CONSTANTS
  Tasks,       \* the number of tasks in the card's plan
  MaxCommits,  \* bound: commits made in one behaviour
  MaxFaults    \* bound: kills, resets and merges past the gate

ASSUME TasksAssumption  == Tasks \in Nat \ {0}
ASSUME BoundsAssumption == MaxCommits \in Nat /\ MaxFaults \in Nat

MaxStepAttempts == 3
Commit == 0 .. MaxCommits        \* commits in the order they are made; 0: none
Phase  == {"none", "verify_only", "resume", "revert_and_redo",
           "fresh", "digest"}    \* digest: fresh with a state digest

VARIABLES
  pc,        \* the turn's next step
  phase,     \* what deriveCardPhase answered
  card,      \* the card's entry in campaign-state.json
  first,     \* no session turn has returned in this call
  attempts,  \* turns of this step the runner could not accept
  sha,       \* the tip a TASK_DONE was accepted at
  seen,      \* what the verification has read so far
  tip,       \* the card branch in the repo; 0 when there is none
  tree,      \* a worktree has that branch checked out
  remote,    \* the card branch on the remote; 0 when there is none
  pr,        \* "none", "open", "merged"
  merged,    \* the head the PR was merged at
  tracking,  \* the remote-tracking base ref contains the merge
  base,      \* the local base branch contains the merge
  made,      \* commits made so far
  gate,      \* a merge that the merge gate has let through is under way
  zombie,    \* a session the runner has given up on is still at work
  proven,    \* history: commits all Done commands have passed on
  wasReset,  \* history: reset-card came after the last session start
  faults     \* kills, resets and merges past the gate so far

turn  == <<phase, first, attempts, sha, seen>>
git   == <<tip, tree, remote, pr, merged, tracking, base, made, gate>>
hist  == <<proven, wasReset, faults>>
vars  == <<pc, turn, card, git, zombie, hist>>

NoCard == [status |-> "staged", session |-> FALSE, branch |-> FALSE,
           passed |-> [t \in 1 .. Tasks |-> 0], doneSha |-> 0]
Unseen == [second |-> FALSE, head |-> 0, ancestor |-> FALSE,
           tree |-> FALSE, remote |-> FALSE, fetched |-> FALSE, synced |-> FALSE]

Init ==
  /\ pc = "off" /\ phase = "none" /\ card = NoCard
  /\ first = TRUE /\ attempts = 0 /\ sha = 0 /\ seen = Unseen
  /\ tip = 0 /\ tree = FALSE /\ remote = 0 /\ pr = "none" /\ merged = 0
  /\ tracking = TRUE /\ base = TRUE /\ made = 0 /\ gate = FALSE
  /\ zombie = FALSE
  /\ proven = {} /\ wasReset = FALSE /\ faults = 0

-----------------------------------------------------------------------------
(* The end of a turn *)

Idle ==
  /\ pc' = "off" /\ phase' = "none"
  /\ first' = TRUE /\ attempts' = 0 /\ sha' = 0 /\ seen' = Unseen

\* A stopped outcome leaves the card as it is.
Stop == Idle /\ UNCHANGED card

\* escalateCard, shipCard.
End(status) == Idle /\ card' = [card EXCEPT !.status = status]

-----------------------------------------------------------------------------
(* deriveCardPhase *)

\* The card is selected, its escalation file absent or overridden.
Launch ==
  /\ pc = "off" /\ card.status # "shipped"
  /\ pc' = "derive"
  /\ UNCHANGED <<turn, card, git, zombie, hist>>

\* No branch recorded: the session that may know of one is resumed.
DeriveWithoutBranch ==
  /\ pc = "derive" /\ ~card.branch
  /\ pc' = "act"
  /\ phase' = IF card.session THEN "resume" ELSE "fresh"
  /\ UNCHANGED <<card, first, attempts, sha, seen, git, zombie, hist>>

\* The last PR of the branch; a gh that fails reads as "no PR".
queryPrForBranch == {pr, "none"}

DeriveFromPr ==
  /\ pc = "derive" /\ card.branch
  /\ \E answer \in queryPrForBranch :
       \/ answer = "merged" /\ pc' = "act" /\ phase' = "verify_only"
       \/ answer = "open" /\ pc' = "act"
          /\ phase' = IF card.session THEN "resume" ELSE "digest"
       \/ answer = "none" /\ pc' = "residue" /\ UNCHANGED phase
  /\ UNCHANGED <<card, first, attempts, sha, seen, git, zombie, hist>>

\* A worktree, or a branch on the remote; an ls-remote that fails reads as none.
branchOrWorktreeExists == {tree \/ answer # 0 : answer \in {remote, 0}}

\* Mutant of DeriveFromResidue: the recorded session does not matter.
DeriveRevertAlways ==
  /\ pc = "residue" /\ pc' = "act"
  /\ phase' = IF tree \/ remote # 0 THEN "revert_and_redo" ELSE "fresh"
  /\ UNCHANGED <<card, first, attempts, sha, seen, git, zombie, hist>>

DeriveFromResidue ==
  /\ pc = "residue" /\ pc' = "act"
  /\ \E residue \in branchOrWorktreeExists :
       phase' = IF residue
                THEN IF card.session THEN "resume" ELSE "revert_and_redo"
                ELSE "fresh"
  /\ UNCHANGED <<card, first, attempts, sha, seen, git, zombie, hist>>

-----------------------------------------------------------------------------
(* actOnCard, up to the first session turn *)

Act ==
  /\ pc = "act"
  /\ pc' = CASE phase = "verify_only"     -> "verify"
             [] phase = "revert_and_redo" -> "revert"
             [] OTHER                     -> "entry"
  /\ UNCHANGED <<turn, card, git, zombie, hist>>

\* performRevertAndRedo looks at no command's result. The worktree, by force ...
RevertWorktree ==
  /\ pc = "revert"
  /\ pc' = "revert_branch"
  /\ tree' \in {tree, FALSE}
  /\ UNCHANGED <<turn, card, tip, remote, pr, merged, tracking, base, made, gate, zombie, hist>>

\* git branch -D, which git refuses for a branch that is checked out.
DropBranch == tip' = IF tree THEN tip ELSE 0

\* ... the local branch ...
RevertBranch ==
  /\ pc = "revert_branch"
  /\ pc' = "revert_remote"
  /\ DropBranch
  /\ UNCHANGED <<turn, card, tree, remote, pr, merged, tracking, base, made, gate, zombie, hist>>

\* Deleting the branch an open PR is for closes the PR.
DropRemote ==
  /\ remote' = 0
  /\ pr' = IF pr = "open" THEN "none" ELSE pr

clearProgress == [card EXCEPT !.passed = NoCard.passed, !.doneSha = 0]

\* ... the remote branch, when ls-remote shows it; then the passes on record.
RevertRemote ==
  /\ pc = "revert_remote"
  /\ pc' = "entry"
  /\ (DropRemote \/ UNCHANGED <<remote, pr>>)
  /\ card' = clearProgress
  /\ UNCHANGED <<turn, tip, tree, merged, tracking, base, made, gate, zombie, hist>>

\* nextStep.
Passed     == {t \in 1 .. Tasks : card.passed[t] # 0}
Delivering == Passed = 1 .. Tasks /\ card.doneSha # 0

\* t is the first task that has not passed; the last one when all have.
IsNextTask(t) == IF Passed = 1 .. Tasks
                 THEN t = Tasks
                 ELSE t \notin Passed /\ 1 .. t - 1 \subseteq Passed

ClearFinalPass ==
  [card EXCEPT !.passed = [card.passed EXCEPT ![Tasks] = 0], !.doneSha = 0]

\* driveCardTurns: a card that enters at delivery has its Done run repeated.
Enter ==
  /\ pc = "entry" /\ ~Delivering
  /\ pc' = "turn"
  /\ UNCHANGED <<turn, card, git, zombie, hist>>

EnterDelivery ==
  /\ pc = "entry" /\ Delivering
  /\ UNCHANGED <<git, zombie, wasReset, faults>>
  /\ \/ /\ Stop
        /\ UNCHANGED proven
     \/ /\ pc' = "turn" /\ proven' = proven \cup {card.doneSha}
        /\ UNCHANGED <<turn, card>>
     \/ /\ pc' = "turn" /\ card' = ClearFinalPass /\ attempts' = 1
        /\ UNCHANGED <<phase, first, sha, seen, proven>>

-----------------------------------------------------------------------------
(* driveCardTurns *)

\* A session is spawned or resumed, and its init message arrives.
SessionStart ==
  /\ pc = "turn"
  /\ pc' = "session"
  /\ card' = [card EXCEPT !.session = TRUE, !.status = "running"]
  /\ wasReset' = FALSE
  /\ UNCHANGED <<turn, git, zombie, proven, faults>>

\* The spawn or the session fails. A failed resume falls back, once, to a fresh
\* session with a digest; anything else ends the call.
SessionFails ==
  /\ pc \in {"turn", "session"}
  /\ gate' = FALSE
  /\ UNCHANGED <<tip, tree, remote, pr, merged, tracking, base, made, zombie, hist>>
  /\ \/ /\ first /\ phase = "resume"
        /\ pc' = "turn" /\ phase' = "digest"
        /\ UNCHANGED <<card, first, attempts, sha, seen>>
     \/ Stop

\* The wall clock: the session is aborted, which it may or may not heed.
SessionTimesOut ==
  /\ pc \in {"turn", "session"}
  /\ Stop
  /\ zombie' \in {zombie, TRUE}
  /\ UNCHANGED <<git, hist>>

\* A turn that ends with a terminal line, its merge command done or given up.
Answered ==
  /\ pc = "session"
  /\ gate' = (gate /\ zombie)
  /\ UNCHANGED <<tip, tree, remote, pr, merged, tracking, base, made, zombie>>

Again == pc' = "turn" /\ first' = FALSE /\ UNCHANGED <<phase, seen>>

\* One more turn the runner could not accept; the last one escalates.
Refuse ==
  IF attempts + 1 >= MaxStepAttempts
  THEN End("escalated")
  ELSE Again /\ attempts' = attempts + 1 /\ sha' = 0 /\ UNCHANGED card

AnswerNeedsDirection ==
  Answered /\ End("escalated") /\ UNCHANGED hist

\* SHIPPED: believed only at delivery, and then only as a reason to verify.
AnswerShipped ==
  /\ Answered /\ Delivering
  /\ pc' = "verify" /\ first' = FALSE
  /\ UNCHANGED <<phase, attempts, sha, seen, card, hist>>

\* SHIPPED too early, the wrong task, a branch that is not the card's.
AnswerRefused ==
  Answered /\ Refuse /\ UNCHANGED hist

\* TASK_DONE for the expected task: the branch is there, its tip is taken.
AnswerTaskDone ==
  /\ Answered /\ tip # 0
  /\ pc' = "done" /\ sha' = tip /\ first' = FALSE
  /\ card' = [card EXCEPT !.branch = TRUE]
  /\ UNCHANGED <<phase, attempts, seen, hist>>

\* Mutant of ApplyPass: the tasks before keep the commit they passed on.
ApplyPassAlone(t) ==
  [card EXCEPT !.passed[t] = sha, !.doneSha = IF t = Tasks THEN sha ELSE 0]

\* applyPass: the tasks up to t have all passed on this commit.
ApplyPass(t) ==
  [card EXCEPT !.passed = [u \in 1 .. Tasks |-> IF u <= t THEN sha ELSE card.passed[u]],
               !.doneSha = IF t = Tasks THEN sha ELSE 0]

\* Mutant of DonePassed: a re-check at delivery is free of charge.
DonePassedFree ==
  /\ pc = "done"
  /\ \E t \in 1 .. Tasks :
       /\ IsNextTask(t)
       /\ proven' = IF t = Tasks THEN proven \cup {sha} ELSE proven
       /\ card' = ApplyPass(t)
  /\ pc' = "turn" /\ attempts' = 0 /\ sha' = 0
  /\ UNCHANGED <<phase, first, seen, git, zombie, wasReset, faults>>

\* The Done commands of all tasks so far pass. At delivery that is one more
\* turn without a SHIPPED.
DonePassed ==
  /\ pc = "done"
  /\ \E t \in 1 .. Tasks :
       /\ IsNextTask(t)
       /\ proven' = IF t = Tasks THEN proven \cup {sha} ELSE proven
       /\ IF Delivering /\ attempts + 1 >= MaxStepAttempts
            THEN Idle /\ card' = [ApplyPass(t) EXCEPT !.status = "escalated"]
            ELSE /\ pc' = "turn" /\ card' = ApplyPass(t) /\ sha' = 0
                 /\ attempts' = IF Delivering THEN attempts + 1 ELSE 0
                 /\ UNCHANGED <<phase, first, seen>>
  /\ UNCHANGED <<git, zombie, wasReset, faults>>

\* A command fails; what was recorded before stays.
DoneFailed ==
  /\ pc = "done" /\ Refuse
  /\ UNCHANGED <<git, zombie, hist>>

\* The runner could not run them.
DoneInfrastructure ==
  /\ pc = "done" /\ Stop
  /\ UNCHANGED <<git, zombie, hist>>

-----------------------------------------------------------------------------
(* Git and GitHub, as a session, a session given up on, or a person uses them *)

AtWork == pc = "session" \/ zombie
NotRunner == UNCHANGED <<pc, turn, card, zombie, hist>>

MakeCommit ==
  /\ AtWork /\ made < MaxCommits
  /\ made' = made + 1 /\ tip' = made' /\ tree' = TRUE
  /\ NotRunner /\ UNCHANGED <<remote, pr, merged, tracking, base, gate>>

\* The session takes its worktree away and leaves the branch.
RemoveWorktree ==
  /\ AtWork /\ tree
  /\ tree' = FALSE
  /\ NotRunner /\ UNCHANGED <<tip, remote, pr, merged, tracking, base, made, gate>>

\* A push recreates a remote branch that was deleted, too.
Push ==
  /\ AtWork /\ tip # 0 /\ remote # tip
  /\ remote' = tip
  /\ NotRunner /\ UNCHANGED <<tip, tree, pr, merged, tracking, base, made, gate>>

OpenPr ==
  /\ AtWork /\ remote # 0 /\ pr = "none"
  /\ pr' = "open"
  /\ NotRunner /\ UNCHANGED <<tip, tree, remote, merged, tracking, base, made, gate>>

\* The head of the PR is the commit the Done commands last passed on. That the
\* command is a plain merge and every check is green is up to the session.
buildMergeGateDecision == card.doneSha # 0 /\ remote = card.doneSha

\* decideMergeGateHook, before the session's command runs.
MergeGate ==
  /\ AtWork /\ pr = "open" /\ ~gate
  /\ buildMergeGateDecision
  /\ gate' = TRUE
  /\ NotRunner /\ UNCHANGED <<tip, tree, remote, pr, merged, tracking, base, made>>

Merge ==
  /\ pr' = "merged" /\ merged' = remote /\ gate' = FALSE
  /\ tracking' = FALSE /\ base' = FALSE

\* gh pr merge merges the head the PR has by then.
MergeThroughGate ==
  /\ AtWork /\ gate /\ pr = "open" /\ remote # 0
  /\ Merge
  /\ NotRunner /\ UNCHANGED <<tip, tree, remote, made>>

\* Somebody merges the PR on GitHub.
MergePastGate ==
  /\ pr = "open" /\ remote # 0 /\ faults < MaxFaults
  /\ Merge /\ faults' = faults + 1
  /\ UNCHANGED <<pc, turn, card, zombie, proven, wasReset, tip, tree, remote, made>>

\* The cleanup after a merge, in any order and as far as the session gets.
CleanUp ==
  /\ AtWork /\ pr = "merged"
  /\ \/ /\ tree' = FALSE /\ tip' = 0
        /\ UNCHANGED <<remote, tracking, base>>
     \/ remote' = 0 /\ UNCHANGED <<tip, tree, tracking, base>>
     \/ tracking' = TRUE /\ base' = TRUE /\ UNCHANGED <<tip, tree, remote>>
  /\ NotRunner /\ UNCHANGED <<pr, merged, made, gate>>

\* A session given up on comes to an end.
ZombieEnds ==
  /\ zombie
  /\ zombie' = FALSE /\ gate' = (gate /\ pc = "session")
  /\ UNCHANGED <<pc, turn, card, tip, tree, remote, pr, merged, tracking, base, made, hist>>

\* The runner is killed; its session may go on.
Kill ==
  /\ pc # "off" /\ faults < MaxFaults
  /\ Stop
  /\ zombie' \in {zombie, AtWork} /\ faults' = faults + 1
  /\ UNCHANGED <<git, proven, wasReset>>

\* resetCard: everything about the work but the branch.
ResetCard ==
  /\ pc = "off" /\ faults < MaxFaults /\ card # NoCard
  /\ card' = [NoCard EXCEPT !.branch = card.branch]
  /\ wasReset' = TRUE /\ faults' = faults + 1
  /\ UNCHANGED <<pc, turn, git, zombie, proven>>

-----------------------------------------------------------------------------
(* verifyShipped, and the heal between its two looks *)

\* checkMerged and checkAncestor, against the tracking ref as it is.
VerifyMerged ==
  /\ pc = "verify"
  /\ pc' = "verify_rest"
  /\ \E answered \in BOOLEAN :
       seen' = [seen EXCEPT !.head = IF answered THEN merged ELSE 0,
                            !.ancestor = answered /\ merged # 0 /\ tracking]
  /\ UNCHANGED <<phase, first, attempts, sha, card, git, zombie, hist>>

\* Mutant of Fetch: the base is compared as it is.
FetchNothing(reached) == UNCHANGED tracking

\* checkLocalBaseSynced fetches when a merge commit is reported, which GitHub
\* does for an open PR as well; the fetch may fail.
Fetch(reached) == tracking' = (tracking \/ reached)

\* Mutant of DoneAtHead: a merged PR is taken at its word.
DoneOnRecord == card.doneSha # 0

\* checkDoneAtHead: the merged head is the commit the Done commands passed on.
DoneAtHead == card.doneSha # 0 /\ seen.head = card.doneSha

\* The checks of the PR: passed, skipped or waived each, or not, or unknown.
checkChecksGreen == BOOLEAN

\* The locked paths between the card's base and the remote base: untouched,
\* touched as the plan allows, or not.
checkSchemaGuard == BOOLEAN

\* The other points: the worktree and the branch, whose ls-remote may fail, and
\* the local base, which is compared when the fetch is reached.
Look(reached, answer) ==
  [seen EXCEPT !.tree = tree, !.remote = answer # 0,
               !.fetched = reached /\ seen.head # 0,
               !.synced = reached /\ seen.head # 0 /\ base]

AllPointsHold(now) ==
  /\ now.head # 0 /\ now.ancestor /\ now.synced
  /\ ~now.tree /\ ~now.remote
  /\ DoneAtHead

\* Every point has to hold; a first failure is healed, a second one escalates.
VerifyRest ==
  /\ pc = "verify_rest"
  /\ \E green \in checkChecksGreen, guarded \in checkSchemaGuard,
        reached \in BOOLEAN, answer \in {remote, 0} :
       LET now == Look(reached, answer)
           ok  == green /\ guarded /\ AllPointsHold(now) IN
       /\ Fetch(reached)
       /\ \/ ok /\ End("shipped")
          \/ ~ok /\ seen.second /\ End("escalated")
          \/ /\ ~ok /\ ~seen.second
             /\ pc' = "heal" /\ seen' = now
             /\ UNCHANGED <<card, phase, first, attempts, sha>>
  /\ UNCHANGED <<tip, tree, remote, pr, merged, base, made, gate, zombie, hist>>

\* gatherWorktreeResidueFacts and decideResidueHeal: from here on seen.tree and
\* seen.remote say what is to be removed. A worktree must be clean, its tip an
\* ancestor of the remote base.
GatherResidueFacts ==
  /\ pc = "heal"
  /\ pc' = "heal_remote"
  /\ \E clean \in BOOLEAN :
       seen' = [seen EXCEPT
         !.remote = @ /\ seen.head # 0,
         !.tree = @ /\ seen.head # 0 /\ tree /\ clean /\ tip <= merged /\ tracking]
  /\ UNCHANGED <<phase, first, attempts, sha, card, git, zombie, hist>>

\* executeHealActions: the remote branch ...
HealRemote ==
  /\ pc = "heal_remote"
  /\ pc' = IF seen.tree THEN "heal_tree" ELSE "heal_base"
  /\ \/ seen.remote /\ remote' = 0
     \/ UNCHANGED remote
  /\ UNCHANGED <<turn, card, tip, tree, pr, merged, tracking, base, made, gate, zombie, hist>>

\* ... the worktree, which git refuses to remove when it has become dirty ...
HealWorktree ==
  /\ pc = "heal_tree"
  /\ \/ tree' = FALSE /\ pc' = "heal_branch"
     \/ UNCHANGED tree /\ pc' = "heal_base"
  /\ UNCHANGED <<turn, card, tip, remote, pr, merged, tracking, base, made, gate, zombie, hist>>

\* ... and, only when it is gone, the branch.
HealBranch ==
  /\ pc = "heal_branch"
  /\ pc' = "heal_base"
  /\ DropBranch
  /\ UNCHANGED <<turn, card, tree, remote, pr, merged, tracking, base, made, gate, zombie, hist>>

\* fastForwardBaseIfSafe, then the second look.
HealBase ==
  /\ pc = "heal_base"
  /\ pc' = "verify"
  /\ \E safe \in BOOLEAN :
       base' = (base \/ (seen.head # 0 /\ ~seen.synced /\ safe /\ tracking))
  /\ seen' = [seen EXCEPT !.second = TRUE]
  /\ UNCHANGED <<phase, first, attempts, sha, card, tip, tree, remote, pr, merged,
                 tracking, made, gate, zombie, hist>>

-----------------------------------------------------------------------------
RunnerStep ==
  \/ DeriveWithoutBranch \/ DeriveFromPr \/ DeriveFromResidue
  \/ Act \/ RevertWorktree \/ RevertBranch \/ RevertRemote \/ Enter \/ EnterDelivery
  \/ SessionStart \/ SessionFails \/ SessionTimesOut
  \/ AnswerNeedsDirection \/ AnswerShipped \/ AnswerRefused \/ AnswerTaskDone
  \/ DonePassed \/ DoneFailed \/ DoneInfrastructure
  \/ VerifyMerged \/ VerifyRest
  \/ GatherResidueFacts \/ HealRemote \/ HealWorktree \/ HealBranch \/ HealBase

WorldStep ==
  \/ MakeCommit \/ RemoveWorktree \/ Push \/ OpenPr \/ MergeGate \/ MergeThroughGate \/ CleanUp
  \/ ZombieEnds \/ MergePastGate \/ Kill \/ ResetCard

Next == Launch \/ RunnerStep \/ WorldStep

Spec     == Init /\ [][Next]_vars

\* Weak fairness of RunnerStep, written out: a step is due whenever a call is under
\* way, and each takes the call further.
CallMoves == pc' # pc \/ phase' # phase
FairSpec  == Spec /\ ([]<>(pc = "off") \/ []<><<CallMoves>>_vars)

-----------------------------------------------------------------------------
(* Properties *)

CardType == [status : {"staged", "running", "shipped", "escalated"},
             session : BOOLEAN, branch : BOOLEAN,
             passed : [1 .. Tasks -> Commit], doneSha : Commit]
SeenType == [second : BOOLEAN, head : Commit, ancestor : BOOLEAN, tree : BOOLEAN,
             remote : BOOLEAN, fetched : BOOLEAN, synced : BOOLEAN]

\* Every variable stays in its domain.
TypeOK ==
  /\ pc \in {"off", "derive", "residue", "act", "revert", "revert_branch", "revert_remote",
             "entry", "turn", "session", "done", "verify", "verify_rest",
             "heal", "heal_remote", "heal_tree", "heal_branch", "heal_base"}
  /\ phase \in Phase
  /\ card \in CardType
  /\ first \in BOOLEAN /\ attempts \in 0 .. MaxStepAttempts - 1 /\ sha \in Commit
  /\ seen \in SeenType
  /\ tip \in Commit /\ tree \in BOOLEAN /\ remote \in Commit
  /\ pr \in {"none", "open", "merged"} /\ merged \in Commit
  /\ tracking \in BOOLEAN /\ base \in BOOLEAN /\ made \in Commit /\ gate \in BOOLEAN
  /\ zombie \in BOOLEAN
  /\ proven \subseteq Commit /\ wasReset \in BOOLEAN /\ faults \in 0 .. MaxFaults

\* Whatever a session says, whichever way the merge went and whoever pushed in
\* between: a card is shipped only if what was merged is a commit on which the
\* runner has seen all Done commands pass.
ShippedIsProven ==
  card.status = "shipped" => pr = "merged" /\ merged \in proven

\* The passes on record make one story: they are the first tasks of the plan,
\* all on one commit, and doneSha is that commit, recorded with the last task
\* and with a Done run of everything behind it.
ProgressIsCoherent ==
  /\ \A t \in Passed : \A u \in 1 .. t : card.passed[u] = card.passed[t]
  /\ card.doneSha # 0 =>
       card.doneSha \in proven /\ \A t \in 1 .. Tasks : card.passed[t] = card.doneSha

\* The work of a card is torn down unmerged only when an operator has reset the
\* card and no session has started since.
RevertOnlyAfterReset ==
  pc \in {"revert", "revert_branch", "revert_remote"} => wasReset

\* A merge the first look has seen and fetched is an ancestor of the remote base
\* for the second: a stale tracking ref costs one look, never an escalation.
SecondLookSeesTheMerge ==
  pc = "verify_rest" /\ seen.second /\ seen.fetched /\ seen.head # 0 => seen.ancestor

\* Every call ends, however often the session answers without delivering.
TurnEnds == (pc # "off") ~> (pc = "off")

\* merge-gate.ts: "green checks are not enough -- the head being merged must be
\* the exact commit the runner ran the Done commands on".
GatedMergeIsProven ==
  [][gate /\ pr = "open" /\ pr' = "merged" /\ faults' = faults => merged' \in proven]_vars

=============================================================================
