------------------------- MODULE CampaignPassProofs -------------------------
(***************************************************************************)
(* Theorems about CampaignPass and about the loop of nextCard it takes in  *)
(* one step (BlockedLoop), for every set of cards, every dependency graph, *)
(* every sequence and every set of command lines.                          *)
(***************************************************************************)
EXTENDS CampaignPass, BlockedLoop, FiniteSetTheorems, WellFoundedInduction, TLAPS

-----------------------------------------------------------------------------
(* The call of nextCard that CampaignPass takes in one step: BlockedLoop   *)

\* The fixpoint is below every closed set.
LEMMA FixpointIsLeast ==
  ASSUME NEW st, NEW d, NEW S \in SUBSET Cards, BlockClosed(S, st, d)
  PROVE  BlockedCards(st, d) \subseteq S
  BY DEF BlockedCards

\* A card that a part of the fixpoint parks belongs to the fixpoint.
LEMMA FixpointIsClosed ==
  ASSUME NEW st, NEW d, NEW S \in SUBSET Cards, S \subseteq BlockedCards(st, d),
         NEW c \in Cards, ParkedByDependency(c, S, st, d)
  PROVE  c \in BlockedCards(st, d)
<1> SUFFICES ASSUME NEW T \in SUBSET Cards, BlockClosed(T, st, d) PROVE c \in T
  BY DEF BlockedCards
<1>1. S \subseteq T
  BY DEF BlockedCards
<1>2. ParkedByDependency(c, T, st, d)
  BY <1>1 DEF ParkedByDependency
<1>3. QED
  BY <1>2 DEF BlockClosed

\* No shipped and no escalated card is in it.
LEMMA FixpointIsUnparked ==
  ASSUME NEW st, NEW d, NEW c \in BlockedCards(st, d)
  PROVE  c \in Cards /\ st[c] \notin {"shipped", "escalated"}
<1> DEFINE S == {x \in Cards : st[x] \notin {"shipped", "escalated"}}
<1>1. BlockClosed(S, st, d)
  BY DEF BlockClosed, ParkedByDependency
<1>2. QED
  BY <1>1, FixpointIsLeast

\* The fixpoint depends on who is shipped and who is escalated, on nothing else.
LEMMA FixpointIgnoresTheRest ==
  ASSUME NEW st, NEW new, NEW d \in [Cards -> SUBSET Cards],
         \A c \in Cards : /\ new[c] = "shipped" <=> st[c] = "shipped"
                          /\ new[c] = "escalated" <=> st[c] = "escalated"
  PROVE  BlockedCards(new, d) = BlockedCards(st, d)
<1>1. ASSUME NEW S \in SUBSET Cards
      PROVE  BlockClosed(S, new, d) <=> BlockClosed(S, st, d)
  BY DEF BlockClosed, ParkedByDependency
<1>2. QED
  BY <1>1 DEF BlockedCards

\* Types.
THEOREM LoopTypeCorrect == LoopSpec => []LoopTypeOK
<1>0. Cardinality(Cards) \in Nat
  BY CardsAssumption, FS_CardinalityType
<1>1. LoopInit => LoopTypeOK
  BY <1>0 DEF LoopInit, LoopTypeOK
<1>2. LoopTypeOK /\ [LoopNext]_loopVars => LoopTypeOK'
  <2> SUFFICES ASSUME LoopTypeOK, [LoopNext]_loopVars PROVE LoopTypeOK'
    OBVIOUS
  <2> USE <1>0 DEF LoopTypeOK, input
  <2>1. CASE NewPass
    <3>1. 1 \in 1 .. Cardinality(Cards) + 1
      OBVIOUS
    <3>2. QED
      BY <2>1, <3>1 DEF NewPass
  <2>2. CASE Visit
    <3>1. next \in 1 .. Cardinality(Cards) /\ order[next] \in Cards
      BY <2>2 DEF Visit, Orders
    <3>2. next + 1 \in 1 .. Cardinality(Cards) + 1
      BY <3>1
    <3>3. next' \in 1 .. Cardinality(Cards) + 1 /\ at' = at /\ UNCHANGED input
      BY <2>2, <3>2 DEF Visit
    <3>4. blocked' \subseteq Cards /\ changed' \in BOOLEAN
      BY <2>2, <3>1 DEF Visit
    <3>5. QED
      BY <3>3, <3>4
  <2>3. CASE EndPass
    BY <2>3 DEF EndPass
  <2>4. CASE LoopEnds
    BY <2>4 DEF LoopEnds
  <2>5. CASE ReconcileStatuses
    <3>1. status' \in [Cards -> Status]
      BY <2>5 DEF ReconcileStatuses, Status
    <3>2. QED
      BY <2>5, <3>1 DEF ReconcileStatuses
  <2>6. CASE UNCHANGED loopVars
    BY <2>6 DEF loopVars
  <2>7. QED
    BY <2>1, <2>2, <2>3, <2>4, <2>5, <2>6 DEF LoopNext
<1>3. QED
  BY <1>1, <1>2, PTL DEF LoopSpec

\* The loop's invariant.
THEOREM LoopInvariantHolds == LoopSpec => []LoopInvariant
<1>1. LoopInit => LoopInvariant
  BY DEF LoopInit, LoopInvariant
<1>2. LoopTypeOK /\ LoopInvariant /\ [LoopNext]_loopVars => LoopInvariant'
  <2> SUFFICES ASSUME LoopTypeOK, LoopInvariant, [LoopNext]_loopVars PROVE LoopInvariant'
    OBVIOUS
  <2> USE DEF LoopInvariant, input
  <2>0. Cardinality(Cards) \in Nat /\ DOMAIN order = 1 .. Cardinality(Cards)
    BY CardsAssumption, FS_CardinalityType DEF LoopTypeOK, Orders
  <2>1. CASE NewPass
    <3>1. \A n \in DOMAIN order : ~(n < 1)
      BY <2>0
    <3>2. at' = "for" /\ next' = 1 /\ UNCHANGED <<order, status, deps, blocked>> /\ at # "done"
      BY <2>1 DEF NewPass
    <3>3. QED
      BY <3>1, <3>2
  <2>2. CASE Visit
    <3>1. next \in DOMAIN order /\ order[next] \in Cards
      BY <2>2 DEF Visit, LoopTypeOK, Orders
    <3>2. CASE order[next] \notin blocked /\ ParkedByDependency(order[next], blocked, status, deps)
      <4>1. order[next] \in BlockedCards(status, deps)
        BY <2>2, <3>1, <3>2, FixpointIsClosed DEF Visit, LoopTypeOK
      <4>2. QED
        BY <2>2, <3>2, <4>1 DEF Visit
    <3>3. CASE ~(order[next] \notin blocked /\ ParkedByDependency(order[next], blocked, status, deps))
      BY <2>2, <3>1, <3>3 DEF Visit, LoopTypeOK, Orders
    <3>4. QED
      BY <3>2, <3>3
  <2>3. CASE EndPass
    <3>1. \A n \in DOMAIN order : n < next
      BY <2>0, <2>3 DEF EndPass, LoopTypeOK
    <3>2. /\ at = "for" /\ at' = "while"
          /\ UNCHANGED <<order, status, deps, blocked, changed, next>>
      BY <2>3 DEF EndPass
    <3>3. QED
      BY <3>1, <3>2
  <2>4. CASE LoopEnds
    BY <2>4 DEF LoopEnds
  <2>5. CASE ReconcileStatuses
    <3>1. ~(at' = "reconcile" \/ at' = "while" \/ at' = "for")
      BY <2>5 DEF ReconcileStatuses
    <3>2. QED
      BY <2>5, <3>1 DEF ReconcileStatuses
  <2>6. CASE UNCHANGED loopVars
    BY <2>6 DEF loopVars
  <2>7. QED
    BY <2>1, <2>2, <2>3, <2>4, <2>5, <2>6 DEF LoopNext
<1>3. QED
  BY <1>1, <1>2, LoopTypeCorrect, PTL DEF LoopSpec

\* At the end of the loop the result is closed, hence the fixpoint itself.
LEMMA ResultIsFixpoint ==
  ASSUME LoopTypeOK, LoopInvariant, at = "reconcile"
  PROVE  blocked = BlockedCards(status, deps)
<1>1. BlockClosed(blocked, status, deps)
  BY DEF BlockClosed, LoopInvariant, LoopTypeOK, Orders
<1>2. QED
  BY <1>1, FixpointIsLeast DEF LoopTypeOK, LoopInvariant

\* computeBlockedCardIds returns the least fixpoint of its rule: the key order
\* of the state file and statuses stored as "blocked" make no difference.
THEOREM LoopIsCorrect == LoopSpec => []LoopComputesFixpoint
<1>1. LoopTypeOK /\ LoopInvariant => LoopComputesFixpoint
  BY ResultIsFixpoint DEF LoopComputesFixpoint
<1>2. QED
  BY <1>1, LoopTypeCorrect, LoopInvariantHolds, PTL

\* After nextCard's reconciliation the statuses agree with the fixpoint of the
\* statuses as they now are: reconciling again would change nothing.
THEOREM ReconciliationIsStable == LoopSpec => []ReconciledIsStable
<1>1. LoopInit => ReconciledIsStable
  BY DEF LoopInit, ReconciledIsStable
<1>2. LoopTypeOK /\ LoopInvariant /\ ReconciledIsStable /\ [LoopNext]_loopVars => ReconciledIsStable'
  <2> SUFFICES ASSUME LoopTypeOK, LoopInvariant, ReconciledIsStable, [LoopNext]_loopVars, at' = "done"
               PROVE  {c \in Cards : status'[c] = "blocked"} = BlockedCards(status', deps')
    BY DEF ReconciledIsStable
  <2>1. CASE ReconcileStatuses
    <3>1. blocked = BlockedCards(status, deps)
      BY <2>1, ResultIsFixpoint DEF ReconcileStatuses
    <3>2. \A c \in blocked : c \in Cards /\ status[c] \notin {"shipped", "escalated"}
      BY <3>1, FixpointIsUnparked
    <3>3. deps' = deps /\ deps \in [Cards -> SUBSET Cards]
      BY <2>1 DEF ReconcileStatuses, LoopTypeOK
    <3>4. \A c \in Cards : /\ status'[c] = "shipped" <=> status[c] = "shipped"
                           /\ status'[c] = "escalated" <=> status[c] = "escalated"
      BY <2>1, <3>2 DEF ReconcileStatuses
    <3>5. BlockedCards(status', deps) = BlockedCards(status, deps)
      BY <3>3, <3>4, FixpointIgnoresTheRest
    <3>6. {c \in Cards : status'[c] = "blocked"} = blocked
      BY <2>1, <3>1, <3>2 DEF ReconcileStatuses
    <3>7. QED
      BY <3>1, <3>3, <3>5, <3>6
  <2>2. CASE UNCHANGED loopVars
    BY <2>2 DEF loopVars, ReconciledIsStable
  <2>3. QED
    BY <2>1, <2>2 DEF LoopNext, NewPass, Visit, EndPass, LoopEnds
<1>3. QED
  BY <1>1, <1>2, LoopTypeCorrect, LoopInvariantHolds, PTL DEF LoopSpec

\* One call of nextCard's reconciliation does to the statuses what Reconciled, and
\* with it every selection of CampaignPass, says in one step: the loop over the state
\* file's keys (computeBlockedCardIds) followed by reconcileBlockedStatuses.
THEOREM LoopReconciles ==
  LoopSpec => [][at # "done" /\ at' = "done" => status' = Reconciled(status, deps)]_loopVars
<1>1. LoopTypeOK /\ LoopInvariant /\ [LoopNext]_loopVars
        => [at # "done" /\ at' = "done" => status' = Reconciled(status, deps)]_loopVars
  <2> SUFFICES ASSUME LoopTypeOK, LoopInvariant, LoopNext, at # "done", at' = "done"
               PROVE  status' = Reconciled(status, deps)
    OBVIOUS
  <2>1. ReconcileStatuses
    BY DEF LoopNext, NewPass, Visit, EndPass, LoopEnds
  <2>2. blocked = BlockedCards(status, deps)
    BY <2>1, ResultIsFixpoint DEF ReconcileStatuses
  <2>3. QED
    BY <2>1, <2>2 DEF ReconcileStatuses, Reconciled
<1>2. QED
  BY <1>1, LoopTypeCorrect, LoopInvariantHolds, PTL DEF LoopSpec
-----------------------------------------------------------------------------
(* The campaign in memory and on disk                                      *)
USE CardsAssumption, SequenceAssumption, DependsOnAssumption,
    OptionsAssumption, FaultsAssumption

\* nextCard's reconciliation keeps statuses statuses, never touches a shipped
\* or an escalated card, and only ever leaves "blocked" or "staged" behind.
LEMMA ReconcileFacts ==
  ASSUME NEW st \in [Cards -> Status]
  PROVE  /\ Reconcile(st) \in [Cards -> Status]
         /\ \A c \in Cards : Reconcile(st)[c] # st[c] =>
              /\ st[c] \in {"staged", "running", "blocked"}
              /\ Reconcile(st)[c] \in {"staged", "blocked"}
<1> DEFINE Waiting == {c \in Cards : /\ st[c] \notin {"shipped", "escalated"}
                                     /\ \E d \in DependsOn[c] : st[d] # "shipped"}
<1>1. BlockClosed(Waiting, st, DependsOn)
  BY DEF BlockClosed, ParkedByDependency
<1>2. Blocked(st) \subseteq Waiting
  BY <1>1 DEF Blocked, BlockedCards
<1>3. QED
  BY <1>2 DEF Reconcile, Reconciled, Blocked, Status

\* A card whose dependencies have all shipped is not blocked, so a worker's
\* card keeps its status while other cards are selected.
LEMMA ReconcileLeavesReadyCards ==
  ASSUME NEW st \in [Cards -> Status], NEW c \in Cards,
         st[c] # "blocked", \A d \in DependsOn[c] : st[d] = "shipped"
  PROVE  Reconcile(st)[c] = st[c]
<1> DEFINE Waiting == {x \in Cards : /\ st[x] \notin {"shipped", "escalated"}
                                     /\ \E d \in DependsOn[x] : st[d] # "shipped"}
<1>1. BlockClosed(Waiting, st, DependsOn)
  BY DEF BlockClosed, ParkedByDependency
<1>2. c \notin Blocked(st)
  BY <1>1 DEF Blocked, BlockedCards
<1>3. QED
  BY <1>2 DEF Reconcile, Reconciled, Blocked

-----------------------------------------------------------------------------
(* Types                                                                   *)

LEMMA TypeInit == Init => TypeOK
<1> SUFFICES ASSUME Init PROVE TypeOK
  OBVIOUS
<1>1. opts \in Options /\ pc = "off" /\ exit \in Reason /\ faults \in Nat
  BY DEF Init, Reason
<1>2. mem \in [Cards -> Status] /\ disk \in [Cards -> Status]
  BY DEF Init, Status
<1>3. /\ stage \in [Cards -> Stage] /\ outcome \in [Cards -> Outcome]
      /\ retries \in [Cards -> 0 .. MaxRetries]
  BY DEF Init, Stage, Outcome, MaxRetries
<1>4. QED
  BY <1>1, <1>2, <1>3 DEF Init, TypeOK

\* A process that ends or is killed leaves a well-typed state behind.
LEMMA TypeDown ==
  ASSUME TypeOK, NEW r \in Reason, Down(r),
         UNCHANGED <<opts, files>>, disk' \in [Cards -> Status], faults' \in Nat
  PROVE  TypeOK'
<1>1. /\ stage' \in [Cards -> Stage] /\ outcome' \in [Cards -> Outcome]
      /\ retries' \in [Cards -> 0 .. MaxRetries] /\ zombies' = {}
  BY DEF Down, NoTurns, Stage, Outcome, MaxRetries
<1>2. QED
  BY <1>1 DEF Down, TypeOK, files

\* The steps of the pass itself keep every variable in its domain.
LEMMA TypePass == TypeOK /\ PassStep => TypeOK'
<1> SUFFICES ASSUME TypeOK, PassStep PROVE TypeOK'
  OBVIOUS
<1> USE DEF TypeOK, MaxRetries
<1>1. CASE Load
  BY <1>1 DEF Load, files, turn
<1>2. CASE LoadRefused
  BY <1>2, TypeDown DEF LoadRefused, Reason
<1>3. CASE Check
  BY <1>3 DEF Check, files, turn
<1>4. CASE FillFull
  BY <1>4 DEF FillFull, files, turn
<1>5. CASE FillDone
  BY <1>5, ReconcileFacts DEF FillDone, files, turn
<1>6. CASE Finish
  <2>1. ExitReason \in Reason
    BY DEF ExitReason, Reason
  <2>2. QED
    BY <1>6, <2>1, TypeDown DEF Finish
<1>7. QED
  BY <1>1, <1>2, <1>3, <1>4, <1>5, <1>6 DEF PassStep

\* So does a selection.
LEMMA TypeSelect ==
  ASSUME TypeOK, NEW c \in Cards, SelectStep(c)
  PROVE  TypeOK'
<1>1. CASE SelectPlanningNeeded(c)
  BY <1>1, ReconcileFacts DEF TypeOK, SelectPlanningNeeded, files, Stage
<1>2. CASE SelectCard(c)
  BY <1>2, ReconcileFacts DEF TypeOK, SelectCard, LaunchStage, files, Stage
<1>3. QED
  BY <1>1, <1>2 DEF SelectStep

\* And every step of a card's turn.
LEMMA TypeTurn ==
  ASSUME TypeOK, NEW c \in Cards, TurnStep(c)
  PROVE  TypeOK'
<1> USE DEF TypeOK, MaxRetries
<1>1. CASE PlanningEscalate(c)
  BY <1>1 DEF PlanningEscalate, Stage
<1>2. CASE PlanningEscalated(c)
  BY <1>2 DEF PlanningEscalated, files, Stage, Outcome, Status
<1>3. CASE SettleParked(c)
  BY <1>3 DEF SettleParked, Settle, files, Stage, Outcome
<1>4. CASE SessionStart(c)
  BY <1>4 DEF SessionStart, files, Status
<1>5. CASE PersistProgress(c)
  BY <1>5 DEF PersistProgress, files, turn
<1>6. CASE Escalate(c)
  BY <1>6 DEF Escalate, Stage
<1>7. CASE Escalated(c)
  BY <1>7 DEF Escalated, Settle, files, Stage, Outcome, Status
<1>8. CASE Ship(c)
  BY <1>8 DEF Ship, files, Stage, Status
<1>9. CASE Shipped(c)
  BY <1>9 DEF Shipped, Settle, Stage, Outcome
<1>10. CASE Retry(c)
  BY <1>10 DEF Retry, files
<1>11. CASE Stopped(c)
  BY <1>11 DEF Stopped, Settle, files, Stage, Outcome
<1>12. CASE Timeout(c)
  BY <1>12 DEF Timeout, Settle, files, Stage, Outcome
<1>13. CASE LateSessionStart(c)
  BY <1>13 DEF LateSessionStart, files, Status
<1>14. CASE PermanentApiError(c)
  BY <1>14 DEF PermanentApiError, Settle, files, Stage, Outcome
<1>15. CASE TurnThrows(c)
  <2>1. CASE Serial
    BY <1>15, <2>1, TypeDown DEF TurnThrows, Reason
  <2>2. CASE ~Serial
    BY <1>15, <2>2 DEF TurnThrows, Settle, files, Stage, Outcome
  <2>3. QED
    BY <2>1, <2>2
<1>16. QED
  BY <1>1, <1>2, <1>3, <1>4, <1>5, <1>6, <1>7, <1>8, <1>9, <1>10, <1>11,
     <1>12, <1>13, <1>14, <1>15 DEF TurnStep

\* And everything the world around the runner does.
LEMMA TypeWorld ==
  ASSUME TypeOK, Crash \/ OperatorStep \/ \E o \in RunOptions : Start(o)
  PROVE  TypeOK'
<1> USE DEF TypeOK, MaxRetries
<1>1. CASE Crash
  BY <1>1, TypeDown DEF Crash, Reason
<1>2. ASSUME NEW o \in RunOptions, Start(o) PROVE TypeOK'
  BY <1>2 DEF Start, files, turn, Reason
<1>3. CASE TouchStop
  BY <1>3 DEF TouchStop, turn
<1>4. CASE RemoveStop
  BY <1>4 DEF RemoveStop, turn
<1>5. ASSUME NEW c \in Cards, ArchiveEscalation(c) PROVE TypeOK'
  BY <1>5 DEF ArchiveEscalation, turn
<1>6. ASSUME NEW c \in Cards, AuthorPlan(c) PROVE TypeOK'
  BY <1>6 DEF AuthorPlan, turn
<1>7. ASSUME NEW c \in Cards, ResetCard(c) PROVE TypeOK'
  BY <1>7 DEF ResetCard, files, turn, Status
<1>8. QED
  BY <1>1, <1>2, <1>3, <1>4, <1>5, <1>6, <1>7 DEF OperatorStep

\* Type correctness: whatever the runner and the world do, the variables stay
\* in their domains; no turn is retried more than MaxRetries times.
THEOREM TypeCorrect == Spec => []TypeOK
<1>1. TypeOK /\ [Next]_vars => TypeOK'
  <2> SUFFICES ASSUME TypeOK, [Next]_vars PROVE TypeOK'
    OBVIOUS
  <2>1. CASE RunnerStep
    BY <2>1, TypePass, TypeSelect, TypeTurn DEF RunnerStep
  <2>2. CASE Crash \/ OperatorStep \/ \E o \in RunOptions : Start(o)
    BY <2>2, TypeWorld
  <2>3. CASE UNCHANGED vars
    BY <2>3 DEF vars, files, turn, TypeOK
  <2>4. QED
    BY <2>1, <2>2, <2>3 DEF Next
<1>2. QED
  BY <1>1, TypeInit, PTL DEF Spec

-----------------------------------------------------------------------------
(* Safety                                                                  *)

LEMMA SafetyInit == Init => SafetyInv
  BY DEF Init, SafetyInv, QuietWhenDown, OutcomeEndsTurn, HoldersAreUnshipped,
         SpanIsAsked, OnlyDerivedStatusUnsaved, InFlightDepsShipped, InFlight,
         EscalationIsAsked, PendingEscalationParks

\* Nothing of a run is left when it ends, and a restart reads what is on disk:
\* the invariant only has to hold of the escalation files.
LEMMA SafetyDown ==
  ASSUME TypeOK, SafetyInv, NEW r, Down(r), UNCHANGED <<opts, files>>,
         disk' \in [Cards -> Status],
         \A c \in Cards : disk'[c] = "escalated" => disk[c] = "escalated"
  PROVE  SafetyInv'
<1>1. /\ zombies' = {} /\ mem' = disk'
      /\ \A c \in Cards : stage'[c] = "idle" /\ outcome'[c] = "none"
  BY DEF Down, NoTurns
<1>2. EscalationIsAsked'
  BY DEF EscalationIsAsked, SafetyInv, files
<1>3. escalations' \subseteq Cards
  BY DEF TypeOK, files
<1>4. QED
  BY <1>1, <1>2, <1>3 DEF SafetyInv, QuietWhenDown, OutcomeEndsTurn,
         HoldersAreUnshipped, SpanIsAsked, OnlyDerivedStatusUnsaved,
         InFlightDepsShipped, InFlight, PendingEscalationParks

\* Steps that only move the pass on, count a retry or touch files nobody's
\* status depends on.
LEMMA SafetyFrame ==
  ASSUME TypeOK, SafetyInv,
         UNCHANGED <<mem, disk, escalations, answered, stage, outcome, zombies>>,
         pc' = pc \/ pc' \notin {"off", "loading"} \/ pc = "off",
         opts' = opts \/ pc = "off"
  PROVE  SafetyInv'
<1> USE DEF SafetyInv, TypeOK
<1>1. QuietWhenDown'
  BY DEF QuietWhenDown
<1>2. OutcomeEndsTurn' /\ SpanIsAsked'
  BY DEF OutcomeEndsTurn, SpanIsAsked
<1>3. HoldersAreUnshipped'
  BY DEF HoldersAreUnshipped
<1>4. /\ OnlyDerivedStatusUnsaved' /\ InFlightDepsShipped'
      /\ EscalationIsAsked' /\ PendingEscalationParks'
  BY DEF QuietWhenDown, OnlyDerivedStatusUnsaved, InFlightDepsShipped, InFlight,
         EscalationIsAsked, PendingEscalationParks
<1>5. QED
  BY <1>1, <1>2, <1>3, <1>4

\* nextCard: the reconciliation of all statuses, and at most new turns of cards
\* that were idle, are not shipped and have all their dependencies shipped.
LEMMA SafetyReconcile ==
  ASSUME TypeOK, SafetyInv,
         UNCHANGED <<disk, escalations, answered, opts, outcome, zombies>>,
         mem' = Reconcile(mem), pc' \notin {"off", "loading"},
         stage' \in [Cards -> Stage],
         \A c \in Cards : stage'[c] # stage[c] =>
           /\ outcome[c] = "none"
           /\ stage'[c] \in {"planning", "parked", "acting"}
           /\ mem'[c] # "shipped"
           /\ DepsShipped(c, mem')
           /\ stage'[c] = "acting" /\ ~opts.includeEscalated => c \notin escalations
  PROVE  SafetyInv'
<1>1. /\ mem' \in [Cards -> Status]
      /\ \A c \in Cards : mem'[c] # mem[c] =>
           /\ mem[c] \in {"staged", "running", "blocked"}
           /\ mem'[c] \in {"staged", "blocked"}
  BY ReconcileFacts DEF TypeOK
<1>2. QuietWhenDown' /\ EscalationIsAsked'
  BY DEF SafetyInv, QuietWhenDown, EscalationIsAsked
<1>3. OutcomeEndsTurn'
  BY DEF SafetyInv, OutcomeEndsTurn
<1>4. HoldersAreUnshipped'
  BY <1>1 DEF SafetyInv, HoldersAreUnshipped, TypeOK
<1>5. SpanIsAsked'
  BY DEF SafetyInv, SpanIsAsked
<1>6. OnlyDerivedStatusUnsaved'
  BY <1>1 DEF SafetyInv, OnlyDerivedStatusUnsaved
<1>7. InFlightDepsShipped'
  <2> SUFFICES ASSUME NEW c \in InFlight', NEW d \in DependsOn[c]
               PROVE  mem'[d] = "shipped" /\ disk'[d] = "shipped"
    BY DEF InFlightDepsShipped
  <2>1. d \in Cards /\ c \in Cards
    BY DEF InFlight
  <2>2. mem'[d] = "shipped"
    BY <1>1, <2>1 DEF SafetyInv, InFlightDepsShipped, InFlight, DepsShipped
  <2>3. QED
    BY <1>6, <2>1, <2>2 DEF OnlyDerivedStatusUnsaved
<1>8. PendingEscalationParks'
  BY DEF SafetyInv, PendingEscalationParks, TypeOK
<1>9. QED
  BY <1>2, <1>3, <1>4, <1>5, <1>6, <1>7, <1>8 DEF SafetyInv

\* The steps of the pass itself.
LEMMA SafetyPass ==
  ASSUME TypeOK, SafetyInv, PassStep
  PROVE  SafetyInv'
<1>1. CASE Load
  <2>1. \A c \in Cards : stage[c] = "idle" /\ outcome[c] = "none"
    BY <1>1 DEF Load, SafetyInv, QuietWhenDown
  <2>2. zombies = {}
    BY <1>1 DEF Load, SafetyInv, QuietWhenDown
  <2>3. EscalationIsAsked'
    BY <1>1 DEF Load, SafetyInv, EscalationIsAsked, files
  <2>4. QED
    BY <1>1, <2>1, <2>2, <2>3 DEF Load, turn, files, TypeOK, SafetyInv, QuietWhenDown,
       OutcomeEndsTurn, HoldersAreUnshipped, SpanIsAsked, OnlyDerivedStatusUnsaved,
       InFlightDepsShipped, InFlight, PendingEscalationParks
<1>2. CASE LoadRefused
  BY <1>2, SafetyDown DEF LoadRefused, TypeOK
<1>3. CASE Check
  BY <1>3, SafetyFrame DEF Check, files, turn
<1>4. CASE FillFull
  BY <1>4, SafetyFrame DEF FillFull, files, turn
<1>5. CASE FillDone
  BY <1>5, SafetyReconcile DEF FillDone, files, turn, TypeOK
<1>6. CASE Finish
  <2>1. \A c \in Cards : disk'[c] = "escalated" => disk[c] = "escalated"
    BY <1>6 DEF Finish, SafetyInv, OnlyDerivedStatusUnsaved
  <2>2. QED
    BY <1>6, <2>1, SafetyDown DEF Finish, TypeOK
<1>7. QED
  BY <1>1, <1>2, <1>3, <1>4, <1>5, <1>6 DEF PassStep

\* A selection: nextCard's answer satisfies what SafetyReconcile asks.
LEMMA SafetySelect ==
  ASSUME TypeOK, SafetyInv, NEW c \in Cards, SelectStep(c)
  PROVE  SafetyInv'
<1>1. IsNext(c, Reconcile(mem)) => Progressable(c, Reconcile(mem))
  BY DEF IsNext
<1>2. CASE SelectPlanningNeeded(c)
  BY <1>1, <1>2, SafetyReconcile
     DEF SelectPlanningNeeded, Progressable, Attempted, TypeOK, Stage, files
<1>3. CASE SelectCard(c)
  BY <1>1, <1>3, SafetyReconcile
     DEF SelectCard, LaunchStage, Progressable, Attempted, TypeOK, Stage, files
<1>4. QED
  BY <1>2, <1>3 DEF SelectStep

\* A write of one card's status and of the whole state file, by a holder of the
\* card, takes no shipped card back and leaves memory and disk equal.
LEMMA StatusWrite ==
  ASSUME TypeOK, SafetyInv, NEW c \in Cards, mem[c] # "shipped",
         NEW v \in Status, mem' = [mem EXCEPT ![c] = v], disk' = mem'
  PROVE  /\ OnlyDerivedStatusUnsaved'
         /\ \A d \in Cards : mem[d] = "shipped" => mem'[d] = "shipped" /\ disk'[d] = "shipped"
         /\ \A d \in Cards \ {c} : mem'[d] = mem[d]
         /\ \A d \in Cards \ {c} : disk'[d] = "escalated" => disk[d] = "escalated"
         /\ mem'[c] = v
  BY DEF TypeOK, SafetyInv, OnlyDerivedStatusUnsaved

\* A turn's step that writes no status and no escalation file: it settles, or it
\* flushes the state.
LEMMA SafetySettle ==
  ASSUME TypeOK, SafetyInv, NEW c \in Cards, NEW result \in Outcome,
         stage[c] \in {"parked", "acting"}, result # "none",
         UNCHANGED <<mem, disk, escalations, answered, opts>>,
         zombies' \in {zombies, zombies \cup {c}},
         Settle(c, result)
  PROVE  SafetyInv'
<1> USE DEF SafetyInv, TypeOK, Settle
<1>1. QuietWhenDown'
  BY DEF QuietWhenDown
<1>2. OutcomeEndsTurn' /\ SpanIsAsked'
  BY DEF OutcomeEndsTurn, SpanIsAsked
<1>3. HoldersAreUnshipped'
  BY DEF HoldersAreUnshipped
<1>4. OnlyDerivedStatusUnsaved' /\ InFlightDepsShipped' /\ EscalationIsAsked'
  BY DEF OnlyDerivedStatusUnsaved, InFlightDepsShipped, InFlight, EscalationIsAsked
<1>5. PendingEscalationParks'
  BY DEF PendingEscalationParks
<1>6. QED
  BY <1>1, <1>2, <1>3, <1>4, <1>5

\* escalateCard's first write: the file appears, the status is still the old one.
LEMMA SafetyEscalationFile ==
  ASSUME TypeOK, SafetyInv, NEW c \in Cards,
         NEW before \in {"planning", "acting"}, stage[c] = before,
         NEW after \in {"parking", "escalating"}, stage' = [stage EXCEPT ![c] = after],
         escalations' = escalations \cup {c}, answered' = answered \ {c},
         UNCHANGED <<pc, mem, disk, opts, outcome, zombies>>
  PROVE  SafetyInv'
<1> USE DEF SafetyInv, TypeOK
<1>1. QuietWhenDown' /\ OutcomeEndsTurn'
  BY DEF QuietWhenDown, OutcomeEndsTurn
<1>2. HoldersAreUnshipped'
  BY DEF HoldersAreUnshipped
<1>3. SpanIsAsked' /\ EscalationIsAsked' /\ PendingEscalationParks'
  BY DEF SpanIsAsked, EscalationIsAsked, PendingEscalationParks
<1>4. OnlyDerivedStatusUnsaved' /\ InFlightDepsShipped'
  BY DEF OnlyDerivedStatusUnsaved, InFlightDepsShipped, InFlight
<1>5. QED
  BY <1>1, <1>2, <1>3, <1>4

\* escalateCard's second write, for a selected and for a worked card.
LEMMA SafetyEscalated ==
  ASSUME TypeOK, SafetyInv, NEW c \in Cards, stage[c] \in {"parking", "escalating"},
         mem' = [mem EXCEPT ![c] = "escalated"], disk' = mem',
         stage' = [stage EXCEPT ![c] = "idle"],
         outcome' = [outcome EXCEPT ![c] = "escalated"],
         pc' = pc \/ pc' \notin {"off", "loading"},
         UNCHANGED <<escalations, answered, opts, zombies>>
  PROVE  SafetyInv'
<1>1. mem[c] # "shipped" /\ "escalated" \in Status
  BY DEF SafetyInv, HoldersAreUnshipped, Status
<1>2. /\ OnlyDerivedStatusUnsaved'
      /\ \A d \in Cards : mem[d] = "shipped" => mem'[d] = "shipped" /\ disk'[d] = "shipped"
      /\ \A d \in Cards \ {c} : mem'[d] = mem[d]
      /\ \A d \in Cards \ {c} : disk'[d] = "escalated" => disk[d] = "escalated"
      /\ mem'[c] = "escalated"
  BY <1>1, StatusWrite
<1> USE DEF SafetyInv, TypeOK
<1>3. QuietWhenDown' /\ OutcomeEndsTurn' /\ SpanIsAsked'
  BY DEF QuietWhenDown, OutcomeEndsTurn, SpanIsAsked
<1>4. HoldersAreUnshipped'
  BY <1>2 DEF HoldersAreUnshipped
<1>5. InFlightDepsShipped'
  BY <1>2 DEF InFlightDepsShipped, InFlight
<1>6. EscalationIsAsked' /\ PendingEscalationParks'
  BY <1>2 DEF EscalationIsAsked, SpanIsAsked, PendingEscalationParks
<1>7. QED
  BY <1>2, <1>3, <1>4, <1>5, <1>6

\* A session start, in time or late.
LEMMA SafetyRunning ==
  ASSUME TypeOK, SafetyInv, NEW c \in Cards, mem[c] # "shipped",
         stage[c] \in {"acting", "idle"},
         mem' = [mem EXCEPT ![c] = "running"], disk' = mem',
         zombies' \in {zombies, zombies \ {c}},
         UNCHANGED <<pc, stage, outcome, escalations, answered, opts>>
  PROVE  SafetyInv'
<1>1. /\ OnlyDerivedStatusUnsaved'
      /\ \A d \in Cards : mem[d] = "shipped" => mem'[d] = "shipped" /\ disk'[d] = "shipped"
      /\ \A d \in Cards \ {c} : mem'[d] = mem[d]
      /\ \A d \in Cards \ {c} : disk'[d] = "escalated" => disk[d] = "escalated"
      /\ mem'[c] = "running"
  BY StatusWrite DEF Status
<1> USE DEF SafetyInv, TypeOK
<1>2. QuietWhenDown' /\ OutcomeEndsTurn' /\ SpanIsAsked'
  BY DEF QuietWhenDown, OutcomeEndsTurn, SpanIsAsked
<1>3. HoldersAreUnshipped'
  BY <1>1 DEF HoldersAreUnshipped
<1>4. InFlightDepsShipped'
  BY <1>1 DEF InFlightDepsShipped, InFlight
<1>5. EscalationIsAsked' /\ PendingEscalationParks'
  BY <1>1 DEF EscalationIsAsked, PendingEscalationParks
<1>6. QED
  BY <1>1, <1>2, <1>3, <1>4, <1>5

\* shipCard's persist.
LEMMA SafetyShip ==
  ASSUME TypeOK, SafetyInv, NEW c \in Cards, Ship(c)
  PROVE  SafetyInv'
<1>1. mem[c] # "shipped" /\ "shipped" \in Status
  BY DEF Ship, SafetyInv, HoldersAreUnshipped, Status
<1>2. /\ OnlyDerivedStatusUnsaved'
      /\ \A d \in Cards : mem[d] = "shipped" => mem'[d] = "shipped" /\ disk'[d] = "shipped"
      /\ \A d \in Cards \ {c} : mem'[d] = mem[d]
      /\ \A d \in Cards \ {c} : disk'[d] = "escalated" => disk[d] = "escalated"
      /\ mem'[c] = "shipped"
  BY <1>1, StatusWrite DEF Ship
<1> USE DEF SafetyInv, TypeOK, Ship, files
<1>3. QuietWhenDown' /\ OutcomeEndsTurn' /\ SpanIsAsked'
  BY DEF QuietWhenDown, OutcomeEndsTurn, SpanIsAsked
<1>4. HoldersAreUnshipped'
  BY <1>2 DEF HoldersAreUnshipped, OutcomeEndsTurn
<1>5. InFlightDepsShipped'
  BY <1>2 DEF InFlightDepsShipped, InFlight
<1>6. EscalationIsAsked' /\ PendingEscalationParks'
  BY <1>2 DEF EscalationIsAsked, PendingEscalationParks
<1>7. QED
  BY <1>2, <1>3, <1>4, <1>5, <1>6

\* shipCard's archive: the card is shipped on disk, so nobody misses the file.
LEMMA SafetyShipped ==
  ASSUME TypeOK, SafetyInv, NEW c \in Cards, Shipped(c)
  PROVE  SafetyInv'
<1> USE DEF SafetyInv, TypeOK, Shipped, Settle, Outcome
<1>1. disk[c] = "shipped" /\ mem[c] = "shipped"
  BY DEF HoldersAreUnshipped, OnlyDerivedStatusUnsaved
<1>2. QuietWhenDown' /\ OutcomeEndsTurn' /\ SpanIsAsked'
  BY DEF QuietWhenDown, OutcomeEndsTurn, SpanIsAsked
<1>3. HoldersAreUnshipped'
  BY DEF HoldersAreUnshipped
<1>4. OnlyDerivedStatusUnsaved' /\ InFlightDepsShipped'
  BY DEF OnlyDerivedStatusUnsaved, InFlightDepsShipped, InFlight
<1>5. EscalationIsAsked' /\ PendingEscalationParks'
  BY <1>1 DEF EscalationIsAsked, PendingEscalationParks
<1>6. QED
  BY <1>2, <1>3, <1>4, <1>5

\* recordPass and the like: memory and disk agree afterwards.
LEMMA SafetyFlush ==
  ASSUME TypeOK, SafetyInv, NEW c \in Cards, PersistProgress(c)
  PROVE  SafetyInv'
<1> USE DEF SafetyInv, TypeOK, PersistProgress, files, turn
<1>1. QuietWhenDown' /\ OutcomeEndsTurn' /\ SpanIsAsked' /\ HoldersAreUnshipped'
  BY DEF QuietWhenDown, OutcomeEndsTurn, SpanIsAsked, HoldersAreUnshipped
<1>2. OnlyDerivedStatusUnsaved' /\ InFlightDepsShipped'
  BY DEF OnlyDerivedStatusUnsaved, InFlightDepsShipped, InFlight
<1>3. EscalationIsAsked' /\ PendingEscalationParks'
  BY DEF EscalationIsAsked, PendingEscalationParks, OnlyDerivedStatusUnsaved
<1>4. QED
  BY <1>1, <1>2, <1>3

\* Every step of a card's turn.
LEMMA SafetyTurn ==
  ASSUME TypeOK, SafetyInv, NEW c \in Cards, TurnStep(c)
  PROVE  SafetyInv'
<1>1. CASE PlanningEscalate(c)
  BY <1>1, SafetyEscalationFile DEF PlanningEscalate
<1>2. CASE PlanningEscalated(c)
  BY <1>2, SafetyEscalated DEF PlanningEscalated, files
<1>3. CASE SettleParked(c)
  BY <1>3, SafetySettle DEF SettleParked, files, Outcome
<1>4. CASE SessionStart(c)
  <2>1. mem[c] # "shipped"
    BY <1>4 DEF SessionStart, SafetyInv, HoldersAreUnshipped
  <2>2. QED
    BY <1>4, <2>1, SafetyRunning DEF SessionStart, files
<1>5. CASE PersistProgress(c)
  BY <1>5, SafetyFlush
<1>6. CASE Escalate(c)
  BY <1>6, SafetyEscalationFile DEF Escalate
<1>7. CASE Escalated(c)
  <2>1. pc' = pc \/ pc' \notin {"off", "loading"}
    BY <1>7 DEF Escalated, Settle
  <2>2. QED
    BY <1>7, <2>1, SafetyEscalated DEF Escalated, Settle, files
<1>8. CASE Ship(c)
  BY <1>8, SafetyShip
<1>9. CASE Shipped(c)
  BY <1>9, SafetyShipped
<1>10. CASE Retry(c)
  BY <1>10, SafetyFrame DEF Retry, files
<1>11. CASE Stopped(c)
  BY <1>11, SafetySettle DEF Stopped, files, Outcome
<1>12. CASE Timeout(c)
  BY <1>12, SafetySettle DEF Timeout, files, Outcome
<1>13. CASE LateSessionStart(c)
  <2>1. mem[c] # "shipped" /\ stage[c] = "idle"
    BY <1>13 DEF LateSessionStart, SafetyInv, HoldersAreUnshipped, OutcomeEndsTurn
  <2>2. QED
    BY <1>13, <2>1, SafetyRunning DEF LateSessionStart, files
<1>14. CASE PermanentApiError(c)
  BY <1>14, SafetySettle DEF PermanentApiError, files, Outcome
<1>15. CASE TurnThrows(c)
  <2>1. CASE Serial
    BY <1>15, <2>1, SafetyDown DEF TurnThrows, TypeOK
  <2>2. CASE ~Serial
    BY <1>15, <2>2, SafetySettle DEF TurnThrows, files, Outcome
  <2>3. QED
    BY <2>1, <2>2
<1>16. QED
  BY <1>1, <1>2, <1>3, <1>4, <1>5, <1>6, <1>7, <1>8, <1>9, <1>10, <1>11,
     <1>12, <1>13, <1>14, <1>15 DEF TurnStep

\* Everything the world around the runner does.
LEMMA SafetyWorld ==
  ASSUME TypeOK, SafetyInv, Crash \/ OperatorStep \/ \E o \in RunOptions : Start(o)
  PROVE  SafetyInv'
<1>1. CASE Crash
  BY <1>1, SafetyDown DEF Crash, TypeOK
<1>2. ASSUME NEW o \in RunOptions, Start(o) PROVE SafetyInv'
  BY <1>2, SafetyFrame DEF Start, files, turn
<1>3. CASE TouchStop
  BY <1>3, SafetyFrame DEF TouchStop, turn
<1>4. CASE RemoveStop
  BY <1>4, SafetyFrame DEF RemoveStop, turn
<1>5. ASSUME NEW c \in Cards, ArchiveEscalation(c) PROVE SafetyInv'
  <2> USE <1>5 DEF SafetyInv, TypeOK, ArchiveEscalation, turn
  <2>1. QuietWhenDown' /\ OutcomeEndsTurn' /\ HoldersAreUnshipped'
    BY DEF QuietWhenDown, OutcomeEndsTurn, HoldersAreUnshipped
  <2>2. OnlyDerivedStatusUnsaved' /\ InFlightDepsShipped'
    BY DEF OnlyDerivedStatusUnsaved, InFlightDepsShipped, InFlight
  <2>3. SpanIsAsked' /\ EscalationIsAsked' /\ PendingEscalationParks'
    BY DEF SpanIsAsked, EscalationIsAsked, PendingEscalationParks
  <2>4. QED
    BY <2>1, <2>2, <2>3
<1>6. ASSUME NEW c \in Cards, AuthorPlan(c) PROVE SafetyInv'
  BY <1>6, SafetyFrame DEF AuthorPlan, turn
<1>7. ASSUME NEW c \in Cards, ResetCard(c) PROVE SafetyInv'
  <2> USE <1>7 DEF SafetyInv, TypeOK, ResetCard, files, turn
  <2>1. zombies = {} /\ \A x \in Cards : stage[x] = "idle" /\ outcome[x] = "none"
    BY DEF QuietWhenDown
  <2>2. EscalationIsAsked' /\ OnlyDerivedStatusUnsaved' /\ SpanIsAsked'
    BY <2>1 DEF EscalationIsAsked, OnlyDerivedStatusUnsaved, SpanIsAsked
  <2>3. QED
    BY <2>1, <2>2 DEF QuietWhenDown, OutcomeEndsTurn, HoldersAreUnshipped,
       InFlightDepsShipped, InFlight, PendingEscalationParks
<1>8. QED
  BY <1>1, <1>2, <1>3, <1>4, <1>5, <1>6, <1>7 DEF OperatorStep

\* The inductive invariant holds in every reachable state.
THEOREM SafetyInvariant == Spec => []SafetyInv
<1>1. TypeOK /\ SafetyInv /\ [Next]_vars => SafetyInv'
  <2> SUFFICES ASSUME TypeOK, SafetyInv, [Next]_vars PROVE SafetyInv'
    OBVIOUS
  <2>1. CASE RunnerStep
    BY <2>1, SafetyPass, SafetySelect, SafetyTurn DEF RunnerStep
  <2>2. CASE Crash \/ OperatorStep \/ \E o \in RunOptions : Start(o)
    BY <2>2, SafetyWorld
  <2>3. CASE UNCHANGED vars
    BY <2>3, SafetyFrame DEF vars, files, turn
  <2>4. QED
    BY <2>1, <2>2, <2>3 DEF Next
<1>2. QED
  BY <1>1, SafetyInit, TypeCorrect, PTL DEF Spec

\* No card is worked on before everything it depends on has shipped and is on
\* disk as shipped, for any dependency graph, pool width and history.
THEOREM DependenciesShipFirst == Spec => []InFlightDepsShipped
<1>1. SafetyInv => InFlightDepsShipped
  BY DEF SafetyInv
<1>2. QED
  BY <1>1, SafetyInvariant, PTL

\* A kill loses nothing but what nextCard derives again.
THEOREM KillLosesNothing == Spec => []OnlyDerivedStatusUnsaved
<1>1. SafetyInv => OnlyDerivedStatusUnsaved
  BY DEF SafetyInv
<1>2. QED
  BY <1>1, SafetyInvariant, PTL

\* Whoever is parked as escalated has been asked about.
THEOREM EscalationsAreAsked == Spec => []EscalationIsAsked
<1>1. SafetyInv => EscalationIsAsked
  BY DEF SafetyInv
<1>2. QED
  BY <1>1, SafetyInvariant, PTL

\* A flag-less run does not work on a card with an unanswered escalation.
THEOREM PendingEscalationsPark == Spec => []PendingEscalationParks
<1>1. SafetyInv => PendingEscalationParks
  BY DEF SafetyInv
<1>2. QED
  BY <1>1, SafetyInvariant, PTL

\* A card is attempted at most once in a run.
THEOREM OutcomesAreFinal == Spec => OutcomeIsFinal
<1> DEFINE Final(c) == outcome[c] # "none" /\ pc' # "off" =>
                         outcome'[c] = outcome[c] /\ stage'[c] = "idle"
<1>1. TypeOK /\ SafetyInv /\ [Next]_vars => [\A c \in Cards : Final(c)]_vars
  <2> SUFFICES ASSUME TypeOK, SafetyInv, Next, NEW c \in Cards,
                      outcome[c] # "none", pc' # "off"
               PROVE  outcome'[c] = outcome[c] /\ stage'[c] = "idle"
    BY DEF vars
  <2>1. stage[c] = "idle"
    BY DEF SafetyInv, OutcomeEndsTurn
  <2>2. CASE PassStep
    BY <2>1, <2>2 DEF PassStep, Load, LoadRefused, Check, FillFull, FillDone,
       Finish, Down, turn
  <2>3. ASSUME NEW x \in Cards, SelectStep(x)
        PROVE  outcome'[c] = outcome[c] /\ stage'[c] = "idle"
    <3>1. Progressable(x, Reconcile(mem))
      BY <2>3 DEF SelectStep, SelectPlanningNeeded, SelectCard, IsNext
    <3>2. x # c
      BY <3>1 DEF Progressable, Attempted
    <3>3. QED
      BY <2>1, <2>3, <3>2 DEF SelectStep, SelectPlanningNeeded, SelectCard, TypeOK
  <2>4. ASSUME NEW x \in Cards, TurnStep(x)
        PROVE  outcome'[c] = outcome[c] /\ stage'[c] = "idle"
    <3>1. CASE LateSessionStart(x)
      BY <2>1, <3>1 DEF LateSessionStart
    <3>2. CASE ~LateSessionStart(x)
      <4>1. x # c
        BY <2>1, <2>4, <3>2 DEF TurnStep, PlanningEscalate, PlanningEscalated,
           SettleParked, SessionStart, PersistProgress, Escalate, Escalated, Ship,
           Shipped, Retry, Stopped, Timeout, PermanentApiError, TurnThrows
      <4>2. QED
        BY <2>1, <2>4, <3>2, <4>1 DEF TurnStep, PlanningEscalate, PlanningEscalated,
           SettleParked, SessionStart, PersistProgress, Escalate, Escalated, Ship,
           Shipped, Retry, Stopped, Timeout, PermanentApiError, TurnThrows, Settle,
           Down, turn, TypeOK
    <3>3. QED
      BY <3>1, <3>2
  <2>5. CASE Crash \/ OperatorStep \/ \E o \in RunOptions : Start(o)
    BY <2>1, <2>5 DEF Crash, Down, OperatorStep, TouchStop, RemoveStop,
       ArchiveEscalation, AuthorPlan, ResetCard, Start, turn
  <2>6. QED
    BY <2>2, <2>3, <2>4, <2>5 DEF Next, RunnerStep
<1>2. QED
  BY <1>1, TypeCorrect, SafetyInvariant, PTL DEF Spec, OutcomeIsFinal

-----------------------------------------------------------------------------
(* The abstract campaign, the budgets and what a finished pass leaves      *)

\* Reconciliation ships and parks nobody, and leaves a block only on a card that
\* waits for one that has not shipped.
LEMMA ReconcileEffect ==
  ASSUME NEW st \in [Cards -> Status]
  PROVE  /\ \A c \in Cards : Reconcile(st)[c] = "shipped" <=> st[c] = "shipped"
         /\ \A c \in Cards : Reconcile(st)[c] = "escalated" <=> st[c] = "escalated"
         /\ \A c \in Cards : Reconcile(st)[c] = "blocked" =>
              \E d \in DependsOn[c] : st[d] # "shipped"
<1> DEFINE Waiting == {c \in Cards : /\ st[c] \notin {"shipped", "escalated"}
                                     /\ \E d \in DependsOn[c] : st[d] # "shipped"}
<1>1. BlockClosed(Waiting, st, DependsOn)
  BY DEF BlockClosed, ParkedByDependency
<1>2. Blocked(st) \subseteq Waiting
  BY <1>1 DEF Blocked, BlockedCards
<1>3. \A c \in Cards : Reconcile(st)[c] = "blocked" => c \in Blocked(st)
  BY DEF Reconcile, Reconciled, Blocked
<1>4. QED
  BY <1>2, <1>3, ReconcileFacts

\* What is shipped in memory is shipped on disk, and the other way round.
LEMMA ShippedAgrees ==
  ASSUME TypeOK, SafetyInv, NEW c \in Cards
  PROVE  /\ mem[c] = "shipped" <=> disk[c] = "shipped"
         /\ mem[c] = "escalated" <=> disk[c] = "escalated"
  BY DEF SafetyInv, OnlyDerivedStatusUnsaved

-----------------------------------------------------------------------------
(* Holders                                                                 *)

\* No card is in flight at first.
LEMMA HoldInit == Init => HoldInv
  BY DEF Init, HoldInv, HoldersAreReady, LateSessionsAreOpen, UnsavedBlockWaits,
         AnswersCloseQuestions, InFlight

\* Nobody holds a card after the end of a run, and a restart reads the disk.
LEMMA HoldDown ==
  ASSUME TypeOK, HoldInv, NEW r, Down(r), UNCHANGED files
  PROVE  HoldInv'
<1>1. zombies' = {} /\ mem' = disk' /\ \A c \in Cards : stage'[c] = "idle"
  BY DEF Down, NoTurns
<1>2. QED
  BY <1>1 DEF HoldInv, HoldersAreReady, LateSessionsAreOpen, UnsavedBlockWaits,
         AnswersCloseQuestions, InFlight, files

\* Steps after which nobody else holds a card, about which nothing was written.
LEMMA HoldFrame ==
  ASSUME TypeOK, SafetyInv, HoldInv,
         UNCHANGED <<mem, disk, escalations, answered>>,
         opts' = opts \/ zombies' = {},
         InFlight' \cup zombies' \subseteq InFlight \cup zombies,
         zombies' \subseteq zombies \cup {c \in Cards : stage[c] = "acting"}
  PROVE  HoldInv'
<1>1. HoldersAreReady' /\ UnsavedBlockWaits' /\ AnswersCloseQuestions'
  BY DEF HoldInv, HoldersAreReady, UnsavedBlockWaits, AnswersCloseQuestions
<1>2. LateSessionsAreOpen'
  BY DEF HoldInv, LateSessionsAreOpen, SafetyInv, PendingEscalationParks
<1>3. QED
  BY <1>1, <1>2 DEF HoldInv

\* nextCard: the reconciliation, and at most new turns of cards that are ready.
LEMMA HoldReconcile ==
  ASSUME TypeOK, SafetyInv, HoldInv,
         UNCHANGED <<disk, escalations, answered, opts, zombies>>,
         mem' = Reconcile(mem),
         \A c \in Cards : stage'[c] # stage[c] =>
           mem'[c] # "blocked" /\ DepsShipped(c, mem')
  PROVE  HoldInv'
<1>1. /\ \A c \in Cards : mem'[c] = "shipped" <=> mem[c] = "shipped"
      /\ \A c \in Cards : mem'[c] = "blocked" => \E d \in DependsOn[c] : mem[d] # "shipped"
  BY ReconcileEffect DEF TypeOK
<1>2. HoldersAreReady'
  <2> SUFFICES ASSUME NEW c \in (InFlight \cup zombies)'
               PROVE  mem'[c] # "blocked" /\ \A d \in DependsOn[c] : mem'[d] = "shipped"
    BY DEF HoldersAreReady
  <2>1. c \in Cards
    BY DEF InFlight, TypeOK
  <2>2. CASE c \in InFlight \cup zombies
    <3>1. mem[c] # "blocked" /\ \A d \in DependsOn[c] : mem[d] = "shipped"
      BY <2>2 DEF HoldInv, HoldersAreReady
    <3>2. mem'[c] = mem[c]
      BY <2>1, <3>1, ReconcileLeavesReadyCards DEF TypeOK
    <3>3. QED
      BY <1>1, <2>1, <3>1, <3>2
  <2>3. CASE c \notin InFlight \cup zombies
    <3>1. stage'[c] # stage[c]
      BY <2>1, <2>3 DEF InFlight
    <3>2. QED
      BY <2>1, <3>1 DEF DepsShipped
  <2>4. QED
    BY <2>2, <2>3
<1>3. UnsavedBlockWaits'
  BY <1>1 DEF UnsavedBlockWaits
<1>4. LateSessionsAreOpen' /\ AnswersCloseQuestions'
  BY DEF HoldInv, LateSessionsAreOpen, AnswersCloseQuestions
<1>5. QED
  BY <1>2, <1>3, <1>4 DEF HoldInv

\* A write of a held card's status, and of the whole state file.
LEMMA HoldWrite ==
  ASSUME TypeOK, SafetyInv, HoldInv, NEW c \in InFlight \cup zombies,
         mem[c] # "shipped", NEW v \in Status, v # "blocked",
         mem' = [mem EXCEPT ![c] = v], disk' = mem',
         UNCHANGED <<escalations, answered, opts>>,
         InFlight' \cup zombies' \subseteq InFlight \cup zombies,
         zombies' \subseteq zombies
  PROVE  HoldInv'
<1>1. c \in Cards
  BY DEF InFlight, TypeOK
<1>2. /\ \A d \in Cards : mem[d] = "shipped" => mem'[d] = "shipped"
      /\ \A d \in Cards : mem'[d] = "blocked" => mem[d] = "blocked"
  BY <1>1 DEF TypeOK
<1>3. HoldersAreReady'
  BY <1>2 DEF HoldInv, HoldersAreReady, InFlight, TypeOK
<1>4. UnsavedBlockWaits' /\ LateSessionsAreOpen' /\ AnswersCloseQuestions'
  BY DEF HoldInv, UnsavedBlockWaits, LateSessionsAreOpen, AnswersCloseQuestions
<1>5. QED
  BY <1>3, <1>4 DEF HoldInv

\* escalateCard's first write.
LEMMA HoldAsk ==
  ASSUME TypeOK, SafetyInv, HoldInv, NEW c \in Cards,
         stage[c] \in {"planning", "acting"},
         NEW after \in {"parking", "escalating"}, stage' = [stage EXCEPT ![c] = after],
         escalations' = escalations \cup {c}, answered' = answered \ {c},
         UNCHANGED <<mem, disk, opts, zombies>>
  PROVE  HoldInv'
<1>1. c \notin zombies /\ c \in InFlight
  BY DEF SafetyInv, OutcomeEndsTurn, InFlight
<1>2. InFlight' \subseteq InFlight
  BY <1>1 DEF InFlight, TypeOK
<1>3. HoldersAreReady' /\ UnsavedBlockWaits' /\ AnswersCloseQuestions'
  BY <1>2 DEF HoldInv, HoldersAreReady, UnsavedBlockWaits, AnswersCloseQuestions
<1>4. LateSessionsAreOpen'
  BY <1>1 DEF HoldInv, LateSessionsAreOpen
<1>5. QED
  BY <1>3, <1>4 DEF HoldInv

\* A turn that settles gives its card up, but for a session that may yet start.
LEMMA HoldSettle ==
  ASSUME TypeOK, SafetyInv, HoldInv, NEW c \in Cards, NEW result,
         stage[c] \in {"parked", "acting"},
         zombies' \subseteq zombies \cup (IF stage[c] = "acting" THEN {c} ELSE {}),
         UNCHANGED <<mem, disk, escalations, answered, opts>>,
         Settle(c, result)
  PROVE  HoldInv'
<1>1. InFlight' = InFlight \ {c} /\ c \in InFlight
  BY DEF InFlight, Settle, TypeOK
<1>2. QED
  BY <1>1, HoldFrame

\* The steps of the pass itself.
LEMMA HoldPass ==
  ASSUME TypeOK, SafetyInv, HoldInv, PassStep
  PROVE  HoldInv'
<1>1. CASE Load
  <2>1. zombies = {} /\ \A c \in Cards : stage[c] = "idle"
    BY <1>1 DEF Load, SafetyInv, QuietWhenDown
  <2>2. QED
    BY <1>1, <2>1 DEF Load, turn, files, HoldInv, HoldersAreReady,
       LateSessionsAreOpen, UnsavedBlockWaits, AnswersCloseQuestions, InFlight
<1>2. CASE LoadRefused
  BY <1>2, HoldDown DEF LoadRefused
<1>3. CASE Check \/ FillFull
  BY <1>3, HoldFrame DEF Check, FillFull, files, turn, InFlight
<1>4. CASE FillDone
  BY <1>4, HoldReconcile DEF FillDone, files, turn
<1>5. CASE Finish
  BY <1>5, HoldDown DEF Finish, files
<1>6. QED
  BY <1>1, <1>2, <1>3, <1>4, <1>5 DEF PassStep

\* A selection takes a card that is ready.
LEMMA HoldSelect ==
  ASSUME TypeOK, SafetyInv, HoldInv, NEW c \in Cards, SelectStep(c)
  PROVE  HoldInv'
<1>1. /\ mem' = Reconcile(mem) /\ Progressable(c, mem')
      /\ UNCHANGED <<disk, files, opts, zombies>>
      /\ \A d \in Cards \ {c} : stage'[d] = stage[d]
  BY DEF SelectStep, SelectPlanningNeeded, SelectCard, IsNext, TypeOK
<1>2. \A d \in Cards : stage'[d] # stage[d] => mem'[d] # "blocked" /\ DepsShipped(d, mem')
  BY <1>1 DEF Progressable
<1>3. QED
  BY <1>1, <1>2, HoldReconcile DEF files

\* Every step of a card's turn.
LEMMA HoldTurn ==
  ASSUME TypeOK, SafetyInv, HoldInv, NEW c \in Cards, TurnStep(c)
  PROVE  HoldInv'
<1>0. /\ "running" \in Status /\ "escalated" \in Status /\ "shipped" \in Status
      /\ stage[c] \in {"planning", "parking", "parked", "acting", "escalating"} =>
           mem[c] # "shipped" /\ c \in InFlight
      /\ c \in zombies => mem[c] # "shipped"
  BY DEF Status, SafetyInv, HoldersAreUnshipped, InFlight
<1>1. CASE PlanningEscalate(c) \/ Escalate(c)
  BY <1>1, HoldAsk DEF PlanningEscalate, Escalate
<1>2. CASE PlanningEscalated(c)
  <2>1. InFlight' \subseteq InFlight
    BY <1>2 DEF PlanningEscalated, InFlight, TypeOK
  <2>2. QED
    BY <1>0, <1>2, <2>1, HoldWrite DEF PlanningEscalated, files
<1>3. CASE SettleParked(c)
  BY <1>3, HoldSettle DEF SettleParked, files
<1>4. CASE SessionStart(c)
  <2>1. InFlight' = InFlight
    BY <1>4 DEF SessionStart, InFlight
  <2>2. QED
    BY <1>0, <1>4, <2>1, HoldWrite DEF SessionStart, files
<1>5. CASE PersistProgress(c)
  BY <1>5 DEF PersistProgress, files, turn, HoldInv, HoldersAreReady, InFlight,
     LateSessionsAreOpen, UnsavedBlockWaits, AnswersCloseQuestions
<1>6. CASE Escalated(c)
  <2>1. InFlight' \subseteq InFlight
    BY <1>6 DEF Escalated, Settle, InFlight, TypeOK
  <2>2. QED
    BY <1>0, <1>6, <2>1, HoldWrite DEF Escalated, files
<1>7. CASE Ship(c)
  <2>1. InFlight' \subseteq InFlight
    BY <1>0, <1>7 DEF Ship, InFlight, TypeOK
  <2>2. QED
    BY <1>0, <1>7, <2>1, HoldWrite DEF Ship, files
<1>8. CASE Shipped(c)
  <2>1. InFlight' \subseteq InFlight /\ escalations' \subseteq escalations
    BY <1>8 DEF Shipped, Settle, InFlight, TypeOK
  <2>2. QED
    BY <1>8, <2>1 DEF Shipped, HoldInv, HoldersAreReady,
       LateSessionsAreOpen, UnsavedBlockWaits, AnswersCloseQuestions
<1>9. CASE Retry(c)
  BY <1>9, HoldFrame DEF Retry, files, InFlight
<1>10. CASE Stopped(c)
  BY <1>10, HoldSettle DEF Stopped, files
<1>11. CASE Timeout(c)
  BY <1>11, HoldSettle DEF Timeout, files
<1>12. CASE LateSessionStart(c)
  <2>1. InFlight' = InFlight
    BY <1>12 DEF LateSessionStart, InFlight
  <2>2. QED
    BY <1>0, <1>12, <2>1, HoldWrite DEF LateSessionStart, files
<1>13. CASE PermanentApiError(c)
  BY <1>13, HoldSettle DEF PermanentApiError, files
<1>14. CASE TurnThrows(c)
  <2>1. CASE Serial
    BY <1>14, <2>1, HoldDown DEF TurnThrows
  <2>2. CASE ~Serial
    BY <1>14, <2>2, HoldSettle DEF TurnThrows, files
  <2>3. QED
    BY <2>1, <2>2
<1>15. QED
  BY <1>1, <1>2, <1>3, <1>4, <1>5, <1>6, <1>7, <1>8, <1>9, <1>10, <1>11,
     <1>12, <1>13, <1>14 DEF TurnStep

\* Everything the world around the runner does.
LEMMA HoldWorld ==
  ASSUME TypeOK, SafetyInv, HoldInv,
         Crash \/ OperatorStep \/ \E o \in RunOptions : Start(o)
  PROVE  HoldInv'
<1>1. CASE Crash
  BY <1>1, HoldDown DEF Crash
<1>2. ASSUME NEW o \in RunOptions, Start(o) PROVE HoldInv'
  <2>1. zombies = {}
    BY <1>2 DEF Start, SafetyInv, QuietWhenDown
  <2>2. QED
    BY <1>2, <2>1, HoldFrame DEF Start, files, turn, InFlight
<1>3. CASE TouchStop \/ RemoveStop
  BY <1>3, HoldFrame DEF TouchStop, RemoveStop, turn, InFlight
<1>4. ASSUME NEW c \in Cards, ArchiveEscalation(c) PROVE HoldInv'
  BY <1>4 DEF ArchiveEscalation, turn, HoldInv, HoldersAreReady, InFlight,
     LateSessionsAreOpen, UnsavedBlockWaits, AnswersCloseQuestions
<1>5. ASSUME NEW c \in Cards, AuthorPlan(c) PROVE HoldInv'
  BY <1>5, HoldFrame DEF AuthorPlan, turn, InFlight
<1>6. ASSUME NEW c \in Cards, ResetCard(c) PROVE HoldInv'
  <2>1. zombies = {} /\ \A x \in Cards : stage[x] = "idle"
    BY <1>6 DEF ResetCard, SafetyInv, QuietWhenDown
  <2>2. QED
    BY <1>6, <2>1 DEF ResetCard, files, turn, HoldInv, HoldersAreReady, InFlight,
       LateSessionsAreOpen, UnsavedBlockWaits, AnswersCloseQuestions
<1>7. QED
  BY <1>1, <1>2, <1>3, <1>4, <1>5, <1>6 DEF OperatorStep

\* Whoever holds a card holds one that is ready, and what is not on disk yet has
\* its reason.
THEOREM HoldersHold == Spec => []HoldInv
<1>1. TypeOK /\ SafetyInv /\ HoldInv /\ [Next]_vars => HoldInv'
  <2> SUFFICES ASSUME TypeOK, SafetyInv, HoldInv, [Next]_vars PROVE HoldInv'
    OBVIOUS
  <2>1. CASE RunnerStep
    BY <2>1, HoldPass, HoldSelect, HoldTurn DEF RunnerStep
  <2>2. CASE Crash \/ OperatorStep \/ \E o \in RunOptions : Start(o)
    BY <2>2, HoldWorld
  <2>3. CASE UNCHANGED vars
    BY <2>3, HoldFrame DEF vars, files, turn, InFlight
  <2>4. QED
    BY <2>1, <2>2, <2>3 DEF Next
<1>2. QED
  BY <1>1, HoldInit, TypeCorrect, SafetyInvariant, PTL DEF Spec
-----------------------------------------------------------------------------
(* Places                                                                  *)

\* The pass is nowhere at first.
LEMMA PlaceInit == Init => PlaceInv
  BY DEF Init, PlaceInv, Planned, Spanned, InFlight

\* A run that ends leaves no place behind.
LEMMA PlaceDown ==
  ASSUME NEW r, Down(r)
  PROVE  PlaceInv'
<1>1. pc' = "off" /\ \A c \in Cards : stage'[c] = "idle"
  BY DEF Down, NoTurns
<1>2. Planned' = {} /\ Spanned' = {}
  BY <1>1 DEF Planned, Spanned
<1>3. QED
  BY <1>1, <1>2 DEF PlaceInv

\* Steps that put nobody into a planning or a span.
LEMMA PlaceFrame ==
  ASSUME PlaceInv, Planned' \subseteq Planned, Spanned' \subseteq Spanned,
         Planned' # {} => pc' = "planning",
         pc' = "fill" => Spanned' = {},
         pc' = "finish" => InFlight' = {}
  PROVE  PlaceInv'
  BY DEF PlaceInv

\* The steps of the pass itself.
LEMMA PlacePass ==
  ASSUME TypeOK, SafetyInv, PlaceInv, PassStep
  PROVE  PlaceInv'
<1>1. CASE Load
  <2>1. \A c \in Cards : stage[c] = "idle"
    BY <1>1 DEF Load, SafetyInv, QuietWhenDown
  <2>2. Planned' = {} /\ Spanned' = {} /\ pc' = "check"
    BY <1>1, <2>1 DEF Load, turn, Planned, Spanned
  <2>3. QED
    BY <2>2 DEF PlaceInv
<1>2. CASE LoadRefused \/ Finish
  BY <1>2, PlaceDown DEF LoadRefused, Finish
<1>3. CASE Check \/ FillFull \/ FillDone
  <2>1. /\ stage' = stage /\ Planned = {}
        /\ pc' \in {"fill", "finish", "wait"}
        /\ pc' = "fill" => ~InSpan
        /\ pc' = "finish" => Active = {}
    BY <1>3 DEF Check, FillFull, FillDone, turn, PlaceInv
  <2>2. Planned' = {} /\ Spanned' = Spanned /\ InFlight' = InFlight
    BY <2>1 DEF Planned, Spanned, InFlight
  <2>3. ~InSpan => Spanned = {}
    BY DEF InSpan, Spanned
  <2>4. Active = {} => InFlight = {}
    BY <2>1 DEF Active, InFlight, Planned, TypeOK, Stage
  <2>5. QED
    BY <2>1, <2>2, <2>3, <2>4, PlaceFrame
<1>4. QED
  BY <1>1, <1>2, <1>3 DEF PassStep

\* A selection starts at most one planning, when there is none.
LEMMA PlaceSelect ==
  ASSUME TypeOK, PlaceInv, NEW c \in Cards, SelectStep(c)
  PROVE  PlaceInv'
<1>1. Planned = {} /\ Spanned = {}
  BY DEF SelectStep, SelectPlanningNeeded, SelectCard, PlaceInv
<1>2. /\ Spanned' = {} /\ Planned' \subseteq {c}
      /\ Planned' # {} => pc' = "planning"
      /\ pc' \in {"planning", "wait", "fill"}
  BY <1>1 DEF SelectStep, SelectPlanningNeeded, SelectCard, LaunchStage, Planned,
     Spanned, TypeOK
<1>3. QED
  BY <1>2 DEF PlaceInv

\* Every step of a card's turn.
LEMMA PlaceTurn ==
  ASSUME TypeOK, SafetyInv, PlaceInv, NEW c \in Cards, TurnStep(c)
  PROVE  PlaceInv'
<1>0. ~InSpan => Spanned = {}
  BY DEF InSpan, Spanned
<1>1. CASE PlanningEscalate(c)
  <2>1. /\ Spanned = {} /\ c \in Planned /\ pc' = "planning"
        /\ Planned' = Planned /\ Spanned' = {c}
    BY <1>0, <1>1 DEF PlanningEscalate, Planned, Spanned, TypeOK
  <2>2. QED
    BY <2>1 DEF PlaceInv
<1>2. CASE PlanningEscalated(c)
  <2>1. /\ c \in Planned /\ c \in Spanned /\ pc' \in {"check", "fill"}
        /\ Planned' = Planned \ {c} /\ Spanned' = Spanned \ {c}
    BY <1>2 DEF PlanningEscalated, Planned, Spanned, TypeOK
  <2>2. Planned' = {} /\ Spanned' = {}
    BY <2>1 DEF PlaceInv
  <2>3. QED
    BY <2>1, <2>2 DEF PlaceInv
<1>3. ASSUME NEW result, Settle(c, result),
             stage[c] \in {"parked", "acting", "escalating", "archiving"}
      PROVE  PlaceInv'
  <2>1. /\ Planned' = Planned /\ Spanned' = Spanned \ {c}
        /\ InFlight # {} /\ pc' \in {pc, "check"} /\ (pc = "planning" => pc' = pc)
    BY <1>3 DEF Settle, Planned, Spanned, InFlight, TypeOK
  <2>2. pc # "finish"
    BY <2>1 DEF PlaceInv
  <2>3. pc' # "finish" /\ (pc' = "fill" => pc = "fill")
    BY <2>1, <2>2
  <2>4. QED
    BY <2>1, <2>3, PlaceFrame DEF PlaceInv
<1>4. CASE SettleParked(c) \/ Stopped(c) \/ Timeout(c) \/ PermanentApiError(c)
  BY <1>3, <1>4 DEF SettleParked, Stopped, Timeout, PermanentApiError
<1>5. CASE Escalated(c) \/ Shipped(c)
  BY <1>3, <1>5 DEF Escalated, Shipped
<1>6. CASE SessionStart(c) \/ PersistProgress(c) \/ Retry(c) \/ LateSessionStart(c)
  <2>1. pc' = pc /\ stage' = stage
    BY <1>6 DEF SessionStart, PersistProgress, Retry, LateSessionStart, turn
  <2>2. Planned' = Planned /\ Spanned' = Spanned /\ InFlight' = InFlight
    BY <2>1 DEF Planned, Spanned, InFlight
  <2>3. QED
    BY <2>1, <2>2 DEF PlaceInv
<1>7. CASE Escalate(c) \/ Ship(c)
  <2>1. /\ pc' = pc /\ pc \in {"check", "planning", "wait"} /\ ~InSpan
        /\ stage[c] = "acting"
        /\ \E s \in {"escalating", "archiving"} : stage' = [stage EXCEPT ![c] = s]
    BY <1>7 DEF Escalate, Ship, CanYield
  <2>2. Planned' = Planned /\ Spanned' = {c}
    BY <1>0, <2>1 DEF Planned, Spanned, TypeOK
  <2>3. QED
    BY <2>1, <2>2 DEF PlaceInv
<1>8. CASE TurnThrows(c)
  BY <1>3, <1>8, PlaceDown DEF TurnThrows
<1>9. QED
  BY <1>1, <1>2, <1>4, <1>5, <1>6, <1>7, <1>8 DEF TurnStep

\* Everything the world around the runner does.
LEMMA PlaceWorld ==
  ASSUME TypeOK, SafetyInv, PlaceInv,
         Crash \/ OperatorStep \/ \E o \in RunOptions : Start(o)
  PROVE  PlaceInv'
<1>1. CASE Crash
  BY <1>1, PlaceDown DEF Crash
<1>2. CASE OperatorStep
  <2>1. pc' = pc /\ stage' = stage
    BY <1>2 DEF OperatorStep, TouchStop, RemoveStop, ArchiveEscalation, AuthorPlan,
       ResetCard, turn
  <2>2. Planned' = Planned /\ Spanned' = Spanned /\ InFlight' = InFlight
    BY <2>1 DEF Planned, Spanned, InFlight
  <2>3. QED
    BY <2>1, <2>2 DEF PlaceInv
<1>3. ASSUME NEW o \in RunOptions, Start(o) PROVE PlaceInv'
  <2>1. \A c \in Cards : stage[c] = "idle"
    BY <1>3 DEF Start, SafetyInv, QuietWhenDown
  <2>2. Planned' = {} /\ Spanned' = {} /\ pc' \in {"off", "loading"}
    BY <1>3, <2>1 DEF Start, turn, Planned, Spanned
  <2>3. QED
    BY <2>2 DEF PlaceInv
<1>4. QED
  BY <1>1, <1>2, <1>3

\* The pass selects and ends only between the plannings and the writes.
THEOREM PlacesHold == Spec => []PlaceInv
<1>1. TypeOK /\ SafetyInv /\ PlaceInv /\ [Next]_vars => PlaceInv'
  <2> SUFFICES ASSUME TypeOK, SafetyInv, PlaceInv, [Next]_vars PROVE PlaceInv'
    OBVIOUS
  <2>1. CASE RunnerStep
    BY <2>1, PlacePass, PlaceSelect, PlaceTurn DEF RunnerStep
  <2>2. CASE Crash \/ OperatorStep \/ \E o \in RunOptions : Start(o)
    BY <2>2, PlaceWorld
  <2>3. CASE UNCHANGED vars
    BY <2>3 DEF vars, turn, PlaceInv, Planned, Spanned, InFlight
  <2>4. QED
    BY <2>1, <2>2, <2>3 DEF Next
<1>2. QED
  BY <1>1, PlaceInit, TypeCorrect, SafetyInvariant, PTL DEF Spec
-----------------------------------------------------------------------------
(* Selections                                                              *)

\* While the pass selects, nothing else of the runner moves.
LEMMA FillStep ==
  ASSUME TypeOK, SafetyInv, PlaceInv, Next, pc = "fill", pc' # "off"
  PROVE  \/ PassStep \/ OperatorStep
         \/ \E c \in Cards : SelectStep(c)
<1>1. ASSUME NEW c \in Cards, TurnStep(c) PROVE FALSE
  <2>1. stage[c] \notin {"parking", "escalating", "archiving"}
    BY DEF PlaceInv, Spanned
  <2>2. ~CanYield
    BY DEF CanYield
  <2>3. QED
    BY <1>1, <2>1, <2>2 DEF TurnStep, PlanningEscalate, PlanningEscalated,
       SettleParked, SessionStart, PersistProgress, Escalate, Escalated, Ship, Shipped,
       Retry, Stopped, Timeout, LateSessionStart, PermanentApiError, TurnThrows
<1>2. ~Crash /\ \A o \in RunOptions : ~Start(o)
  BY DEF Crash, Down, Start
<1>3. QED
  BY <1>1, <1>2 DEF Next, RunnerStep

\* What nextCard rewrites is never the status of a card that a worker holds, or
\* that a session given up on may still write: for any graph and pool.
THEOREM SelectionsLeaveHoldersAlone == Spec => SelectionLeavesInFlightAlone
<1>1. TypeOK /\ SafetyInv /\ HoldInv /\ PlaceInv /\ [Next]_vars =>
        [pc = "fill" /\ pc' # "off" =>
           \A c \in Active \cup zombies : mem'[c] = mem[c]]_vars
  <2> SUFFICES ASSUME TypeOK, SafetyInv, HoldInv, PlaceInv, Next,
                      pc = "fill", pc' # "off", NEW c \in Active \cup zombies
               PROVE  mem'[c] = mem[c]
    BY DEF vars
  <2>1. c \in Cards /\ c \in InFlight \cup zombies
    BY DEF Active, InFlight, TypeOK
  <2>2. Reconcile(mem)[c] = mem[c]
    BY <2>1, ReconcileLeavesReadyCards DEF HoldInv, HoldersAreReady, TypeOK
  <2>3. mem' = mem \/ mem' = Reconcile(mem)
    <3>1. CASE PassStep
      BY <3>1 DEF PassStep, Load, LoadRefused, Check, FillFull, FillDone, Finish
    <3>2. CASE OperatorStep
      BY <3>2 DEF OperatorStep, TouchStop, RemoveStop, ArchiveEscalation, AuthorPlan,
         ResetCard
    <3>3. CASE \E d \in Cards : SelectStep(d)
      BY <3>3 DEF SelectStep, SelectPlanningNeeded, SelectCard
    <3>4. QED
      BY <3>1, <3>2, <3>3, FillStep
  <2>4. QED
    BY <2>2, <2>3
<1>2. QED
  BY <1>1, TypeCorrect, SafetyInvariant, HoldersHold, PlacesHold, PTL
     DEF Spec, SelectionLeavesInFlightAlone

-----------------------------------------------------------------------------
(* The abstract campaign                                                   *)

\* A card in its turn is ready for the abstract campaign, and open unless it is
\* about to ask.
LEMMA HoldersAreReadyOnDisk ==
  ASSUME TypeOK, SafetyInv, HoldInv, NEW c \in Cards
  PROVE  /\ c \in InFlight \cup zombies /\ mem[c] # "shipped" => C!Ready(c)
         /\ stage[c] = "acting" \/ c \in zombies => C!Open(c)
<1>1. ASSUME c \in InFlight \cup zombies, mem[c] # "shipped" PROVE C!Ready(c)
  <2>1. disk[c] # "shipped"
    BY <1>1, ShippedAgrees
  <2>2. \A d \in DependsOn[c] : disk[d] = "shipped"
    BY <1>1, ShippedAgrees DEF HoldInv, HoldersAreReady
  <2>3. QED
    BY <2>1, <2>2 DEF C!Ready
<1>2. stage[c] = "acting" \/ c \in zombies => C!Open(c)
  BY DEF C!Open, SafetyInv, PendingEscalationParks, HoldInv, LateSessionsAreOpen, TypeOK
<1>3. QED
  BY <1>1, <1>2

\* What a write of the whole state file does to cards it is not about.
LEMMA UnsavedIsRederived ==
  ASSUME TypeOK, SafetyInv, HoldInv, NEW c \in Cards, mem[c] # disk[c]
  PROVE  C!Rederives(c, mem[c])
<1>1. mem[c] \in {"staged", "blocked"} /\ disk[c] \in {"staged", "running", "blocked"}
  BY DEF SafetyInv, OnlyDerivedStatusUnsaved
<1>2. CASE mem[c] = "staged"
  BY <1>1, <1>2 DEF C!Rederives
<1>3. CASE mem[c] = "blocked"
  <2>1. PICK d \in DependsOn[c] : mem[d] # "shipped"
    BY <1>3 DEF HoldInv, UnsavedBlockWaits
  <2>2. disk[d] # "shipped"
    BY <2>1, ShippedAgrees
  <2>3. c \notin Working
    BY <1>3 DEF HoldInv, HoldersAreReady, Working, InFlight
  <2>4. QED
    BY <1>1, <1>3, <2>1, <2>2, <2>3 DEF C!Rederives
<1>4. QED
  BY <1>1, <1>2, <1>3

\* A flush is a save.
LEMMA FlushSaves ==
  ASSUME TypeOK, SafetyInv, HoldInv, disk' = mem
  PROVE  C!Save
  BY UnsavedIsRederived DEF C!Save

\* A status and the whole state file.
LEMMA StatusWrites ==
  ASSUME TypeOK, SafetyInv, HoldInv, NEW c \in Cards, NEW v,
         mem' = [mem EXCEPT ![c] = v], disk' = mem'
  PROVE  C!Write(c, v)
<1>1. disk'[c] = v /\ \A d \in Cards \ {c} : disk'[d] = mem[d]
  BY DEF TypeOK
<1>2. QED
  BY <1>1, UnsavedIsRederived DEF C!Write

\* The first states are first states of the abstract campaign.
LEMMA KeptInit == Init => C!Init
<1> SUFFICES ASSUME Init PROVE C!Init
  OBVIOUS
<1>1. Working = {}
  BY DEF Init, Working
<1>2. opts.includeEscalated \in BOOLEAN
  BY DEF Init, Options
<1>3. QED
  BY <1>1, <1>2 DEF Init, C!Init

\* The end of a process, killed or not.
LEMMA KeptDown ==
  ASSUME TypeOK, SafetyInv, HoldInv, NEW r, Down(r), UNCHANGED <<opts, files>>,
         disk' \in {disk, mem}
  PROVE  C!End
<1>1. Working' = {}
  BY DEF Down, NoTurns, Working
<1>2. C!Save
  BY FlushSaves DEF C!Save
<1>3. QED
  BY <1>1, <1>2 DEF C!End, files

\* The steps of the pass.
LEMMA KeptPass ==
  ASSUME TypeOK, SafetyInv, HoldInv, PassStep
  PROVE  C!Next \/ UNCHANGED C!vars
<1>1. CASE Load \/ Check \/ FillFull \/ FillDone
  BY <1>1 DEF Load, Check, FillFull, FillDone, files, turn, Working, C!vars
<1>2. CASE LoadRefused \/ Finish
  <2>1. C!End
    BY <1>2, KeptDown DEF LoadRefused, Finish, files
  <2>2. QED
    BY <2>1 DEF C!Next
<1>3. QED
  BY <1>1, <1>2 DEF PassStep

\* A selection takes a card up, or only says that it will be asked about.
LEMMA KeptSelect ==
  ASSUME TypeOK, SafetyInv, HoldInv, PlaceInv, NEW c \in Cards, SelectStep(c)
  PROVE  C!Next \/ UNCHANGED C!vars
<1>1. Progressable(c, Reconcile(mem))
  BY DEF SelectStep, SelectPlanningNeeded, SelectCard, IsNext
<1>2. stage[c] = "idle"
  BY <1>1 DEF Progressable, Attempted
<1>3. CASE SelectPlanningNeeded(c) \/ (SelectCard(c) /\ LaunchStage(c) = "parked")
  <2>1. Working' = Working
    BY <1>2, <1>3 DEF SelectPlanningNeeded, SelectCard, Working, TypeOK
  <2>2. QED
    BY <1>3, <2>1 DEF SelectPlanningNeeded, SelectCard, files, C!vars
<1>4. CASE SelectCard(c) /\ LaunchStage(c) = "acting"
  <2>1. C!Open(c)
    BY <1>4 DEF LaunchStage, C!Open
  <2>2. mem[c] # "shipped" /\ \A d \in DependsOn[c] : mem[d] = "shipped"
    BY <1>1, ReconcileEffect DEF Progressable, DepsShipped, TypeOK
  <2>3. C!Ready(c)
    BY <2>2, ShippedAgrees DEF C!Ready
  <2>4. Working' = Working \cup {c}
    BY <1>4 DEF SelectCard, Working, TypeOK
  <2>5. C!Take(c)
    BY <1>4, <2>1, <2>3, <2>4 DEF SelectCard, files, C!Take
  <2>6. QED
    BY <2>5 DEF C!Next
<1>5. QED
  BY <1>3, <1>4 DEF SelectStep, LaunchStage

\* A turn that ends with nothing written.
LEMMA KeptSettle ==
  ASSUME TypeOK, SafetyInv, NEW c \in Cards, NEW result, Settle(c, result),
         stage[c] \in {"parked", "acting"},
         zombies' = zombies \/ (stage[c] = "acting" /\ zombies' = zombies \cup {c}),
         UNCHANGED <<disk, escalations, answered, opts>>
  PROVE  C!Next \/ UNCHANGED C!vars
<1>1. Working' = Working \/ (c \in Working /\ Working' = Working \ {c})
  <2>1. c \notin zombies /\ \A d \in Cards \ {c} : stage'[d] = stage[d]
    BY DEF Settle, SafetyInv, OutcomeEndsTurn, TypeOK
  <2>2. stage'[c] = "idle"
    BY DEF Settle, TypeOK
  <2>3. CASE stage[c] = "parked"
    BY <2>1, <2>2, <2>3 DEF Working
  <2>4. CASE stage[c] = "acting" /\ zombies' = zombies
    BY <2>1, <2>2, <2>4 DEF Working
  <2>5. CASE stage[c] = "acting" /\ zombies' = zombies \cup {c}
    BY <2>1, <2>2, <2>5 DEF Working
  <2>6. QED
    BY <2>3, <2>4, <2>5
<1>2. CASE Working' = Working
  BY <1>2 DEF C!vars
<1>3. CASE c \in Working /\ Working' = Working \ {c}
  <2>1. C!Drop(c)
    BY <1>3 DEF C!Drop
  <2>2. QED
    BY <2>1 DEF C!Next
<1>4. QED
  BY <1>1, <1>2, <1>3

\* Every step of a card's turn.
LEMMA KeptTurn ==
  ASSUME TypeOK, SafetyInv, HoldInv, NEW c \in Cards, TurnStep(c)
  PROVE  C!Next \/ UNCHANGED C!vars
<1>0. /\ stage[c] \in {"planning", "parking", "parked", "acting", "escalating"} =>
           C!Ready(c) /\ c \notin zombies
      /\ c \in zombies => C!Ready(c) /\ stage[c] = "idle"
  BY HoldersAreReadyOnDisk DEF SafetyInv, HoldersAreUnshipped, OutcomeEndsTurn, InFlight
<1>1. CASE PlanningEscalate(c) \/ Escalate(c)
  <2>1. C!Ready(c)
    BY <1>0, <1>1 DEF PlanningEscalate, Escalate
  <2>2. Working' = Working
    BY <1>1 DEF PlanningEscalate, Escalate, Working, TypeOK
  <2>3. C!Ask(c)
    BY <1>1, <2>1, <2>2 DEF PlanningEscalate, Escalate, C!Ask
  <2>4. QED
    BY <2>3 DEF C!Next
<1>2. CASE PlanningEscalated(c) \/ Escalated(c)
  <2>1. /\ stage[c] \in {"parking", "escalating"} /\ stage' = [stage EXCEPT ![c] = "idle"]
        /\ mem' = [mem EXCEPT ![c] = "escalated"] /\ disk' = mem'
        /\ UNCHANGED <<escalations, answered, opts, zombies>>
    BY <1>2 DEF PlanningEscalated, Escalated, Settle, files
  <2>2. C!Ready(c) /\ c \in escalations \cup answered
    BY <1>0, <2>1 DEF SafetyInv, SpanIsAsked
  <2>3. C!Write(c, "escalated")
    BY <2>1, StatusWrites
  <2>4. Working' = Working \ {c}
    BY <1>0, <2>1 DEF Working, TypeOK
  <2>5. C!Park(c)
    BY <2>1, <2>2, <2>3, <2>4 DEF C!Park
  <2>6. QED
    BY <2>5 DEF C!Next
<1>3. CASE SettleParked(c) \/ Stopped(c) \/ Timeout(c) \/ PermanentApiError(c)
  BY <1>3, KeptSettle DEF SettleParked, Stopped, Timeout, PermanentApiError, files
<1>4. CASE SessionStart(c) \/ LateSessionStart(c)
  <2>1. /\ mem' = [mem EXCEPT ![c] = "running"] /\ disk' = mem'
        /\ UNCHANGED <<stage, escalations, answered, opts>>
        /\ stage[c] = "acting" \/ c \in zombies
        /\ \/ stage[c] = "acting" /\ zombies' = zombies
           \/ c \in zombies /\ zombies' = zombies \ {c}
    BY <1>4 DEF SessionStart, LateSessionStart, files
  <2>2. C!Ready(c) /\ C!Open(c) /\ c \in Working
    BY <1>0, <2>1, HoldersAreReadyOnDisk DEF Working
  <2>3. C!Write(c, "running")
    BY <2>1, StatusWrites
  <2>4. Working' \in {Working, Working \ {c}}
    BY <1>0, <2>1 DEF Working, TypeOK
  <2>5. C!Begin(c)
    BY <2>1, <2>2, <2>3, <2>4 DEF C!Begin
  <2>6. QED
    BY <2>5 DEF C!Next
<1>5. CASE PersistProgress(c)
  <2>1. C!Save /\ Working' = Working
    BY <1>5, FlushSaves DEF PersistProgress, turn, Working
  <2>2. C!Record
    BY <1>5, <2>1 DEF PersistProgress, files, C!Record
  <2>3. QED
    BY <2>2 DEF C!Next
<1>6. CASE Ship(c)
  <2>1. C!Ready(c) /\ c \in Working
    BY <1>0, <1>6 DEF Ship, Working
  <2>2. C!Write(c, "shipped")
    BY <1>6, StatusWrites DEF Ship
  <2>3. Working' = Working
    BY <1>6 DEF Ship, Working, TypeOK
  <2>4. C!Ship(c)
    BY <1>6, <2>1, <2>2, <2>3 DEF Ship, files, C!Ship
  <2>5. QED
    BY <2>4 DEF C!Next
<1>7. CASE Shipped(c)
  <2>1. disk[c] = "shipped" /\ c \in Working /\ c \notin zombies
    BY <1>7, ShippedAgrees DEF Shipped, SafetyInv, HoldersAreUnshipped, OutcomeEndsTurn,
       Working
  <2>2. Working' = Working \ {c}
    BY <1>7, <2>1 DEF Shipped, Settle, Working, TypeOK
  <2>3. C!Close(c)
    BY <1>7, <2>1, <2>2 DEF Shipped, C!Close
  <2>4. QED
    BY <2>3 DEF C!Next
<1>8. CASE Retry(c)
  BY <1>8 DEF Retry, files, Working, C!vars
<1>9. CASE TurnThrows(c)
  <2>1. CASE Serial
    <3>1. C!End
      BY <1>9, <2>1, KeptDown DEF TurnThrows
    <3>2. QED
      BY <3>1 DEF C!Next
  <2>2. CASE ~Serial
    BY <1>9, <2>2, KeptSettle DEF TurnThrows, files
  <2>3. QED
    BY <2>1, <2>2
<1>10. QED
  BY <1>1, <1>2, <1>3, <1>4, <1>5, <1>6, <1>7, <1>8, <1>9 DEF TurnStep

\* Everything the world around the runner does.
LEMMA KeptWorld ==
  ASSUME TypeOK, SafetyInv, HoldInv,
         Crash \/ OperatorStep \/ \E o \in RunOptions : Start(o)
  PROVE  C!Next \/ UNCHANGED C!vars
<1>0. pc = "off" => Working = {}
  BY DEF SafetyInv, QuietWhenDown, Working
<1>1. CASE Crash
  <2>1. C!End
    BY <1>1, KeptDown DEF Crash
  <2>2. QED
    BY <2>1 DEF C!Next
<1>2. ASSUME NEW o \in RunOptions, Start(o) PROVE C!Next
  <2>1. opts'.includeEscalated \in BOOLEAN
    BY <1>2 DEF Start, Options
  <2>2. Working = {} /\ Working' = {}
    BY <1>0, <1>2 DEF Start, turn, Working
  <2>3. C!Start
    BY <1>2, <2>1, <2>2 DEF Start, files, C!Start
  <2>4. QED
    BY <2>3 DEF C!Next
<1>3. CASE TouchStop \/ RemoveStop \/ \E c \in Cards : AuthorPlan(c)
  BY <1>3 DEF TouchStop, RemoveStop, AuthorPlan, turn, Working, C!vars
<1>4. ASSUME NEW c \in Cards, ArchiveEscalation(c) PROVE C!Next
  <2>1. C!Rule(c)
    BY <1>4 DEF ArchiveEscalation, turn, Working, C!Rule
  <2>2. QED
    BY <2>1 DEF C!Next
<1>5. ASSUME NEW c \in Cards, ResetCard(c) PROVE C!Next
  <2>1. C!Reset(c)
    BY <1>0, <1>5 DEF ResetCard, files, turn, Working, C!Reset
  <2>2. QED
    BY <2>1 DEF C!Next
<1>6. QED
  BY <1>1, <1>2, <1>3, <1>4, <1>5 DEF OperatorStep

\* The runner implements the abstract campaign: whatever its pool, its kills and
\* its late sessions do, questions are asked before a card is parked, open
\* questions park, dependencies ship first and nothing un-ships by itself.
THEOREM CampaignIsKept == Spec => CampaignKept
<1>1. TypeOK /\ SafetyInv /\ HoldInv /\ PlaceInv /\ [Next]_vars => [C!Next]_(C!vars)
  <2> SUFFICES ASSUME TypeOK, SafetyInv, HoldInv, PlaceInv, [Next]_vars
               PROVE  C!Next \/ UNCHANGED C!vars
    OBVIOUS
  <2>1. CASE RunnerStep
    BY <2>1, KeptPass, KeptSelect, KeptTurn DEF RunnerStep
  <2>2. CASE Crash \/ OperatorStep \/ \E o \in RunOptions : Start(o)
    BY <2>2, KeptWorld
  <2>3. CASE UNCHANGED vars
    BY <2>3 DEF vars, files, turn, Working, C!vars
  <2>4. QED
    BY <2>1, <2>2, <2>3 DEF Next
<1>2. QED
  BY <1>1, KeptInit, TypeCorrect, SafetyInvariant, HoldersHold, PlacesHold, PTL
     DEF Spec, CampaignKept, C!Spec
-----------------------------------------------------------------------------
(* Budgets                                                                 *)

\* A subset of a finite set has no more elements than the set.
LEMMA SubsetIsSmaller ==
  ASSUME NEW S, IsFiniteSet(S), NEW T, T \subseteq S
  PROVE  /\ IsFiniteSet(T) /\ Cardinality(T) \in Nat /\ Cardinality(S) \in Nat
         /\ Cardinality(T) <= Cardinality(S)
  BY FS_Subset, FS_CardinalityType

\* One more element adds at most one to the number of elements.
LEMMA OneMoreAtMost ==
  ASSUME NEW S, IsFiniteSet(S), NEW x, NEW T, T \subseteq S \cup {x}
  PROVE  /\ Cardinality(T) \in Nat /\ Cardinality(S) \in Nat
         /\ Cardinality(T) <= Cardinality(S) + 1
<1>0. Cardinality(S) \in Nat
  BY FS_CardinalityType
<1>1. /\ IsFiniteSet(S \cup {x})
      /\ Cardinality(S \cup {x}) \in {Cardinality(S), Cardinality(S) + 1}
  BY FS_AddElement
<1>2. Cardinality(T) \in Nat /\ Cardinality(T) <= Cardinality(S \cup {x})
  BY <1>1, SubsetIsSmaller
<1>3. QED
  BY <1>0, <1>1, <1>2

\* The sets that the budgets count are finite.
LEMMA CountsAreNumbers ==
  ASSUME TypeOK
  PROVE  /\ IsFiniteSet(Worked) /\ IsFiniteSet(InFlight) /\ IsFiniteSet(Active)
         /\ Cardinality(Worked) \in Nat /\ Cardinality(InFlight) \in Nat
         /\ Cardinality(Active) \in Nat
         /\ opts.maxCards \in Nat /\ opts.maxConcurrent \in Nat \ {0}
<1>1. Worked \subseteq Cards /\ InFlight \subseteq Cards /\ Active \subseteq Cards
  BY DEF Worked, InFlight, Active
<1>2. opts.maxCards \in Nat /\ opts.maxConcurrent \in Nat \ {0}
  BY DEF TypeOK, Options
<1>3. QED
  BY <1>1, <1>2, SubsetIsSmaller

\* Steps after which no more cards are worked, in flight or active.
LEMMA BudgetFrame ==
  ASSUME TypeOK, BudgetHolds, opts' = opts,
         pc \notin {"off", "loading"} \/ pc' \in {"off", "loading"},
         Worked' \subseteq Worked, InFlight' \subseteq InFlight, Active' \subseteq Active
  PROVE  BudgetHolds'
<1>1. /\ Cardinality(Worked') \in Nat /\ Cardinality(Worked') <= Cardinality(Worked)
      /\ Cardinality(InFlight') \in Nat /\ Cardinality(InFlight') <= Cardinality(InFlight)
      /\ Cardinality(Active') \in Nat /\ Cardinality(Active') <= Cardinality(Active)
  BY CountsAreNumbers, SubsetIsSmaller
<1>2. QED
  BY <1>1, CountsAreNumbers DEF BudgetHolds

\* A turn that settles moves its card from those in flight to those worked.
LEMMA BudgetSettle ==
  ASSUME TypeOK, SafetyInv, BudgetHolds, NEW c \in Cards, stage[c] # "idle",
         stage' = [stage EXCEPT ![c] = "idle"],
         \A d \in Cards \ {c} : outcome'[d] = outcome[d],
         opts' = opts
  PROVE  BudgetHolds'
<1>1. /\ pc \notin {"off", "loading"}
      /\ Worked' \subseteq Worked \cup {c} /\ InFlight' = InFlight \ {c}
      /\ c \in InFlight /\ Active' \subseteq Active
  BY DEF SafetyInv, QuietWhenDown, Worked, InFlight, Active, TypeOK
<1>2. Cardinality(Worked') \in Nat /\ Cardinality(Worked') <= Cardinality(Worked) + 1
  BY <1>1, CountsAreNumbers, OneMoreAtMost
<1>3. Cardinality(InFlight') = Cardinality(InFlight) - 1
  BY <1>1, CountsAreNumbers, FS_RemoveElement
<1>4. Cardinality(Active') \in Nat /\ Cardinality(Active') <= Cardinality(Active)
  BY <1>1, CountsAreNumbers, SubsetIsSmaller
<1>5. QED
  BY <1>1, <1>2, <1>3, <1>4, CountsAreNumbers DEF BudgetHolds

\* A selection claims a slot, while everybody in flight is active.
LEMMA BudgetSelect ==
  ASSUME TypeOK, SafetyInv, PlaceInv, BudgetHolds, NEW c \in Cards, SelectStep(c)
  PROVE  BudgetHolds'
<1>1. /\ pc = "fill" /\ HasCapacity /\ opts' = opts /\ Worked' = Worked
      /\ \A d \in Cards \ {c} : stage'[d] = stage[d]
  BY DEF SelectStep, SelectPlanningNeeded, SelectCard, TypeOK, Worked
<1>2. InFlight = Active
  BY <1>1 DEF InFlight, Active, PlaceInv, Planned, TypeOK, Stage
<1>3. InFlight' \subseteq InFlight \cup {c} /\ Active' \subseteq Active \cup {c}
  BY <1>1 DEF InFlight, Active
<1>4. /\ Cardinality(InFlight') \in Nat /\ Cardinality(Active') \in Nat
      /\ Cardinality(InFlight') <= Cardinality(InFlight) + 1
      /\ Cardinality(Active') <= Cardinality(Active) + 1
  BY <1>3, CountsAreNumbers, OneMoreAtMost
<1>5. QED
  BY <1>1, <1>2, <1>4, CountsAreNumbers DEF BudgetHolds, HasCapacity

\* Every other step of the runner and of the world.
LEMMA BudgetStep ==
  ASSUME TypeOK, SafetyInv, PlaceInv, BudgetHolds, [Next]_vars
  PROVE  BudgetHolds'
<1>1. CASE Load
  <2>1. Worked' = {} /\ InFlight' = {} /\ Active' = {}
    BY <1>1 DEF Load, turn, SafetyInv, QuietWhenDown, Worked, InFlight, Active
  <2>2. opts'.maxCards \in Nat /\ opts'.maxConcurrent \in Nat
    BY <1>1, CountsAreNumbers DEF Load
  <2>3. QED
    BY <2>1, <2>2, FS_EmptySet DEF BudgetHolds
<1>2. ASSUME NEW r, Down(r) PROVE BudgetHolds'
  BY <1>2 DEF Down, BudgetHolds
<1>3. CASE LoadRefused \/ Finish \/ Crash
  BY <1>2, <1>3 DEF LoadRefused, Finish, Crash
<1>4. CASE Check \/ FillFull \/ FillDone
  BY <1>4, BudgetFrame DEF Check, FillFull, FillDone, turn, Worked, InFlight, Active
<1>5. ASSUME NEW o \in RunOptions, Start(o) PROVE BudgetHolds'
  BY <1>5 DEF Start, BudgetHolds
<1>6. CASE OperatorStep
  <2>1. pc' = pc /\ opts' = opts /\ stage' = stage /\ outcome' = outcome
    BY <1>6 DEF OperatorStep, TouchStop, RemoveStop, ArchiveEscalation, AuthorPlan,
       ResetCard, turn
  <2>2. QED
    BY <2>1, BudgetFrame DEF Worked, InFlight, Active, BudgetHolds
<1>7. ASSUME NEW c \in Cards, SelectStep(c) PROVE BudgetHolds'
  BY <1>7, BudgetSelect
<1>8. ASSUME NEW c \in Cards, TurnStep(c) PROVE BudgetHolds'
  <2>1. CASE \/ PlanningEscalate(c) \/ Escalate(c) \/ Ship(c) \/ SessionStart(c)
             \/ LateSessionStart(c) \/ PersistProgress(c) \/ Retry(c)
    <3>1. /\ pc' = pc /\ opts' = opts /\ outcome' = outcome
          /\ \/ stage' = stage
             \/ stage[c] = "planning" /\ stage' = [stage EXCEPT ![c] = "parking"]
             \/ \E s \in {"escalating", "archiving"} :
                  stage[c] = "acting" /\ stage' = [stage EXCEPT ![c] = s]
      BY <2>1 DEF PlanningEscalate, Escalate, Ship, SessionStart, LateSessionStart,
         PersistProgress, Retry, turn
    <3>2. Worked' = Worked /\ InFlight' = InFlight /\ Active' = Active
      BY <3>1 DEF Worked, InFlight, Active, TypeOK
    <3>3. QED
      BY <3>1, <3>2, BudgetFrame DEF BudgetHolds
  <2>2. CASE \/ PlanningEscalated(c) \/ SettleParked(c) \/ Escalated(c) \/ Shipped(c)
             \/ Stopped(c) \/ Timeout(c) \/ PermanentApiError(c)
    BY <2>2, BudgetSettle DEF PlanningEscalated, SettleParked, Escalated, Shipped,
       Stopped, Timeout, PermanentApiError, Settle, TypeOK
  <2>3. CASE TurnThrows(c)
    BY <1>2, <2>3, BudgetSettle DEF TurnThrows, Settle, TypeOK
  <2>4. QED
    BY <1>8, <2>1, <2>2, <2>3 DEF TurnStep
<1>9. CASE UNCHANGED vars
  <2>1. pc' = pc /\ opts' = opts /\ stage' = stage /\ outcome' = outcome
    BY <1>9 DEF vars, turn
  <2>2. QED
    BY <2>1, BudgetFrame DEF Worked, InFlight, Active, BudgetHolds
<1>10. QED
  BY <1>1, <1>3, <1>4, <1>5, <1>6, <1>7, <1>8, <1>9 DEF Next, RunnerStep, PassStep

\* --max-cards and --max-concurrent hold for any of their values, although the
\* top-up claims a slot before it knows whether the card is work.
THEOREM BudgetsHold == Spec => []BudgetHolds
<1>1. Init => BudgetHolds
  BY DEF Init, BudgetHolds
<1>2. QED
  BY <1>1, BudgetStep, TypeCorrect, SafetyInvariant, PlacesHold, PTL DEF Spec
-----------------------------------------------------------------------------
(* The end of a pass                                                       *)

\* The fixpoint of a reconciled state is the one it was reconciled with.
LEMMA ReconciledBlocks ==
  ASSUME NEW st \in [Cards -> Status]
  PROVE  {c \in Cards : Reconcile(st)[c] = "blocked"} = Blocked(Reconcile(st))
<1>1. {c \in Cards : Reconcile(st)[c] = "blocked"} = Blocked(st)
  BY DEF Reconcile, Reconciled, Blocked, BlockedCards
<1>2. ASSUME NEW S \in SUBSET Cards
      PROVE  BlockClosed(S, Reconcile(st), DependsOn) <=> BlockClosed(S, st, DependsOn)
  BY ReconcileEffect DEF BlockClosed, ParkedByDependency
<1>3. Blocked(Reconcile(st)) = Blocked(st)
  BY <1>2 DEF Blocked, BlockedCards
<1>4. QED
  BY <1>1, <1>3

\* Once the pass is over nothing moves but the world.
LEMMA FinishStep ==
  ASSUME TypeOK, SafetyInv, PlaceInv, Next, pc = "finish", pc' # "off"
  PROVE  UNCHANGED <<mem, outcome, opts, halted>>
<1>1. ASSUME NEW c \in Cards, TurnStep(c) PROVE FALSE
  <2>1. stage[c] = "idle"
    BY DEF PlaceInv, InFlight
  <2>2. ~CanYield
    BY DEF CanYield
  <2>3. QED
    BY <1>1, <2>1, <2>2 DEF TurnStep, PlanningEscalate, PlanningEscalated,
       SettleParked, SessionStart, PersistProgress, Escalate, Escalated, Ship, Shipped,
       Retry, Stopped, Timeout, LateSessionStart, PermanentApiError, TurnThrows
<1>2. ~RunnerStep /\ ~Crash /\ \A o \in RunOptions : ~Start(o)
  BY <1>1 DEF RunnerStep, PassStep, SelectStep, SelectPlanningNeeded, SelectCard,
     Load, LoadRefused, Check, FillFull, FillDone, Finish, Crash, Down, Start
<1>3. OperatorStep
  BY <1>2 DEF Next
<1>4. QED
  BY <1>3 DEF OperatorStep, TouchStop, RemoveStop, ArchiveEscalation, AuthorPlan,
     ResetCard, turn

\* A pass gets to its end by a top-up that is skipped, full, or out of cards.
LEMMA EndOfPass ==
  ASSUME TypeOK, SafetyInv, PlaceInv, Next, pc # "finish", pc' = "finish"
  PROVE  (Check \/ FillFull \/ FillDone) /\ Active = {}
<1>1. ASSUME NEW c \in Cards, SelectStep(c) \/ TurnStep(c) PROVE FALSE
  <2>1. pc' \in {pc, "off", "check", "fill", "wait", "planning"}
    BY <1>1 DEF SelectStep, SelectPlanningNeeded, SelectCard,
       TurnStep, PlanningEscalate, PlanningEscalated,
       SettleParked, SessionStart, PersistProgress, Escalate, Escalated, Ship, Shipped,
       Retry, Stopped, Timeout, LateSessionStart, PermanentApiError, TurnThrows,
       Settle, Down
  <2>2. QED
    BY <2>1
<1>2. PassStep
  BY <1>1 DEF Next, RunnerStep, Crash, Down, Start, OperatorStep, TouchStop, RemoveStop,
     ArchiveEscalation, AuthorPlan, ResetCard
<1>3. QED
  BY <1>2 DEF PassStep, Load, LoadRefused, Check, FillFull, FillDone, Finish, Down

\* A pass that has run out computes blocked anew, and nothing changes it before the run ends.
LEMMA ExactStep ==
  ASSUME TypeOK, SafetyInv, PlaceInv, BlockedIsExact, [Next]_vars
  PROVE  BlockedIsExact'
<1> SUFFICES ASSUME RanOut'
             PROVE  {c \in Cards : mem'[c] = "blocked"} = Blocked(mem')
  BY DEF BlockedIsExact, Blocked, BlockedCards, BlockClosed, ParkedByDependency
<1>0. pc' = "finish" /\ ~halted' /\ ~PermanentApiErrorSeen'
      /\ Cardinality(Worked') < opts'.maxCards
  BY DEF RanOut
<1>1. CASE UNCHANGED <<pc, mem, outcome, opts, halted>>
  <2>1. RanOut
    BY <1>0, <1>1 DEF RanOut, PermanentApiErrorSeen, Worked
  <2>2. QED
    BY <1>1, <2>1 DEF BlockedIsExact
<1>2. CASE Next /\ pc = "finish"
  BY <1>0, <1>1, <1>2, FinishStep
<1>3. CASE Next /\ pc # "finish"
  <2>0. (Check \/ FillFull \/ FillDone) /\ Active = {}
    BY <1>0, <1>3, EndOfPass
  <2>1. CASE Check
    <3>1. (stop \/ PermanentApiErrorSeen) /\ halted' = (halted \/ stop)
          /\ outcome' = outcome
      BY <1>0, <2>1 DEF Check, turn
    <3>2. PermanentApiErrorSeen' <=> PermanentApiErrorSeen
      BY <3>1 DEF PermanentApiErrorSeen
    <3>3. QED
      BY <1>0, <3>1, <3>2
  <2>2. CASE FillFull
    <3>1. ~HasCapacity /\ Worked' = Worked /\ opts' = opts
      BY <2>2 DEF FillFull, turn, Worked
    <3>2. Cardinality(Active) = 0
      BY <2>0, FS_EmptySet
    <3>3. QED
      BY <1>0, <3>1, <3>2, CountsAreNumbers DEF HasCapacity
  <2>3. CASE FillDone
    BY <2>3, ReconciledBlocks DEF FillDone, TypeOK
  <2>4. QED
    BY <2>0, <2>1, <2>2, <2>3
<1>4. QED
  BY <1>1, <1>2, <1>3 DEF vars, turn

\* A pass that runs out of cards leaves "blocked" exact, whatever was stored and
\* whoever shipped or escalated while it was selecting.
THEOREM BlockedStaysExact == Spec => []BlockedIsExact
<1>1. Init => BlockedIsExact
  BY DEF Init, BlockedIsExact, RanOut
<1>2. QED
  BY <1>1, ExactStep, TypeCorrect, SafetyInvariant, PlacesHold, PTL DEF Spec

\* If a card of the sequence is progressable, nextCard returns one.
LEMMA FirstProgressable ==
  ASSUME NEW st, NEW i \in DOMAIN Sequence, Progressable(Sequence[i], st)
  PROVE  \E c \in Cards : IsNext(c, st)
<1> DEFINE T == {j \in DOMAIN Sequence : Progressable(Sequence[j], st)}
<1>1. T \subseteq Nat /\ T # {}
  OBVIOUS
<1>2. PICK x \in T : \A y \in T : ~(<<y, x>> \in OpToRel(<, Nat))
  BY <1>1, NatLessThanWellFounded, WFMin
<1>3. x \in Nat /\ x \in 1 .. Len(Sequence)
  OBVIOUS
<1>4. ASSUME NEW j \in 1 .. x - 1 PROVE ~Progressable(Sequence[j], st)
  <2>1. j \in Nat /\ j < x /\ j \in DOMAIN Sequence
    BY <1>3
  <2>2. <<j, x>> \in OpToRel(<, Nat)
    BY <1>3, <2>1 DEF OpToRel
  <2>3. QED
    BY <1>2, <2>1, <2>2
<1>5. Sequence[x] \in Cards
  OBVIOUS
<1>6. IsNext(Sequence[x], st)
  BY <1>4 DEF IsNext
<1>7. QED
  BY <1>5, <1>6

\* A pass that runs out of cards has attempted, or may not attempt, every card it
\* was asked for: for any graph, sequence and history of parks and answers.
THEOREM NobodyIsForgotten == Spec => NobodyForgotten
<1>1. TypeOK /\ SafetyInv /\ HoldInv /\ PlaceInv /\ [Next]_vars =>
        [pc = "fill" /\ pc' = "finish" /\ HasCapacity =>
           \A c \in Requested \ Attempted :
             \/ mem'[c] = "shipped"
             \/ mem'[c] = "escalated" /\ c \notin answered /\ ~opts.includeEscalated
             \/ \E d \in DependsOn[c] : mem'[d] # "shipped"]_vars
  <2> SUFFICES ASSUME TypeOK, SafetyInv, HoldInv, PlaceInv, Next,
                      pc = "fill", pc' = "finish", HasCapacity,
                      NEW c \in Requested \ Attempted
               PROVE  \/ mem'[c] = "shipped"
                      \/ mem'[c] = "escalated" /\ c \notin answered /\ ~opts.includeEscalated
                      \/ \E d \in DependsOn[c] : mem'[d] # "shipped"
    BY DEF vars
  <2>1. FillDone
    BY EndOfPass DEF Check, FillFull
  <2>2. PICK i \in DOMAIN Sequence : Sequence[i] = c
    BY DEF Requested, InSequence
  <2>3. c \in Cards
    BY <2>2
  <2>4. mem' = Reconcile(mem) /\ ~Progressable(c, mem')
    BY <2>1, <2>2, FirstProgressable DEF FillDone
  <2>5. CASE mem'[c] = "blocked"
    <3>1. PICK d \in DependsOn[c] : mem[d] # "shipped"
      BY <2>3, <2>4, <2>5, ReconcileEffect DEF TypeOK
    <3>2. mem'[d] # "shipped"
      BY <2>3, <2>4, <3>1, ReconcileEffect DEF TypeOK
    <3>3. QED
      BY <3>1, <3>2
  <2>6. CASE StillParked(c, mem')
    BY <2>6 DEF StillParked, HoldInv, AnswersCloseQuestions
  <2>7. QED
    BY <2>4, <2>5, <2>6 DEF Progressable, DepsShipped
<1>2. QED
  BY <1>1, TypeCorrect, SafetyInvariant, HoldersHold, PlacesHold, PTL
     DEF Spec, NobodyForgotten
=============================================================================
