-------------------------- MODULE DependencyGraph --------------------------
(***************************************************************************)
(* The cards of a campaign, their statuses and their dependsOn graph: what *)
(* core/state.ts derives from them. BlockedLoop and its proofs show that   *)
(* the loop of computeBlockedCardIds computes BlockedCards.                *)
(***************************************************************************)
EXTENDS FiniteSets

CONSTANT Cards   \* the ids under "cards" in campaign-state.json

ASSUME CardsAssumption == IsFiniteSet(Cards)

Status == {"staged", "running", "shipped", "escalated", "blocked"}

\* assertDependsOnReferentialIntegrity and assertNoDependsOnCycles: a graph
\* parseState accepts, in which every set of cards has one to start with.
Acyclic(deps) ==
  \A S \in (SUBSET Cards) \ {{}} : \E c \in S : deps[c] \cap S = {}

\* Card c has to join S: it is not parked itself, but waits for a card that is
\* escalated or in S.
ParkedByDependency(c, S, st, deps) ==
  /\ st[c] \notin {"shipped", "escalated"}
  /\ \E d \in deps[c] : st[d] = "escalated" \/ d \in S

BlockClosed(S, st, deps) ==
  \A c \in Cards : ParkedByDependency(c, S, st, deps) => c \in S

\* The least set closed under that rule; a stored "blocked" plays no part.
BlockedCards(st, deps) ==
  {c \in Cards : \A S \in SUBSET Cards : BlockClosed(S, st, deps) => c \in S}

\* reconcileBlockedStatuses: "blocked" exactly for that set, and whoever leaves
\* it is staged again.
Reconciled(st, deps) ==
  [c \in Cards |-> IF c \in BlockedCards(st, deps) THEN "blocked"
                   ELSE IF st[c] = "blocked" THEN "staged"
                   ELSE st[c]]
=============================================================================
