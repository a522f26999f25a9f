---------------------------- MODULE BlockedLoop ----------------------------
(***************************************************************************)
(* The first half of one nextCard call (core/state.ts): the loop of        *)
(* computeBlockedCardIds, card by card, and reconcileBlockedStatuses.      *)
(* The code claims that the outcome depends neither on the order of the    *)
(* keys of "cards" nor on statuses stored by earlier calls.                *)
(***************************************************************************)
EXTENDS Naturals, Sequences, DependencyGraph

VARIABLES
  deps,     \* dependsOn of every card
  order,    \* Object.entries(cards), the key order of the state file
  status,   \* status of every card
  blocked,  \* the growing result
  changed,  \* the loop's flag
  next,     \* the next card of the current pass
  at        \* where the call is: "while", "for", "reconcile", "done"

loopVars  == <<deps, order, status, blocked, changed, next, at>>
input == <<deps, order, status>>

Orders == {s \in [1 .. Cardinality(Cards) -> Cards] :
             \A c \in Cards : \E n \in DOMAIN s : s[n] = c}

LoopInit ==
  /\ deps \in [Cards -> SUBSET Cards] /\ Acyclic(deps)
  /\ order \in Orders
  /\ status \in [Cards -> Status]
  /\ blocked = {} /\ changed = TRUE /\ next = 1 /\ at = "while"

\* while (changed) { changed = false; for ...
NewPass ==
  /\ at = "while" /\ changed
  /\ changed' = FALSE /\ next' = 1 /\ at' = "for"
  /\ UNCHANGED <<input, blocked>>

\* Mutant of Visit: the cards blocked so far do not count as parked.
VisitDirect ==
  /\ at = "for" /\ next \in DOMAIN order
  /\ next' = next + 1
  /\ IF order[next] \notin blocked /\ ParkedByDependency(order[next], {}, status, deps)
       THEN blocked' = blocked \cup {order[next]} /\ changed' = TRUE
       ELSE UNCHANGED <<blocked, changed>>
  /\ UNCHANGED <<input, at>>

\* Mutant of Visit: a card already in the result is added again.
VisitAgain ==
  /\ at = "for" /\ next \in DOMAIN order
  /\ next' = next + 1
  /\ IF ParkedByDependency(order[next], blocked, status, deps)
       THEN blocked' = blocked \cup {order[next]} /\ changed' = TRUE
       ELSE UNCHANGED <<blocked, changed>>
  /\ UNCHANGED <<input, at>>

\* One card of the pass: added if it is not in yet and parked by a dependency.
Visit ==
  /\ at = "for" /\ next \in DOMAIN order
  /\ next' = next + 1
  /\ IF order[next] \notin blocked /\ ParkedByDependency(order[next], blocked, status, deps)
       THEN blocked' = blocked \cup {order[next]} /\ changed' = TRUE
       ELSE UNCHANGED <<blocked, changed>>
  /\ UNCHANGED <<input, at>>

EndPass ==
  /\ at = "for" /\ next \notin DOMAIN order
  /\ at' = "while"
  /\ UNCHANGED <<input, blocked, changed, next>>

\* A pass that added nothing is the last.
LoopEnds ==
  /\ at = "while" /\ ~changed
  /\ at' = "reconcile"
  /\ UNCHANGED <<input, blocked, changed, next>>

\* Mutant of ReconcileStatuses: a stale "blocked" is never cleared.
ReconcileSets ==
  /\ at = "reconcile"
  /\ status' = [c \in Cards |-> IF c \in blocked THEN "blocked" ELSE status[c]]
  /\ at' = "done"
  /\ UNCHANGED <<deps, order, blocked, changed, next>>

\* reconcileBlockedStatuses with the result.
ReconcileStatuses ==
  /\ at = "reconcile"
  /\ status' = [c \in Cards |->
                  IF c \in blocked THEN "blocked"
                  ELSE IF status[c] = "blocked" THEN "staged"
                  ELSE status[c]]
  /\ at' = "done"
  /\ UNCHANGED <<deps, order, blocked, changed, next>>

LoopNext == NewPass \/ Visit \/ EndPass \/ LoopEnds \/ ReconcileStatuses

LoopSpec     == LoopInit /\ [][LoopNext]_loopVars
FairLoopSpec == LoopSpec /\ WF_loopVars(LoopNext)

-----------------------------------------------------------------------------
\* Every variable stays in its domain; the walk never leaves the key order.
LoopTypeOK ==
  /\ deps \in [Cards -> SUBSET Cards]
  /\ order \in Orders
  /\ status \in [Cards -> Status]
  /\ blocked \subseteq Cards
  /\ changed \in BOOLEAN
  /\ next \in 1 .. Cardinality(Cards) + 1
  /\ at \in {"while", "for", "reconcile", "done"}

\* The loop ends with the dependency fixpoint, whatever the key order and
\* whatever "blocked" an earlier call stored.
LoopComputesFixpoint == at = "reconcile" => blocked = BlockedCards(status, deps)

\* After the call the statuses are coherent: "blocked" is the fixpoint of the
\* statuses as they now are, so a second call would change nothing.
ReconciledIsStable ==
  at = "done" => {c \in Cards : status[c] = "blocked"} = BlockedCards(status, deps)

\* The loop's invariant: nothing is blocked without need, and while the flag is
\* down every card visited in this pass is where it has to be.
LoopInvariant ==
  /\ at # "done" => blocked \subseteq BlockedCards(status, deps)
  /\ \A n \in DOMAIN order :
       /\ at = "reconcile" \/ (~changed /\ (at = "while" \/ (at = "for" /\ n < next)))
       /\ ParkedByDependency(order[n], blocked, status, deps)
       => order[n] \in blocked

\* The loop ends: the flag is set only by a card that was not in yet.
LoopTerminates == <>(at = "done")
=============================================================================
