--------------------------- MODULE MCCampaignPass ---------------------------
(***************************************************************************)
(* Instances of CampaignPass for TLC.                                      *)
(***************************************************************************)
EXTENDS CampaignPass, TLC

CONSTANTS a, b, c   \* card ids

Run(escalated, cards, max, width) ==
  [includeEscalated |-> escalated, cards |-> cards,
   maxCards |-> max, maxConcurrent |-> width]

\* Three cards, against the dependency order, which nextCard must not mind: b
\* waits for a; c is independent and competes for the second slot.
MCSequence == <<c, b, a>>
ForkDeps == (a :> {}) @@ (b :> {a}) @@ (c :> {})

\* A pool of two over everything, one with a budget of two, and a serial run
\* that takes two escalated cards up again.
SafetyOptions == {Run(FALSE, {}, 3, 2), Run(TRUE, {a, b}, 3, 1), Run(FALSE, {b, c}, 1, 2)}

\* Two cards, for the temporal properties: a plain pool and a serial re-trigger.
PairSequence == <<b, a>>
PairDeps == (a :> {}) @@ (b :> {a})
PairOptions == {Run(FALSE, {}, 2, 2), Run(TRUE, {b}, 1, 1)}
=============================================================================
