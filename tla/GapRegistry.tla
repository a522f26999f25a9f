---------------------------- MODULE GapRegistry ----------------------------
(***************************************************************************)
(* The registry of harness gaps (plugins/tribe/scripts/gaps). It is a file *)
(* of the repository itself: each card's gate (gap-gate.ts) appends to it  *)
(* in the card's worktree, the closing pass appends the rulings            *)
(* (gap-rule.ts) and creates debt entities in a worktree of its own, and   *)
(* merges bring the lines to the default branch, where the issues for the  *)
(* debts are created (debt-backfill.ts). A tree is what one commit holds   *)
(* of the registry, of the code and of the debt entities.                  *)
(* A hit is a line that a grep finds; two such lines of one file would be  *)
(* two files here.                                                         *)
(***************************************************************************)
EXTENDS Integers, FiniteSets, SequencesExt

CONSTANTS
  Cards,       \* cards, each worked on in a branch of its own
  Closing,     \* the branch of the closing governance PR
  Files,       \* the files of the repository
  Patterns,    \* what a fingerprint or a check can be: one grep each
  Category,    \* Category[p]: the category a Tracker reports p under
  Paths,       \* Paths[p]: the files p's grep ranges over
  FirstTrees,  \* the trees the default branch may have at first
  Commits,     \* bound: the contents [code, files] a card's commit may leave
  MaxEdits,    \* bound: commits of all cards
  MaxRounds,   \* bound: Tracker reports of a card
  MaxRulings,  \* bound: closing branches
  MaxFaults,   \* bound: tools killed, gates run again on a head they have judged,
               \* greps that time out and issues that could not be created
  MaxFills     \* bound: runs of the backfill

ASSUME RegistryAssumption ==
  /\ Closing \notin Cards /\ Patterns # {} /\ IsFiniteSet(Patterns) /\ IsFiniteSet(Files)
  /\ Paths \in [Patterns -> SUBSET Files] /\ DOMAIN Category = Patterns
  /\ \A commit \in Commits :
       /\ commit.files \subseteq Files /\ commit.code \subseteq Patterns \X Files
       /\ \A h \in commit.code : h[2] \in Paths[h[1]] \cap commit.files
  /\ MaxEdits \in Nat /\ MaxRounds \in Nat /\ MaxRulings \in Nat
  /\ MaxFaults \in Nat /\ MaxFills \in Nat

Branches == Cards \cup {Closing}

VARIABLES
  master,   \* the tree of the default branch
  branch,   \* the branches: stage, base, head, the worktree's own registry and
            \* debts, and the exit of the gate that judged the head
  reports,  \* each card's Tracker reports: how many, and what they name, in the
            \* order of the files' names
  openIds,  \* open_ids in each card's <card>-gap-gate.json
  ruling,   \* the debt ruling under way: its gap, or NoGap
  issues,   \* the issues of each debt entity
  fills,    \* the backfills under way: what each has still to create
  count,    \* edits, closing branches, faults and backfills so far
  history   \* unguarded: patterns a merge increased with no open entity in its
            \* tree; removed: patterns both sides of a merge removed one hit of;
            \* reworked: cards edited or rebased after a Tracker's finding; missed:
            \* cards a gate of which had a grep fail; overlap: two backfills at once

vars == <<master, branch, reports, openIds, ruling, issues, fills, count, history>>

NoGap    == 0
NoDebt   == [status |-> "none", gap |-> NoGap, baseline |-> 0]
NoBranch == [st |-> "none", registry |-> <<>>]

Init ==
  /\ master \in FirstTrees
  /\ branch = [t \in Branches |-> NoBranch]
  /\ reports = [c \in Cards |-> [rounds |-> 0, found |-> <<>>]]
  /\ openIds = [c \in Cards |-> {}]
  /\ ruling = NoGap
  /\ issues = [p \in Patterns |-> 0]
  /\ fills = <<>>
  /\ count = [edits |-> 0, rulings |-> 0, faults |-> 0, fills |-> 0]
  /\ history = [unguarded |-> {}, removed |-> {}, reworked |-> {}, missed |-> {},
                overlap |-> FALSE]

Counted(what, max) == count[what] < max /\ count' = [count EXCEPT ![what] = @ + 1]
Hits(code, p) == Cardinality({h \in code : h[1] = p})

\* git diff --name-only: the files that differ, deleted ones too.
Changed(old, new) ==
  {f \in Files : \/ (f \in old.files) # (f \in new.files)
                 \/ \E p \in Patterns : (<<p, f>> \in old.code) # (<<p, f>> \in new.code)}

Touched(t) == Changed(branch[t].base, branch[t].head)
-----------------------------------------------------------------------------
(* ledger.ts and paths.ts                                                  *)

Opened(id, p)     == [id |-> id, event |-> "opened", what |-> p]
Seen(id)          == [id |-> id, event |-> "seen", what |-> "none"]
Ruled(id, how)    == [id |-> id, event |-> "ruled", what |-> how]

Ids(registry) == {e.id : e \in ToSet(registry)}

\* Mutant of foldToLatestStatus: the first event of an id is its status.
foldToFirstStatus(registry, id) ==
  registry[Min({i \in DOMAIN registry : registry[i].id = id})]

foldToLatestStatus(registry, id) ==
  registry[Max({i \in DOMAIN registry : registry[i].id = id})]

IsOpen(registry, id) ==
  id \in Ids(registry) /\ foldToLatestStatus(registry, id).event # "ruled"

\* Mutant of mintNextId: an id is free again once its gap is ruled.
mintNextOpenId(registry) ==
  1 + Max({id \in Ids(registry) : IsOpen(registry, id)} \cup {0})

mintNextId(registry) == 1 + Max(Ids(registry) \cup {0})

Alike(p, q) == Category[p] = Category[q] /\ Paths[p] \cap Paths[q] # {}
-----------------------------------------------------------------------------
(* gap-candidates.ts and gap-reconcile.ts                                  *)

\* The first of several alike: the places of the candidates that are kept.
dedupeCandidates(found) ==
  LET first[i \in DOMAIN found] ==
        ~\E j \in 1 .. i - 1 : first[j] /\ Alike(found[i], found[j])
  IN  {i \in DOMAIN found : first[i]}

\* The places of a set of them, in their order.
InOrder(places) ==
  [k \in 1 .. Cardinality(places) |->
     CHOOSE i \in places : Cardinality({j \in places : j < i}) = k - 1]

\* The open entries whose grep finds something in the changed files, and ends with
\* exit code 0, are the same gaps again; a candidate is new when none of those is
\* like it.
reconcile(registry, code, changed, failing, found) ==
  LET fired == {i \in DOMAIN registry :
                  /\ registry[i].event = "opened" /\ IsOpen(registry, registry[i].id)
                  /\ registry[i].what \notin failing
                  /\ \E f \in changed \cap Paths[registry[i].what] :
                       <<registry[i].what, f>> \in code}
      new   == {i \in dedupeCandidates(found) :
                  ~\E e \in fired : Alike(registry[e].what, found[i])}
      next  == mintNextId(registry)
  IN  [appended |-> [k \in DOMAIN InOrder(fired) |-> Seen(registry[InOrder(fired)[k]].id)]
                    \o [k \in DOMAIN InOrder(new) |->
                          Opened(next + k - 1, found[InOrder(new)[k]])],
       matched  |-> {registry[i].id : i \in fired},
       minted   |-> next .. next + Cardinality(new) - 1]
-----------------------------------------------------------------------------
(* debt-count.ts                                                           *)

\* listDebtEntities: the entities of a tree whose checks are run.
OpenDebts(tree) == {p \in Patterns : tree.debts[p].status = "open"}

\* Mutant of MoreDebt: the two trees are swapped.
LessDebt(base, head) == \E p \in OpenDebts(head) : Hits(base.code, p) > Hits(head.code, p)

\* diffDebt, over the entities of the head: some check counts more than before.
MoreDebt(base, head) == \E p \in OpenDebts(head) : Hits(head.code, p) > Hits(base.code, p)
-----------------------------------------------------------------------------
(* A card's branch                                                         *)

Fork(t) ==
  /\ branch[t].st = "none"
  /\ IF t = Closing THEN Counted("rulings", MaxRulings) ELSE UNCHANGED count
  /\ branch' = [branch EXCEPT ![t] =
       [st |-> "work", base |-> master, head |-> master, registry |-> master.registry,
        debts |-> master.debts, gate |-> "none"]]
  /\ UNCHANGED <<master, reports, openIds, ruling, issues, fills, history>>

Reworked(c) ==
  [history EXCEPT !.reworked = IF reports[c].found = <<>> THEN @ ELSE @ \cup {c}]

\* A commit, which may delete files; what a gate said is about another head now.
Edit(c) ==
  /\ branch[c].st = "work" /\ Counted("edits", MaxEdits)
  /\ \E commit \in Commits :
       branch' = [branch EXCEPT ![c].gate = "none",
                    ![c].head = [@ EXCEPT !.code = commit.code, !.files = commit.files]]
  /\ history' = Reworked(c)
  /\ UNCHANGED <<master, reports, openIds, ruling, issues, fills>>

\* A Tracker reports some of what is in the changed files, or nothing. The name of
\* its round, not the time, gives the report its place among the card's others.
Track(c) ==
  /\ branch[c].st = "work" /\ reports[c].rounds < MaxRounds
  /\ \E S \in SUBSET {h[1] : h \in {g \in branch[c].head.code : g[2] \in Touched(c)}} :
     \E found \in SetToSeqs(S) :
       \E all \in {reports[c].found \o found, found \o reports[c].found} :
         reports' = [reports EXCEPT ![c] = [rounds |-> @.rounds + 1, found |-> all]]
  /\ UNCHANGED <<master, branch, openIds, ruling, issues, fills, count, history>>

\* runGrep: one grep over all the changed files in its paths ends with an error when
\* one of them was deleted, whatever it finds in the others, and when it times out.
Failing(c, slow) ==
  slow \cup {p \in Patterns : ~(Touched(c) \cap Paths[p] \subseteq branch[c].head.files)}

Reconciled(c, slow) ==
  reconcile(branch[c].registry, branch[c].head.code, Touched(c), Failing(c, slow),
            reports[c].found)

\* The open entries whose greps a card's gate runs.
InScope(c) ==
  {e \in ToSet(branch[c].registry) :
     /\ e.event = "opened" /\ IsOpen(branch[c].registry, e.id)
     /\ Touched(c) \cap Paths[e.what] # {}}

\* A gate on a card's head, with the greps that time out: no report, no gate.
RunGate(c, slow) ==
  /\ branch[c].st = "work" /\ reports[c].rounds > 0
  /\ slow \subseteq {e.what : e \in InScope(c)}
  /\ history' = [history EXCEPT !.missed =
       IF \E e \in InScope(c) : e.what \in Failing(c, slow) THEN @ \cup {c} ELSE @]

Verdict(c) == IF MoreDebt(branch[c].base, branch[c].head) THEN "red" ELSE "green"

\* Mutant of Gate: only what was minted is to be adjudicated.
GateListsMinted(c, slow) ==
  /\ RunGate(c, slow)
  /\ IF branch[c].gate = "none" /\ slow = {} THEN UNCHANGED count
     ELSE Counted("faults", MaxFaults)
  /\ branch' = [branch EXCEPT ![c].registry = @ \o Reconciled(c, slow).appended,
                              ![c].gate = Verdict(c)]
  /\ openIds' = [openIds EXCEPT ![c] = Reconciled(c, slow).minted]
  /\ UNCHANGED <<master, reports, ruling, issues, fills>>

\* runGate: a registry that grows, a verdict, and the list of ids for the closing
\* pass, which replaces the one of an earlier run.
Gate(c, slow) ==
  /\ RunGate(c, slow)
  /\ IF branch[c].gate = "none" /\ slow = {} THEN UNCHANGED count
     ELSE Counted("faults", MaxFaults)
  /\ branch' = [branch EXCEPT ![c].registry = @ \o Reconciled(c, slow).appended,
                              ![c].gate = Verdict(c)]
  /\ openIds' = [openIds EXCEPT ![c] = Reconciled(c, slow).matched \cup Reconciled(c, slow).minted]
  /\ UNCHANGED <<master, reports, ruling, issues, fills>>

\* The gate is killed after the append: git grep hangs, a session times out.
KillGate(c, slow) ==
  /\ RunGate(c, slow) /\ Counted("faults", MaxFaults)
  /\ branch' = [branch EXCEPT ![c].registry = @ \o Reconciled(c, slow).appended,
                              ![c].gate = "none"]
  /\ UNCHANGED <<master, reports, openIds, ruling, issues, fills>>

\* An entity with no hit left is closed on the branch.
CloseDebt(c, p) ==
  /\ branch[c].st = "work" /\ branch[c].head.debts[p].status = "open"
  /\ Hits(branch[c].head.code, p) = 0
  /\ branch' = [branch EXCEPT ![c].head.debts[p].status = "closed",
                              ![c].debts[p].status = "closed"]
  /\ UNCHANGED <<master, reports, openIds, ruling, issues, fills, count, history>>
-----------------------------------------------------------------------------
(* Pull requests                                                           *)

\* What the tools appended is committed, and a card's gate was green.
OpenPr(t) ==
  /\ branch[t].st = "work" /\ (t = Closing => ruling = NoGap)
  /\ t \in Cards => branch[t].gate = "green"
  /\ branch' = [branch EXCEPT ![t].st = "pr", ![t].head.registry = branch[t].registry,
                              ![t].head.debts = branch[t].debts]
  /\ UNCHANGED <<master, reports, openIds, ruling, issues, fills, count, history>>

\* The files both sides changed, each in its own way.
Contested(t) ==
  Touched(t) \cap Changed(branch[t].base, master) \cap Changed(branch[t].head, master)

\* git: what cannot be merged. Lines appended on both sides, unless they are the same;
\* an entity changed in two ways; a file changed on one side and deleted on the other,
\* or new on both. Changes to one file may be in lines apart: those merge or conflict.
Conflict(t) ==
  LET base == branch[t].base
      head == branch[t].head
  IN  \/ base.registry # head.registry /\ base.registry # master.registry
           /\ head.registry # master.registry
      \/ \E p \in Patterns : /\ base.debts[p] # head.debts[p] /\ base.debts[p] # master.debts[p]
                             /\ head.debts[p] # master.debts[p]
      \/ ~(Contested(t) \subseteq base.files \cap head.files \cap master.files)

MergedFiles(t) ==
  (master.files \ (branch[t].base.files \ branch[t].head.files))
    \cup (branch[t].head.files \ branch[t].base.files)

\* What the branch removed is gone, what it added is there, wherever there is a file.
MergedCode(t) ==
  {h \in (master.code \ (branch[t].base.code \ branch[t].head.code))
           \cup (branch[t].head.code \ branch[t].base.code) : h[2] \in MergedFiles(t)}

Merge(t) ==
  /\ branch[t].st = "pr" /\ ~Conflict(t)
  /\ LET base == branch[t].base
         head == branch[t].head
     IN  /\ master' =
              [registry |-> IF head.registry = base.registry THEN master.registry
                            ELSE head.registry,
               code     |-> MergedCode(t),
               files    |-> MergedFiles(t),
               debts    |-> [p \in Patterns |-> IF head.debts[p] = base.debts[p]
                                                THEN master.debts[p] ELSE head.debts[p]]]
         /\ history' = [history EXCEPT
              !.unguarded = @ \cup {p \in Patterns : /\ Hits(head.code, p) > Hits(base.code, p)
                                                     /\ head.debts[p].status # "open"},
              !.removed = @ \cup {h[1] : h \in base.code \ (head.code \cup master.code)}]
  /\ branch' = [branch EXCEPT ![t] = IF t = Closing THEN NoBranch
                                     ELSE [NoBranch EXCEPT !.st = "merged"]]
  /\ UNCHANGED <<reports, openIds, ruling, issues, fills, count>>

\* The second of two cards drops its lines of the registry, rebases and runs the
\* gate again.
Rebase(c) ==
  /\ branch[c].st = "pr" /\ (Conflict(c) \/ Contested(c) # {})
  /\ branch' = [branch EXCEPT ![c] =
       [st |-> "work", base |-> master,
        head |-> [master EXCEPT !.code = MergedCode(c), !.files = MergedFiles(c)],
        registry |-> master.registry, debts |-> master.debts, gate |-> "none"]]
  /\ history' = Reworked(c)
  /\ UNCHANGED <<master, reports, openIds, ruling, issues, fills, count>>

\* A closing PR in conflict is closed, and its rulings are made anew.
Abandon ==
  /\ branch[Closing].st = "pr" /\ Conflict(Closing)
  /\ branch' = [branch EXCEPT ![Closing] = NoBranch]
  /\ UNCHANGED <<master, reports, openIds, ruling, issues, fills, count, history>>
-----------------------------------------------------------------------------
(* gap-rule.ts, in the closing worktree, for the gaps the cards' gates     *)
(* listed. To the registry every disposition but debt is like "dismissed". *)

Listed == UNION {openIds[c] : c \in {d \in Cards : branch[d].st = "merged"}}

PatternOf(registry, id) ==
  (CHOOSE e \in ToSet(registry) : e.id = id /\ e.event = "opened").what

Rulable(id) ==
  /\ branch[Closing].st = "work" /\ ruling = NoGap
  /\ id \in Listed /\ IsOpen(branch[Closing].registry, id)

RuleDismissed(id) ==
  /\ Rulable(id)
  /\ branch' = [branch EXCEPT ![Closing].registry = Append(@, Ruled(id, "dismissed"))]
  /\ UNCHANGED <<master, reports, openIds, ruling, issues, fills, count, history>>

\* The check must find something, the entity must be new (c3 add).
Measured(id) ==
  LET p == PatternOf(branch[Closing].registry, id)
  IN  /\ Rulable(id)
      /\ Hits(branch[Closing].head.code, p) > 0
      /\ branch[Closing].debts[p] = NoDebt
      /\ ruling' = id

WithEntity(id) ==
  LET p == PatternOf(branch[Closing].registry, id)
  IN  [branch[Closing] EXCEPT !.debts[p] =
         [status |-> "open", gap |-> id, baseline |-> Hits(branch[Closing].head.code, p)]]
WithRuling(id) ==
  [branch[Closing] EXCEPT !.registry = Append(@, Ruled(id, "debt"))]

\* Mutant of FirstWrite and, with it, of the order: the ruling is written first.
FirstWriteIsRuling(id) == WithRuling(id)

FirstWrite(id) == WithEntity(id)

CreateDebtEntity(id) ==
  /\ Measured(id)
  /\ branch' = [branch EXCEPT ![Closing] = FirstWrite(id)]
  /\ UNCHANGED <<master, reports, openIds, issues, fills, count, history>>

AppendRuling ==
  /\ ruling # NoGap /\ ruling' = NoGap
  /\ branch' = [branch EXCEPT ![Closing] = WithRuling(ruling)]
  /\ UNCHANGED <<master, reports, openIds, issues, fills, count, history>>

KillRule ==
  /\ ruling # NoGap /\ ruling' = NoGap /\ Counted("faults", MaxFaults)
  /\ UNCHANGED <<master, branch, reports, openIds, issues, fills, history>>
-----------------------------------------------------------------------------
(* debt-backfill.ts, on the default branch, by whoever assembles a PR      *)

\* Mutant of selectMissing: every open entity is owed an issue.
selectAll == OpenDebts(master)

selectMissing == {p \in OpenDebts(master) : issues[p] = 0}

Backfill ==
  /\ Counted("fills", MaxFills)
  /\ fills' = Append(fills, selectMissing)
  /\ history' = [history EXCEPT !.overlap = @ \/ \E i \in DOMAIN fills : fills[i] # {}]
  /\ UNCHANGED <<master, branch, reports, openIds, ruling, issues>>

CreateIssue(i, p) ==
  /\ p \in fills[i]
  /\ fills' = [fills EXCEPT ![i] = @ \ {p}]
  /\ issues' = [issues EXCEPT ![p] = @ + 1]
  /\ UNCHANGED <<master, branch, reports, openIds, ruling, count, history>>

\* One issue cannot be created: the others of this run are left.
FailIssue(i) ==
  /\ fills[i] # {} /\ Counted("faults", MaxFaults)
  /\ fills' = [fills EXCEPT ![i] = {}]
  /\ UNCHANGED <<master, branch, reports, openIds, ruling, issues, history>>
-----------------------------------------------------------------------------
Ruling ==
  \/ \E id \in Ids(master.registry) : RuleDismissed(id) \/ CreateDebtEntity(id)
  \/ AppendRuling \/ KillRule \/ Abandon

Next ==
  \/ \E t \in Branches : Fork(t) \/ OpenPr(t) \/ Merge(t)
  \/ \E c \in Cards :
       \/ Edit(c) \/ Track(c) \/ Rebase(c)
       \/ \E slow \in SUBSET Patterns : Gate(c, slow) \/ KillGate(c, slow)
       \/ \E p \in Patterns : CloseDebt(c, p)
  \/ Ruling
  \/ Backfill
  \/ \E i \in DOMAIN fills : FailIssue(i) \/ \E p \in Patterns : CreateIssue(i, p)

Spec == Init /\ [][Next]_vars
-----------------------------------------------------------------------------
Registries ==
  {master.registry} \cup {branch[t].registry : t \in Branches}

\* However cards run their gates side by side, are killed in them, rebase and run
\* them again, an id names one gap, in every tree (ledger.ts, mintNextId).
IdsAreUnique ==
  \A registry \in Registries : \A i, j \in DOMAIN registry :
    registry[i].event = "opened" /\ registry[j].event = "opened"
      /\ registry[i].id = registry[j].id => i = j

\* A ruling is the last word on its gap: nothing is appended for a gap that is
\* ruled, by whichever branch and in whatever order they merge.
RuledStaysRuled ==
  \A registry \in Registries : \A i, j \in DOMAIN registry :
    registry[i].event = "ruled" /\ registry[i].id = registry[j].id => j <= i

\* A debt that was ruled is guarded by an entity of its gap, on the default branch
\* and wherever a ruling was killed (gap-rule.ts: artifacts first, ruling last).
RulingHasArtifact ==
  /\ \A e \in ToSet(master.registry) : e.event = "ruled" /\ e.what = "debt" =>
       \E p \in Patterns : master.debts[p].gap = e.id
  /\ branch[Closing].st = "work" => \A e \in ToSet(branch[Closing].registry) :
       e.event = "ruled" /\ e.what = "debt" => \E p \in Patterns : branch[Closing].debts[p].gap = e.id

\* A debt grows beyond its baseline, although every gate was green, only through a
\* branch whose tree did not have the entity yet, or when a branch and the default
\* branch removed the same hit: each could pay with it for another hit, and git
\* merges the two removals as one (debt-count.ts, diffDebt; gap-gate.ts).
LeaksAreUnguarded ==
  \A p \in Patterns :
    master.debts[p].status = "open" /\ Hits(master.code, p) > master.debts[p].baseline
      => p \in history.unguarded \cup history.removed

\* The closing pass sees every gap that is open on the default branch in a merged
\* card's list, unless a merged card was edited or rebased after a Tracker's finding, or
\* a gate of its had a grep fail on an open gap: a gap that does not fire any more is
\* opened under another id by each run of the gate, and the list of the last run
\* replaces the ones before it (gap-reconcile.ts, runGrep; gap-gate.ts, openIds).
OpenGapsAreListed ==
  (\A c \in history.reworked \cup history.missed : branch[c].st # "merged") =>
    \A id \in Ids(master.registry) : IsOpen(master.registry, id) => id \in Listed

\* A debt has one issue, whatever fails in between, when no two backfills overlap.
OneIssuePerDebt ==
  history.overlap \/ \A p \in Patterns : issues[p] <= 1
-----------------------------------------------------------------------------
(* What these rest on.                                                     *)

Event == [id : Nat \ {0}, event : {"opened", "seen", "ruled"},
          what : Patterns \cup {"none", "dismissed", "debt"}]
Debt  == [status : {"none", "open", "closed"}, gap : Nat, baseline : Nat]
Tree  == [registry : Seq(Event), code : SUBSET (Patterns \X Files), files : SUBSET Files,
          debts : [Patterns -> Debt]]
Work  == [st : {"work", "pr"}, base : Tree, head : Tree, registry : Seq(Event),
          debts : [Patterns -> Debt], gate : {"none", "red", "green"}]

Worked(t) == branch[t].st \in {"work", "pr"}

\* Every variable stays in its domain.
TypeOK ==
  /\ master \in Tree
  /\ DOMAIN branch = Branches
  /\ \A t \in Branches : IF Worked(t) THEN branch[t] \in Work
                         ELSE branch[t] \in {NoBranch, [NoBranch EXCEPT !.st = "merged"]}
  /\ reports \in [Cards -> [rounds : Nat, found : Seq(Patterns)]]
  /\ openIds \in [Cards -> SUBSET (Nat \ {0})] /\ ruling \in Nat
  /\ issues \in [Patterns -> Nat] /\ fills \in Seq(SUBSET Patterns)
  /\ count \in [edits : Nat, rulings : Nat, faults : Nat, fills : Nat]
  /\ history \in [unguarded : SUBSET Patterns, removed : SUBSET Patterns,
                  reworked : SUBSET Cards, missed : SUBSET Cards, overlap : BOOLEAN]

\* A registry: ids are opened, once, before anything else is said of them, and a
\* ruling is the last that is said of one; so many ids at most as there are events.
Sound(registry) ==
  /\ \A i \in DOMAIN registry :
       /\ registry[i].id <= Len(registry)
       /\ registry[i].event = "opened" => registry[i].what \in Patterns
       /\ \E j \in DOMAIN registry : registry[j] = Opened(registry[i].id, registry[j].what)
  /\ \A i, j \in DOMAIN registry :
       /\ registry[i].event = "opened" /\ registry[j].event = "opened"
            /\ registry[i].id = registry[j].id => i = j
       /\ registry[i].event = "ruled" /\ registry[i].id = registry[j].id => j <= i

Artifacts(registry, debts) ==
  \A e \in ToSet(registry) : e.event = "ruled" /\ e.what = "debt" =>
    \E p \in Patterns : debts[p].gap = e.id

\* A default branch the tools have left before has no gap that is not ruled, and no debt
\* that has grown.
ASSUME FirstTreesAssumption ==
  \A tree \in FirstTrees :
    /\ tree \in Tree /\ Sound(tree.registry) /\ Artifacts(tree.registry, tree.debts)
    /\ \A h \in tree.code : h[2] \in Paths[h[1]] \cap tree.files
    /\ \A id \in Ids(tree.registry) :
         \E e \in ToSet(tree.registry) : e.id = id /\ e.event = "ruled"
    /\ \A p \in Patterns : tree.debts[p].status = "open" =>
         Hits(tree.code, p) <= tree.debts[p].baseline

RegistriesAreSound ==
  /\ Sound(master.registry)
  /\ \A t \in Branches : Worked(t) =>
       Sound(branch[t].base.registry) /\ Sound(branch[t].registry)

\* A branch only appends: a card's gate no rulings, a closing pass nothing else. Only
\* the closing pass leaves entities uncommitted.
BranchesAppend ==
  \A t \in Branches : Worked(t) =>
    LET old == branch[t].base.registry
        new == branch[t].registry
    IN  /\ Len(old) <= Len(new) /\ \A i \in DOMAIN old : new[i] = old[i]
        /\ \A i \in DOMAIN new : i > Len(old) => (new[i].event = "ruled" <=> t = Closing)
        /\ branch[t].head.registry = IF branch[t].st = "pr" THEN new ELSE old
        /\ branch[t].st = "pr" \/ t # Closing => branch[t].head.debts = branch[t].debts

\* The gap whose ruling is under way is open, and has its entity.
RulingIsOpen ==
  ruling # NoGap =>
    /\ branch[Closing].st = "work" /\ IsOpen(branch[Closing].registry, ruling)
    /\ \E p \in Patterns : branch[Closing].debts[p].gap = ruling

\* Rulings have their artifacts in every tree, and an entity stays its gap's.
ArtifactsAreThere ==
  /\ Artifacts(master.registry, master.debts)
  /\ \A t \in Branches : Worked(t) =>
       /\ Artifacts(branch[t].head.registry, branch[t].head.debts)
       /\ Artifacts(branch[t].registry, branch[t].debts)
       /\ \A p \in Patterns : branch[t].base.debts[p].gap # NoGap =>
            \A d \in {master.debts[p], branch[t].head.debts[p], branch[t].debts[p]} :
              d.gap = branch[t].base.debts[p].gap

\* What a green gate judged is what is merged.
VerdictsHold ==
  /\ \A c \in Cards : Worked(c) =>
       /\ branch[c].gate = "green" => ~MoreDebt(branch[c].base, branch[c].head)
       /\ branch[c].st = "pr" => branch[c].gate = "green"
  /\ Worked(Closing) => branch[Closing].head.code = branch[Closing].base.code

\* Where the default branch has more of a debt than a branch forked from, a merge
\* was unguarded or took two removals for one; a baseline is the count of the tree
\* it was measured in.
GrowthIsUnguarded ==
  \A t \in Branches : Worked(t) => \A p \in Patterns :
    /\ Hits(master.code, p) > Hits(branch[t].base.code, p) =>
         p \in history.unguarded \cup history.removed
    /\ \A d \in {branch[t].head.debts[p], branch[t].debts[p]} : d.status = "open" =>
         d = branch[t].base.debts[p] \/ d.baseline = Hits(branch[t].base.code, p)

Fires(c, p) == \E f \in Touched(c) \cap Paths[p] : <<p, f>> \in branch[c].head.code

\* What the Trackers reported of a card that nobody reworked is still there.
ReportsAreFresh ==
  \A c \in Cards :
    /\ branch[c].st = "none" => reports[c].found = <<>>
    /\ Worked(c) /\ c \notin history.reworked =>
         \A p \in ToSet(reports[c].found) : Fires(c, p)

\* A hit is where its grep looks, in a file that is there.
HitsAreInPaths ==
  \A tree \in {master} \cup {branch[t].head : t \in {u \in Branches : Worked(u)}} :
    \A h \in tree.code : h[2] \in Paths[h[1]] \cap tree.files

\* What such a card has opened is still there and, once a gate has judged the head, in
\* its list, as long as no grep failed.
NewGapsAreListed ==
  \A c \in Cards : Worked(c) /\ c \notin history.reworked \cup history.missed =>
    \A i \in DOMAIN branch[c].registry :
      i > Len(branch[c].base.registry) /\ branch[c].registry[i].event = "opened" =>
        /\ reports[c].found # <<>> /\ Fires(c, branch[c].registry[i].what)
        /\ branch[c].gate = "none" \/ branch[c].registry[i].id \in openIds[c]

\* One backfill at a time has something left to do, and that is owed an issue.
IssuesAreOwed ==
  ~history.overlap =>
    /\ \A i, j \in DOMAIN fills : i # j => fills[i] = {} \/ fills[j] = {}
    /\ \A i \in DOMAIN fills : \A p \in fills[i] : issues[p] = 0

GapInv ==
  /\ RegistriesAreSound
  /\ BranchesAppend
  /\ RulingIsOpen
  /\ ArtifactsAreThere
  /\ VerdictsHold
  /\ GrowthIsUnguarded
  /\ HitsAreInPaths
  /\ ReportsAreFresh
  /\ NewGapsAreListed
  /\ IssuesAreOwed
  /\ OneIssuePerDebt
  /\ LeaksAreUnguarded
  /\ OpenGapsAreListed
=============================================================================
