----------------------------- MODULE RunnerLock -----------------------------
(***************************************************************************)
(* .runner.lock and the state file it guards (core/loop/lock.ts, the lock  *)
(* calls of runLoop, performResetCard, the file calls of                   *)
(* run-io.adapter.ts), one step per system call. A runner start and a      *)
(* reset-card are processes that come once, at any time, and may be killed *)
(* at any time.                                                            *)
(***************************************************************************)
EXTENDS Naturals, FiniteSets

CONSTANTS
  Starts,   \* runner starts
  Resets,   \* reset-card invocations
  NoLock,   \* .runner.lock is absent
  Torn      \* .runner.lock is there but holds no complete JSON

Procs == Starts \cup Resets

ASSUME ProcsAssumption ==
  /\ Starts \cap Resets = {}
  /\ NoLock \notin Procs \cup {Torn} /\ Torn \notin Procs

VARIABLES
  pc,     \* per process, its next system call
  lock,   \* the content of .runner.lock: the pid in it, NoLock or Torn
  inode,  \* which creation of .runner.lock the path names
  fd,     \* per start, the creation it has opened
  file,   \* campaign-state.json: the processes whose updates it holds
  view,   \* per process, the state it has loaded
  overlapped  \* history: a process looked at the lock while another one was
              \* between its look and its claim

vars == <<pc, lock, inode, fd, file, view, overlapped>>

Held   == {"running", "loaded", "release", "remove"}  \* acquireLock said ok
Window == {"read", "claim", "write", "load", "save"}  \* between look and claim
Gone   == {"new", "refused", "threw", "done", "dead"}

Alive(p)   == pc[p] \notin Gone
Goto(p, l) == pc' = [pc EXCEPT ![p] = l]

Init ==
  /\ pc = [p \in Procs |-> "new"]
  /\ lock = NoLock /\ inode = 0 /\ fd = [p \in Starts |-> 0]
  /\ file = {} /\ view = [p \in Procs |-> {}]
  /\ overlapped = FALSE

\* What a process goes on to do once it has found no live holder.
Free(p) == IF p \in Starts THEN "claim" ELSE "load"

\* readLock: existsSync ...
LookForLock(p) ==
  /\ pc[p] = "new"
  /\ Goto(p, IF lock = NoLock THEN Free(p) ELSE "read")
  /\ overlapped' = (overlapped \/ \E q \in Procs : pc[q] \in Window)
  /\ UNCHANGED <<lock, inode, fd, file, view>>

\* Mutant of ReadLock: the liveness probe takes every holder for dead.
ReadLockBlind(p) ==
  /\ pc[p] = "read"
  /\ Goto(p, IF lock \in {NoLock, Torn} THEN "threw" ELSE Free(p))
  /\ UNCHANGED <<lock, inode, fd, file, view, overlapped>>

\* ... readFileSync and JSON.parse, which throw on a file that has gone or is
\* not complete, and isProcessAlive.
ReadLock(p) ==
  /\ pc[p] = "read"
  /\ Goto(p, IF lock \in {NoLock, Torn} THEN "threw"
             ELSE IF Alive(lock) THEN "refused" ELSE Free(p))
  /\ UNCHANGED <<lock, inode, fd, file, view, overlapped>>

\* writeLock: writeFileSync opens and truncates ...
OpenLock(p) ==
  /\ pc[p] = "claim"
  /\ Goto(p, "write")
  /\ inode' = IF lock = NoLock THEN inode + 1 ELSE inode
  /\ lock' = Torn
  /\ fd' = [fd EXCEPT ![p] = inode']
  /\ UNCHANGED <<file, view, overlapped>>

\* ... and writes; on a file that has been removed since, to no effect.
WriteLock(p) ==
  /\ pc[p] = "write"
  /\ Goto(p, "running")
  /\ lock' = IF lock # NoLock /\ fd[p] = inode THEN p ELSE lock
  /\ UNCHANGED <<inode, fd, file, view, overlapped>>

\* loadState, by a runner that holds the lock or a reset that found it free.
LoadState(p) ==
  /\ pc[p] \in {"running", "load"}
  /\ Goto(p, IF pc[p] = "running" THEN "loaded" ELSE "save")
  /\ view' = [view EXCEPT ![p] = file]
  /\ UNCHANGED <<lock, inode, fd, file, overlapped>>

\* persistLocalState: the runner's whole state, with its own progress.
Persist(p) ==
  /\ pc[p] = "loaded"
  /\ view' = [view EXCEPT ![p] = @ \cup {p}]
  /\ file' = view'[p]
  /\ UNCHANGED <<pc, lock, inode, fd, overlapped>>

\* performResetCard writes the state it loaded, with its card reset.
SaveReset(p) ==
  /\ pc[p] = "save"
  /\ Goto(p, "done")
  /\ view' = [view EXCEPT ![p] = @ \cup {p}]
  /\ file' = view'[p]
  /\ UNCHANGED <<lock, inode, fd, overlapped>>

\* Mutant of Release: the lock is given up while the pass goes on.
ReleaseEarly(p) ==
  /\ pc[p] \in {"running", "loaded"}
  /\ lock' = NoLock
  /\ UNCHANGED <<pc, inode, fd, file, view, overlapped>>

\* runLoop's finally: releaseLock, whether it ran a pass or met STOP.
Release(p) ==
  /\ pc[p] \in {"running", "loaded"}
  /\ Goto(p, "release")
  /\ UNCHANGED <<lock, inode, fd, file, view, overlapped>>

\* removeLock: existsSync ...
LookToRemove(p) ==
  /\ pc[p] = "release"
  /\ Goto(p, IF lock = NoLock THEN "done" ELSE "remove")
  /\ UNCHANGED <<lock, inode, fd, file, view, overlapped>>

\* ... and rmSync, which does not ask whose lock it is.
RemoveLock(p) ==
  /\ pc[p] = "remove"
  /\ Goto(p, IF lock = NoLock THEN "threw" ELSE "done")
  /\ lock' = NoLock
  /\ UNCHANGED <<inode, fd, file, view, overlapped>>

\* kill -9, an OOM, a power cut.
Kill(p) ==
  /\ Alive(p)
  /\ Goto(p, "dead")
  /\ UNCHANGED <<lock, inode, fd, file, view, overlapped>>

StartStep(p) ==
  \/ OpenLock(p) \/ WriteLock(p) \/ Persist(p)
  \/ Release(p) \/ LookToRemove(p) \/ RemoveLock(p)

Next ==
  \/ \E p \in Procs  : LookForLock(p) \/ ReadLock(p) \/ LoadState(p) \/ Kill(p)
  \/ \E p \in Starts : StartStep(p)
  \/ \E p \in Resets : SaveReset(p)

Spec == Init /\ [][Next]_vars
-----------------------------------------------------------------------------
\* Every variable stays in its domain.
TypeOK ==
  /\ pc \in [Procs -> Held \cup Window \cup Gone]
  /\ lock \in Starts \cup {NoLock, Torn}
  /\ inode \in Nat /\ fd \in [Starts -> Nat]
  /\ file \subseteq Procs /\ view \in [Procs -> SUBSET Procs]
  /\ overlapped \in BOOLEAN

\* Starts and resets that do not overlap exclude one another, whoever is killed
\* where: one runner at most is past acquireLock, the lock on disk is its own,
\* and no reset is at work beside it.
SerialExclusion ==
  ~overlapped =>
    \A p \in Starts : pc[p] \in Held =>
      /\ lock = p
      /\ \A q \in Procs \ {p} : pc[q] \notin Held \cup {"claim", "write", "load", "save"}

\* Under the same condition no write of the state file drops what another
\* process has written to it.
SerialUpdatesSurvive == [][~overlapped => file \subseteq file']_vars

\* lock.ts: two loops "would double-spawn sessions and PRs"; acquireLock
\* "refuses to start if a LIVE process holds .runner.lock".
OneRunner == \A p, q \in Starts : pc[p] \in Held /\ pc[q] \in Held => p = q
=============================================================================
