-------------------------- MODULE RunnerLockProofs --------------------------
(***************************************************************************)
(* Starts and resets that do not overlap exclude one another, for any      *)
(* number of processes and whoever is killed where. Two that overlap do    *)
(* not: the run RunnerLock_exclusion shows how.                            *)
(***************************************************************************)
EXTENDS RunnerLock, TLAPS

Claiming == {"claim", "write", "load", "save"}

\* The strengthening: without an overlap one process at most is between its
\* look and its claim, and what it has opened is what the path names.
LockInv ==
  /\ TypeOK
  /\ ~overlapped =>
       /\ \A p \in Starts : pc[p] \in Held =>
            lock = p /\ \A q \in Procs \ {p} : pc[q] \notin Held \cup Claiming
       /\ \A p, q \in Procs : pc[p] \in Window /\ pc[q] \in Window => p = q
       /\ \A p \in Starts : pc[p] = "write" => lock = Torn /\ fd[p] = inode

\* Types.
THEOREM LockTypeCorrect == Spec => []TypeOK
<1>1. ASSUME Init PROVE TypeOK
  <2>1. pc \in [Procs -> Held \cup Window \cup Gone] /\ fd \in [Starts -> Nat]
    BY <1>1 DEF Init, Gone
  <2>2. view \in [Procs -> SUBSET Procs]
    BY <1>1 DEF Init
  <2>3. QED
    BY <1>1, <2>1, <2>2 DEF Init, TypeOK
<1>2. TypeOK /\ [Next]_vars => TypeOK'
  <2> SUFFICES ASSUME TypeOK, [Next]_vars PROVE TypeOK'
    OBVIOUS
  <2> USE DEF TypeOK, Goto, Held, Window, Gone
  <2>1. ASSUME NEW p \in Procs, LookForLock(p) PROVE TypeOK'
    BY <2>1 DEF LookForLock, Free
  <2>2. ASSUME NEW p \in Procs, ReadLock(p) PROVE TypeOK'
    BY <2>2 DEF ReadLock, Free
  <2>3. ASSUME NEW p \in Procs, LoadState(p) PROVE TypeOK'
    BY <2>3 DEF LoadState
  <2>4. ASSUME NEW p \in Procs, Kill(p) PROVE TypeOK'
    BY <2>4 DEF Kill
  <2>5. ASSUME NEW p \in Starts, StartStep(p) PROVE TypeOK'
    <3> p \in Procs
      BY DEF Procs
    <3>1. CASE OpenLock(p)
      BY <3>1 DEF OpenLock
    <3>2. CASE WriteLock(p)
      BY <3>2 DEF WriteLock
    <3>3. CASE Persist(p)
      BY <3>3 DEF Persist
    <3>4. CASE Release(p) \/ LookToRemove(p) \/ RemoveLock(p)
      BY <3>4 DEF Release, LookToRemove, RemoveLock
    <3>5. QED
      BY <2>5, <3>1, <3>2, <3>3, <3>4 DEF StartStep
  <2>6. ASSUME NEW p \in Resets, SaveReset(p) PROVE TypeOK'
    BY <2>6 DEF SaveReset, Procs
  <2>7. CASE UNCHANGED vars
    BY <2>7 DEF vars
  <2>8. QED
    BY <2>1, <2>2, <2>3, <2>4, <2>5, <2>6, <2>7 DEF Next
<1>3. QED
  BY <1>1, <1>2, PTL DEF Spec

\* A reset-card never claims the lock.
Roles == \A r \in Resets : pc[r] \notin Held \cup {"claim", "write"}

LEMMA RolesHold == Spec => []Roles
<1>1. Init => Roles
  BY DEF Init, Roles, Held, Procs
<1>2. TypeOK /\ Roles /\ [Next]_vars => Roles'
  <2> SUFFICES ASSUME TypeOK, Roles, [Next]_vars, NEW r \in Resets
               PROVE  pc'[r] \notin Held \cup {"claim", "write"}
    BY DEF Roles
  <2> USE ProcsAssumption DEF TypeOK, Roles, Goto, Held, Procs
  <2>1. ASSUME NEW p \in Procs, LookForLock(p) \/ ReadLock(p) \/ LoadState(p) \/ Kill(p)
        PROVE  pc'[r] \notin Held \cup {"claim", "write"}
    BY <2>1 DEF LookForLock, ReadLock, LoadState, Kill, Free
  <2>2. ASSUME NEW p \in Starts, StartStep(p)
        PROVE  pc'[r] \notin Held \cup {"claim", "write"}
    BY <2>2 DEF StartStep, OpenLock, WriteLock, Persist, Release, LookToRemove, RemoveLock
  <2>3. ASSUME NEW p \in Resets, SaveReset(p)
        PROVE  pc'[r] \notin Held \cup {"claim", "write"}
    BY <2>3 DEF SaveReset
  <2>4. CASE UNCHANGED vars
    BY <2>4 DEF vars
  <2>5. QED
    BY <2>1, <2>2, <2>3, <2>4 DEF Next
<1>3. QED
  BY <1>1, <1>2, LockTypeCorrect, PTL DEF Spec

\* The strengthening is inductive.
LEMMA LockInvHolds == Spec => []LockInv
<1>1. TypeOK /\ Init => LockInv
  BY DEF Init, LockInv, Held, Window, Procs
<1>2. LockInv /\ TypeOK' /\ Roles /\ [Next]_vars => LockInv'
  <2> SUFFICES ASSUME LockInv, TypeOK', Roles, [Next]_vars, ~overlapped' PROVE LockInv'
    BY DEF LockInv
  <2> Starts \subseteq Procs /\ Resets \subseteq Procs
    BY DEF Procs
  <2>0. ~overlapped
    BY DEF Next, LookForLock, ReadLock, LoadState, Kill, StartStep, OpenLock, WriteLock,
           Persist, Release, LookToRemove, RemoveLock, SaveReset, vars
  <2> USE <2>0, ProcsAssumption DEF LockInv, TypeOK, Goto, Held, Window, Gone, Claiming
  <2>1. ASSUME NEW p \in Procs, LookForLock(p) PROVE LockInv'
    <3>1. \A q \in Procs : pc[q] \notin Window
      BY <2>1 DEF LookForLock
    <3>2. \A q \in Procs \ {p} : pc'[q] = pc[q]
      BY <2>1 DEF LookForLock
    <3>3. UNCHANGED <<lock, fd, inode>> /\ pc'[p] \in {"read", "claim", "load"}
      BY <2>1 DEF LookForLock, Free
    <3>4. (\E q \in Starts : pc[q] \in Held) => pc'[p] = "read"
      BY <2>1 DEF LookForLock, Procs
    <3>5. \A q, r \in Procs : pc'[q] \in Window /\ pc'[r] \in Window => q = r
      BY <3>1, <3>2
    <3>6. \A q \in Starts : pc'[q] # "write"
      BY <3>1, <3>2, <3>3
    <3>7. ASSUME NEW q \in Starts, pc'[q] \in Held
          PROVE  lock' = q /\ \A r \in Procs \ {q} : pc'[r] \notin Held \cup Claiming
      <4>1. q # p /\ pc[q] \in Held
        BY <3>2, <3>3, <3>7
      <4>2. QED
        BY <3>2, <3>3, <3>4, <4>1
    <3>8. QED
      BY <3>5, <3>6, <3>7
  <2>2. ASSUME NEW p \in Procs, ReadLock(p) PROVE LockInv'
    BY <2>2 DEF ReadLock, Free, Procs, Alive
  <2>3. ASSUME NEW p \in Procs, LoadState(p) PROVE LockInv'
    BY <2>3 DEF LoadState
  <2>4. ASSUME NEW p \in Procs, Kill(p) PROVE LockInv'
    BY <2>4 DEF Kill
  <2>5. ASSUME NEW p \in Starts, StartStep(p) PROVE LockInv'
    <3>1. CASE OpenLock(p)
      BY <3>1 DEF OpenLock
    <3>2. CASE WriteLock(p)
      <4>1. lock' = p /\ UNCHANGED <<fd, inode>> /\ pc'[p] = "running"
        BY <3>2 DEF WriteLock
      <4>2. \A q \in Procs \ {p} : pc'[q] = pc[q] /\ pc[q] \notin Window
        BY <3>2 DEF WriteLock
      <4>3. \A q \in Procs \ {p} : pc[q] \notin Held
        BY <3>2 DEF WriteLock, Procs, Roles
      <4>4. QED
        BY <4>1, <4>2, <4>3
    <3>3. CASE Persist(p)
      BY <3>3 DEF Persist
    <3>4. CASE Release(p) \/ LookToRemove(p)
      BY <3>4 DEF Release, LookToRemove
    <3>5. CASE RemoveLock(p)
      BY <3>5 DEF RemoveLock
    <3>6. QED
      BY <2>5, <3>1, <3>2, <3>3, <3>4, <3>5 DEF StartStep
  <2>6. ASSUME NEW p \in Resets, SaveReset(p) PROVE LockInv'
    BY <2>6 DEF SaveReset
  <2>7. CASE UNCHANGED vars
    BY <2>7 DEF vars
  <2>8. QED
    BY <2>1, <2>2, <2>3, <2>4, <2>5, <2>6, <2>7 DEF Next
<1>3. QED
  BY <1>1, <1>2, LockTypeCorrect, RolesHold, PTL DEF Spec

\* A lock read and then written, without an atomic create, still excludes as
\* long as no two processes are between look and claim at once.
THEOREM SerialStartsExclude == Spec => []SerialExclusion
<1>1. LockInv => SerialExclusion
  BY DEF LockInv, SerialExclusion, Claiming
<1>2. QED
  BY <1>1, LockInvHolds, PTL

\* Without an overlap, what a process is going to write back is what is there.
ViewInv ==
  ~overlapped => \A p \in Procs : pc[p] \in {"loaded", "save"} => view[p] = file

\* A write of the state file, while no two processes overlap.
LEMMA WritesKeepUpdates ==
  ASSUME LockInv, Roles, ViewInv, ~overlapped, NEW p \in Procs,
         \/ p \in Starts /\ pc[p] = "loaded" /\ Persist(p)
         \/ p \in Resets /\ pc[p] = "save" /\ SaveReset(p)
  PROVE  /\ file \subseteq file' /\ view'[p] = file'
         /\ \A q \in Procs \ {p} : pc[q] \notin {"loaded", "save"}
<1>1. view[p] = file /\ view' = [view EXCEPT ![p] = file \cup {p}] /\ file' = view'[p]
  BY DEF ViewInv, Persist, SaveReset, LockInv, TypeOK
<1>2. file' = file \cup {p}
  BY <1>1 DEF LockInv, TypeOK
<1>3. ASSUME NEW q \in Procs \ {p}, pc[q] \in {"loaded", "save"} PROVE FALSE
  <2>1. CASE p \in Starts /\ pc[p] = "loaded"
    BY <1>3, <2>1 DEF LockInv, Held, Claiming
  <2>2. CASE pc[p] = "save" /\ pc[q] = "save"
    BY <1>3, <2>2 DEF LockInv, Window
  <2>3. CASE pc[p] = "save" /\ pc[q] = "loaded"
    <3>1. q \in Starts
      BY <1>3, <2>3 DEF Roles, Held, Procs
    <3>2. QED
      BY <2>3, <3>1 DEF LockInv, Held, Claiming
  <2>4. QED
    BY <1>3, <2>1, <2>2, <2>3
<1>4. QED
  BY <1>1, <1>2, <1>3

\* Whoever may write has what is in the file, as long as nobody overlaps.
LEMMA ViewsHold == Spec => []ViewInv
<1>1. Init => ViewInv
  BY DEF Init, ViewInv
<1>2. LockInv /\ Roles /\ ViewInv /\ [Next]_vars => ViewInv'
  <2> SUFFICES ASSUME LockInv, Roles, ViewInv, [Next]_vars, ~overlapped',
                      NEW q \in Procs, pc'[q] \in {"loaded", "save"}
               PROVE  view'[q] = file'
    BY DEF ViewInv
  <2>0. ~overlapped
    BY DEF Next, LookForLock, ReadLock, LoadState, Kill, StartStep, OpenLock, WriteLock,
           Persist, Release, LookToRemove, RemoveLock, SaveReset, vars
  <2> Starts \subseteq Procs /\ Resets \subseteq Procs
    BY DEF Procs
  <2>1. ASSUME NEW p \in Procs, LookForLock(p) \/ ReadLock(p) \/ Kill(p)
        PROVE  view'[q] = file'
    BY <2>0, <2>1 DEF LookForLock, ReadLock, Kill, Goto, Free, ViewInv, LockInv, TypeOK
  <2>2. ASSUME NEW p \in Procs, LoadState(p) PROVE view'[q] = file'
    BY <2>0, <2>2 DEF LoadState, Goto, ViewInv, LockInv, TypeOK
  <2>3. ASSUME NEW p \in Starts,
               OpenLock(p) \/ WriteLock(p) \/ Release(p) \/ LookToRemove(p) \/ RemoveLock(p)
        PROVE  view'[q] = file'
    BY <2>0, <2>3 DEF OpenLock, WriteLock, Release, LookToRemove, RemoveLock, Goto,
       ViewInv, LockInv, TypeOK
  <2>4. ASSUME NEW p \in Starts, Persist(p) PROVE view'[q] = file'
    <3>1. pc[p] = "loaded" /\ pc' = pc
      BY <2>4 DEF Persist
    <3>2. QED
      BY <2>0, <2>4, <3>1, WritesKeepUpdates
  <2>5. ASSUME NEW p \in Resets, SaveReset(p) PROVE view'[q] = file'
    <3>1. /\ pc[p] = "save" /\ pc'[p] = "done"
          /\ \A r \in Procs \ {p} : pc'[r] = pc[r]
      BY <2>5 DEF SaveReset, Goto, LockInv, TypeOK
    <3>2. QED
      BY <2>0, <2>5, <3>1, WritesKeepUpdates
  <2>6. CASE UNCHANGED vars
    BY <2>0, <2>6 DEF vars, ViewInv
  <2>7. QED
    BY <2>1, <2>2, <2>3, <2>4, <2>5, <2>6 DEF Next, StartStep
<1>3. QED
  BY <1>1, <1>2, LockInvHolds, RolesHold, PTL DEF Spec

\* As long as no two processes overlap, no write of the state file drops another
\* one's update: for any number of starts and resets, killed anywhere.
THEOREM SerialUpdatesAreKept == Spec => SerialUpdatesSurvive
<1>1. LockInv /\ Roles /\ ViewInv /\ [Next]_vars =>
        [~overlapped => file \subseteq file']_vars
  <2> SUFFICES ASSUME LockInv, Roles, ViewInv, Next, ~overlapped PROVE file \subseteq file'
    OBVIOUS
  <2> Starts \subseteq Procs /\ Resets \subseteq Procs
    BY DEF Procs
  <2>1. ASSUME NEW p \in Starts, Persist(p) PROVE file \subseteq file'
    BY <2>1, WritesKeepUpdates DEF Persist
  <2>2. ASSUME NEW p \in Resets, SaveReset(p) PROVE file \subseteq file'
    BY <2>2, WritesKeepUpdates DEF SaveReset
  <2>3. QED
    BY <2>1, <2>2 DEF Next, StartStep, LookForLock, ReadLock, LoadState, Kill, OpenLock,
       WriteLock, Release, LookToRemove, RemoveLock
<1>2. QED
  BY <1>1, LockInvHolds, RolesHold, ViewsHold, PTL DEF Spec, SerialUpdatesSurvive
=============================================================================
