--------------------------- MODULE ListCacheProofs ---------------------------
(***************************************************************************)
(* Proofs about ListCache, for any number of pods, readers, tasks, writers *)
(* and versions.                                                           *)
(***************************************************************************)
EXTENDS ListCache, TLAPS

(***************************************************************************)
(* The inductive invariant.                                                *)
(***************************************************************************)
\* A task has a page exactly when its query has answered.
PageInv ==
    \A t \in Tasks :
        /\ task[t] \in {"unborn", "query"} => page[t] = None
        /\ task[t] = "fill" => page[t] # None

\* No operator is ahead of the data.
VersionInv ==
    /\ settled <= version
    /\ \A w \in Writers : wrote[w] <= version

\* What a table names was started there; only a drained pod's was cancelled.
TableInv ==
    \A p \in Pods : inflight[p] # None =>
        /\ task[inflight[p]] # "unborn"
        /\ task[inflight[p]] = "cancelled" => p \in stopped

\* A reader awaits a computation of its own pod, and a pod is drained only
\* when it serves nobody.
JoinInv ==
    \A r \in Readers :
        /\ (reader[r] = "waiting") <=> (joined[r] # None)
        /\ reader[r] # "idle" => Home[r] \notin stopped
        /\ joined[r] # None =>
              /\ task[joined[r]] \notin {"unborn", "cancelled"}
              /\ Running(joined[r]) => inflight[Home[r]] = joined[r]

IInv == /\ TypeOK /\ PageInv /\ VersionInv /\ TableInv /\ JoinInv
        /\ RunningIsRegistered /\ CancellationIsOwn /\ QuietClear

LEMMA InitIInv == Init => IInv
<1> SUFFICES ASSUME Init PROVE IInv
  OBVIOUS
<1> USE ListAssumption DEF Versions
<1>1. TypeOK
  BY DEF Init, TypeOK
<1>2. PageInv /\ VersionInv /\ TableInv /\ JoinInv
  BY DEF Init, PageInv, VersionInv, TableInv, JoinInv
<1>3. RunningIsRegistered /\ CancellationIsOwn /\ QuietClear
  BY DEF Init, RunningIsRegistered, CancellationIsOwn, QuietClear, Running,
     Registered
<1> QED
  BY <1>1, <1>2, <1>3 DEF IInv

(***************************************************************************)
(* Readers.                                                                *)
(***************************************************************************)
\* A reader that moves without joining, while tasks and tables stay.
LEMMA ReaderMoves ==
    ASSUME IInv, NEW r \in Readers, NEW place \in {"idle", "lookup", "missed"},
           reader' = [reader EXCEPT ![r] = place], reader[r] # "waiting",
           place # "idle" => Home[r] \notin stopped,
           UNCHANGED <<version, entry, taskVars, joined, writerVars, stopped>>
    PROVE  IInv'
<1> USE ListAssumption DEF taskVars, writerVars
<1>1. TypeOK'
  BY DEF IInv, TypeOK
<1>2. PageInv' /\ VersionInv' /\ TableInv' /\ RunningIsRegistered' /\ QuietClear'
  BY DEF IInv, PageInv, VersionInv, TableInv, RunningIsRegistered, QuietClear,
     Running, Registered
<1>3. JoinInv' /\ CancellationIsOwn'
  BY DEF IInv, TypeOK, JoinInv, CancellationIsOwn, Running
<1> QED
  BY <1>1, <1>2, <1>3 DEF IInv

LEMMA CoalesceStep ==
    ASSUME IInv, NEW r \in Readers, Coalesce(r)
    PROVE  IInv'
<1> USE ListAssumption DEF taskVars, writerVars
<1>0. /\ TypeOK /\ PageInv /\ VersionInv /\ TableInv /\ JoinInv
      /\ RunningIsRegistered /\ CancellationIsOwn /\ QuietClear
      /\ Home[r] \in Pods /\ Home[r] \notin stopped
      /\ reader[r] = "missed" /\ joined[r] = None
      /\ UNCHANGED <<version, entry, page, writerVars, stopped>>
  BY DEF IInv, Coalesce, JoinInv
<1>1. CASE /\ inflight[Home[r]] # None /\ Await(r, inflight[Home[r]])
           /\ UNCHANGED <<inflight, task>>
  <2>1. inflight[Home[r]] \in Tasks
    BY <1>0, <1>1 DEF TypeOK
  <2>2. TypeOK'
    BY <1>0, <1>1, <2>1 DEF TypeOK, Await
  <2>3. JoinInv' /\ CancellationIsOwn'
    BY <1>0, <1>1, <2>1
    DEF TypeOK, JoinInv, CancellationIsOwn, TableInv, Await, Running
  <2>4. PageInv' /\ VersionInv' /\ TableInv' /\ RunningIsRegistered' /\ QuietClear'
    BY <1>0, <1>1
    DEF PageInv, VersionInv, TableInv, RunningIsRegistered, QuietClear, Running,
        Registered
  <2> QED
    BY <2>2, <2>3, <2>4 DEF IInv
<1>2. CASE inflight[Home[r]] = None /\ StartTask(r)
  <2>1. PICK t \in Tasks :
          /\ task[t] = "unborn"
          /\ task' = [task EXCEPT ![t] = "query"]
          /\ inflight' = [inflight EXCEPT ![Home[r]] = t]
          /\ Await(r, t)
    BY <1>2 DEF StartTask
  <2>2. t # None /\ page[t] = None
    BY <1>0, <2>1 DEF PageInv
  <2>3. \A p \in Pods : inflight[p] # t
    BY <1>0, <2>1, <2>2 DEF TableInv
  <2>4. \A q \in Readers : joined[q] # t
    BY <1>0, <2>1, <2>2 DEF JoinInv
  <2>5. TypeOK'
    BY <1>0, <2>1 DEF TypeOK, Await
  <2>6. PageInv' /\ VersionInv'
    BY <1>0, <2>1, <2>2 DEF TypeOK, PageInv, VersionInv
  <2>7. TableInv'
    BY <1>0, <2>1, <2>3 DEF TypeOK, TableInv
  <2>8. JoinInv' /\ CancellationIsOwn'
    <3>1. \A q \in Readers \ {r} :
             reader'[q] = reader[q] /\ joined'[q] = joined[q]
      BY <1>0, <2>1 DEF TypeOK, Await
    <3>2. \A q \in Readers \ {r} : joined[q] # None /\ Running(joined[q])
             => inflight'[Home[q]] = joined[q]
      BY <1>0, <1>2, <2>1 DEF TypeOK, JoinInv
    <3>3. reader'[r] = "waiting" /\ joined'[r] = t /\ inflight'[Home[r]] = t
          /\ task'[t] = "query"
      BY <1>0, <2>1 DEF TypeOK, Await
    <3>4. \A u \in Tasks \ {t} : task'[u] = task[u]
      BY <1>0, <2>1 DEF TypeOK
    <3>5. \A q \in Readers \ {r} : joined[q] \in (Tasks \ {t}) \cup {None}
      BY <1>0, <2>4 DEF TypeOK
    <3> QED
      BY <1>0, <2>2, <3>1, <3>2, <3>3, <3>4, <3>5
      DEF JoinInv, CancellationIsOwn, Running
  <2>9. RunningIsRegistered'
    <3>1. \A u \in Tasks \ {t} : Running(u)' => Running(u)
      BY <1>0, <2>1 DEF TypeOK, Running
    <3>2. \A p \in Pods : p # Home[r] => inflight'[p] = inflight[p]
      BY <1>0, <2>1 DEF TypeOK
    <3>3. inflight'[Home[r]] = t
      BY <1>0, <2>1 DEF TypeOK
    <3>4. \A u \in Tasks : Running(u)' => Registered(u)'
      BY <1>0, <1>2, <3>1, <3>2, <3>3 DEF RunningIsRegistered, Registered
    <3>5. \A p, q \in Pods :
             inflight'[p] # None /\ inflight'[p] = inflight'[q] => p = q
      BY <1>0, <2>3, <3>2, <3>3 DEF RunningIsRegistered
    <3>6. \A p \in stopped : inflight'[p] # None =>
             task'[inflight'[p]] \notin {"query", "fill"}
      <4> SUFFICES ASSUME NEW p \in stopped, inflight'[p] # None
                   PROVE  task'[inflight'[p]] \notin {"query", "fill"}
        OBVIOUS
      <4>1. p \in Pods /\ p # Home[r]
        BY <1>0 DEF TypeOK
      <4>2. inflight'[p] = inflight[p] /\ inflight[p] \in Tasks \ {t}
        BY <1>0, <2>3, <3>2, <4>1 DEF TypeOK
      <4>3. ~Running(inflight[p])
        BY <1>0, <4>2 DEF RunningIsRegistered
      <4>4. task'[inflight[p]] = task[inflight[p]]
        BY <1>0, <2>1, <4>2 DEF TypeOK
      <4> QED
        BY <4>2, <4>3, <4>4 DEF Running
    <3> QED
      BY <1>0, <3>4, <3>5, <3>6 DEF RunningIsRegistered, Running
  <2>10. QuietClear'
    BY <1>0, <2>1, <2>2 DEF TypeOK, QuietClear, Running, Registered
  <2> QED
    BY <2>5, <2>6, <2>7, <2>8, <2>9, <2>10 DEF IInv
<1> QED
  BY <1>1, <1>2 DEF Coalesce

\* A task whose entry and waiters are gone may be forgotten.
LEMMA LeaveStep ==
    ASSUME IInv, NEW r \in Readers, reader[r] = "waiting", Leave(r, "idle")
    PROVE  IInv'
<1> USE ListAssumption DEF writerVars
<1> DEFINE t == joined[r]
<1> DEFINE free == Over(t) /\ ~Registered(t) /\ ~AwaitedByOthers(r, t)
<1>0. /\ TypeOK /\ PageInv /\ VersionInv /\ TableInv /\ JoinInv
      /\ RunningIsRegistered /\ CancellationIsOwn /\ QuietClear
  BY DEF IInv
<1>1. t \in Tasks /\ t # None
  BY <1>0 DEF TypeOK, JoinInv
<1>2. /\ reader' = [reader EXCEPT ![r] = "idle"]
      /\ joined' = [joined EXCEPT ![r] = None]
      /\ task' = [task EXCEPT ![t] = IF free THEN "unborn" ELSE @]
      /\ page' = [page EXCEPT ![t] = IF free THEN None ELSE @]
      /\ UNCHANGED <<version, entry, inflight, writerVars, stopped>>
  BY DEF Leave, Discard
<1> HIDE DEF t
<1>3. TypeOK'
  BY <1>0, <1>1, <1>2 DEF TypeOK
<1>4. \A u \in Tasks : \/ task'[u] = task[u] /\ page'[u] = page[u]
                       \/ u = t /\ free /\ task'[u] = "unborn" /\ page'[u] = None
  BY <1>0, <1>1, <1>2 DEF TypeOK
<1>5. \A u \in Tasks : Running(u)' <=> Running(u)
  BY <1>4 DEF Running, Over
<1>6. PageInv' /\ VersionInv'
  BY <1>0, <1>2, <1>4 DEF PageInv, VersionInv
<1>7. TableInv'
  <2>1. \A p \in Pods : inflight[p] # None => inflight[p] \in Tasks
    BY <1>0 DEF TypeOK
  <2>2. \A p \in Pods : free => inflight[p] # t
    BY DEF Registered
  <2> QED
    BY <1>0, <1>2, <1>4, <2>1, <2>2 DEF TableInv
<1>8. JoinInv' /\ CancellationIsOwn'
  <2>1. \A q \in Readers \ {r} :
           /\ reader'[q] = reader[q] /\ joined'[q] = joined[q]
           /\ joined[q] # None => /\ joined[q] \in Tasks
                                  /\ task'[joined[q]] = task[joined[q]]
    BY <1>0, <1>2, <1>4 DEF TypeOK, AwaitedByOthers
  <2>2. reader'[r] = "idle" /\ joined'[r] = None
    BY <1>0, <1>2 DEF TypeOK
  <2> QED
    BY <1>0, <1>2, <2>1, <2>2 DEF JoinInv, CancellationIsOwn, Running
<1>9. RunningIsRegistered'
  <2>1. \A u \in Tasks : Registered(u)' <=> Registered(u)
    BY <1>2 DEF Registered
  <2>2. \A p \in stopped : inflight[p] # None => inflight[p] \in Tasks
    BY <1>0 DEF TypeOK
  <2> QED
    BY <1>0, <1>2, <1>5, <2>1, <2>2 DEF RunningIsRegistered
<1>10. QuietClear'
  <2>1. \A u \in Tasks : Registered(u)' <=> Registered(u)
    BY <1>2 DEF Registered
  <2> QED
    BY <1>0, <1>2, <1>4, <1>5, <2>1 DEF QuietClear
<1> QED
  BY <1>3, <1>6, <1>7, <1>8, <1>9, <1>10 DEF IInv

LEMMA ReaderStep ==
    ASSUME IInv, NEW r \in Readers, StartRead(r) \/ ReadStep(r) \/ GiveUp(r)
    PROVE  IInv'
<1>0. JoinInv /\ TypeOK
  BY DEF IInv
<1>1. CASE StartRead(r)
  BY <1>1, ReaderMoves DEF StartRead
<1>2. CASE Lookup(r)
  <2>1. Home[r] \notin stopped
    BY <1>0, <1>2 DEF JoinInv, Lookup
  <2> QED
    BY <1>2, <2>1, ReaderMoves DEF Lookup
<1>3. CASE Coalesce(r)
  BY <1>3, CoalesceStep
<1>4. CASE Deliver(r)
  <2>1. task[joined[r]] # "cancelled"
    BY <1>0, <1>4 DEF Deliver, JoinInv
  <2> QED
    BY <1>4, <2>1, LeaveStep DEF Deliver
<1>5. CASE GiveUp(r)
  BY <1>5, LeaveStep DEF GiveUp
<1> QED
  BY <1>1, <1>2, <1>3, <1>4, <1>5 DEF ReadStep

(***************************************************************************)
(* Tasks.                                                                  *)
(***************************************************************************)
\* A task that goes on computing, or ends, keeps its place in the table.
LEMMA QueryFillStep ==
    ASSUME IInv, NEW t \in Tasks, Query(t) \/ Fill(t)
    PROVE  IInv'
<1> USE ListAssumption DEF readerVars, writerVars
<1>0. /\ TypeOK /\ PageInv /\ VersionInv /\ TableInv /\ JoinInv
      /\ RunningIsRegistered /\ CancellationIsOwn /\ QuietClear
  BY DEF IInv
<1>1. /\ Running(t) /\ task'[t] \in {"fill", "failed", "done"}
      /\ \A u \in Tasks \ {t} : task'[u] = task[u]
      /\ UNCHANGED <<version, inflight, readerVars, writerVars, stopped>>
  BY <1>0 DEF Query, Fill, Running, TypeOK
<1>2. \A u \in Tasks : Running(u)' => Running(u)
  BY <1>1 DEF Running
<1>3. /\ \A u \in Tasks : \/ page'[u] = page[u]
                          \/ u = t /\ page'[u] = version /\ task'[u] = "fill"
      /\ page[t] = None /\ page'[t] = None => task'[t] # "fill"
  BY <1>0 DEF Query, Fill, TypeOK, PageInv
<1>4. TypeOK'
  BY <1>0 DEF Query, Fill, TypeOK, PageInv
<1>5. PageInv' /\ VersionInv'
  BY <1>0, <1>1, <1>3 DEF PageInv, VersionInv, TypeOK, Query, Fill
<1>6. TableInv'
  <2>1. \A p \in Pods : inflight[p] # None => inflight[p] \in Tasks
    BY <1>0 DEF TypeOK
  <2> QED
    BY <1>0, <1>1, <2>1 DEF TableInv
<1>7. JoinInv' /\ CancellationIsOwn'
  <2>1. \A q \in Readers : joined[q] # None => joined[q] \in Tasks
    BY <1>0 DEF TypeOK
  <2> QED
    BY <1>0, <1>1, <2>1 DEF JoinInv, CancellationIsOwn, Running
<1>8. RunningIsRegistered'
  <2>1. \A p \in stopped : inflight[p] # None => inflight[p] \in Tasks
    BY <1>0 DEF TypeOK
  <2> QED
    BY <1>0, <1>1, <1>2, <2>1 DEF RunningIsRegistered, Registered
<1>9. QuietClear'
  <2>1. \/ entry' = entry
        \/ entry' = page[t] /\ page[t] # None
    BY <1>0 DEF Query, Fill, PageInv
  <2>2. entry' # None => entry' >= settled
    BY <1>0, <1>1, <2>1 DEF QuietClear
  <2>3. \A u \in Tasks : page'[u] # None /\ (Running(u) \/ Registered(u))
           => page'[u] >= settled
    <3>1. version >= settled
      BY <1>0 DEF VersionInv, TypeOK, Versions
    <3> QED
      BY <1>0, <1>3, <3>1 DEF QuietClear
  <2>4. \A u \in Tasks : Registered(u)' <=> Registered(u)
    BY <1>1 DEF Registered
  <2> QED
    BY <1>1, <1>2, <2>2, <2>3, <2>4 DEF QuietClear
<1> QED
  BY <1>4, <1>5, <1>6, <1>7, <1>8, <1>9 DEF IInv

LEMMA CleanupStep ==
    ASSUME IInv, NEW t \in Tasks, Cleanup(t)
    PROVE  IInv'
<1> USE ListAssumption DEF readerVars, writerVars
<1> DEFINE free == \A r \in Readers : joined[r] # t
<1>0. /\ TypeOK /\ PageInv /\ VersionInv /\ TableInv /\ JoinInv
      /\ RunningIsRegistered /\ CancellationIsOwn /\ QuietClear
  BY DEF IInv
<1>1. PICK p \in Pods : inflight[p] = t /\ inflight' = [inflight EXCEPT ![p] = None]
  BY DEF Cleanup
<1>2. /\ Over(t)
      /\ task' = [task EXCEPT ![t] = IF free THEN "unborn" ELSE @]
      /\ page' = [page EXCEPT ![t] = IF free THEN None ELSE @]
      /\ UNCHANGED <<version, entry, readerVars, writerVars, stopped>>
  BY DEF Cleanup, Discard
<1>3. TypeOK'
  BY <1>0, <1>1, <1>2 DEF TypeOK
<1>4. \A u \in Tasks : \/ task'[u] = task[u] /\ page'[u] = page[u]
                       \/ u = t /\ free /\ task'[u] = "unborn" /\ page'[u] = None
  BY <1>0, <1>2 DEF TypeOK
<1>5. \A u \in Tasks : Running(u)' <=> Running(u)
  BY <1>2, <1>4 DEF Running, Over
<1>6. /\ inflight'[p] = None /\ t # None
      /\ \A q \in Pods \ {p} : inflight'[q] = inflight[q] /\ inflight[q] # t
  BY <1>0, <1>1 DEF TypeOK, RunningIsRegistered
<1>7. PageInv' /\ VersionInv'
  BY <1>0, <1>2, <1>4 DEF PageInv, VersionInv
<1>8. TableInv'
  <2>1. \A q \in Pods : inflight[q] # None => inflight[q] \in Tasks
    BY <1>0 DEF TypeOK
  <2> QED
    BY <1>0, <1>2, <1>4, <1>6, <2>1 DEF TableInv
<1>9. JoinInv' /\ CancellationIsOwn'
  <2>1. \A r \in Readers :
           joined[r] # None => joined[r] \in Tasks /\ task'[joined[r]] = task[joined[r]]
    BY <1>0, <1>4 DEF TypeOK
  <2>2. \A r \in Readers : Running(joined[r]) => joined[r] # t
    BY <1>2 DEF Running, Over
  <2>3. \A r \in Readers : Home[r] \in Pods
    OBVIOUS
  <2> QED
    BY <1>0, <1>1, <1>2, <1>6, <2>1, <2>2, <2>3
    DEF JoinInv, CancellationIsOwn, Running
<1>10. \A u \in Tasks \ {t} : Registered(u)' <=> Registered(u)
  BY <1>1, <1>6 DEF Registered
<1>11. RunningIsRegistered'
  <2>1. ~Running(t)
    BY <1>2 DEF Running, Over
  <2>2. \A u \in Tasks : Running(u)' => Registered(u)'
    BY <1>0, <1>5, <1>10, <2>1 DEF RunningIsRegistered
  <2>3. \A q, s \in Pods :
           inflight'[q] # None /\ inflight'[q] = inflight'[s] => q = s
    BY <1>0, <1>6 DEF RunningIsRegistered
  <2>4. \A q \in stopped : inflight'[q] # None =>
           task'[inflight'[q]] \notin {"query", "fill"}
    <3> SUFFICES ASSUME NEW q \in stopped, inflight'[q] # None
                 PROVE  task'[inflight'[q]] \notin {"query", "fill"}
      OBVIOUS
    <3>1. q \in Pods /\ q # p /\ inflight'[q] = inflight[q] /\ inflight[q] \in Tasks
      BY <1>0, <1>6 DEF TypeOK
    <3>2. ~Running(inflight[q])
      BY <1>0, <3>1 DEF RunningIsRegistered
    <3> QED
      BY <1>5, <3>1, <3>2 DEF Running
  <2> QED
    BY <1>2, <2>2, <2>3, <2>4 DEF RunningIsRegistered, Running
<1>12. QuietClear'
  <2>1. ~Running(t) /\ ~Registered(t)'
    BY <1>2, <1>6, <1>1 DEF Running, Over, Registered
  <2> QED
    BY <1>0, <1>2, <1>4, <1>5, <1>10, <2>1 DEF QuietClear
<1> QED
  BY <1>3, <1>7, <1>8, <1>9, <1>11, <1>12 DEF IInv

\* A pod drains when it serves nobody, so what it cancels nobody awaits.
LEMMA DrainStep ==
    ASSUME IInv, NEW p \in Pods, Drain(p)
    PROVE  IInv'
<1> USE ListAssumption DEF readerVars, writerVars
<1>0. /\ TypeOK /\ PageInv /\ VersionInv /\ TableInv /\ JoinInv
      /\ RunningIsRegistered /\ CancellationIsOwn /\ QuietClear
  BY DEF IInv
<1>1. /\ \A r \in Readers : Home[r] = p => reader[r] = "idle"
      /\ stopped' = stopped \cup {p}
      /\ task' = [t \in Tasks |-> IF inflight[p] = t /\ Running(t)
                                  THEN "cancelled" ELSE task[t]]
      /\ UNCHANGED <<version, entry, inflight, page, readerVars, writerVars>>
  BY <1>0 DEF Drain, CancellationIsOwn
<1>2. \A t \in Tasks : \/ task'[t] = task[t] /\ ~(inflight[p] = t /\ Running(t))
                       \/ inflight[p] = t /\ Running(t) /\ task'[t] = "cancelled"
  BY <1>1
<1>3. \A t \in Tasks : Running(t)' <=> Running(t) /\ inflight[p] # t
  BY <1>2 DEF Running
<1>4. TypeOK'
  BY <1>0, <1>1 DEF TypeOK
<1>5. PageInv' /\ VersionInv'
  BY <1>0, <1>1, <1>2 DEF PageInv, VersionInv
<1>6. \A q \in Pods : inflight[q] # None => inflight[q] \in Tasks
  BY <1>0 DEF TypeOK
<1>7. TableInv'
  BY <1>0, <1>1, <1>2, <1>6 DEF TableInv, RunningIsRegistered
<1>8. JoinInv' /\ CancellationIsOwn'
  <2>1. ASSUME NEW r \in Readers, joined[r] # None
        PROVE  joined[r] \in Tasks /\ task'[joined[r]] = task[joined[r]]
    <3>1. joined[r] \in Tasks /\ reader[r] = "waiting" /\ Home[r] \in Pods
      BY <1>0, <2>1 DEF TypeOK, JoinInv
    <3>2. Home[r] # p
      BY <1>1, <3>1
    <3>3. ~(inflight[p] = joined[r] /\ Running(joined[r]))
      BY <1>0, <2>1, <3>1, <3>2 DEF JoinInv, RunningIsRegistered
    <3> QED
      BY <1>2, <3>1, <3>3
  <2>2. \A r \in Readers : reader[r] # "idle" => Home[r] \notin stopped'
    BY <1>0, <1>1 DEF JoinInv
  <2> QED
    BY <1>0, <1>1, <2>1, <2>2 DEF JoinInv, CancellationIsOwn, Running
<1>9. \A t \in Tasks : Registered(t)' <=> Registered(t)
  BY <1>1 DEF Registered
<1>10. RunningIsRegistered'
  <2>1. \A q \in stopped \cup {p} : inflight[q] # None =>
           task'[inflight[q]] \notin {"query", "fill"}
    <3> SUFFICES ASSUME NEW q \in stopped \cup {p}, inflight[q] # None
                 PROVE  task'[inflight[q]] \notin {"query", "fill"}
      OBVIOUS
    <3>1. inflight[q] \in Tasks
      BY <1>0, <1>6 DEF TypeOK
    <3>2. CASE q = p
      BY <1>3, <3>1, <3>2 DEF Running
    <3>3. CASE q \in stopped
      <4>1. ~Running(inflight[q])
        BY <1>0, <3>3 DEF RunningIsRegistered
      <4> QED
        BY <1>3, <3>1, <4>1 DEF Running
    <3> QED
      BY <3>2, <3>3
  <2> QED
    BY <1>0, <1>1, <1>3, <1>9, <2>1 DEF RunningIsRegistered, Running
<1>11. QuietClear'
  BY <1>0, <1>1, <1>3, <1>9 DEF QuietClear
<1> QED
  BY <1>4, <1>5, <1>7, <1>8, <1>10, <1>11 DEF IInv

(***************************************************************************)
(* Operators, collectors and time, which move no reader and no task.       *)
(***************************************************************************)
LEMMA OutsideStep ==
    ASSUME IInv,
           \/ \E w \in Writers : OperatorWrite(w) \/ ClearList(w)
           \/ Ingest \/ Expire \/ UNCHANGED vars
    PROVE  IInv'
<1> USE ListAssumption DEF taskVars, readerVars, writerVars
<1>0. /\ TypeOK /\ PageInv /\ VersionInv /\ TableInv /\ JoinInv
      /\ RunningIsRegistered /\ CancellationIsOwn /\ QuietClear
  BY DEF IInv
<1>1. UNCHANGED <<inflight, task, page, reader, joined, stopped>>
  BY DEF OperatorWrite, ClearList, Ingest, Expire, vars
<1>2. PageInv' /\ TableInv' /\ JoinInv' /\ RunningIsRegistered' /\ CancellationIsOwn'
  BY <1>0, <1>1
  DEF PageInv, TableInv, JoinInv, RunningIsRegistered, CancellationIsOwn,
      Running, Registered
<1>3. TypeOK' /\ VersionInv' /\ QuietClear'
  <2>1. CASE \E w \in Writers : OperatorWrite(w)
    <3>1. PICK w \in Writers : OperatorWrite(w)
      BY <2>1
    <3> QED
      BY <1>0, <1>1, <3>1
      DEF OperatorWrite, TypeOK, VersionInv, QuietClear, Running, Registered,
          Versions
  <2>2. CASE \E w \in Writers : ClearList(w)
    <3>1. PICK w \in Writers : ClearList(w)
      BY <2>2
    <3>2. wrote[w] \in Versions /\ wrote[w] <= version /\ version \in Versions
          /\ settled \in Versions
      BY <1>0 DEF TypeOK, VersionInv
    <3>3. \/ settled' = settled
          \/ settled' = wrote[w] /\ entry' = None /\ ~OlderPageHeld(wrote[w])
      BY <3>1 DEF ClearList, Acknowledge
    <3>4. TypeOK' /\ VersionInv'
      BY <1>0, <1>1, <3>1, <3>2 DEF ClearList, Acknowledge, TypeOK, VersionInv
    <3>5. entry' = entry \/ entry' = None
      BY <3>1 DEF ClearList
    <3>6. QuietClear'
      BY <1>0, <1>1, <3>2, <3>3, <3>5
      DEF QuietClear, OlderPageHeld, Running, Registered, TypeOK, Versions
    <3> QED
      BY <3>4, <3>6
  <2>3. CASE Ingest \/ Expire \/ UNCHANGED vars
    BY <1>0, <1>1, <2>3
    DEF Ingest, Expire, vars, TypeOK, VersionInv, QuietClear, Running,
        Registered, Versions
  <2> QED
    BY <2>1, <2>2, <2>3
<1> QED
  BY <1>2, <1>3 DEF IInv

LEMMA NextIInv == IInv /\ [Next]_vars => IInv'
<1> SUFFICES ASSUME IInv, [Next]_vars PROVE IInv'
  OBVIOUS
<1>1. ASSUME NEW r \in Readers, StartRead(r) \/ ReadStep(r) \/ GiveUp(r)
      PROVE  IInv'
  BY <1>1, ReaderStep
<1>2. ASSUME NEW t \in Tasks, TaskStep(t) PROVE IInv'
  BY <1>2, QueryFillStep, CleanupStep DEF TaskStep
<1>3. ASSUME NEW p \in Pods, Drain(p) PROVE IInv'
  BY <1>3, DrainStep
<1> QED
  BY <1>1, <1>2, <1>3, OutsideStep DEF Next

(***************************************************************************)
(* Redis, the tables, the tasks and the callers stay within their types.   *)
(***************************************************************************)
THEOREM ListTypes == Spec => []TypeOK
<1>1. IInv => TypeOK
  BY DEF IInv
<1> QED
  BY <1>1, InitIInv, NextIInv, PTL DEF Spec

(***************************************************************************)
(* One computation per process: whatever computes is in its process's      *)
(* table, and nothing of a drained process computes.                       *)
(***************************************************************************)
THEOREM OneComputation == Spec => []RunningIsRegistered
<1>1. IInv => RunningIsRegistered
  BY DEF IInv
<1> QED
  BY <1>1, InitIInv, NextIInv, PTL DEF Spec

(***************************************************************************)
(* Nobody who is still asking is cancelled, by another caller or by drain. *)
(***************************************************************************)
THEOREM CancellationIsPrivate == Spec => []CancellationIsOwn
<1>1. IInv => CancellationIsOwn
  BY DEF IInv
<1> QED
  BY <1>1, InitIInv, NextIInv, PTL DEF Spec

(***************************************************************************)
(* A clear that met no older page is final, in Redis and in every process. *)
(***************************************************************************)
THEOREM ClearIsFinal == Spec => []QuietClear
<1>1. IInv => QuietClear
  BY DEF IInv
<1> QED
  BY <1>1, InitIInv, NextIInv, PTL DEF Spec
=============================================================================
