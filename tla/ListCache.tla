------------------------------ MODULE ListCache ------------------------------
(***************************************************************************)
(* GET /servers (and /servers/rows) behind Redis and behind the in-process *)
(* request coalescing of singleflight.py, for one cache key.               *)
(*                                                                         *)
(* A reader that misses Redis joins the computation its own process has in *)
(* flight for the key, or starts one in a task of its own: query MongoDB,  *)
(* write the page to Redis, return it to everyone waiting.  asyncio takes  *)
(* the finished task out of the table in a callback, one turn of the event *)
(* loop later.  Operators clear the key between their write and their      *)
(* answer; collectors let the page grow stale until its TTL.               *)
(***************************************************************************)
EXTENDS Naturals

CONSTANTS
    Pods,        \* API processes
    Readers,     \* list requests under way at one time
    Home,        \* the pod that serves each reader
    Tasks,       \* the asyncio tasks alive at one time
    Writers,     \* operator writes
    MaxVersion,  \* bound on the versions of the page
    RedisFails,  \* whether a Redis call may fail
    None         \* no entry, no task, no page

Versions == 0..MaxVersion

ASSUME ListAssumption ==
    /\ Home \in [Readers -> Pods]
    /\ MaxVersion \in Nat
    /\ RedisFails \in BOOLEAN
    /\ None \notin Versions \cup Tasks

VARIABLES
    version,  \* what list_page would return now
    entry,    \* the cached page
    inflight, \* _inflight of each pod, for this key
    task,     \* where each task is
    page,     \* the page each task has read
    reader,   \* where each reader is
    joined,   \* the task each reader awaits
    writer,   \* where each operator is
    wrote,    \* the version each operator's write produced
    stopped,  \* the pods that have shut down
    acked,    \* history: the newest version an operator was answered for
    settled   \* history: the newest one acknowledged with no older fill under way

taskVars == <<inflight, task, page>>
readerVars == <<reader, joined>>
writerVars == <<writer, wrote, acked, settled>>
vars == <<version, entry, taskVars, readerVars, writerVars, stopped>>

Init ==
    /\ version = 0
    /\ entry = None
    /\ inflight = [p \in Pods |-> None]
    /\ task = [t \in Tasks |-> "unborn"]
    /\ page = [t \in Tasks |-> None]
    /\ reader = [r \in Readers |-> "idle"]
    /\ joined = [r \in Readers |-> None]
    /\ writer = [w \in Writers |-> "idle"]
    /\ wrote = [w \in Writers |-> 0]
    /\ stopped = {}
    /\ acked = 0
    /\ settled = 0

Running(t) == task[t] \in {"query", "fill"}

Over(t) == task[t] \in {"done", "failed", "cancelled"}

(***************************************************************************)
(* The readers: list_servers and coalesce.                                 *)
(***************************************************************************)
StartRead(r) ==
    /\ reader[r] = "idle" /\ Home[r] \notin stopped
    /\ reader' = [reader EXCEPT ![r] = "lookup"]
    /\ UNCHANGED <<version, entry, taskVars, joined, writerVars, stopped>>

\* cache.get_raw: a hit is answered as it is, a failure is a miss.
Lookup(r) ==
    /\ reader[r] = "lookup"
    /\ \/ /\ entry # None
          /\ reader' = [reader EXCEPT ![r] = "idle"]
       \/ /\ entry = None \/ RedisFails
          /\ reader' = [reader EXCEPT ![r] = "missed"]
    /\ UNCHANGED <<version, entry, taskVars, joined, writerVars, stopped>>

Await(r, t) ==
    /\ reader' = [reader EXCEPT ![r] = "waiting"]
    /\ joined' = [joined EXCEPT ![r] = t]

StartTask(r) ==
    \E t \in Tasks :
        /\ task[t] = "unborn"
        /\ task' = [task EXCEPT ![t] = "query"]
        /\ inflight' = [inflight EXCEPT ![Home[r]] = t]
        /\ Await(r, t)

\* Mutant: every caller starts a computation of its own.
CoalesceNothing(r) ==
    /\ reader[r] = "missed"
    /\ StartTask(r)
    /\ UNCHANGED <<version, entry, page, writerVars, stopped>>

Coalesce(r) ==
    /\ reader[r] = "missed"
    /\ \/ /\ inflight[Home[r]] # None
          /\ Await(r, inflight[Home[r]])
          /\ UNCHANGED <<inflight, task>>
       \/ /\ inflight[Home[r]] = None
          /\ StartTask(r)
    /\ UNCHANGED <<version, entry, page, writerVars, stopped>>

\* A task that is over, out of the table and awaited by nobody is garbage:
\* its place may be taken again.
Discard(t, after) ==
    /\ task' = [task EXCEPT ![t] = IF after THEN "unborn" ELSE @]
    /\ page' = [page EXCEPT ![t] = IF after THEN None ELSE @]

AwaitedByOthers(r, t) == \E q \in Readers \ {r} : joined[q] = t

Registered(t) == \E p \in Pods : inflight[p] = t

Leave(r, place) ==
    /\ reader' = [reader EXCEPT ![r] = place]
    /\ joined' = [joined EXCEPT ![r] = None]
    /\ Discard(joined[r], /\ Over(joined[r]) /\ ~Registered(joined[r])
                          /\ ~AwaitedByOthers(r, joined[r]))
    /\ UNCHANGED <<version, entry, inflight, writerVars, stopped>>

\* Mutant: only a result wakes the waiters, an exception is kept.
DeliverResultOnly(r) ==
    /\ reader[r] = "waiting" /\ task[joined[r]] = "done"
    /\ Leave(r, "idle")

\* The task's result, its exception or its cancellation reaches the reader.
Deliver(r) ==
    /\ reader[r] = "waiting" /\ Over(joined[r])
    /\ Leave(r, IF task[joined[r]] = "cancelled" THEN "cancelled" ELSE "idle")

\* Mutant: awaiting the task itself, not a shield around it.
GiveUpUnshielded(r) ==
    /\ reader[r] = "waiting"
    /\ reader' = [reader EXCEPT ![r] = "idle"]
    /\ joined' = [joined EXCEPT ![r] = None]
    /\ task' = [task EXCEPT ![joined[r]] = IF Running(joined[r]) THEN "cancelled" ELSE @]
    /\ UNCHANGED <<version, entry, inflight, page, writerVars, stopped>>

\* The request itself is cancelled (shutdown expiry, a timeout).
GiveUp(r) ==
    /\ reader[r] = "waiting"
    /\ Leave(r, "idle")

(***************************************************************************)
(* The computation: _compute in its own task, and its done callback.       *)
(***************************************************************************)
\* repo.list_page, or its failure.
Query(t) ==
    /\ task[t] = "query"
    /\ \/ /\ task' = [task EXCEPT ![t] = "fill"]
          /\ page' = [page EXCEPT ![t] = version]
       \/ /\ task' = [task EXCEPT ![t] = "failed"]
          /\ UNCHANGED page
    /\ UNCHANGED <<version, entry, inflight, readerVars, writerVars, stopped>>

\* Mutant: what is cached is the task, not its result.
FillTask(t) ==
    /\ task[t] = "fill"
    /\ task' = [task EXCEPT ![t] = "done"]
    /\ entry' = t
    /\ UNCHANGED <<version, inflight, page, readerVars, writerVars, stopped>>

\* cache.set, which never raises.
Fill(t) ==
    /\ task[t] = "fill"
    /\ task' = [task EXCEPT ![t] = "done"]
    /\ \/ entry' = page[t]
       \/ RedisFails /\ UNCHANGED entry
    /\ UNCHANGED <<version, inflight, page, readerVars, writerVars, stopped>>

\* Mutant: the entry is only removed after a success.
CleanupSuccessOnly(t) ==
    /\ task[t] = "done"
    /\ \E p \in Pods :
          /\ inflight[p] = t
          /\ inflight' = [inflight EXCEPT ![p] = None]
    /\ Discard(t, \A r \in Readers : joined[r] # t)
    /\ UNCHANGED <<version, entry, readerVars, writerVars, stopped>>

Cleanup(t) ==
    /\ Over(t)
    /\ \E p \in Pods :
          /\ inflight[p] = t
          /\ inflight' = [inflight EXCEPT ![p] = None]
    /\ Discard(t, \A r \in Readers : joined[r] # t)
    /\ UNCHANGED <<version, entry, readerVars, writerVars, stopped>>

\* drain: uvicorn has ended every request of the pod; what still computes is
\* cancelled before the clients close.
Drain(p) ==
    /\ p \notin stopped
    /\ \A r \in Readers : Home[r] = p => reader[r] \in {"idle", "cancelled"}
    /\ stopped' = stopped \cup {p}
    /\ task' = [t \in Tasks |-> IF inflight[p] = t /\ Running(t)
                                THEN "cancelled" ELSE task[t]]
    /\ UNCHANGED <<version, entry, inflight, page, readerVars, writerVars>>

(***************************************************************************)
(* The writers, and time.                                                  *)
(***************************************************************************)
OperatorWrite(w) ==
    /\ writer[w] = "idle" /\ version < MaxVersion
    /\ version' = version + 1
    /\ wrote' = [wrote EXCEPT ![w] = version + 1]
    /\ writer' = [writer EXCEPT ![w] = "clear"]
    /\ UNCHANGED <<entry, taskVars, readerVars, acked, settled, stopped>>

\* A task holding a page older than v that may still reach Redis or a reader.
OlderPageHeld(v) ==
    \E t \in Tasks : page[t] # None /\ page[t] < v /\ (Running(t) \/ Registered(t))

Acknowledge(v) ==
    /\ acked' = IF v > acked THEN v ELSE acked
    /\ settled' = IF v > settled /\ ~OlderPageHeld(v) THEN v ELSE settled

\* Mutant: one glob for both shapes, which SCAN matches against nothing.
ClearNothing(w) ==
    /\ writer[w] = "clear"
    /\ writer' = [writer EXCEPT ![w] = "done"]
    /\ Acknowledge(wrote[w])
    /\ UNCHANGED <<version, entry, taskVars, readerVars, wrote, stopped>>

\* delete_matching over the list patterns, then the answer.  For one key the
\* scan and the delete take effect together: at the delete if the scan saw the
\* key, at the scan if it did not.
ClearList(w) ==
    /\ writer[w] = "clear"
    /\ writer' = [writer EXCEPT ![w] = "done"]
    /\ \/ entry' = None /\ Acknowledge(wrote[w])
       \/ RedisFails /\ UNCHANGED <<entry, acked, settled>>
    /\ UNCHANGED <<version, taskVars, readerVars, wrote, stopped>>

\* A collector stores something the page shows.
Ingest ==
    /\ version < MaxVersion
    /\ version' = version + 1
    /\ UNCHANGED <<entry, taskVars, readerVars, writerVars, stopped>>

\* Mutant: the page is set without ex=.
ExpireNever == FALSE /\ UNCHANGED vars

\* LIST_PAGE_TTL_SECONDS after the entry was set.
Expire ==
    /\ entry # None
    /\ entry' = None
    /\ UNCHANGED <<version, taskVars, readerVars, writerVars, stopped>>

ReadStep(r) == Lookup(r) \/ Coalesce(r) \/ Deliver(r)

TaskStep(t) == Query(t) \/ Fill(t) \/ Cleanup(t)

Next ==
    \/ \E r \in Readers : StartRead(r) \/ ReadStep(r) \/ GiveUp(r)
    \/ \E t \in Tasks : TaskStep(t)
    \/ \E p \in Pods : Drain(p)
    \/ \E w \in Writers : OperatorWrite(w) \/ ClearList(w)
    \/ Ingest
    \/ Expire

Spec == Init /\ [][Next]_vars

\* The event loop runs what is ready, Redis drops what has expired.
Fairness ==
    /\ \A r \in Readers : WF_vars(ReadStep(r))
    /\ \A t \in Tasks : WF_vars(TaskStep(t))
    /\ WF_vars(Expire)

FairSpec == Spec /\ Fairness

(***************************************************************************)
(* Properties.                                                             *)
(***************************************************************************)
TypeOK ==
    /\ version \in Versions
    /\ entry \in Versions \cup {None}
    /\ inflight \in [Pods -> Tasks \cup {None}]
    /\ task \in [Tasks -> {"unborn", "query", "fill", "done", "failed", "cancelled"}]
    /\ page \in [Tasks -> Versions \cup {None}]
    /\ reader \in [Readers -> {"idle", "lookup", "missed", "waiting", "cancelled"}]
    /\ joined \in [Readers -> Tasks \cup {None}]
    /\ writer \in [Writers -> {"idle", "clear", "done"}]
    /\ wrote \in [Writers -> Versions]
    /\ stopped \subseteq Pods
    /\ acked \in Versions
    /\ settled \in Versions

(***************************************************************************)
(* One computation per process: every task that computes is the one its    *)
(* process's table names, and no two processes name the same one - the     *)
(* stampede singleflight exists to stop, and what lets drain find every    *)
(* computation before the clients close.                                   *)
(***************************************************************************)
RunningIsRegistered ==
    /\ \A t \in Tasks : Running(t) => Registered(t)
    /\ \A p, q \in Pods : inflight[p] # None /\ inflight[p] = inflight[q] => p = q
    /\ \A p \in stopped : inflight[p] # None => ~Running(inflight[p])

(***************************************************************************)
(* A caller that gives up never takes the others with it: nobody who is    *)
(* still asking sees a CancelledError (asyncio.shield, "no caller's own    *)
(* cancellation can reach the task doing the work").                       *)
(***************************************************************************)
CancellationIsOwn == \A r \in Readers : reader[r] # "cancelled"

(***************************************************************************)
(* What clearing does give: once an operator's write was acknowledged, the *)
(* delete reached Redis and no task of any process held an older page at   *)
(* that moment, neither Redis nor a computation serves an older page again.*)
(***************************************************************************)
QuietClear ==
    /\ entry # None => entry >= settled
    /\ \A t \in Tasks : page[t] # None /\ (Running(t) \/ Registered(t)) => page[t] >= settled

(***************************************************************************)
(* Everyone who waits is answered, whoever else gives up or fails.         *)
(***************************************************************************)
WaitersAnswered ==
    \A r \in Readers : reader[r] = "waiting" ~> reader[r] # "waiting"

(***************************************************************************)
(* The table forgets: a computation that is over, whatever its end, leaves *)
(* _inflight, so that a failure is never shared with later callers for     *)
(* ever (_cleanup).                                                        *)
(***************************************************************************)
TableForgets ==
    \A t \in Tasks : Registered(t) /\ Over(t) ~> ~(Registered(t) /\ Over(t))

(***************************************************************************)
(* Staleness ends: once the writes stop, the cached page is eventually the *)
(* current one for ever.                                                   *)
(***************************************************************************)
ListConverges == <>[](entry # None => entry = version)

(***************************************************************************)
(* ADR-0028: "The "Maintenance only" filter is correct the instant a write *)
(* returns" - the page Redis serves is no older than an acknowledged write.*)
(***************************************************************************)
CorrectOnceAnswered == entry # None => entry >= acked

(***************************************************************************)
(* coalesce: "Dedupes overlap only - a caller arriving after the           *)
(* computation finished runs its own; this is not a cache."                *)
(***************************************************************************)
DedupesOverlapOnly ==
    [][\A r \in Readers :
          reader[r] = "missed" /\ reader'[r] = "waiting" => ~Over(joined'[r])]_vars
=============================================================================
