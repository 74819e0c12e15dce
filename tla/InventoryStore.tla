--------------------------- MODULE InventoryStore ---------------------------
(***************************************************************************)
(* The `servers` collection and every writer of it.                        *)
(*                                                                         *)
(* A server is ONE MongoDB document that several independent writers own   *)
(* parts of: the collectors (hardware facts and verdicts), operators       *)
(* (maintenance), installers (the install lock), the OpenShift membership  *)
(* jobs, the reclassify/recalculate endpoints and the prune job.  None of  *)
(* them holds a lock while it works: each reads the document, computes a   *)
(* new one in memory and writes it back with a compare-and-set on          *)
(* `revision`.  Every await is a separate step here, so that any other     *)
(* writer, the clock or a crash may come between two of them.              *)
(***************************************************************************)
EXTENDS Naturals, Sequences, FiniteSets

CONSTANTS
    Ids,        \* the server ids new_id("server") may draw
    Machines,   \* physical machines: what (vendor, serial_normalized) names
    Names,      \* holders, workflow ids and clusters
    Values,     \* what a collector reads, an engine answers, a reason says
    TTLs,       \* the lock lifetimes a caller may ask for
    Requests,   \* the requests and job passes of one behaviour
    Jobs,       \* what a request may be asked to do, a subset of JobSpace
    InitStores, \* the collections a behaviour may start from
    PruneAge,   \* INVENTORY_PRUNE_AFTER_SECONDS, in ticks
    MaxTime,    \* bound on the clock
    MaxCrashes, \* bound on the requests that die half way
    MaxAttempts,\* _MAX_WRITE_ATTEMPTS
    None,       \* Python's None
    NoDoc       \* no document with this _id

VARIABLES
    store,      \* the collection: Ids -> document or NoDoc
    now,        \* utcnow(), in ticks
    drawn,      \* the ids new_id has handed out so far
    pc,         \* where each request's coroutine is
    job,        \* what each request was asked to do
    asof,       \* the one `now` a prune pass takes when it begins
    tgt,        \* the id each request works on
    snap,       \* the document each request last read
    draft,      \* the document each request is about to write
    tries,      \* ingest's attempt counter
    owed,       \* the audit events a request has still to record
    outcome,    \* what the caller is told
    audit,      \* the recorded audit events
    committed   \* history: the requests whose content write was applied

vars == <<store, now, drawn, pc, job, asof, tgt, snap, draft, tries, owed,
          outcome, audit, committed>>

(***************************************************************************)
(* Documents.                                                              *)
(***************************************************************************)
Reservation ==
    [holder: Names \cup {None}, wf: Names \cup {None},
     created: Nat \cup {None}, expires: Nat \cup {None}]

NoReservation ==
    [holder |-> None, wf |-> None, created |-> None, expires |-> None]

Maintenance == [by: Names \cup {None}, reason: Values \cup {None}]

NoMaintenance == [by |-> None, reason |-> None]

Doc ==
    [machine: Machines, rev: Nat, name: Values, facts: Values, cls: Values,
     hlth: Values, maint: Maintenance, resv: Reservation, osh: Names \cup {None},
     listed: Nat \cup {None}, legacy: BOOLEAN]

JobSpace ==
    [op: {"reserve", "release", "enable", "disable", "reclassify",
          "recalculate", "member", "ingest", "prune"},
     id: Ids, machine: Machines, holder: Names \cup {None},
     wf: Names \cup {None}, ttl: TTLs, name: Values, val: Values,
     verdict: Values]

ASSUME StoreAssumption ==
    /\ Jobs \subseteq JobSpace
    /\ InitStores \subseteq [Ids -> Doc \cup {NoDoc}]
    \* uniq_vendor_serial holds of what is stored.
    /\ \A s \in InitStores : \A i, k \in Ids :
          /\ s[i] # NoDoc /\ s[k] # NoDoc
          /\ s[i].machine = s[k].machine
          => i = k
    /\ TTLs \subseteq Nat \ {0}
    /\ PruneAge \in Nat
    /\ MaxTime \in Nat
    /\ MaxCrashes \in Nat
    /\ MaxAttempts \in Nat \ {0}
    /\ NoDoc \notin Doc
    /\ None \notin Nat \cup Names \cup Values
    \* ReserveServerRequest.holder is a required, non-empty string, and a
    \* maintenance window is opened by a named actor.
    /\ \A j \in Jobs : j.op \in {"reserve", "enable"} => j.holder # None

(***************************************************************************)
(* The pure parts.                                                         *)
(***************************************************************************)
IsLive(res, t) ==
    /\ res.holder # None
    /\ res.expires # None => t < res.expires

\* Mutant: sameness keyed on the holder alone.
IsSameHolder(res, holder, wf) == res.holder = holder

IsSameClaim(res, holder, wf) ==
    /\ res.holder = holder
    /\ (wf = None /\ res.wf = None) \/ res.wf = wf

\* Everything but the "last confirmed" stamp that touch_seen and
\* backfill_listed_at refresh without moving the revision.
Content(d) ==
    <<d.machine, d.name, d.facts, d.cls, d.hlth, d.maint, d.resv, d.osh, d.legacy>>

\* Serialising the model writes every field, so a rewritten document no
\* longer predates any.
Bump(d) == [d EXCEPT !.rev = @ + 1, !.legacy = FALSE]

Reserved(d, j, t) ==
    [Bump(d) EXCEPT !.resv =
        [holder  |-> j.holder, wf |-> j.wf,
         created |-> IF IsLive(d.resv, t) THEN d.resv.created ELSE t,
         expires |-> t + j.ttl]]

\* Mutant: the sub-document is dropped instead of emptied.
ReleasedToNull(d) == [Bump(d) EXCEPT !.resv = None]

Released(d) == [Bump(d) EXCEPT !.resv = NoReservation]

Enabled(d, j) ==
    [Bump(d) EXCEPT !.maint =
        [by     |-> IF d.maint.by # None THEN d.maint.by ELSE j.holder,
         reason |-> j.val]]

Disabled(d) == [Bump(d) EXCEPT !.maint = NoMaintenance]

Reclassified(d, j) == [Bump(d) EXCEPT !.cls = j.verdict]

Recalculated(d, j) == [Bump(d) EXCEPT !.hlth = j.verdict]

\* Mutant: the write forgets to bump the revision.
JoinedUnbumped(d, j) == [d EXCEPT !.osh = j.holder]

Joined(d, j) == [Bump(d) EXCEPT !.osh = j.holder]

\* Mutant: maintenance missing from the carry-forward set.
BuildServerForgetful(d, j, t) ==
    [Bump(d) EXCEPT !.name = j.name, !.facts = j.val, !.cls = j.verdict,
                    !.hlth = j.verdict, !.listed = t, !.maint = NoMaintenance]

BuildServer(d, j, t) ==
    [Bump(d) EXCEPT !.name = j.name, !.facts = j.val, !.cls = j.verdict,
                    !.hlth = j.verdict, !.listed = t]

NewServer(j, t) ==
    [machine |-> j.machine, rev |-> 1, name |-> j.name, facts |-> j.val,
     cls |-> j.verdict, hlth |-> j.verdict, maint |-> NoMaintenance, resv |-> NoReservation,
     osh |-> None, listed |-> t, legacy |-> FALSE]

Unchanged(d, e) ==
    /\ ~d.legacy
    /\ d.name = e.name /\ d.facts = e.facts
    /\ d.cls = e.cls /\ d.hlth = e.hlth

\* The audit events a committed write owes, in the order they are recorded.
If(cond, event) == IF cond THEN <<event>> ELSE <<>>

TransitionEvents(d, e) ==
    If(d.name # e.name, "SERVER_RENAMED")
    \o If(d.cls # e.cls, "CLASSIFICATION_CHANGED")
    \o If(d.hlth # e.hlth, "HEALTH_CHANGED")

EventsOf(op, d, e) ==
    CASE op = "reserve"     -> <<"SERVER_RESERVED">>
      [] op = "release"     -> <<"SERVER_RELEASED">>
      [] op = "enable"      -> <<IF d.maint.by # None THEN "MAINTENANCE_UPDATED"
                                                      ELSE "MAINTENANCE_ENABLED">>
      [] op = "disable"     -> If(d.maint.by # None, "MAINTENANCE_DISABLED")
      [] op = "reclassify"  -> If(d.cls # e.cls, "CLASSIFICATION_CHANGED")
      [] op = "recalculate" -> If(d.hlth # e.hlth, "HEALTH_CHANGED")
      [] op = "member"      -> If((d.osh = None) # (e.osh = None),
                                  "OPENSHIFT_STATE_CHANGED")
      [] op = "ingest"      -> TransitionEvents(d, e)

EventTypes ==
    {"SERVER_RESERVED", "SERVER_RESERVATION_REFUSED", "SERVER_RELEASED",
     "MAINTENANCE_ENABLED", "MAINTENANCE_UPDATED", "MAINTENANCE_DISABLED",
     "SERVER_CREATED", "SERVER_RENAMED", "CLASSIFICATION_CHANGED",
     "HEALTH_CHANGED", "OPENSHIFT_STATE_CHANGED", "SERVER_PRUNED"}

(***************************************************************************)
(* Initial states: some documents in the store, one job per request.       *)
(***************************************************************************)
Init ==
    /\ store \in InitStores
    /\ drawn = {i \in Ids : store[i] # NoDoc}
    /\ now = 0
    /\ job \in [Requests -> Jobs]
    /\ asof = [r \in Requests |-> 0]
    /\ pc = [r \in Requests |-> "start"]
    /\ tgt = [r \in Requests |-> job[r].id]
    /\ snap = [r \in Requests |-> NoDoc]
    /\ draft = [r \in Requests |-> NoDoc]
    /\ tries = [r \in Requests |-> 1]
    /\ owed = [r \in Requests |-> <<>>]
    /\ outcome = [r \in Requests |-> "none"]
    /\ audit = {}
    /\ committed = {}

(***************************************************************************)
(* Steps shared by the handlers.                                           *)
(***************************************************************************)
\* The handler goes on to its audit.record calls, then returns `out`.
Settle(r, events, out) ==
    /\ owed' = [owed EXCEPT ![r] = events]
    /\ outcome' = [outcome EXCEPT ![r] = out]
    /\ pc' = [pc EXCEPT ![r] = IF events = <<>> THEN "done" ELSE "record"]

RecordEvent(r) ==
    /\ pc[r] = "record"
    /\ audit' = audit \cup {[type |-> Head(owed[r]), req |-> r]}
    /\ owed' = [owed EXCEPT ![r] = Tail(@)]
    /\ pc' = [pc EXCEPT ![r] =
                 IF Tail(owed[r]) # <<>> THEN "record"
                 ELSE IF job[r].op = "prune" THEN "delete" ELSE "done"]
    /\ UNCHANGED <<store, now, drawn, job, asof, tgt, snap, draft, tries, outcome,
                   committed>>

ByIdOps == {"reserve", "release", "enable", "disable", "reclassify",
            "recalculate", "member"}

GetById(r) ==
    /\ pc[r] = "start" /\ job[r].op \in ByIdOps
    /\ snap' = [snap EXCEPT ![r] = store[tgt[r]]]
    /\ IF store[tgt[r]] = NoDoc
       THEN Settle(r, <<>>, "notfound")
       ELSE /\ pc' = [pc EXCEPT ![r] = "decide"]
            /\ UNCHANGED <<owed, outcome>>
    /\ UNCHANGED <<store, now, drawn, job, asof, tgt, draft, tries, audit,
                   committed>>

\* The handler has built the document it wants stored.
Draft(r, d) ==
    /\ draft' = [draft EXCEPT ![r] = d]
    /\ pc' = [pc EXCEPT ![r] = "write"]
    /\ UNCHANGED <<store, now, drawn, job, asof, tgt, snap, tries, owed, outcome,
                   audit, committed>>

\* The handler answers without writing.
Answer(r, events, out) ==
    /\ Settle(r, events, out)
    /\ UNCHANGED <<store, now, drawn, job, asof, tgt, snap, draft, tries, audit,
                   committed>>

(***************************************************************************)
(* ReservationService.                                                     *)
(***************************************************************************)
HeldByOther(r) ==
    /\ IsLive(snap[r].resv, now)
    /\ ~IsSameClaim(snap[r].resv, job[r].holder, job[r].wf)

\* Mutant: the refusal is recorded but not raised.
ReserveNotRaised(r) ==
    /\ pc[r] = "decide" /\ job[r].op = "reserve"
    /\ draft' = [draft EXCEPT ![r] = Reserved(snap[r], job[r], now)]
    /\ audit' = audit \cup IF HeldByOther(r)
                           THEN {[type |-> "SERVER_RESERVATION_REFUSED", req |-> r]}
                           ELSE {}
    /\ pc' = [pc EXCEPT ![r] = "write"]
    /\ UNCHANGED <<store, now, drawn, job, asof, tgt, snap, tries, owed, outcome,
                   committed>>

Reserve(r) ==
    /\ pc[r] = "decide" /\ job[r].op = "reserve"
    /\ \/ HeldByOther(r)
          /\ Answer(r, <<"SERVER_RESERVATION_REFUSED">>, "conflict")
       \/ ~HeldByOther(r)
          /\ Draft(r, Reserved(snap[r], job[r], now))

Release(r) ==
    /\ pc[r] = "decide" /\ job[r].op = "release"
    /\ \/ ~IsLive(snap[r].resv, now)
          /\ Answer(r, <<>>, "ok")
       \/ job[r].holder # None /\ HeldByOther(r)
          /\ Answer(r, <<>>, "conflict")
       \/ IsLive(snap[r].resv, now)
          /\ ~(job[r].holder # None /\ HeldByOther(r))
          /\ Draft(r, Released(snap[r]))

(***************************************************************************)
(* MaintenanceService, the two engine endpoints, the membership write.     *)
(***************************************************************************)
Enable(r) ==
    /\ pc[r] = "decide" /\ job[r].op = "enable"
    /\ Draft(r, Enabled(snap[r], job[r]))

Disable(r) ==
    /\ pc[r] = "decide" /\ job[r].op = "disable"
    /\ Draft(r, Disabled(snap[r]))

Reclassify(r) ==
    /\ pc[r] = "decide" /\ job[r].op = "reclassify"
    /\ Draft(r, Reclassified(snap[r], job[r]))

Recalculate(r) ==
    /\ pc[r] = "decide" /\ job[r].op = "recalculate"
    /\ Draft(r, Recalculated(snap[r], job[r]))

WriteMembership(r) ==
    /\ pc[r] = "decide" /\ job[r].op = "member"
    /\ \/ snap[r].osh = job[r].holder
          /\ Answer(r, <<>>, "ok")
       \/ snap[r].osh # job[r].holder
          /\ Draft(r, Joined(snap[r], job[r]))

(***************************************************************************)
(* upsert_with_revision_check.                                             *)
(***************************************************************************)
\* Mutant: the blind replace ADR-0044 removed.
MatchesById(r) == store[tgt[r]] # NoDoc

Matches(r) ==
    store[tgt[r]] # NoDoc /\ store[tgt[r]].rev = snap[r].rev

Replaces(r) ==
    /\ pc[r] = "write" /\ snap[r] # NoDoc
    /\ job[r].op = "ingest" => ~Unchanged(snap[r], draft[r])

Replace(r) ==
    /\ Replaces(r)
    /\ Matches(r)
    /\ store' = [store EXCEPT ![tgt[r]] = draft[r]]
    /\ committed' = committed \cup {r}
    /\ Settle(r, EventsOf(job[r].op, snap[r], draft[r]), "ok")
    /\ UNCHANGED <<now, drawn, job, asof, tgt, snap, draft, tries, audit>>

ReplaceMiss(r) ==
    /\ Replaces(r)
    /\ ~Matches(r)
    /\ pc' = [pc EXCEPT ![r] = "missed"]
    /\ UNCHANGED <<store, now, drawn, job, asof, tgt, snap, draft, tries, owed,
                   outcome, audit, committed>>

\* find_one after a miss tells a vanished document from a moved one.
ReadAfterMiss(r) ==
    /\ pc[r] = "missed" /\ job[r].op # "ingest"
    /\ \/ store[tgt[r]] = NoDoc
          /\ Answer(r, <<>>, "notfound")
       \/ store[tgt[r]] # NoDoc
          /\ Answer(r, If(job[r].op = "reserve", "SERVER_RESERVATION_REFUSED"),
                    "conflict")

(***************************************************************************)
(* IngestService._ingest_one, one attempt at a time.                       *)
(***************************************************************************)
Correlated(r) ==
    {i \in Ids : store[i] # NoDoc /\ store[i].machine = job[r].machine}

IngestBuild(r) ==
    /\ pc[r] = "start" /\ job[r].op = "ingest"
    /\ \/ \E i \in Correlated(r) :
             /\ tgt' = [tgt EXCEPT ![r] = i]
             /\ snap' = [snap EXCEPT ![r] = store[i]]
             /\ draft' = [draft EXCEPT ![r] = BuildServer(store[i], job[r], now)]
             /\ UNCHANGED drawn
       \/ /\ Correlated(r) = {}
          /\ \E i \in Ids \ drawn :
                /\ tgt' = [tgt EXCEPT ![r] = i]
                /\ drawn' = drawn \cup {i}
          /\ snap' = [snap EXCEPT ![r] = NoDoc]
          /\ draft' = [draft EXCEPT ![r] = NewServer(job[r], now)]
    /\ pc' = [pc EXCEPT ![r] = "write"]
    /\ UNCHANGED <<store, now, job, asof, tries, owed, outcome, audit, committed>>

Inserts(r) == pc[r] = "write" /\ snap[r] = NoDoc

\* upsert under uniq_vendor_serial.
Insert(r) ==
    /\ Inserts(r)
    /\ Correlated(r) = {}
    /\ store' = [store EXCEPT ![tgt[r]] = draft[r]]
    /\ committed' = committed \cup {r}
    /\ Settle(r, <<"SERVER_CREATED">>, "ok")
    /\ UNCHANGED <<now, drawn, job, asof, tgt, snap, draft, tries, audit>>

Touches(r) ==
    /\ pc[r] = "write" /\ job[r].op = "ingest"
    /\ snap[r] # NoDoc /\ Unchanged(snap[r], draft[r])

\* touch_seen: the stamp moves, the revision does not.
TouchSeen(r) ==
    /\ Touches(r)
    /\ Matches(r)
    /\ store' = [store EXCEPT ![tgt[r]] = [@ EXCEPT !.listed = draft[r].listed]]
    /\ Settle(r, <<>>, "ok")
    /\ UNCHANGED <<now, drawn, job, asof, tgt, snap, draft, tries, audit, committed>>

WriteConflict(r) ==
    \/ Inserts(r) /\ Correlated(r) # {}
    \/ Touches(r) /\ ~Matches(r)
    \/ pc[r] = "missed" /\ job[r].op = "ingest"

\* Mutant: the same stale document is written again, without re-reading.
IngestRewrite(r) ==
    /\ WriteConflict(r)
    /\ pc' = [pc EXCEPT ![r] = "write"]
    /\ UNCHANGED <<store, now, drawn, job, asof, tgt, snap, draft, tries, owed,
                   outcome, audit, committed>>

IngestRetry(r) ==
    /\ WriteConflict(r)
    /\ \/ /\ tries[r] < MaxAttempts
          /\ tries' = [tries EXCEPT ![r] = @ + 1]
          /\ pc' = [pc EXCEPT ![r] = "start"]
          /\ UNCHANGED <<owed, outcome>>
       \/ /\ tries[r] = MaxAttempts
          /\ Settle(r, <<>>, "failed")
          /\ UNCHANGED tries
    /\ UNCHANGED <<store, now, drawn, job, asof, tgt, snap, draft, audit, committed>>

(***************************************************************************)
(* tools/prune_servers.py, one candidate at a time.                        *)
(***************************************************************************)
\* The pass takes one `now`, gives it to the documents that predate listed_at
\* (backfill_listed_at, an update_many that moves no revision) and will reckon
\* its cutoff from it.
PruneBackfill(r) ==
    /\ pc[r] = "start" /\ job[r].op = "prune"
    /\ asof' = [asof EXCEPT ![r] = now]
    /\ store' = [i \in Ids |->
                   IF store[i] # NoDoc /\ store[i].listed = None
                   THEN [store[i] EXCEPT !.listed = now] ELSE store[i]]
    /\ pc' = [pc EXCEPT ![r] = "decide"]
    /\ UNCHANGED <<now, drawn, job, tgt, snap, draft, tries, owed, outcome,
                   audit, committed>>

\* listed_at is older than the cutoff of a pass that began at t.
Stale(d, t) == d.listed # None /\ d.listed + PruneAge < t

\* Mutant: the deletion is not recorded first.
PruneUnaudited(r) ==
    /\ pc[r] = "decide" /\ job[r].op = "prune"
    /\ store[tgt[r]] # NoDoc /\ Stale(store[tgt[r]], asof[r])
    /\ pc' = [pc EXCEPT ![r] = "delete"]
    /\ UNCHANGED <<store, now, drawn, job, asof, tgt, snap, draft, tries, owed,
                   outcome, audit, committed>>

\* The candidate is taken from one read; an untrusted collector run or too
\* large a share keeps it whatever the read says.
PruneDecide(r) ==
    /\ pc[r] = "decide" /\ job[r].op = "prune"
    /\ \/ /\ store[tgt[r]] # NoDoc /\ Stale(store[tgt[r]], asof[r])
          /\ snap' = [snap EXCEPT ![r] = store[tgt[r]]]
          /\ Settle(r, <<"SERVER_PRUNED">>, "none")
       \/ /\ Settle(r, <<>>, "ok")
          /\ UNCHANGED snap
    /\ UNCHANGED <<store, now, drawn, job, asof, tgt, draft, tries, audit,
                   committed>>

\* delete_one by _id alone.
PruneDelete(r) ==
    /\ pc[r] = "delete"
    /\ store' = [store EXCEPT ![tgt[r]] = NoDoc]
    /\ Settle(r, <<>>, "ok")
    /\ UNCHANGED <<now, drawn, job, asof, tgt, snap, draft, tries, audit, committed>>

(***************************************************************************)
(* The environment: the process dies (or the database call raises) between *)
(* any two awaits, and time passes.                                        *)
(***************************************************************************)
Crash(r) ==
    /\ pc[r] \notin {"done", "crashed"}
    /\ Cardinality({q \in Requests : pc[q] = "crashed"}) < MaxCrashes
    /\ pc' = [pc EXCEPT ![r] = "crashed"]
    /\ UNCHANGED <<store, now, drawn, job, asof, tgt, snap, draft, tries, owed,
                   outcome, audit, committed>>

Tick ==
    /\ now < MaxTime
    /\ now' = now + 1
    /\ UNCHANGED <<store, drawn, pc, job, asof, tgt, snap, draft, tries, owed,
                   outcome, audit, committed>>

Step(r) ==
    \/ GetById(r) \/ RecordEvent(r)
    \/ Reserve(r) \/ Release(r)
    \/ Enable(r) \/ Disable(r)
    \/ Reclassify(r) \/ Recalculate(r) \/ WriteMembership(r)
    \/ Replace(r) \/ ReplaceMiss(r) \/ ReadAfterMiss(r)
    \/ IngestBuild(r) \/ Insert(r) \/ TouchSeen(r) \/ IngestRetry(r)
    \/ PruneBackfill(r) \/ PruneDecide(r) \/ PruneDelete(r)

Next == Tick \/ \E r \in Requests : Step(r) \/ Crash(r)

Spec == Init /\ [][Next]_vars

\* asyncio resumes every coroutine whose database call has answered.
FairSpec == Spec /\ \A r \in Requests : WF_vars(Step(r))

(***************************************************************************)
(* Properties.                                                             *)
(***************************************************************************)
TypeOK ==
    /\ store \in [Ids -> Doc \cup {NoDoc}]
    /\ now \in Nat
    /\ drawn \subseteq Ids
    /\ pc \in [Requests -> {"start", "decide", "write", "missed", "record",
                            "delete", "done", "crashed"}]
    /\ job \in [Requests -> JobSpace]
    /\ asof \in [Requests -> Nat]
    /\ tgt \in [Requests -> Ids]
    /\ snap \in [Requests -> Doc \cup {NoDoc}]
    /\ draft \in [Requests -> Doc \cup {NoDoc}]
    /\ tries \in [Requests -> 1..MaxAttempts]
    /\ owed \in [Requests -> Seq(EventTypes)]
    /\ outcome \in [Requests -> {"none", "ok", "conflict", "notfound", "failed"}]
    /\ audit \subseteq [type: EventTypes, req: Requests]
    /\ committed \subseteq Requests

\* Some request owning a part of document i wrote it in this step.
WroteBy(i, ops) ==
    \E r \in committed' \ committed : tgt[r] = i /\ job[r].op \in ops

\* A step changes the parts of a document that its writer owns.
ChangesOwnParts ==
    \A i \in Ids : store[i] # NoDoc /\ store'[i] # NoDoc =>
       /\ store'[i].machine = store[i].machine
       /\ store'[i].resv # store[i].resv => WroteBy(i, {"reserve", "release"})
       /\ store'[i].maint # store[i].maint => WroteBy(i, {"enable", "disable"})
       /\ store'[i].osh # store[i].osh => WroteBy(i, {"member"})
       /\ store'[i].cls # store[i].cls => WroteBy(i, {"reclassify", "ingest"})
       /\ store'[i].hlth # store[i].hlth => WroteBy(i, {"recalculate", "ingest"})
       /\ <<store'[i].name, store'[i].facts>> # <<store[i].name, store[i].facts>>
             => WroteBy(i, {"ingest"})

(***************************************************************************)
(* No lost update: a whole-document write changes only the parts its       *)
(* writer owns, whatever the others wrote since it read - a collector      *)
(* never undoes a reservation, an installer never undoes a maintenance     *)
(* window (upsert_with_revision_check, the carry-forward set of            *)
(* _build_server, touch_seen).                                             *)
(***************************************************************************)
NoLostUpdate == [][ChangesOwnParts]_vars

\* A step that changes a content moves its revision by one.
RevisionMoves ==
    \A i \in Ids : store[i] # NoDoc /\ store'[i] # NoDoc =>
       \/ /\ store'[i].rev = store[i].rev
          /\ Content(store'[i]) = Content(store[i])
       \/ store'[i].rev = store[i].rev + 1

(***************************************************************************)
(* The revision versions the content: two contents of one id never share   *)
(* a revision, and a revision moves by exactly one.  The detail cache      *)
(* (keyed by id and revision) and every compare-and-set stand on it, and   *)
(* the two writes that do not bump (touch_seen, backfill_listed_at) must   *)
(* therefore leave the content alone.                                      *)
(***************************************************************************)
RevisionVersionsContent == [][RevisionMoves]_vars

\* A write replaces what its writer had read.
ReplacesWhatWasRead ==
    \A r \in committed' \ committed : snap[r] # NoDoc =>
       /\ store[tgt[r]] # NoDoc
       /\ Content(store[tgt[r]]) = Content(snap[r])

(***************************************************************************)
(* What a transition event says it changed FROM is what its write really   *)
(* replaced: the events are computed from the document the winning attempt *)
(* read (_emit_transition_events, was_enabled, existing.holder).           *)
(***************************************************************************)
EventsTellTheTruth == [][ReplacesWhatWasRead]_vars

\* A reservation request the store has accepted.
Took(r) == r \in committed /\ job[r].op = "reserve"

\* q ended or shortened r's claim: its own release, a forced release, or a
\* later, shorter claim of the same run.
Superseded(r, q) ==
    /\ q \in committed /\ tgt[q] = tgt[r] /\ q # r
    /\ \/ /\ job[q].op = "release"
          /\ \/ job[q].holder = None
             \/ job[q].holder = job[r].holder /\ job[q].wf = job[r].wf
       \/ /\ job[q].op = "reserve"
          /\ job[q].holder = job[r].holder /\ job[q].wf = job[r].wf
          /\ draft[q].resv.expires < draft[r].resv.expires

(***************************************************************************)
(* The install lock: once reserve has taken a server, the document names   *)
(* that claim until the expiry the caller was given - no other run's       *)
(* claim, collector pass or operator write replaces it - unless the claim  *)
(* itself, or an operator's forced release, ended it.  (ADR-0035; a pruned *)
(* document takes its lock with it.)                                       *)
(***************************************************************************)
GrantHeld ==
    \A r \in Requests :
        /\ Took(r) /\ store[tgt[r]] # NoDoc
        /\ now < draft[r].resv.expires
        => \/ /\ IsSameClaim(store[tgt[r]].resv, job[r].holder, job[r].wf)
              /\ IsLive(store[tgt[r]].resv, now)
           \/ \E q \in Requests : Superseded(r, q)

(***************************************************************************)
(* A refused or failed caller left no trace: a request told "conflict",    *)
(* "notfound" or "failed" wrote nothing, and one whose audit event says it *)
(* was refused never wrote either.                                         *)
(***************************************************************************)
RefusedWroteNothing ==
    /\ \A r \in committed : outcome[r] \in {"none", "ok"}
    /\ \A e \in audit : /\ e.type = "SERVER_RESERVATION_REFUSED" => e.req \notin committed
                        /\ e.type \notin {"SERVER_RESERVATION_REFUSED", "SERVER_PRUNED"}
                             => e.req \in committed

\* A step deletes a document only with the event on record.
DeletesOnRecord ==
    \A i \in Ids : store[i] # NoDoc /\ store'[i] = NoDoc =>
       \E r \in Requests : /\ tgt[r] = i
                           /\ [type |-> "SERVER_PRUNED", req |-> r] \in audit

(***************************************************************************)
(* No silent deletion: a document disappears only after its SERVER_PRUNED  *)
(* event is in the trail (_delete_one records first, so that a crash in    *)
(* between leaves an event too many, never one too few).                   *)
(***************************************************************************)
DeletionsAudited == [][DeletesOnRecord]_vars

(***************************************************************************)
(* Every request ends: the re-read and retry loop of ingest is bounded and *)
(* no handler waits for another.                                           *)
(***************************************************************************)
EveryRequestEnds ==
    \A r \in Requests : <>(pc[r] \in {"done", "crashed"})

(***************************************************************************)
(* ADR-0037 decision 6: "A host still in the inventory file or still       *)
(* listed by OME is never pruned" - a document is deleted only while no    *)
(* collector has listed it for PruneAge.                                   *)
(***************************************************************************)
StillListedNeverPruned ==
    [][\A i \in Ids : store[i] # NoDoc /\ store'[i] = NoDoc => Stale(store[i], now)]_vars

(***************************************************************************)
(* ADR-0035 decision 5: "A repeat claim from the same workflow_id extends  *)
(* its own lock" - it never makes a live lock end earlier.                 *)
(***************************************************************************)
ReclaimExtends ==
    [][\A r \in committed' \ committed :
          LET old == store[tgt[r]].resv
              new == store'[tgt[r]].resv
          IN  /\ job[r].op = "reserve" /\ IsLive(old, now)
              /\ IsSameClaim(old, job[r].holder, job[r].wf)
              /\ old.expires # None
              => new.expires >= old.expires]_vars

(***************************************************************************)
(* The collection implements the lock of ADR-0035: the lease of a server   *)
(* is the reservation its document carries.                                *)
(***************************************************************************)
StoredIds == {i \in Ids : store[i] # NoDoc}

Lock == INSTANCE InstallLock WITH
            Servers <- Ids, Holders <- Names, Runs <- Names, Nobody <- None,
            lease   <- [i \in Ids |-> IF store[i] = NoDoc THEN NoReservation
                                                          ELSE store[i].resv],
            present <- StoredIds,
            clock   <- now

\* Every behaviour of the collection is a behaviour of the install lock: no
\* write, race or crash ever takes a live lock from the run that holds it.
ImplementsInstallLock == Lock!LockSpec
=============================================================================
