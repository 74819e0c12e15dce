------------------------------ MODULE MCWriters ------------------------------
(* Every owner of a part of the document writing it at the same time. *)
EXTENDS InventoryStore, TLC

CONSTANTS i1, m1, ana, ben, hub, v1, v2

Base == [op |-> "ingest", id |-> i1, machine |-> m1, holder |-> None,
         wf |-> None, ttl |-> 1, name |-> v1, val |-> v1, verdict |-> v1]

Job(op, who, val, verdict) ==
    [Base EXCEPT !.op = op, !.holder = who, !.val = val, !.verdict = verdict]

MCJobs ==
    {Job("enable", ana, v1, v1), Job("enable", ben, v2, v1),
     Job("disable", None, v1, v1),
     Job("reclassify", None, v1, v2), Job("recalculate", None, v1, v2),
     Job("member", hub, v1, v1), Job("member", None, v1, v1),
     Job("ingest", None, v1, v1), Job("ingest", None, v2, v2),
     [Job("ingest", None, v1, v1) EXCEPT !.name = v2],
     Job("reserve", ana, v1, v1), Job("release", None, v1, v1),
     Job("prune", None, v1, v1)}

\* Fewer jobs where TLC builds the behaviour graph: an operator, a collector
\* that finds a change and one that finds none, a prune pass.
MCLiveJobs ==
    {Job("enable", ana, v1, v1), Job("ingest", None, v1, v1),
     Job("ingest", None, v2, v2), Job("prune", None, v1, v1)}

Stored == [machine |-> m1, rev |-> 1, name |-> v1, facts |-> v1, cls |-> v1,
           hlth |-> v1, maint |-> NoMaintenance, resv |-> NoReservation,
           osh |-> None, listed |-> 0, legacy |-> FALSE]

\* A document nobody claimed; one with a window open, a cluster and no listed_at.
MCInitStores ==
    {[i \in Ids |-> IF i = i1 THEN d ELSE NoDoc] :
        d \in {Stored,
               [Stored EXCEPT !.maint = [by |-> ana, reason |-> v1], !.osh = hub,
                              !.listed = None, !.legacy = TRUE]}}

MCLiveStores == {[i \in Ids |-> IF i = i1 THEN Stored ELSE NoDoc]}

Symmetry == Permutations(Requests)
=============================================================================
