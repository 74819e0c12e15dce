------------------------------- MODULE MCLock -------------------------------
(* The install lock against collectors, releases and pruning: one machine. *)
EXTENDS InventoryStore, TLC

CONSTANTS i1, i2, i3, m1, installer, w1, w2, v1, v2

Base == [op |-> "ingest", id |-> i1, machine |-> m1, holder |-> None,
         wf |-> None, ttl |-> 1, name |-> v1, val |-> v1, verdict |-> v1]

Claim(w, t) == [Base EXCEPT !.op = "reserve", !.holder = installer, !.wf = w, !.ttl = t]

\* Two runs of one installer, the first also with a shorter lifetime; a run
\* releasing its own lock; an operator's forced release; a collector reading
\* what is stored and one reading something new; a prune pass.
MCJobs ==
    {Claim(w1, 2), Claim(w1, 1), Claim(w2, 2),
     [Base EXCEPT !.op = "release", !.holder = installer, !.wf = w1],
     [Base EXCEPT !.op = "release"],
     Base,
     [Base EXCEPT !.val = v2],
     [Base EXCEPT !.op = "prune"]}

Stored == [machine |-> m1, rev |-> 1, name |-> v1, facts |-> v1, cls |-> v1,
           hlth |-> v1, maint |-> NoMaintenance, resv |-> NoReservation,
           osh |-> None, listed |-> 0, legacy |-> FALSE]

\* Nothing stored, a current document, and one that predates listed_at and
\* carries a hand-edited lock that never expires.
MCInitStores ==
    {[i \in Ids |-> IF i = i1 THEN d ELSE NoDoc] :
        d \in {NoDoc, Stored,
               [Stored EXCEPT !.resv = [holder |-> installer, wf |-> w2,
                                        created |-> None, expires |-> None],
                              !.listed = None, !.legacy = TRUE]}}

\* Requests are interchangeable, and so are the ids not used at the start.
Symmetry == Permutations(Requests) \cup Permutations(Ids \ {i1})
=============================================================================
