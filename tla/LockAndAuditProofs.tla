--------------------------- MODULE LockAndAuditProofs ---------------------------
(***************************************************************************)
(* The install lock and the audit trail over the collection, proved for    *)
(* every choice of the constants: a granted lock is held until the expiry  *)
(* its taker was told, the collection implements the lease of InstallLock, *)
(* who is told "no" wrote nothing, and nothing is deleted off the record.  *)
(***************************************************************************)
EXTENDS InventoryStoreSafety

(***************************************************************************)
(* A granted lock is held.                                                 *)
(***************************************************************************)
\* What r was granted, the stored lock still grants, at least as long - or
\* another request ended it.
Honoured(r) ==
    \/ /\ IsSameClaim(store[tgt[r]].resv, job[r].holder, job[r].wf)
       /\ store[tgt[r]].resv.expires \in Nat
       /\ store[tgt[r]].resv.expires >= draft[r].resv.expires
    \/ \E q \in Requests : Superseded(r, q)

LockInv ==
    \A r \in Requests :
        /\ Took(r) /\ store[tgt[r]] # NoDoc
        /\ now < draft[r].resv.expires
        => Honoured(r)

LEMMA LockInvGrants == Core /\ LockInv => GrantHeld
<1> SUFFICES ASSUME Core, LockInv, NEW r \in Requests,
                    Took(r), store[tgt[r]] # NoDoc, now < draft[r].resv.expires,
                    ~\E q \in Requests : Superseded(r, q)
             PROVE  /\ IsSameClaim(store[tgt[r]].resv, job[r].holder, job[r].wf)
                    /\ IsLive(store[tgt[r]].resv, now)
  BY DEF GrantHeld
<1> DEFINE res == store[tgt[r]].resv
<1>1. /\ IsSameClaim(res, job[r].holder, job[r].wf)
      /\ res.expires \in Nat /\ res.expires >= draft[r].resv.expires
  BY DEF LockInv, Honoured
<1>2. job[r].holder # None
  BY StoreAssumption DEF Core, PcInv, Took
<1>3. now \in Nat /\ draft[r].resv.expires \in Nat
  BY DEF Core, TypeOK, CommitInv, Took
<1> HIDE DEF res
<1>4. now < res.expires
  BY <1>1, <1>3
<1>5. res.holder # None
  BY <1>1, <1>2 DEF IsSameClaim
<1> QED
  BY <1>1, <1>4, <1>5 DEF IsLive, res

\* What a committed request asked for, and was granted, no longer changes.
LEMMA CommittedStays ==
    ASSUME Core, [Next]_vars
    PROVE  /\ committed \subseteq committed' /\ job' = job /\ now' >= now
           /\ \A r \in committed : tgt'[r] = tgt[r] /\ draft'[r] = draft[r]
<1>0. /\ TypeOK /\ CommitInv /\ committed \subseteq Requests /\ now \in Nat
      /\ \A r \in committed : pc[r] \in {"record", "done", "crashed"}
  BY DEF Core, TypeOK, CommitInv
<1>1. CASE Tick \/ UNCHANGED vars
  BY <1>0, <1>1 DEF Tick, vars
<1>2. ASSUME NEW q \in Requests, Crash(q)
      PROVE  /\ committed \subseteq committed' /\ job' = job /\ now' = now
             /\ \A r \in committed : tgt'[r] = tgt[r] /\ draft'[r] = draft[r]
  BY <1>2 DEF Crash
<1>3. ASSUME NEW q \in Requests, Step(q)
      PROVE  /\ committed \subseteq committed' /\ job' = job /\ now' = now
             /\ \A r \in committed : tgt'[r] = tgt[r] /\ draft'[r] = draft[r]
  <2>1. committed \subseteq committed' /\ job' = job /\ now' = now
    BY <1>3
    DEF Step, GetById, RecordEvent, Reserve, Release, Enable, Disable,
        Reclassify, Recalculate, WriteMembership, Draft, Answer, Replace,
        ReplaceMiss, ReadAfterMiss, IngestBuild, Insert, TouchSeen, IngestRetry,
        PruneBackfill, PruneDecide, PruneDelete
  <2>2. \/ UNCHANGED <<tgt, draft>>
        \/ /\ pc[q] \in {"start", "decide"}
           /\ \E i, d : /\ tgt' = tgt \/ tgt' = [tgt EXCEPT ![q] = i]
                        /\ draft' = [draft EXCEPT ![q] = d]
    BY <1>3
    DEF Step, GetById, RecordEvent, Reserve, Release, Enable, Disable,
        Reclassify, Recalculate, WriteMembership, Draft, Answer, Replace,
        ReplaceMiss, ReadAfterMiss, IngestBuild, Insert, TouchSeen, IngestRetry,
        PruneBackfill, PruneDecide, PruneDelete
  <2>3. \A r \in committed : tgt'[r] = tgt[r] /\ draft'[r] = draft[r]
    BY <1>0, <2>2 DEF TypeOK
  <2> QED
    BY <2>1, <2>3
<1> QED
  BY <1>0, <1>1, <1>2, <1>3 DEF Next

LEMMA LockInvNext == Core /\ LockInv /\ [Next]_vars => LockInv'
<1> SUFFICES ASSUME Core, LockInv, [Next]_vars, NEW r \in Requests,
                    Took(r)', store'[tgt'[r]] # NoDoc,
                    now' < draft'[r].resv.expires
             PROVE  Honoured(r)'
  BY DEF LockInv
<1>0. /\ TypeOK /\ PcInv /\ CommitInv /\ Core' /\ CommitInv' /\ TypeOK'
      /\ now \in Nat /\ now' \in Nat
  BY CoreNext DEF Core, TypeOK
<1>1. /\ committed \subseteq committed' /\ job' = job /\ now' >= now
      /\ \A q \in committed : tgt'[q] = tgt[q] /\ draft'[q] = draft[q]
  BY CommittedStays
<1>2. /\ draft'[r].resv.expires \in Nat /\ job[r].op = "reserve"
      /\ draft'[r].resv.holder = job[r].holder /\ draft'[r].resv.wf = job[r].wf
      /\ tgt'[r] \in Ids /\ job[r].holder # None
  BY <1>0, <1>1, StoreAssumption DEF Took, CommitInv, TypeOK, PcInv
\* Whatever superseded a claim stays committed.
<1>3. ASSUME r \in committed, NEW q \in Requests, Superseded(r, q)
      PROVE  Honoured(r)'
  <2>1. Superseded(r, q)'
    BY <1>1, <1>3 DEF Superseded
  <2> QED
    BY <2>1 DEF Honoured
\* r had taken the lock before, and its document is still there.
<1>4. ASSUME r \in committed, store[tgt[r]] # NoDoc,
             ~\E q \in Requests : Superseded(r, q)
      PROVE  /\ IsSameClaim(store[tgt[r]].resv, job[r].holder, job[r].wf)
             /\ store[tgt[r]].resv.expires \in Nat
             /\ store[tgt[r]].resv.expires >= draft[r].resv.expires
             /\ IsLive(store[tgt[r]].resv, now)
  <2>1. Took(r) /\ now < draft[r].resv.expires
    BY <1>0, <1>1, <1>2, <1>4 DEF Took
  <2>2. Honoured(r)
    BY <1>4, <2>1 DEF LockInv
  <2>3. GrantHeld
    BY LockInvGrants
  <2> QED
    BY <1>4, <2>1, <2>2, <2>3 DEF Honoured, GrantHeld
<1>5. CASE /\ UNCHANGED committed
           /\ \A i \in Ids : store'[i] # NoDoc =>
                 store[i] # NoDoc /\ Content(store'[i]) = Content(store[i])
  <2>1. r \in committed /\ tgt'[r] = tgt[r] /\ draft'[r] = draft[r]
    BY <1>1, <1>5 DEF Took
  <2>2. store[tgt[r]] # NoDoc /\ store'[tgt[r]].resv = store[tgt[r]].resv
    BY <1>2, <1>5, <2>1, ContentParts
  <2> QED
    BY <1>1, <1>3, <1>4, <2>1, <2>2 DEF Honoured, IsSameClaim
<1>6. ASSUME NEW q \in Requests, Replace(q)
      PROVE  Honoured(r)'
  <2>1. /\ tgt[q] \in Ids /\ Content(store[tgt[q]]) = Content(snap[q])
        /\ store[tgt[q]] # NoDoc
        /\ Derived(job[q], snap[q], draft[q])
        /\ store' = [store EXCEPT ![tgt[q]] = draft[q]]
        /\ committed' = committed \cup {q} /\ q \notin committed
        /\ tgt' = tgt /\ draft' = draft /\ now' = now
    BY <1>6, ReplaceFacts
  <2>2. /\ store'[tgt[q]] = draft[q] /\ snap[q].resv = store[tgt[q]].resv
        /\ \A i \in Ids \ {tgt[q]} : store'[i] = store[i]
    BY <1>0, <2>1, ContentParts DEF TypeOK
  <2>3. CASE r = q
    BY <1>1, <1>2, <2>1, <2>2, <2>3 DEF Honoured, IsSameClaim
  <2>4. CASE r # q /\ tgt[r] # tgt[q]
    <3>1. r \in committed /\ store'[tgt[r]] = store[tgt[r]]
      BY <1>2, <2>1, <2>2, <2>4 DEF Took
    <3> QED
      BY <1>1, <1>3, <1>4, <2>1, <3>1 DEF Honoured, IsSameClaim
  <2>5. CASE r # q /\ tgt[r] = tgt[q] /\ \E p \in Requests : Superseded(r, p)
    BY <1>3, <2>1, <2>5 DEF Took
  <2>6. CASE r # q /\ tgt[r] = tgt[q] /\ ~\E p \in Requests : Superseded(r, p)
    <3>1. /\ IsSameClaim(snap[q].resv, job[r].holder, job[r].wf)
          /\ snap[q].resv.expires \in Nat
          /\ snap[q].resv.expires >= draft[r].resv.expires
          /\ IsLive(snap[q].resv, now)
      BY <1>4, <2>1, <2>2, <2>6 DEF Took
    <3>2. CASE job[q].op \notin {"reserve", "release"}
      <4>1. store'[tgt[r]].resv = snap[q].resv
        BY <2>1, <2>2, <2>6, <3>2 DEF Derived
      <4> QED
        BY <1>1, <2>1, <3>1, <4>1 DEF Honoured, IsSameClaim
    <3>3. CASE job[q].op = "reserve"
      <4>1. /\ IsSameClaim(snap[q].resv, job[q].holder, job[q].wf)
            /\ draft[q].resv.holder = job[q].holder /\ draft[q].resv.wf = job[q].wf
            /\ draft[q].resv.expires \in Nat
        BY <2>1, <3>1, <3>3 DEF Derived
      <4>2. job[q].holder = job[r].holder /\ job[q].wf = job[r].wf
        BY <3>1, <4>1 DEF IsSameClaim
      <4>3. CASE draft[q].resv.expires >= draft[r].resv.expires
        BY <1>1, <2>1, <2>2, <2>6, <4>1, <4>2, <4>3 DEF Honoured, IsSameClaim
      <4>4. CASE draft[q].resv.expires < draft[r].resv.expires
        <5>1. Superseded(r, q)'
          BY <1>1, <2>1, <2>6, <3>3, <4>2, <4>4 DEF Superseded
        <5> QED
          BY <5>1 DEF Honoured
      <4> QED
        BY <1>2, <2>1, <4>1, <4>3, <4>4
    <3>4. CASE job[q].op = "release"
      <4>1. \/ job[q].holder = None
            \/ IsSameClaim(snap[q].resv, job[q].holder, job[q].wf)
        BY <2>1, <3>4 DEF Derived
      <4>2. \/ job[q].holder = None
            \/ job[q].holder = job[r].holder /\ job[q].wf = job[r].wf
        BY <3>1, <4>1 DEF IsSameClaim
      <4>3. Superseded(r, q)'
        BY <1>1, <2>1, <2>6, <3>4, <4>2 DEF Superseded
      <4> QED
        BY <4>3 DEF Honoured
    <3> QED
      BY <3>2, <3>3, <3>4
  <2> QED
    BY <2>3, <2>4, <2>5, <2>6
<1>7. ASSUME NEW q \in Requests, Insert(q)
      PROVE  Honoured(r)'
  <2>1. /\ tgt[q] \in Ids /\ job[q].op = "ingest"
        /\ \A p \in Requests \ {q} : tgt[p] = tgt[q] => p \notin committed
        /\ store' = [store EXCEPT ![tgt[q]] = draft[q]]
        /\ committed' = committed \cup {q}
        /\ tgt' = tgt /\ draft' = draft /\ now' = now
    BY <1>7, InsertFacts
  <2>2. r # q /\ r \in committed /\ tgt[r] # tgt[q]
    BY <1>2, <2>1 DEF Took
  <2>3. store'[tgt[r]] = store[tgt[r]]
    BY <1>0, <1>2, <2>1, <2>2 DEF TypeOK
  <2> QED
    BY <1>1, <1>3, <1>4, <2>1, <2>2, <2>3 DEF Honoured, IsSameClaim
<1> QED
  BY <1>5, <1>6, <1>7, WriteCases

(***************************************************************************)
(* Once reserve has taken a server, the document names that claim until    *)
(* the expiry the caller was given, unless the claim itself or a forced    *)
(* release ended it.                                                       *)
(***************************************************************************)
THEOREM GrantIsHeld == Spec => []GrantHeld
<1>1. Init => LockInv
  BY DEF Init, LockInv, Took
<1> QED
  BY <1>1, InitCore, CoreNext, LockInvNext, LockInvGrants, PTL DEF Spec

(***************************************************************************)
(* The refinement.                                                         *)
(***************************************************************************)
LeaseOf(i) == IF store[i] = NoDoc THEN NoReservation ELSE store[i].resv

\* A machine appears without a lock.
FreshInv ==
    \A r \in Requests :
        pc[r] = "write" /\ snap[r] = NoDoc => draft[r].resv = NoReservation

LEMMA FreshNext == Core /\ FreshInv /\ [Next]_vars => FreshInv'
<1> SUFFICES ASSUME Core, FreshInv, [Next]_vars PROVE FreshInv'
  OBVIOUS
<1>0. /\ pc \in [Requests -> {"start", "decide", "write", "missed", "record",
                              "delete", "done", "crashed"}]
      /\ TypeOK /\ PcInv
  BY DEF Core, TypeOK
<1>1. CASE Tick \/ UNCHANGED vars
  BY <1>1 DEF Tick, vars, FreshInv
\* A step of r that writes no draft does not bring r to a write.
<1>2. ASSUME NEW r \in Requests, pc'[r] # "write",
             \A q \in Requests \ {r} :
                pc'[q] = pc[q] /\ snap'[q] = snap[q] /\ draft'[q] = draft[q]
      PROVE  FreshInv'
  BY <1>2 DEF FreshInv
<1>3. ASSUME NEW r \in Requests, Crash(r) PROVE FreshInv'
  BY <1>0, <1>2, <1>3 DEF Crash
<1>4. ASSUME NEW r \in Requests, IngestBuild(r) PROVE FreshInv'
  <2>1. /\ \A q \in Requests \ {r} : pc'[q] = pc[q] /\ snap'[q] = snap[q]
                                     /\ draft'[q] = draft[q]
        /\ snap'[r] = NoDoc => draft'[r] = NewServer(job[r], now)
    <3>1. CASE \E i \in Correlated(r) :
                  /\ snap' = [snap EXCEPT ![r] = store[i]]
                  /\ draft' = [draft EXCEPT ![r] = BuildServer(store[i], job[r], now)]
      BY <1>0, <1>4, <3>1 DEF IngestBuild, Correlated, TypeOK
    <3>2. CASE /\ snap' = [snap EXCEPT ![r] = NoDoc]
               /\ draft' = [draft EXCEPT ![r] = NewServer(job[r], now)]
      BY <1>0, <1>4, <3>2 DEF IngestBuild, TypeOK
    <3> QED
      BY <1>4, <3>1, <3>2 DEF IngestBuild
  <2>2. NewServer(job[r], now).resv = NoReservation
    BY DEF NewServer
  <2> QED
    BY <2>1, <2>2 DEF FreshInv
<1>5. ASSUME NEW r \in Requests, NEW d, pc[r] = "decide", snap[r] # NoDoc, Draft(r, d)
      PROVE  FreshInv'
  BY <1>0, <1>5 DEF Draft, FreshInv, TypeOK
<1>6. ASSUME NEW r \in Requests, NEW events, NEW out, Answer(r, events, out)
      PROVE  FreshInv'
  BY <1>0, <1>2, <1>6 DEF Answer, Settle
<1>7. ASSUME NEW r \in Requests, Step(r), ~IngestBuild(r) PROVE FreshInv'
  <2>1. CASE \/ Reserve(r) \/ Release(r) \/ Enable(r) \/ Disable(r)
             \/ Reclassify(r) \/ Recalculate(r) \/ WriteMembership(r)
    <3>1. pc[r] = "decide" /\ snap[r] # NoDoc
      BY <1>0, <2>1
      DEF PcInv, Reserve, Release, Enable, Disable, Reclassify, Recalculate,
          WriteMembership
    <3>2. (\E d : Draft(r, d)) \/ (\E events, out : Answer(r, events, out))
      BY <2>1
      DEF Reserve, Release, Enable, Disable, Reclassify, Recalculate,
          WriteMembership
    <3> QED
      BY <1>5, <1>6, <3>1, <3>2
  <2>2. CASE \/ GetById(r) \/ RecordEvent(r) \/ Replace(r) \/ ReplaceMiss(r)
             \/ Insert(r) \/ TouchSeen(r) \/ IngestRetry(r)
             \/ PruneBackfill(r) \/ PruneDecide(r) \/ PruneDelete(r)
    <3>1. pc'[r] # "write" /\ \A q \in Requests \ {r} : pc'[q] = pc[q]
      BY <1>0, <2>2
      DEF GetById, RecordEvent, Replace, ReplaceMiss, Insert, TouchSeen,
          IngestRetry, PruneBackfill, PruneDecide, PruneDelete, Settle
    <3>2. UNCHANGED draft /\ \A q \in Requests \ {r} : snap'[q] = snap[q]
      BY <1>0, <2>2
      DEF GetById, RecordEvent, Replace, ReplaceMiss, Insert, TouchSeen,
          IngestRetry, PruneBackfill, PruneDecide, PruneDelete, TypeOK
    <3> QED
      BY <1>2, <3>1, <3>2
  <2>3. CASE ReadAfterMiss(r)
    BY <1>6, <2>3 DEF ReadAfterMiss
  <2> QED
    BY <1>7, <2>1, <2>2, <2>3 DEF Step
<1> QED
  BY <1>1, <1>3, <1>4, <1>7 DEF Next

LEMMA LockInitMaps == Init => Lock!LockInit
<1> SUFFICES ASSUME Init PROVE Lock!LockInit
  OBVIOUS
<1>1. \A i \in Ids : store[i] \in Doc \cup {NoDoc}
  BY StoreAssumption DEF Init
<1>2. \A i \in Ids : LeaseOf(i) \in Reservation
  BY <1>1 DEF LeaseOf, Doc, NoReservation, Reservation
<1>3. [i \in Ids |-> IF store[i] = NoDoc THEN NoReservation ELSE store[i].resv]
         \in [Ids -> Lock!Leases]
  BY <1>2 DEF LeaseOf, Reservation, Lock!Leases
<1> QED
  BY <1>3 DEF Init, Lock!LockInit, StoredIds, Lock!FreeLease, NoReservation

LEMMA LockNextMaps ==
    ASSUME Core, FreshInv, [Next]_vars
    PROVE  [Lock!LockNext]_Lock!lockVars
<1> DEFINE lease == [i \in Ids |-> IF store[i] = NoDoc THEN NoReservation
                                                       ELSE store[i].resv]
<1>0. TypeOK /\ PcInv /\ lease = [i \in Ids |-> LeaseOf(i)]
  BY DEF Core, LeaseOf
<1>1. CASE UNCHANGED <<store, committed>>
  <2>1. now' = now \/ now' = now + 1
    BY DEF Next, Tick, Crash, Step, GetById, RecordEvent, Reserve, Release,
       Enable, Disable, Reclassify, Recalculate, WriteMembership, Draft, Answer,
       Replace, ReplaceMiss, ReadAfterMiss, IngestBuild, Insert, TouchSeen,
       IngestRetry, PruneBackfill, PruneDecide, PruneDelete, vars
  <2> QED
    BY <1>1, <2>1 DEF Lock!LockNext, Lock!Pass, Lock!lockVars, StoredIds
\* A step that changes no reservation and no presence.
<1>2. ASSUME \A i \in Ids : /\ store'[i] = NoDoc <=> store[i] = NoDoc
                            /\ LeaseOf(i)' = LeaseOf(i),
             now' = now
      PROVE  UNCHANGED Lock!lockVars
  <2>1. lease' = lease
    BY <1>2 DEF LeaseOf
  <2>2. StoredIds' = StoredIds
    BY <1>2 DEF StoredIds
  <2> QED
    BY <1>2, <2>1, <2>2 DEF Lock!lockVars
<1>3. ASSUME NEW r \in Requests, TouchSeen(r) \/ PruneBackfill(r)
      PROVE  UNCHANGED Lock!lockVars
  <2>1. now' = now
    BY <1>3 DEF TouchSeen, PruneBackfill
  <2>2. \A i \in Ids : /\ store'[i] = NoDoc <=> store[i] = NoDoc
                       /\ LeaseOf(i)' = LeaseOf(i)
    BY <1>0, <1>3, StampFacts, ContentParts DEF LeaseOf
  <2> QED
    BY <1>2, <2>1, <2>2
\* What changes one document changes one lease.
<1>4. ASSUME NEW s \in Ids, \A i \in Ids \ {s} : store'[i] = store[i]
      PROVE  lease' = [lease EXCEPT ![s] = LeaseOf(s)']
  BY <1>4 DEF LeaseOf
<1>5. ASSUME NEW r \in Requests, PruneDelete(r)
      PROVE  [Lock!LockNext]_Lock!lockVars
  <2>0. PICK s \in Ids : s = tgt[r]
    BY <1>0 DEF TypeOK
  <2>1. /\ store'[s] = NoDoc /\ now' = now
        /\ \A i \in Ids \ {s} : store'[i] = store[i]
    BY <1>0, <1>5, <2>0 DEF PruneDelete, TypeOK
  <2>2. CASE store[s] = NoDoc
    BY <1>2, <2>1, <2>2 DEF LeaseOf
  <2>3. CASE store[s] # NoDoc
    <3>1. lease' = [lease EXCEPT ![s] = NoReservation]
      BY <1>4, <2>1 DEF LeaseOf
    <3>2. s \in StoredIds /\ StoredIds' = StoredIds \ {s}
      BY <2>1, <2>3 DEF StoredIds
    <3>3. Lock!Vanish(s)
      BY <2>1, <3>1, <3>2
      DEF Lock!Vanish, Lock!SetLease, Lock!FreeLease, NoReservation
    <3> QED
      BY <2>1, <3>3 DEF Lock!LockNext
  <2> QED
    BY <2>2, <2>3
<1>6. ASSUME NEW r \in Requests, Insert(r)
      PROVE  [Lock!LockNext]_Lock!lockVars
  <2>0. PICK s \in Ids : s = tgt[r]
    BY <1>0 DEF TypeOK
  <2>1. /\ store[s] = NoDoc /\ store'[s] = draft[r] /\ now' = now
        /\ \A i \in Ids \ {s} : store'[i] = store[i]
        /\ draft[r] # NoDoc /\ draft[r].resv = NoReservation
    BY <1>0, <1>6, <2>0, InsertFacts, StoreAssumption DEF FreshInv, TypeOK
  <2>2. lease' = [lease EXCEPT ![s] = NoReservation]
    BY <1>4, <2>1 DEF LeaseOf
  <2>3. s \notin StoredIds /\ StoredIds' = StoredIds \cup {s}
    BY <2>1 DEF StoredIds
  <2>4. Lock!Appear(s)
    BY <2>1, <2>2, <2>3
    DEF Lock!Appear, Lock!SetLease, Lock!FreeLease, NoReservation
  <2> QED
    BY <2>1, <2>4 DEF Lock!LockNext
<1>7. ASSUME NEW r \in Requests, Replace(r)
      PROVE  [Lock!LockNext]_Lock!lockVars
  <2>0. PICK s \in Ids : s = tgt[r]
    BY <1>0 DEF TypeOK
  <2>8. PICK new : new = draft[r].resv
    OBVIOUS
  <2>1. /\ store[s] # NoDoc /\ store'[s] = draft[r] /\ now' = now
        /\ \A i \in Ids \ {s} : store'[i] = store[i]
        /\ draft[r] \in Doc /\ draft[r] # NoDoc
        /\ Derived(job[r], snap[r], draft[r])
        /\ snap[r].resv = store[s].resv
    BY <1>0, <1>7, <2>0, <2>8, ReplaceFacts, ContentParts, StoreAssumption DEF TypeOK
  <2>2. /\ LeaseOf(s)' = new /\ LeaseOf(s) = snap[r].resv
        /\ lease[s] = snap[r].resv
    BY <2>0, <2>1, <2>8 DEF LeaseOf
  <2>3. lease' = [lease EXCEPT ![s] = new] /\ lease'[s] = new
    BY <1>4, <2>1, <2>2
  <2>4. s \in StoredIds /\ StoredIds' = StoredIds
    BY <2>1 DEF StoredIds
  <2>5. CASE job[r].op \notin {"reserve", "release"}
    <3>1. \A i \in Ids : /\ store'[i] = NoDoc <=> store[i] = NoDoc
                         /\ LeaseOf(i)' = LeaseOf(i)
      BY <2>0, <2>1, <2>2, <2>5, <2>8 DEF Derived, LeaseOf
    <3> QED
      BY <1>2, <2>1, <3>1
  <2>6. CASE job[r].op = "release"
    <3>1. new = NoReservation /\ lease[s].holder # None
      BY <2>0, <2>1, <2>2, <2>6, <2>8 DEF Derived
    <3>2. Lock!Drop(s)
      BY <2>1, <2>3, <2>4, <3>1
      DEF Lock!Drop, Lock!SetLease, Lock!FreeLease, NoReservation
    <3> QED
      BY <2>1, <3>2 DEF Lock!LockNext
  <2>7. CASE job[r].op = "reserve"
    <3>1. new \in Reservation /\ new.holder # None /\ new.expires \in Nat
      BY <2>0, <2>1, <2>7, <2>8 DEF Derived, Doc
    <3>2. IsLive(lease[s], now) => /\ new.holder = lease[s].holder
                                   /\ new.wf = lease[s].wf
                                   /\ new.created = lease[s].created
      BY <2>0, <2>1, <2>2, <2>7, <2>8 DEF Derived, IsSameClaim
    <3> HIDE DEF lease
    <3>3. Lock!Take(s)
      BY <2>1, <2>3, <2>4, <3>1, <3>2
      DEF Lock!Take, Lock!SetLease, Lock!Held, Lock!Leases, IsLive, Reservation,
          lease
    <3> QED
      BY <2>1, <3>3 DEF Lock!LockNext
  <2> QED
    BY <2>5, <2>6, <2>7
<1> QED
  BY <1>1, <1>3, <1>5, <1>6, <1>7, StoreCases

(***************************************************************************)
(* The collection implements ADR-0035's lock: no write, race or crash ever *)
(* takes a live lock from the run that holds it.                           *)
(***************************************************************************)
THEOREM StoreImplementsLock == Spec => ImplementsInstallLock
<1>1. Init => FreshInv
  BY DEF Init, FreshInv
<1>2. Core /\ FreshInv /\ [Next]_vars => [Lock!LockNext]_Lock!lockVars
  BY LockNextMaps
<1> QED
  BY <1>1, <1>2, InitCore, CoreNext, FreshNext, LockInitMaps, PTL
  DEF Spec, ImplementsInstallLock, Lock!LockSpec

(***************************************************************************)
(* The audit trail.                                                        *)
(***************************************************************************)
Unwritten == {"SERVER_RESERVATION_REFUSED", "SERVER_PRUNED"}

\* What a request may tell the trail: that it wrote, or that it did not.
Due(r) == IF r \in committed THEN EventTypes \ Unwritten ELSE Unwritten

Working == {"start", "decide", "write", "missed"}

(***************************************************************************)
(* The inductive invariant: what is on record, and what is still owed, is  *)
(* due; a request that may still write has recorded nothing; and a prune   *)
(* pass has its event on record before it deletes.                         *)
(***************************************************************************)
TrailOf(r) ==
    /\ owed[r] \in Seq(Due(r))
    /\ r \in committed => outcome[r] = "ok"
    /\ \A e \in audit : e.req = r => e.type \in Due(r)
    /\ pc[r] \in Working => \A e \in audit : e.req # r

PruneOf(r) ==
    /\ pc[r] = "delete" => /\ job[r].op = "prune"
                           /\ [type |-> "SERVER_PRUNED", req |-> r] \in audit
    /\ pc[r] = "record" /\ job[r].op = "prune" => owed[r] = <<"SERVER_PRUNED">>
    /\ pc[r] = "missed" => job[r].op # "prune"

TrailInv == \A r \in Requests : TrailOf(r) /\ PruneOf(r)

LEMMA DueEvents ==
    /\ \A op \in ByIdOps \cup {"ingest"} : \A d, e :
          EventsOf(op, d, e) \in Seq(EventTypes \ Unwritten)
    /\ <<"SERVER_CREATED">> \in Seq(EventTypes \ Unwritten)
    /\ <<>> \in Seq(Unwritten) /\ <<"SERVER_PRUNED">> \in Seq(Unwritten)
    /\ <<"SERVER_RESERVATION_REFUSED">> \in Seq(Unwritten)
    /\ \A c : If(c, "SERVER_RESERVATION_REFUSED") \in Seq(Unwritten)
<1> DEFINE S == EventTypes \ Unwritten
<1>1. {"SERVER_RESERVED", "SERVER_RELEASED", "MAINTENANCE_ENABLED",
       "MAINTENANCE_UPDATED", "MAINTENANCE_DISABLED", "SERVER_CREATED",
       "SERVER_RENAMED", "CLASSIFICATION_CHANGED", "HEALTH_CHANGED",
       "OPENSHIFT_STATE_CHANGED"} \subseteq S
  BY DEF EventTypes, Unwritten
<1> HIDE DEF S
<1>2. /\ <<>> \in Seq(S) /\ \A v \in S : <<v>> \in Seq(S)
      /\ \A c : \A v \in S : If(c, v) \in Seq(S)
  BY DEF If
<1>3. \A s, t, u \in Seq(S) : s \o t \o u \in Seq(S)
  OBVIOUS
<1>4. \A d, e : TransitionEvents(d, e) \in Seq(S)
  <2> TAKE d, e
  <2>1. /\ If(d.name # e.name, "SERVER_RENAMED") \in Seq(S)
        /\ If(d.cls # e.cls, "CLASSIFICATION_CHANGED") \in Seq(S)
        /\ If(d.hlth # e.hlth, "HEALTH_CHANGED") \in Seq(S)
    BY <1>1, <1>2
  <2> QED
    BY <1>3, <2>1 DEF TransitionEvents
<1>5. \A op \in ByIdOps \cup {"ingest"} : \A d, e : EventsOf(op, d, e) \in Seq(S)
  <2> TAKE op \in ByIdOps \cup {"ingest"}
  <2> TAKE d, e
  <2>1. /\ <<"SERVER_RESERVED">> \in Seq(S) /\ <<"SERVER_RELEASED">> \in Seq(S)
        /\ <<IF d.maint.by # None THEN "MAINTENANCE_UPDATED"
                                  ELSE "MAINTENANCE_ENABLED">> \in Seq(S)
    BY <1>1, <1>2
  <2>2. /\ If(d.maint.by # None, "MAINTENANCE_DISABLED") \in Seq(S)
        /\ If(d.cls # e.cls, "CLASSIFICATION_CHANGED") \in Seq(S)
        /\ If(d.hlth # e.hlth, "HEALTH_CHANGED") \in Seq(S)
        /\ If((d.osh = None) # (e.osh = None), "OPENSHIFT_STATE_CHANGED") \in Seq(S)
    BY <1>1, <1>2
  <2> QED
    BY <1>4, <2>1, <2>2 DEF EventsOf, ByIdOps
<1>6. /\ <<>> \in Seq(Unwritten) /\ \A v \in Unwritten : <<v>> \in Seq(Unwritten)
      /\ <<"SERVER_CREATED">> \in Seq(S)
  BY <1>1
<1>7. /\ "SERVER_PRUNED" \in Unwritten /\ "SERVER_RESERVATION_REFUSED" \in Unwritten
  BY DEF Unwritten
<1>8. \A c : If(c, "SERVER_RESERVATION_REFUSED") \in Seq(Unwritten)
  BY <1>6, <1>7 DEF If
<1>9. /\ <<"SERVER_PRUNED">> \in Seq(Unwritten)
      /\ <<"SERVER_RESERVATION_REFUSED">> \in Seq(Unwritten)
  BY <1>6, <1>7
<1>10. S = EventTypes \ Unwritten
  BY DEF S
<1>11. \A op \in ByIdOps \cup {"ingest"} : \A d, e :
          EventsOf(op, d, e) \in Seq(EventTypes \ Unwritten)
  BY <1>5, <1>10
<1>12. <<"SERVER_CREATED">> \in Seq(EventTypes \ Unwritten)
  BY <1>6, <1>10
<1>13. <<>> \in Seq(Unwritten)
  BY <1>6
<1> QED
  BY <1>8, <1>9, <1>11, <1>12, <1>13

\* Requests other than r see no difference in a step of r.
OthersStay(r) ==
    \A q \in Requests \ {r} :
        /\ pc'[q] = pc[q] /\ owed'[q] = owed[q] /\ outcome'[q] = outcome[q]
        /\ q \in committed' <=> q \in committed
        /\ \A e \in audit' : e.req = q => e \in audit

LEMMA OthersKeep ==
    ASSUME TrailInv, NEW r \in Requests, OthersStay(r), audit \subseteq audit',
           job' = job
    PROVE  \A q \in Requests \ {r} : TrailOf(q)' /\ PruneOf(q)'
<1> TAKE q \in Requests \ {r}
<1>1. TrailOf(q) /\ PruneOf(q)
  BY DEF TrailInv
<1>2. /\ pc'[q] = pc[q] /\ owed'[q] = owed[q] /\ outcome'[q] = outcome[q]
      /\ q \in committed' <=> q \in committed
      /\ \A e \in audit' : e.req = q => e \in audit
  BY DEF OthersStay
<1>3. Due(q)' = Due(q)
  BY <1>2 DEF Due
<1>4. TrailOf(q)'
  BY <1>1, <1>2, <1>3 DEF TrailOf
<1>5. PruneOf(q)'
  BY <1>1, <1>2 DEF PruneOf
<1> QED
  BY <1>4, <1>5

\* r goes on, answers nobody and records nothing.
LEMMA TrailMove ==
    ASSUME Core, TrailInv, NEW r \in Requests,
           \A q \in Requests \ {r} : pc'[q] = pc[q],
           pc'[r] \in Working => pc[r] \in Working,
           pc'[r] \notin {"record", "delete"},
           pc'[r] = "missed" => job[r].op # "prune",
           UNCHANGED <<owed, outcome, audit, committed, job>>
    PROVE  TrailInv'
<1>1. OthersStay(r)
  BY DEF OthersStay
<1>2. TrailOf(r)' /\ PruneOf(r)'
  BY DEF TrailInv, TrailOf, PruneOf, Due
<1> QED
  BY <1>1, <1>2, OthersKeep DEF TrailInv

\* r answers, owing only what is due; if it wrote, it wrote now.
LEMMA TrailSettle ==
    ASSUME Core, TrailInv, NEW r \in Requests, NEW events, NEW out,
           Settle(r, events, out),
           pc[r] \in Working \cup {"delete"},
           \/ /\ UNCHANGED committed /\ events \in Seq(Unwritten)
           \/ /\ committed' = committed \cup {r} /\ out = "ok"
              /\ events \in Seq(EventTypes \ Unwritten) /\ pc[r] \in Working,
           job[r].op = "prune" => events \in {<<>>, <<"SERVER_PRUNED">>},
           UNCHANGED <<audit, job>>
    PROVE  TrailInv'
<1>0. TypeOK /\ CommitInv /\ r \notin committed
  BY DEF Core, CommitInv, Working
<1>1. /\ owed'[r] = events /\ outcome'[r] = out
      /\ pc'[r] = IF events = <<>> THEN "done" ELSE "record"
      /\ \A q \in Requests \ {r} : /\ pc'[q] = pc[q] /\ owed'[q] = owed[q]
                                   /\ outcome'[q] = outcome[q]
  BY <1>0 DEF Settle, TypeOK
<1>2. OthersStay(r)
  BY <1>1 DEF OthersStay
<1>3. TrailOf(r)'
  <2>1. \A e \in audit : e.req = r => e.type \in Unwritten
    BY <1>0 DEF TrailInv, TrailOf, Due
  <2>2. pc'[r] \notin Working
    BY <1>1 DEF Working
  <2>3. CASE UNCHANGED committed /\ events \in Seq(Unwritten)
    BY <1>0, <1>1, <2>1, <2>2, <2>3 DEF TrailOf, Due
  <2>4. CASE /\ committed' = committed \cup {r} /\ out = "ok"
             /\ events \in Seq(EventTypes \ Unwritten) /\ pc[r] \in Working
    <3>1. \A e \in audit : e.req # r
      BY <2>4 DEF TrailInv, TrailOf
    <3> QED
      BY <1>1, <2>2, <2>4, <3>1 DEF TrailOf, Due
  <2> QED
    BY <2>3, <2>4
<1>4. PruneOf(r)'
  BY <1>1 DEF PruneOf
<1> QED
  BY <1>2, <1>3, <1>4, OthersKeep DEF TrailInv

LEMMA TrailRecord ==
    ASSUME Core, TrailInv, NEW r \in Requests, RecordEvent(r)
    PROVE  TrailInv'
<1>0. TypeOK /\ PcInv
  BY DEF Core
<1> DEFINE ev == [type |-> Head(owed[r]), req |-> r]
<1>1. /\ pc[r] = "record" /\ audit' = audit \cup {ev}
      /\ owed'[r] = Tail(owed[r])
      /\ pc'[r] = IF Tail(owed[r]) # <<>> THEN "record"
                  ELSE IF job[r].op = "prune" THEN "delete" ELSE "done"
      /\ \A q \in Requests \ {r} : pc'[q] = pc[q] /\ owed'[q] = owed[q]
      /\ UNCHANGED <<job, outcome, committed>>
  BY <1>0 DEF RecordEvent, TypeOK
<1>2. owed[r] # <<>> /\ owed[r] \in Seq(Due(r))
  BY <1>0, <1>1 DEF PcInv, TrailInv, TrailOf
<1>3. Head(owed[r]) \in Due(r) /\ Tail(owed[r]) \in Seq(Due(r))
  BY <1>2
<1>4. ev.req = r /\ ev.type = Head(owed[r])
  OBVIOUS
<1>5. job[r].op = "prune" => Head(owed[r]) = "SERVER_PRUNED" /\ Tail(owed[r]) = <<>>
  <2>1. job[r].op = "prune" => owed[r] = <<"SERVER_PRUNED">>
    BY <1>1 DEF TrailInv, PruneOf
  <2>2. Head(<<"SERVER_PRUNED">>) = "SERVER_PRUNED" /\ Tail(<<"SERVER_PRUNED">>) = <<>>
    OBVIOUS
  <2> QED
    BY <2>1, <2>2
<1>6. PruneOf(r)'
  <2>1. job[r].op = "prune" => ev = [type |-> "SERVER_PRUNED", req |-> r]
    BY <1>5
  <2> QED
    BY <1>1, <1>5, <2>1 DEF PruneOf
<1> HIDE DEF ev
<1>7. OthersStay(r)
  BY <1>1, <1>4 DEF OthersStay
<1>8. TrailOf(r)'
  BY <1>1, <1>3, <1>4 DEF TrailInv, TrailOf, Due, Working
<1> QED
  BY <1>1, <1>6, <1>7, <1>8, OthersKeep DEF TrailInv

LEMMA TrailStep ==
    ASSUME Core, TrailInv, NEW r \in Requests, Step(r)
    PROVE  TrailInv'
<1>0. /\ TypeOK /\ PcInv /\ TrailOf(r) /\ PruneOf(r)
      /\ job[r].op \in {"reserve", "release", "enable", "disable", "reclassify",
                       "recalculate", "member", "ingest", "prune"}
  BY DEF Core, TrailInv, TypeOK, JobSpace
\* Answers without a write.
<1>1. ASSUME NEW events, NEW out, Answer(r, events, out), pc[r] \in Working,
             events \in Seq(Unwritten), job[r].op # "prune"
      PROVE  TrailInv'
  BY <1>1, TrailSettle DEF Answer
<1>2. ASSUME NEW d, Draft(r, d), pc[r] = "decide" PROVE TrailInv'
  <2>1. /\ pc'[r] = "write" /\ \A q \in Requests \ {r} : pc'[q] = pc[q]
        /\ UNCHANGED <<owed, outcome, audit, committed, job>>
    BY <1>0, <1>2 DEF Draft, TypeOK
  <2> QED
    BY <1>2, <2>1, TrailMove DEF Working
<1>3. CASE \/ Reserve(r) \/ Release(r) \/ Enable(r) \/ Disable(r)
           \/ Reclassify(r) \/ Recalculate(r) \/ WriteMembership(r)
  <2>1. pc[r] = "decide" /\ job[r].op # "prune"
    BY <1>3
    DEF Reserve, Release, Enable, Disable, Reclassify, Recalculate,
        WriteMembership
  <2>2. \/ \E d : Draft(r, d)
        \/ \E out : Answer(r, <<>>, out)
        \/ \E out : Answer(r, <<"SERVER_RESERVATION_REFUSED">>, out)
    BY <1>3
    DEF Reserve, Release, Enable, Disable, Reclassify, Recalculate,
        WriteMembership
  <2> QED
    BY <1>1, <1>2, <2>1, <2>2, DueEvents DEF Working
<1>4. CASE GetById(r)
  <2>1. pc[r] = "start" /\ job[r].op # "prune"
        /\ UNCHANGED <<audit, committed, job>>
    BY <1>4 DEF GetById, ByIdOps
  <2>2. CASE store[tgt[r]] = NoDoc
    <3>1. Settle(r, <<>>, "notfound")
      BY <1>4, <2>2 DEF GetById
    <3> QED
      BY <2>1, <3>1, TrailSettle, DueEvents DEF Working
  <2>3. CASE store[tgt[r]] # NoDoc
    <3>1. /\ pc'[r] = "decide" /\ \A q \in Requests \ {r} : pc'[q] = pc[q]
          /\ UNCHANGED <<owed, outcome>>
      BY <1>0, <1>4, <2>3 DEF GetById, TypeOK
    <3> QED
      BY <2>1, <3>1, TrailMove DEF Working
  <2> QED
    BY <2>2, <2>3
<1>5. CASE RecordEvent(r)
  BY <1>5, TrailRecord
\* The two writes that commit.
<1>6. CASE Replace(r)
  <2>1. /\ Settle(r, EventsOf(job[r].op, snap[r], draft[r]), "ok")
        /\ committed' = committed \cup {r} /\ UNCHANGED <<audit, job>>
    BY <1>6 DEF Replace
  <2>2. pc[r] = "write" /\ job[r].op \in ByIdOps \cup {"ingest"}
    BY <1>6, ReplaceFacts
  <2>3. /\ EventsOf(job[r].op, snap[r], draft[r]) \in Seq(EventTypes \ Unwritten)
        /\ job[r].op # "prune"
    BY <2>2, DueEvents DEF ByIdOps
  <2> QED
    BY <2>1, <2>2, <2>3, TrailSettle DEF Working
<1>7. CASE Insert(r)
  <2>1. /\ Settle(r, <<"SERVER_CREATED">>, "ok")
        /\ committed' = committed \cup {r} /\ UNCHANGED <<audit, job>>
    BY <1>7 DEF Insert
  <2>2. pc[r] = "write" /\ job[r].op # "prune"
    BY <1>7, InsertFacts
  <2> QED
    BY <2>1, <2>2, TrailSettle, DueEvents DEF Working
\* A miss, the read after it, and the retry.
<1>8. CASE ReplaceMiss(r) \/ IngestBuild(r)
  <2>1. /\ pc[r] \in {"start", "write"} /\ pc'[r] \in {"missed", "write"}
        /\ \A q \in Requests \ {r} : pc'[q] = pc[q]
        /\ UNCHANGED <<owed, outcome, audit, committed, job>>
    BY <1>0, <1>8 DEF ReplaceMiss, IngestBuild, Replaces, TypeOK
  <2>2. job[r].op # "prune"
    BY <1>0, <1>8 DEF ReplaceMiss, IngestBuild, Replaces, PcInv, ByIdOps
  <2> QED
    BY <2>1, <2>2, TrailMove DEF Working
<1>9. CASE ReadAfterMiss(r)
  <2>1. pc[r] = "missed" /\ job[r].op # "prune"
    BY <1>0, <1>9 DEF ReadAfterMiss, PruneOf
  <2> QED
    BY <1>1, <1>9, <2>1, DueEvents DEF ReadAfterMiss, Working
<1>10. CASE IngestRetry(r)
  <2>1. /\ pc[r] \in Working /\ job[r].op # "prune"
        /\ UNCHANGED <<audit, committed, job>>
    BY <1>0, <1>10
    DEF IngestRetry, WriteConflict, Inserts, Touches, PcInv, Inserting, Working,
        PruneOf
  <2>2. CASE Settle(r, <<>>, "failed")
    BY <2>1, <2>2, TrailSettle, DueEvents
  <2>3. CASE pc' = [pc EXCEPT ![r] = "start"] /\ UNCHANGED <<owed, outcome>>
    <3>1. pc'[r] = "start" /\ \A q \in Requests \ {r} : pc'[q] = pc[q]
      BY <1>0, <2>3 DEF TypeOK
    <3> QED
      BY <2>1, <2>3, <3>1, TrailMove DEF Working
  <2> QED
    BY <1>10, <2>2, <2>3 DEF IngestRetry
<1>11. CASE TouchSeen(r)
  <2>1. /\ pc[r] = "write" /\ job[r].op # "prune" /\ Settle(r, <<>>, "ok")
        /\ UNCHANGED <<audit, committed, job>>
    BY <1>11 DEF TouchSeen, Touches
  <2> QED
    BY <2>1, TrailSettle, DueEvents DEF Working
\* The prune pass.
<1>12. CASE PruneBackfill(r)
  <2>1. /\ pc[r] = "start" /\ pc'[r] = "decide"
        /\ \A q \in Requests \ {r} : pc'[q] = pc[q]
        /\ UNCHANGED <<owed, outcome, audit, committed, job>>
    BY <1>0, <1>12 DEF PruneBackfill, TypeOK
  <2> QED
    BY <2>1, TrailMove DEF Working
<1>13. CASE PruneDecide(r)
  <2>1. /\ pc[r] = "decide" /\ UNCHANGED <<audit, committed, job>>
        /\ \/ Settle(r, <<"SERVER_PRUNED">>, "none")
           \/ Settle(r, <<>>, "ok")
    BY <1>13 DEF PruneDecide
  <2> QED
    BY <2>1, TrailSettle, DueEvents DEF Working
<1>14. CASE PruneDelete(r)
  <2>1. /\ pc[r] = "delete" /\ Settle(r, <<>>, "ok")
        /\ UNCHANGED <<audit, committed, job>>
    BY <1>14 DEF PruneDelete
  <2> QED
    BY <2>1, TrailSettle, DueEvents
<1> QED
  BY <1>3, <1>4, <1>5, <1>6, <1>7, <1>8, <1>9, <1>10, <1>11, <1>12, <1>13, <1>14
  DEF Step

LEMMA TrailInit == Init => TrailInv
<1> SUFFICES ASSUME Init, NEW r \in Requests PROVE TrailOf(r) /\ PruneOf(r)
  BY DEF TrailInv
<1>1. /\ pc[r] = "start" /\ owed[r] = <<>> /\ audit = {} /\ committed = {}
  BY DEF Init
<1> QED
  BY <1>1, DueEvents DEF TrailOf, PruneOf, Due

LEMMA TrailNext == Core /\ TrailInv /\ [Next]_vars => TrailInv'
<1> SUFFICES ASSUME Core, TrailInv, [Next]_vars PROVE TrailInv'
  OBVIOUS
<1>1. ASSUME NEW r \in Requests, Crash(r) PROVE TrailInv'
  <2>1. /\ pc'[r] = "crashed" /\ \A q \in Requests \ {r} : pc'[q] = pc[q]
        /\ UNCHANGED <<owed, outcome, audit, committed, job>>
    BY <1>1 DEF Crash, Core, TypeOK
  <2> QED
    BY <2>1, TrailMove DEF Working
<1>2. CASE Tick \/ UNCHANGED vars
  <2>1. UNCHANGED <<pc, owed, outcome, audit, committed, job>>
    BY <1>2 DEF Tick, vars
  <2>2. ASSUME NEW r \in Requests PROVE TrailOf(r)' /\ PruneOf(r)'
    <3>1. TrailOf(r) /\ PruneOf(r)
      BY DEF TrailInv
    <3>2. TrailOf(r)'
      BY <2>1, <3>1 DEF TrailOf, Due
    <3> QED
      BY <2>1, <3>1, <3>2 DEF PruneOf
  <2> QED
    BY <2>2 DEF TrailInv
<1> QED
  BY <1>1, <1>2, TrailStep DEF Next

(***************************************************************************)
(* Who is told "conflict", "notfound" or "failed" wrote nothing, and the   *)
(* trail never says that a request was refused which wrote, nor that one   *)
(* wrote which did not (ReservationService.reserve, ingest's last attempt).*)
(***************************************************************************)
THEOREM RefusalsAreClean == Spec => []RefusedWroteNothing
<1>1. Core /\ TrailInv => RefusedWroteNothing
  <2> SUFFICES ASSUME Core, TrailInv PROVE RefusedWroteNothing
    OBVIOUS
  <2>1. /\ committed \subseteq Requests
        /\ audit \subseteq [type: EventTypes, req: Requests]
    BY DEF Core, TypeOK
  <2>2. \A r \in committed : outcome[r] = "ok"
    BY <2>1 DEF TrailInv, TrailOf
  <2>3. \A e \in audit : e.req \in Requests /\ e.type \in Due(e.req)
    BY <2>1 DEF TrailInv, TrailOf
  <2> QED
    BY <2>2, <2>3 DEF RefusedWroteNothing, Due, Unwritten
<1> QED
  BY <1>1, InitCore, CoreNext, TrailInit, TrailNext, PTL DEF Spec

(***************************************************************************)
(* A document disappears only with its SERVER_PRUNED event on record       *)
(* (_delete_one records before it deletes), whoever crashes in between.    *)
(***************************************************************************)
THEOREM NothingVanishesSilently == Spec => DeletionsAudited
<1>1. Core /\ TrailInv /\ [Next]_vars => [DeletesOnRecord]_vars
  <2> SUFFICES ASSUME Core, TrailInv, [Next]_vars,
                      NEW i \in Ids, store[i] # NoDoc, store'[i] = NoDoc
               PROVE  \E r \in Requests :
                         /\ tgt[r] = i
                         /\ [type |-> "SERVER_PRUNED", req |-> r] \in audit
    BY DEF DeletesOnRecord
  <2>1. TypeOK
    BY DEF Core
  <2>2. ASSUME NEW r \in Requests, Replace(r) \/ Insert(r) PROVE FALSE
    <3>1. /\ tgt[r] \in Ids /\ draft[r] \in Doc
          /\ store' = [store EXCEPT ![tgt[r]] = draft[r]]
      BY <2>2, ReplaceFacts, InsertFacts
    <3> QED
      BY <2>1, <3>1, StoreAssumption DEF TypeOK
  <2>3. ASSUME NEW r \in Requests, TouchSeen(r) \/ PruneBackfill(r) PROVE FALSE
    BY <2>3, StampFacts DEF Core
  <2>4. PICK r \in Requests : PruneDelete(r)
    BY <2>2, <2>3, StoreCases
  <2>5. pc[r] = "delete" /\ tgt[r] = i
    BY <2>1, <2>4 DEF PruneDelete, TypeOK
  <2> QED
    BY <2>5 DEF TrailInv, PruneOf
<1> QED
  BY <1>1, InitCore, CoreNext, TrailInit, TrailNext, PTL
  DEF Spec, DeletionsAudited
=============================================================================
