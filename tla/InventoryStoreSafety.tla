------------------------ MODULE InventoryStoreSafety ------------------------
(***************************************************************************)
(* Why the writers of the collection do not undo each other, proved for    *)
(* every choice of the constants: the invariant that ids are drawn once,   *)
(* that a revision stands for one content, and that a draft differs from   *)
(* what was read only in the part its writer owns.                         *)
(***************************************************************************)
EXTENDS InventoryStoreProofs

(***************************************************************************)
(* The inductive invariant.                                                *)
(***************************************************************************)
\* r works from a document it has read.
Reading(r) ==
    pc[r] \in {"decide", "write"} /\ job[r].op # "prune" /\ snap[r] # NoDoc

\* An id is drawn once, for one document, which nobody has read before it is
\* inserted.
IdInv ==
    /\ \A i \in Ids : store[i] # NoDoc => i \in drawn
    /\ \A r \in Requests :
          /\ Reading(r) \/ r \in committed => tgt[r] \in drawn
          /\ Inserting(r) => /\ tgt[r] \in drawn /\ store[tgt[r]] = NoDoc
                             /\ \A q \in Requests \ {r} :
                                   tgt[q] = tgt[r] =>
                                      /\ ~Reading(q) /\ ~Inserting(q)
                                      /\ q \notin committed

\* What a request has read is what its revision stood for.
SnapInv ==
    \A r \in Requests :
        Reading(r) /\ store[tgt[r]] # NoDoc =>
            /\ snap[r].rev <= store[tgt[r]].rev
            /\ snap[r].rev = store[tgt[r]].rev =>
                  Content(snap[r]) = Content(store[tgt[r]])

\* What a request is about to write differs from what it read in the part it
\* owns, and a claim it makes was free, or its own, when it decided.
Derived(j, d, e) ==
    /\ e.rev = d.rev + 1 /\ e.machine = d.machine
    /\ j.op \notin {"reserve", "release"} => e.resv = d.resv
    /\ j.op \notin {"enable", "disable"} => e.maint = d.maint
    /\ j.op # "member" => e.osh = d.osh
    /\ j.op \notin {"reclassify", "ingest"} => e.cls = d.cls
    /\ j.op \notin {"recalculate", "ingest"} => e.hlth = d.hlth
    /\ j.op # "ingest" => e.name = d.name /\ e.facts = d.facts
    /\ j.op = "reserve" =>
          /\ e.resv.holder = j.holder /\ e.resv.wf = j.wf
          /\ e.resv.holder # None /\ e.resv.expires \in Nat
          /\ IsLive(d.resv, now) =>
                /\ IsSameClaim(d.resv, j.holder, j.wf)
                /\ e.resv.created = d.resv.created
    /\ j.op = "release" =>
          /\ e.resv = NoReservation /\ d.resv.holder # None
          /\ j.holder = None \/ IsSameClaim(d.resv, j.holder, j.wf)

DraftInv ==
    \A r \in Requests :
        pc[r] = "write" /\ snap[r] # NoDoc => Derived(job[r], snap[r], draft[r])

\* A committed request never writes again, and its draft is what it wrote.
CommitInv ==
    \A r \in committed :
        /\ pc[r] \in {"record", "done", "crashed"} /\ job[r].op # "prune"
        /\ job[r].op = "reserve" =>
              /\ draft[r] # NoDoc
              /\ draft[r].resv.holder = job[r].holder
              /\ draft[r].resv.wf = job[r].wf
              /\ draft[r].resv.expires \in Nat

Core == TypeOK /\ PcInv /\ IdInv /\ SnapInv /\ DraftInv /\ CommitInv

LEMMA InitCore == Init => Core
<1> SUFFICES ASSUME Init PROVE Core
  OBVIOUS
<1>1. TypeOK /\ PcInv
  BY TypeInit
<1>2. \A r \in Requests : pc[r] = "start" /\ r \notin committed
  BY DEF Init
<1>3. IdInv
  BY <1>2 DEF Init, IdInv, Reading, Inserting
<1>4. SnapInv /\ DraftInv /\ CommitInv
  BY <1>2 DEF Init, SnapInv, DraftInv, CommitInv, Reading
<1> QED
  BY <1>1, <1>3, <1>4 DEF Core

(***************************************************************************)
(* What each handler changes in the document it read.                      *)
(***************************************************************************)
LEMMA Bumped ==
    ASSUME NEW d \in Doc
    PROVE  /\ Bump(d) \in Doc /\ Bump(d).rev = d.rev + 1
           /\ Bump(d).machine = d.machine /\ Bump(d).name = d.name
           /\ Bump(d).facts = d.facts /\ Bump(d).cls = d.cls
           /\ Bump(d).hlth = d.hlth /\ Bump(d).maint = d.maint
           /\ Bump(d).resv = d.resv /\ Bump(d).osh = d.osh
           /\ Bump(d).listed = d.listed
<1> DEFINE e == [d EXCEPT !.rev = d.rev + 1]
<1>1. e \in Doc /\ e.rev = d.rev + 1
  BY DEF Doc
<1>2. Bump(d) = [e EXCEPT !.legacy = FALSE]
  BY DEF Bump, Doc
<1>3. /\ e.machine = d.machine /\ e.name = d.name /\ e.facts = d.facts
      /\ e.cls = d.cls /\ e.hlth = d.hlth /\ e.maint = d.maint
      /\ e.resv = d.resv /\ e.osh = d.osh /\ e.listed = d.listed
  BY DEF Doc
<1> HIDE DEF e
<1> QED
  BY <1>1, <1>2, <1>3 DEF Doc

LEMMA HandlersDerive ==
    ASSUME TypeOK, NEW d \in Doc, NEW j \in Jobs
    PROVE  /\ /\ j.op = "reserve"
              /\ ~(IsLive(d.resv, now) /\ ~IsSameClaim(d.resv, j.holder, j.wf))
              => Derived(j, d, Reserved(d, j, now))
           /\ /\ j.op = "release" /\ IsLive(d.resv, now)
              /\ j.holder = None \/ IsSameClaim(d.resv, j.holder, j.wf)
              => Derived(j, d, Released(d))
           /\ j.op = "enable" => Derived(j, d, Enabled(d, j))
           /\ j.op = "disable" => Derived(j, d, Disabled(d))
           /\ j.op = "reclassify" => Derived(j, d, Reclassified(d, j))
           /\ j.op = "recalculate" => Derived(j, d, Recalculated(d, j))
           /\ j.op = "member" => Derived(j, d, Joined(d, j))
           /\ j.op = "ingest" => Derived(j, d, BuildServer(d, j, now))
<1> DEFINE e == Bump(d)
<1>1. /\ e \in Doc /\ e.rev = d.rev + 1
      /\ e.machine = d.machine /\ e.name = d.name /\ e.facts = d.facts
      /\ e.cls = d.cls /\ e.hlth = d.hlth /\ e.maint = d.maint
      /\ e.resv = d.resv /\ e.osh = d.osh
  BY Bumped
<1>2. j \in JobSpace /\ (j.op = "reserve" => j.holder # None)
  BY StoreAssumption
<1> HIDE DEF e
<1>3. ASSUME j.op = "reserve",
             ~(IsLive(d.resv, now) /\ ~IsSameClaim(d.resv, j.holder, j.wf))
      PROVE  Derived(j, d, Reserved(d, j, now))
  <2>1. now + j.ttl \in Nat
    <3>1. now \in Nat
      BY DEF TypeOK
    <3>2. j.ttl \in TTLs
      BY <1>2 DEF JobSpace
    <3>3. TTLs \subseteq Nat
      BY StoreAssumption
    <3>4. j.ttl \in Nat
      BY <3>2, <3>3
    <3> QED
      BY <3>1, <3>4
  <2> DEFINE res == [holder  |-> j.holder, wf |-> j.wf,
                     created |-> IF IsLive(d.resv, now) THEN d.resv.created
                                                        ELSE now,
                     expires |-> now + j.ttl]
  <2>2. Reserved(d, j, now) = [e EXCEPT !.resv = res]
    BY DEF Reserved, e
  <2>3. /\ res.holder = j.holder /\ res.wf = j.wf /\ res.expires \in Nat
        /\ IsLive(d.resv, now) => res.created = d.resv.created
    BY <2>1
  <2> HIDE DEF res
  <2>4. /\ Reserved(d, j, now).resv = res
        /\ Reserved(d, j, now).rev = e.rev /\ Reserved(d, j, now).machine = e.machine
        /\ Reserved(d, j, now).name = e.name /\ Reserved(d, j, now).facts = e.facts
        /\ Reserved(d, j, now).cls = e.cls /\ Reserved(d, j, now).hlth = e.hlth
        /\ Reserved(d, j, now).maint = e.maint /\ Reserved(d, j, now).osh = e.osh
    BY <1>1, <2>2 DEF Doc
  <2> QED
    BY <1>1, <1>2, <1>3, <2>3, <2>4 DEF Derived
<1>4. ASSUME j.op = "release", IsLive(d.resv, now),
             j.holder = None \/ IsSameClaim(d.resv, j.holder, j.wf)
      PROVE  Derived(j, d, Released(d))
  <2>1. Released(d) = [e EXCEPT !.resv = NoReservation]
    BY DEF Released, e
  <2> QED
    BY <1>1, <1>4, <2>1 DEF Derived, Doc, IsLive
<1>5. ASSUME j.op = "enable" PROVE Derived(j, d, Enabled(d, j))
  <2>1. PICK m : Enabled(d, j) = [e EXCEPT !.maint = m]
    BY DEF Enabled, e
  <2> QED
    BY <1>1, <1>5, <2>1 DEF Derived, Doc
<1>6. ASSUME j.op = "disable" PROVE Derived(j, d, Disabled(d))
  <2>1. Disabled(d) = [e EXCEPT !.maint = NoMaintenance]
    BY DEF Disabled, e
  <2> QED
    BY <1>1, <1>6, <2>1 DEF Derived, Doc
<1>7. ASSUME j.op = "reclassify" PROVE Derived(j, d, Reclassified(d, j))
  <2>1. Reclassified(d, j) = [e EXCEPT !.cls = j.verdict]
    BY DEF Reclassified, e
  <2> QED
    BY <1>1, <1>7, <2>1 DEF Derived, Doc
<1>8. ASSUME j.op = "recalculate" PROVE Derived(j, d, Recalculated(d, j))
  <2>1. Recalculated(d, j) = [e EXCEPT !.hlth = j.verdict]
    BY DEF Recalculated, e
  <2> QED
    BY <1>1, <1>8, <2>1 DEF Derived, Doc
<1>9. ASSUME j.op = "member" PROVE Derived(j, d, Joined(d, j))
  <2>1. Joined(d, j) = [e EXCEPT !.osh = j.holder]
    BY DEF Joined, e
  <2> QED
    BY <1>1, <1>9, <2>1 DEF Derived, Doc
<1>10. ASSUME j.op = "ingest" PROVE Derived(j, d, BuildServer(d, j, now))
  <2>1. BuildServer(d, j, now) =
          [e EXCEPT !.name = j.name, !.facts = j.val, !.cls = j.verdict,
                    !.hlth = j.verdict, !.listed = now]
    BY DEF BuildServer, e
  <2> QED
    BY <1>1, <1>10, <2>1 DEF Derived, Doc
<1> QED
  BY <1>3, <1>4, <1>5, <1>6, <1>7, <1>8, <1>9, <1>10

(***************************************************************************)
(* The steps, by what they touch.                                          *)
(***************************************************************************)
\* r answers, gives up, dies, or touches documents without changing what any
\* revision stands for: refreshes a stamp, deletes.
LEMMA QuietStep ==
    ASSUME Core, TypeOK', PcInv', NEW r \in Requests,
           pc'[r] # "write", pc'[r] = "decide" => job[r].op = "prune",
           r \in committed => pc'[r] \in {"record", "done", "crashed"},
           \A q \in Requests \ {r} : pc'[q] = pc[q] /\ snap'[q] = snap[q],
           \A i \in Ids : store'[i] # NoDoc =>
              /\ store[i] # NoDoc /\ store'[i].rev = store[i].rev
              /\ Content(store'[i]) = Content(store[i]),
           UNCHANGED <<now, drawn, job, tgt, draft, committed>>
    PROVE  Core'
<1>0. /\ IdInv /\ SnapInv /\ DraftInv /\ CommitInv
      /\ \A q \in Requests : tgt[q] \in Ids
      /\ committed \subseteq Requests
  BY DEF Core, TypeOK
<1>1. \A q \in Requests : /\ Reading(q)' => Reading(q) /\ q # r
                          /\ Inserting(q)' => Inserting(q) /\ q # r
  BY DEF Reading, Inserting
<1>2. IdInv'
  BY <1>0, <1>1 DEF IdInv
<1>3. SnapInv'
  BY <1>0, <1>1 DEF SnapInv
<1>4. DraftInv'
  BY <1>0 DEF DraftInv, Derived
<1>5. CommitInv'
  BY <1>0 DEF CommitInv
<1> QED
  BY <1>2, <1>3, <1>4, <1>5 DEF Core

\* A by-id handler has read the document.
LEMMA ReadStep ==
    ASSUME Core, TypeOK', PcInv', NEW r \in Requests, GetById(r)
    PROVE  Core'
<1>0. TypeOK /\ IdInv /\ SnapInv /\ DraftInv /\ CommitInv
  BY DEF Core
<1>1. /\ pc[r] = "start" /\ snap' = [snap EXCEPT ![r] = store[tgt[r]]]
      /\ UNCHANGED <<store, now, drawn, job, tgt, draft, tries, audit, committed>>
  BY DEF GetById
<1>2. /\ \A q \in Requests \ {r} : pc'[q] = pc[q] /\ snap'[q] = snap[q]
      /\ snap'[r] = store[tgt[r]] /\ tgt[r] \in Ids
      /\ r \notin committed
  <2>1. \A q \in Requests \ {r} : pc'[q] = pc[q]
    BY <1>0 DEF GetById, Settle, TypeOK
  <2> QED
    BY <1>0, <1>1, <2>1 DEF TypeOK, CommitInv
<1>3. CASE store[tgt[r]] = NoDoc
  <2>1. pc'[r] \in {"record", "done"}
    BY <1>0, <1>3 DEF GetById, Settle, TypeOK
  <2> QED
    BY <1>1, <1>2, <2>1, QuietStep
<1>4. CASE store[tgt[r]] # NoDoc
  <2>1. pc'[r] = "decide"
    BY <1>0, <1>4 DEF GetById, TypeOK
  <2>2. \A q \in Requests : /\ Reading(q)' => Reading(q) \/ q = r
                            /\ Inserting(q)' => Inserting(q) /\ q # r
    BY <1>1, <1>2, <2>1 DEF Reading, Inserting
  <2>3. tgt[r] \in drawn
    BY <1>0, <1>2, <1>4 DEF IdInv
  <2>4. IdInv'
    BY <1>0, <1>1, <1>2, <1>4, <2>2, <2>3 DEF IdInv
  <2>5. SnapInv'
    <3>1. store[tgt[r]].rev \in Nat
      BY <1>0, <1>2, <1>4 DEF TypeOK, Doc
    <3> QED
      BY <1>0, <1>1, <1>2, <2>2, <3>1 DEF SnapInv
  <2>6. DraftInv'
    BY <1>0, <1>1, <1>2, <2>1 DEF DraftInv, Derived
  <2>7. CommitInv'
    <3>1. \A q \in committed : q \in Requests \ {r}
      BY <1>0, <1>2 DEF TypeOK
    <3> QED
      BY <1>0, <1>1, <1>2, <3>1 DEF CommitInv
  <2> QED
    BY <2>4, <2>5, <2>6, <2>7 DEF Core
<1> QED
  BY <1>3, <1>4

\* A handler has built what it wants stored.
LEMMA DraftStep ==
    ASSUME Core, TypeOK', PcInv', NEW r \in Requests, NEW d,
           pc[r] = "decide", snap[r] # NoDoc, Draft(r, d),
           Derived(job[r], snap[r], d)
    PROVE  Core'
<1>0. TypeOK /\ PcInv /\ IdInv /\ SnapInv /\ DraftInv /\ CommitInv
  BY DEF Core
<1>1. /\ pc'[r] = "write" /\ draft'[r] = d
      /\ \A q \in Requests \ {r} : pc'[q] = pc[q] /\ draft'[q] = draft[q]
      /\ UNCHANGED <<store, now, drawn, job, tgt, snap, committed>>
  BY <1>0 DEF Draft, TypeOK
<1>2. r \notin committed
  BY <1>0 DEF CommitInv
<1>3. \A q \in Requests : Inserting(q)' => Inserting(q) /\ q # r
  BY <1>1 DEF Inserting
<1>4. \A q \in Requests : Reading(q)' => Reading(q)
  BY <1>1 DEF Reading
<1>5. IdInv' /\ SnapInv'
  BY <1>0, <1>1, <1>3, <1>4 DEF IdInv, SnapInv
<1>6. DraftInv'
  BY <1>0, <1>1 DEF DraftInv, Derived
<1>7. CommitInv'
  <2>1. \A q \in committed : q \in Requests \ {r}
    BY <1>0, <1>2 DEF TypeOK
  <2> QED
    BY <1>0, <1>1, <2>1 DEF CommitInv
<1> QED
  BY <1>5, <1>6, <1>7 DEF Core

\* A collector has correlated its record, or drawn an id for a new machine.
LEMMA BuildStep ==
    ASSUME Core, TypeOK', PcInv', NEW r \in Requests, IngestBuild(r)
    PROVE  Core'
<1>0. TypeOK /\ PcInv /\ IdInv /\ SnapInv /\ DraftInv /\ CommitInv
  BY DEF Core
<1>1. /\ pc[r] = "start" /\ job[r].op = "ingest" /\ pc'[r] = "write"
      /\ \A q \in Requests \ {r} : /\ pc'[q] = pc[q] /\ tgt'[q] = tgt[q]
                                   /\ snap'[q] = snap[q] /\ draft'[q] = draft[q]
      /\ UNCHANGED <<store, now, job, committed>>
      /\ r \notin committed
  <2>1. /\ pc[r] = "start" /\ job[r].op = "ingest"
        /\ pc' = [pc EXCEPT ![r] = "write"]
        /\ UNCHANGED <<store, now, job, committed>>
    BY DEF IngestBuild
  <2>2. \E i, d, e : /\ tgt' = [tgt EXCEPT ![r] = i]
                     /\ snap' = [snap EXCEPT ![r] = d]
                     /\ draft' = [draft EXCEPT ![r] = e]
    BY DEF IngestBuild
  <2>3. \A q \in Requests \ {r} : /\ tgt'[q] = tgt[q] /\ snap'[q] = snap[q]
                                   /\ draft'[q] = draft[q]
    BY <1>0, <2>2 DEF TypeOK
  <2>4. pc'[r] = "write" /\ \A q \in Requests \ {r} : pc'[q] = pc[q]
    BY <1>0, <2>1 DEF TypeOK
  <2>5. r \notin committed
    BY <1>0, <2>1 DEF CommitInv
  <2> QED
    BY <2>1, <2>3, <2>4, <2>5
<1>2. CASE \E i \in Correlated(r) :
              /\ tgt' = [tgt EXCEPT ![r] = i]
              /\ snap' = [snap EXCEPT ![r] = store[i]]
              /\ draft' = [draft EXCEPT ![r] = BuildServer(store[i], job[r], now)]
              /\ UNCHANGED drawn
  <2>1. PICK i \in Correlated(r) :
              /\ tgt' = [tgt EXCEPT ![r] = i]
              /\ snap' = [snap EXCEPT ![r] = store[i]]
              /\ draft' = [draft EXCEPT ![r] = BuildServer(store[i], job[r], now)]
              /\ UNCHANGED drawn
    BY <1>2
  <2>2. i \in Ids /\ store[i] # NoDoc /\ store[i] \in Doc /\ i \in drawn
    BY <1>0 DEF Correlated, TypeOK, IdInv
  <2>3. tgt'[r] = i /\ snap'[r] = store[i]
        /\ draft'[r] = BuildServer(store[i], job[r], now)
    BY <1>0, <2>1 DEF TypeOK
  <2>4. Derived(job[r], snap'[r], draft'[r])
    BY <1>0, <1>1, <2>2, <2>3, HandlersDerive DEF PcInv
  <2>5. \A q \in Requests : /\ Inserting(q)' => Inserting(q) /\ q # r
                            /\ Reading(q)' => Reading(q) \/ q = r
    BY <1>1, <2>2, <2>3 DEF Reading, Inserting
  <2>6. IdInv'
    BY <1>0, <1>1, <2>1, <2>2, <2>3, <2>5 DEF IdInv
  <2>7. SnapInv'
    <3>1. store[i].rev \in Nat
      BY <2>2 DEF Doc
    <3> QED
      BY <1>0, <1>1, <2>3, <2>5, <3>1 DEF SnapInv
  <2>8. DraftInv' /\ CommitInv'
    <3>1. \A q \in committed : q \in Requests \ {r}
      BY <1>0, <1>1 DEF TypeOK
    <3> QED
      BY <1>0, <1>1, <2>4, <3>1 DEF DraftInv, CommitInv, Derived
  <2> QED
    BY <2>6, <2>7, <2>8 DEF Core
<1>3. CASE /\ \E i \in Ids \ drawn :
                 /\ tgt' = [tgt EXCEPT ![r] = i]
                 /\ drawn' = drawn \cup {i}
           /\ snap' = [snap EXCEPT ![r] = NoDoc]
  <2>1. PICK i \in Ids \ drawn : /\ tgt' = [tgt EXCEPT ![r] = i]
                                 /\ drawn' = drawn \cup {i}
    BY <1>3
  <2>2. tgt'[r] = i /\ snap'[r] = NoDoc /\ store[i] = NoDoc
    BY <1>0, <1>3, <2>1 DEF TypeOK, IdInv
  <2>3. \A q \in Requests : /\ Reading(q)' => Reading(q) /\ q # r
                            /\ Inserting(q)' => Inserting(q) \/ q = r
    BY <1>1, <2>2 DEF Reading, Inserting
  <2>4. \A q \in Requests \ {r} : tgt[q] = i =>
           ~Reading(q) /\ ~Inserting(q) /\ q \notin committed
    BY <1>0, <2>1 DEF IdInv
  <2>5. IdInv'
    <3>1. \A k \in Ids : store'[k] # NoDoc => k \in drawn'
      BY <1>0, <1>1, <2>1 DEF IdInv
    <3>2. \A q \in Requests : Reading(q)' \/ q \in committed' => tgt'[q] \in drawn'
      BY <1>0, <1>1, <2>1, <2>3 DEF IdInv
    <3>3. \A q \in Requests : Inserting(q)' =>
              /\ tgt'[q] \in drawn' /\ store'[tgt'[q]] = NoDoc
              /\ \A p \in Requests \ {q} : tgt'[p] = tgt'[q] =>
                    ~Reading(p)' /\ ~Inserting(p)' /\ p \notin committed'
      <4>1. ASSUME NEW q \in Requests, Inserting(q)', q # r
            PROVE  /\ tgt'[q] \in drawn' /\ store'[tgt'[q]] = NoDoc
                   /\ \A p \in Requests \ {q} : tgt'[p] = tgt'[q] =>
                         ~Reading(p)' /\ ~Inserting(p)' /\ p \notin committed'
        <5>1. Inserting(q) /\ tgt[q] \in drawn /\ tgt'[q] = tgt[q] /\ tgt[q] # i
          BY <1>0, <1>1, <2>1, <2>3, <4>1 DEF IdInv
        <5> QED
          BY <1>0, <1>1, <2>1, <2>2, <2>3, <4>1, <5>1 DEF IdInv
      <4>2. /\ tgt'[r] \in drawn' /\ store'[tgt'[r]] = NoDoc
            /\ \A p \in Requests \ {r} : tgt'[p] = tgt'[r] =>
                  ~Reading(p)' /\ ~Inserting(p)' /\ p \notin committed'
        BY <1>1, <2>1, <2>2, <2>3, <2>4
      <4> QED
        BY <4>1, <4>2
    <3> QED
      BY <3>1, <3>2, <3>3 DEF IdInv
  <2>6. SnapInv'
    BY <1>0, <1>1, <2>3 DEF SnapInv
  <2>7. DraftInv' /\ CommitInv'
    <3>1. \A q \in committed : q \in Requests \ {r}
      BY <1>0, <1>1 DEF TypeOK
    <3> QED
      BY <1>0, <1>1, <2>2, <3>1 DEF DraftInv, CommitInv, Derived
  <2> QED
    BY <2>5, <2>6, <2>7 DEF Core
<1> QED
  BY <1>2, <1>3 DEF IngestBuild

\* A compare-and-set that applies finds exactly what its writer read.
LEMMA ReplaceFacts ==
    ASSUME Core, NEW r \in Requests, Replace(r)
    PROVE  /\ tgt[r] \in Ids /\ store[tgt[r]] \in Doc /\ store[tgt[r]] # NoDoc
           /\ snap[r] \in Doc /\ snap[r] # NoDoc /\ draft[r] \in Doc
           /\ Content(store[tgt[r]]) = Content(snap[r])
           /\ Derived(job[r], snap[r], draft[r])
           /\ store[tgt[r]].rev = snap[r].rev
           /\ pc[r] = "write" /\ Reading(r) /\ r \notin committed
           /\ job[r].op \in ByIdOps \cup {"ingest"}
           /\ store' = [store EXCEPT ![tgt[r]] = draft[r]]
           /\ committed' = committed \cup {r}
           /\ pc'[r] \in {"record", "done"}
           /\ \A q \in Requests \ {r} : pc'[q] = pc[q]
           /\ UNCHANGED <<now, drawn, job, tgt, snap, draft, tries, audit>>
<1>0. TypeOK /\ PcInv /\ IdInv /\ SnapInv /\ DraftInv /\ CommitInv
  BY DEF Core
<1>1. /\ pc[r] = "write" /\ snap[r] # NoDoc
      /\ store[tgt[r]] # NoDoc /\ store[tgt[r]].rev = snap[r].rev
      /\ store' = [store EXCEPT ![tgt[r]] = draft[r]]
      /\ committed' = committed \cup {r}
      /\ Settle(r, EventsOf(job[r].op, snap[r], draft[r]), "ok")
      /\ UNCHANGED <<now, drawn, job, tgt, snap, draft, tries, audit>>
  BY DEF Replace, Replaces, Matches
<1>2. /\ tgt[r] \in Ids /\ store[tgt[r]] \in Doc /\ snap[r] \in Doc
      /\ draft[r] \in Doc /\ job[r].op \in ByIdOps \cup {"ingest"}
  <2>1. /\ tgt[r] \in Ids /\ snap[r] \in Doc \cup {NoDoc}
        /\ draft[r] \in Doc \cup {NoDoc}
        /\ \A i \in Ids : store[i] \in Doc \cup {NoDoc}
    BY <1>0 DEF TypeOK
  <2>2. draft[r] # NoDoc /\ job[r].op \in ByIdOps \cup {"ingest"}
    BY <1>0, <1>1 DEF PcInv
  <2> QED
    BY <1>1, <2>1, <2>2
<1>3. Reading(r) /\ r \notin committed /\ Derived(job[r], snap[r], draft[r])
  BY <1>0, <1>1, <1>2 DEF Reading, CommitInv, DraftInv, ByIdOps
<1>4. Content(store[tgt[r]]) = Content(snap[r])
  BY <1>0, <1>1, <1>3 DEF SnapInv
<1>5. pc'[r] \in {"record", "done"} /\ \A q \in Requests \ {r} : pc'[q] = pc[q]
  BY <1>0, <1>1 DEF Settle, TypeOK
<1> QED
  BY <1>1, <1>2, <1>3, <1>4, <1>5

LEMMA ReplaceStep ==
    ASSUME Core, TypeOK', PcInv', NEW r \in Requests, Replace(r)
    PROVE  Core'
<1>0. TypeOK /\ PcInv /\ IdInv /\ SnapInv /\ DraftInv /\ CommitInv
  BY DEF Core
<1>1. /\ tgt[r] \in Ids /\ store[tgt[r]] # NoDoc
      /\ Derived(job[r], snap[r], draft[r]) /\ draft[r] # NoDoc
      /\ store[tgt[r]].rev = snap[r].rev /\ snap[r].rev \in Nat
      /\ Reading(r) /\ r \notin committed /\ job[r].op # "prune"
      /\ committed' = committed \cup {r} /\ pc'[r] \in {"record", "done"}
      /\ \A q \in Requests \ {r} : pc'[q] = pc[q]
      /\ UNCHANGED <<now, drawn, job, tgt, snap, draft>>
  BY ReplaceFacts, StoreAssumption DEF Doc, ByIdOps
<1>2. /\ store'[tgt[r]] = draft[r]
      /\ \A i \in Ids \ {tgt[r]} : store'[i] = store[i]
  BY <1>0, ReplaceFacts DEF TypeOK
<1>3. \A q \in Requests : /\ Reading(q)' => Reading(q) /\ q # r
                          /\ Inserting(q)' => Inserting(q) /\ q # r
                          /\ tgt[q] \in Ids
  BY <1>0, <1>1 DEF Reading, Inserting, TypeOK
<1>4. IdInv'
  <2>1. tgt[r] \in drawn
    BY <1>0, <1>1 DEF IdInv
  <2>2. \A q \in Requests : Inserting(q) => tgt[q] # tgt[r]
    BY <1>0, <1>1 DEF IdInv
  <2> QED
    BY <1>0, <1>1, <1>2, <1>3, <2>1, <2>2 DEF IdInv
<1>5. SnapInv'
  <2>1. draft[r].rev = store[tgt[r]].rev + 1 /\ store[tgt[r]].rev \in Nat
    BY <1>1 DEF Derived
  <2> SUFFICES ASSUME NEW q \in Requests, Reading(q), store'[tgt[q]] # NoDoc
               PROVE  /\ snap[q].rev <= store'[tgt[q]].rev
                      /\ snap[q].rev = store'[tgt[q]].rev =>
                            Content(snap[q]) = Content(store'[tgt[q]])
    BY <1>1, <1>3 DEF SnapInv, Content
  <2>2. CASE tgt[q] # tgt[r]
    BY <1>0, <1>2, <1>3, <2>2 DEF SnapInv
  <2>3. CASE tgt[q] = tgt[r]
    <3>1. snap[q].rev <= store[tgt[r]].rev
      BY <1>0, <1>1, <2>3 DEF SnapInv
    <3>2. snap[q].rev \in Nat
      BY <1>0 DEF TypeOK, Reading, Doc
    <3> QED
      BY <1>2, <2>1, <2>3, <3>1, <3>2
  <2> QED
    BY <2>2, <2>3
<1>6. DraftInv'
  BY <1>0, <1>1 DEF DraftInv, Derived
<1>7. CommitInv'
  <2>1. \A q \in committed : q \in Requests \ {r}
    BY <1>0, <1>1 DEF TypeOK
  <2>2. job[r].op = "reserve" => /\ draft[r].resv.holder = job[r].holder
                                 /\ draft[r].resv.wf = job[r].wf
                                 /\ draft[r].resv.expires \in Nat
    BY <1>1 DEF Derived
  <2> QED
    BY <1>0, <1>1, <2>1, <2>2 DEF CommitInv
<1> QED
  BY <1>4, <1>5, <1>6, <1>7 DEF Core

\* A collector inserts under an id nobody else has.
LEMMA InsertFacts ==
    ASSUME Core, NEW r \in Requests, Insert(r)
    PROVE  /\ tgt[r] \in Ids /\ store[tgt[r]] = NoDoc /\ tgt[r] \in drawn
           /\ pc[r] = "write" /\ snap[r] = NoDoc /\ r \notin committed
           /\ job[r].op = "ingest" /\ draft[r] \in Doc
           /\ \A q \in Requests \ {r} : tgt[q] = tgt[r] =>
                 ~Reading(q) /\ ~Inserting(q) /\ q \notin committed
           /\ store' = [store EXCEPT ![tgt[r]] = draft[r]]
           /\ committed' = committed \cup {r}
           /\ pc'[r] \in {"record", "done"}
           /\ \A q \in Requests \ {r} : pc'[q] = pc[q]
           /\ UNCHANGED <<now, drawn, job, tgt, snap, draft, tries, audit>>
<1>0. TypeOK /\ PcInv /\ IdInv /\ CommitInv
  BY DEF Core
<1>1. /\ pc[r] = "write" /\ snap[r] = NoDoc
      /\ store' = [store EXCEPT ![tgt[r]] = draft[r]]
      /\ committed' = committed \cup {r}
      /\ Settle(r, <<"SERVER_CREATED">>, "ok")
      /\ UNCHANGED <<now, drawn, job, tgt, snap, draft, tries, audit>>
  BY DEF Insert, Inserts
<1>2. Inserting(r) /\ r \notin committed
  BY <1>0, <1>1 DEF Inserting, CommitInv
<1>3. pc'[r] \in {"record", "done"} /\ \A q \in Requests \ {r} : pc'[q] = pc[q]
  BY <1>0, <1>1 DEF Settle, TypeOK
<1>4. tgt[r] \in Ids /\ job[r].op = "ingest" /\ draft[r] \in Doc
  BY <1>0, <1>1, <1>2 DEF TypeOK, PcInv
<1> QED
  BY <1>0, <1>1, <1>2, <1>3, <1>4 DEF IdInv

LEMMA InsertStep ==
    ASSUME Core, TypeOK', PcInv', NEW r \in Requests, Insert(r)
    PROVE  Core'
<1>0. TypeOK /\ PcInv /\ IdInv /\ SnapInv /\ DraftInv /\ CommitInv
  BY DEF Core
<1>1. /\ tgt[r] \in Ids /\ store[tgt[r]] = NoDoc /\ tgt[r] \in drawn
      /\ r \notin committed /\ job[r].op = "ingest"
      /\ \A q \in Requests \ {r} : tgt[q] = tgt[r] =>
            ~Reading(q) /\ ~Inserting(q) /\ q \notin committed
      /\ committed' = committed \cup {r} /\ pc'[r] \in {"record", "done"}
      /\ \A q \in Requests \ {r} : pc'[q] = pc[q]
      /\ UNCHANGED <<now, drawn, job, tgt, snap, draft>>
  BY InsertFacts
<1>2. \A i \in Ids \ {tgt[r]} : store'[i] = store[i]
  BY <1>0, InsertFacts DEF TypeOK
<1>3. \A q \in Requests : /\ Reading(q)' => Reading(q) /\ q # r /\ tgt[q] # tgt[r]
                          /\ Inserting(q)' => Inserting(q) /\ q # r /\ tgt[q] # tgt[r]
                          /\ tgt[q] \in Ids
  BY <1>0, <1>1 DEF Reading, Inserting, TypeOK
<1>4. IdInv'
  BY <1>0, <1>1, <1>2, <1>3 DEF IdInv
<1>5. SnapInv'
  BY <1>0, <1>1, <1>2, <1>3 DEF SnapInv
<1>6. DraftInv'
  BY <1>0, <1>1 DEF DraftInv, Derived
<1>7. CommitInv'
  <2>1. \A q \in committed : q \in Requests \ {r}
    BY <1>0, <1>1 DEF TypeOK
  <2> QED
    BY <1>0, <1>1, <2>1 DEF CommitInv
<1> QED
  BY <1>4, <1>5, <1>6, <1>7 DEF Core

\* touch_seen and backfill_listed_at refresh a stamp no revision stands for.
LEMMA StampFacts ==
    ASSUME TypeOK, PcInv, NEW r \in Requests, TouchSeen(r) \/ PruneBackfill(r)
    PROVE  \A i \in Ids : /\ store'[i] = NoDoc <=> store[i] = NoDoc
                          /\ store[i] # NoDoc =>
                                /\ store'[i].rev = store[i].rev
                                /\ Content(store'[i]) = Content(store[i])
<1>1. ASSUME NEW d \in Doc, NEW t
      PROVE  LET e == [d EXCEPT !.listed = t]
             IN  e.rev = d.rev /\ Content(e) = Content(d)
  BY DEF Doc, Content
<1>2. NoDoc \notin Doc /\ \A i \in Ids : store[i] \in Doc \cup {NoDoc}
  BY StoreAssumption DEF TypeOK
<1>3. CASE TouchSeen(r)
  <2>1. /\ store[tgt[r]] # NoDoc /\ tgt[r] \in Ids
        /\ store' = [store EXCEPT ![tgt[r]] =
                        [store[tgt[r]] EXCEPT !.listed = draft[r].listed]]
    BY <1>3 DEF TouchSeen, Matches, TypeOK
  <2>2. /\ store'[tgt[r]] = [store[tgt[r]] EXCEPT !.listed = draft[r].listed]
        /\ \A i \in Ids \ {tgt[r]} : store'[i] = store[i]
    BY <2>1 DEF TypeOK
  <2>3. store'[tgt[r]] # NoDoc
    <3>1. draft[r] \in Doc
      BY <1>2, <1>3 DEF TouchSeen, Touches, PcInv, TypeOK
    <3>2. store[tgt[r]] \in Doc
      BY <1>2, <2>1
    <3>3. [store[tgt[r]] EXCEPT !.listed = draft[r].listed] \in Doc
      BY <3>1, <3>2 DEF Doc
    <3> QED
      BY <1>2, <2>2, <3>3
  <2> QED
    BY <1>1, <1>2, <2>1, <2>2, <2>3
<1>4. CASE PruneBackfill(r)
  <2>1. store' = [i \in Ids |->
                    IF store[i] # NoDoc /\ store[i].listed = None
                    THEN [store[i] EXCEPT !.listed = now] ELSE store[i]]
    BY <1>4 DEF PruneBackfill
  <2>2. \A d \in Doc : [d EXCEPT !.listed = now] \in Doc
    BY DEF TypeOK, Doc
  <2> QED
    BY <1>1, <1>2, <2>1, <2>2
<1> QED
  BY <1>3, <1>4

LEMMA AnswerStep ==
    ASSUME Core, TypeOK', PcInv', NEW r \in Requests, NEW events, NEW out,
           Answer(r, events, out)
    PROVE  Core'
<1>0. TypeOK
  BY DEF Core
<1>1. /\ pc'[r] \in {"record", "done"}
      /\ \A q \in Requests \ {r} : pc'[q] = pc[q]
      /\ UNCHANGED <<store, now, drawn, job, tgt, snap, draft, committed>>
  BY <1>0 DEF Answer, Settle, TypeOK
<1> QED
  BY <1>1, QuietStep

LEMMA CoreStep ==
    ASSUME Core, NEW r \in Requests, Step(r)
    PROVE  Core'
<1>0. /\ TypeOK /\ PcInv /\ IdInv /\ SnapInv /\ DraftInv /\ CommitInv
      /\ TypeOK' /\ PcInv'
      /\ pc \in [Requests -> {"start", "decide", "write", "missed", "record",
                              "delete", "done", "crashed"}]
      /\ snap \in [Requests -> Doc \cup {NoDoc}]
      /\ tgt[r] \in Ids /\ job[r] \in Jobs
  BY TypeStep DEF Core, TypeOK, PcInv
<1>1. pc[r] \in {"start", "decide", "write", "missed", "delete"} => r \notin committed
  BY <1>0 DEF CommitInv
<1>2. CASE GetById(r)
  BY <1>0, <1>2, ReadStep
<1>3. CASE RecordEvent(r)
  <2>1. /\ pc'[r] \in {"record", "done", "delete"}
        /\ pc'[r] = "delete" => job[r].op = "prune"
        /\ \A q \in Requests \ {r} : pc'[q] = pc[q]
        /\ UNCHANGED <<store, now, drawn, job, tgt, snap, draft, committed>>
    BY <1>0, <1>3 DEF RecordEvent
  <2>2. r \in committed => pc'[r] \in {"record", "done"}
    BY <1>0, <2>1 DEF CommitInv
  <2> QED
    BY <1>0, <2>1, <2>2, QuietStep
<1>4. CASE Reserve(r) \/ Release(r) \/ Enable(r) \/ Disable(r) \/ Reclassify(r)
           \/ Recalculate(r) \/ WriteMembership(r)
  <2>1. pc[r] = "decide" /\ snap[r] # NoDoc /\ snap[r] \in Doc
    BY <1>0, <1>4
    DEF PcInv, Reserve, Release, Enable, Disable, Reclassify, Recalculate,
        WriteMembership
  <2>2. \/ \E d : Draft(r, d) /\ Derived(job[r], snap[r], d)
        \/ \E events, out : Answer(r, events, out)
    BY <1>0, <1>4, <2>1, HandlersDerive
    DEF Reserve, Release, Enable, Disable, Reclassify, Recalculate,
        WriteMembership, HeldByOther
  <2> QED
    BY <1>0, <2>1, <2>2, DraftStep, AnswerStep
<1>5. CASE Replace(r)
  BY <1>0, <1>5, ReplaceStep
<1>6. CASE ReplaceMiss(r)
  BY <1>0, <1>1, <1>6, QuietStep DEF ReplaceMiss, Replaces
<1>7. CASE ReadAfterMiss(r)
  BY <1>0, <1>7, AnswerStep DEF ReadAfterMiss
<1>8. CASE IngestBuild(r)
  BY <1>0, <1>8, BuildStep
<1>9. CASE Insert(r)
  BY <1>0, <1>9, InsertStep
<1>10. CASE TouchSeen(r)
  <2>1. /\ pc'[r] \in {"record", "done"}
        /\ \A q \in Requests \ {r} : pc'[q] = pc[q]
        /\ UNCHANGED <<now, drawn, job, tgt, snap, draft, committed>>
    BY <1>0, <1>10 DEF TouchSeen, Settle
  <2> QED
    BY <1>0, <1>10, <2>1, StampFacts, QuietStep
<1>11. CASE IngestRetry(r)
  <2>1. /\ pc'[r] \in {"start", "record", "done"}
        /\ \A q \in Requests \ {r} : pc'[q] = pc[q]
        /\ pc[r] \in {"write", "missed"}
        /\ UNCHANGED <<store, now, drawn, job, tgt, snap, draft, committed>>
    BY <1>0, <1>11 DEF IngestRetry, Settle, WriteConflict, Inserts, Touches
  <2> QED
    BY <1>0, <1>1, <2>1, QuietStep
<1>12. CASE PruneBackfill(r)
  <2>1. /\ pc[r] = "start" /\ pc'[r] = "decide" /\ job[r].op = "prune"
        /\ \A q \in Requests \ {r} : pc'[q] = pc[q]
        /\ UNCHANGED <<now, drawn, job, tgt, snap, draft, committed>>
    BY <1>0, <1>12 DEF PruneBackfill
  <2> QED
    BY <1>0, <1>1, <1>12, <2>1, StampFacts, QuietStep
<1>13. CASE PruneDecide(r)
  <2>1. /\ pc'[r] \in {"record", "done"}
        /\ \A q \in Requests \ {r} : pc'[q] = pc[q]
    BY <1>0, <1>13 DEF PruneDecide, Settle
  <2>2. \A q \in Requests \ {r} : snap'[q] = snap[q]
    BY <1>0, <1>13 DEF PruneDecide
  <2>3. UNCHANGED <<store, now, drawn, job, tgt, draft, committed>>
    BY <1>13 DEF PruneDecide
  <2> QED
    BY <1>0, <2>1, <2>2, <2>3, QuietStep
<1>14. CASE PruneDelete(r)
  <2>1. /\ pc'[r] \in {"record", "done"}
        /\ \A q \in Requests \ {r} : pc'[q] = pc[q]
        /\ UNCHANGED <<now, drawn, job, tgt, snap, draft, committed>>
    BY <1>0, <1>14 DEF PruneDelete, Settle
  <2>2. \A i \in Ids : store'[i] = store[i] \/ store'[i] = NoDoc
    BY <1>0, <1>14 DEF PruneDelete, TypeOK
  <2> QED
    BY <1>0, <2>1, <2>2, QuietStep
<1> QED
  BY <1>2, <1>3, <1>4, <1>5, <1>6, <1>7, <1>8, <1>9, <1>10, <1>11, <1>12,
     <1>13, <1>14 DEF Step

\* The clock only ends locks: what was free or its own when r decided still is.
LEMMA CoreTick == ASSUME Core, Tick PROVE Core'
<1>0. TypeOK /\ PcInv /\ IdInv /\ SnapInv /\ DraftInv /\ CommitInv
  BY DEF Core
<1>1. TypeOK' /\ PcInv' /\ now \in Nat /\ now' = now + 1
      /\ UNCHANGED <<store, drawn, pc, job, tgt, snap, draft, committed>>
  BY <1>0, TypeNext DEF Tick, Next, TypeOK
<1>2. IdInv' /\ SnapInv' /\ CommitInv'
  BY <1>0, <1>1 DEF IdInv, SnapInv, CommitInv, Reading, Inserting, Content
<1>3. \A d \in Doc : IsLive(d.resv, now') => IsLive(d.resv, now)
  BY <1>1, StoreAssumption DEF IsLive, Doc, Reservation
<1>4. DraftInv'
  <2> SUFFICES ASSUME NEW r \in Requests, pc[r] = "write", snap[r] # NoDoc
               PROVE  Derived(job[r], snap[r], draft[r])'
    BY <1>1 DEF DraftInv
  <2>1. Derived(job[r], snap[r], draft[r]) /\ snap[r] \in Doc
    BY <1>0 DEF DraftInv, TypeOK
  <2> QED
    BY <1>1, <1>3, <2>1 DEF Derived
<1> QED
  BY <1>1, <1>2, <1>4 DEF Core

LEMMA CoreNext == Core /\ [Next]_vars => Core'
<1> SUFFICES ASSUME Core, [Next]_vars PROVE Core'
  OBVIOUS
<1>0. TypeOK /\ PcInv /\ TypeOK' /\ PcInv'
  BY TypeNext DEF Core
<1>1. CASE Tick
  BY <1>1, CoreTick
<1>2. ASSUME NEW r \in Requests, Step(r) PROVE Core'
  BY <1>2, CoreStep
<1>3. ASSUME NEW r \in Requests, Crash(r) PROVE Core'
  <2>1. /\ pc'[r] = "crashed" /\ \A q \in Requests \ {r} : pc'[q] = pc[q]
        /\ UNCHANGED <<store, now, drawn, job, tgt, snap, draft, committed>>
    BY <1>0, <1>3 DEF Crash, TypeOK
  <2> QED
    BY <1>0, <1>3, <2>1, QuietStep
<1>4. CASE UNCHANGED vars
  BY <1>4
  DEF vars, Core, TypeOK, PcInv, IdInv, SnapInv, DraftInv, CommitInv, Inserting,
      Reading, Derived, Content
<1> QED
  BY <1>1, <1>2, <1>3, <1>4 DEF Next

(***************************************************************************)
(* Every step replaces what was read, inserts, or changes no content.      *)
(***************************************************************************)
LEMMA StoreCases ==
    ASSUME [Next]_vars
    PROVE  \/ UNCHANGED <<store, committed>>
           \/ \E r \in Requests : \/ Replace(r) \/ Insert(r) \/ TouchSeen(r)
                                  \/ PruneBackfill(r) \/ PruneDelete(r)
<1>1. ASSUME NEW r \in Requests, Step(r)
      PROVE  \/ UNCHANGED <<store, committed>> \/ Replace(r) \/ Insert(r)
             \/ TouchSeen(r) \/ PruneBackfill(r) \/ PruneDelete(r)
  BY <1>1
  DEF Step, GetById, RecordEvent, Reserve, Release, Enable, Disable, Reclassify,
      Recalculate, WriteMembership, Draft, Answer, ReplaceMiss, ReadAfterMiss,
      IngestBuild, IngestRetry, PruneDecide
<1>2. \/ UNCHANGED <<store, committed>>
      \/ \E r \in Requests : Step(r)
  BY DEF Next, Tick, Crash, vars
<1> QED
  BY <1>1, <1>2

LEMMA WriteCases ==
    ASSUME Core, [Next]_vars
    PROVE  \/ /\ UNCHANGED committed
              /\ \A i \in Ids : store'[i] # NoDoc =>
                    /\ store[i] # NoDoc /\ store'[i].rev = store[i].rev
                    /\ Content(store'[i]) = Content(store[i])
           \/ \E r \in Requests : Replace(r)
           \/ \E r \in Requests : Insert(r)
<1>0. TypeOK /\ PcInv
  BY DEF Core
<1>1. CASE UNCHANGED <<store, committed>>
  BY <1>1
<1>2. ASSUME NEW r \in Requests, TouchSeen(r) \/ PruneBackfill(r)
      PROVE  /\ UNCHANGED committed
             /\ \A i \in Ids : store'[i] # NoDoc =>
                   /\ store[i] # NoDoc /\ store'[i].rev = store[i].rev
                   /\ Content(store'[i]) = Content(store[i])
  <2>1. UNCHANGED committed
    BY <1>2 DEF TouchSeen, PruneBackfill
  <2> QED
    BY <1>0, <1>2, <2>1, StampFacts
<1>3. ASSUME NEW r \in Requests, PruneDelete(r)
      PROVE  /\ UNCHANGED committed
             /\ \A i \in Ids : store'[i] # NoDoc => store'[i] = store[i]
  BY <1>0, <1>3 DEF PruneDelete, TypeOK
<1> QED
  BY <1>1, <1>2, <1>3, StoreCases

\* Equal contents are equal part by part.
LEMMA ContentParts ==
    ASSUME NEW d, NEW e, Content(d) = Content(e)
    PROVE  /\ d.machine = e.machine /\ d.name = e.name /\ d.facts = e.facts
           /\ d.cls = e.cls /\ d.hlth = e.hlth /\ d.maint = e.maint
           /\ d.resv = e.resv /\ d.osh = e.osh
BY DEF Content

LEMMA OwnPartsStep == Core /\ [Next]_vars => [ChangesOwnParts]_vars
<1> SUFFICES ASSUME Core, [Next]_vars PROVE ChangesOwnParts
  OBVIOUS
<1>0. TypeOK
  BY DEF Core
<1>1. CASE \A i \in Ids : store'[i] # NoDoc =>
              /\ store[i] # NoDoc /\ Content(store'[i]) = Content(store[i])
  BY <1>1, ContentParts DEF ChangesOwnParts
<1>2. ASSUME NEW r \in Requests, Replace(r) PROVE ChangesOwnParts
  <2>1. /\ tgt[r] \in Ids /\ Content(store[tgt[r]]) = Content(snap[r])
        /\ Derived(job[r], snap[r], draft[r])
        /\ store' = [store EXCEPT ![tgt[r]] = draft[r]]
        /\ r \in committed' \ committed
    BY <1>2, ReplaceFacts
  <2>2. \A i \in Ids \ {tgt[r]} : store'[i] = store[i]
    BY <1>0, <2>1 DEF TypeOK
  <2>3. store'[tgt[r]] = draft[r]
    BY <1>0, <2>1 DEF TypeOK
  <2>4. \A ops : job[r].op \in ops => WroteBy(tgt[r], ops)
    BY <2>1 DEF WroteBy
  <2>5. /\ draft[r].machine = store[tgt[r]].machine
        /\ job[r].op \notin {"reserve", "release"} => draft[r].resv = store[tgt[r]].resv
        /\ job[r].op \notin {"enable", "disable"} => draft[r].maint = store[tgt[r]].maint
        /\ job[r].op \notin {"member"} => draft[r].osh = store[tgt[r]].osh
        /\ job[r].op \notin {"reclassify", "ingest"} => draft[r].cls = store[tgt[r]].cls
        /\ job[r].op \notin {"recalculate", "ingest"} => draft[r].hlth = store[tgt[r]].hlth
        /\ job[r].op \notin {"ingest"} => /\ draft[r].name = store[tgt[r]].name
                                          /\ draft[r].facts = store[tgt[r]].facts
    BY <2>1, ContentParts DEF Derived
  <2> QED
    BY <2>2, <2>3, <2>4, <2>5 DEF ChangesOwnParts
<1>3. ASSUME NEW r \in Requests, Insert(r) PROVE ChangesOwnParts
  <2>1. /\ tgt[r] \in Ids /\ store[tgt[r]] = NoDoc
        /\ store' = [store EXCEPT ![tgt[r]] = draft[r]]
    BY <1>3, InsertFacts
  <2>2. \A i \in Ids : store[i] # NoDoc => store'[i] = store[i]
    BY <1>0, <2>1 DEF TypeOK
  <2> QED
    BY <2>2 DEF ChangesOwnParts
<1> QED
  BY <1>1, <1>2, <1>3, WriteCases

LEMMA RevisionStep == Core /\ [Next]_vars => [RevisionMoves]_vars
<1> SUFFICES ASSUME Core, [Next]_vars PROVE RevisionMoves
  OBVIOUS
<1>0. TypeOK
  BY DEF Core
<1>1. CASE \A i \in Ids : store'[i] # NoDoc =>
              /\ store[i] # NoDoc /\ store'[i].rev = store[i].rev
              /\ Content(store'[i]) = Content(store[i])
  BY <1>1 DEF RevisionMoves
<1>2. ASSUME NEW r \in Requests, Replace(r) PROVE RevisionMoves
  <2>1. /\ tgt[r] \in Ids /\ draft[r].rev = store[tgt[r]].rev + 1
        /\ store' = [store EXCEPT ![tgt[r]] = draft[r]]
    BY <1>2, ReplaceFacts DEF Derived
  <2>2. \A i \in Ids : store'[i] = store[i] \/ store'[i].rev = store[i].rev + 1
    BY <1>0, <2>1 DEF TypeOK
  <2> QED
    BY <2>2 DEF RevisionMoves
<1>3. ASSUME NEW r \in Requests, Insert(r) PROVE RevisionMoves
  <2>1. /\ tgt[r] \in Ids /\ store[tgt[r]] = NoDoc
        /\ store' = [store EXCEPT ![tgt[r]] = draft[r]]
    BY <1>3, InsertFacts
  <2>2. \A i \in Ids : store[i] # NoDoc => store'[i] = store[i]
    BY <1>0, <2>1 DEF TypeOK
  <2> QED
    BY <2>2 DEF RevisionMoves
<1> QED
  BY <1>1, <1>2, <1>3, WriteCases

LEMMA TruthStep == Core /\ [Next]_vars => [ReplacesWhatWasRead]_vars
<1> SUFFICES ASSUME Core, [Next]_vars PROVE ReplacesWhatWasRead
  OBVIOUS
<1>1. CASE UNCHANGED committed
  BY <1>1 DEF ReplacesWhatWasRead
<1>2. ASSUME NEW r \in Requests, Replace(r) PROVE ReplacesWhatWasRead
  BY <1>2, ReplaceFacts DEF ReplacesWhatWasRead
<1>3. ASSUME NEW r \in Requests, Insert(r) PROVE ReplacesWhatWasRead
  BY <1>3, InsertFacts DEF ReplacesWhatWasRead
<1> QED
  BY <1>1, <1>2, <1>3, WriteCases

(***************************************************************************)
(* No writer ever changes a part of a document another writer owns, however*)
(* many requests interleave with its read and its write.                   *)
(***************************************************************************)
THEOREM NoUpdateIsLost == Spec => NoLostUpdate
BY InitCore, CoreNext, OwnPartsStep, PTL DEF Spec, NoLostUpdate

(***************************************************************************)
(* One revision of one id stands for one content.                          *)
(***************************************************************************)
THEOREM RevisionIsContent == Spec => RevisionVersionsContent
BY InitCore, CoreNext, RevisionStep, PTL DEF Spec, RevisionVersionsContent

(***************************************************************************)
(* The transition an event describes starts from what its write replaced.  *)
(***************************************************************************)
THEOREM EventsAreTrue == Spec => EventsTellTheTruth
BY InitCore, CoreNext, TruthStep, PTL DEF Spec, EventsTellTheTruth
=============================================================================
