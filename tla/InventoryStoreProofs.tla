------------------------ MODULE InventoryStoreProofs ------------------------
(***************************************************************************)
(* Proofs about InventoryStore, for every choice of its constants.         *)
(***************************************************************************)
EXTENDS InventoryStore, SequenceTheorems, TLAPS

(***************************************************************************)
(* Types of the pure parts.                                                *)
(***************************************************************************)
\* The documents the handlers build are documents.
LEMMA DraftTypes ==
    ASSUME NEW d \in Doc, NEW j \in Jobs, NEW t \in Nat
    PROVE  /\ j.op = "reserve" => Reserved(d, j, t) \in Doc
           /\ Released(d) \in Doc
           /\ j.op = "enable" => Enabled(d, j) \in Doc
           /\ Disabled(d) \in Doc
           /\ Reclassified(d, j) \in Doc
           /\ Recalculated(d, j) \in Doc
           /\ Joined(d, j) \in Doc
           /\ BuildServer(d, j, t) \in Doc
<1>1. j \in JobSpace
  BY StoreAssumption
<1>2. j.ttl \in Nat
  BY <1>1, StoreAssumption DEF JobSpace
<1>3. NoReservation \in Reservation /\ NoMaintenance \in Maintenance
  BY DEF NoReservation, Reservation, NoMaintenance, Maintenance
<1>4. Bump(d) \in Doc
  <2>1. d.rev + 1 \in Nat
    BY DEF Doc
  <2>2. [d EXCEPT !.rev = d.rev + 1] \in Doc
    BY <2>1 DEF Doc
  <2>3. \A c \in Doc : [c EXCEPT !.legacy = FALSE] \in Doc
    BY DEF Doc
  <2>4. Bump(d) = [[d EXCEPT !.rev = d.rev + 1] EXCEPT !.legacy = FALSE]
    BY DEF Bump, Doc
  <2> QED
    BY <2>2, <2>3, <2>4
<1>5. Reserved(d, j, t) \in Doc
  BY <1>1, <1>2, <1>4 DEF Reserved, Doc, Reservation, JobSpace
<1>6. Enabled(d, j) \in Doc
  BY <1>1, <1>4 DEF Enabled, Doc, Maintenance, JobSpace
<1>7. /\ Released(d) \in Doc /\ Disabled(d) \in Doc
      /\ Reclassified(d, j) \in Doc /\ Recalculated(d, j) \in Doc
      /\ Joined(d, j) \in Doc /\ BuildServer(d, j, t) \in Doc
  BY <1>1, <1>3, <1>4
  DEF Released, Disabled, Reclassified, Recalculated, Joined, BuildServer,
      Doc, JobSpace
<1> QED
  BY <1>5, <1>6, <1>7

LEMMA NewServerType ==
    ASSUME NEW j \in Jobs, NEW t \in Nat
    PROVE  NewServer(j, t) \in Doc
<1>1. j \in JobSpace
  BY StoreAssumption
<1>2. NoReservation \in Reservation /\ NoMaintenance \in Maintenance
  BY DEF NoReservation, Reservation, NoMaintenance, Maintenance
<1> QED
  BY <1>1, <1>2 DEF NewServer, Doc, JobSpace

\* What a committed write owes is a sequence of event types.
LEMMA EventsTypes ==
    ASSUME NEW op \in ByIdOps \cup {"ingest"}, NEW d, NEW e
    PROVE  EventsOf(op, d, e) \in Seq(EventTypes)
<1> DEFINE Owed == {"SERVER_RENAMED", "CLASSIFICATION_CHANGED", "HEALTH_CHANGED",
                   "MAINTENANCE_DISABLED", "OPENSHIFT_STATE_CHANGED"}
<1>1. ASSUME NEW c, NEW v \in Owed
      PROVE  If(c, v) \in Seq(EventTypes)
  <2>1. v \in EventTypes
    BY DEF EventTypes
  <2>2. <<v>> \in Seq(EventTypes) /\ <<>> \in Seq(EventTypes)
    BY <2>1
  <2> QED
    BY <2>2 DEF If
<1>2. TransitionEvents(d, e) \in Seq(EventTypes)
  <2>1. /\ If(d.name # e.name, "SERVER_RENAMED") \in Seq(EventTypes)
        /\ If(d.cls # e.cls, "CLASSIFICATION_CHANGED") \in Seq(EventTypes)
        /\ If(d.hlth # e.hlth, "HEALTH_CHANGED") \in Seq(EventTypes)
    BY <1>1
  <2> QED
    BY <2>1, ConcatProperties DEF TransitionEvents
<1>3. /\ If(d.maint.by # None, "MAINTENANCE_DISABLED") \in Seq(EventTypes)
      /\ If(d.cls # e.cls, "CLASSIFICATION_CHANGED") \in Seq(EventTypes)
      /\ If(d.hlth # e.hlth, "HEALTH_CHANGED") \in Seq(EventTypes)
      /\ If((d.osh = None) # (e.osh = None), "OPENSHIFT_STATE_CHANGED")
            \in Seq(EventTypes)
  BY <1>1
<1>4. \A v \in EventTypes : <<v>> \in Seq(EventTypes)
  OBVIOUS
<1>5. {"SERVER_RESERVED", "SERVER_RELEASED", "MAINTENANCE_UPDATED",
       "MAINTENANCE_ENABLED"} \subseteq EventTypes
  BY DEF EventTypes
<1> HIDE DEF Owed
<1> QED
  BY <1>2, <1>3, <1>4, <1>5 DEF EventsOf, ByIdOps

(***************************************************************************)
(* The inductive invariant of type correctness.                            *)
(***************************************************************************)
\* r is about to insert a document under an id it has just drawn.
Inserting(r) == pc[r] = "write" /\ snap[r] = NoDoc

\* Where each kind of request may be.
PcInv ==
    /\ job \in [Requests -> Jobs]
    /\ \A r \in Requests :
          /\ pc[r] = "decide" /\ job[r].op # "prune"
                => snap[r] # NoDoc /\ job[r].op \in ByIdOps
          /\ pc[r] = "write"
                => draft[r] # NoDoc /\ job[r].op \in ByIdOps \cup {"ingest"}
          /\ Inserting(r) => job[r].op = "ingest"
          /\ pc[r] = "record" => owed[r] # <<>>

(***************************************************************************)
(* Type correctness.                                                       *)
(***************************************************************************)
LEMMA TypeInit == Init => TypeOK /\ PcInv
<1> SUFFICES ASSUME Init PROVE TypeOK /\ PcInv
  OBVIOUS
<1>1. store \in [Ids -> Doc \cup {NoDoc}] /\ 1 \in 1..MaxAttempts
  BY StoreAssumption DEF Init
<1>2. job \in [Requests -> Jobs] /\ job \in [Requests -> JobSpace]
  BY StoreAssumption DEF Init
<1>3. tgt \in [Requests -> Ids]
  BY <1>2 DEF Init, JobSpace
<1>4. owed \in [Requests -> Seq(EventTypes)]
  <2>1. <<>> \in Seq(EventTypes)
    OBVIOUS
  <2> QED
    BY <2>1 DEF Init
<1>5. TypeOK
  BY <1>1, <1>2, <1>3, <1>4 DEF Init, TypeOK
<1>6. PcInv
  BY <1>2 DEF Init, PcInv, Inserting
<1> QED
  BY <1>5, <1>6

\* The handler's answer is well typed.
LEMMA SettleTypes ==
    ASSUME TypeOK, NEW r \in Requests, NEW events \in Seq(EventTypes),
           NEW out \in {"none", "ok", "conflict", "notfound", "failed"},
           Settle(r, events, out)
    PROVE  /\ owed' \in [Requests -> Seq(EventTypes)]
           /\ outcome' \in [Requests -> {"none", "ok", "conflict", "notfound",
                                         "failed"}]
           /\ pc' \in [Requests -> {"start", "decide", "write", "missed",
                                    "record", "delete", "done", "crashed"}]
           /\ pc'[r] \in {"record", "done"}
           /\ pc'[r] = "record" => owed'[r] # <<>>
           /\ \A q \in Requests \ {r} :
                 pc'[q] = pc[q] /\ owed'[q] = owed[q] /\ outcome'[q] = outcome[q]
BY DEF Settle, TypeOK

LEMMA OwedTypes ==
    /\ <<>> \in Seq(EventTypes)
    /\ <<"SERVER_RESERVATION_REFUSED">> \in Seq(EventTypes)
    /\ <<"SERVER_PRUNED">> \in Seq(EventTypes)
    /\ <<"SERVER_CREATED">> \in Seq(EventTypes)
    /\ \A c : If(c, "SERVER_RESERVATION_REFUSED") \in Seq(EventTypes)
<1>1. {"SERVER_RESERVATION_REFUSED", "SERVER_PRUNED", "SERVER_CREATED"}
         \subseteq EventTypes
  BY DEF EventTypes
<1>2. /\ <<>> \in Seq(EventTypes)
      /\ \A v \in EventTypes : <<v>> \in Seq(EventTypes)
  OBVIOUS
<1> QED
  BY <1>1, <1>2 DEF If

\* Every step of every request keeps the types and the places of requests.
LEMMA TypeStep ==
    ASSUME TypeOK, PcInv, NEW r \in Requests, Step(r)
    PROVE  TypeOK' /\ PcInv'
<1> USE DEF Inserting
<1>0. /\ job[r] \in Jobs /\ job[r] \in JobSpace /\ tgt[r] \in Ids
      /\ store[tgt[r]] \in Doc \cup {NoDoc} /\ NoDoc \notin Doc
      /\ job \in [Requests -> Jobs] /\ now \in Nat
      /\ snap[r] \in Doc \cup {NoDoc} /\ draft[r] \in Doc \cup {NoDoc}
  BY StoreAssumption DEF TypeOK, PcInv
<1>1. CASE GetById(r)
  <2>1. CASE store[tgt[r]] = NoDoc
    <3>1. Settle(r, <<>>, "notfound")
      BY <1>1, <2>1 DEF GetById
    <3> QED
      BY <1>0, <1>1, <3>1, SettleTypes, OwedTypes DEF GetById, TypeOK, PcInv
  <2>2. CASE store[tgt[r]] # NoDoc
    BY <1>0, <1>1, <2>2 DEF GetById, TypeOK, PcInv, ByIdOps
  <2> QED
    BY <2>1, <2>2
<1>2. CASE RecordEvent(r)
  <2>1. owed[r] \in Seq(EventTypes) /\ owed[r] # <<>>
    BY <1>2 DEF RecordEvent, TypeOK, PcInv
  <2>2. Head(owed[r]) \in EventTypes /\ Tail(owed[r]) \in Seq(EventTypes)
    BY <2>1
  <2> QED
    BY <1>0, <1>2, <2>2 DEF RecordEvent, TypeOK, PcInv
<1>3. CASE Reserve(r) \/ Release(r) \/ Enable(r) \/ Disable(r) \/ Reclassify(r)
           \/ Recalculate(r) \/ WriteMembership(r)
  <2>1. snap[r] \in Doc /\ job[r].op \in ByIdOps /\ pc[r] = "decide"
    BY <1>0, <1>3 DEF PcInv, Reserve, Release, Enable, Disable, Reclassify,
       Recalculate, WriteMembership
  <2>2. CASE \E d \in Doc : Draft(r, d)
    <3>1. PICK d \in Doc : Draft(r, d)
      BY <2>2
    <3> QED
      BY <1>0, <2>1, <3>1 DEF Draft, TypeOK, PcInv
  <2>3. CASE \E events \in Seq(EventTypes), out \in {"ok", "conflict"} :
                Answer(r, events, out)
    <3>1. PICK events \in Seq(EventTypes), out \in {"ok", "conflict"} :
                  Answer(r, events, out)
      BY <2>3
    <3>2. Settle(r, events, out)
      BY <3>1 DEF Answer
    <3>3. TypeOK'
      BY <1>0, <3>1, <3>2, SettleTypes DEF Answer, TypeOK
    <3>4. PcInv'
      BY <1>0, <2>1, <3>1, <3>2, SettleTypes DEF Answer, PcInv
    <3> QED
      BY <3>3, <3>4
  <2>4. \/ \E d \in Doc : Draft(r, d)
        \/ \E events \in Seq(EventTypes), out \in {"ok", "conflict"} :
              Answer(r, events, out)
    BY <1>0, <1>3, <2>1, DraftTypes, OwedTypes
    DEF Reserve, Release, Enable, Disable, Reclassify, Recalculate,
        WriteMembership
  <2> QED
    BY <2>2, <2>3, <2>4
<1>4. CASE Replace(r)
  <2>1. /\ draft[r] \in Doc
        /\ EventsOf(job[r].op, snap[r], draft[r]) \in Seq(EventTypes)
    BY <1>0, <1>4, EventsTypes DEF Replace, Replaces, PcInv
  <2>2. Settle(r, EventsOf(job[r].op, snap[r], draft[r]), "ok")
    BY <1>4 DEF Replace
  <2> QED
    BY <1>0, <1>4, <2>1, <2>2, SettleTypes DEF Replace, TypeOK, PcInv
<1>5. CASE ReplaceMiss(r)
  BY <1>0, <1>5 DEF ReplaceMiss, TypeOK, PcInv
<1>6. CASE ReadAfterMiss(r)
  <2>1. PICK events \in Seq(EventTypes), out \in {"notfound", "conflict"} :
                Answer(r, events, out)
    BY <1>6, OwedTypes DEF ReadAfterMiss
  <2>2. Settle(r, events, out)
    BY <2>1 DEF Answer
  <2>3. TypeOK'
    BY <1>0, <2>1, <2>2, SettleTypes DEF Answer, TypeOK
  <2>4. PcInv'
    BY <1>0, <2>1, <2>2, SettleTypes DEF Answer, PcInv
  <2> QED
    BY <2>3, <2>4
<1>7. CASE IngestBuild(r)
  <2>1. NewServer(job[r], now) \in Doc
        /\ \A d \in Doc : BuildServer(d, job[r], now) \in Doc
    BY <1>0, DraftTypes, NewServerType
  <2>2. PICK i \in Ids, d \in Doc \cup {NoDoc}, e \in Doc :
            /\ tgt' = [tgt EXCEPT ![r] = i]
            /\ snap' = [snap EXCEPT ![r] = d]
            /\ draft' = [draft EXCEPT ![r] = e]
            /\ drawn' = drawn \/ drawn' = drawn \cup {i}
    <3>1. CASE \E i \in Correlated(r) :
                  /\ tgt' = [tgt EXCEPT ![r] = i]
                  /\ snap' = [snap EXCEPT ![r] = store[i]]
                  /\ draft' = [draft EXCEPT ![r] = BuildServer(store[i], job[r], now)]
                  /\ UNCHANGED drawn
      <4>1. \A i \in Correlated(r) : i \in Ids /\ store[i] \in Doc
        BY DEF Correlated, TypeOK
      <4> QED
        BY <2>1, <3>1, <4>1
    <3>2. CASE /\ \E i \in Ids \ drawn :
                     /\ tgt' = [tgt EXCEPT ![r] = i]
                     /\ drawn' = drawn \cup {i}
               /\ snap' = [snap EXCEPT ![r] = NoDoc]
               /\ draft' = [draft EXCEPT ![r] = NewServer(job[r], now)]
      BY <2>1, <3>2
    <3> QED
      BY <1>7, <3>1, <3>2 DEF IngestBuild
  <2>3. /\ UNCHANGED <<store, now, job, asof, tries, owed, outcome, audit, committed>>
        /\ pc' = [pc EXCEPT ![r] = "write"]
        /\ job[r].op = "ingest"
    BY <1>7 DEF IngestBuild
  <2>4. TypeOK'
    BY <1>0, <2>2, <2>3 DEF TypeOK
  <2>5. e # NoDoc
    BY <1>0
  <2> QED
    BY <1>0, <2>2, <2>3, <2>4, <2>5 DEF TypeOK, PcInv
<1>8. CASE Insert(r)
  <2>1. draft[r] \in Doc
    BY <1>0, <1>8 DEF Insert, Inserts, PcInv
  <2>2. Settle(r, <<"SERVER_CREATED">>, "ok")
    BY <1>8 DEF Insert
  <2> QED
    BY <1>0, <1>8, <2>1, <2>2, SettleTypes, OwedTypes DEF Insert, TypeOK, PcInv
<1>9. CASE TouchSeen(r)
  <2>1. store[tgt[r]] \in Doc /\ draft[r] \in Doc
    BY <1>0, <1>9 DEF TouchSeen, Touches, Matches, PcInv
  <2>2. [store[tgt[r]] EXCEPT !.listed = draft[r].listed] \in Doc
    BY <2>1 DEF Doc
  <2>3. Settle(r, <<>>, "ok")
    BY <1>9 DEF TouchSeen
  <2>4. store' \in [Ids -> Doc \cup {NoDoc}]
    BY <1>0, <1>9, <2>2 DEF TouchSeen, TypeOK
  <2> QED
    BY <1>0, <1>9, <2>3, <2>4, SettleTypes, OwedTypes DEF TouchSeen, TypeOK, PcInv
<1>10. CASE IngestRetry(r)
  <2>1. CASE tries[r] < MaxAttempts /\ UNCHANGED <<owed, outcome>>
             /\ tries' = [tries EXCEPT ![r] = @ + 1]
             /\ pc' = [pc EXCEPT ![r] = "start"]
    <3>1. tries[r] + 1 \in 1..MaxAttempts
      BY <2>1, StoreAssumption DEF TypeOK
    <3> QED
      BY <1>0, <1>10, <2>1, <3>1 DEF IngestRetry, TypeOK, PcInv
  <2>2. CASE Settle(r, <<>>, "failed") /\ UNCHANGED tries
    BY <1>0, <1>10, <2>2, SettleTypes, OwedTypes DEF IngestRetry, TypeOK, PcInv
  <2> QED
    BY <1>10, <2>1, <2>2 DEF IngestRetry
<1>11. CASE PruneBackfill(r)
  <2>1. store' \in [Ids -> Doc \cup {NoDoc}]
    <3>1. \A d \in Doc : [d EXCEPT !.listed = now] \in Doc
      BY <1>0 DEF Doc
    <3> QED
      BY <1>0, <1>11, <3>1 DEF PruneBackfill, TypeOK
  <2> QED
    BY <1>0, <1>11, <2>1 DEF PruneBackfill, TypeOK, PcInv
<1>12. CASE PruneDecide(r)
  <2>1. /\ snap' \in [Requests -> Doc \cup {NoDoc}]
        /\ \A q \in Requests \ {r} : snap'[q] = snap[q]
    BY <1>0, <1>12 DEF PruneDecide, TypeOK
  <2>2. PICK events \in Seq(EventTypes), out \in {"none", "ok"} :
                Settle(r, events, out)
    BY <1>12, OwedTypes DEF PruneDecide
  <2>3. /\ owed' \in [Requests -> Seq(EventTypes)]
        /\ outcome' \in [Requests -> {"none", "ok", "conflict", "notfound",
                                      "failed"}]
        /\ pc' \in [Requests -> {"start", "decide", "write", "missed",
                                 "record", "delete", "done", "crashed"}]
        /\ pc'[r] \in {"record", "done"}
        /\ pc'[r] = "record" => owed'[r] # <<>>
        /\ \A q \in Requests \ {r} : pc'[q] = pc[q] /\ owed'[q] = owed[q]
    BY <2>2, SettleTypes
  <2>4. /\ pc[r] = "decide"
        /\ UNCHANGED <<store, now, drawn, job, asof, tgt, draft, tries, audit,
                       committed>>
    BY <1>12 DEF PruneDecide
  <2>5. TypeOK'
    BY <2>1, <2>3, <2>4 DEF TypeOK
  <2>6. PcInv'
    BY <2>1, <2>3, <2>4 DEF PcInv
  <2> QED
    BY <2>5, <2>6
<1>13. CASE PruneDelete(r)
  <2>1. Settle(r, <<>>, "ok")
    BY <1>13 DEF PruneDelete
  <2> QED
    BY <1>0, <1>13, <2>1, SettleTypes, OwedTypes DEF PruneDelete, TypeOK, PcInv
<1> QED
  BY <1>1, <1>2, <1>3, <1>4, <1>5, <1>6, <1>7, <1>8, <1>9, <1>10, <1>11,
     <1>12, <1>13 DEF Step

LEMMA TypeNext == TypeOK /\ PcInv /\ [Next]_vars => TypeOK' /\ PcInv'
<1> SUFFICES ASSUME TypeOK, PcInv, [Next]_vars PROVE TypeOK' /\ PcInv'
  OBVIOUS
<1>1. CASE Tick
  BY <1>1 DEF Tick, TypeOK, PcInv, Inserting
<1>2. ASSUME NEW r \in Requests, Step(r) PROVE TypeOK' /\ PcInv'
  BY <1>2, TypeStep
<1>3. ASSUME NEW r \in Requests, Crash(r) PROVE TypeOK' /\ PcInv'
  BY <1>3 DEF Crash, TypeOK, PcInv, Inserting
<1>4. CASE UNCHANGED vars
  BY <1>4 DEF vars, TypeOK, PcInv, Inserting
<1> QED
  BY <1>1, <1>2, <1>3, <1>4 DEF Next

(***************************************************************************)
(* Every reachable state is well typed: no handler, retry or race stores   *)
(* or holds a malformed document, and attempts stay within the bound.      *)
(***************************************************************************)
THEOREM TypeCorrect == Spec => []TypeOK
<1>1. Spec => [](TypeOK /\ PcInv)
  BY TypeInit, TypeNext, PTL DEF Spec
<1> QED
  BY <1>1, PTL
=============================================================================
