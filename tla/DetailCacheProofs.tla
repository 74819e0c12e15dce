-------------------------- MODULE DetailCacheProofs --------------------------
(***************************************************************************)
(* Proofs about DetailCache, for any number of readers, writers, revisions *)
(* and stamps.                                                             *)
(***************************************************************************)
EXTENDS DetailCache, TLAPS

(***************************************************************************)
(* The inductive invariant.                                                *)
(***************************************************************************)
\* What a reader holds was read from the collection.
HeldWasStored ==
    /\ FirstDoc \in stored
    /\ doc # NoDoc => doc \in stored
    /\ \A r \in Readers : got[r] \in stored

\* Nothing that can still reach the pointer is older than what has settled:
\* not the pointer, not a fill under way, not the next document loaded.
PointerInv ==
    /\ pointer # NoEntry => pointer >= settled
    /\ \A r \in Readers : Filling(r) => got[r].rev >= settled
    /\ doc # NoDoc => doc.rev >= settled
    /\ doc # NoDoc => \A w \in Writers : wrote[w] <= doc.rev

IInv == TypeOK /\ HeldWasStored /\ CachedWasStored /\ PointerInv

LEMMA FirstDocType == FirstDoc \in Docs /\ FirstDoc.rev = 1
BY DetailAssumption DEF FirstDoc, Docs, Revs

\* What a reader may be served carries the revision the pointer names.
LEMMA HitRevision == IInv => QuietInvalidation
<1> SUFFICES ASSUME IInv, Hit # NoEntry PROVE Hit.rev >= settled
  BY DEF QuietInvalidation, ServesAtLeast
<1>1. pointer # NoEntry /\ pointer \in Revs /\ payload[pointer] # NoEntry
      /\ Hit = payload[pointer]
  BY DEF IInv, TypeOK, Hit
<1>2. Hit.rev = pointer
  BY <1>1 DEF IInv, CachedWasStored
<1> QED
  BY <1>1, <1>2 DEF IInv, PointerInv

LEMMA InitIInv == Init => IInv
<1> SUFFICES ASSUME Init PROVE IInv
  OBVIOUS
<1> USE FirstDocType, DetailAssumption
<1>1. TypeOK
  BY DEF Init, TypeOK, Revs
<1>2. HeldWasStored /\ CachedWasStored /\ PointerInv
  BY DEF Init, HeldWasStored, CachedWasStored, PointerInv, Filling
<1> QED
  BY <1>1, <1>2 DEF IInv

(***************************************************************************)
(* Readers.                                                                *)
(***************************************************************************)
LEMMA ReaderStep ==
    ASSUME IInv, NEW r \in Readers,
           StartRead(r) \/ ReadStep(r) \/ AbortRead(r)
    PROVE  IInv'
<1> USE FirstDocType, DetailAssumption DEF Goto, cacheVars, writerVars, readerVars
<1>0. /\ TypeOK /\ HeldWasStored /\ CachedWasStored /\ PointerInv
      /\ got[r] \in Docs /\ got[r].rev \in Revs
  BY DEF IInv, TypeOK, Docs
\* A reader whose locals are dropped fills nothing.
<1>1. ASSUME EndRead(r) PROVE
        /\ rpc' \in [Readers -> {"idle", "pointer", "payload", "load",
                                 "setPointer", "setPayload"}]
        /\ seen' \in [Readers -> Revs] /\ got' \in [Readers -> Docs]
        /\ \A q \in Readers : got'[q] \in stored
        /\ \A q \in Readers : Filling(q)' => Filling(q) /\ got'[q] = got[q]
  BY <1>0, <1>1 DEF EndRead, TypeOK, HeldWasStored, Filling, Revs
<1>2. CASE StartRead(r) \/ GetPointer(r)
  BY <1>0, <1>2
  DEF StartRead, GetPointer, IInv, TypeOK, HeldWasStored, CachedWasStored,
      PointerInv, Filling
<1>3. CASE GetPayload(r)
  <2>1. CASE EndRead(r)
    BY <1>0, <1>1, <1>3, <2>1
    DEF GetPayload, IInv, TypeOK, HeldWasStored, CachedWasStored, PointerInv
  <2>2. CASE rpc' = [rpc EXCEPT ![r] = "load"] /\ UNCHANGED <<seen, got>>
    BY <1>0, <1>3, <2>2
    DEF GetPayload, IInv, TypeOK, HeldWasStored, CachedWasStored, PointerInv,
        Filling
  <2> QED
    BY <1>3, <2>1, <2>2 DEF GetPayload
<1>4. CASE Load(r)
  <2>1. CASE EndRead(r)
    BY <1>0, <1>1, <1>4, <2>1
    DEF Load, IInv, TypeOK, HeldWasStored, CachedWasStored, PointerInv
  <2>2. CASE /\ doc # NoDoc /\ got' = [got EXCEPT ![r] = doc]
             /\ rpc' = [rpc EXCEPT ![r] = "setPointer"] /\ UNCHANGED seen
    <3>1. doc \in Docs /\ doc \in stored /\ doc.rev >= settled
      BY <1>0, <2>2 DEF TypeOK, HeldWasStored, PointerInv
    <3> QED
      BY <1>0, <1>4, <2>2, <3>1
      DEF Load, IInv, TypeOK, HeldWasStored, CachedWasStored, PointerInv, Filling
  <2> QED
    BY <1>4, <2>1, <2>2 DEF Load
<1>5. CASE SetPointer(r)
  <2>1. got[r].rev >= settled
    BY <1>0, <1>5 DEF SetPointer, PointerInv, Filling
  <2> QED
    BY <1>0, <1>5, <2>1
    DEF SetPointer, IInv, TypeOK, HeldWasStored, CachedWasStored, PointerInv,
        Filling
<1>6. CASE SetPayload(r)
  <2>1. EndRead(r) /\ UNCHANGED <<doc, stored, pointer, writerVars>>
    BY <1>6 DEF SetPayload
  <2>2. payload' \in [Revs -> Docs \cup {NoEntry}] /\ CachedWasStored'
    BY <1>0, <1>6, <2>1 DEF SetPayload, TypeOK, CachedWasStored, HeldWasStored
  <2> QED
    BY <1>0, <1>1, <2>1, <2>2 DEF IInv, TypeOK, HeldWasStored, PointerInv
<1>7. CASE AbortRead(r)
  BY <1>0, <1>1, <1>7
  DEF AbortRead, IInv, TypeOK, HeldWasStored, CachedWasStored, PointerInv
<1> QED
  BY <1>2, <1>3, <1>4, <1>5, <1>6, <1>7 DEF ReadStep

(***************************************************************************)
(* Writers.                                                                *)
(***************************************************************************)
LEMMA WriterStep ==
    ASSUME IInv, NEW w \in Writers, WriteStep(w)
    PROVE  IInv'
<1> USE DetailAssumption DEF Advance, cacheVars, readerVars, writerVars
<1>0. TypeOK /\ HeldWasStored /\ CachedWasStored /\ PointerInv
  BY DEF IInv
<1>1. CASE Write(w)
  <2>1. /\ doc \in Docs /\ doc # NoDoc /\ doc.rev \in Revs
        /\ doc.rev < MaxRev /\ doc.stamp \in 0..MaxStamp
    BY <1>0, <1>1 DEF Write, TypeOK, Docs
  <2>2. /\ doc' = [doc EXCEPT !.rev = @ + 1] /\ stored' = stored \cup {doc'}
        /\ wrote' = [wrote EXCEPT ![w] = doc.rev + 1]
        /\ UNCHANGED <<cacheVars, readerVars, kind, sweeping, acked, settled>>
    BY <1>1 DEF Write, Store
  <2>3. doc' \in Docs /\ doc'.rev = doc.rev + 1 /\ doc.rev + 1 \in 0..MaxRev
    BY <2>1, <2>2 DEF Docs, Revs
  <2>4. TypeOK'
    BY <1>0, <1>1, <2>2, <2>3 DEF Write, TypeOK
  <2>5. HeldWasStored' /\ CachedWasStored'
    BY <1>0, <2>2 DEF HeldWasStored, CachedWasStored
  <2>6. PointerInv'
    <3>1. settled \in Nat /\ \A v \in Writers : wrote[v] \in Nat
      BY <1>0 DEF TypeOK
    <3>2. \A v \in Writers : wrote'[v] <= doc'.rev
      BY <1>0, <2>1, <2>2, <2>3, <3>1 DEF PointerInv, TypeOK, Revs
    <3>3. doc'.rev >= settled
      BY <1>0, <2>1, <2>3, <3>1 DEF PointerInv, Revs
    <3> QED
      BY <1>0, <2>2, <3>2, <3>3 DEF PointerInv, Filling
  <2> QED
    BY <2>4, <2>5, <2>6 DEF IInv
<1>2. CASE InvalidateDetail(w)
  <2>1. /\ wrote[w] \in 0..MaxRev /\ settled \in 0..MaxRev /\ acked \in 0..MaxRev
        /\ settled' \in 0..MaxRev /\ acked' \in 0..MaxRev
        /\ settled' = settled \/ settled' = wrote[w]
    BY <1>0, <1>2 DEF InvalidateDetail, TypeOK
  <2>2. TypeOK'
    BY <1>0, <1>2, <2>1 DEF InvalidateDetail, TypeOK
  <2>3. HeldWasStored' /\ CachedWasStored'
    BY <1>0, <1>2 DEF InvalidateDetail, HeldWasStored, CachedWasStored
  <2>4. PointerInv'
    BY <1>0, <1>2, <2>1 DEF InvalidateDetail, PointerInv, Filling
  <2> QED
    BY <2>2, <2>3, <2>4 DEF IInv
<1>3. CASE Touch(w)
  <2>1. /\ doc \in Docs /\ doc # NoDoc /\ doc.rev \in Revs
        /\ doc.stamp < MaxStamp /\ doc.stamp \in 0..MaxStamp
    BY <1>0, <1>3 DEF Touch, TypeOK, Docs
  <2>2. /\ doc' = [doc EXCEPT !.stamp = @ + 1] /\ stored' = stored \cup {doc'}
        /\ UNCHANGED <<cacheVars, readerVars, kind, wrote, sweeping, acked, settled>>
    BY <1>3 DEF Touch, Store
  <2>3. doc' \in Docs /\ doc'.rev = doc.rev
    BY <2>1, <2>2 DEF Docs
  <2> QED
    BY <1>0, <1>3, <2>1, <2>2, <2>3
    DEF Touch, IInv, TypeOK, HeldWasStored, CachedWasStored, PointerInv, Filling
<1>4. CASE Prune(w)
  <2>1. sweeping' \in [Writers -> SUBSET Keys]
    BY <1>0, <1>4 DEF Prune, TypeOK
  <2> QED
    BY <1>0, <1>4, <2>1
    DEF Prune, IInv, TypeOK, HeldWasStored, CachedWasStored, PointerInv, Filling
<1>5. CASE SweepKey(w)
  <2>1. PICK k \in Keys :
          /\ pointer' = IF k = PointerKey THEN NoEntry ELSE pointer
          /\ payload' = [v \in Revs |-> IF v = k THEN NoEntry ELSE payload[v]]
          /\ sweeping' = [sweeping EXCEPT ![w] = @ \ {k}]
    BY <1>5 DEF SweepKey
  <2>2. /\ UNCHANGED <<doc, stored, readerVars, wpc, kind, wrote, acked, settled>>
        /\ sweeping' \in [Writers -> SUBSET Keys]
    BY <1>0, <1>5, <2>1 DEF SweepKey, TypeOK
  <2> QED
    BY <1>0, <2>1, <2>2
    DEF IInv, TypeOK, HeldWasStored, CachedWasStored, PointerInv, Filling
<1>6. CASE SweepEnd(w)
  <2>1. sweeping' \in [Writers -> SUBSET Keys]
    BY <1>0, <1>6 DEF SweepEnd, TypeOK
  <2> QED
    BY <1>0, <1>6, <2>1
    DEF SweepEnd, IInv, TypeOK, HeldWasStored, CachedWasStored, PointerInv,
        Filling
<1> QED
  BY <1>1, <1>2, <1>3, <1>4, <1>5, <1>6 DEF WriteStep

LEMMA NextIInv == IInv /\ [Next]_vars => IInv'
<1> SUFFICES ASSUME IInv, [Next]_vars PROVE IInv'
  OBVIOUS
<1>0. TypeOK /\ HeldWasStored /\ CachedWasStored /\ PointerInv
  BY DEF IInv
<1>1. ASSUME NEW r \in Readers, StartRead(r) \/ ReadStep(r) \/ AbortRead(r)
      PROVE  IInv'
  BY <1>1, ReaderStep
<1>2. ASSUME NEW w \in Writers, WriteStep(w) PROVE IInv'
  BY <1>2, WriterStep
<1>3. CASE ExpirePointer
  BY <1>0, <1>3
  DEF ExpirePointer, IInv, TypeOK, HeldWasStored, CachedWasStored, PointerInv,
      Filling, readerVars, writerVars
<1>4. ASSUME NEW k \in Revs, ExpirePayload(k) PROVE IInv'
  BY <1>0, <1>4
  DEF ExpirePayload, IInv, TypeOK, HeldWasStored, CachedWasStored, PointerInv,
      Filling, readerVars, writerVars
<1>5. CASE UNCHANGED vars
  BY <1>0, <1>5
  DEF vars, cacheVars, readerVars, writerVars, IInv, TypeOK, HeldWasStored,
      CachedWasStored, PointerInv, Filling
<1> QED
  BY <1>1, <1>2, <1>3, <1>4, <1>5 DEF Next

(***************************************************************************)
(* Redis, the collection, the readers and the writers stay within their    *)
(* types: no reader fills from a document it does not hold.                *)
(***************************************************************************)
THEOREM DetailTypes == Spec => []TypeOK
<1>1. IInv => TypeOK
  BY DEF IInv
<1> QED
  BY <1>1, InitIInv, NextIInv, PTL DEF Spec

(***************************************************************************)
(* A cached body is a document the collection held under the revision it   *)
(* is cached for.                                                          *)
(***************************************************************************)
THEOREM CachedIsStored == Spec => []CachedWasStored
<1>1. IInv => CachedWasStored
  BY DEF IInv
<1> QED
  BY <1>1, InitIInv, NextIInv, PTL DEF Spec

(***************************************************************************)
(* An invalidation that met no older fill is final: Redis never again      *)
(* serves a revision older than the operator's.                            *)
(***************************************************************************)
THEOREM InvalidationIsFinal == Spec => []QuietInvalidation
BY HitRevision, InitIInv, NextIInv, PTL DEF Spec
=============================================================================
