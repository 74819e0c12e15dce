----------------------------- MODULE DetailCache -----------------------------
(***************************************************************************)
(* GET /servers/{id} behind Redis, for one server (the keys of different   *)
(* servers are disjoint).                                                  *)
(*                                                                         *)
(* The body of a detail answer is cached under a key that embeds the       *)
(* document's revision; a second entry, the revision pointer, says which   *)
(* revision that is.  Both carry a TTL and are filled by whichever reader  *)
(* misses, in four awaits: pointer, payload, MongoDB, and two writes back. *)
(* Operators delete the pointer after their write, collectors do not, a    *)
(* prune pass sweeps both.  Every Redis call may fail, and then counts as  *)
(* a miss or as nothing.                                                   *)
(***************************************************************************)
EXTENDS Naturals

CONSTANTS
    Readers,     \* get_server requests under way at one time
    Writers,     \* the writes of one behaviour
    Kinds,       \* what a writer may be, a subset of AllKinds
    MaxRev,      \* bound on the revisions
    MaxStamp,    \* bound on the "last seen" stamps
    RedisFails,  \* whether a Redis call may fail
    NoDoc,       \* no document in MongoDB
    NoEntry      \* no entry in Redis

\* Who invalidates after a write, who does not, and who does not even bump.
AllKinds == {"operator", "collector", "touch", "prune"}

Revs == 1..MaxRev

\* The content is what the revision stands for (InventoryStore,
\* RevisionVersionsContent), so a document is its revision and its stamp.
Docs == [rev: Revs, stamp: 0..MaxStamp]

FirstDoc == [rev |-> 1, stamp |-> 0]

ASSUME DetailAssumption ==
    /\ Kinds \subseteq AllKinds
    /\ MaxRev \in Nat \ {0}
    /\ MaxStamp \in Nat
    /\ RedisFails \in BOOLEAN
    /\ NoDoc \notin Docs
    /\ NoEntry \notin Docs \cup Revs

VARIABLES
    doc,      \* the stored document
    pointer,  \* the revision pointer entry
    payload,  \* the detail entry of each revision
    rpc,      \* where each reader is
    seen,     \* the revision each reader read from the pointer
    got,      \* the document each reader read from MongoDB
    wpc,      \* where each writer is
    kind,     \* what each writer is
    wrote,    \* the revision each writer stored, 0 before
    sweeping, \* the keys a prune pass has still to delete
    stored,   \* history: the documents the collection has held
    acked,    \* history: the newest revision an operator was answered for
    settled   \* history: the newest one acknowledged with no older fill under way

cacheVars == <<pointer, payload>>
readerVars == <<rpc, seen, got>>
writerVars == <<wpc, kind, wrote, sweeping, acked, settled>>
vars == <<doc, stored, cacheVars, readerVars, writerVars>>

\* The pointer entry is numbered 0, a payload by its revision.
PointerKey == 0

Keys == {PointerKey} \cup Revs

Entry(k) == IF k = PointerKey THEN pointer ELSE payload[k]

Init ==
    /\ doc = FirstDoc
    /\ stored = {FirstDoc}
    /\ pointer = NoEntry
    /\ payload = [k \in Revs |-> NoEntry]
    /\ rpc = [r \in Readers |-> "idle"]
    /\ seen = [r \in Readers |-> 1]
    /\ got = [r \in Readers |-> FirstDoc]
    /\ wpc = [w \in Writers |-> "idle"]
    /\ kind \in [Writers -> Kinds]
    /\ wrote = [w \in Writers |-> 0]
    /\ sweeping = [w \in Writers |-> {}]
    /\ acked = 0
    /\ settled = 0

(***************************************************************************)
(* get_server.                                                             *)
(***************************************************************************)
Goto(r, place) == rpc' = [rpc EXCEPT ![r] = place]

\* The request is over; its locals die with it.
EndRead(r) ==
    /\ Goto(r, "idle")
    /\ seen' = [seen EXCEPT ![r] = 1]
    /\ got' = [got EXCEPT ![r] = FirstDoc]

StartRead(r) ==
    /\ rpc[r] = "idle"
    /\ Goto(r, "pointer")
    /\ UNCHANGED <<doc, stored, cacheVars, seen, got, writerVars>>

GetPointer(r) ==
    /\ rpc[r] = "pointer"
    /\ \/ /\ pointer # NoEntry
          /\ seen' = [seen EXCEPT ![r] = pointer]
          /\ Goto(r, "payload")
       \/ /\ pointer = NoEntry \/ RedisFails
          /\ Goto(r, "load")
          /\ UNCHANGED seen
    /\ UNCHANGED <<doc, stored, cacheVars, got, writerVars>>

\* Mutant: a hit is stored again, to renew the lifetime of both entries.
GetPayloadRenewing(r) ==
    /\ rpc[r] = "payload"
    /\ \/ /\ payload[seen[r]] # NoEntry
          /\ got' = [got EXCEPT ![r] = payload[seen[r]]]
          /\ Goto(r, "setPointer")
       \/ /\ payload[seen[r]] = NoEntry
          /\ Goto(r, "load")
          /\ UNCHANGED got
    /\ UNCHANGED <<doc, stored, cacheVars, seen, writerVars>>

\* A hit is answered as the stored bytes.
GetPayload(r) ==
    /\ rpc[r] = "payload"
    /\ \/ /\ payload[seen[r]] # NoEntry
          /\ EndRead(r)
       \/ /\ payload[seen[r]] = NoEntry \/ RedisFails
          /\ Goto(r, "load")
          /\ UNCHANGED <<seen, got>>
    /\ UNCHANGED <<doc, stored, cacheVars, writerVars>>

\* get_by_id: a missing document is a 404.
Load(r) ==
    /\ rpc[r] = "load"
    /\ \/ doc = NoDoc /\ EndRead(r)
       \/ /\ doc # NoDoc
          /\ got' = [got EXCEPT ![r] = doc]
          /\ Goto(r, "setPointer")
          /\ UNCHANGED seen
    /\ UNCHANGED <<doc, stored, cacheVars, writerVars>>

\* Mutant: the pointer names the revision the next write will make.
SetPointerAhead(r) ==
    /\ rpc[r] = "setPointer"
    /\ pointer' = got[r].rev + 1
    /\ Goto(r, "setPayload")
    /\ UNCHANGED <<doc, stored, payload, seen, got, writerVars>>

SetPointer(r) ==
    /\ rpc[r] = "setPointer"
    /\ \/ pointer' = got[r].rev
       \/ RedisFails /\ UNCHANGED pointer
    /\ Goto(r, "setPayload")
    /\ UNCHANGED <<doc, stored, payload, seen, got, writerVars>>

\* Mutant: the payload is stored under the revision the pointer named before.
SetPayloadUnderSeen(r) ==
    /\ rpc[r] = "setPayload"
    /\ payload' = [payload EXCEPT ![seen[r]] = got[r]]
    /\ EndRead(r)
    /\ UNCHANGED <<doc, stored, pointer, writerVars>>

SetPayload(r) ==
    /\ rpc[r] = "setPayload"
    /\ \/ payload' = [payload EXCEPT ![got[r].rev] = got[r]]
       \/ RedisFails /\ UNCHANGED payload
    /\ EndRead(r)
    /\ UNCHANGED <<doc, stored, pointer, writerVars>>

\* The process dies, or the request is cancelled, half way.
AbortRead(r) ==
    /\ rpc[r] # "idle"
    /\ EndRead(r)
    /\ UNCHANGED <<doc, stored, cacheVars, writerVars>>

(***************************************************************************)
(* The writers.                                                            *)
(***************************************************************************)
Advance(w, place) == wpc' = [wpc EXCEPT ![w] = place]

Store(d) == doc' = d /\ stored' = stored \cup {d}

\* An operator's endpoint (or an available-server draw that rechecked the
\* machine) or a collector stores a new revision.
Write(w) ==
    /\ wpc[w] = "idle" /\ kind[w] \in {"operator", "collector"}
    /\ doc # NoDoc /\ doc.rev < MaxRev
    /\ Store([doc EXCEPT !.rev = @ + 1])
    /\ wrote' = [wrote EXCEPT ![w] = doc.rev + 1]
    /\ Advance(w, IF kind[w] = "operator" THEN "invalidate" ELSE "done")
    /\ UNCHANGED <<cacheVars, readerVars, kind, sweeping, acked, settled>>

\* A reader that is about to fill the cache with an older revision.
Filling(r) == rpc[r] \in {"setPointer", "setPayload"}

\* Mutant: the payload is deleted and the pointer is left.
InvalidatePayloadOnly(w) ==
    /\ wpc[w] = "invalidate"
    /\ payload' = [payload EXCEPT ![wrote[w]] = NoEntry]
    /\ acked' = IF wrote[w] > acked THEN wrote[w] ELSE acked
    /\ settled' = IF wrote[w] > settled
                     /\ \A r \in Readers : Filling(r) => got[r].rev >= wrote[w]
                  THEN wrote[w] ELSE settled
    /\ Advance(w, "done")
    /\ UNCHANGED <<doc, stored, pointer, readerVars, kind, wrote, sweeping>>

\* _invalidate_detail_cache, then the answer to the operator.
InvalidateDetail(w) ==
    /\ wpc[w] = "invalidate"
    /\ \/ /\ pointer' = NoEntry
          /\ acked' = IF wrote[w] > acked THEN wrote[w] ELSE acked
          /\ settled' = IF wrote[w] > settled
                           /\ \A r \in Readers : Filling(r) => got[r].rev >= wrote[w]
                        THEN wrote[w] ELSE settled
       \/ RedisFails /\ UNCHANGED <<pointer, acked, settled>>
    /\ Advance(w, "done")
    /\ UNCHANGED <<doc, stored, payload, readerVars, kind, wrote, sweeping>>

\* touch_seen: the stamp moves, the revision does not, nothing is deleted.
Touch(w) ==
    /\ wpc[w] = "idle" /\ kind[w] = "touch"
    /\ doc # NoDoc /\ doc.stamp < MaxStamp
    /\ Store([doc EXCEPT !.stamp = @ + 1])
    /\ Advance(w, "done")
    /\ UNCHANGED <<cacheVars, readerVars, kind, wrote, sweeping, acked, settled>>

\* The document is deleted; delete_matching then scans for the server's keys.
Prune(w) ==
    /\ wpc[w] = "idle" /\ kind[w] = "prune"
    /\ doc # NoDoc
    /\ doc' = NoDoc
    /\ Advance(w, "sweep")
    /\ sweeping' = [sweeping EXCEPT ![w] = {k \in Keys : Entry(k) # NoEntry}]
    /\ UNCHANGED <<stored, cacheVars, readerVars, kind, wrote, acked, settled>>

\* One DEL of the scan; SCAN may also return a key set since it began.
SweepKey(w) ==
    /\ wpc[w] = "sweep"
    /\ \E k \in Keys :
          /\ Entry(k) # NoEntry
          /\ pointer' = IF k = PointerKey THEN NoEntry ELSE pointer
          /\ payload' = [v \in Revs |-> IF v = k THEN NoEntry ELSE payload[v]]
          /\ sweeping' = [sweeping EXCEPT ![w] = @ \ {k}]
    /\ UNCHANGED <<doc, stored, readerVars, wpc, kind, wrote, acked, settled>>

SweepEnd(w) ==
    /\ wpc[w] = "sweep"
    /\ RedisFails \/ \A k \in sweeping[w] : Entry(k) = NoEntry
    /\ sweeping' = [sweeping EXCEPT ![w] = {}]
    /\ Advance(w, "done")
    /\ UNCHANGED <<doc, stored, cacheVars, readerVars, kind, wrote, acked, settled>>

(***************************************************************************)
(* Redis drops an entry when its TTL has run out.                          *)
(***************************************************************************)
ExpirePointer ==
    /\ pointer # NoEntry
    /\ pointer' = NoEntry
    /\ UNCHANGED <<doc, stored, payload, readerVars, writerVars>>

ExpirePayload(k) ==
    /\ payload[k] # NoEntry
    /\ payload' = [payload EXCEPT ![k] = NoEntry]
    /\ UNCHANGED <<doc, stored, pointer, readerVars, writerVars>>

ReadStep(r) ==
    \/ GetPointer(r) \/ GetPayload(r) \/ Load(r)
    \/ SetPointer(r) \/ SetPayload(r)

WriteStep(w) ==
    \/ Write(w) \/ InvalidateDetail(w) \/ Touch(w)
    \/ Prune(w) \/ SweepKey(w) \/ SweepEnd(w)

Next ==
    \/ \E r \in Readers : StartRead(r) \/ ReadStep(r) \/ AbortRead(r)
    \/ \E w \in Writers : WriteStep(w)
    \/ ExpirePointer
    \/ \E k \in Revs : ExpirePayload(k)

Spec == Init /\ [][Next]_vars

\* Readers and invalidations go on, and every entry set with a TTL expires.
Fairness ==
    /\ \A r \in Readers : WF_vars(ReadStep(r))
    /\ WF_vars(ExpirePointer)
    /\ \A k \in Revs : WF_vars(ExpirePayload(k))

FairSpec == Spec /\ Fairness

(***************************************************************************)
(* Properties.                                                             *)
(***************************************************************************)
TypeOK ==
    /\ doc \in Docs \cup {NoDoc}
    /\ stored \subseteq Docs
    /\ pointer \in Revs \cup {NoEntry}
    /\ payload \in [Revs -> Docs \cup {NoEntry}]
    /\ rpc \in [Readers -> {"idle", "pointer", "payload", "load", "setPointer",
                            "setPayload"}]
    /\ seen \in [Readers -> Revs]
    /\ got \in [Readers -> Docs]
    /\ wpc \in [Writers -> {"idle", "invalidate", "sweep", "done"}]
    /\ kind \in [Writers -> Kinds]
    /\ wrote \in [Writers -> 0..MaxRev]
    /\ sweeping \in [Writers -> SUBSET Keys]
    /\ acked \in 0..MaxRev
    /\ settled \in 0..MaxRev

(***************************************************************************)
(* The cache holds only whole documents the collection has held, each      *)
(* under its own revision: no failure, race or expiry between the two      *)
(* writes of a fill mixes a pointer with another revision's body.          *)
(***************************************************************************)
CachedWasStored ==
    \A k \in Revs : payload[k] # NoEntry =>
        payload[k] \in stored /\ payload[k].rev = k

\* What a reader would be served from Redis now.
Hit == IF pointer = NoEntry THEN NoEntry ELSE payload[pointer]

ServesAtLeast(rev) == Hit # NoEntry => Hit.rev >= rev

(***************************************************************************)
(* What invalidation does give: once an operator's write was acknowledged, *)
(* its delete reached Redis and no reader was between MongoDB and its      *)
(* write-back with an older revision at that moment, Redis never serves an *)
(* older revision again - whatever writers, fills, expiries and failures   *)
(* follow.                                                                 *)
(***************************************************************************)
QuietInvalidation == ServesAtLeast(settled)

(***************************************************************************)
(* Staleness ends: once the writes stop, a cached answer is eventually the *)
(* stored document for ever, however many readers keep asking - no reader  *)
(* renews an entry it was served from.                                     *)
(***************************************************************************)
CacheConverges == <>[](Hit # NoEntry => Hit = doc)

(***************************************************************************)
(* _invalidate_detail_cache: "Delete the revision-pointer cache entry so   *)
(* the next read sees the new revision" - after an operator was answered.  *)
(***************************************************************************)
NextReadSeesWrite == ServesAtLeast(acked)

(***************************************************************************)
(* keys.server_key: "a write bumps `revision` ..., which changes the key,  *)
(* so the old entry is simply never read again".                           *)
(***************************************************************************)
OldEntryNeverRead == doc # NoDoc => ServesAtLeast(doc.rev)
=============================================================================
