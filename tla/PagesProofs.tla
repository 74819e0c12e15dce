----------------------------- MODULE PagesProofs -----------------------------
(***************************************************************************)
(* Proofs about MaintenanceSwitch, Session, JobsView, CopyToast and        *)
(* LoginThrottle, and about all the pages together with EventsView's: for  *)
(* any number of writes, users, sessions, CronJobs, buttons and requests,  *)
(* answered in any order or not at all.                                    *)
(***************************************************************************)
EXTENDS MCPages, EventsProofs

(***************************************************************************)
(* MaintenanceSwitch: the row, the copies it is answered from, the card    *)
(* and the writes in flight.                                               *)
(***************************************************************************)
Rows == [version : Nat, on : BOOLEAN]
Queries == [rows : Rows, stored : BOOLEAN]
WriteRecords == [id : 1 .. MaxWrites, enable : BOOLEAN, applied : Rows, cleared : BOOLEAN]

\* The part of SwitchTypeOK the steps rest on.
SwitchTypes ==
    /\ server \in Rows /\ row \in Rows
    /\ copy \in Rows \cup {NoCopy}
    /\ computing \in [Processes -> Queries \cup {Idle, Sent}]
    /\ fetch \in Rows \cup {Idle, Sent} \cup Processes
    /\ writes \subseteq WriteRecords /\ IsFiniteSet(writes)
    /\ acknowledged \in Nat
    /\ card \in [asking : BOOLEAN, reason : Reasons \cup {NoReason}, write : Nat]

\* No answer tells of a version the server has not reached.
KnownIsPast ==
    /\ acknowledged <= server.version
    /\ \A w \in writes : w.applied.version <= server.version

\* What Redis holds, a shared query has read or the fetch was answered with was
\* read after every acknowledged write: the answer left no older copy, and
\* starts the fetch again.
CopiesAreCurrent ==
    /\ copy \in Rows => copy.version >= acknowledged
    /\ \A p \in Processes :
          computing[p] \in Queries => computing[p].rows.version >= acknowledged
    /\ fetch \in Rows => fetch.version >= acknowledged

\* A write is known by its id, and the one the open card's observer follows
\* was sent from this card.
FollowedIsTheCards ==
    /\ \A v, w \in writes : v.id = w.id => v = w
    /\ \A w \in writes : w.id = observed /\ w.enable => card.write = w.id

SwitchInv ==
    /\ SwitchTypes /\ KnownIsPast /\ CopiesAreCurrent
    /\ SettledRowIsCurrent /\ FollowedIsTheCards

\* Fewer than n records leave one of n ids free (FreeId, Confirm).
LEMMA FreeNumber ==
    ASSUME NEW S, IsFiniteSet(S), NEW n \in Nat, Cardinality(S) < n
    PROVE  \E i \in 1 .. n : \A s \in S : s.id # i
<1> DEFINE ids == {s.id : s \in S}
           f == [s \in S |-> s.id]
<1>1. f \in Surjection(S, ids)
  BY DEF Surjection
<1>2. IsFiniteSet(ids) /\ Cardinality(ids) <= Cardinality(S)
  BY <1>1, FS_Surjection
<1>3. Cardinality(1 .. n) = n
  BY FS_Interval
<1>4. Cardinality(ids) \in Nat /\ Cardinality(S) \in Nat
  BY <1>2, FS_CardinalityType
<1>5. ~(1 .. n \subseteq ids)
  <2> SUFFICES ASSUME 1 .. n \subseteq ids PROVE FALSE
    OBVIOUS
  <2>1. Cardinality(1 .. n) <= Cardinality(ids)
    BY <1>2, FS_Subset
  <2> QED
    BY <2>1, <1>2, <1>3, <1>4
<1> QED
  BY <1>5

\* A write goes out under an id of its own (Mutate).
LEMMA MutateIsFresh ==
    ASSUME SwitchTypes, NEW enable \in BOOLEAN, Mutate(enable)
    PROVE  /\ observed' \in 1 .. MaxWrites
           /\ writes' = writes \cup {[id |-> observed', enable |-> enable,
                                      applied |-> NotApplied, cleared |-> FALSE]}
           /\ \A w \in writes : w.id # observed'
           /\ writes' \subseteq WriteRecords /\ IsFiniteSet(writes')
<1>1. IsFiniteSet(writes) /\ Cardinality(writes) < MaxWrites /\ MaxWrites \in Nat
  BY SwitchAssumption DEF SwitchTypes, Mutate
<1>2. \E id \in 1 .. MaxWrites : \A w \in writes : w.id # id
  BY <1>1, FreeNumber
<1>3. FreeId \in 1 .. MaxWrites /\ \A w \in writes : w.id # FreeId
  BY <1>2 DEF FreeId
<1>4. observed' = FreeId
     /\ writes' = writes \cup {[id |-> FreeId, enable |-> enable, applied |-> NotApplied,
                                cleared |-> FALSE]}
  BY DEF Mutate
<1>5. [id |-> FreeId, enable |-> enable, applied |-> NotApplied, cleared |-> FALSE] \in WriteRecords
  BY <1>3 DEF WriteRecords, NotApplied, Rows
<1>6. IsFiniteSet(writes')
  BY <1>1, <1>4, FS_AddElement
<1> QED
  BY <1>3, <1>4, <1>5, <1>6 DEF SwitchTypes

\* The page starts with the row it has just read and nothing under way.
LEMMA SwitchStarts == SwitchInit => SwitchInv
<1> SUFFICES ASSUME SwitchInit PROVE SwitchInv
  OBVIOUS
<1>1. server \in Rows /\ server.version = 1 /\ row = server /\ fetch = Idle /\ writes = {}
      /\ copy \in {server, NoCopy} /\ computing = [p \in Processes |-> Idle]
      /\ acknowledged = 1 /\ card = Closed
  BY DEF SwitchInit, Rows
<1>2. SwitchTypes
  BY <1>1, FS_EmptySet DEF SwitchTypes, Closed
<1>3. CopiesAreCurrent
  BY <1>1, SwitchAssumption DEF CopiesAreCurrent, Rows, Queries
<1> QED
  BY <1>1, <1>2, <1>3 DEF SwitchInv, KnownIsPast, SettledRowIsCurrent, FollowedIsTheCards

\* The switch and its card (Press, EditReason, Submit, Close, Unmount).
LEMMA ControlsKeepInv ==
    ASSUME SwitchInv,
           Press \/ Submit \/ Close \/ Unmount \/ \E reason \in Reasons : EditReason(reason)
    PROVE  SwitchInv'
<1> USE DEF SwitchInv, rowCopies
<1>1. CASE \E enable \in BOOLEAN :
             /\ Mutate(enable)
             /\ card' = IF enable THEN [card EXCEPT !.write = observed'] ELSE card
             /\ UNCHANGED <<server, rowCopies, row, rowsFailed, fetch, acknowledged, losses>>
  <2> PICK enable \in BOOLEAN :
             /\ Mutate(enable)
             /\ card' = IF enable THEN [card EXCEPT !.write = observed'] ELSE card
             /\ UNCHANGED <<server, rowCopies, row, rowsFailed, fetch, acknowledged, losses>>
    BY <1>1
  <2> DEFINE new == [id |-> observed', enable |-> enable, applied |-> NotApplied,
                     cleared |-> FALSE]
  <2>1. /\ observed' \in 1 .. MaxWrites
        /\ writes' = writes \cup {new}
        /\ \A w \in writes : w.id # observed'
        /\ writes' \subseteq WriteRecords /\ IsFiniteSet(writes')
    BY MutateIsFresh
  <2>2. card' \in [asking : BOOLEAN, reason : Reasons \cup {NoReason}, write : Nat]
    BY <2>1, SwitchAssumption DEF SwitchTypes
  <2>3. SwitchTypes'
    BY <2>1, <2>2 DEF SwitchTypes
  <2>4. KnownIsPast'
    <3>1. new.applied.version <= server.version
      BY DEF NotApplied, SwitchTypes, Rows
    <3> QED
      BY <2>1, <3>1 DEF KnownIsPast
  <2>5. FollowedIsTheCards'
    <3>1. new.id = observed' /\ new.enable = enable
      OBVIOUS
    <3>2. enable => card'.write = observed'
      BY DEF SwitchTypes
    <3> QED
      BY <2>1, <3>1, <3>2 DEF FollowedIsTheCards
  <2> QED
    BY <2>3, <2>4, <2>5 DEF CopiesAreCurrent, SettledRowIsCurrent
<1>2. CASE /\ UNCHANGED <<server, rowCopies, row, rowsFailed, fetch, writes, observed, acknowledged>>
           /\ card' \in [asking : BOOLEAN, reason : Reasons \cup {NoReason}, write : Nat]
           /\ card'.write = card.write
  BY <1>2 DEF SwitchTypes, KnownIsPast, CopiesAreCurrent, SettledRowIsCurrent, FollowedIsTheCards
<1>3. CASE Gone /\ UNCHANGED <<server, rowCopies, row, rowsFailed, fetch, writes, acknowledged>>
  <2>1. card' = Closed /\ observed' = 0
    BY <1>3 DEF Gone, Reset
  <2>2. SwitchTypes' /\ KnownIsPast' /\ CopiesAreCurrent' /\ SettledRowIsCurrent'
    BY <1>3, <2>1 DEF SwitchTypes, KnownIsPast, CopiesAreCurrent, SettledRowIsCurrent, Closed
  <2>3. FollowedIsTheCards'
    BY <1>3, <2>1 DEF FollowedIsTheCards, SwitchTypes, WriteRecords
  <2> QED
    BY <2>2, <2>3
<1>4. CASE Press
  <2>1. CASE row.on
    BY <1>1, <1>4, <2>1 DEF Press
  <2>2. CASE ~row.on
    BY <1>2, <1>4, <2>2 DEF Press, SwitchTypes
  <2> QED
    BY <2>1, <2>2
<1>5. CASE Submit
  BY <1>1, <1>5 DEF Submit
<1>6. CASE Close
  BY <1>3, <1>6 DEF Close, Gone
<1>7. CASE Unmount
  BY <1>3, <1>7 DEF Unmount
<1>8. CASE \E reason \in Reasons : EditReason(reason)
  BY <1>2, <1>8 DEF EditReason, SwitchTypes
<1> QED
  BY <1>4, <1>5, <1>6, <1>7, <1>8

\* The server's side (Apply, ClearRows, OtherWrite): versions only grow, and
\* what Redis holds is taken away, never put back.
LEMMA ServerKeepsInv ==
    ASSUME SwitchInv,
           \/ \E w \in writes : Apply(w) \/ ClearRows(w)
           \/ \E enable \in BOOLEAN : OtherWrite(enable)
    PROVE  SwitchInv'
<1> USE DEF SwitchInv, rowCopies
<1>1. CASE \E w \in writes : Apply(w)
  <2> PICK w \in writes : Apply(w)
    BY <1>1
  <2> DEFINE after == [w EXCEPT !.applied = server']
  <2>1. w \in WriteRecords /\ server' \in Rows /\ server'.version = server.version + 1
    BY DEF Apply, SwitchTypes, Rows, WriteRecords
  <2>2. /\ after \in WriteRecords /\ after.id = w.id /\ after.enable = w.enable
        /\ after.applied = server'
    BY <2>1 DEF WriteRecords
  <2>3. writes' = (writes \ {w}) \cup {after}
    BY DEF Apply
  <2>4. IsFiniteSet(writes \ {w}) /\ IsFiniteSet(writes')
    BY <2>3, FS_RemoveElement, FS_AddElement DEF SwitchTypes
  <2>5. SwitchTypes'
    BY <2>1, <2>2, <2>3, <2>4 DEF Apply, SwitchTypes
  <2>6. KnownIsPast'
    <3>1. acknowledged' <= server'.version
      BY <2>1 DEF Apply, SwitchTypes, KnownIsPast, Rows
    <3>2. \A v \in writes : v.applied.version <= server'.version
      BY <2>1 DEF SwitchTypes, KnownIsPast, Rows, WriteRecords
    <3>3. after.applied.version <= server'.version
      BY <2>1, <2>2 DEF Rows
    <3> QED
      BY <2>3, <3>1, <3>2, <3>3 DEF KnownIsPast
  <2>7. FollowedIsTheCards'
    BY <2>2, <2>3 DEF Apply, FollowedIsTheCards
  <2> QED
    BY <2>5, <2>6, <2>7 DEF Apply, CopiesAreCurrent, SettledRowIsCurrent
<1>3. CASE \E w \in writes : ClearRows(w)
  <2> PICK w \in writes : ClearRows(w)
    BY <1>3
  <2> DEFINE after == [w EXCEPT !.cleared = TRUE]
  <2>1. /\ w \in WriteRecords /\ after \in WriteRecords /\ after.id = w.id
        /\ after.enable = w.enable /\ after.applied = w.applied
    BY DEF SwitchTypes, WriteRecords
  <2>2. writes' = (writes \ {w}) \cup {after} /\ copy' \in {copy, NoCopy}
    BY DEF ClearRows
  <2>3. IsFiniteSet(writes \ {w}) /\ IsFiniteSet(writes')
    BY <2>2, FS_RemoveElement, FS_AddElement DEF SwitchTypes
  <2>4. SwitchTypes'
    BY <2>1, <2>2, <2>3 DEF ClearRows, SwitchTypes
  <2>5. KnownIsPast' /\ FollowedIsTheCards'
    BY <2>1, <2>2 DEF ClearRows, KnownIsPast, FollowedIsTheCards
  <2>6. CopiesAreCurrent'
    BY <2>2, SwitchAssumption DEF ClearRows, CopiesAreCurrent, Rows
  <2> QED
    BY <2>4, <2>5, <2>6 DEF ClearRows, SettledRowIsCurrent
<1>2. CASE \E enable \in BOOLEAN : OtherWrite(enable)
  <2> PICK enable \in BOOLEAN : OtherWrite(enable)
    BY <1>2
  <2>1. server' \in Rows /\ server'.version = server.version + 1
    BY DEF OtherWrite, SwitchTypes, Rows
  <2>2. KnownIsPast'
    BY <2>1 DEF OtherWrite, KnownIsPast, SwitchTypes, WriteRecords, Rows
  <2> QED
    BY <2>1, <2>2 DEF OtherWrite, SwitchTypes, CopiesAreCurrent, SettledRowIsCurrent,
                      FollowedIsTheCards
<1> QED
  BY <1>1, <1>2, <1>3

\* The answers (Answer, AnswerFails): one that succeeds sends for the rows
\* again, so no fetch older than it is left; and it is acknowledged where no
\* older copy is left either.
LEMMA AnswersKeepInv ==
    ASSUME SwitchInv, NEW w \in writes, Answer(w) \/ AnswerFails(w)
    PROVE  SwitchInv'
<1> USE DEF SwitchInv, rowCopies
<1>1. w \in WriteRecords /\ writes' = writes \ {w} /\ IsFiniteSet(writes')
  BY FS_RemoveElement DEF Answer, AnswerFails, SwitchTypes
<1>2. CASE Answer(w)
  <2>1. /\ \/ acknowledged' = acknowledged
           \/ /\ acknowledged' = Latest(acknowledged, w.applied.version)
              /\ NoOlderRows(w.applied.version)
        /\ fetch' = Sent /\ row' = w.applied /\ UNCHANGED <<server, copy, computing>>
    BY <1>2 DEF Answer, InvalidateRows
  <2>2. card' \in {card, Closed} /\ observed' \in {observed, 0}
        /\ (observed' = observed => card' = card \/ observed = 0)
    BY <1>2 DEF Answer, Reset
  <2>3. SwitchTypes'
    <3>1. card' \in [asking : BOOLEAN, reason : Reasons \cup {NoReason}, write : Nat]
      <4>1. Closed \in [asking : BOOLEAN, reason : Reasons \cup {NoReason}, write : Nat]
        BY DEF Closed
      <4> QED
        BY <2>2, <4>1 DEF SwitchTypes
    <3>2. w.applied \in Rows /\ acknowledged' \in Nat
      BY <1>1, <2>1 DEF SwitchTypes, Latest, WriteRecords, Rows
    <3> QED
      BY <1>1, <2>1, <3>1, <3>2 DEF SwitchTypes
  <2>4. KnownIsPast'
    BY <1>1, <2>1 DEF KnownIsPast, SwitchTypes, Latest, WriteRecords, Rows
  <2>5. CopiesAreCurrent' /\ SettledRowIsCurrent'
    <3>1. fetch' # Idle /\ fetch' \notin Rows
      BY <2>1, SwitchAssumption DEF Rows
    <3>2. CASE acknowledged' = acknowledged
      BY <2>1, <3>1, <3>2 DEF CopiesAreCurrent, SettledRowIsCurrent
    <3>3. CASE /\ acknowledged' = Latest(acknowledged, w.applied.version)
               /\ NoOlderRows(w.applied.version)
      <4>1. \A o \in {Idle, Sent} : o \notin Queries
        BY SwitchAssumption DEF Queries, Rows
      <4>2. NoCopy \notin Rows
        BY SwitchAssumption DEF Rows
      <4>3. copy \in Rows => copy.version >= acknowledged'
        BY <3>3, <4>2 DEF NoOlderRows, CopiesAreCurrent, Latest
      <4>4. \A p \in Processes :
                computing[p] \in Queries => computing[p].rows.version >= acknowledged'
        BY <3>3, <4>1 DEF NoOlderRows, CopiesAreCurrent, Latest
      <4> QED
        BY <2>1, <3>1, <4>3, <4>4 DEF CopiesAreCurrent, SettledRowIsCurrent
    <3> QED
      BY <2>1, <3>2, <3>3
  <2>6. FollowedIsTheCards'
    BY <1>1, <2>2 DEF FollowedIsTheCards, SwitchTypes, WriteRecords
  <2> QED
    BY <2>3, <2>4, <2>5, <2>6
<1>3. CASE AnswerFails(w)
  BY <1>1, <1>3 DEF AnswerFails, SwitchTypes, KnownIsPast, CopiesAreCurrent,
                    SettledRowIsCurrent, FollowedIsTheCards
<1> QED
  BY <1>2, <1>3

\* The page's side of the rows (Poll, RowsArrive).
LEMMA RowsKeepInv ==
    ASSUME SwitchInv, Poll \/ RowsArrive
    PROVE  SwitchInv'
<1> USE DEF SwitchInv, rowCopies
<1>1. CASE Poll
  <2>1. fetch' # Idle /\ fetch' \notin Rows /\ fetch' = Sent
    BY <1>1, SwitchAssumption DEF Poll, Rows
  <2> QED
    BY <1>1, <2>1 DEF Poll, SwitchTypes, KnownIsPast, CopiesAreCurrent, SettledRowIsCurrent,
       FollowedIsTheCards
<1>2. CASE RowsArrive
  <2>1. fetch \in Rows /\ row' = fetch /\ fetch' = Idle /\ Idle \notin Rows
    BY <1>2, SwitchAssumption DEF RowsArrive, SwitchTypes, Rows
  <2>2. CopiesAreCurrent' /\ SettledRowIsCurrent'
    BY <1>2, <2>1 DEF RowsArrive, CopiesAreCurrent, SettledRowIsCurrent
  <2> QED
    BY <1>2, <2>1, <2>2 DEF RowsArrive, SwitchTypes, KnownIsPast, FollowedIsTheCards
<1> QED
  BY <1>1, <1>2

\* The failures (RowsFail, QueryFails): nothing is settled after them.
LEMMA FailuresKeepInv ==
    ASSUME SwitchInv, RowsFail \/ \E p \in Processes : QueryFails(p)
    PROVE  SwitchInv'
<1> USE DEF SwitchInv, rowCopies
<1>1. ASSUME FetchFails,
             computing' \in [Processes -> Queries \cup {Idle, Sent}],
             \A q \in Processes : computing'[q] \in {computing[q], Idle}
      PROVE  SwitchInv'
  <2>1. /\ fetch' = Idle /\ rowsFailed' = TRUE /\ card' = Closed /\ observed' = 0
        /\ UNCHANGED <<server, copy, row, writes, acknowledged>>
    BY <1>1 DEF FetchFails, Gone, Reset
  <2>2. CopiesAreCurrent' /\ SettledRowIsCurrent'
    BY <1>1, <2>1, SwitchAssumption DEF CopiesAreCurrent, SettledRowIsCurrent, Rows, Queries
  <2>3. FollowedIsTheCards'
    BY <2>1 DEF FollowedIsTheCards, SwitchTypes, WriteRecords
  <2> QED
    BY <1>1, <2>1, <2>2, <2>3 DEF SwitchTypes, KnownIsPast, Closed
<1>2. CASE RowsFail
  BY <1>1, <1>2 DEF RowsFail, SwitchTypes
<1>3. CASE \E p \in Processes : QueryFails(p)
  <2> PICK p \in Processes : QueryFails(p)
    BY <1>3
  <2>1. /\ computing' \in [Processes -> Queries \cup {Idle, Sent}]
        /\ \A q \in Processes : computing'[q] \in {computing[q], Idle}
    BY DEF QueryFails, SwitchTypes
  <2>2. CASE fetch = p
    BY <1>1, <2>1, <2>2 DEF QueryFails
  <2>3. CASE fetch # p
    <3>1. UNCHANGED <<server, copy, row, rowsFailed, fetch, writes, observed, card, acknowledged>>
      BY <2>3 DEF QueryFails
    <3>2. CopiesAreCurrent'
      BY <2>1, <3>1, SwitchAssumption DEF CopiesAreCurrent, Queries, Rows
    <3> QED
      BY <2>1, <3>1, <3>2 DEF SwitchTypes, KnownIsPast, SettledRowIsCurrent, FollowedIsTheCards
  <2> QED
    BY <2>2, <2>3
<1> QED
  BY <1>2, <1>3

\* The backend's side of the rows, which touches copies and fetch alone: what
\* is copied is what the server holds or what was copied already.
LEMMA CopiesKeepInv ==
    ASSUME SwitchInv,
           \/ FromRedis \/ RowsExpire
           \/ \E p \in Processes :
                 Coalesce(p) \/ OtherReader(p) \/ ReadRows(p) \/ StoreRows(p) \/ Forget(p)
    PROVE  SwitchInv'
<1> DEFINE Current(rows) == rows \in Rows /\ rows.version >= acknowledged
<1>1. /\ server \in Rows /\ acknowledged \in Nat /\ acknowledged <= server.version
      /\ copy = NoCopy \/ Current(copy)
      /\ computing \in [Processes -> Queries \cup {Idle, Sent}]
      /\ \A p \in Processes : computing[p] \in Queries => Current(computing[p].rows)
      /\ fetch \in {Idle, Sent} \cup Processes \/ Current(fetch)
  BY DEF SwitchInv, SwitchTypes, KnownIsPast, CopiesAreCurrent, Queries
<1>2. Current(server)
  BY <1>1 DEF Rows
<1>3. /\ \A o \in {Idle, Sent, NoCopy} \cup Processes : o \notin Rows /\ o \notin Queries
      /\ \A rows \in Rows : rows # Idle
      /\ \A p \in Processes : p # Idle
      /\ Sent # Idle
  BY SwitchAssumption DEF Rows, Queries
<1>4. SUFFICES /\ UNCHANGED Unread
               /\ copy' = NoCopy \/ Current(copy')
               /\ computing' \in [Processes -> Queries \cup {Idle, Sent}]
               /\ \A p \in Processes : computing'[p] \in Queries => Current(computing'[p].rows)
               /\ fetch' \in {Sent} \cup Processes \/ Current(fetch') \/ fetch' = fetch
  <2>1. SwitchTypes' /\ KnownIsPast' /\ FollowedIsTheCards'
    BY <1>1, <1>4 DEF SwitchInv, SwitchTypes, KnownIsPast, FollowedIsTheCards, Unread
  <2>2. CopiesAreCurrent'
    BY <1>1, <1>3, <1>4 DEF CopiesAreCurrent, Unread
  <2>3. SettledRowIsCurrent'
    BY <1>1, <1>3, <1>4 DEF SwitchInv, SettledRowIsCurrent, Unread
  <2> QED
    BY <2>1, <2>2, <2>3 DEF SwitchInv
<1> HIDE DEF Current
<1>5. CASE FromRedis
  BY <1>1, <1>5 DEF FromRedis, rowCopies
<1>6. CASE RowsExpire
  BY <1>1, <1>6 DEF RowsExpire
<1>7. ASSUME NEW p \in Processes, Coalesce(p) PROVE <1>4!1
  <2>1. /\ computing' \in [Processes -> Queries \cup {Idle, Sent}]
        /\ \A q \in Processes : computing'[q] \in {computing[q], Sent}
    BY <1>1, <1>7 DEF Coalesce
  <2>2. fetch' = p \/ (computing[p] \in Queries /\ fetch' = computing[p].rows)
    BY <1>1, <1>7 DEF Coalesce
  <2> QED
    BY <1>1, <1>3, <1>7, <2>1, <2>2 DEF Coalesce
<1>8. ASSUME NEW p \in Processes, OtherReader(p) PROVE <1>4!1
  BY <1>1, <1>3, <1>8 DEF OtherReader
<1>9. ASSUME NEW p \in Processes, ReadRows(p) PROVE <1>4!1
  <2>1. [rows |-> server, stored |-> FALSE] \in Queries
    BY <1>1 DEF Queries
  <2> QED
    BY <1>1, <1>2, <1>9, <2>1 DEF ReadRows
<1>10. ASSUME NEW p \in Processes, StoreRows(p) PROVE <1>4!1
  <2>1. computing[p] \in Queries /\ Current(computing[p].rows)
    BY <1>1, <1>10 DEF StoreRows
  <2>2. [computing[p] EXCEPT !.stored = TRUE] \in Queries
        /\ [computing[p] EXCEPT !.stored = TRUE].rows = computing[p].rows
    BY <2>1 DEF Queries
  <2>3. computing' = [computing EXCEPT ![p] = [computing[p] EXCEPT !.stored = TRUE]]
    BY <1>10 DEF StoreRows
  <2> QED
    BY <1>1, <1>10, <2>1, <2>2, <2>3 DEF StoreRows
<1>11. ASSUME NEW p \in Processes, Forget(p) PROVE <1>4!1
  BY <1>1, <1>3, <1>11 DEF Forget
<1> QED
  BY <1>5, <1>6, <1>7, <1>8, <1>9, <1>10, <1>11

\* SwitchNext, one lemma for each part of it.
LEMMA SwitchKeepsInv == SwitchInv /\ [SwitchNext]_switchVars => SwitchInv'
<1> SUFFICES ASSUME SwitchInv, [SwitchNext]_switchVars PROVE SwitchInv'
  OBVIOUS
<1>1. CASE UNCHANGED switchVars
  BY <1>1 DEF switchVars, rowCopies, SwitchInv, SwitchTypes, KnownIsPast, CopiesAreCurrent,
              SettledRowIsCurrent, FollowedIsTheCards
<1>2. CASE SwitchNext
  BY <1>2, ControlsKeepInv, ServerKeepsInv, AnswersKeepInv, RowsKeepInv, FailuresKeepInv,
     CopiesKeepInv
     DEF SwitchNext
<1> QED
  BY <1>1, <1>2

LEMMA SwitchIsInductive == SwitchSpec => []SwitchInv
  BY SwitchStarts, SwitchKeepsInv, PTL DEF SwitchSpec

\* The bounds too: no row, fetch or write is ahead of the last version there is.
LEMMA SwitchTypesStart == SwitchInit => SwitchTypeOK
<1> SUFFICES ASSUME SwitchInit PROVE SwitchTypeOK
  OBVIOUS
<1>1. Closed \in [asking : BOOLEAN, reason : Reasons \cup {NoReason}, write : 0 .. MaxWrites]
  BY SwitchAssumption DEF Closed
<1>2. server \in Version /\ row \in Version /\ copy \in Version \cup {NoCopy}
  BY SwitchAssumption DEF SwitchInit, Version
<1>3. /\ fetch = Idle /\ computing = [p \in Processes |-> Idle] /\ observed \in 0 .. MaxWrites
      /\ status \in {"idle", "pending", "error"} /\ acknowledged \in 0 .. MaxVersion
      /\ losses \in 0 .. MaxLosses /\ writes = {} /\ card = Closed
  BY SwitchAssumption DEF SwitchInit
<1>4. rowsFailed \in BOOLEAN
  BY Zenon DEF SwitchInit
<1> QED
  BY <1>1, <1>2, <1>3, <1>4 DEF SwitchTypeOK

LEMMA SwitchTypesStep ==
    ASSUME SwitchInv, SwitchTypeOK, [SwitchNext]_switchVars
    PROVE  SwitchTypeOK'
<1> DEFINE Writes == [id : 1 .. MaxWrites, enable : BOOLEAN, applied : Version,
                      cleared : BOOLEAN]
           Reads == [rows : Version, stored : BOOLEAN]
           Cards == [asking : BOOLEAN, reason : Reasons \cup {NoReason}, write : 0 .. MaxWrites]
<1> USE SwitchAssumption
<1>1. /\ server \in Version /\ row \in Version
      /\ copy \in Version \cup {NoCopy}
      /\ computing \in [Processes -> {Idle, Sent} \cup Reads]
      /\ rowsFailed \in BOOLEAN
      /\ fetch \in {Idle, Sent} \cup Processes \cup Version
      /\ writes \subseteq Writes
      /\ observed \in 0 .. MaxWrites
      /\ status \in {"idle", "pending", "error"}
      /\ card \in Cards
      /\ acknowledged \in 0 .. MaxVersion
      /\ losses \in 0 .. MaxLosses
  BY DEF SwitchTypeOK
<1>2. Closed \in Cards /\ Closed.write = 0 /\ NotApplied \in Version
  BY DEF Closed, NotApplied, Version
<1>3. ASSUME NEW enable \in BOOLEAN, Mutate(enable)
      PROVE  /\ observed' \in 1 .. MaxWrites /\ writes' \subseteq Writes /\ status' = "pending"
             /\ [card EXCEPT !.write = observed'] \in Cards
  <2>1. SwitchTypes
    BY DEF SwitchInv
  <2>2. /\ observed' \in 1 .. MaxWrites
        /\ writes' = writes \cup {[id |-> observed', enable |-> enable,
                                   applied |-> NotApplied, cleared |-> FALSE]}
    BY <1>3, <2>1, MutateIsFresh
  <2>3. [id |-> observed', enable |-> enable, applied |-> NotApplied, cleared |-> FALSE]
           \in Writes
    BY <1>2, <2>2
  <2>4. [card EXCEPT !.write = observed'] \in Cards
    BY <1>1, <2>2
  <2>5. writes' \subseteq Writes
    BY <1>1, <2>2, <2>3
  <2> QED
    BY <1>3, <2>2, <2>4, <2>5 DEF Mutate
<1> HIDE DEF Cards, Writes, Reads
<1>4. SUFFICES /\ server' \in Version /\ row' \in Version
               /\ copy' \in Version \cup {NoCopy}
               /\ computing' \in [Processes -> {Idle, Sent} \cup Reads]
               /\ rowsFailed' \in BOOLEAN
               /\ fetch' \in {Idle, Sent} \cup Processes \cup Version
               /\ writes' \subseteq Writes
               /\ observed' \in 0 .. MaxWrites
               /\ status' \in {"idle", "pending", "error"}
               /\ card' \in Cards
               /\ acknowledged' \in 0 .. MaxVersion
               /\ losses' \in 0 .. MaxLosses
  BY DEF SwitchTypeOK, Cards, Writes, Reads
<1> USE DEF rowCopies
<1>5. CASE Press
  <2>1. CASE row.on
    <3>1. Mutate(FALSE) /\ card' = card
      BY <1>5, <2>1 DEF Press
    <3>2. observed' \in 1 .. MaxWrites /\ writes' \subseteq Writes /\ status' = "pending"
      BY <1>3, <3>1
    <3> QED
      BY <1>1, <1>5, <3>1, <3>2 DEF Press
  <2>2. CASE ~row.on
    <3>1. card' \in Cards
      BY <1>1, <1>5, <2>2 DEF Press, Cards
    <3> QED
      BY <1>1, <1>5, <2>2, <3>1 DEF Press
  <2> QED
    BY <2>1, <2>2
<1>6. CASE \E reason \in Reasons : EditReason(reason)
  BY <1>1, <1>6 DEF EditReason, Cards
<1>7. CASE Submit
  <2>1. Mutate(TRUE)
    BY <1>7 DEF Submit
  <2>2. /\ observed' \in 1 .. MaxWrites /\ writes' \subseteq Writes /\ status' = "pending"
        /\ [card EXCEPT !.write = observed'] \in Cards
    BY <1>3, <2>1
  <2> QED
    BY <1>1, <1>7, <2>2 DEF Submit
<1>8. CASE Close \/ Unmount
  BY <1>1, <1>2, <1>8 DEF Close, Unmount, Gone, Reset
<1>9. ASSUME NEW w \in writes, Apply(w) PROVE <1>4!1
  <2>1. server' \in Version /\ w \in Writes
    BY <1>1, <1>9 DEF Apply, Version, Writes
  <2>2. [w EXCEPT !.applied = server'] \in Writes
    BY <2>1 DEF Writes
  <2> QED
    BY <1>1, <1>9, <2>1, <2>2 DEF Apply
<1>10. ASSUME NEW w \in writes, Answer(w) PROVE <1>4!1
  <2>1. w.applied \in Version /\ w.applied.version \in 0 .. MaxVersion
    BY <1>1 DEF Version, Writes
  <2>2. acknowledged' \in 0 .. MaxVersion
    BY <1>1, <1>10, <2>1 DEF Answer, Latest
  <2>3. /\ card' \in {card, Closed} /\ observed' \in {observed, 0}
        /\ status' \in {status, "idle"}
    BY <1>10 DEF Answer, Reset
  <2>4. /\ server' \in Version /\ row' \in Version /\ rowsFailed' \in BOOLEAN
        /\ UNCHANGED rowCopies
        /\ fetch' = Sent /\ writes' \subseteq Writes /\ losses' \in 0 .. MaxLosses
    BY <1>1, <1>10, <2>1 DEF Answer, InvalidateRows
  <2> QED
    BY <1>1, <1>2, <2>2, <2>3, <2>4
<1>16. ASSUME NEW w \in writes, ClearRows(w) PROVE <1>4!1
  <2>1. [w EXCEPT !.cleared = TRUE] \in Writes
    BY <1>1 DEF Writes
  <2> QED
    BY <1>1, <1>16, <2>1 DEF ClearRows
<1>11. ASSUME NEW w \in writes, AnswerFails(w) PROVE <1>4!1
  BY <1>1, <1>11 DEF AnswerFails
<1>12. CASE \E enable \in BOOLEAN : OtherWrite(enable)
  BY <1>1, <1>12 DEF OtherWrite, Version
<1>13. CASE Poll \/ RowsArrive \/ RowsExpire \/ FromRedis
  BY <1>1, <1>13 DEF Poll, RowsArrive, RowsExpire, FromRedis, Unread
<1>14. CASE RowsFail
  BY <1>1, <1>2, <1>14 DEF RowsFail, FetchFails, Gone, Reset
<1>15. CASE UNCHANGED switchVars
  BY <1>1, <1>15 DEF switchVars
<1>17. ASSUME NEW p \in Processes, OtherReader(p) \/ Forget(p) PROVE <1>4!1
  BY <1>1, <1>17 DEF OtherReader, Forget, Unread
<1>18. ASSUME NEW p \in Processes, Coalesce(p) PROVE <1>4!1
  <2>1. computing[p] \in Reads => computing[p].rows \in Version
    BY DEF Reads
  <2>2. /\ computing' \in [Processes -> {Idle, Sent} \cup Reads]
        /\ fetch' \in {Idle, Sent} \cup Processes \cup Version
    BY <1>1, <1>18, <2>1 DEF Coalesce
  <2> QED
    BY <1>1, <1>18, <2>2 DEF Coalesce, Unread
<1>19. ASSUME NEW p \in Processes, ReadRows(p) PROVE <1>4!1
  <2>1. [rows |-> server, stored |-> FALSE] \in Reads
    BY <1>1 DEF Reads
  <2> QED
    BY <1>1, <1>19, <2>1 DEF ReadRows, Unread
<1>20. ASSUME NEW p \in Processes, StoreRows(p) PROVE <1>4!1
  <2>1. computing[p] \in Reads
    BY <1>1, <1>20 DEF StoreRows
  <2>2. computing[p].rows \in Version /\ [computing[p] EXCEPT !.stored = TRUE] \in Reads
    BY <2>1 DEF Reads
  <2>3. computing' = [computing EXCEPT ![p] = [computing[p] EXCEPT !.stored = TRUE]]
    BY <1>20 DEF StoreRows
  <2> QED
    BY <1>1, <1>20, <2>2, <2>3 DEF StoreRows, Unread
<1>21. ASSUME NEW p \in Processes, QueryFails(p) PROVE <1>4!1
  <2>1. CASE fetch = p
    BY <1>1, <1>2, <1>21, <2>1 DEF QueryFails, FetchFails, Gone, Reset
  <2>2. CASE fetch # p
    BY <1>1, <1>21, <2>2 DEF QueryFails
  <2> QED
    BY <2>1, <2>2
<1> QED
  BY <1>5, <1>6, <1>7, <1>8, <1>9, <1>10, <1>11, <1>12, <1>13, <1>14, <1>15, <1>16, <1>17,
     <1>18, <1>19, <1>20, <1>21
     DEF SwitchNext

\* With no fetch under way and the last one good, the row is at least as new as
\* every write of this browser whose answer found neither in Redis nor in a
\* shared query rows from before it (useToggleMaintenanceMutation patches the
\* row, then refetches), for any number of writes, processes and failures.
THEOREM SettledRowIsNew == SwitchSpec => []SettledRowIsCurrent
<1>1. SwitchInv => SettledRowIsCurrent
  BY DEF SwitchInv
<1> QED
  BY <1>1, SwitchIsInductive, PTL

\* An answer closes the card only if its write was sent from the card as it is
\* now open (close resets the mutation).
THEOREM LateAnswersLeaveTheCard == SwitchSpec => LateAnswerLeavesTheCard
<1> DEFINE Step == \A w \in writes : Answer(w) /\ card' # card => w.id = card.write
<1>1. SwitchInv => Step
  <2> SUFFICES ASSUME SwitchInv, NEW w \in writes, Answer(w), card' # card
               PROVE  w.id = card.write
    OBVIOUS
  <2>1. w.id = observed /\ w.enable
    BY DEF Answer
  <2> QED
    BY <2>1 DEF SwitchInv, FollowedIsTheCards
<1>2. SwitchInv /\ [SwitchNext]_switchVars => [Step]_switchVars
  BY <1>1
<1>3. SwitchSpec => [][SwitchNext]_switchVars
  BY PTL DEF SwitchSpec
<1> QED
  BY <1>2, <1>3, SwitchIsInductive, PTL DEF LateAnswerLeavesTheCard


(***************************************************************************)
(* Session: who is signed in.                                              *)
(***************************************************************************)
SessionRecords == [number : Nat, user : Users \cup {nobody}]

\* The part of SessionTypeOK the steps rest on.
AuthTypes ==
    /\ session \in SessionRecords
    /\ me \in SessionRecords \cup {nil} /\ meFetch \in SessionRecords \cup {nil}
    /\ call \in SessionRecords \cup {nil}
    /\ login \in [status : {"idle", "pending", "error"}, user : Users \cup {nobody}]
    /\ told \in Nat

\* Nothing was sent with, or told of, a cookie the browser does not have yet;
\* and an /auth/me under way was sent after whatever the browser was told.
CookiesArePast ==
    /\ told <= session.number
    /\ call # nil => call.number <= session.number
    /\ meFetch # nil => meFetch.number >= told

AuthInv == AuthTypes /\ CookiesArePast /\ SettledMeIsCurrent

\* The page opens by asking /auth/me with the cookie there is.
LEMMA SessionStarts == SessionInit => AuthInv
<1> SUFFICES ASSUME SessionInit PROVE AuthInv
  OBVIOUS
<1>1. session \in SessionRecords /\ session.number = 1 /\ me = nil /\ meFetch = session
      /\ call = nil /\ told = 0 /\ login = NoLogin
  BY DEF SessionInit, SessionRecords
<1>2. meFetch # nil
  BY <1>1, SessionAssumption DEF SessionRecords
<1>3. AuthTypes
  BY <1>1 DEF AuthTypes, NoLogin
<1> QED
  BY <1>1, <1>2, <1>3 DEF AuthInv, CookiesArePast, SettledMeIsCurrent

\* What /auth/me answers (MeArrives, MeFails, MeIsAskedAgain).
LEMMA MeKeepsInv ==
    ASSUME AuthInv, MeArrives \/ MeFails \/ MeIsAskedAgain
    PROVE  AuthInv'
<1> USE DEF AuthInv
<1>1. CASE MeArrives
  <2>1. me' = meFetch /\ meFetch' = nil /\ meFetch \in SessionRecords
    BY <1>1 DEF MeArrives, AuthTypes
  <2>2. SettledMeIsCurrent'
    BY <1>1, <2>1 DEF MeArrives, CookiesArePast, SettledMeIsCurrent
  <2> QED
    BY <1>1, <2>1, <2>2 DEF MeArrives, AuthTypes, CookiesArePast
<1>2. CASE MeFails
  BY <1>2 DEF MeFails, AuthTypes, CookiesArePast, SettledMeIsCurrent
<1>3. CASE MeIsAskedAgain
  <2>1. meFetch' = session /\ session # nil
    BY <1>3, SessionAssumption DEF MeIsAskedAgain, AuthTypes, SessionRecords
  <2> QED
    BY <1>3, <2>1 DEF MeIsAskedAgain, AuthTypes, CookiesArePast, SettledMeIsCurrent,
                      SessionRecords
<1> QED
  BY <1>1, <1>2, <1>3

\* A new cookie, whoever asked for it (LoggedIn, LoggedOut, Expire).
LEMMA NewSessionKeepsInv ==
    ASSUME AuthInv, LoggedIn \/ LoggedOut \/ Expire
    PROVE  AuthInv'
<1> USE DEF AuthInv
<1>1. session' \in SessionRecords /\ session'.number = session.number + 1
  BY DEF LoggedIn, LoggedOut, Expire, NewSession, AuthTypes, SessionRecords
<1>2. call' = call /\ me' = me /\ login' \in {login, NoLogin} /\ session.number \in Nat
  BY DEF LoggedIn, LoggedOut, Expire, AuthTypes, SessionRecords
<1>3. session' # nil
  BY <1>1, SessionAssumption DEF SessionRecords
<1>4. login' \in [status : {"idle", "pending", "error"}, user : Users \cup {nobody}]
  <2>1. NoLogin \in [status : {"idle", "pending", "error"}, user : Users \cup {nobody}]
    BY DEF NoLogin
  <2> QED
    BY <1>2, <2>1 DEF AuthTypes
<1>5. call # nil => call.number <= session'.number
  BY <1>1, <1>2 DEF AuthTypes, CookiesArePast, SessionRecords
<1>6. CASE LoggedIn \/ LoggedOut
  <2>1. told' = session'.number /\ meFetch' = session'
    BY <1>6 DEF LoggedIn, LoggedOut, InvalidateMe
  <2>2. AuthTypes'
    BY <1>1, <1>2, <1>4, <2>1 DEF AuthTypes, SessionRecords
  <2> QED
    BY <1>1, <1>2, <1>3, <1>5, <2>1, <2>2 DEF CookiesArePast, SettledMeIsCurrent,
                                              SessionRecords
<1>7. CASE Expire
  <2>1. told' = told /\ meFetch' = meFetch /\ meFailed' = meFailed
    BY <1>7 DEF Expire
  <2>2. AuthTypes'
    BY <1>1, <1>2, <1>4, <2>1 DEF AuthTypes
  <2>3. told' <= session'.number
    BY <1>1, <1>2, <2>1 DEF AuthTypes, CookiesArePast
  <2> QED
    BY <1>2, <1>5, <2>1, <2>2, <2>3 DEF CookiesArePast, SettledMeIsCurrent
<1> QED
  BY <1>6, <1>7

\* The page's requests (Call, Served, Refused): a 401 is of a cookie at most as
\* new as the one /auth/me is asked with.
LEMMA CallsKeepInv ==
    ASSUME AuthInv, Call \/ Served \/ Refused
    PROVE  AuthInv'
<1> USE DEF AuthInv
<1>1. CASE Call
  BY <1>1 DEF Call, AuthTypes, CookiesArePast, SettledMeIsCurrent, SessionRecords
<1>2. CASE Served
  BY <1>2 DEF Served, AuthTypes, CookiesArePast, SettledMeIsCurrent
<1>3. CASE Refused
  <2>1. call \in SessionRecords /\ call.number <= session.number /\ call' = nil
    BY <1>3 DEF Refused, AuthTypes, CookiesArePast
  <2>2. told' \in Nat /\ told' <= session.number
    BY <1>3, <2>1 DEF Refused, Later, AuthTypes, CookiesArePast, SessionRecords
  <2>3. session' = session /\ meFetch' = session /\ session # nil
    BY <1>3, SessionAssumption DEF Refused, InvalidateMe, AuthTypes, SessionRecords
  <2> QED
    BY <1>3, <2>1, <2>2, <2>3 DEF Refused, AuthTypes, CookiesArePast, SettledMeIsCurrent,
                                  SessionRecords
<1> QED
  BY <1>1, <1>2, <1>3

\* The login form, and everything that is not about who is signed in.
LEMMA OthersKeepAuthInv ==
    ASSUME AuthInv,
           UNCHANGED <<session, me, meFailed, meFetch, told, call>>,
           login' \in {login, [NoLogin EXCEPT !.status = "error"]}
              \cup [status : {"pending"}, user : Users]
    PROVE  AuthInv'
<1>1. login' \in [status : {"idle", "pending", "error"}, user : Users \cup {nobody}]
  BY DEF AuthInv, AuthTypes, NoLogin
<1> QED
  BY <1>1 DEF AuthInv, AuthTypes, CookiesArePast, SettledMeIsCurrent

\* SessionNext, by what its steps do to the session and to /auth/me.
LEMMA SessionKeepsInv == AuthInv /\ [SessionNext]_sessionVars => AuthInv'
<1> SUFFICES ASSUME AuthInv, [SessionNext]_sessionVars PROVE AuthInv'
  OBVIOUS
<1>1. CASE UNCHANGED sessionVars
  BY <1>1, OthersKeepAuthInv DEF sessionVars, authVars
<1>2. CASE \E user \in Users : SubmitLogin(user)
  BY <1>2, OthersKeepAuthInv DEF SubmitLogin
<1>3. CASE LoginFails
  BY <1>3, OthersKeepAuthInv DEF LoginFails
<1>4. CASE PressLogOut \/ LogoutFails
  BY <1>4, OthersKeepAuthInv DEF PressLogOut, LogoutFails
<1>5. CASE \/ FetchToken \/ TokenArrives \/ TokenFails \/ TokenAges \/ TokenChanged \/ ChangeFails
           \/ \E kind \in {"create", "revoke"} : PressToken(kind)
           \/ \E to \in Paths : Visit(to)
  <2>1. UNCHANGED authVars
    BY <1>5 DEF FetchToken, TokenArrives, TokenFails, TokenAges, TokenChanged, ChangeFails,
                PressToken, Visit
  <2> QED
    BY <2>1, OthersKeepAuthInv DEF authVars
<1>6. CASE SessionNext
  BY <1>2, <1>3, <1>4, <1>5, <1>6, MeKeepsInv, NewSessionKeepsInv, CallsKeepInv DEF SessionNext
<1> QED
  BY <1>1, <1>6

\* The types of all of it, and of what SessionTypeOK leaves out.
SessionTypes ==
    /\ SessionTypeOK
    /\ meFailed \in BOOLEAN /\ logout \in BOOLEAN /\ tokenIsStale \in BOOLEAN
    /\ tokens \in [Users -> 0 .. MaxTokens]
    /\ change \in [kind : {"create", "revoke"}, user : Users, number : 0 .. MaxTokens] \cup {nil}

LEMMA SessionTypesStart == SessionInit => SessionTypes
<1> SUFFICES ASSUME SessionInit PROVE SessionTypes
  OBVIOUS
<1>1. session \in Sessions
  BY SessionAssumption DEF SessionInit, Sessions
<1>2. NoLogin \in [status : {"idle", "pending", "error"}, user : Users \cup {nobody}]
  BY DEF NoLogin
<1>3. tokens \in [Users -> 0 .. MaxTokens]
  BY SessionAssumption DEF SessionInit
<1>4. /\ me = nil /\ meFetch = session /\ call = nil /\ told \in 0 .. MaxSessions
      /\ login = NoLogin /\ path \in Paths /\ token = nil /\ fresh = nil /\ tokenFetch = nil
      /\ change = nil
  BY SessionAssumption DEF SessionInit, Paths
<1>5. meFailed \in BOOLEAN /\ logout \in BOOLEAN /\ tokenIsStale \in BOOLEAN
  BY Zenon DEF SessionInit
<1> QED
  BY <1>1, <1>2, <1>3, <1>4, <1>5 DEF SessionTypes, SessionTypeOK

LEMMA SessionTypesStep == SessionTypes /\ [SessionNext]_sessionVars => SessionTypes'
<1> SUFFICES ASSUME SessionTypes, [SessionNext]_sessionVars PROVE SessionTypes'
  OBVIOUS
<1> DEFINE Forms == [status : {"idle", "pending", "error"}, user : Users \cup {nobody}]
           Changes == [kind : {"create", "revoke"}, user : Users, number : 0 .. MaxTokens]
<1> USE SessionAssumption
<1>1. /\ session \in Sessions /\ me \in Sessions \cup {nil}
      /\ meFetch \in Sessions \cup {nil} /\ call \in Sessions \cup {nil}
      /\ told \in 0 .. MaxSessions /\ login \in Forms /\ path \in Paths
      /\ token \in TokensShown \cup {nil} /\ fresh \in TokensShown \cup {nil}
      /\ tokenFetch \in Users \cup {nil, nobody}
      /\ meFailed \in BOOLEAN /\ logout \in BOOLEAN /\ tokenIsStale \in BOOLEAN
      /\ tokens \in [Users -> 0 .. MaxTokens] /\ change \in Changes \cup {nil}
  BY DEF SessionTypes, SessionTypeOK
<1>2. /\ session.number \in 0 .. MaxSessions /\ session.user \in Users \cup {nobody}
      /\ login.user \in Users \cup {nobody}
  BY <1>1 DEF Sessions
<1>3. /\ NoLogin \in Forms /\ [NoLogin EXCEPT !.status = "error"] \in Forms
      /\ \A user \in Users : [status |-> "pending", user |-> user] \in Forms
  BY DEF NoLogin
<1>4. ASSUME NEW user \in Users \cup {nobody}, NewSession(user)
      PROVE  session' \in Sessions /\ session'.number \in 0 .. MaxSessions
  BY <1>2, <1>4 DEF NewSession, Sessions
<1>5. \A u \in Users, n \in 0 .. MaxTokens : [user |-> u, number |-> n] \in TokensShown
  BY DEF TokensShown
<1> HIDE DEF Forms, Changes
<1> SUFFICES /\ session' \in Sessions /\ me' \in Sessions \cup {nil}
             /\ meFetch' \in Sessions \cup {nil} /\ call' \in Sessions \cup {nil}
             /\ told' \in 0 .. MaxSessions /\ login' \in Forms /\ path' \in Paths
             /\ token' \in TokensShown \cup {nil} /\ fresh' \in TokensShown \cup {nil}
             /\ tokenFetch' \in Users \cup {nil, nobody}
             /\ meFailed' \in BOOLEAN /\ logout' \in BOOLEAN /\ tokenIsStale' \in BOOLEAN
             /\ tokens' \in [Users -> 0 .. MaxTokens] /\ change' \in Changes \cup {nil}
  BY DEF SessionTypes, SessionTypeOK, Forms, Changes
<1>6. CASE MeArrives
  BY <1>1, <1>6 DEF MeArrives, Leave
<1>7. CASE MeFails \/ MeIsAskedAgain
  BY <1>1, <1>7 DEF MeFails, MeIsAskedAgain, tokenVars
<1>8. CASE (\E user \in Users : SubmitLogin(user)) \/ LoginFails
  BY <1>1, <1>3, <1>8 DEF SubmitLogin, LoginFails, tokenVars
<1>9. CASE LoggedIn
  BY <1>1, <1>2, <1>3, <1>4, <1>9 DEF LoggedIn, InvalidateMe, tokenVars
<1>10. CASE LoggedOut
  BY <1>1, <1>4, <1>10 DEF LoggedOut, InvalidateMe, tokenVars
<1>11. CASE PressLogOut \/ LogoutFails
  BY <1>1, <1>11 DEF PressLogOut, LogoutFails, tokenVars
<1>12. CASE Expire
  BY <1>1, <1>4, <1>12 DEF Expire, tokenVars
<1>13. CASE Call \/ Served
  BY <1>1, <1>13 DEF Call, Served, tokenVars
<1>14. CASE Refused
  <2>1. call.number \in 0 .. MaxSessions
    BY <1>1, <1>14 DEF Refused, Sessions
  <2> QED
    BY <1>1, <1>14, <2>1 DEF Refused, Later, InvalidateMe, tokenVars
<1>15. CASE \E to \in Paths : Visit(to)
  BY <1>1, <1>15 DEF Visit, Leave, authVars
<1>16. CASE FetchToken \/ TokenFails \/ TokenAges
  BY <1>1, <1>2, <1>16 DEF FetchToken, InvalidateToken, TokenFails, TokenAges, authVars
<1>17. CASE TokenArrives
  BY <1>1, <1>5, <1>17 DEF TokenArrives, authVars
<1>18. CASE \E kind \in {"create", "revoke"} : PressToken(kind)
  <2> PICK kind \in {"create", "revoke"} : PressToken(kind)
    BY <1>18
  <2>1. PICK u : u = session.user
    OBVIOUS
  <2>2. u \in Users
    BY <1>2, <2>1 DEF PressToken
  <2>3. tokens' \in [Users -> 0 .. MaxTokens] /\ tokens'[u] \in 0 .. MaxTokens
    <3>1. kind = "create" => tokens[u] + 1 \in 0 .. MaxTokens
      BY <1>1, <2>1, <2>2 DEF PressToken
    <3>2. tokens' = [tokens EXCEPT ![u] = IF kind = "create" THEN tokens[u] + 1 ELSE 0]
      BY <2>1, <1>1, <2>2 DEF PressToken
    <3> QED
      BY <1>1, <2>2, <3>1, <3>2
  <2>4. change' \in Changes
    BY <2>1, <2>2, <2>3 DEF PressToken, Changes
  <2> QED
    BY <1>1, <2>3, <2>4 DEF PressToken, authVars
<1>19. CASE TokenChanged
  <2>1. change.user \in Users /\ change.number \in 0 .. MaxTokens
    BY <1>1, <1>19 DEF TokenChanged, Changes
  <2> QED
    BY <1>1, <1>2, <1>5, <1>19, <2>1 DEF TokenChanged, InvalidateToken, authVars
<1>20. CASE ChangeFails
  BY <1>1, <1>20 DEF ChangeFails, authVars
<1>21. CASE UNCHANGED sessionVars
  BY <1>1, <1>21 DEF sessionVars, authVars, tokenVars
<1> QED
  BY <1>6, <1>7, <1>8, <1>9, <1>10, <1>11, <1>12, <1>13, <1>14, <1>15, <1>16, <1>17, <1>18,
     <1>19, <1>20, <1>21 DEF SessionNext

\* With nothing under way and the last answer good, the user on screen is at
\* least as recent as every login, logout and 401 the browser was told of
\* (apiFetch and the two mutations invalidate /auth/me).
THEOREM SettledMeIsNew == SessionSpec => []SettledMeIsCurrent
<1>1. AuthInv => SettledMeIsCurrent
  BY DEF AuthInv
<1> QED
  BY <1>1, SessionStarts, SessionKeepsInv, PTL DEF SessionSpec

(***************************************************************************)
(* JobsView: the dialog that confirms a run.                               *)
(***************************************************************************)
IsPost(p) ==
    /\ p = [id |-> p.id, cronjob |-> p.cronjob, check |-> p.check, run |-> p.run]
    /\ p.id \in 1 .. MaxPosts /\ p.cronjob \in CronJobs

PostTypes ==
    /\ asking \in CronJobs \cup {none}
    /\ IsFiniteSet(posts) /\ \A p \in posts : IsPost(p)

\* While a dialog is open the mutation follows a run of its CronJob or none:
\* the run is followed since this dialog sent it.
FollowsTheDialog == asking # none => \A p \in posts : p.id = following => p.cronjob = asking

DialogInv == PostTypes /\ FollowsTheDialog /\ ErrorIsOfTheDialog

\* The page opens with no dialog and no run asked for.
LEMMA JobsStart == JobsInit => DialogInv
  BY FS_EmptySet DEF JobsInit, DialogInv, PostTypes, FollowsTheDialog, ErrorIsOfTheDialog

\* The dialog opens, closes and sends (Ask, Cancel, Confirm).
LEMMA DialogKeepsInv ==
    ASSUME DialogInv, Cancel \/ Confirm \/ \E c \in CronJobs : Ask(c)
    PROVE  DialogInv'
<1> USE DEF DialogInv
<1>1. CASE Cancel
  BY <1>1 DEF Cancel, PostTypes, FollowsTheDialog, ErrorIsOfTheDialog
<1>2. CASE \E c \in CronJobs : Ask(c)
  <2> PICK c \in CronJobs : Ask(c)
    BY <1>2
  <2>1. asking' = c /\ following' = 0 /\ outcome' = "idle" /\ posts' = posts
    BY DEF Ask, ResetRun
  <2>2. \A p \in posts : p.id # following'
    BY <2>1, JobsAssumption DEF PostTypes, IsPost
  <2> QED
    BY <2>1, <2>2, JobsAssumption DEF PostTypes, FollowsTheDialog, ErrorIsOfTheDialog, IsPost
<1>3. CASE Confirm
  <2> DEFINE id == CHOOSE i \in 1 .. MaxPosts : \A p \in posts : p.id # i
             new == [id |-> id, cronjob |-> asking, check |-> "none", run |-> 0]
  <2>1. IsFiniteSet(posts) /\ Cardinality(posts) < MaxPosts /\ asking \in CronJobs
    BY <1>3 DEF Confirm, PostTypes
  <2>2. \E i \in 1 .. MaxPosts : \A p \in posts : p.id # i
    BY <2>1, JobsAssumption, FreeNumber
  <2>3. id \in 1 .. MaxPosts /\ \A p \in posts : p.id # id
    BY <2>2
  <2>4. posts' = posts \cup {new} /\ following' = id /\ outcome' = "pending" /\ asking' = asking
    BY <1>3 DEF Confirm
  <2>5. IsPost(new) /\ new.id = id /\ new.cronjob = asking
    BY <2>1, <2>3 DEF IsPost
  <2> HIDE DEF id, new
  <2>6. PostTypes'
    BY <2>1, <2>4, <2>5, FS_AddElement DEF PostTypes, IsPost
  <2>7. FollowsTheDialog'
    BY <2>3, <2>4, <2>5 DEF FollowsTheDialog
  <2>8. ErrorIsOfTheDialog'
    BY <2>4, JobsAssumption DEF ErrorIsOfTheDialog
  <2> QED
    BY <2>6, <2>7, <2>8
<1> QED
  BY <1>1, <1>2, <1>3

\* The runs asked for (CheckJobs, CreateJob, RunStarted, RunFails).
LEMMA RunsKeepInv ==
    ASSUME DialogInv, NEW p \in posts, CheckJobs(p) \/ CreateJob(p) \/ RunStarted(p) \/ RunFails(p)
    PROVE  DialogInv'
<1> USE DEF DialogInv
<1>1. ASSUME NEW after, IsPost(after), after.id = p.id, after.cronjob = p.cronjob,
             posts' = (posts \ {p}) \cup {after},
             UNCHANGED <<asking, following, outcome>>
      PROVE  DialogInv'
  <2>1. IsFiniteSet(posts \ {p}) /\ IsFiniteSet(posts')
    BY <1>1, FS_RemoveElement, FS_AddElement DEF PostTypes
  <2>2. PostTypes'
    BY <1>1, <2>1 DEF PostTypes, IsPost
  <2> QED
    BY <1>1, <2>2 DEF FollowsTheDialog, ErrorIsOfTheDialog
<1>2. CASE CheckJobs(p)
  <2>1. PICK check : posts' = (posts \ {p}) \cup {[p EXCEPT !.check = check]}
    BY <1>2 DEF CheckJobs
  <2> DEFINE after == [p EXCEPT !.check = check]
  <2>2. IsPost(after) /\ after.id = p.id /\ after.cronjob = p.cronjob
    BY DEF PostTypes, IsPost
  <2> QED
    BY <1>1, <1>2, <2>1, <2>2 DEF CheckJobs
<1>3. CASE CreateJob(p)
  <2>1. PICK run : posts' = (posts \ {p}) \cup {[p EXCEPT !.run = run]}
    BY <1>3 DEF CreateJob
  <2> DEFINE after == [p EXCEPT !.run = run]
  <2>2. IsPost(after) /\ after.id = p.id /\ after.cronjob = p.cronjob
    BY DEF PostTypes, IsPost
  <2> QED
    BY <1>1, <1>3, <2>1, <2>2 DEF CreateJob
<1>4. posts' = posts \ {p} /\ IsFiniteSet(posts') /\ asking' \in {asking, none} => PostTypes'
  BY DEF PostTypes, IsPost
<1>5. CASE RunStarted(p)
  <2>1. posts' = posts \ {p} /\ asking' = none
    BY <1>5 DEF RunStarted
  <2> QED
    BY <1>4, <2>1, FS_RemoveElement DEF PostTypes, FollowsTheDialog, ErrorIsOfTheDialog
<1>6. CASE RunFails(p)
  <2>1. posts' = posts \ {p} /\ asking' = asking
    BY <1>6 DEF RunFails
  <2>2. PostTypes'
    BY <1>4, <2>1, FS_RemoveElement DEF PostTypes
  <2>3. CASE p.id = following
    <3>1. following' = 0 /\ outcome' = p.cronjob
      BY <1>6, <2>3 DEF RunFails
    <3>2. asking # none => p.cronjob = asking
      BY <2>3 DEF FollowsTheDialog
    <3>3. \A q \in posts' : q.id # 0
      BY <2>2, JobsAssumption DEF PostTypes, IsPost
    <3> QED
      BY <2>1, <2>2, <3>1, <3>2, <3>3 DEF FollowsTheDialog, ErrorIsOfTheDialog
  <2>4. CASE p.id # following
    BY <1>6, <2>1, <2>2, <2>4 DEF RunFails, FollowsTheDialog, ErrorIsOfTheDialog
  <2> QED
    BY <2>3, <2>4
<1> QED
  BY <1>5, <1>6, <1>2, <1>3

\* JobsNext: the cluster, the overview and the log pane leave the dialog alone.
LEMMA JobsKeepInv == DialogInv /\ [JobsNext]_jobsVars => DialogInv'
<1> SUFFICES ASSUME DialogInv, [JobsNext]_jobsVars PROVE DialogInv'
  OBVIOUS
<1>1. CASE UNCHANGED runVars
  BY <1>1 DEF runVars, DialogInv, PostTypes, FollowsTheDialog, ErrorIsOfTheDialog, IsPost
<1>2. CASE UNCHANGED jobsVars
  BY <1>1, <1>2 DEF jobsVars
<1>3. CASE \/ \E c \in CronJobs : Schedule(c) \/ StartedElsewhere(c) \/ Finish(c)
           \/ PollOverview \/ ReadOverview \/ OverviewArrives \/ OverviewFails
           \/ \E pod \in Pods : Select(pod)
           \/ CloseLog \/ OpensUnread \/ PollLog \/ Refresh \/ ReadLog \/ LogArrives \/ LogFails
  <2>1. UNCHANGED runVars
    BY <1>3 DEF Schedule, StartedElsewhere, Finish, PollOverview, ReadOverview, OverviewArrives,
                OverviewFails, Select, CloseLog, OpensUnread, PollLog, Refresh, FetchLog, ReadLog, LogArrives,
                LogFails
  <2> QED
    BY <1>1, <2>1
<1>4. CASE JobsNext
  BY <1>3, <1>4, DialogKeepsInv, RunsKeepInv DEF JobsNext
<1> QED
  BY <1>2, <1>4

\* The types of all of it: an overview, wherever it is, is of the cluster as it
\* was at some time.
IsOverview(o) ==
    /\ o \in [CronJobs -> [run : Nat, running : SUBSET Nat]]
    /\ \A c \in CronJobs : o[c].running \subseteq 1 .. o[c].run

JobsTypes ==
    /\ JobsTypeOK
    /\ IsOverview(cluster)
    /\ overview = none \/ IsOverview(overview)
    /\ overviewFetch \in {none, sent} \/ IsOverview(overviewFetch)
    /\ logFetch \in [pod : Pods, text : {sent, "partial", "whole"}] \cup {none}

LEMMA JobsTypesStart == JobsInit => JobsTypes
<1> SUFFICES ASSUME JobsInit PROVE JobsTypes
  OBVIOUS
<1>1. IsOverview(cluster)
  BY DEF JobsInit, IsOverview
<1>2. \A o \in {cluster, overview} \ {none} : \A c \in CronJobs : o[c].running \subseteq 1 .. o[c].run
  BY <1>1 DEF JobsInit, IsOverview
<1>3. logs \in [Pods -> {"unread", "partial", "whole", "failed"}]
  BY DEF JobsInit
<1> QED
  BY <1>1, <1>2, <1>3, JobsAssumption DEF JobsInit, JobsTypes, JobsTypeOK

\* One more Job of a CronJob (StartJob).
LEMMA StartedJobIsListed ==
    ASSUME IsOverview(cluster), NEW c \in CronJobs, StartJob(c)
    PROVE  IsOverview(cluster') /\ cluster'[c].run \in Nat
<1> DEFINE job == cluster[c]
           more == [run |-> job.run + 1, running |-> job.running \cup {job.run + 1}]
<1>1. job \in [run : Nat, running : SUBSET Nat] /\ job.running \subseteq 1 .. job.run
  BY DEF IsOverview
<1>2. /\ more \in [run : Nat, running : SUBSET Nat] /\ more.running \subseteq 1 .. more.run
      /\ more.run \in Nat
  BY <1>1
<1>3. cluster' = [cluster EXCEPT ![c] = more]
  BY DEF StartJob
<1> HIDE DEF more
<1> QED
  BY <1>2, <1>3 DEF IsOverview

LEMMA JobsTypesStep == DialogInv /\ JobsTypes /\ [JobsNext]_jobsVars => JobsTypes'
<1> SUFFICES ASSUME DialogInv, JobsTypes, [JobsNext]_jobsVars PROVE JobsTypes'
  OBVIOUS
<1> DEFINE Texts == {"unread", "partial", "whole", "failed"}
           Posts == [id : 1 .. MaxPosts, cronjob : CronJobs,
                     check : {"none", "refused", "passed"}, run : Nat]
           LogFetches == [pod : Pods, text : {sent, "partial", "whole"}]
           Runs(a, ps, f, o) ==
             /\ a \in CronJobs \cup {none} /\ ps \subseteq Posts
             /\ f \in 0 .. MaxPosts /\ o \in {"idle", "pending"} \cup CronJobs
           Panes(s, l, f) ==
             s \in Pods \cup {none} /\ l \in [Pods -> Texts] /\ f \in LogFetches \cup {none}
           Views(o, f) ==
             /\ o = none \/ IsOverview(o)
             /\ f \in {none, sent} \/ IsOverview(f)
<1>1. /\ IsOverview(cluster) /\ Views(overview, overviewFetch)
      /\ Runs(asking, posts, following, outcome) /\ Panes(selected, logs, logFetch)
  BY DEF JobsTypes, JobsTypeOK
<1>2. ASSUME IsOverview(cluster'), Views(overview', overviewFetch'),
             Runs(asking', posts', following', outcome'), Panes(selected', logs', logFetch')
      PROVE  JobsTypes'
  <2>1. \A o \in {cluster', overview'} \ {none} : \A c \in CronJobs :
           o[c].running \subseteq 1 .. o[c].run
    BY <1>2 DEF IsOverview
  <2>2. JobsTypeOK'
    BY <1>2, <2>1 DEF JobsTypeOK
  <2> QED
    BY <1>2, <2>2 DEF JobsTypes
<1>3. \A p \in posts : p \in Posts /\ p.cronjob \in CronJobs
  BY <1>1
<1>4. \A p \in posts : /\ \A check \in {"refused", "passed"} : [p EXCEPT !.check = check] \in Posts
                       /\ \A run \in Nat : [p EXCEPT !.run = run] \in Posts
  BY <1>3
<1>5. /\ selected # none => [pod |-> selected, text |-> sent] \in LogFetches
      /\ logFetch # none => logFetch.pod \in Pods /\ logFetch.text \in {sent, "partial", "whole"}
      /\ logFetch # none => \A text \in {"partial", "whole"} :
            [logFetch EXCEPT !.text = text] \in LogFetches
  BY <1>1
<1>6. \A pod \in Pods, text \in Texts : [logs EXCEPT ![pod] = text] \in [Pods -> Texts]
  BY <1>1
<1> HIDE DEF Posts, LogFetches
\* The cluster.
<1>7. ASSUME NEW c \in CronJobs, Schedule(c) \/ StartedElsewhere(c) PROVE JobsTypes'
  <2>1. IsOverview(cluster')
    BY <1>1, <1>7, StartedJobIsListed DEF Schedule, StartedElsewhere
  <2> QED
    BY <1>1, <1>2, <1>7, <2>1 DEF Schedule, StartedElsewhere, overviewVars, runVars, logVars
<1>8. ASSUME NEW c \in CronJobs, Finish(c) PROVE JobsTypes'
  <2>1. PICK run \in cluster[c].running :
           cluster' = [cluster EXCEPT ![c].running = @ \ {run}]
    BY <1>8 DEF Finish
  <2>2. IsOverview(cluster')
    BY <1>1, <2>1 DEF IsOverview
  <2> QED
    BY <1>1, <1>2, <1>8, <2>2 DEF Finish, overviewVars, runVars, logVars
\* The overview.
<1>9. CASE PollOverview \/ ReadOverview \/ OverviewArrives \/ OverviewFails
  <2>1. Views(overview', overviewFetch')
    BY <1>1, <1>9 DEF PollOverview, ReadOverview, OverviewArrives, OverviewFails
  <2>2. IsOverview(cluster') /\ UNCHANGED <<runVars, logVars>>
    BY <1>1, <1>9 DEF PollOverview, ReadOverview, OverviewArrives, OverviewFails
  <2> QED
    BY <1>1, <1>2, <2>1, <2>2 DEF runVars, logVars
\* The dialog.
<1>10. ASSUME UNCHANGED <<cluster, overviewVars, logVars>>,
              Runs(asking', posts', following', outcome')
       PROVE  JobsTypes'
  BY <1>1, <1>2, <1>10 DEF overviewVars, logVars
<1>11. CASE Cancel \/ \E c \in CronJobs : Ask(c)
  <2>1. Runs(asking', posts', following', outcome')
    BY <1>1, <1>11, JobsAssumption DEF Cancel, Ask, ResetRun
  <2> QED
    BY <1>10, <1>11, <2>1 DEF Cancel, Ask
<1>12. CASE Confirm
  <2> DEFINE id == CHOOSE i \in 1 .. MaxPosts : \A p \in posts : p.id # i
             new == [id |-> id, cronjob |-> asking, check |-> "none", run |-> 0]
  <2>1. IsFiniteSet(posts) /\ Cardinality(posts) < MaxPosts /\ asking \in CronJobs
    BY <1>12 DEF Confirm, DialogInv, PostTypes
  <2>2. \E i \in 1 .. MaxPosts : \A p \in posts : p.id # i
    BY <2>1, JobsAssumption, FreeNumber
  <2>3. id \in 1 .. MaxPosts /\ MaxPosts \in Nat
    BY <2>2, JobsAssumption
  <2>4. new \in Posts
    BY <2>1, <2>3 DEF Posts
  <2>5. posts' = posts \cup {new} /\ following' = id /\ outcome' = "pending" /\ asking' = asking
    BY <1>12 DEF Confirm
  <2> HIDE DEF id, new
  <2>6. Runs(asking', posts', following', outcome')
    BY <1>1, <2>3, <2>4, <2>5
  <2> QED
    BY <1>10, <1>12, <2>6 DEF Confirm
\* The runs asked for.
<1>13. ASSUME NEW p \in posts, CheckJobs(p) PROVE JobsTypes'
  <2>1. PICK check \in {"refused", "passed"} : posts' = (posts \ {p}) \cup {[p EXCEPT !.check = check]}
    BY <1>13 DEF CheckJobs
  <2>2. posts' \subseteq Posts
    BY <1>1, <1>4, <2>1
  <2> QED
    BY <1>1, <1>10, <1>13, <2>2 DEF CheckJobs
<1>14. ASSUME NEW p \in posts, CreateJob(p) PROVE JobsTypes'
  <2>1. IsOverview(cluster') /\ cluster'[p.cronjob].run \in Nat
    BY <1>1, <1>3, <1>14, StartedJobIsListed DEF CreateJob
  <2>2. posts' \subseteq Posts
    BY <1>1, <1>4, <1>14, <2>1 DEF CreateJob
  <2> QED
    BY <1>1, <1>2, <1>14, <2>1, <2>2 DEF CreateJob, overviewVars, logVars
<1>15. ASSUME NEW p \in posts, RunStarted(p) PROVE JobsTypes'
  <2>1. Runs(asking', posts', following', outcome')
    BY <1>1, <1>15, JobsAssumption DEF RunStarted, ResetRun
  <2>2. Panes(selected', logs', logFetch') /\ Views(overview', overviewFetch')
    BY <1>1, <1>15 DEF RunStarted
  <2> QED
    BY <1>1, <1>2, <1>15, <2>1, <2>2 DEF RunStarted
<1>16. ASSUME NEW p \in posts, RunFails(p) PROVE JobsTypes'
  <2>1. Runs(asking', posts', following', outcome')
    BY <1>1, <1>3, <1>16, JobsAssumption DEF RunFails
  <2> QED
    BY <1>10, <1>16, <2>1 DEF RunFails
\* The log pane.
<1>17. ASSUME UNCHANGED <<cluster, overviewVars, runVars>>, Panes(selected', logs', logFetch')
       PROVE  JobsTypes'
  BY <1>1, <1>2, <1>17 DEF overviewVars, runVars
<1>18. CASE CloseLog \/ \E pod \in Pods : Select(pod)
  BY <1>1, <1>17, <1>18 DEF CloseLog, Select
<1>19. CASE OpensUnread \/ PollLog \/ Refresh
  <2>1. FetchLog
    BY <1>19 DEF OpensUnread, PollLog, Refresh
  <2>2. logFetch' \in LogFetches
    BY <1>5, <2>1 DEF FetchLog
  <2> QED
    BY <1>1, <1>17, <2>1, <2>2 DEF FetchLog
<1>20. CASE ReadLog
  <2>1. logFetch' \in LogFetches
    BY <1>5, <1>20 DEF ReadLog
  <2> QED
    BY <1>1, <1>17, <1>20, <2>1 DEF ReadLog
<1>21. CASE LogArrives \/ LogFails
  <2>1. logs' \in [Pods -> Texts]
    BY <1>5, <1>6, <1>21 DEF LogArrives, LogFails
  <2> QED
    BY <1>1, <1>17, <1>21, <2>1 DEF LogArrives, LogFails
<1>22. CASE UNCHANGED jobsVars
  BY <1>1, <1>2, <1>22 DEF jobsVars, overviewVars, runVars, logVars
<1> QED
  BY <1>7, <1>8, <1>9, <1>11, <1>12, <1>13, <1>14, <1>15, <1>16, <1>18, <1>19, <1>20, <1>21,
     <1>22 DEF JobsNext

\* The dialog shows the failure of the run it asks about and of no other: a run
\* cancelled out of sight may fail while another CronJob's dialog is open (Run
\* job on a card resets the mutation before the dialog opens).
THEOREM DialogsShowTheirOwnError == JobsSpec => []ErrorIsOfTheDialog
<1>1. DialogInv => ErrorIsOfTheDialog
  BY DEF DialogInv
<1> QED
  BY <1>1, JobsStart, JobsKeepInv, PTL DEF JobsSpec

(***************************************************************************)
(* CopyToast: the confirmations and their timers.                          *)
(***************************************************************************)
\* A timer that is set was set with what it is to take away: what it has left
\* and that one's age make up the whole time.
TimersAreTheirOwn ==
    /\ \A t \in toastTimers : t + age[nothing] = VISIBLE_MS
    /\ \A b \in Buttons : buttonTimer[b] # nothing => buttonTimer[b] + age[b] = RESET_AFTER_MS

CopyInv ==
    /\ CopyTypeOK /\ age \in [Buttons \cup {nothing} -> 0 .. VISIBLE_MS]
    /\ TimersAreTheirOwn

\* The page opens with no toast and no timer.
LEMMA CopyStarts == CopyInit => CopyInv
<1> SUFFICES ASSUME CopyInit PROVE CopyInv
  OBVIOUS
<1>1. toast \in [source : Buttons \cup {nothing}, ok : BOOLEAN, open : BOOLEAN]
  BY DEF CopyInit, Unshown
<1>2. button \in [Buttons -> [mounted : BOOLEAN, state : {"idle", "copied", "failed"}]]
  BY DEF CopyInit
<1> QED
  BY <1>1, <1>2, CopyAssumption DEF CopyInit, CopyInv, CopyTypeOK, TimersAreTheirOwn

\* What a step does to the confirmations it takes away.
StaysStep ==
    /\ toast.open /\ ~toast'.open => age'[nothing] >= VISIBLE_MS
    /\ \A b \in Buttons : button[b].state # "idle" /\ button'[b].state = "idle"
          => ~button'[b].mounted \/ age'[b] >= RESET_AFTER_MS

\* A copy is done (Copied): it sets its timers anew, with what they take away.
LEMMA CopiedKeepsInv ==
    ASSUME CopyInv, NEW b \in Buttons \cup {nothing}, NEW ok \in BOOLEAN, Copied(b, ok)
    PROVE  CopyInv' /\ StaysStep
<1> USE CopyAssumption
<1>0. /\ age \in [Buttons \cup {nothing} -> 0 .. VISIBLE_MS] /\ copies \subseteq Buttons \cup {nothing}
      /\ button \in [Buttons -> [mounted : BOOLEAN, state : {"idle", "copied", "failed"}]]
      /\ buttonTimer \in [Buttons -> 1 .. RESET_AFTER_MS \cup {nothing}]
  BY DEF CopyInv, CopyTypeOK
<1>1. /\ toast' = [source |-> b, ok |-> ok, open |-> TRUE] /\ toastTimers' = {VISIBLE_MS}
      /\ copies' \subseteq Buttons \cup {nothing}
  BY <1>0 DEF Copied, showToast
<1>2. /\ toast' \in [source : Buttons \cup {nothing}, ok : BOOLEAN, open : BOOLEAN]
      /\ toast'.open /\ toastTimers' \subseteq 1 .. VISIBLE_MS
  BY <1>1
<1>3. CASE b = nothing
  <2>1. age' = [age EXCEPT ![nothing] = 0] /\ button' = button /\ buttonTimer' = buttonTimer
    BY <1>3 DEF Copied
  <2>2. /\ age' \in [Buttons \cup {nothing} -> 0 .. VISIBLE_MS] /\ age'[nothing] = 0
        /\ \A c \in Buttons : age'[c] = age[c]
    BY <1>0, <2>1
  <2>3. TimersAreTheirOwn'
    BY <1>1, <2>1, <2>2 DEF TimersAreTheirOwn, CopyInv
  <2> QED
    BY <1>0, <1>1, <1>2, <2>1, <2>2, <2>3 DEF CopyInv, CopyTypeOK, StaysStep
<1>4. CASE b \in Buttons
  <2>1. /\ age' = [age EXCEPT ![nothing] = 0, ![b] = 0]
        /\ button' = IF button[b].mounted
                     THEN [button EXCEPT ![b].state = IF ok THEN "copied" ELSE "failed"]
                     ELSE button
        /\ buttonTimer' = [buttonTimer EXCEPT ![b] = RESET_AFTER_MS]
    BY <1>4 DEF Copied
  <2>2. /\ age' \in [Buttons \cup {nothing} -> 0 .. VISIBLE_MS] /\ age'[nothing] = 0 /\ age'[b] = 0
        /\ \A c \in Buttons \ {b} : age'[c] = age[c]
    BY <1>0, <1>4, <2>1
  <2>3. /\ buttonTimer' \in [Buttons -> 1 .. RESET_AFTER_MS \cup {nothing}]
        /\ buttonTimer'[b] = RESET_AFTER_MS
        /\ \A c \in Buttons \ {b} : buttonTimer'[c] = buttonTimer[c]
    BY <1>0, <1>4, <2>1
  <2>4. /\ button' \in [Buttons -> [mounted : BOOLEAN, state : {"idle", "copied", "failed"}]]
        /\ \A c \in Buttons : button'[c].state \in {button[c].state, "copied", "failed"}
    BY <1>0, <1>4, <2>1
  <2>5. TimersAreTheirOwn'
    <3>1. \A c \in Buttons : buttonTimer'[c] # nothing => buttonTimer'[c] + age'[c] = RESET_AFTER_MS
      BY <2>2, <2>3 DEF TimersAreTheirOwn, CopyInv
    <3> QED
      BY <1>1, <2>2, <3>1 DEF TimersAreTheirOwn
  <2> QED
    BY <1>1, <1>2, <2>2, <2>3, <2>4, <2>5 DEF CopyInv, CopyTypeOK, StaysStep
<1> QED
  BY <1>3, <1>4

\* Time passes: a timer that fires has what it takes away at its full age.
LEMMA TimeKeepsInv ==
    ASSUME CopyInv, PassTime
    PROVE  CopyInv' /\ StaysStep
<1> USE CopyAssumption
<1>0. /\ age \in [Buttons \cup {nothing} -> 0 .. VISIBLE_MS] /\ copies \subseteq Buttons \cup {nothing}
      /\ button \in [Buttons -> [mounted : BOOLEAN, state : {"idle", "copied", "failed"}]]
      /\ buttonTimer \in [Buttons -> 1 .. RESET_AFTER_MS \cup {nothing}]
      /\ toast \in [source : Buttons \cup {nothing}, ok : BOOLEAN, open : BOOLEAN]
      /\ toastTimers \subseteq 1 .. VISIBLE_MS
  BY DEF CopyInv, CopyTypeOK
<1>1. /\ toastTimers' = {t - 1 : t \in toastTimers \ {1}}
      /\ toast' = IF 1 \in toastTimers THEN [toast EXCEPT !.open = FALSE] ELSE toast
      /\ buttonTimer' = [b \in Buttons |-> IF buttonTimer[b] \in {1, nothing} THEN nothing
                                           ELSE buttonTimer[b] - 1]
      /\ button' = [b \in Buttons |-> IF buttonTimer[b] = 1 THEN [button[b] EXCEPT !.state = "idle"]
                                      ELSE button[b]]
      /\ age' = [x \in DOMAIN age |-> IF age[x] < VISIBLE_MS THEN age[x] + 1 ELSE age[x]]
      /\ copies' = copies
  BY DEF PassTime
<1>2. /\ age' \in [Buttons \cup {nothing} -> 0 .. VISIBLE_MS]
      /\ \A x \in Buttons \cup {nothing} :
            /\ age[x] < VISIBLE_MS => age'[x] = age[x] + 1
            /\ age[x] = VISIBLE_MS => age'[x] = age[x]
  BY <1>0, <1>1
<1>3. \A t \in toastTimers : t \in 1 .. VISIBLE_MS /\ t + age[nothing] = VISIBLE_MS
  BY <1>0 DEF CopyInv, TimersAreTheirOwn
<1>4. \A b \in Buttons : buttonTimer[b] # nothing =>
         buttonTimer[b] \in 1 .. RESET_AFTER_MS /\ buttonTimer[b] + age[b] = RESET_AFTER_MS
  BY <1>0 DEF CopyInv, TimersAreTheirOwn
<1>5. /\ toastTimers' \subseteq 1 .. VISIBLE_MS
      /\ \A t \in toastTimers' : t + age'[nothing] = VISIBLE_MS
  <2> SUFFICES ASSUME NEW t \in toastTimers \ {1}
               PROVE  t - 1 \in 1 .. VISIBLE_MS /\ t - 1 + age'[nothing] = VISIBLE_MS
    BY <1>1
  <2>1. t \in 2 .. VISIBLE_MS /\ t + age[nothing] = VISIBLE_MS /\ age[nothing] \in 0 .. VISIBLE_MS
    BY <1>0, <1>3
  <2> QED
    BY <1>2, <2>1
<1>6. /\ buttonTimer' \in [Buttons -> 1 .. RESET_AFTER_MS \cup {nothing}]
      /\ \A b \in Buttons : buttonTimer'[b] # nothing => buttonTimer'[b] + age'[b] = RESET_AFTER_MS
  <2> SUFFICES ASSUME NEW b \in Buttons
               PROVE  /\ buttonTimer'[b] \in 1 .. RESET_AFTER_MS \cup {nothing}
                      /\ buttonTimer'[b] # nothing => buttonTimer'[b] + age'[b] = RESET_AFTER_MS
    BY <1>1
  <2>1. CASE buttonTimer[b] \in {1, nothing}
    BY <1>1, <2>1
  <2>2. CASE buttonTimer[b] \notin {1, nothing}
    <3>1. buttonTimer[b] \in 2 .. RESET_AFTER_MS /\ buttonTimer[b] + age[b] = RESET_AFTER_MS
          /\ age[b] \in 0 .. VISIBLE_MS
      BY <1>0, <1>4, <2>2
    <3>2. buttonTimer'[b] = buttonTimer[b] - 1 /\ age'[b] = age[b] + 1
      BY <1>1, <1>2, <2>2, <3>1
    <3> QED
      BY <3>1, <3>2
  <2> QED
    BY <2>1, <2>2
<1>7. /\ toast' \in [source : Buttons \cup {nothing}, ok : BOOLEAN, open : BOOLEAN]
      /\ button' \in [Buttons -> [mounted : BOOLEAN, state : {"idle", "copied", "failed"}]]
  <2>1. [toast EXCEPT !.open = FALSE] \in [source : Buttons \cup {nothing}, ok : BOOLEAN, open : BOOLEAN]
    BY <1>0
  <2>2. toast' \in [source : Buttons \cup {nothing}, ok : BOOLEAN, open : BOOLEAN]
    BY <1>0, <1>1, <2>1
  <2>3. \A b \in Buttons : [button[b] EXCEPT !.state = "idle"]
                             \in [mounted : BOOLEAN, state : {"idle", "copied", "failed"}]
    BY <1>0
  <2>4. button' \in [Buttons -> [mounted : BOOLEAN, state : {"idle", "copied", "failed"}]]
    BY <1>0, <1>1, <2>3
  <2> QED
    BY <2>2, <2>4
<1>8. toast.open /\ ~toast'.open => age'[nothing] >= VISIBLE_MS
  <2> SUFFICES ASSUME 1 \in toastTimers PROVE age'[nothing] >= VISIBLE_MS
    BY <1>1
  <2> QED
    BY <1>0, <1>2, <1>3
<1>9. \A b \in Buttons : button[b].state # "idle" /\ button'[b].state = "idle"
         => age'[b] >= RESET_AFTER_MS
  <2> SUFFICES ASSUME NEW b \in Buttons, buttonTimer[b] = 1 PROVE age'[b] >= RESET_AFTER_MS
    BY <1>1
  <2> QED
    BY <1>0, <1>2, <1>4
<1> QED
  BY <1>0, <1>1, <1>2, <1>5, <1>6, <1>7, <1>8, <1>9
     DEF CopyInv, CopyTypeOK, TimersAreTheirOwn, StaysStep

\* Buttons come and go and are pressed (PressCopy, UnmountButton, MountButton).
LEMMA ButtonsKeepInv ==
    ASSUME CopyInv,
           \/ \E b \in Buttons \cup {nothing} : PressCopy(b)
           \/ \E b \in Buttons : UnmountButton(b) \/ MountButton(b)
           \/ UNCHANGED copyVars
    PROVE  CopyInv' /\ StaysStep
<1> USE DEF CopyInv, CopyTypeOK, TimersAreTheirOwn, StaysStep
<1>1. CASE \E b \in Buttons \cup {nothing} : PressCopy(b)
  BY <1>1 DEF PressCopy
<1>2. ASSUME NEW b \in Buttons, UnmountButton(b) PROVE CopyInv' /\ StaysStep
  <2>1. /\ button' \in [Buttons -> [mounted : BOOLEAN, state : {"idle", "copied", "failed"}]]
        /\ ~button'[b].mounted
        /\ \A c \in Buttons \ {b} : button'[c] = button[c]
    BY <1>2 DEF UnmountButton
  <2>2. /\ buttonTimer' \in [Buttons -> 1 .. RESET_AFTER_MS \cup {nothing}]
        /\ \A c \in Buttons : buttonTimer'[c] \in {buttonTimer[c], nothing}
    BY <1>2 DEF UnmountButton
  <2>3. UNCHANGED <<toast, toastTimers, copies, age>>
    BY <1>2 DEF UnmountButton
  <2> QED
    BY <2>1, <2>2, <2>3
<1>3. ASSUME NEW b \in Buttons, MountButton(b) PROVE CopyInv' /\ StaysStep
  <2>1. /\ button' \in [Buttons -> [mounted : BOOLEAN, state : {"idle", "copied", "failed"}]]
        /\ \A c \in Buttons : button'[c].state = button[c].state
    BY <1>3 DEF MountButton
  <2>2. /\ buttonTimer' \in [Buttons -> 1 .. RESET_AFTER_MS \cup {nothing}]
        /\ \A c \in Buttons : buttonTimer'[c] \in {buttonTimer[c], nothing}
    BY <1>3 DEF MountButton
  <2>3. UNCHANGED <<toast, toastTimers, copies, age>>
    BY <1>3 DEF MountButton
  <2> QED
    BY <2>1, <2>2, <2>3
<1>4. CASE UNCHANGED copyVars
  BY <1>4 DEF copyVars
<1> QED
  BY <1>1, <1>2, <1>3, <1>4

LEMMA CopySteps == CopyInv /\ [CopyNext]_copyVars => CopyInv' /\ StaysStep
  BY CopiedKeepsInv, TimeKeepsInv, ButtonsKeepInv DEF CopyNext

\* A confirmation is on screen for its whole time, however many copies follow
\* one another (showToast clears the timer before it, and so does each button).
THEOREM ConfirmationsStay == CopySpec => ConfirmationStaysItsTime
<1>1. CopyInv /\ [CopyNext]_copyVars => [StaysStep]_copyVars
  BY CopySteps
<1>2. CopyInv /\ [CopyNext]_copyVars => CopyInv'
  BY CopySteps
<1> QED
  BY <1>1, <1>2, CopyStarts, PTL DEF CopySpec, ConfirmationStaysItsTime, StaysStep

(***************************************************************************)
(* LoginThrottle: how many passwords one window lets through.              *)
(***************************************************************************)
At(place) == {l \in Logins : at[l] = place}

\* Every guess is counted, about to be, or lost with a Redis call; and each
\* login on its way to the directory was let through below the limit or by
\* such a call.
ThrottleInv ==
    /\ ThrottleTypeOK
    /\ guesses <= failures + Cardinality(At("record")) + redisFailures
    /\ guesses + Cardinality(At("bind"))
          <= login_max_failures - 1 + Cardinality(Logins) + redisFailures

\* The requests under way are finitely many, wherever they are.
LEMMA Crowd ==
    ASSUME ThrottleAssumption
    PROVE  /\ Cardinality(Logins) \in Nat
           /\ \A S \in SUBSET Logins :
                IsFiniteSet(S) /\ Cardinality(S) \in Nat /\ Cardinality(S) <= Cardinality(Logins)
    BY FS_CardinalityType, FS_Subset DEF ThrottleAssumption

\* A request that moves leaves the crowd of one place and joins the other's.
LEMMA Moves ==
    ASSUME ThrottleAssumption, ThrottleTypeOK, NEW l \in Logins,
           NEW place \in {"idle", "bind", "record", "reset"}, Goto(l, place), at[l] # place,
           NEW other \in {"idle", "bind", "record", "reset"}
    PROVE  /\ Cardinality(At(other)') =
                 Cardinality(At(other)) + (IF other = place THEN 1 ELSE 0)
                                        - (IF other = at[l] THEN 1 ELSE 0)
           /\ at' \in [Logins -> {"idle", "bind", "record", "reset"}]
<1> USE DEF ThrottleTypeOK, Goto
<1>1. IsFiniteSet(At(other)) /\ Cardinality(At(other)) \in Nat
  BY Crowd DEF At
<1>2. at' \in [Logins -> {"idle", "bind", "record", "reset"}]
  OBVIOUS
<1>3. CASE other = place
  <2>1. At(other)' = At(other) \cup {l} /\ l \notin At(other)
    BY <1>3 DEF At
  <2>2. Cardinality(At(other) \cup {l}) = Cardinality(At(other)) + 1
    BY <1>1, <2>1, FS_AddElement
  <2>3. Cardinality(At(other)') = Cardinality(At(other)) + 1
    BY <2>1, <2>2
  <2>4. at[l] # other
    BY <1>3
  <2> QED BY <1>1, <1>2, <1>3, <2>3, <2>4
<1>4. CASE other = at[l]
  <2>1. At(other)' = At(other) \ {l} /\ l \in At(other)
    BY <1>4 DEF At
  <2>2. Cardinality(At(other) \ {l}) = Cardinality(At(other)) - 1
    BY <1>1, <2>1, FS_RemoveElement
  <2>3. Cardinality(At(other)') = Cardinality(At(other)) - 1
    BY <2>1, <2>2
  <2>4. other # place
    BY <1>4
  <2> QED BY <1>1, <1>2, <1>4, <2>3, <2>4
<1>5. CASE other # place /\ other # at[l]
  <2>1. At(other)' = At(other)
    BY <1>5 DEF At
  <2> QED BY <1>1, <1>2, <1>5, <2>1
<1> QED BY <1>3, <1>4, <1>5

\* Two crowds apart from each other are no more than all.
LEMMA Apart ==
    ASSUME ThrottleAssumption, NEW S \in SUBSET Logins, NEW T \in SUBSET Logins, S \cap T = {}
    PROVE  Cardinality(S) + Cardinality(T) <= Cardinality(Logins)
<1>1. IsFiniteSet(S) /\ IsFiniteSet(T) /\ Cardinality(S) \in Nat /\ Cardinality(T) \in Nat
  BY Crowd
<1>2. Cardinality(S \cup T) = Cardinality(S) + Cardinality(T) - Cardinality(S \cap T)
  BY <1>1, FS_Union
<1>3. Cardinality(S \cap T) = 0
  BY FS_EmptySet
<1>4. Cardinality(S \cup T) <= Cardinality(Logins)
  BY Crowd
<1> QED BY <1>1, <1>2, <1>3, <1>4

LEMMA ThrottleStarts == ThrottleAssumption /\ ThrottleInit => ThrottleInv
<1> SUFFICES ASSUME ThrottleAssumption, ThrottleInit PROVE ThrottleInv
  OBVIOUS
<1>1. At("bind") = {} /\ At("record") = {}
  BY DEF ThrottleInit, At
<1> QED BY <1>1, Crowd, FS_EmptySet DEF ThrottleInit, ThrottleInv, ThrottleTypeOK, ThrottleAssumption

LEMMA ThrottleSteps ==
    ThrottleAssumption /\ ThrottleInv /\ [ThrottleNext]_throttleVars => ThrottleInv'
<1> SUFFICES ASSUME ThrottleAssumption, ThrottleInv, [ThrottleNext]_throttleVars
             PROVE  ThrottleInv'
  OBVIOUS
<1> USE DEF ThrottleInv, ThrottleTypeOK
<1> DEFINE bind == Cardinality(At("bind"))  record == Cardinality(At("record"))
<1>1. /\ bind \in Nat /\ record \in Nat /\ Cardinality(Logins) \in Nat
      /\ bind + record <= Cardinality(Logins)
      /\ login_max_failures \in Nat \ {0} /\ MaxRedisFailures \in Nat
  <2>1. At("bind") \cap At("record") = {} /\ At("bind") \in SUBSET Logins /\ At("record") \in SUBSET Logins
    BY DEF At
  <2>2. bind + record <= Cardinality(Logins)
    BY <2>1, Apart
  <2>3. bind \in Nat /\ record \in Nat /\ Cardinality(Logins) \in Nat
    BY <2>1, Crowd
  <2> QED BY <2>2, <2>3 DEF ThrottleAssumption
<1>2. ASSUME NEW l \in Logins, Check(l) PROVE ThrottleInv'
  <2>1. bind' = bind + 1 /\ record' = record /\ at' \in [Logins -> {"idle", "bind", "record", "reset"}]
    BY <1>1, <1>2, Moves DEF Check
  <2>2. bind' + record' <= Cardinality(Logins)
    <3>1. At("bind")' \cap At("record")' = {} /\ At("bind")' \in SUBSET Logins /\ At("record")' \in SUBSET Logins
      BY DEF At
    <3>2. Cardinality(At("bind")') + Cardinality(At("record")') <= Cardinality(Logins)
      BY <3>1, Apart
    <3> QED BY <3>2
  <2> QED BY <1>1, <1>2, <2>1, <2>2 DEF Check, IsLocked
<1>3. ASSUME NEW l \in Logins, CheckFails(l) PROVE ThrottleInv'
  <2>1. bind' = bind + 1 /\ record' = record /\ at' \in [Logins -> {"idle", "bind", "record", "reset"}]
    BY <1>1, <1>3, Moves DEF CheckFails
  <2> QED BY <1>1, <1>3, <2>1 DEF CheckFails, RedisFails
<1>4. ASSUME NEW l \in Logins, WrongPassword(l) PROVE ThrottleInv'
  <2>1. bind' = bind - 1 /\ record' = record + 1 /\ at' \in [Logins -> {"idle", "bind", "record", "reset"}]
    BY <1>1, <1>4, Moves DEF WrongPassword
  <2> QED BY <1>1, <1>4, <2>1 DEF WrongPassword
<1>5. ASSUME NEW l \in Logins, RightPassword(l) \/ Unavailable(l) PROVE ThrottleInv'
  <2>1. bind' = bind - 1 /\ record' = record /\ at' \in [Logins -> {"idle", "bind", "record", "reset"}]
    BY <1>1, <1>5, Moves DEF RightPassword, Unavailable
  <2> QED BY <1>1, <1>5, <2>1 DEF RightPassword, Unavailable
<1>6. ASSUME NEW l \in Logins, RecordFailure(l) \/ RecordFails(l) PROVE ThrottleInv'
  <2>1. bind' = bind /\ record' = record - 1 /\ at' \in [Logins -> {"idle", "bind", "record", "reset"}]
    BY <1>1, <1>6, Moves DEF RecordFailure, RecordFails
  <2> QED BY <1>1, <1>6, <2>1 DEF RecordFailure, RecordFails, RedisFails
<1>7. ASSUME NEW l \in Logins, ResetCounter(l) \/ ResetFails(l) PROVE ThrottleInv'
  <2>1. bind' = bind /\ record' = record /\ at' \in [Logins -> {"idle", "bind", "record", "reset"}]
    BY <1>1, <1>7, Moves DEF ResetCounter, ResetFails
  <2> QED BY <1>1, <1>7, <2>1 DEF ResetCounter, ResetFails, RedisFails, Cleared
<1>8. ASSUME UNCHANGED at, Cleared, UNCHANGED redisFailures PROVE ThrottleInv'
  <2>1. bind' = bind /\ record' = record
    BY <1>8 DEF At
  <2> QED BY <1>1, <1>8, <2>1 DEF Cleared
<1>9. CASE UNCHANGED throttleVars
  <2>1. bind' = bind /\ record' = record
    BY <1>9 DEF At, throttleVars
  <2> QED BY <1>1, <1>9, <2>1 DEF throttleVars
<1> QED BY <1>2, <1>3, <1>4, <1>5, <1>6, <1>7, <1>8, <1>9 DEF ThrottleNext, WindowEnds

\* However many logins of a username overlap, within a window they try no more
\* passwords than the limit, the requests already past the check and the Redis
\* calls that failed account for (check and record_failure of LoginThrottle).
THEOREM GuessingIsBounded == ThrottleSpec => []GuessesAreBounded
<1>1. ThrottleInv => GuessesAreBounded
  <2> SUFFICES ASSUME ThrottleInv PROVE GuessesAreBounded
    OBVIOUS
  <2>1. Cardinality(At("bind")) \in Nat /\ Cardinality(Logins) \in Nat
    BY Crowd, ThrottleAssumption DEF At
  <2> QED BY <2>1, ThrottleAssumption
          DEF ThrottleInv, ThrottleTypeOK, GuessesAreBounded, ThrottleAssumption
<1> QED BY <1>1, ThrottleStarts, ThrottleSteps, ThrottleAssumption, PTL DEF ThrottleSpec

(***************************************************************************)
(* The pages together, as MCPages checks them: the part in use steps, the  *)
(* others stay, so each keeps the invariant proved of it alone.            *)
(***************************************************************************)
pagesVars == <<page, switchVars, jobsVars, eventsVars, sessionVars, copyVars, throttleVars>>

PagesInv ==
    /\ SwitchInv /\ SwitchTypeOK
    /\ DialogInv /\ JobsTypes
    /\ EventsInv
    /\ AuthInv /\ SessionTypes
    /\ CopyInv
    /\ ThrottleInv

LEMMA PagesStart == PagesInit => PagesInv
  BY SwitchStarts, SwitchTypesStart, JobsStart, JobsTypesStart, EventsStart, SessionStarts,
     SessionTypesStart, CopyStarts, ThrottleStarts, ThrottleAssumption
     DEF PagesInit, PagesInv

\* A step of the whole is a step of each part, or leaves it alone.
LEMMA PagesStepEach ==
    ASSUME [PagesNext]_pagesVars
    PROVE  /\ [SwitchNext]_switchVars /\ [JobsNext]_jobsVars /\ [EventsNext]_eventsVars
           /\ [SessionNext]_sessionVars /\ [CopyNext]_copyVars /\ [ThrottleNext]_throttleVars
  BY DEF PagesNext, pagesVars, Use, Freeze

LEMMA PagesStep == PagesInv /\ [PagesNext]_pagesVars => PagesInv'
<1> SUFFICES ASSUME PagesInv, [PagesNext]_pagesVars PROVE PagesInv'
  OBVIOUS
<1>1. /\ [SwitchNext]_switchVars /\ [JobsNext]_jobsVars /\ [EventsNext]_eventsVars
      /\ [SessionNext]_sessionVars /\ [CopyNext]_copyVars /\ [ThrottleNext]_throttleVars
  BY PagesStepEach
<1>2. SwitchInv' /\ SwitchTypeOK'
  BY <1>1, SwitchKeepsInv, SwitchTypesStep DEF PagesInv
<1>3. DialogInv' /\ JobsTypes'
  BY <1>1, JobsKeepInv, JobsTypesStep DEF PagesInv
<1>4. EventsInv'
  BY <1>1, EventsStep, EventsAssumption DEF PagesInv
<1>5. AuthInv' /\ SessionTypes'
  BY <1>1, SessionKeepsInv, SessionTypesStep DEF PagesInv
<1>6. CopyInv' /\ ThrottleInv'
  BY <1>1, CopySteps, ThrottleSteps, ThrottleAssumption DEF PagesInv
<1> QED
  BY <1>2, <1>3, <1>4, <1>5, <1>6 DEF PagesInv

\* Every part's state stays of its type, whichever page is in use: no row,
\* session, token, Job or timer beyond its bound, and every cached page of
\* events names places of the trail (the six parts MCPages runs).
THEOREM PagesAreTyped == PagesSpec => []PagesTypeOK
<1>1. PagesInv => PagesTypeOK
  <2> SUFFICES ASSUME PagesInv PROVE PagesTypeOK
    OBVIOUS
  <2>1. EventsTypeOK
    BY EventsAreTyped, EventsAssumption DEF PagesInv
  <2> QED
    BY <2>1 DEF PagesInv, PagesTypeOK, JobsTypes, SessionTypes, CopyInv, ThrottleInv
<1> QED
  BY <1>1, PagesStart, PagesStep, PTL DEF PagesSpec, pagesVars
=============================================================================
