------------------------- MODULE MaintenanceSwitch -------------------------
(***************************************************************************)
(* One server's maintenance switch (features/inventory/MaintenanceToggle   *)
(* .tsx) over the query cache: the row on screen, the poll that refreshes  *)
(* it, the writes the switch sends and what their answers do to the cache  *)
(* (features/inventory/hooks.ts, api/servers.ts); and the older copies of  *)
(* the rows that GET /servers/rows may answer with: the body in Redis and  *)
(* the query every caller of an API process shares (api/v1/servers.py,     *)
(* infrastructure/singleflight.py).                                        *)
(*                                                                         *)
(* The maintenance state is known by the number of the write that made it. *)
(* Answers arrive in any order, late, or not at all.                       *)
(***************************************************************************)
EXTENDS Integers, FiniteSets

CONSTANTS
    Admin,          \* the operator may change maintenance
    Reasons,        \* what may be typed into the card
    NoReason,       \* an empty reason box
    Processes,      \* the API processes a request may be sent to
    Idle,           \* no fetch of the rows, or no shared query, is under way
    Sent,           \* a request no process has begun to answer, a query not yet read
    NoCopy,         \* Redis holds no rows
    MaxVersion,     \* bound: writes the server applies
    MaxWrites,      \* bound: writes of this browser in flight together
    MaxLosses       \* bound: requests that fail

\* What a fetch may be is told apart; the row the page begins with is a write
\* of its own.
ASSUME SwitchAssumption ==
    /\ MaxVersion \in Nat \ {0} /\ MaxWrites \in Nat /\ MaxLosses \in Nat
    /\ Idle # Sent /\ {Idle, Sent} \cap Processes = {}
    /\ \A other \in {Idle, Sent, NoCopy} \cup Processes :
          /\ other \notin [version : Nat, on : BOOLEAN]
          /\ other \notin [rows : [version : Nat, on : BOOLEAN], stored : BOOLEAN]

VARIABLES
    server,         \* the stored state: [version, on]
    copy,           \* the rows Redis holds, NoCopy
    computing,      \* per process, the query its callers share: Idle, Sent, or the
                    \* rows it read and whether it has stored them, [rows, stored]
    row,            \* the row in the cache, of the same form
    rowsFailed,     \* the last fetch of the rows failed
    fetch,          \* Idle, Sent, the process whose query it awaits, or its answer
    writes,         \* the writes in flight: [id, enable, applied, cleared]
    observed,       \* the write the switch is waiting for or last heard of, 0 for none
    status,         \* of the mutation: "idle", "pending" or "error"
    card,           \* [asking, reason], and the write sent from it since it opened, 0 for none
    acknowledged,   \* the newest write whose answer left no older copy behind
    losses

rowCopies == <<copy, computing>>
switchVars == <<server, rowCopies, row, rowsFailed, fetch, writes, observed, status, card,
                acknowledged, losses>>

Closed == [asking |-> FALSE, reason |-> NoReason, write |-> 0]
NotApplied == [version |-> 0, on |-> FALSE]
Latest(m, n) == IF m > n THEN m ELSE n

----------------------------------------------------------------------------
(* The switch and its card *)

\* The bound on versions leaves one for every write that is sent.
VersionIsLeft ==
    server.version + Cardinality({w \in writes : w.applied = NotApplied}) < MaxVersion

FreeId == CHOOSE id \in 1 .. MaxWrites : \A w \in writes : w.id # id

\* The mutation observer follows the newest write only.
Mutate(enable) ==
    LET id == FreeId
    IN /\ Cardinality(writes) < MaxWrites /\ VersionIsLeft
       /\ writes' = writes \cup {[id |-> id, enable |-> enable, applied |-> NotApplied,
                                  cleared |-> FALSE]}
       /\ observed' = id
       /\ status' = "pending"

\* Mutant: the observer keeps following the write after a cancel.
ResetStatusOnly == status' = "idle" /\ UNCHANGED observed

\* toggle.reset(): the observer lets go of its write, which goes on.
Reset == observed' = 0 /\ status' = "idle"

\* Leaving maintenance is one click; entering it opens the card.
Press ==
    /\ Admin /\ ~rowsFailed /\ status # "pending"
    /\ IF row.on THEN Mutate(FALSE) /\ UNCHANGED card
       ELSE /\ card' = [card EXCEPT !.asking = TRUE]
            /\ UNCHANGED <<writes, observed, status>>
    /\ UNCHANGED <<server, rowCopies, row, rowsFailed, fetch, acknowledged, losses>>

EditReason(reason) ==
    /\ card.asking
    /\ card' = [card EXCEPT !.reason = reason]
    /\ UNCHANGED <<server, rowCopies, row, rowsFailed, fetch, writes, observed, status,
                   acknowledged, losses>>

Submit ==
    /\ card.asking /\ status # "pending"
    /\ Mutate(TRUE)
    /\ card' = [card EXCEPT !.write = observed']
    /\ UNCHANGED <<server, rowCopies, row, rowsFailed, fetch, acknowledged, losses>>

\* Cancel, Escape or a click beside the card.
Close ==
    /\ card.asking
    /\ card' = Closed
    /\ Reset
    /\ UNCHANGED <<server, rowCopies, row, rowsFailed, fetch, writes, acknowledged, losses>>

\* The row leaves the table (a filter, another page): its switch goes with it.
Gone == card' = Closed /\ Reset
Unmount ==
    /\ Gone
    /\ UNCHANGED <<server, rowCopies, row, rowsFailed, fetch, writes, acknowledged, losses>>

----------------------------------------------------------------------------
(* Writes *)

Apply(w) ==
    /\ w.applied = NotApplied /\ server.version < MaxVersion
    /\ server' = [version |-> server.version + 1, on |-> w.enable]
    /\ writes' = (writes \ {w}) \cup {[w EXCEPT !.applied = server']}
    /\ UNCHANGED <<rowCopies, row, rowsFailed, fetch, observed, status, card, acknowledged, losses>>

\* The handler then clears the rows in Redis (or fails to): the queries under
\* way may put older ones back.
ClearRows(w) ==
    /\ w.applied # NotApplied /\ ~w.cleared
    /\ copy' \in {copy, NoCopy}
    /\ writes' = (writes \ {w}) \cup {[w EXCEPT !.cleared = TRUE]}
    /\ UNCHANGED <<server, computing, row, rowsFailed, fetch, observed, status, card,
                   acknowledged, losses>>

\* Mutant: the refetch joins the fetch under way (cancelRefetch: false).
InvalidateJoins == fetch' = IF fetch = Idle THEN Sent ELSE fetch

\* Invalidating the rows cancels the fetch under way and starts another. What
\* the cancelled one asked for goes on in the backend.
InvalidateRows == fetch' = Sent

\* Neither Redis nor a shared query holds rows from before the version.
NoOlderRows(version) ==
    /\ copy # NoCopy => copy.version >= version
    /\ \A p \in Processes :
          computing[p] \notin {Idle, Sent} => computing[p].rows.version >= version

\* A success patches the row (which is data, whatever the last fetch was), then
\* refetches it; the card closes if its observer still follows this write.
Answer(w) ==
    /\ w.cleared
    /\ writes' = writes \ {w}
    /\ row' = w.applied /\ rowsFailed' = FALSE
    /\ acknowledged' = IF NoOlderRows(w.applied.version)
                       THEN Latest(acknowledged, w.applied.version) ELSE acknowledged
    /\ InvalidateRows
    /\ IF w.id = observed
       THEN Reset /\ card' = IF w.enable THEN Closed ELSE card
       ELSE UNCHANGED <<observed, status, card>>
    /\ UNCHANGED <<server, rowCopies, losses>>

\* The write fails, or its answer is lost; what its handler still does is then
\* an OtherWrite or a RowsExpire.
AnswerFails(w) ==
    /\ losses < MaxLosses /\ losses' = losses + 1
    /\ writes' = writes \ {w}
    /\ status' = IF w.id = observed THEN "error" ELSE status
    /\ UNCHANGED <<server, rowCopies, row, rowsFailed, fetch, observed, card, acknowledged>>

\* Another operator, a collector, an API caller.
OtherWrite(enable) ==
    /\ VersionIsLeft /\ server.version < MaxVersion
    /\ server' = [version |-> server.version + 1, on |-> enable]
    /\ UNCHANGED <<rowCopies, row, rowsFailed, fetch, writes, observed, status, card,
                   acknowledged, losses>>

----------------------------------------------------------------------------
(* The rows: polled every 30 s; a poll joins the fetch under way. *)

\* Mutant: polling stops after a failed fetch.
PollUnlessFailed ==
    /\ fetch = Idle /\ ~rowsFailed
    /\ fetch' = Sent
    /\ UNCHANGED <<server, rowCopies, row, rowsFailed, writes, observed, status, card,
                   acknowledged, losses>>

Poll ==
    /\ fetch = Idle
    /\ fetch' = Sent
    /\ UNCHANGED <<server, rowCopies, row, rowsFailed, writes, observed, status, card,
                   acknowledged, losses>>

RowsArrive ==
    /\ fetch \notin {Idle, Sent} \cup Processes
    /\ row' = fetch
    /\ rowsFailed' = FALSE
    /\ fetch' = Idle
    /\ UNCHANGED <<server, rowCopies, writes, observed, status, card, acknowledged, losses>>

\* The error takes the place of the table, open card and all.
FetchFails ==
    /\ losses < MaxLosses /\ losses' = losses + 1
    /\ rowsFailed' = TRUE
    /\ fetch' = Idle
    /\ Gone
    /\ UNCHANGED <<server, copy, row, writes, acknowledged>>

RowsFail == fetch # Idle /\ FetchFails /\ UNCHANGED computing

----------------------------------------------------------------------------
(* GET /servers/rows: the body in Redis, or the query of the process asked. *)

Unread == <<server, row, rowsFailed, writes, observed, status, card, acknowledged, losses>>

FromRedis ==
    /\ fetch = Sent /\ copy # NoCopy
    /\ fetch' = copy
    /\ UNCHANGED <<rowCopies, Unread>>

\* Redis holds no rows, or does not answer. A task that is done is joined too,
\* until its callback forgets it.
Coalesce(p) ==
    /\ fetch = Sent
    /\ computing' = IF computing[p] = Idle THEN [computing EXCEPT ![p] = Sent] ELSE computing
    /\ fetch' = IF computing'[p] # Sent /\ computing[p].stored THEN computing[p].rows ELSE p
    /\ UNCHANGED <<copy, Unread>>

\* Another browser's request, or a cancelled one of this browser's.
OtherReader(p) ==
    /\ computing[p] = Idle
    /\ computing' = [computing EXCEPT ![p] = Sent]
    /\ UNCHANGED <<copy, fetch, Unread>>

ReadRows(p) ==
    /\ computing[p] = Sent
    /\ computing' = [computing EXCEPT ![p] = [rows |-> server, stored |-> FALSE]]
    /\ UNCHANGED <<copy, fetch, Unread>>

\* The body goes to Redis (or fails to) before any caller has it.
StoreRows(p) ==
    /\ computing[p] \notin {Idle, Sent} /\ ~computing[p].stored
    /\ copy' \in {copy, computing[p].rows}
    /\ computing' = [computing EXCEPT ![p].stored = TRUE]
    /\ fetch' = IF fetch = p THEN computing[p].rows ELSE fetch
    /\ UNCHANGED Unread

Forget(p) ==
    /\ computing[p] \notin {Idle, Sent} /\ computing[p].stored
    /\ computing' = [computing EXCEPT ![p] = Idle]
    /\ UNCHANGED <<copy, fetch, Unread>>

\* Every caller of a query that fails gets its error.
QueryFails(p) ==
    /\ computing[p] = Sent
    /\ computing' = [computing EXCEPT ![p] = Idle]
    /\ IF fetch = p THEN FetchFails
       ELSE /\ losses < MaxLosses /\ losses' = losses + 1
            /\ UNCHANGED <<server, copy, row, rowsFailed, fetch, writes, observed, status,
                           card, acknowledged>>

\* After its 15 s, or cleared by another operation.
RowsExpire ==
    /\ copy # NoCopy
    /\ copy' = NoCopy
    /\ UNCHANGED <<computing, fetch, Unread>>

----------------------------------------------------------------------------
SwitchInit ==
    /\ server \in [version : {1}, on : BOOLEAN]
    /\ copy \in {server, NoCopy} /\ computing = [p \in Processes |-> Idle]
    /\ row = server /\ rowsFailed = FALSE
    /\ fetch = Idle /\ writes = {} /\ observed = 0 /\ status = "idle"
    /\ card = Closed /\ acknowledged = 1 /\ losses = 0

SwitchNext ==
    \/ Press \/ Submit \/ Close \/ Unmount
    \/ \E reason \in Reasons : EditReason(reason)
    \/ \E w \in writes : Apply(w) \/ ClearRows(w) \/ Answer(w) \/ AnswerFails(w)
    \/ \E enable \in BOOLEAN : OtherWrite(enable)
    \/ Poll \/ RowsArrive \/ RowsFail
    \/ FromRedis \/ RowsExpire
    \/ \E p \in Processes :
          Coalesce(p) \/ OtherReader(p) \/ ReadRows(p) \/ StoreRows(p) \/ Forget(p)
          \/ QueryFails(p)

Lookup == FromRedis \/ \E p \in Processes : Coalesce(p)

\* The poll's timer, the network, the handlers and the TTL; nothing makes an
\* operator click.
SwitchFairness ==
    /\ WF_switchVars(Poll) /\ WF_switchVars(Lookup) /\ WF_switchVars(RowsArrive)
    /\ \A p \in Processes :
          WF_switchVars(ReadRows(p)) /\ WF_switchVars(StoreRows(p)) /\ WF_switchVars(Forget(p))
    /\ WF_switchVars(RowsExpire)

SwitchSpec == SwitchInit /\ [][SwitchNext]_switchVars /\ SwitchFairness

----------------------------------------------------------------------------
(* Properties *)

Version == [version : 0 .. MaxVersion, on : BOOLEAN]
SwitchTypeOK ==
    /\ server \in Version /\ row \in Version /\ copy \in Version \cup {NoCopy}
    /\ computing \in [Processes -> {Idle, Sent} \cup [rows : Version, stored : BOOLEAN]]
    /\ rowsFailed \in BOOLEAN
    /\ fetch \in {Idle, Sent} \cup Processes \cup Version
    /\ \A w \in writes :
          w \in [id : 1 .. MaxWrites, enable : BOOLEAN, applied : Version, cleared : BOOLEAN]
    /\ observed \in 0 .. MaxWrites
    /\ status \in {"idle", "pending", "error"}
    /\ card \in [asking : BOOLEAN, reason : Reasons \cup {NoReason}, write : 0 .. MaxWrites]
    /\ acknowledged \in 0 .. MaxVersion
    /\ losses \in 0 .. MaxLosses

\* Once every request is answered and the last fetch of the rows succeeded,
\* the row is at least as new as every write of this browser that was answered
\* when neither Redis nor a shared query held older rows any more: an answer
\* read before the write cannot put the old state back, in whatever order the
\* answers come (useToggleMaintenanceMutation patches, then refetches). Where
\* older rows were still held, the refetch itself may be answered with them.
SettledRowIsCurrent ==
    fetch = Idle /\ ~rowsFailed => row.version >= acknowledged

\* An answer closes the card only if its write was sent from the card as it is
\* now open: the late answer of a write the operator gave up on neither closes
\* the card opened since nor loses the reason typed into it (close resets the
\* mutation before the card can be opened again).
LateAnswerLeavesTheCard ==
    [][\A w \in writes : Answer(w) /\ card' # card => w.id = card.write]_switchVars

\* The row comes to show what the server holds, whoever wrote last and however
\* many requests failed before: the poll goes on after a failure (the bounds
\* make every writer stop).
RowCatchesUp == <>[](row = server)
=============================================================================
