----------------------------- MODULE EventsView -----------------------------
(***************************************************************************)
(* The Events page (features/events/): filters kept in the URL, the three  *)
(* text fields debounced, the query parameters made of them, the cached    *)
(* keyset pages of each set of parameters, and the pager that walks them   *)
(* while the trail grows and is pruned (application/services/audit_service *)
(* .py, infrastructure/mongodb/audit_event_repository.py).                 *)
(*                                                                         *)
(* An event is known by its place in the order the trail is listed in, by  *)
(* (created_at, _id). Its stamp is taken before it is inserted and its id  *)
(* is random: of one minute events take their places in any order, and one *)
(* inserted late lands below events that are listed already. A custom date *)
(* is a minute, or text that is none.                                      *)
(***************************************************************************)
EXTENDS Integers, SequencesExt, FiniteSetsExt

CONSTANTS
    Kinds,          \* what an event may be: [server, event_type, actor_id]
    Legacy,         \* event types of old documents to today's (the backend's table)
    Names,          \* of servers; what is typed as a server name
    StartNaming,    \* the servers' names as the page is entered
    Dates,          \* what is typed as a bound: a minute or BadDate
    BadDate,
    Renamed,        \* event types of old bookmarks to today's (the page's table)
    Span,           \* the length of each preset range, in minutes
    Absent,         \* an empty field, a parameter not sent, an answer not there, no name
    PAGE_SIZE,
    Retention,      \* events older than this many minutes are pruned
    StartTrails,    \* the trail as the page is entered
    StartFilters,   \* the URLs the page is entered with
    Places,         \* bound: where an event may stand in the trail
    MaxMinute,      \* bound: of the clock
    MaxIndex,       \* bound: of the pager, which failed loads move too
    MaxEdits        \* bound: changes of a filter and of a server's name, together

\* An event of the trail, stamped and not yet inserted, stored, or pruned.
Recorded == [kind : Kinds, name : Names \cup {Absent}, minute : Nat,
             state : {"pending", "stored", "pruned"}]
Servers == {k.server : k \in Kinds}

ASSUME EventsAssumption ==
    /\ PAGE_SIZE \in Nat \ {0} /\ MaxMinute \in Nat \ {0} /\ Retention \in Nat
    /\ IsFiniteSet(Places) /\ \A i \in Places : i \in Nat
    /\ \A t \in StartTrails : DOMAIN t \subseteq Places /\ t \in [DOMAIN t -> Recorded]
    /\ StartNaming \in [Servers -> Names \cup {Absent}]
    /\ Absent \notin Nat

VARIABLES
    trail,          \* the events stamped so far, by their places
    naming,         \* each server's name, Absent once it is pruned
    minute,         \* the clock
    filters,        \* the URL: [server, event_type, actor_id, range, from, to]
    settled,        \* the three text fields after their debounce
    params,         \* the parameters of the query, the list's key
    cache,          \* what is cached for the parameters used: [pages, failed, fetch,
                    \* read], the last the pages a fetch under way ends with so far
    index,          \* the pager's page, from 0
    awaiting,       \* the page an unanswered Next leads to, Absent
    edits

trailVars == <<trail, naming, minute>>
eventsVars == <<trailVars, filters, settled, params, cache, index, awaiting, edits>>

----------------------------------------------------------------------------
(* Parameters and pages *)

normalizeEventType(type) == IF type \in DOMAIN Renamed THEN Renamed[type] ELSE type
parseIsraelInput(date) == IF date = BadDate THEN Absent ELSE date

\* A preset counts back from the minute it is computed in; a custom bound that
\* does not parse is left out.
filtersToParams(f, text, now) ==
    [server_name |-> text.server,
     event_type |-> normalizeEventType(f.event_type),
     actor_id |-> f.actor_id,
     since |-> IF f.range \in DOMAIN Span THEN now - Span[f.range]
               ELSE IF f.range = "custom" THEN parseIsraelInput(text.from) ELSE Absent,
     until |-> IF f.range = "custom" THEN parseIsraelInput(text.to) ELSE Absent]

decodeLegacyEventType(type) == IF type \in DOMAIN Legacy THEN Legacy[type] ELSE type

\* A name is the server's today or the one its event was recorded with.
IsNamed(e, name) == name \in {naming[e.kind.server], e.name}

\* The stored events that match, whatever page they are on.
Matching(p) ==
    {i \in DOMAIN trail :
        LET e == trail[i]
        IN /\ e.state = "stored"
           /\ p.event_type # Absent =>
                 decodeLegacyEventType(e.kind.event_type) = decodeLegacyEventType(p.event_type)
           /\ p.actor_id \in {Absent, e.kind.actor_id}
           /\ p.server_name # Absent => IsNamed(e, p.server_name)
           /\ p.since # Absent => e.minute >= p.since
           /\ p.until # Absent => e.minute < p.until}

\* A page is the PAGE_SIZE newest of the events left, listed newest first; "of"
\* is history: all that matched as it was read.
Newest(rest, all) ==
    [items |-> {i \in rest : Cardinality({j \in rest : j >= i}) <= PAGE_SIZE},
     has_more |-> Cardinality(rest) > PAGE_SIZE,
     of |-> all]

\* Mutant: the page begins with the cursor's event.
PageFrom(p, cursor) ==
    Newest({i \in Matching(p) : cursor # Absent => i <= cursor}, Matching(p))

\* What is left begins below the cursor's (created_at, _id).
PageAfter(p, cursor) ==
    Newest({i \in Matching(p) : cursor # Absent => i < cursor}, Matching(p))

\* The cursor of the next page is the last page's last event; the first has none.
NextCursor(pages) == IF pages = <<>> THEN Absent ELSE Min(Last(pages).items)
hasNextPage(pages) == pages # <<>> /\ Last(pages).has_more

Unloaded == [pages |-> <<>>, failed |-> FALSE, fetch |-> "none", read |-> <<>>]
Loading == [Unloaded EXCEPT !.fetch = "load"]
Data == cache[params]

----------------------------------------------------------------------------
(* Filters *)

\* Mutant: the list is not keyed by its parameters.
ShowInPlace(f, text) ==
    LET p == filtersToParams(f, text, minute)
    IN /\ filters' = f /\ settled' = text /\ params' = p
       /\ cache' = [q \in DOMAIN cache \cup {p} |->
                       IF q \in DOMAIN cache THEN cache[q] ELSE Loading]
       /\ UNCHANGED <<index, awaiting>>

\* The parameters are computed again when a filter they depend on changes, and
\* only then; with new ones the list is mounted anew, and its pages fetched.
Show(f, text) ==
    LET p == filtersToParams(f, text, minute)
        changed == f # [filters EXCEPT !.server = f.server, !.from = f.from, !.to = f.to]
                   \/ text # settled
    IN /\ filters' = f /\ settled' = text
       /\ params' = IF changed THEN p ELSE params
       /\ IF params' = params THEN UNCHANGED <<cache, index, awaiting>>
          ELSE /\ cache' = [q \in DOMAIN cache \cup {p} |->
                              IF q \in DOMAIN cache THEN cache[q] ELSE Loading]
               /\ index' = 0 /\ awaiting' = Absent

setParam(key, value) ==
    /\ edits < MaxEdits /\ edits' = edits + 1
    /\ Show([filters EXCEPT ![key] = value], settled)
    /\ UNCHANGED trailVars

SetFilter ==
    \/ \E k \in Kinds :
          \/ setParam("event_type", normalizeEventType(k.event_type))
          \/ setParam("actor_id", k.actor_id)
    \/ \E key \in {"event_type", "actor_id"} : setParam(key, Absent)
    \/ \E range \in DOMAIN Span \cup {"custom", Absent} : setParam("range", range)
    \/ \E name \in Names \cup {Absent} : setParam("server", name)
    \/ /\ filters.range = "custom"
       /\ \E date \in Dates \cup {Absent}, key \in {"from", "to"} : setParam(key, date)

\* 300 ms after the last keystroke of a field.
Settle(key) ==
    /\ settled[key] # filters[key]
    /\ Show(filters, [settled EXCEPT ![key] = filters[key]])
    /\ UNCHANGED <<trailVars, edits>>

----------------------------------------------------------------------------
(* The pages of the query *)

\* Next's page number was fixed when it was clicked.
Arrives(p) == IF p = params /\ awaiting # Absent THEN index' = awaiting /\ awaiting' = Absent
                                                 ELSE UNCHANGED <<index, awaiting>>

\* A page is read where the last one read ends. Next reads one more; a load as
\* many as there were, one request after another and each of the trail as it is
\* then, and puts them in place together. The queries of parameters no longer
\* shown go on too.
PageArrives(p) ==
    LET pages == Append(cache[p].read, PageAfter(p, NextCursor(cache[p].read)))
    IN /\ cache[p].fetch # "none"
       /\ IF Len(pages) >= Len(cache[p].pages) \/ ~hasNextPage(pages)
          THEN cache' = [cache EXCEPT ![p] = [Unloaded EXCEPT !.pages = pages]] /\ Arrives(p)
          ELSE cache' = [cache EXCEPT ![p].read = pages] /\ UNCHANGED <<index, awaiting>>
       /\ UNCHANGED <<trailVars, filters, settled, params, edits>>

\* The error takes the place of list and pager; Next moves on all the same.
PagesFail(p) ==
    /\ cache[p].fetch # "none"
    /\ cache' = [cache EXCEPT ![p] = [Unloaded EXCEPT !.pages = cache[p].pages, !.failed = TRUE]]
    /\ Arrives(p)
    /\ UNCHANGED <<trailVars, filters, settled, params, edits>>

\* A stale or failed query is read again when the network is back.
Reconnect ==
    /\ Data.fetch = "none"
    /\ cache' = [cache EXCEPT ![params].fetch = "load"]
    /\ UNCHANGED <<trailVars, filters, settled, params, index, awaiting, edits>>

isFetchingNextPage == Data.fetch = "next"
PagerIsShown == Data.pages # <<>> /\ ~Data.failed /\ Data.pages[1].items # {}
Listed == Data.pages[IF index < Len(Data.pages) THEN index + 1 ELSE 1].items

Previous ==
    /\ PagerIsShown /\ index > 0
    /\ index' = index - 1
    /\ UNCHANGED <<trailVars, filters, settled, params, cache, awaiting, edits>>

\* A page in the cache is shown; another is fetched first, in place of a refetch.
Next ==
    /\ PagerIsShown /\ index < MaxIndex
    /\ ~isFetchingNextPage
    /\ IF index + 1 < Len(Data.pages)
       THEN index' = index + 1 /\ UNCHANGED <<cache, awaiting>>
       ELSE /\ hasNextPage(Data.pages)
            /\ cache' = [cache EXCEPT ![params] = [@ EXCEPT !.fetch = "next", !.read = Data.pages]]
            /\ awaiting' = index + 1 /\ UNCHANGED index
    /\ UNCHANGED <<trailVars, filters, settled, params, edits>>

----------------------------------------------------------------------------
(* The trail *)

pageVars == <<filters, settled, params, cache, index, awaiting, edits>>

\* A writer makes its event: the stamp puts it above the events of earlier
\* minutes, the random id anywhere among those of its own.
Stamp(kind, i) ==
    /\ kind.event_type \notin DOMAIN Legacy
    /\ i \in Places \ DOMAIN trail
    /\ \A j \in DOMAIN trail : trail[j].minute < minute => j < i
    /\ LET e == [kind |-> kind, name |-> naming[kind.server], minute |-> minute,
                 state |-> "pending"]
       IN trail' = [j \in DOMAIN trail \cup {i} |-> IF j = i THEN e ELSE trail[j]]
    /\ UNCHANGED <<naming, minute, pageVars>>

\* The inserts of several writers come through in any order.
Insert(i) ==
    /\ trail[i].state = "pending"
    /\ trail' = [trail EXCEPT ![i].state = "stored"]
    /\ UNCHANGED <<naming, minute, pageVars>>

\* Batch by batch, and within a batch in any order.
PruneEvents(i) ==
    /\ trail[i].state = "stored" /\ trail[i].minute < minute - Retention
    /\ trail' = [trail EXCEPT ![i].state = "pruned"]
    /\ UNCHANGED <<naming, minute, pageVars>>

RenameServer(s, name) ==
    /\ naming[s] \notin {Absent, name}
    /\ edits < MaxEdits /\ edits' = edits + 1
    /\ naming' = [naming EXCEPT ![s] = name]
    /\ UNCHANGED <<trail, minute, filters, settled, params, cache, index, awaiting>>

\* The clock alone changes no parameter.
Tick ==
    /\ minute < MaxMinute
    /\ minute' = minute + 1
    /\ UNCHANGED <<trail, naming, pageVars>>

----------------------------------------------------------------------------
EventsInit ==
    /\ trail \in StartTrails
    /\ naming = StartNaming /\ minute = 1
    /\ filters \in StartFilters
    /\ settled = [server |-> filters.server, from |-> filters.from, to |-> filters.to]
    /\ params = filtersToParams(filters, settled, minute)
    /\ cache = [p \in {params} |-> Loading]
    /\ index = 0 /\ awaiting = Absent
    /\ edits = 0

EventsNext ==
    \/ SetFilter \/ \E key \in {"server", "from", "to"} : Settle(key)
    \/ \E p \in DOMAIN cache : PageArrives(p) \/ PagesFail(p)
    \/ Reconnect \/ Previous \/ Next
    \/ \E kind \in Kinds, i \in Places : Stamp(kind, i)
    \/ \E i \in DOMAIN trail : Insert(i) \/ PruneEvents(i)
    \/ \E s \in Servers, name \in Names \cup {Absent} : RenameServer(s, name)
    \/ Tick

EventsSpec == EventsInit /\ [][EventsNext]_eventsVars

----------------------------------------------------------------------------
(* Properties *)

EventPages == [items : SUBSET Places, has_more : BOOLEAN, of : SUBSET Places]

EventsTypeOK ==
    /\ DOMAIN trail \subseteq Places /\ trail \in [DOMAIN trail -> Recorded]
    /\ naming \in [Servers -> Names \cup {Absent}]
    /\ minute \in 0 .. MaxMinute
    /\ params \in DOMAIN cache
    /\ \A p \in DOMAIN cache : \A n \in 1 .. Len(cache[p].pages) :
          cache[p].pages[n] \in EventPages
    /\ index \in Nat /\ awaiting \in Nat \cup {Absent}

\* Walking the pages repeats nothing, and skips nothing that was there, and
\* matched, as each page of the walk was read: whatever was inserted, pruned or
\* renamed between two of them and whichever was read again (the next page
\* starts after the last event of the last page, not at a position). An event
\* inserted late, below pages that were read already, is not promised.
Walked(pages) == UNION {pages[n].items : n \in DOMAIN pages}
NoEventSkipped ==
    \A p \in DOMAIN cache :
        LET pages == cache[p].pages
        IN /\ \A m, n \in DOMAIN pages : m < n =>
                 \A i \in pages[m].items, j \in pages[n].items : i > j
           /\ \A i \in Places :
                 /\ pages # <<>> /\ \A n \in DOMAIN pages : i \in pages[n].of
                 /\ hasNextPage(pages) => NextCursor(pages) <= i
                 => i \in Walked(pages)

\* The list under "Page n" is the query's n-th page: the pager runs past the
\* pages, to show the first one instead, only by a Next whose load failed or a
\* reading again that found fewer pages. Another filter's late answer never
\* moves it (the list is keyed by its parameters).
PastThePages ==
    \/ index > 0 /\ index >= Len(Data.pages)
    \/ awaiting # Absent /\ awaiting > Len(Data.pages)
PagerNamesItsPage ==
    [][PastThePages' /\ ~PastThePages =>
        \/ PagesFail(params)
        \/ params' = params /\ Len(Data.pages') < Len(Data.pages)]_eventsVars
=============================================================================
