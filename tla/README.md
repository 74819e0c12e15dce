# A verification project for server-scan

server-scan keeps an inventory of bare-metal servers in MongoDB. Collectors (CronJobs, one per
vendor manager) read hardware facts and verdicts into it, OpenShift membership jobs say which
cluster holds which machine, operators open maintenance windows, cluster installers reserve
machines, and a nightly job deletes what nobody lists any more. A FastAPI process, in several pods,
serves the inventory to a browser through a Redis cache; the browser application keeps caches, URLs
and timers of its own.

There is no lock anywhere in the system: not in MongoDB, not in Redis, not between the pods. Each
writer reads a document, computes a new one in memory and writes it back; what keeps them from
undoing each other is a compare-and-set on `revision`, a unique index, and the discipline of carrying
forward the parts a writer does not own. That, and the caches in front of it, is the part of the
system a unit test reaches least, and it is where this project starts. The second half is the browser
application: pages whose state is a URL, a query cache and a few timers, all moved by answers that
come late, out of order or never.

Everything here is TLA+ written from the source. `PROJECT.json` maps each definition to the lines
it models; paths below are relative to `src/backend/app/` unless they start with `src/`.

## 1. Inventory of the system

| Component | State | Operations | Hard behaviour |
|---|---|---|---|
| Server documents (`infrastructure/mongodb/server_repository.py`) | one document per machine, with `revision`, `listed_at`, unique `(vendor, serial_normalized)` | `upsert`, `upsert_with_revision_check`, `touch_seen`, `backfill_listed_at`, `delete`, queries | many writers, no lock; two writes that do not bump the revision |
| Install lock (`application/services/reservation_service.py`) | `reservation` sub-document: holder, run, created, expires | reserve, release, forced release, expiry by the clock | two runs claiming at once; a collector rewriting the document in between |
| Maintenance (`maintenance_service.py`) | `maintenance` sub-document | enable, disable | same |
| Ingest (`application/services/ingest.py`) | hardware facts, verdicts, `listed_at` | correlate, build, insert / replace / touch, retry, audit the transitions | stale reads, duplicate inserts, bounded retries, events of a lost attempt |
| BMC reset (`bmc_reset_service.py`, `ingest._ResetWorker`) | a queue and a budget per run, a cooldown in the audit trail | queue, reset, record | check-then-act on the trail, overlapping runs |
| OpenShift membership (`openshift_membership.py`) | `openshift` sub-document, which job reported it | resolve records to servers, write, free what is no longer reported | ambiguous and unreadable records must protect servers from being freed |
| Prune (`src/tools/prune_servers.py`) | none of its own | backfill, choose candidates, guard, record, delete, sweep Redis | decides on a stale read, deletes by id alone |
| Detail cache (`api/v1/servers.py:get_server`) | two Redis entries per server: the revision pointer, the body under its revision | read, fill, invalidate, expire | a fill racing an invalidation; the pointer outliving a write |
| List cache (`list_servers`, `server_rows`) and coalescing (`infrastructure/singleflight.py`) | one Redis entry per query; a table of running tasks per process | look up, join or start, fill, clear, drain | cancellation, failure, shutdown, a fill racing a clear |
| Available-server draw (`available_servers.py`) | none | filter, draw by tier, live recheck through ingest, requalify | a candidate changing during its recheck |
| Health and classification engines (`domain/services/`) | rules and policies | pure functions | precedence, defaults, unreadable facts |
| Paging (`list_page`, `cursor.py`, `search.py`) | a cursor the client holds | next page | keys that change between two pages; nullable sort fields |
| Audit trail (`audit_service.py`, `src/tools/prune_events.py`) | append-only events with retention | record, page, delete old | recording after the write it describes |
| Bootstrap (`bootstrap.py`) | default rules and policies | seed, resync | several pods starting at once |
| Login (`auth_service.py`, `login_throttle.py`) | a counter per account in Redis | check, bind to LDAP, record failure | check-then-act around a slow bind |
| Job trigger (`infrastructure/jobs/kubernetes.py`) | Jobs in Kubernetes | list, create | two triggers at once |
| Servers page (`InventoryPage.tsx`, `rows.ts`, `ClusterSidebar.tsx`) | the URL, the debounced search, the menus, the fetched rows | filter, search, tick, sort, page, export, clear | clicks before a render; counts, chips, pages and export that must agree |
| Sites page (`SitesOverviewPage.tsx`, `api/v1/sites.py`) | the backend's copy of the statistics, the answer on screen | fetch, expire, follow a count | two definitions of "unassigned" on the two ends of a link |
| Maintenance switch (`MaintenanceToggle.tsx`, `inventory/hooks.ts`) | the row in the cache, a mutation, a card | press, submit, cancel, poll, patch, invalidate | late answers, failed polls, cancelled writes |
| Jobs page (`JobsPage.tsx`) | overview, dialog, mutation, log pane | poll, run, cancel, read the log | an answer for a dialog that is gone; a Job created beside another |
| Events page (`EventsPage.tsx`, `EventList.tsx`) | filters in the URL, loaded keyset pages, the pager's index | filter, next, previous, reread | pages of a trail that grows and is pruned meanwhile |
| Session and navigation (`useAuth.ts`, `client.ts`, `AppLayout.tsx`, `router.tsx`, `TokenSection.tsx`) | the cookie, `/auth/me` as last read, the token cache | log in, log out, expire, refuse, visit | late 401s; a cache that outlives its user |
| Copying (`CopyButton.tsx`, `toast.ts`) | one toast, one state per button, their timers | copy, unmount, time out | overlapping timers |
| Vendor collectors, server detail tabs, rules pages, deployment | - | I/O and rendering | not modelled, see section 8 |

**Interactions.** The collection is shared by every component of the first seven rows, and the API
reads it through the two caches, and the browser reads the API through its query cache. The
maintenance and reservation endpoints write, record their audit events, delete the detail pointer,
clear the list entries and then answer; `reclassify` and `health/recalculate` write, delete
the detail pointer, record and answer, and leave the list entries to expire. Collectors write and
invalidate nothing. The available-server draw runs ingest in the API process, deletes the pointers of
the machines it rechecked and clears the list entries. Prune deletes a document and then sweeps its keys. The audit trail is written by all of them
after the fact, and read back by the BMC reset's cooldown.

What makes each component correct:

* *Documents and writers.* No writer changes a part it does not own; one revision never stands
  for two contents; an audit event says what its write really replaced; every deletion is on record.
* *Install lock.* One run holds a machine until the expiry it was told, whoever else writes.
* *Ingest.* One document per machine; the loop ends.
* *Membership.* A machine is freed only by the job that claimed it and only if that job has seen
  enough to know; a contested claim does not flap. (planned)
* *Prune.* What is listed is not deleted; an untrusted collector protects its machines. (first half
  here, second half planned)
* *Caches.* What is served was stored; an invalidation that met no fill is final; staleness ends;
  one computation per process; nobody is cancelled by someone else.
* *Servers and Sites pages.* A number beside a filter or on a card is what clicking it lists; whatever
  hides a row is on screen as a chip; the pages add up to the export; no click is lost.
* *Switch, Jobs, Events, session, copying.* A late answer or timer undoes nothing newer; polled
  views catch up; no event that was there to be read falls between two pages.
* *Login throttle.* One window lets through a bounded number of guesses.
* *Draw, engines, server paging, bootstrap.* Planned, see section 9.

## 2. Modules

| Module | Models | Proofs / runs |
|---|---|---|
| `InventoryStore` | the `servers` collection and every writer of it | `MCLock`, `MCWriters`, the proof modules below |
| `InstallLock` | what ADR-0035 promises of the install lock, without documents or requests | refined by `InventoryStore` (`ImplementsInstallLock`) |
| `DetailCache` | `GET /servers/{id}` behind Redis, for one server | `MCDetail`, `DetailCacheProofs` |
| `ListCache` | `GET /servers` behind Redis and `singleflight`, for one query | `MCList`, `ListCacheProofs` |
| `InventoryStoreProofs` | types of `InventoryStore`, and which kind of work can be where (`PcInv`) | tlapm |
| `InventoryStoreSafety` | why the writers do not undo each other; extends the module above | tlapm |
| `LockAndAuditProofs` | the install lock (`GrantHeld`, the refinement of `InstallLock`); what a refused caller wrote, and what a deletion leaves on record | tlapm |
| `DetailCacheProofs`, `ListCacheProofs` | types and safety of the two caches | tlapm |
| `FleetRows` | what the browser does with the rows: search, filters, counts, order, pages, CSV (operators) | `MCInventory`, `InventoryProofs` |
| `InventoryView` | the Servers page; extends `FleetRows` | `MCInventory`, `InventoryProofs` |
| `SitesView` | the Sites page and `GET /sites`; extends `InventoryView`, whose lists its links open | `MCInventory`, `InventoryProofs` |
| `MaintenanceSwitch` | one row's switch, its writes and the polled rows | `MCPages`, `PagesProofs` |
| `JobsView` | the Jobs page and the Jobs behind it | `MCPages`, `PagesProofs` |
| `EventsView` | the Events page over the audit trail | `MCPages`, `EventsProofs` |
| `Session` | who is signed in, as browser and backend know it; routes; the token section | `MCPages`, `MCTokenUser`, `PagesProofs` |
| `CopyToast` | copy buttons, the toast, their timers | `MCPages`, `PagesProofs` |
| `LoginThrottle` | the failed-login counter around the LDAP bind | `MCPages`, `PagesProofs` |
| `InventoryProofs` | the Servers and Sites pages: lemmas about the operators of `FleetRows`, and every safety property of the `inventory` run | tlapm |
| `EventsProofs` | the Events page: what loads and the pager cannot do | tlapm |
| `PagesProofs` | late answers of the switch, sessions, the Jobs dialog, the toast, the throttle, and the types of all the pages together; extends the module above | tlapm |

### InventoryStore

A behaviour starts from a small collection and a set of `Requests`, each given one of `Jobs`: a
reservation, a release, a maintenance call, a reclassification, one membership value, one
collector's record of one machine, or a prune pass looking at one candidate. Every `await` of the
code is a step boundary, so a request is a little program whose counter is `pc[r]`:

    by id      start --GetById--> decide --Reserve/Release/Enable/...--> write --Replace--> record* --> done
                                    \--> answer at once                    \--ReplaceMiss--> missed --ReadAfterMiss--> ...
    ingest     start --IngestBuild--> write --Insert | Replace | TouchSeen--> record* --> done
                 ^--------------------- IngestRetry (bounded) ----'
    prune      start --PruneBackfill--> decide --PruneDecide--> record --> delete --PruneDelete--> done

* `GetById` is `_get_or_404`; `snap[r]` is the document in the handler's hands from then on.
* `Reserve`, `Release`, `Enable`, `Disable`, `Reclassify`, `Recalculate`, `WriteMembership` are the
  handlers between the read and the write: conditions and early answers first, then `draft[r]`, the
  document `model_copy` builds. `Bump` is the revision bump every full write makes.
* `Replace` / `ReplaceMiss` is `upsert_with_revision_check`: replace where `_id` and `revision` match,
  or find out afterwards, in a second read (`ReadAfterMiss`), whether the document is gone or moved.
* `Insert` is `upsert` under the unique index; `TouchSeen` is the `$set` that moves no revision;
  `PruneBackfill` the `update_many` that moves none either.
* `RecordEvent` is one `audit.record` call. It comes after the write, as in the code, except for
  prune, which records first.
* A prune pass takes the time once (`asof`), stamps what has no `listed_at` with it and chooses by the
  strict cutoff counted from it (`Stale`), so it never deletes a document it stamped itself.
* `Crash` stops a request anywhere (pod death, database error). `Tick` moves the clock.

Data is abstracted to what a property can tell apart: names, facts and verdicts are members of a
small set `Values`, a machine stands for `(vendor, serial_normalized)`, the clock counts ticks.

### DetailCache

Readers go through `get_server` one Redis or MongoDB call at a time (`GetPointer`, `GetPayload`,
`Load`, `SetPointer`, `SetPayload`). A document is its revision and its "last seen" stamp, because
`InventoryStore` shows that the revision stands for the rest (`RevisionVersionsContent`). Writers
come in four kinds: an *operator* writes and deletes the pointer; a *collector* writes and deletes
nothing; a *touch* changes the stamp only; a *prune* deletes the document and sweeps both entries
key by key. Entries expire at any moment; any Redis call may fail, which the client turns into
a miss or into nothing (`RedisFails`).

### ListCache

One cache key, several API pods, each with its `_inflight` table. A reader that misses Redis joins the
task its pod has in flight or starts one (`Coalesce`); the task queries, fills Redis and ends; its done
callback (`Cleanup`) takes it out of the table one turn of the event loop later. Readers may give up,
queries may fail, a pod may drain. A page is the version of the data it was computed from.

### The browser application

All of these modules take a request apart into being sent, being served and being answered, so that
answers overtake each other and get lost; nothing orders them but what the code waits for. React
Query's rules are modelled where the code relies on them: a poll joins the fetch under way, an
invalidation cancels it and starts another, a mutation observer follows the newest mutation only, and
`reset` lets go of it without recalling it.

* `FleetRows` has no state. A row is a record of what the filters and counts look at; a search is one
  of the kinds `parseSearch` tells apart (`plain`, `exact`, `regex`, `bad_regex`); what contains what is
  given by `Within` and `RegexHits`, collation by `Collation`. Filtering is in two steps, the places of
  the rows that are kept (`Kept`) and the rows there in their order (`RowsAt`), so that counts can be
  compared as sets of places.
* `InventoryView`: `url` is the live URL, `shown` the one React rendered last; `updateFilters` starts
  from the first, everything on screen from the second. `SearchSettles` is the debounce.
* `SitesView`: statistics are a function of the documents they were counted over, so a cached answer is
  kept as those documents. The two ends of a link read a document differently, and both readings are
  there: `Bucket` is where the count puts a stored value (a retired one and a missing one in the
  catch-all), `RowOf` what a row decodes it to (a missing one to the default, the retired severity `INFO`
  to `HEALTHY`), and `Decodes` whether a row can be made at all: `ServerRow` refuses a value of no enum,
  and one refused row fails the whole of `GET /servers/rows`. `Today` is what the enums hold.
* `MaintenanceSwitch`: the maintenance state is the number of the write that made it. `Answer` patches
  the row, invalidates it and closes the card if its observer still follows that write. Behind the fetch
  is `GET /servers/rows` with its two older copies: the body in Redis (`copy`, answered by `FromRedis`) and
  the query an API process shares among its callers (`computing`: `Coalesce` joins or starts it, `ReadRows`,
  `StoreRows`, `Forget`; `OtherReader` starts one for somebody else, or for a request the browser has
  cancelled). A write's handler clears Redis after writing (`ClearRows`, which may fail); a query that
  read before the write stores its rows after that all the same.
* `JobsView`: `CheckJobs` and `CreateJob` are the two Kubernetes calls of `run`; the schedule may start a
  Job between them, so two may run at once. A POST the page hears no more of goes on and may create its
  Job later (`StartedElsewhere`, which is also another operator's).
* `EventsView`: an event is known by its place in the order `(created_at, _id)` the trail is listed and
  cut in. A writer stamps it (`Stamp`: above earlier minutes, anywhere among those of its own, as ids are
  random) and inserts it later (`Insert`, in any order), so an event may come to stand below events that
  are listed already. `Matching` is the repository's query: the time range, the actor, event types of old
  documents under today's names, and a server by its name today or the one recorded (`RenameServer`
  changes the first). A page is the `PAGE_SIZE` newest that match below the cursor. A load of several
  pages asks for one after another (`PageArrives`), each of the trail as it is by then, and puts them in
  place together, as an infinite query does; `Next` and a load cut each other short.
* `Session`: a session is numbered by the cookie that carries it; `told` is the newest the browser was
  told of.
* `CopyToast`: every timer that is set, cleared and fired, with a clock.
* `LoginThrottle`: `check`, bind, `record_failure` or `reset`, an `await` apart, any Redis call failing
  before or after it took effect, the window ending at any moment.

## 3. Runs

| Run | Checks | Shows |
|---|---|---|
| `lock` | `TypeOK`, `GrantHeld`, `RefusedWroteNothing`, `ImplementsInstallLock` | the lock is exclusive and lasts as long as its taker was told, against releases, forced releases, collectors, prune and hand-edited locks; a refused caller wrote nothing; the collection refines `InstallLock` |
| `writers` | `NoLostUpdate`, `RevisionVersionsContent`, `EventsTellTheTruth`, `DeletionsAudited` | three writers drawn from all thirteen kinds of work never undo one another |
| `writers_end` | `EveryRequestEnds` | no handler or retry loop spins or waits for ever |
| `prune_race` | `StillListedNeverPruned` (violated) | see findings |
| `detail` | `TypeOK`, `CachedWasStored`, `QuietInvalidation`, `CacheConverges` | what the detail cache does guarantee |
| `list` | `TypeOK`, `RunningIsRegistered`, `CancellationIsOwn`, `QuietClear` | one computation per process, private cancellation, final clears |
| `list_live` | `WaitersAnswered`, `TableForgets`, `ListConverges` | every waiter is answered, failures are not remembered, staleness ends |
| `list_clear` | `CorrectOnceAnswered` (violated) | see findings |
| `inventory` | `PagesTypeOK`, `CountsSayWhatTickingDoes`, `ChipsExplainTheView`, `PagesMakeTheExport`, `CurrentLinksListTheirCount`, `SiteCardsAddUp`, `ClearShowsTheFleet`, `NoClickIsLost`, `ViewSettles` | the Servers page does what its numbers, chips, pages and URL say, and the Sites page's links with it |
| `pages` | `PagesTypeOK`, `SettledRowIsCurrent`, `ErrorIsOfTheDialog`, `NoEventSkipped`, `SettledMeIsCurrent`, `GuessesAreBounded`, `LateAnswerLeavesTheCard`, `PagerNamesItsPage`, `ConfirmationStaysItsTime`, `RowCatchesUp`, `JobsPageCatchesUp` | late, lost and overtaking answers, and rows the backend copied before a write, leave every other page consistent, and the polled ones catch up |
| `sites_retired` | `LinksListTheirCount` (violated) | see findings |
| `token_of_user` | `TokenIsTheSignedInUsers` (violated) | see findings |

**Bounds, and why they are enough.**

* *Three requests* on one machine. A lost update takes two; the third is what comes between a
  miss and a retry, or a second claimant after a release. Each request draws its job freely, so all
  combinations of three kinds of work are covered.
* *One machine.* Documents of different machines share nothing but the id space and the index;
  `Ids` has room for the ids that racing inserts draw, so a duplicate insert happens.
* *Clock 0..2 (0..1 in `writers` and `writers_end`), lifetimes 1 and 2, prune age 0.* Enough for a lock
  to expire while another request is between its read and its write, and for a document to become stale
  and be listed again. `prune_race` has prune age 1: what it deletes was listed at 0 and older than the
  cutoff when the pass began at 2.
* *Initial collections*: nothing stored; a current document; a document that predates `listed_at`
  and `legacy` fields, with a lock without expiry, or with an open window and a cluster.
* `MaxAttempts` is 3 as in the code, 2 in the liveness run. `MaxCrashes` is 0 in `lock`, `writers` and
  `prune_race`: `Crash` changes nothing but its request's program counter, which no other request reads,
  so what the others and the clock do after it they also do while that request merely takes no step. It
  is 1 in `writers_end`, whose property is about requests that must go on; the theorems hold for any
  number of crashes.
* *Detail*: two readers and two writers, revisions up to 3. A stale fill takes one reader and one
  writer; the second of each gives fills of two different revisions side by side and an invalidation
  during another writer's write.
* *List*: three readers in two pods, so two share a table and one does not; three tasks, so that a
  new one can start while an old one is awaited; two versions after the initial one. The liveness run
  keeps two readers in one pod.

* *Servers page*: one fleet of five servers that has every case the operators tell apart (two servers of
  one name, a hosted and a UPI cluster, an install in progress, a donor, an unassigned server, unread
  fields); two clicks from three starting URLs (the bare page, a link of the Sites page, an old bookmark
  past the last page), since a lost click takes two. Page size 2, so the fleet has three pages.
* *Sites page*: four fleets over two configured sites, one of which has nothing in it: documents of
  today; documents that lack a section; one of a site no longer configured; and one with the retired
  severity and one with a retired lifecycle state.
* *The other pages* (`MCPages`): six parts, one of which is in use per behaviour (`page`) while the others
  stay as they began, because they share nothing; so each is explored as if it had a run of its own
  (about 590 000 states in all, three and a half minutes). *Switch*: two writes in flight, three versions,
  one lost request, one API process: an answer overtaken by another takes two writes, a third party's
  write comes between, and one shared query and one body in Redis are enough to answer a refetch with
  rows from before a write. A second process adds another such query, which the proof of
  `SettledRowIsCurrent` covers. `VersionIsLeft` keeps a version for every write sent, so that the bound
  never stops a handler half way. *Jobs*: two CronJobs (a dialog can be open for either), two Jobs of
  one of them, one run in flight (`MaxPosts`): a second Job beside it comes from the schedule between
  check and creation. Two runs in flight are covered by the proof of `ErrorIsOfTheDialog`. *Events*: pages
  of one event over three places: a trail that begins with an old document of a legacy event type, without
  a name, and a newer event, and has room for one more, between them or above both; two minutes, with the
  oldest pruned after one; one change of a filter or a name (`MaxEdits`), from an old bookmark whose event
  type is renamed as it is read and whose date is none; the pager goes to the second page (`MaxIndex`).
  *Session*: one user, three cookies. *Copying*: one button and the prompt chips, which share the toast.
  *Throttle*: two logins, a limit of two, one failed Redis call.
* `token_of_user`: two users, two log-ins, one token each.

Symmetry is used for requests, tasks, writers and fresh ids in the safety runs only.

**Deadlock.** `MCLock`, `MCWriters` and `MCList` switch the check off: once every request is done and
the clock is at its bound, or every pod is shut down, there is nothing left to do. That requests do
not wait for each other is what `EveryRequestEnds` and `WaitersAnswered` say. `MCInventory` and `MCPages`
switch it off as well: the bounds on clicks and writes end a behaviour, and nothing makes a user act. The detail runs leave
it on: readers never stop.

## 4. Fairness

* `InventoryStore!FairSpec`: weak fairness of each request's steps. asyncio resumes a coroutine
  whose database call has answered, and every driver call has a timeout, after which it raises,
  which is `Crash`. Nothing is assumed about the clock or about crashes.
* `DetailCache`: weak fairness of each reader's steps and of the expiry of each entry: every `SET`
  carries `ex=`. Not of writers: nobody is obliged to write, nor a process to survive until its
  invalidation. Not of `StartRead`.
* `ListCache`: weak fairness of each reader's and each task's steps and of expiry. Giving up,
  draining and writing are never forced.
* `InventoryView`: weak fairness of `Render` (React commits a scheduled render) and of `SearchSettles` (its
  `setTimeout` fires). Not of any click.
* `MaintenanceSwitch`: weak fairness of `Poll` (`refetchInterval`), of a request being looked up (`Lookup`: in
  Redis or in the process it reached) and of the answer's arrival; for each process, of its query reading,
  storing and being forgotten, as tasks and done callbacks of an event loop are; and of `RowsExpire`,
  because the body is stored with a TTL. Nothing obliges a write to be answered, a clear to succeed or
  other readers to come; requests may fail, and the poll goes on. Expiry needs the next lookup to find
  Redis empty: a poll comes every 30 s and the body lives for 15 s.
* `JobsView`: weak fairness of `PollOverview`; strong fairness of `ReadOverview` and `OverviewArrives`,
  because every fetch may fail (`OverviewFails` is unbounded): what is assumed is that of polls repeated
  for ever not all fail. Nobody is obliged to run or finish a Job.
* `TokenIsTheSignedInUsers` is an invariant, and its run only adds which user takes which turn.

## 5. Findings

Each is a disagreement between what the code does and what its documentation says, with a run that
exhibits it.

1. **A server that has just been listed again can be pruned.** `prune` reads its candidates once, and
   `_delete_one` deletes by `_id` alone: a server that was older than the cutoff as the pass began, and
   that a collector lists again before its turn, is deleted. ADR-0037 says a host still listed "is never pruned". Run
   `prune_race`.
2. **The list can be stale after an operator's write returned.** A page queried before the write is
   stored after the clear. ADR-0028 says the filter "is correct the instant a write returns". Run
   `list_clear`. In the browser, the refetch after the operator's own click can be answered with such a
   page, which puts the old state back on the row until a later poll (`MaintenanceSwitch`; `RowCatchesUp`
   shows that it does not stay).
3. **A count on the Unassigned card can list fewer servers than it says.** `_pivot` counts a server whose
   site is no longer configured as unassigned; the list the link opens filters by the stored site,
   which still names the retired one. `SitesOverviewPage.tsx` says of such links that "3 critical" goes
   to those 3. Run `sites_retired`; `CurrentLinksListTheirCount` shows that count
   and list agree over documents of configured sites and today's values.
4. **The next user of a tab is shown the previous user's token.** The token's query key names no user and
   logging out clears nothing but `/auth/me`; within `staleTime` (30 s) it is not even fetched again.
   `TokenSection.tsx` calls it "the signed-in user's one personal API token". Run `token_of_user`.

2 is bounded by the TTL: `ListConverges` shows that staleness ends, `QuietClear` says exactly when a
clear is final.

Four more statements of the documentation are written down as definitions but have no run of their own;
the first three are weaker forms of what a run does check:

* `DetailCache!NextReadSeesWrite` (`_invalidate_detail_cache`: "so the next read sees the new revision")
  and `OldEntryNeverRead` (`keys.py`: the old entry "is simply never read again") hold only up to the
  entry's lifetime: a fill that straddles a write puts the old pointer back, and collectors leave the
  pointer in place. `QuietInvalidation` and `CacheConverges` say what does hold.
* `ListCache!DedupesOverlapOnly`: a caller scheduled between a task's end and its done callback is handed
  the finished task. `TableForgets` says how long that can last.
* `InventoryStore!ReclaimExtends` (ADR-0035: a repeat claim "extends its own lock"): a repeat with a smaller
  `ttl_seconds` shortens it, as `reserve` stores `now + ttl` whatever the live expiry.

Two disagreements of the same kind as 3 need a document with a value its enum no longer has, and are in the
model (`MCInventory`'s fourth fleet) without a run of their own, because `CurrentLinksListTheirCount` names
their absence as its condition:

* A stored `INFO` is counted as unknown (`sites.py:141-144`), while its row decodes to `HEALTHY`
  (`health.py:19`, `schemas.py:315`), so the unknown count's link does not list it.
* A retired lifecycle state is counted as available (`sites.py:215-218`). `models/openshift.py:31` and
  ADR-0024 say that it decodes as `AVAILABLE`; `Server` does that, but `ServerRow` has no such validator and
  raises, which fails `GET /servers/rows` for the whole fleet.

Two smaller remarks: `AppNav.tsx:46` documents a link as current when `pathname === to`, the code uses
`startsWith`; and a failed "end maintenance" click leaves its error unseen until the row's card is opened.

## 6. What is proved

Every theorem below holds for every value of the constants that satisfies the module's named
assumption (`StoreAssumption`, `DetailAssumption`, `ListAssumption`, `SwitchAssumption`, `SessionAssumption`,
`JobsAssumption`, `EventsAssumption`, `CopyAssumption`, `ThrottleAssumption`, `ViewAssumption`,
`SitesAssumption`): any number of requests, readers, tasks, pods, sessions, CronJobs, buttons
and logins, any fleet, trail, filters and page size, any bound on the clock, the revisions and the
crashes. Every safety property a passing run checks is a theorem. The assumptions say
no more than what the code enforces at its boundary: jobs are well formed, `holder` of a claim and
`actor` of a window are not empty, lifetimes are positive, the starting collection satisfies the
unique index, and the sentinels (`None`, `NoDoc`, `NoEntry`, `Null`, `Absent`) are not values. Of a fleet
they say only that it is a list, of a link that the router gives each URL parameter a value.

| Theorem | Statement |
|---|---|
| `InventoryStoreProofs!TypeCorrect` | `Spec => []TypeOK` (with `PcInv` on the way) |
| `InventoryStoreSafety!NoUpdateIsLost` | `Spec => NoLostUpdate` |
| `InventoryStoreSafety!RevisionIsContent` | `Spec => RevisionVersionsContent` |
| `InventoryStoreSafety!EventsAreTrue` | `Spec => EventsTellTheTruth` |
| `LockAndAuditProofs!GrantIsHeld` | `Spec => []GrantHeld` |
| `LockAndAuditProofs!StoreImplementsLock` | `Spec => ImplementsInstallLock` |
| `LockAndAuditProofs!RefusalsAreClean` | `Spec => []RefusedWroteNothing` |
| `LockAndAuditProofs!NothingVanishesSilently` | `Spec => DeletionsAudited` |
| `DetailCacheProofs!DetailTypes` | `Spec => []TypeOK` |
| `DetailCacheProofs!CachedIsStored` | `Spec => []CachedWasStored` |
| `DetailCacheProofs!InvalidationIsFinal` | `Spec => []QuietInvalidation` |
| `ListCacheProofs!ListTypes` | `Spec => []TypeOK` |
| `ListCacheProofs!OneComputation` | `Spec => []RunningIsRegistered` |
| `ListCacheProofs!CancellationIsPrivate` | `Spec => []CancellationIsOwn` |
| `ListCacheProofs!ClearIsFinal` | `Spec => []QuietClear` |
| `PagesProofs!SettledRowIsNew` | `SwitchSpec => []SettledRowIsCurrent` |
| `PagesProofs!LateAnswersLeaveTheCard` | `SwitchSpec => LateAnswerLeavesTheCard` |
| `PagesProofs!SettledMeIsNew` | `SessionSpec => []SettledMeIsCurrent` |
| `PagesProofs!DialogsShowTheirOwnError` | `JobsSpec => []ErrorIsOfTheDialog` |
| `PagesProofs!GuessingIsBounded` | `ThrottleSpec => []GuessesAreBounded` |
| `PagesProofs!ConfirmationsStay` | `CopySpec => ConfirmationStaysItsTime` |
| `PagesProofs!PagesAreTyped` | `PagesSpec => []PagesTypeOK` (of `MCPages`) |
| `EventsProofs!NothingSkipped` | `EventsSpec => []NoEventSkipped` |
| `EventsProofs!PagerIsNamed` | `EventsSpec => PagerNamesItsPage` |
| `InventoryProofs!PagesTyped` | `PagesSpec => []PagesTypeOK` (of `MCInventory`) |
| `InventoryProofs!CountsAreTrue` | `PagesSpec => []CountsSayWhatTickingDoes` |
| `InventoryProofs!ChipsAreComplete` | `PagesSpec => []ChipsExplainTheView` |
| `InventoryProofs!PagesAreTheExport` | `PagesSpec => []PagesMakeTheExport` |
| `InventoryProofs!LinksAreTrue` | `PagesSpec => []CurrentLinksListTheirCount` |
| `InventoryProofs!SiteCardsSum` | `PagesSpec => []SiteCardsAddUp` |
| `InventoryProofs!ClearLeavesNothing` | `PagesSpec => ClearShowsTheFleet` |
| `InventoryProofs!ClicksAreKept` | `PagesSpec => NoClickIsLost` |

**The collection.** None of the properties is inductive. A compare-and-set only compares revisions,
so the argument needs that an equal revision means an equal content *for everybody holding a
snapshot*, now and at any later write. `Core` is the conjunction that carries it:

* `PcInv`: which kind of work can be at which program point, and with what in its hands. A prune
  pass never reaches `write`; only ingest writes without having read.
* `IdInv`: an id is drawn once. An inserter's id is in nobody else's hands before the insert. Without
  it a document could be deleted and re-created under an id another writer still holds with an old
  revision, and its compare-and-set would match.
* `SnapInv`: a snapshot's revision is not ahead of the store's, and where they are equal the contents
  are. `touch_seen` and `backfill_listed_at` preserve it only because they leave the content alone.
* `DraftInv`: a draft differs from the snapshot it was built from only in the part its operation
  owns (`Derived`), and a claim it makes was free, or its own, when it was decided. That the decision
  still holds at the write follows from `SnapInv` and from time only making locks end.
* `CommitInv`: a request that has written never writes again.

`CoreNext` proves the step, one lemma per shape of step (`QuietStep`, `ReadStep`, `DraftStep`,
`BuildStep`, `ReplaceStep`, `InsertStep`, `AnswerStep`), and the three action properties follow from
`ReplaceFacts`, `InsertFacts` and `StampFacts`, which say what each kind of write does to a document.

**The lock.** `GrantHeld` adds to `Core` that every granted lock is *honoured* in the stored document
until it ends or is superseded (`Honoured`); `Superseded` only refers to committed drafts, which
`CommitInv` freezes. The refinement adds `FreshInv` (what is inserted carries no lock) and maps each
write to `Take`, `Drop`, `Appear`, `Vanish` or a stutter.

**The trail.** `TrailInv` says what each request may still tell the audit trail (`Due`: a request
that wrote owes only events of writes, one that did not only refusals and prunings), that a request
that may still write has recorded nothing, and that a prune pass reaches `delete` only over its event.

**The caches.** For the detail cache the invariant is that the pointer, every body, and every reader
on its way to fill the cache hold a document that was stored, and that no older one than `settled` is
in any of those places. For the list cache it says, in addition, who is in which process's table:
a table names a task that was started there (`TableInv`), and what a reader awaits is registered in
its own pod for as long as it runs (`JoinInv`).

**The switch.** `acknowledged` is the newest write of this browser whose answer came when neither Redis
nor a shared query held rows from before it (`NoOlderRows`): the browser cannot tell, and where they do
hold such rows its refetch may be answered with them, so nothing is promised of that write (finding 2).
`SwitchInv`: what was acknowledged is no newer than the server (`KnownIsPast`); what Redis holds, a shared
query has read or the fetch was answered with is as new as every acknowledged write
(`CopiesAreCurrent`: it holds when a write is acknowledged, because an answer starts the fetch anew, and is
kept because whatever is stored or answered later comes from the server as it is or from one of the
others); and the write the observer follows is the one sent from the card as it is open now
(`FollowedIsTheCards`), because `close` resets the mutation. Numbers of writes in flight are reused, so
the proof needs that there is always a free one (`FreeNumber`, by counting).

**The pages.** `AuthInv`: nothing is in flight with a cookie the browser does not have yet, and a running
`/auth/me` was sent after whatever the browser was told (`CookiesArePast`). `DialogInv`: the run the
mutation follows is of the dialog that is open, if one is (`FollowsTheDialog`). `ThrottleInv`: every guess is
counted, about to be, or lost with a Redis call; and every login on its way to the directory was let
through below the limit or by such a call. The second needs the first at the check, and the fact that
logins at the bind and logins about to count are disjoint crowds of `Logins` (`Apart`). `CopyInv`: at most
one timer will close the toast, and it has the toast's remaining time, the same for each button
(`TimersAreTheirOwn`), because a new confirmation clears the timer before it. The pages share nothing,
so `PagesAreTyped` puts the invariants side by side: a step moves one part and freezes the others.

**The Events page.** What makes the pager safe is that a cursor is an event and not a position. A page
remembers the events that matched as it was read (`of`, a history variable). `CacheOfWalks` says of the
cached pages, and of those a load has read so far, that they are a *walk* (`IsWalk`): each page is below
the one before it, and an event that matched as *every* page of it was read, and that the walk has come
to (`ReadThrough`), is in it. That is a statement about the pages alone, so nothing that happens to the
trail, be it a late insert, a pruning or a rename, disturbs it; only a page that is read can, and the page after
a walk's last event extends it (`WalkGrows`, from `PageIsNewest`, which counts ranks to say what a page
holds). It is not inductive without two facts about the loads: pages read so far have a next one, or the
load would have ended, and a `Next` starts from the pages there are. `AwaitsNext` (the pager waits for
nothing but the page `Next` asked for) gives `PagerIsNamed`. An event inserted late, below pages that were
read already, matched when none of those pages was read: the walk passes it over, and the theorem says
nothing of it.

**The Servers and Sites pages.** Hardly anything is an induction over behaviours here; `ViewInv` (types,
and the text in the box can settle) and `SitesInv` (the link last followed is one of a slice of the
fleet it was counted over) suffice. What has to be shown is about the operators:

* `Ranks`, `RowsAtPlaces`, `CountedAtPlaces`: the rows at some places are as many as the places, in one
  piece, and what is counted among them is counted among the places. So a number beside an option is
  the cardinality of a set of places.
* `KeptByOthers`, `OthersAreTheSame`: a list's own filter narrows what the others keep, and what the
  others keep does not depend on it. `CountsAreTrue` is then a disjoint union.
* `NothingFilters`: blank filters keep every row; chips and Clear both end there.
* `EachControl`: every click is one patch of the live URL in the places one click may change, a page, or
  the sidebar. It carries both the types and `ClicksAreKept`.
* `LinkKeepsItsSlice`: over documents none of which holds a retired value, the filters a link puts on
  keep the rows of its slice, because there `Bucket` and `Decoded` agree; finding 3 and the two
  disagreements after it are the hypothesis it cannot do without.
* `NumbersAddUp` and `LaidEndToEnd` are about folds of the community modules. The sum over a set and the
  concatenation of a list are recursive functions, chosen by their equation: a closed form (the rows in
  any of the slices; the rows up to the end of a page) satisfies it, so the chosen function does, and
  the two are equal since no least argument tells them apart (`WFMin` on the natural numbers).

## 7. What is only model-checked

Every invariant and every action property of the passing runs is proved. What stays with TLC:

* Liveness (`EveryRequestEnds`, `CacheConverges`, `WaitersAnswered`, `TableForgets`,
  `ListConverges`, `ViewSettles`, `RowCatchesUp`, `JobsPageCatchesUp`): fairness and ENABLED are beyond
  the prover.
* The violated properties of section 5: their runs are the evidence.

## 8. Abstractions, and what is not modelled

* Ingest finds its document by machine. Correlation by BMC host and by name stub, and the partial
  reads whose fields are carried forward, are planned.
* The prune pass's trust, totals and fraction guards are one arbitrary refusal.
* A membership job is one value written to one server; resolution and freeing are planned.
* Redis entries of different keys are independent; a SCAN and its DELs are separate steps where two
  keys of one server matter (`SweepKey`), one step where there is a single key (`ClearList`).
* Vendor collectors translate payloads and talk to networks; they enter as the values a record
  carries. Deployment manifests, seed and load-test tools are not behaviour.
* Of the browser application, layout, wording and the tabs of one server are not modelled: they render one
  query's answer. The History tab reads one page of 200 events per type and does not page.
* The order in which the sidebar lists its names is left out (the entries are a set).
* The audit trail: writers' clocks agree to the minute the model counts in (a stamp is the time of its
  writing, no writer's clock runs behind another's); the lookup of a name among the servers and the page
  query after it are one step; the renaming of legacy event types in old documents as a process starts is
  left out, because old and new names match the same queries before and after it.
* The prune pass that only reports (neither `--apply` nor `prune_enabled`) writes nothing and is left out.
* `GET /servers/rows` answers 304 when the browser has the same body; the browser shows the same rows.
* Sorting is by `Collation`, a rank of each text that occurs, not by comparing characters.
* Login: role lookup, the group cache and the audit event of an outcome; on the Jobs side, the audit
  event of a run and the ownership checks of a log request.
* The vendored `redoc.standalone.js` is third-party code.
* Components marked `not_modelled` or `partly` in `PROJECT.json` say what is missing.

## 9. Plan

1. `Membership`: `reconcile` of several clusters' jobs - resolution by agent, hostname and serial,
   protected candidates, contested claims, freeing - on the collection of `InventoryStore`.
   Properties: a machine is freed only by its claimant and only when not seen nor protected; a
   contested machine does not flap; dry runs write nothing.
2. `IngestCorrelation`: vendor serial, then BMC host, then name stub; duplicate inserts; partial
   reads. Properties: one document per machine, a stub is adopted once, an unread field keeps its value.
3. `AvailableDraw`: what a caller is handed qualified at its recheck; reservation of a drawn machine
   composes with `InstallLock`.
4. `BmcReset`: budget, queue, cooldown over the audit trail, two overlapping runs.
5. `PruneGuards`: which collectors must have reported, fraction and totals limits.
6. `KeysetPaging`: no row twice, no unchanged row missed, under concurrent writes.
7. `HealthEngine`, `Classification`: pure functions against reference definitions.
8. `Bootstrap`, audit retention on the server's side, the group cache.

Theorems to come, in this order: one document per machine (the unique index against every writer),
the freeing rule of `Membership`, the budget of `BmcReset`, and no row twice in `KeysetPaging`; of the
modules there are, that the stored documents of `InventoryStore` give `DetailCache` the writes it assumes.
