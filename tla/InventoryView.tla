--------------------------- MODULE InventoryView ---------------------------
(***************************************************************************)
(* The Servers page (features/inventory/InventoryPage.tsx) with its        *)
(* dropdowns (MultiSelect.tsx), cluster sidebar (ClusterSidebar.tsx),      *)
(* table (InventoryTable.tsx) and the debounced search                     *)
(* (lib/useDebouncedValue.ts).                                             *)
(*                                                                         *)
(* Filters, order and page live in the URL.  A click reads and writes the  *)
(* live URL; what is on screen is the URL of the last render, the search   *)
(* text that has settled, and the rows last fetched.  A render is a step   *)
(* of its own, so clicks may come before it.  The URL is a function from   *)
(* parameter to value; health_overall, mce and cluster go by the row field *)
(* they filter.                                                            *)
(***************************************************************************)
EXTENDS FleetRows

CONSTANTS
    Fleets,         \* the answers GET /servers/rows may give
    Options,        \* dropdown parameter -> the values it offers
    Queries,        \* what may be typed into the search box
    PageSize,       \* PAGE_SIZE
    StartUrls,      \* the links the page is opened by
    ClusterQueries, \* what may be typed into the sidebar's box, Null for nothing
    NarrowAbove,    \* a longer cluster list has a search box (8 in the code)
    MaxClicks       \* bound: clicks and keystrokes, opening a dropdown aside

VARIABLES
    url,            \* window.location.search
    shown,          \* the URL of the last render
    debounced,      \* debouncedSearch
    data,           \* the rows in the query cache, Null before the first answer
    failed,         \* the last fetch of the rows failed
    menu,           \* the parameter whose dropdown is open, or Null
    sidebar,        \* [open, query] of the cluster sidebar
    clicks

viewVars == <<url, shown, debounced, data, failed, menu, sidebar, clicks>>

DropdownKeys == MultiKeys \ SidebarKeys
UrlFlags == FlagKeys \ {"reserved"}
FilterParams == MultiKeys \cup UrlFlags \cup {"search", "maintenance"}
UrlParams == FilterParams \cup {"sort", "sort_desc", "page"}
MaintenanceOption == "MAINTENANCE"

Blank(param) == CASE param \in MultiKeys                -> {}
                  [] param \in UrlFlags \cup {"sort_desc"} -> FALSE
                  [] param = "search"                   -> NoFilters.search
                  [] param = "page"                     -> 1
                  [] OTHER                              -> Null
BlankUrl == [p \in UrlParams |-> Blank(p)]

\* Null is no value of its own.  The answers are lists of rows; a link, as the
\* router reads it, gives every parameter a value; the search box can be
\* emptied; and no severity goes by the name of the Maintenance entry.
ASSUME ViewAssumption ==
    /\ Null \notin {Unassigned, "true", "only", "exclude"}
    /\ \A fleet \in Fleets : fleet \in Seq(ToSet(fleet))
    /\ DOMAIN Options \subseteq DropdownKeys
    /\ "health" \in DOMAIN Options => MaintenanceOption \notin Options["health"]
    /\ \A u \in StartUrls : DOMAIN u = UrlParams /\ u["search"] \in Queries
    /\ NoFilters.search \in Queries /\ Null \in ClusterQueries
    /\ PageSize \in Nat \ {0} /\ MaxClicks \in Nat

----------------------------------------------------------------------------
(* What a render reads out of the URL *)

MaintenanceMode(u) == CASE u["maintenance"] \in {"true", "only"} -> "only"
                        [] u["maintenance"] = "exclude" -> "exclude"
                        [] OTHER -> "include"

SortField(u) == IF u["sort"] \in SortableFields THEN u["sort"] ELSE "name"

\* The search is the settled one, the rest the URL's.
Filters(u, search) ==
    [search |-> search, multi |-> [k \in MultiKeys |-> u[k]],
     maintenance |-> MaintenanceMode(u), flags |-> {f \in UrlFlags : u[f]}]

Rows == IF data = Null THEN <<>> ELSE data
Matched == SortRows(FilterRows(Rows, Filters(shown, debounced)),
                    SortField(shown), shown["sort_desc"])
Shown == Paginate(Matched, shown["page"], PageSize)
SearchError == BadRegex(shown["search"])
TableIsShown == data # Null /\ ~failed

\* Mutant: the on/off filters have no chip.
ActiveButFlags ==
    [key : {"search" : x \in {debounced} \ {Blank("search")}}, value : {Null}]
    \cup (UNION {[key : {k}, value : shown[k]] : k \in MultiKeys})
    \cup [key : {"maintenance" : x \in {MaintenanceMode(shown)} \ {"include"}}, value : {Null}]

\* One removable chip per value in force; the search chip is the settled text.
ActiveFilters ==
    [key : {"search" : x \in {debounced} \ {Blank("search")}}, value : {Null}]
    \cup (UNION {[key : {k}, value : shown[k]] : k \in MultiKeys})
    \cup [key : {"maintenance" : x \in {MaintenanceMode(shown)} \ {"include"}}, value : {Null}]
    \cup [key : {f \in UrlFlags : shown[f]}, value : {Null}]

\* What is ticked in a dropdown, and the number beside each entry.  The
\* Health dropdown ends in Maintenance, a filter of its own.
OptionsOf(key) == Options[key] \cup (IF key = "health" THEN {MaintenanceOption} ELSE {})
Selected(key) ==
    shown[key] \cup (IF key = "health" /\ MaintenanceMode(shown) = "only"
                     THEN {MaintenanceOption} ELSE {})
OptionCount(key, value) ==
    IF key = "health" /\ value = MaintenanceOption
    THEN DropdownFacetCount(Rows, Filters(shown, debounced), "maintenance", TRUE)
    ELSE DropdownFacetCount(Rows, Filters(shown, debounced), key, value)

Facets == ClusterFacets(Rows, Filters(shown, debounced))
ClusterCount == Cardinality(Facets.mces) + Cardinality(Facets.hosted) + Cardinality(Facets.upi)

\* The entries of one sidebar section, narrowed by the text in its box.
SectionOptions(section) ==
    {o \in Facets[section] : sidebar.query = Null \/ <<sidebar.query, o.name>> \in Within}

\* The MCE column appears once a row on the page has an MCE.
TableColumns ==
    {"name", "bmc", "openshift_state", "cluster_name", "model", "health", "maintenance"}
    \cup {c \in {"mce_name"} : \E i \in DOMAIN Shown.items : Shown.items[i].mce_name # Null}

----------------------------------------------------------------------------
(* The controls *)

\* A mouse press outside the open dropdown closes it before it does anything
\* else, and the dropdown's own entries leave it open.
Elsewhere == menu' = Null /\ UNCHANGED sidebar
InTheMenu == UNCHANGED <<menu, sidebar>>

Click == clicks' = clicks + 1

Navigate(next) ==
    /\ Click
    /\ url' = next
    /\ UNCHANGED <<shown, debounced, data, failed>>

\* Mutant: a change starts from the rendered URL.
UpdateShown(patch) ==
    Navigate([p \in DOMAIN url |-> IF p = "page" THEN 1
                                   ELSE IF p \in DOMAIN patch THEN patch[p] ELSE shown[p]])

\* A patch gives some parameters new values.  Every filter change starts from
\* the live URL and goes back to page 1.
Only(param, value) == [p \in {param} |-> value]
UpdateFilters(patch) ==
    Navigate([p \in DOMAIN url |-> IF p = "page" THEN 1
                                   ELSE IF p \in DOMAIN patch THEN patch[p] ELSE url[p]])

ToggleMulti(key, value) == UpdateFilters(Only(key, SymDiff(url[key], {value})))

ToggleMaintenance ==
    UpdateFilters(Only("maintenance", IF MaintenanceMode(url) = "only" THEN Null ELSE "true"))

Type(query) ==
    /\ query # shown["search"]
    /\ UpdateFilters(Only("search", query))
    /\ Elsewhere

\* A dropdown opens by its button and closes by it, by Escape or by a press away.
OpenMenu(key) ==
    /\ menu # key
    /\ menu' = key
    /\ UNCHANGED <<url, shown, debounced, data, failed, sidebar, clicks>>
CloseMenu ==
    /\ menu # Null
    /\ menu' = Null
    /\ UNCHANGED <<url, shown, debounced, data, failed, sidebar, clicks>>

TickOption(key, value) ==
    /\ menu = key
    /\ value \in OptionsOf(key)
    /\ IF key = "health" /\ value = MaintenanceOption THEN ToggleMaintenance
       ELSE ToggleMulti(key, value)
    /\ InTheMenu
ShowAll(key) ==
    /\ menu = key
    /\ Selected(key) # {}
    /\ UpdateFilters([p \in {key} \cup {m \in {"maintenance"} : key = "health"} |-> Blank(p)])
    /\ InTheMenu

TickFlag(flag) ==
    /\ UpdateFilters(Only(flag, ~shown[flag]))
    /\ Elsewhere

\* A click on a sortable heading: the other direction on the column sorted
\* by, either one (the table library's choice) on another.
SortBy(field, desc) ==
    /\ TableIsShown
    /\ field = SortField(shown) => desc # shown["sort_desc"]
    /\ UpdateFilters([p \in {"sort", "sort_desc"} |-> IF p = "sort" THEN field ELSE desc])
    /\ Elsewhere

RemoveChip(chip) ==
    /\ chip \in ActiveFilters
    /\ IF chip.value = Null THEN UpdateFilters(Only(chip.key, Blank(chip.key)))
       ELSE ToggleMulti(chip.key, chip.value)
    /\ Elsewhere

\* Mutant: the sidebar and maintenance are not cleared.
ClearDropdowns ==
    /\ ActiveFilters # {}
    /\ UpdateFilters([p \in FilterParams \ (SidebarKeys \cup {"maintenance"}) |-> Blank(p)])
    /\ Elsewhere

ClearFilters ==
    /\ ActiveFilters # {}
    /\ UpdateFilters([p \in FilterParams |-> Blank(p)])
    /\ Elsewhere

\* Previous and Next count from the page on screen.
GoToPage(target) ==
    /\ TableIsShown
    /\ target \in {Shown.page - 1, Shown.page + 1} \cap (1 .. Shown.pageCount)
    /\ Navigate([url EXCEPT !["page"] = target])
    /\ Elsewhere

TickCluster(section, key, value) ==
    /\ data # Null /\ sidebar.open
    /\ \E o \in SectionOptions(section) : o.name = value
    /\ ToggleMulti(key, value)
    /\ Elsewhere

HideSidebar ==
    /\ data # Null /\ ClusterCount > 0
    /\ sidebar' = [sidebar EXCEPT !.open = ~sidebar.open]
    /\ menu' = Null
    /\ Click
    /\ UNCHANGED <<url, shown, debounced, data, failed>>
NarrowClusters(text) ==
    /\ data # Null /\ sidebar.open /\ ClusterCount > NarrowAbove
    /\ sidebar' = [sidebar EXCEPT !.query = text]
    /\ menu' = Null
    /\ Click
    /\ UNCHANGED <<url, shown, debounced, data, failed>>

----------------------------------------------------------------------------
(* The browser and the query cache *)

Render ==
    /\ shown # url
    /\ shown' = url
    /\ UNCHANGED <<url, debounced, data, failed, menu, sidebar, clicks>>

\* Mutant: an emptied box does not settle.
SearchSettlesOnText ==
    /\ debounced # shown["search"] /\ shown["search"].kind # "blank"
    /\ debounced' = shown["search"]
    /\ UNCHANGED <<url, shown, data, failed, menu, sidebar, clicks>>

\* 300 ms without a change of the rendered text.
SearchSettles ==
    /\ debounced # shown["search"]
    /\ debounced' = shown["search"]
    /\ UNCHANGED <<url, shown, data, failed, menu, sidebar, clicks>>

\* The rows are fetched every 30 s; a failed fetch keeps the rows there were.
RowsArrive(fleet) ==
    /\ data' = fleet
    /\ failed' = FALSE
    /\ UNCHANGED <<url, shown, debounced, menu, sidebar, clicks>>
RowsFail ==
    /\ failed' = TRUE
    /\ UNCHANGED <<url, shown, debounced, data, menu, sidebar, clicks>>

\* Mutant: the sidebar starts with no state.
UnsetSidebar == [open |-> Null, query |-> Null]

\* A reload keeps the URL and nothing else.
FreshSidebar == [open |-> TRUE, query |-> Null]
Reload ==
    /\ shown' = url
    /\ debounced' = url["search"]
    /\ data' = Null
    /\ failed' = FALSE
    /\ menu' = Null
    /\ sidebar' = FreshSidebar
    /\ UNCHANGED <<url, clicks>>

ViewInit ==
    /\ url \in StartUrls
    /\ shown = url
    /\ debounced = url["search"]
    /\ data = Null
    /\ failed = FALSE
    /\ menu = Null
    /\ sidebar = FreshSidebar
    /\ clicks = 0

Controls ==
    \/ \E q \in Queries : Type(q)
    \/ \E k \in DOMAIN Options : ShowAll(k) \/ \E v \in OptionsOf(k) : TickOption(k, v)
    \/ \E f \in UrlFlags : TickFlag(f)
    \/ \E f \in SortableFields \cap TableColumns, desc \in BOOLEAN : SortBy(f, desc)
    \/ \E chip \in ActiveFilters : RemoveChip(chip)
    \/ ClearFilters
    \/ \E n \in {Shown.page - 1, Shown.page + 1} : GoToPage(n)
    \/ \E o \in Facets.mces : TickCluster("mces", "mce_name", o.name)
    \/ \E s \in {"hosted", "upi"} : \E o \in Facets[s] :
          TickCluster(s, "cluster_name", o.name)
    \/ HideSidebar
    \/ \E q \in ClusterQueries : NarrowClusters(q)

ViewNext ==
    \/ clicks < MaxClicks /\ Controls
    \/ \E k \in DOMAIN Options : OpenMenu(k)
    \/ CloseMenu
    \/ Render
    \/ SearchSettles
    \/ \E fleet \in Fleets : RowsArrive(fleet)
    \/ RowsFail
    \/ Reload

ViewSpec ==
    /\ ViewInit /\ [][ViewNext]_viewVars
    /\ WF_viewVars(Render) /\ WF_viewVars(SearchSettles)

----------------------------------------------------------------------------
(* Properties *)

\* The URL keeps its parameters and the page what it can hold.
ViewTypeOK ==
    /\ DOMAIN url = UrlParams /\ DOMAIN shown = UrlParams
    /\ debounced \in Queries
    /\ data \in Fleets \cup {Null}
    /\ failed \in BOOLEAN
    /\ menu \in DOMAIN Options \cup {Null}
    /\ sidebar \in [open : BOOLEAN, query : ClusterQueries]
    /\ clicks \in 0 .. MaxClicks

\* What ticking one more value would leave on screen.
LeftByTicking(key, value) ==
    Len(FilterRows(Rows, Filters([shown EXCEPT ![key] = @ \cup {value}], debounced)))
AddsItsCount(key, value, count) ==
    value \notin shown[key] =>
        LeftByTicking(key, value) = count + (IF shown[key] = {} THEN 0 ELSE Len(Matched))

\* The number beside an entry is what ticking it does (rows.ts, "what ticking
\* it would add"): with nothing ticked in that list it is all that would be
\* left, with something ticked it is what would be added, and Maintenance,
\* which narrows, leaves exactly its own number.
CountsSayWhatTickingDoes ==
    data # Null =>
        /\ \A k \in DOMAIN Options : \A v \in Options[k] : AddsItsCount(k, v, OptionCount(k, v))
        /\ \A o \in Facets.mces : AddsItsCount("mce_name", o.name, o.count)
        /\ \A o \in Facets.hosted \cup Facets.upi : AddsItsCount("cluster_name", o.name, o.count)
        /\ OptionCount("health", MaintenanceOption)
              = Len(FilterRows(Rows, Filters([shown EXCEPT !["maintenance"] = "true"], debounced)))

\* Whatever hides a row can be seen and undone: with every chip on screen
\* removed, the whole fleet shows (ActiveFilters and the chips' own clicks).
ChipsExplainTheView ==
    LET blank == {c.key : c \in {d \in ActiveFilters : d.value = Null}}
        left == [p \in UrlParams |->
                    IF p \in blank THEN Blank(p)
                    ELSE IF p \in MultiKeys
                         THEN shown[p] \ {c.value : c \in {d \in ActiveFilters : d.key = p}}
                         ELSE shown[p]]
        text == IF "search" \in blank THEN Blank("search") ELSE debounced
    IN FilterRows(Rows, Filters(left, text)) = Rows

\* Clear filters leaves nothing that filters, however the page was reached.
ClearShowsTheFleet ==
    [][ClearFilters => FilterRows(Rows, Filters(url', url'["search"])) = Rows]_viewVars

\* No click undoes another one the page had not yet rendered: a step changes
\* one filter, or the order, or Health with its Maintenance entry, or clears
\* them all (updateFilters and toggleMulti start from the live URL).
NoClickIsLost ==
    [][LET changed == {p \in UrlParams \ {"page"} : url'[p] # url[p]}
       IN \/ Cardinality(changed) <= 1
          \/ changed \in SUBSET {"sort", "sort_desc"}
          \/ changed \in SUBSET {"health", "maintenance"}
          \/ \A p \in FilterParams : url'[p] = Blank(p)]_viewVars

\* The pages, one after another, are the exported file: no row is on two
\* pages or on none, whatever page the URL asks for (paginate, handleExportCsv).
ExportedFile == RowsToCsv(Matched)
PagesMakeTheExport ==
    data # Null =>
        ExportedFile = RowsToCsv(FlattenSeq(
            [p \in 1 .. Shown.pageCount |-> Paginate(Matched, p, PageSize).items]))

\* Once the clicks stop, what is on screen is what the URL says (the render
\* and the debounce both come), so a reload lands on the same view.
ViewSettles == <>[](shown = url /\ debounced = url["search"])
=============================================================================
