----------------------------- MODULE FleetRows -----------------------------
(***************************************************************************)
(* The pure functions the Servers page is glue over (features/inventory/   *)
(* rows.ts, sorting.ts, csvExport.ts, components/severity.ts,              *)
(* lib/donor.ts): which rows a set of filters keeps, the number beside     *)
(* each option, the order, one page, the cluster lists, the CSV file.      *)
(*                                                                         *)
(* A fleet is a sequence of row records.  Text is opaque: what is a        *)
(* substring of what, what a pattern matches, the natural order and the    *)
(* separator-free form of a MAC are given as constants.                    *)
(***************************************************************************)
EXTENDS Integers, SequencesExt

CONSTANTS
    Null,           \* a field that was never read
    Unassigned,     \* UNASSIGNED_SITE_ID
    Within,         \* <<needle, text>>: needle is a substring of text
    RegexHits,      \* <<pattern, text>>: the pattern matches somewhere in text
    Bare,           \* hex-looking text -> the same without ":" and "-"
    Collation,      \* text -> its place in the natural order
    DonorReasons    \* the maintenance reasons that say "donor"

\* The dropdowns' and the sidebar's filters; each takes several values.
MultiKeys == {"vendor", "site_id", "source_provider", "installation_type",
              "openshift_state", "health", "mce_name", "cluster_name"}
SidebarKeys == {"mce_name", "cluster_name"}

\* The filters that are on or off.
FlagKeys == {"reserved", "stale", "duplicate", "name_mismatch", "contested", "donor"}

\* Most severe first.
SEVERITY_ORDER == <<"CRITICAL", "MAJOR", "WARNING", "HEALTHY", "UNKNOWN">>

SortableFields == {"name", "model", "openshift_state", "cluster_name", "mce_name", "health"}

NoFilters == [search |-> [kind |-> "blank", text |-> Null],
              multi |-> [k \in MultiKeys |-> {}],
              maintenance |-> "include", flags |-> {}]

----------------------------------------------------------------------------
(* Search *)

BadRegex(query) == query.kind = "bad_regex"

SearchFields(row) ==
    {row.name, row.model, row.serial, row.vendor, row.site_id, row.installation_type,
     row.bmc_host, row.reservation.mce_cluster} \ {Null}

Matches(query, field, needle) ==
    IF query.kind = "exact" THEN field = needle
    ELSE field = needle \/ <<needle, field>> \in Within

\* Plain text, "exact text" and /a pattern/; a pattern that is no pattern
\* keeps every row.  A hex-looking query is also tried against bare MACs.
ParseSearch(query, row) ==
    \/ query.kind = "blank"
    \/ BadRegex(query)
    \/ /\ query.kind = "regex"
       /\ \E f \in SearchFields(row) \cup row.macs : <<query.text, f>> \in RegexHits
    \/ /\ query.kind \in {"plain", "exact"}
       /\ \/ \E f \in SearchFields(row) \cup row.macs : Matches(query, f, query.text)
          \/ /\ query.text \in DOMAIN Bare
             /\ \E mac \in row.macs : Matches(query, Bare[mac], Bare[query.text])

----------------------------------------------------------------------------
(* Filters *)

NameCounts(rows) ==
    [n \in {rows[i].name : i \in DOMAIN rows} |->
        Cardinality({i \in DOMAIN rows : rows[i].name = n})]

IsDonor(maintenance) == maintenance.enabled /\ maintenance.reason \in DonorReasons

\* The value a row has under a multi-value filter; Null is never ticked.
ValueUnder(row, key) ==
    IF key = "site_id" /\ row.site_id = Null THEN Unassigned ELSE row[key]

HasFlag(rows, row, flag) ==
    CASE flag = "reserved"      -> row.reservation.held
      [] flag = "stale"         -> row.stale
      [] flag = "duplicate"     -> NameCounts(rows)[row.name] > 1
      [] flag = "name_mismatch" -> row.openshift_reported_name # Null
      [] flag = "contested"     -> row.contested_with # Null
      [] flag = "donor"         -> IsDonor(row.maintenance)

Keeps(rows, filters, row) ==
    /\ \A k \in MultiKeys :
          filters.multi[k] = {} \/ ValueUnder(row, k) \in filters.multi[k]
    /\ \A flag \in filters.flags : HasFlag(rows, row, flag)
    /\ filters.maintenance # "include"
          => (filters.maintenance = "only") = row.maintenance.enabled

\* Where the rows are that pass every filter and the search.  Names are counted
\* over the whole fleet, not over what the others leave.
Kept(rows, filters) ==
    {i \in DOMAIN rows : Keeps(rows, filters, rows[i]) /\ ParseSearch(filters.search, rows[i])}

\* The n-th of some places, and the rows there in the order they had.
Place(places, n) == CHOOSE i \in places : Cardinality({j \in places : j <= i}) = n
RowsAt(rows, places) == [n \in 1 .. Cardinality(places) |-> rows[Place(places, n)]]

FilterRows(rows, filters) == RowsAt(rows, Kept(rows, filters))

----------------------------------------------------------------------------
(* Order and pages *)

\* How row a compares with row b: negative, zero or positive.  Nulls come
\* last whichever the direction; health goes by severity.
CompareRows(a, b, field, desc) ==
    LET sign == IF desc THEN -1 ELSE 1
        rank(row) == Len(SEVERITY_ORDER)
                        - (CHOOSE i \in DOMAIN SEVERITY_ORDER : SEVERITY_ORDER[i] = row.health)
    IN CASE field = "health" -> sign * (rank(a) - rank(b))
         [] field # "health" /\ a[field] = Null -> IF b[field] = Null THEN 0 ELSE 1
         [] field # "health" /\ a[field] # Null /\ b[field] = Null -> -1
         [] OTHER -> sign * (Collation[a[field]] - Collation[b[field]])

\* A stable sort: ties keep the input order.
SortRows(rows, field, desc) ==
    LET first(i, j) == LET c == CompareRows(rows[i], rows[j], field, desc)
                       IN c < 0 \/ (c = 0 /\ i < j)
        order == SetToSortSeq(DOMAIN rows, first)
    IN [i \in DOMAIN rows |-> rows[order[i]]]

\* Mutant: the last, partial page is not counted.
PaginateFloor(rows, page, size) ==
    LET pageCount == Max({1, Len(rows) \div size})
        current == Min({Max({1, page}), pageCount})
    IN [items |-> SubSeq(rows, (current - 1) * size + 1, Min({current * size, Len(rows)})),
        page |-> current, pageCount |-> pageCount]

\* One page; a page number out of range is clamped.
Paginate(rows, page, size) ==
    LET pageCount == Max({1, (Len(rows) + size - 1) \div size})
        current == Min({Max({1, page}), pageCount})
        start == (current - 1) * size
    IN [items |-> SubSeq(rows, start + 1, Min({start + size, Len(rows)})),
        page |-> current, pageCount |-> pageCount]

----------------------------------------------------------------------------
(* The numbers beside the options *)

Without(filters, key) ==
    IF key = "maintenance" THEN [filters EXCEPT !.maintenance = "include"]
    ELSE [filters EXCEPT !.multi[key] = {}]

FacetCount(rows, key, value) ==
    Cardinality({i \in DOMAIN rows :
                    IF key = "maintenance" THEN rows[i].maintenance.enabled = value
                    ELSE ValueUnder(rows[i], key) = value})

\* Mutant: the list counts over its own filter too.
DropdownCountFiltered(rows, filters, key, value) == FacetCount(FilterRows(rows, filters), key, value)

\* Each option is counted over the rows every other filter leaves.
DropdownFacetCount(rows, filters, key, value) ==
    FacetCount(FilterRows(rows, Without(filters, key)), key, value)

\* The sidebar: names read off the whole fleet, each with its count; a cluster
\* with an MCE on any of its rows is hosted.  The order they are listed in is
\* left out.
ClusterFacets(rows, filters) ==
    LET named(key) == {rows[i][key] : i \in DOMAIN rows} \ {Null}
        hostedNames == {c \in named("cluster_name") : \E i \in DOMAIN rows :
                            rows[i].cluster_name = c /\ rows[i].mce_name # Null}
        options(key, names) ==
            {[name |-> n, count |-> DropdownFacetCount(rows, filters, key, n)] : n \in names}
    IN [mces   |-> options("mce_name", named("mce_name")),
        hosted |-> options("cluster_name", hostedNames),
        upi    |-> options("cluster_name", named("cluster_name") \ hostedNames)]

----------------------------------------------------------------------------
(* The CSV file: one line per row in the order given, an unread field empty,
   the MCE a server is being installed to only while its lock is held. *)

CsvColumns == <<"name", "vendor", "bmc_host", "openshift_state", "installing_to",
                "mce_name", "cluster_name", "openshift_reported_name", "contested_with",
                "model", "serial", "profile_template_name", "health">>

CsvValue(row, column) ==
    LET value == IF column # "installing_to" THEN row[column]
                 ELSE IF row.reservation.held THEN row.reservation.mce_cluster ELSE Null
    IN IF value = Null THEN "" ELSE value

RowsToCsv(rows) ==
    [i \in DOMAIN rows |-> [c \in DOMAIN CsvColumns |-> CsvValue(rows[i], CsvColumns[c])]]
=============================================================================
