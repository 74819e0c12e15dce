--------------------------- MODULE InventoryProofs ---------------------------
(***************************************************************************)
(* Proofs about FleetRows, InventoryView and SitesView: for any fleet, any *)
(* filters, any links the Servers page is opened by and any sites.         *)
(***************************************************************************)
EXTENDS MCInventory, FiniteSetTheorems, TLAPS

(***************************************************************************)
(* FleetRows: the rows at some places, in the order they had.              *)
(***************************************************************************)
Rank(places, i) == Cardinality({j \in places : j <= i})

\* The ranks of some places number them from 1, so each number has its place.
LEMMA Ranks ==
    ASSUME NEW L \in Nat, NEW P \in SUBSET (1 .. L)
    PROVE  /\ IsFiniteSet(P) /\ Cardinality(P) \in Nat
           /\ \A i \in P : Rank(P, i) \in 1 .. Cardinality(P) /\ Place(P, Rank(P, i)) = i
           /\ \A n \in 1 .. Cardinality(P) : Place(P, n) \in P /\ Rank(P, Place(P, n)) = n
<1>1. IsFiniteSet(P) /\ Cardinality(P) \in Nat
  <2>1. IsFiniteSet(1 .. L)
    BY FS_Interval
  <2>2. IsFiniteSet(P)
    BY <2>1, FS_Subset
  <2> QED
    BY <2>2, FS_CardinalityType
<1> DEFINE N == 1 .. Cardinality(P)
           upTo(i) == {j \in P : j <= i}
           f == [i \in P |-> Rank(P, i)]
<1>2. ASSUME NEW i \in P
      PROVE  IsFiniteSet(upTo(i)) /\ Cardinality(upTo(i)) \in N
  <2>1. upTo(i) \in SUBSET P /\ i \in upTo(i)
    OBVIOUS
  <2>2. IsFiniteSet(upTo(i)) /\ Cardinality(upTo(i)) <= Cardinality(P)
    BY <1>1, <2>1, FS_Subset
  <2>3. Cardinality(upTo(i)) \in Nat /\ Cardinality(upTo(i)) # 0
    BY <2>1, <2>2, FS_CardinalityType, FS_EmptySet
  <2> QED
    BY <1>1, <2>2, <2>3
<1>3. ASSUME NEW i \in P, NEW j \in P, i < j
      PROVE  Rank(P, i) # Rank(P, j)
  <2>1. upTo(i) \in SUBSET upTo(j) /\ j \in upTo(j) /\ j \notin upTo(i)
    <3>1. \A k \in P : k \in Nat
      OBVIOUS
    <3>2. \A k \in P : k <= i => k <= j
      BY <1>3, <3>1
    <3>3. i \in Nat /\ j \in Nat
      BY <3>1
    <3>4. ~(j <= i) /\ j <= j
      BY <1>3, <3>3
    <3>5. upTo(i) \in SUBSET upTo(j)
      BY <3>2
    <3> QED
      BY <3>4, <3>5
  <2>2. IsFiniteSet(upTo(j))
    BY <1>2
  <2> HIDE DEF upTo
  <2>3. Cardinality(upTo(i)) # Cardinality(upTo(j))
    BY <2>1, <2>2, FS_Subset
  <2> QED
    BY <2>3 DEF Rank, upTo
<1>4. f \in Injection(P, N)
  <2>1. \A i, j \in P : Rank(P, i) = Rank(P, j) => i = j
    BY <1>3
  <2>2. \A i \in P : Rank(P, i) \in N
    BY <1>2 DEF Rank
  <2>3. f \in [P -> N] /\ DOMAIN f = P /\ \A i \in P : f[i] = Rank(P, i)
    BY <2>2
  <2> HIDE DEF f, N
  <2> QED
    BY <2>1, <2>3 DEF Injection, IsInjective
<1>5. f \in Surjection(P, N)
  <2>1. IsFiniteSet(N) /\ Cardinality(N) = Cardinality(P)
    BY <1>1, FS_Interval
  <2> HIDE DEF N, f
  <2> QED
    BY <1>4, <2>1, FS_Injection
<1>6. \A i \in P : Rank(P, i) \in N
  BY <1>2 DEF Rank
<1>7. \A n \in N : \E i \in P : Rank(P, i) = n
  BY <1>5 DEF Surjection
<1>8. \A i, j \in P : Rank(P, i) = Rank(P, j) => i = j
  BY <1>3
<1>9. \A n \in N : Place(P, n) \in P /\ Rank(P, Place(P, n)) = n
  BY <1>7 DEF Place, Rank
<1> QED
  BY <1>1, <1>6, <1>8, <1>9

\* They are as many as the places (Array.filter keeps the order and the rest).
LEMMA RowsAtPlaces ==
    ASSUME NEW L \in Nat, NEW P \in SUBSET (1 .. L), NEW rows
    PROVE  /\ Len(RowsAt(rows, P)) = Cardinality(P)
           /\ DOMAIN RowsAt(rows, P) = 1 .. Cardinality(P)
           /\ \A n \in 1 .. Cardinality(P) : RowsAt(rows, P)[n] = rows[Place(P, n)]
<1>1. Cardinality(P) \in Nat
  BY Ranks
<1> QED
  BY <1>1 DEF RowsAt

\* A filter that drops nothing changes nothing.
LEMMA AllRows ==
    ASSUME NEW S, NEW rows \in Seq(S)
    PROVE  RowsAt(rows, DOMAIN rows) = rows
<1> DEFINE L == Len(rows)
<1>1. L \in Nat /\ DOMAIN rows = 1 .. L
  OBVIOUS
<1>2. Cardinality(1 .. L) = L
  BY <1>1, FS_Interval
<1>3. \A n \in 1 .. L : Place(1 .. L, n) = n
  <2> SUFFICES ASSUME NEW n \in 1 .. L PROVE Place(1 .. L, n) = n
    OBVIOUS
  <2>1. {j \in 1 .. L : j <= n} = 1 .. n
    BY <1>1
  <2>2. Cardinality(1 .. n) = n
    BY FS_Interval
  <2>3. Rank(1 .. L, n) = n
    BY <2>1, <2>2 DEF Rank
  <2> HIDE DEF L
  <2>4. Place(1 .. L, Rank(1 .. L, n)) = n
    BY <1>1, Ranks
  <2> QED
    BY <2>3, <2>4
<1> HIDE DEF L
<1> QED
  BY <1>1, <1>2, <1>3 DEF RowsAt

\* What is counted among the rows left is counted among their places.
LEMMA CountedAtPlaces ==
    ASSUME NEW L \in Nat, NEW P \in SUBSET (1 .. L), NEW Q \in SUBSET P
    PROVE  Cardinality({n \in 1 .. Cardinality(P) : Place(P, n) \in Q}) = Cardinality(Q)
<1> DEFINE M == {n \in 1 .. Cardinality(P) : Place(P, n) \in Q}
           g == [n \in M |-> Place(P, n)]
<1>1. IsFiniteSet(M)
  <2>1. Cardinality(P) \in Nat
    BY Ranks
  <2>2. IsFiniteSet(1 .. Cardinality(P))
    BY <2>1, FS_Interval
  <2>3. M \in SUBSET (1 .. Cardinality(P))
    OBVIOUS
  <2> HIDE DEF M
  <2> QED
    BY <2>2, <2>3, FS_Subset
<1>2. g \in Bijection(M, Q)
  <2>1. \A n \in M : Place(P, n) \in Q /\ Rank(P, Place(P, n)) = n
    BY Ranks
  <2>2. \A i \in Q : Rank(P, i) \in M /\ Place(P, Rank(P, i)) = i
    BY Ranks
  <2>3. g \in [M -> Q]
    BY <2>1
  <2>4. \A m, n \in M : g[m] = g[n] => m = n
    BY <2>1
  <2>5. \A i \in Q : \E n \in M : g[n] = i
    BY <2>2
  <2>6. DOMAIN g = M
    OBVIOUS
  <2> HIDE DEF M, g
  <2> QED
    BY <2>3, <2>4, <2>5, <2>6 DEF Bijection, Injection, Surjection, IsInjective
<1> HIDE DEF M
<1>3. Cardinality(M) = Cardinality(Q)
  BY <1>1, <1>2, FS_Bijection DEF ExistsBijection
<1> QED
  BY <1>3 DEF M

----------------------------------------------------------------------------
(* InventoryView: what the page can hold.                                  *)

\* The text in the box, of the URL and of the last render, is one that can be
\* typed: it is what settles next.
ViewInv ==
    /\ ViewTypeOK
    /\ url["search"] \in Queries /\ shown["search"] \in Queries

LEMMA RowsAreAList ==
    ASSUME ViewAssumption, ViewTypeOK
    PROVE  Rows \in Seq(ToSet(Rows))
<1>1. CASE data = Null
  BY <1>1 DEF Rows
<1>2. CASE data # Null
  BY <1>2 DEF Rows, ViewTypeOK, ViewAssumption
<1> QED
  BY <1>1, <1>2

\* The kinds of parameters are kept apart.
LEMMA BlankValues ==
    /\ \A k \in MultiKeys : k \in FilterParams /\ Blank(k) = {}
    /\ \A f \in UrlFlags : f \in FilterParams /\ f \notin MultiKeys /\ Blank(f) = FALSE
    /\ Blank("search") = NoFilters.search /\ "search" \in FilterParams
    /\ Blank("maintenance") = Null /\ "maintenance" \in FilterParams
    /\ "search" \notin MultiKeys \cup UrlFlags /\ "maintenance" \notin MultiKeys \cup UrlFlags
    /\ "page" \notin FilterParams /\ FilterParams \in SUBSET UrlParams
<1> QED
  BY DEF Blank, MultiKeys, UrlFlags, FlagKeys, FilterParams, UrlParams

\* A filter change alters the parameters of its patch and the page, no other.
LEMMA FiltersChange ==
    ASSUME NEW patch, UpdateFilters(patch), DOMAIN url = UrlParams
    PROVE  /\ DOMAIN url' = UrlParams
           /\ \A p \in UrlParams \ {"page"} :
                 url'[p] = IF p \in DOMAIN patch THEN patch[p] ELSE url[p]
<1> QED
  BY DEF UpdateFilters, Navigate

\* What a click that changes filters leaves as it was, or counts.
LEMMA FiltersTyped ==
    ASSUME ViewInv, clicks < MaxClicks, MaxClicks \in Nat, NEW patch, UpdateFilters(patch),
           "search" \in DOMAIN patch => patch["search"] \in Queries
    PROVE  /\ DOMAIN url' = UrlParams /\ url'["search"] \in Queries
           /\ UNCHANGED <<shown, debounced, data, failed>>
           /\ clicks' \in 0 .. MaxClicks
<1>1. DOMAIN url' = UrlParams /\ url'["search"] \in Queries
  <2>1. "search" \in UrlParams \ {"page"}
    BY BlankValues
  <2> QED
    BY <2>1, FiltersChange DEF ViewInv, ViewTypeOK
<1> QED
  BY <1>1 DEF UpdateFilters, Navigate, Click, ViewInv, ViewTypeOK

LEMMA ChipKinds ==
    ASSUME ViewAssumption, NEW chip \in ActiveFilters
    PROVE  /\ chip.value # Null => chip.key \in MultiKeys
           /\ chip.key \in FilterParams
<1>1. \/ chip.key = "search" /\ chip.value = Null
      \/ chip.key \in MultiKeys
      \/ chip.key = "maintenance" /\ chip.value = Null
      \/ chip.key \in UrlFlags /\ chip.value = Null
  BY DEF ActiveFilters
<1> QED
  BY <1>1, BlankValues

\* The clicks that change filters: by one patch, in the places one click may
\* change, which closes the open dropdown or leaves it.
OnePlace(patch) ==
    \/ \E p : DOMAIN patch = {p}
    \/ DOMAIN patch \in SUBSET {"sort", "sort_desc"}
    \/ DOMAIN patch \in SUBSET {"health", "maintenance"}
    \/ DOMAIN patch = FilterParams /\ \A p \in FilterParams : patch[p] = Blank(p)
FilterClick(patch) ==
    /\ UpdateFilters(patch)
    /\ UNCHANGED sidebar /\ menu' \in {menu, Null}
    /\ "search" \in DOMAIN patch => patch["search"] \in Queries
    /\ OnePlace(patch)

LEMMA OnlyThat ==
    ASSUME NEW p, NEW v, UpdateFilters(Only(p, v)), UNCHANGED sidebar, menu' \in {menu, Null},
           p = "search" => v \in Queries
    PROVE  \E patch : FilterClick(patch)
<1>1. DOMAIN Only(p, v) = {p} /\ Only(p, v)[p] = v
  BY DEF Only
<1>2. OnePlace(Only(p, v))
  BY <1>1 DEF OnePlace
<1>3. FilterClick(Only(p, v))
  BY <1>1, <1>2 DEF FilterClick
<1> QED
  BY <1>3

LEMMA EachControl ==
    ASSUME ViewAssumption, ViewInv, Controls
    PROVE  \/ \E patch : FilterClick(patch)
           \/ \E n \in {Shown.page - 1, Shown.page + 1} : GoToPage(n)
           \/ HideSidebar
           \/ \E q \in ClusterQueries : NarrowClusters(q)
<1>1. ASSUME NEW q \in Queries, Type(q)
      PROVE  \E patch : FilterClick(patch)
  BY <1>1, OnlyThat DEF Type, Elsewhere
<1>2. ASSUME NEW k \in DOMAIN Options, ShowAll(k)
      PROVE  \E patch : FilterClick(patch)
  <2> DEFINE patch == [p \in {k} \cup {m \in {"maintenance"} : k = "health"} |-> Blank(p)]
  <2>1. UpdateFilters(patch) /\ UNCHANGED sidebar /\ menu' \in {menu, Null}
    BY <1>2 DEF ShowAll, InTheMenu
  <2>2. "search" \in DOMAIN patch => patch["search"] \in Queries
    BY BlankValues DEF ViewAssumption
  <2>3. OnePlace(patch)
    <3>1. CASE k = "health"
      BY <3>1 DEF OnePlace
    <3>2. CASE k # "health"
      <4>1. DOMAIN patch = {k}
        BY <3>2
      <4> QED
        BY <4>1 DEF OnePlace
    <3> QED
      BY <3>1, <3>2
  <2>4. FilterClick(patch)
    <3> HIDE DEF patch
    <3> QED
      BY <2>1, <2>2, <2>3 DEF FilterClick
  <2> QED
    BY <2>4
<1>3. ASSUME NEW k \in DOMAIN Options, NEW v \in OptionsOf(k), TickOption(k, v)
      PROVE  \E patch : FilterClick(patch)
  <2>1. k \in MultiKeys
    BY DEF ViewAssumption, DropdownKeys
  <2>2. UNCHANGED sidebar /\ menu' \in {menu, Null}
    BY <1>3 DEF TickOption, InTheMenu
  <2>3. CASE ToggleMaintenance
    BY <2>2, <2>3, OnlyThat DEF ToggleMaintenance
  <2>4. CASE ToggleMulti(k, v)
    BY <2>1, <2>2, <2>4, OnlyThat, BlankValues DEF ToggleMulti
  <2> QED
    BY <1>3, <2>3, <2>4 DEF TickOption
<1>4. ASSUME NEW f \in UrlFlags, TickFlag(f)
      PROVE  \E patch : FilterClick(patch)
  BY <1>4, OnlyThat, BlankValues DEF TickFlag, Elsewhere
<1>5. ASSUME NEW f, NEW desc, SortBy(f, desc)
      PROVE  \E patch : FilterClick(patch)
  <2> DEFINE patch == [p \in {"sort", "sort_desc"} |-> IF p = "sort" THEN f ELSE desc]
  <2>1. UpdateFilters(patch) /\ UNCHANGED sidebar /\ menu' \in {menu, Null}
    BY <1>5 DEF SortBy, Elsewhere
  <2>2. DOMAIN patch = {"sort", "sort_desc"}
    OBVIOUS
  <2>3. FilterClick(patch)
    <3> HIDE DEF patch
    <3> QED
      BY <2>1, <2>2 DEF FilterClick, OnePlace
  <2> QED
    BY <2>3
<1>6. ASSUME NEW chip \in ActiveFilters, RemoveChip(chip)
      PROVE  \E patch : FilterClick(patch)
  <2>1. UNCHANGED sidebar /\ menu' \in {menu, Null}
    BY <1>6 DEF RemoveChip, Elsewhere
  <2>2. CASE chip.value = Null
    <3>1. UpdateFilters(Only(chip.key, Blank(chip.key)))
      BY <1>6, <2>2 DEF RemoveChip
    <3>2. chip.key = "search" => Blank(chip.key) \in Queries
      BY BlankValues DEF ViewAssumption
    <3> QED
      BY <2>1, <3>1, <3>2, OnlyThat
  <2>3. CASE chip.value # Null
    <3>1. ToggleMulti(chip.key, chip.value) /\ chip.key \in MultiKeys
      BY <1>6, <2>3, ChipKinds DEF RemoveChip
    <3> QED
      BY <2>1, <3>1, OnlyThat, BlankValues DEF ToggleMulti
  <2> QED
    BY <2>2, <2>3
<1>7. ASSUME ClearFilters
      PROVE  \E patch : FilterClick(patch)
  <2> DEFINE patch == [p \in FilterParams |-> Blank(p)]
  <2>1. UpdateFilters(patch) /\ UNCHANGED sidebar /\ menu' \in {menu, Null}
    BY <1>7 DEF ClearFilters, Elsewhere
  <2>2. DOMAIN patch = FilterParams /\ \A p \in FilterParams : patch[p] = Blank(p)
    OBVIOUS
  <2>3. patch["search"] \in Queries
    BY BlankValues DEF ViewAssumption
  <2>4. FilterClick(patch)
    <3> HIDE DEF patch
    <3> QED
      BY <2>1, <2>2, <2>3 DEF FilterClick, OnePlace
  <2> QED
    BY <2>4
<1>8. ASSUME NEW section, NEW k \in SidebarKeys, NEW v, TickCluster(section, k, v)
      PROVE  \E patch : FilterClick(patch)
  <2>1. k # "search"
    BY DEF SidebarKeys
  <2> QED
    BY <1>8, <2>1, OnlyThat DEF TickCluster, ToggleMulti, Elsewhere
<1>9. "mce_name" \in SidebarKeys /\ "cluster_name" \in SidebarKeys
  BY DEF SidebarKeys
<1>10. \/ \E q \in Queries : Type(q)
       \/ \E k \in DOMAIN Options : ShowAll(k) \/ \E v \in OptionsOf(k) : TickOption(k, v)
       \/ \E f \in UrlFlags : TickFlag(f)
       \/ \E f, desc : SortBy(f, desc)
       \/ \E chip \in ActiveFilters : RemoveChip(chip)
       \/ ClearFilters
       \/ \E n \in {Shown.page - 1, Shown.page + 1} : GoToPage(n)
       \/ \E s, v : TickCluster(s, "mce_name", v) \/ TickCluster(s, "cluster_name", v)
       \/ HideSidebar
       \/ \E q \in ClusterQueries : NarrowClusters(q)
  BY Zenon DEF Controls
<1> QED
  BY <1>1, <1>2, <1>3, <1>4, <1>5, <1>6, <1>7, <1>8, <1>9, <1>10

LEMMA ViewStart ==
    ASSUME ViewAssumption, ViewInit
    PROVE  ViewInv
<1>1. DOMAIN url = UrlParams /\ DOMAIN shown = UrlParams /\ shown = url /\ url["search"] \in Queries
  BY DEF ViewInit, ViewAssumption
<1>2. sidebar \in [open : BOOLEAN, query : ClusterQueries]
  BY DEF ViewInit, FreshSidebar, ViewAssumption
<1>3. clicks \in 0 .. MaxClicks
  BY DEF ViewInit, ViewAssumption
<1>4. failed \in BOOLEAN
  BY DEF ViewInit
<1> QED
  BY <1>1, <1>2, <1>3, <1>4 DEF ViewInit, ViewInv, ViewTypeOK

LEMMA ViewStep ==
    ASSUME ViewAssumption, ViewInv, [ViewNext]_viewVars
    PROVE  ViewInv'
<1> USE DEF ViewInv, ViewTypeOK
<1>1. CASE clicks < MaxClicks /\ Controls
  <2>1. MaxClicks \in Nat
    BY DEF ViewAssumption
  <2>2. CASE \E patch : FilterClick(patch)
    <3>1. PICK patch : FilterClick(patch)
      BY <2>2
    <3>2. /\ DOMAIN url' = UrlParams /\ url'["search"] \in Queries
          /\ UNCHANGED <<shown, debounced, data, failed>> /\ clicks' \in 0 .. MaxClicks
      BY <1>1, <2>1, <3>1, FiltersTyped DEF FilterClick
    <3> QED
      BY <3>1, <3>2 DEF FilterClick
  <2>3. CASE \E n \in {Shown.page - 1, Shown.page + 1} : GoToPage(n)
    <3>1. PICK n : GoToPage(n)
      BY <2>3
    <3>2. DOMAIN url' = UrlParams /\ url'["search"] = url["search"]
      BY <3>1 DEF GoToPage, Navigate, UrlParams, FilterParams
    <3> QED
      BY <1>1, <2>1, <3>1, <3>2 DEF GoToPage, Navigate, Click, Elsewhere
  <2>4. CASE HideSidebar
    <3>1. sidebar' \in [open : BOOLEAN, query : ClusterQueries]
      BY <2>4 DEF HideSidebar
    <3> QED
      BY <1>1, <2>1, <2>4, <3>1 DEF HideSidebar, Click
  <2>5. CASE \E q \in ClusterQueries : NarrowClusters(q)
    BY <1>1, <2>1, <2>5 DEF NarrowClusters, Click
  <2> QED
    BY <1>1, <2>2, <2>3, <2>4, <2>5, EachControl
<1>2. CASE (\E k \in DOMAIN Options : OpenMenu(k)) \/ CloseMenu
  BY <1>2 DEF OpenMenu, CloseMenu
<1>3. CASE Render
  BY <1>3 DEF Render
<1>4. CASE SearchSettles
  BY <1>4 DEF SearchSettles
<1>5. CASE (\E fleet \in Fleets : RowsArrive(fleet)) \/ RowsFail
  BY <1>5 DEF RowsArrive, RowsFail
<1>6. CASE Reload
  BY <1>6 DEF Reload, FreshSidebar, ViewAssumption
<1>7. CASE UNCHANGED viewVars
  BY <1>7 DEF viewVars
<1> QED
  BY <1>1, <1>2, <1>3, <1>4, <1>5, <1>6, <1>7 DEF ViewNext

----------------------------------------------------------------------------
(* InventoryView: clicks and chips.                                        *)

\* A step changes the URL in the places one click may change.
OneChange ==
    LET changed == {p \in UrlParams \ {"page"} : url'[p] # url[p]}
    IN \/ Cardinality(changed) <= 1
       \/ changed \in SUBSET {"sort", "sort_desc"}
       \/ changed \in SUBSET {"health", "maintenance"}
       \/ \A p \in FilterParams : url'[p] = Blank(p)

LEMMA AtMostOne ==
    ASSUME NEW S, NEW p, S \in SUBSET {p}
    PROVE  Cardinality(S) <= 1
<1>1. IsFiniteSet({p}) /\ Cardinality({p}) = 1
  BY FS_Singleton
<1> QED
  BY <1>1, FS_Subset

LEMMA NoneLost ==
    ASSUME ViewAssumption, ViewInv, [ViewNext]_viewVars
    PROVE  OneChange
<1> DEFINE changed == {p \in UrlParams \ {"page"} : url'[p] # url[p]}
<1>1. CASE Controls
  <2>1. CASE \E patch : FilterClick(patch)
    <3>1. PICK patch : FilterClick(patch)
      BY <2>1
    <3>2. \A p \in UrlParams \ {"page"} :
             url'[p] = IF p \in DOMAIN patch THEN patch[p] ELSE url[p]
      BY <3>1, FiltersChange DEF FilterClick, ViewInv, ViewTypeOK
    <3>3. changed \in SUBSET (DOMAIN patch)
      BY <3>2
    <3>4. CASE \E p : DOMAIN patch = {p}
      BY <3>3, <3>4, AtMostOne DEF OneChange
    <3>5. CASE DOMAIN patch \in SUBSET {"sort", "sort_desc"}
      BY <3>3, <3>5 DEF OneChange
    <3>6. CASE DOMAIN patch \in SUBSET {"health", "maintenance"}
      BY <3>3, <3>6 DEF OneChange
    <3>7. CASE DOMAIN patch = FilterParams /\ \A p \in FilterParams : patch[p] = Blank(p)
      <4>1. \A p \in FilterParams : p \in UrlParams \ {"page"}
        BY BlankValues
      <4> QED
        BY <3>2, <3>7, <4>1 DEF OneChange
    <3> QED
      BY <3>1, <3>4, <3>5, <3>6, <3>7 DEF FilterClick, OnePlace
  <2>2. CASE \E n \in {Shown.page - 1, Shown.page + 1} : GoToPage(n)
    <3>1. changed = {}
      BY <2>2 DEF GoToPage, Navigate
    <3> QED
      BY <3>1 DEF OneChange
  <2>3. CASE HideSidebar \/ \E q \in ClusterQueries : NarrowClusters(q)
    <3>1. changed = {}
      BY <2>3 DEF HideSidebar, NarrowClusters
    <3> QED
      BY <3>1 DEF OneChange
  <2> QED
    BY <1>1, <2>1, <2>2, <2>3, EachControl
<1>2. CASE UNCHANGED url
  <2>1. changed = {}
    BY <1>2
  <2> QED
    BY <2>1 DEF OneChange
<1>3. Controls \/ UNCHANGED url
  BY DEF ViewNext, viewVars, OpenMenu, CloseMenu, Render, SearchSettles, RowsArrive, RowsFail, Reload
<1> QED
  BY <1>1, <1>2, <1>3

\* Filters that are all blank keep every row.
LEMMA NothingFilters ==
    ASSUME NEW S, Rows \in Seq(S), NEW u, NEW text,
           \A k \in MultiKeys : u[k] = {}, \A f \in UrlFlags : ~u[f],
           MaintenanceMode(u) = "include", text.kind = "blank"
    PROVE  FilterRows(Rows, Filters(u, text)) = Rows
<1> DEFINE filters == Filters(u, text)
<1>1. \A k \in MultiKeys : filters.multi[k] = {}
  BY DEF Filters
<1>2. filters.flags = {}
  BY DEF Filters
<1>3. filters.maintenance = "include" /\ filters.search.kind = "blank"
  BY DEF Filters
<1> HIDE DEF filters
<1>4. \A row : Keeps(Rows, filters, row)
  BY <1>1, <1>2, <1>3 DEF Keeps
<1>5. \A row : ParseSearch(filters.search, row)
  BY <1>3 DEF ParseSearch
<1>6. Kept(Rows, filters) = DOMAIN Rows
  BY <1>4, <1>5 DEF Kept
<1>7. RowsAt(Rows, DOMAIN Rows) = Rows
  BY AllRows
<1> QED
  BY <1>6, <1>7 DEF FilterRows, filters

LEMMA ClearedKeepAll ==
    ASSUME ViewAssumption, ViewTypeOK, ClearFilters
    PROVE  FilterRows(Rows, Filters(url', url'["search"])) = Rows
<1> DEFINE patch == [p \in FilterParams |-> Blank(p)]
<1>1. UpdateFilters(patch) /\ DOMAIN url = UrlParams
  BY DEF ClearFilters, ViewTypeOK
<1>2. \A p \in UrlParams \ {"page"} :
             url'[p] = IF p \in DOMAIN patch THEN patch[p] ELSE url[p]
  BY <1>1, FiltersChange
<1>3. \A p \in FilterParams : url'[p] = Blank(p)
  BY <1>2, BlankValues
<1> HIDE DEF patch
<1>4. \A k \in MultiKeys : url'[k] = {}
  BY <1>3, BlankValues
<1>5. \A f \in UrlFlags : ~url'[f]
  BY <1>3, BlankValues
<1>6. url'["search"].kind = "blank"
  BY <1>3, BlankValues DEF NoFilters
<1>7. MaintenanceMode(url') = "include"
  BY <1>3, BlankValues DEF MaintenanceMode, ViewAssumption
<1>8. Rows \in Seq(ToSet(Rows))
  BY RowsAreAList
<1> DEFINE u == url'
<1> HIDE DEF u
<1> QED
  BY <1>4, <1>5, <1>6, <1>7, <1>8, NothingFilters DEF u

LEMMA ChipsUndo ==
    ASSUME ViewAssumption, ViewTypeOK
    PROVE  ChipsExplainTheView
<1> DEFINE blank == {c.key : c \in {d \in ActiveFilters : d.value = Null}}
           left == [p \in UrlParams |->
                       IF p \in blank THEN Blank(p)
                       ELSE IF p \in MultiKeys
                            THEN shown[p] \ {c.value : c \in {d \in ActiveFilters : d.key = p}}
                            ELSE shown[p]]
           text == IF "search" \in blank THEN Blank("search") ELSE debounced
<1>1. ASSUME NEW k \in MultiKeys
      PROVE  left[k] = {}
  <2>1. k \in UrlParams /\ Blank(k) = {}
    BY BlankValues
  <2>2. ASSUME NEW v \in shown[k]
        PROVE  v \in {c.value : c \in {d \in ActiveFilters : d.key = k}}
    <3>1. [key |-> k, value |-> v] \in ActiveFilters
      BY <2>2 DEF ActiveFilters
    <3> QED
      BY <3>1
  <2> QED
    BY <2>1, <2>2
<1>2. ASSUME NEW f \in UrlFlags
      PROVE  ~left[f]
  <2>1. f \in UrlParams /\ f \notin MultiKeys /\ Blank(f) = FALSE
    BY BlankValues
  <2>2. ASSUME shown[f]
        PROVE  f \in blank
    <3>1. [key |-> f, value |-> Null] \in ActiveFilters
      BY <2>2 DEF ActiveFilters
    <3> QED
      BY <3>1
  <2> QED
    BY <2>1, <2>2
<1>3. MaintenanceMode(left) = "include"
  <2>1. "maintenance" \in UrlParams /\ "maintenance" \notin MultiKeys /\ Blank("maintenance") = Null
    BY BlankValues
  <2>2. ASSUME MaintenanceMode(shown) # "include"
        PROVE  "maintenance" \in blank
    <3>1. [key |-> "maintenance", value |-> Null] \in ActiveFilters
      BY <2>2 DEF ActiveFilters
    <3> QED
      BY <3>1
  <2>3. left["maintenance"] \in {Null, shown["maintenance"]}
    BY <2>1
  <2>4. left["maintenance"] = Null \/ MaintenanceMode(shown) = "include"
    BY <2>1, <2>2
  <2> HIDE DEF left
  <2> QED
    BY <2>3, <2>4 DEF MaintenanceMode, ViewAssumption
<1>4. text.kind = "blank"
  <2>1. ASSUME debounced # Blank("search")
        PROVE  "search" \in blank
    <3>1. [key |-> "search", value |-> Null] \in ActiveFilters
      BY <2>1 DEF ActiveFilters
    <3> QED
      BY <3>1
  <2>2. text = NoFilters.search
    BY <2>1, BlankValues
  <2> QED
    BY <2>2 DEF NoFilters
<1>5. Rows \in Seq(ToSet(Rows))
  BY RowsAreAList
<1> HIDE DEF left, text
<1>6. FilterRows(Rows, Filters(left, text)) = Rows
  BY <1>1, <1>2, <1>3, <1>4, <1>5, NothingFilters
<1> QED
  BY <1>6 DEF ChipsExplainTheView, left, text, blank

----------------------------------------------------------------------------
(* InventoryView: the numbers beside the options.                          *)

\* A list of rows and the places some filters keep.
LEMMA KeptPlaces ==
    ASSUME NEW S, NEW rows \in Seq(S), NEW filters
    PROVE  /\ Kept(rows, filters) \in SUBSET (DOMAIN rows)
           /\ Len(rows) \in Nat /\ DOMAIN rows = 1 .. Len(rows)
           /\ IsFiniteSet(Kept(rows, filters))
           /\ Len(FilterRows(rows, filters)) = Cardinality(Kept(rows, filters))
           /\ DOMAIN FilterRows(rows, filters) = 1 .. Cardinality(Kept(rows, filters))
<1>1. Kept(rows, filters) \in SUBSET (DOMAIN rows)
  BY DEF Kept
<1>2. Len(rows) \in Nat /\ DOMAIN rows = 1 .. Len(rows)
  OBVIOUS
<1> QED
  BY <1>1, <1>2, Ranks, RowsAtPlaces DEF FilterRows

\* The number beside an option counts places: those the other filters keep
\* whose row has the value.
LEMMA CountsPlaces ==
    ASSUME NEW S, NEW rows \in Seq(S), NEW filters, NEW key \in MultiKeys, NEW value
    PROVE  DropdownFacetCount(rows, filters, key, value)
             = Cardinality({i \in Kept(rows, Without(filters, key)) :
                               ValueUnder(rows[i], key) = value})
<1> DEFINE P == Kept(rows, Without(filters, key))
           Q == {i \in P : ValueUnder(rows[i], key) = value}
           at == RowsAt(rows, P)
<1>1. P \in SUBSET (1 .. Len(rows)) /\ Len(rows) \in Nat
  BY KeptPlaces
<1>2. key # "maintenance"
  BY BlankValues
<1> HIDE DEF P
<1>3. DOMAIN at = 1 .. Cardinality(P) /\ \A n \in DOMAIN at : at[n] = rows[Place(P, n)]
  BY <1>1, RowsAtPlaces
<1>4. \A n \in 1 .. Cardinality(P) : Place(P, n) \in P
  BY <1>1, Ranks
<1>5. {n \in DOMAIN at : ValueUnder(at[n], key) = value}
        = {n \in 1 .. Cardinality(P) : Place(P, n) \in Q}
  <2> HIDE DEF at
  <2> QED
    BY <1>3, <1>4
<1>6. FacetCount(at, key, value) = Cardinality({n \in DOMAIN at : ValueUnder(at[n], key) = value})
  BY <1>2 DEF FacetCount
<1>7. Cardinality({n \in 1 .. Cardinality(P) : Place(P, n) \in Q}) = Cardinality(Q)
  BY <1>1, CountedAtPlaces
<1> QED
  BY <1>5, <1>6, <1>7 DEF DropdownFacetCount, FilterRows, P

\* A list's own filter narrows what the others keep.
LEMMA KeptByOthers ==
    ASSUME NEW rows, NEW u, NEW text, NEW key \in MultiKeys
    PROVE  LET filters == Filters(u, text)
           IN Kept(rows, filters)
                = {i \in Kept(rows, Without(filters, key)) :
                      u[key] = {} \/ ValueUnder(rows[i], key) \in u[key]}
<1> DEFINE filters == Filters(u, text)
           others == Without(filters, key)
<1>1. key # "maintenance"
  BY BlankValues
<1>2. /\ others.search = filters.search /\ others.flags = filters.flags
      /\ others.maintenance = filters.maintenance
      /\ \A k \in MultiKeys : others.multi[k] = IF k = key THEN {} ELSE filters.multi[k]
  BY <1>1 DEF Without, Filters
<1>3. filters.multi[key] = u[key]
  BY DEF Filters
<1> HIDE DEF filters, others
<1>4. \A row : Keeps(rows, filters, row)
                 <=> /\ Keeps(rows, others, row)
                     /\ u[key] = {} \/ ValueUnder(row, key) \in u[key]
  BY <1>2, <1>3 DEF Keeps
<1>5. Kept(rows, filters) = {i \in Kept(rows, others) :
                                u[key] = {} \/ ValueUnder(rows[i], key) \in u[key]}
  BY <1>2, <1>4 DEF Kept
<1> QED
  BY <1>5 DEF filters, others

\* What the other filters keep does not depend on it.
LEMMA OthersAreTheSame ==
    ASSUME NEW key \in MultiKeys, NEW text,
           NEW u, NEW w, \A p \in UrlParams \ {key} : w[p] = u[p]
    PROVE  Without(Filters(w, text), key) = Without(Filters(u, text), key)
<1>1. \A p \in UrlParams \ {key} : w[p] = u[p]
  OBVIOUS
<1>2. key # "maintenance" /\ key \notin UrlFlags /\ "maintenance" \in UrlParams
      /\ UrlFlags \in SUBSET UrlParams /\ MultiKeys \in SUBSET UrlParams
  BY BlankValues
<1>3. MaintenanceMode(w) = MaintenanceMode(u)
  BY <1>1, <1>2 DEF MaintenanceMode
<1>4. {f \in UrlFlags : w[f]} = {f \in UrlFlags : u[f]}
  BY <1>1, <1>2
<1>5. \A x : Without(Filters(x, text), key)
        = [search |-> text, multi |-> [k \in MultiKeys |-> IF k = key THEN {} ELSE x[k]],
           maintenance |-> MaintenanceMode(x), flags |-> {f \in UrlFlags : x[f]}]
  BY <1>2 DEF Without, Filters
<1>6. [k \in MultiKeys |-> IF k = key THEN {} ELSE w[k]]
        = [k \in MultiKeys |-> IF k = key THEN {} ELSE u[k]]
  BY <1>1, <1>2
<1> QED
  BY <1>3, <1>4, <1>5, <1>6

\* Ticking one more value of a list.
LEMMA TickingAdds ==
    ASSUME ViewAssumption, ViewTypeOK, NEW key \in MultiKeys, NEW value, NEW count,
           count = DropdownFacetCount(Rows, Filters(shown, debounced), key, value)
    PROVE  AddsItsCount(key, value, count)
<1> SUFFICES ASSUME value \notin shown[key]
             PROVE  LeftByTicking(key, value)
                      = count + (IF shown[key] = {} THEN 0 ELSE Len(Matched))
  BY DEF AddsItsCount
<1> DEFINE now == Filters(shown, debounced)
           ticked == [shown EXCEPT ![key] = @ \cup {value}]
           next == Filters(ticked, debounced)
           P == Kept(Rows, Without(now, key))
           Q == {i \in P : ValueUnder(Rows[i], key) = value}
           R == {i \in P : ValueUnder(Rows[i], key) \in shown[key]}
<1>1. Rows \in Seq(ToSet(Rows))
  BY RowsAreAList
<1>2. IsFiniteSet(P)
  BY <1>1, KeptPlaces
<1>3. count = Cardinality(Q)
  <2> HIDE DEF now
  <2>1. DropdownFacetCount(Rows, now, key, value) = Cardinality(Q)
    BY <1>1, CountsPlaces
  <2> QED
    BY <2>1 DEF now
<1>4. ticked = [shown EXCEPT ![key] = shown[key] \cup {value}]
      /\ ticked[key] = shown[key] \cup {value}
  BY BlankValues DEF ViewTypeOK
<1>5. Without(next, key) = Without(now, key)
  <2>1. \A p \in UrlParams \ {key} : ticked[p] = shown[p]
    BY DEF ViewTypeOK
  <2> HIDE DEF ticked
  <2> QED
    BY <2>1, OthersAreTheSame
<1>6. Kept(Rows, next) = Q \cup R
  <2>1. Kept(Rows, next) = {i \in P : ValueUnder(Rows[i], key) \in shown[key] \cup {value}}
    <3> HIDE DEF ticked
    <3>1. Kept(Rows, next) = {i \in Kept(Rows, Without(next, key)) :
                                 ticked[key] = {} \/ ValueUnder(Rows[i], key) \in ticked[key]}
      BY KeptByOthers
    <3> HIDE DEF next, now
    <3> QED
      BY <1>4, <1>5, <3>1
  <2> HIDE DEF P, next
  <2> QED
    BY <2>1
<1>7. LeftByTicking(key, value) = Cardinality(Q \cup R)
  <2>1. LeftByTicking(key, value) = Len(FilterRows(Rows, next))
    BY DEF LeftByTicking
  <2> HIDE DEF next, P, Q, R
  <2>2. Len(FilterRows(Rows, next)) = Cardinality(Kept(Rows, next))
    BY <1>1, KeptPlaces
  <2> QED
    BY <1>6, <2>1, <2>2
<1>8. Len(Matched) = Cardinality(Kept(Rows, now))
  <2>1. /\ DOMAIN FilterRows(Rows, now) = 1 .. Cardinality(Kept(Rows, now))
        /\ IsFiniteSet(Kept(Rows, now))
    BY <1>1, KeptPlaces
  <2>2. Cardinality(Kept(Rows, now)) \in Nat
    BY <2>1, FS_CardinalityType
  <2> HIDE DEF now
  <2> QED
    BY <2>1, <2>2 DEF Matched, SortRows, now
<1>9. Kept(Rows, now) = IF shown[key] = {} THEN P ELSE R
  <2>1. Kept(Rows, now) = {i \in Kept(Rows, Without(now, key)) :
                              shown[key] = {} \/ ValueUnder(Rows[i], key) \in shown[key]}
    BY KeptByOthers
  <2> HIDE DEF now
  <2> QED
    BY <2>1
<1>10. /\ IsFiniteSet(Q) /\ Cardinality(Q) \in Nat
       /\ IsFiniteSet(R) /\ Cardinality(R) \in Nat
       /\ Q \cap R = {}
  <2>1. Q \in SUBSET P /\ R \in SUBSET P /\ Q \cap R = {}
    OBVIOUS
  <2> HIDE DEF P, Q, R
  <2>2. IsFiniteSet(Q) /\ IsFiniteSet(R)
    BY <1>2, <2>1, FS_Subset
  <2> QED
    BY <2>1, <2>2, FS_CardinalityType
<1>11. shown[key] = {} => R = {}
  OBVIOUS
<1> HIDE DEF P, Q, R, now, next
<1>12. CASE shown[key] = {}
  <2>1. Q \cup R = Q
    BY <1>11, <1>12
  <2>2. LeftByTicking(key, value) = count /\ count \in Nat
    BY <1>3, <1>7, <1>10, <2>1
  <2> QED
    BY <1>12, <2>2
<1>13. CASE shown[key] # {}
  <2>1. Cardinality(Q \cap R) = 0
    BY <1>10, FS_EmptySet
  <2>2. Cardinality(Q \cup R) = Cardinality(Q) + Cardinality(R) - Cardinality(Q \cap R)
    BY <1>10, FS_Union
  <2> QED
    BY <1>3, <1>7, <1>8, <1>9, <1>10, <1>13, <2>1, <2>2
<1> QED
  BY <1>12, <1>13

\* Maintenance narrows to its own number.
LEMMA MaintenanceLeavesIts ==
    ASSUME ViewAssumption, ViewTypeOK
    PROVE  OptionCount("health", MaintenanceOption)
             = Len(FilterRows(Rows, Filters([shown EXCEPT !["maintenance"] = "true"], debounced)))
<1> DEFINE now == Filters(shown, debounced)
           others == Without(now, "maintenance")
           only == [shown EXCEPT !["maintenance"] = "true"]
           next == Filters(only, debounced)
           P == Kept(Rows, others)
           Q == {i \in P : Rows[i].maintenance.enabled = TRUE}
           at == RowsAt(Rows, P)
<1>1. Rows \in Seq(ToSet(Rows))
  BY RowsAreAList
<1>2. P \in SUBSET (1 .. Len(Rows)) /\ Len(Rows) \in Nat
  BY <1>1, KeptPlaces
<1>3. /\ others.search = debounced /\ others.flags = {f \in UrlFlags : shown[f]}
      /\ others.maintenance = "include"
      /\ \A k \in MultiKeys : others.multi[k] = shown[k]
  BY DEF Without, Filters
<1>4. /\ next.search = debounced /\ next.flags = {f \in UrlFlags : shown[f]}
      /\ next.maintenance = "only"
      /\ \A k \in MultiKeys : next.multi[k] = shown[k]
  <2>1. /\ "maintenance" \in UrlParams /\ "maintenance" \notin MultiKeys \cup UrlFlags
        /\ MultiKeys \cup UrlFlags \in SUBSET UrlParams
    BY BlankValues
  <2>2. only["maintenance"] = "true" /\ \A p \in MultiKeys \cup UrlFlags : only[p] = shown[p]
    BY <2>1 DEF ViewTypeOK
  <2> HIDE DEF only
  <2>3. MaintenanceMode(only) = "only"
    BY <2>2 DEF MaintenanceMode
  <2>4. {f \in UrlFlags : only[f]} = {f \in UrlFlags : shown[f]}
    BY <2>2
  <2> QED
    BY <2>2, <2>3, <2>4 DEF Filters
<1> HIDE DEF others, next
<1>5. \A row : Keeps(Rows, next, row) <=> Keeps(Rows, others, row) /\ TRUE = row.maintenance.enabled
  BY <1>3, <1>4 DEF Keeps
<1>6. Kept(Rows, next) = Q
  BY <1>3, <1>4, <1>5 DEF Kept
<1>7. OptionCount("health", MaintenanceOption)
        = Cardinality({n \in DOMAIN at : at[n].maintenance.enabled = TRUE})
  BY DEF OptionCount, DropdownFacetCount, FacetCount, FilterRows, others
<1> HIDE DEF P
<1>8. DOMAIN at = 1 .. Cardinality(P) /\ \A n \in DOMAIN at : at[n] = Rows[Place(P, n)]
  BY <1>2, RowsAtPlaces
<1>9. \A n \in 1 .. Cardinality(P) : Place(P, n) \in P
  BY <1>2, Ranks
<1>10. {n \in DOMAIN at : at[n].maintenance.enabled = TRUE}
         = {n \in 1 .. Cardinality(P) : Place(P, n) \in Q}
  <2> HIDE DEF at
  <2> QED
    BY <1>8, <1>9
<1>11. Cardinality({n \in 1 .. Cardinality(P) : Place(P, n) \in Q}) = Cardinality(Q)
  <2>1. Q \in SUBSET P
    OBVIOUS
  <2> HIDE DEF Q
  <2> QED
    BY <1>2, <2>1, CountedAtPlaces
<1>12. Len(FilterRows(Rows, next)) = Cardinality(Kept(Rows, next))
  BY <1>1, KeptPlaces
<1> QED
  BY <1>6, <1>7, <1>10, <1>11, <1>12 DEF next

LEMMA CountsSay ==
    ASSUME ViewAssumption, ViewTypeOK
    PROVE  CountsSayWhatTickingDoes
<1>1. ASSUME NEW k \in DOMAIN Options, NEW v \in Options[k]
      PROVE  AddsItsCount(k, v, OptionCount(k, v))
  <2>1. k \in MultiKeys /\ ~(k = "health" /\ v = MaintenanceOption)
    BY DEF ViewAssumption, DropdownKeys
  <2>2. OptionCount(k, v) = DropdownFacetCount(Rows, Filters(shown, debounced), k, v)
    BY <2>1 DEF OptionCount
  <2> QED
    BY <2>1, <2>2, TickingAdds
<1>2. ASSUME NEW o \in Facets.mces
      PROVE  AddsItsCount("mce_name", o.name, o.count)
  <2>1. o.count = DropdownFacetCount(Rows, Filters(shown, debounced), "mce_name", o.name)
    BY DEF Facets, ClusterFacets
  <2>2. "mce_name" \in MultiKeys
    BY DEF MultiKeys
  <2> QED
    BY <2>1, <2>2, TickingAdds
<1>3. ASSUME NEW o \in Facets.hosted \cup Facets.upi
      PROVE  AddsItsCount("cluster_name", o.name, o.count)
  <2>1. o.count = DropdownFacetCount(Rows, Filters(shown, debounced), "cluster_name", o.name)
    BY DEF Facets, ClusterFacets
  <2>2. "cluster_name" \in MultiKeys
    BY DEF MultiKeys
  <2> QED
    BY <2>1, <2>2, TickingAdds
<1> QED
  BY <1>1, <1>2, <1>3, MaintenanceLeavesIts DEF CountsSayWhatTickingDoes

----------------------------------------------------------------------------
(* SitesView: the links and the numbers they carry.                        *)

\* The link last followed is one of a slice, with the number of it there was.
CanLink(slice) == slice.maintenance \in {Null, TRUE}
OfASlice(link) ==
    \E slice : /\ CanLink(slice)
               /\ link.to = LinkTo(slice)
               /\ link.number = CountOf(link.of, slice)
SitesInv ==
    /\ SitesTypeOK
    /\ followed # Null => OfASlice(followed)

\* Every card and every count on one is of a slice a link can be made for.
LEMMA CardsAreSlices ==
    ASSUME NEW card \in Cards, NEW slice \in {card} \cup DrillIns(stats, card)
    PROVE  CanLink(slice)
<1>1. "maintenance" \in DOMAIN card /\ card.maintenance = Null
  <2>1. "maintenance" \in DOMAIN Whole /\ Whole.maintenance = Null
    BY DEF Whole
  <2>2. \A x : /\ "maintenance" \in DOMAIN [Whole EXCEPT !.site = x]
               /\ [Whole EXCEPT !.site = x].maintenance = Null
               /\ "maintenance" \in DOMAIN [Whole EXCEPT !.installation = x]
               /\ [Whole EXCEPT !.installation = x].maintenance = Null
               /\ "maintenance" \in DOMAIN [Whole EXCEPT !.state = x]
               /\ [Whole EXCEPT !.state = x].maintenance = Null
    BY DEF Whole
  <2>3. \/ card = Whole
        \/ \E x : card = [Whole EXCEPT !.site = x]
        \/ \E x : card = [Whole EXCEPT !.installation = x]
        \/ \E x : card = [Whole EXCEPT !.state = x]
    BY DEF Cards, FleetCards, SiteCards
  <2> QED
    BY <2>1, <2>2, <2>3
<1>2. \/ slice = card
      \/ \E h : slice = [card EXCEPT !.health = h]
      \/ slice = [card EXCEPT !.maintenance = TRUE]
      \/ \E s : slice = [card EXCEPT !.state = s]
  BY DEF DrillIns
<1> QED
  BY <1>1, <1>2 DEF CanLink

LEMMA SitesStart ==
    ASSUME SitesInit
    PROVE  SitesInv
<1> QED
  BY DEF SitesInit, SitesInv, SitesTypeOK

LEMMA SitesStep ==
    ASSUME SitesInv, [SitesNext]_sitesVars
    PROVE  SitesInv'
<1>1. SitesTypeOK'
  <2> USE DEF SitesInv, SitesTypeOK
  <2>1. CASE \E fleet \in SiteFleets : ServersChange(fleet)
    BY <2>1 DEF ServersChange
  <2>2. CASE StatsExpire
    BY <2>2 DEF StatsExpire
  <2>3. CASE FetchSites
    BY <2>3 DEF FetchSites
  <2>4. CASE FetchSitesFails
    BY <2>4 DEF FetchSitesFails
  <2>5. CASE \E card \in Cards : \E slice \in {card} \cup DrillIns(stats, card) : Follow(card, slice)
    BY <2>5 DEF Follow
  <2>6. CASE UNCHANGED sitesVars
    BY <2>6 DEF sitesVars
  <2> QED
    BY <2>1, <2>2, <2>3, <2>4, <2>5, <2>6 DEF SitesNext
<1>2. CASE \E card \in Cards : \E slice \in {card} \cup DrillIns(stats, card) : Follow(card, slice)
  <2>1. PICK card \in Cards : \E slice \in {card} \cup DrillIns(stats, card) : Follow(card, slice)
    BY <1>2
  <2>2. PICK slice \in {card} \cup DrillIns(stats, card) : Follow(card, slice)
    BY <2>1
  <2>3. CanLink(slice)
    BY CardsAreSlices
  <2>4. /\ followed'.to = LinkTo(slice)
        /\ followed'.number = CountOf(followed'.of, slice)
    BY <2>2 DEF Follow
  <2>5. OfASlice(followed')
    BY <2>3, <2>4 DEF OfASlice
  <2> QED
    BY <1>1, <2>5 DEF SitesInv
<1>3. CASE UNCHANGED followed
  BY <1>1, <1>3 DEF SitesInv
<1>4. UNCHANGED followed
      \/ \E card \in Cards : \E slice \in {card} \cup DrillIns(stats, card) : Follow(card, slice)
  BY DEF SitesNext, sitesVars, ServersChange, StatsExpire, FetchSites, FetchSitesFails
<1> QED
  BY <1>2, <1>3, <1>4

\* The row of a current document carries the values the document counts under,
\* and the rest of the document.
LEMMA CurrentRows ==
    ASSUME ViewAssumption, SitesAssumption, NEW doc, IsCurrent(doc),
           EnumFields \in SUBSET DOMAIN doc
    PROVE  /\ Decodes(doc)
           /\ \A field \in EnumFields : RowOf(doc)[field] = Bucket(doc, field)
           /\ ValueUnder(RowOf(doc), "site_id") = SiteOf(doc)
           /\ RowOf(doc).maintenance = doc.maintenance
<1>1. /\ \A field \in EnumFields : CatchAll[field] \in Today[field]
      /\ "INFO" \notin Today["health"]
  BY DEF EnumFields, CatchAll, Today, SEVERITY_ORDER, ToSet
<1>2. ASSUME NEW field \in EnumFields
      PROVE  Decoded(doc, field) = Bucket(doc, field) /\ Decoded(doc, field) \in Today[field]
  <2>1. doc[field] \in Today[field] \cup {Null}
    BY DEF IsCurrent
  <2>2. CASE doc[field] = Null
    BY <1>1, <2>2, SitesAssumption DEF Decoded, Bucket
  <2>3. CASE doc[field] # Null
    <3>1. doc[field] \in Today[field]
      BY <2>1, <2>3
    <3>2. ~(field = "health" /\ doc[field] = "INFO")
      BY <1>1, <3>1
    <3> QED
      BY <2>3, <3>1, <3>2 DEF Decoded, Bucket
  <2> QED
    BY <2>2, <2>3
<1>3. /\ RowOf(doc)["installation_type"] = Decoded(doc, "installation_type")
      /\ RowOf(doc)["openshift_state"] = Decoded(doc, "openshift_state")
      /\ RowOf(doc)["health"] = Decoded(doc, "health")
      /\ RowOf(doc).site_id = doc.site_id
      /\ RowOf(doc).maintenance = doc.maintenance
  BY DEF RowOf, EnumFields
<1>4. \A field \in EnumFields : RowOf(doc)[field] = Bucket(doc, field)
  BY <1>2, <1>3 DEF EnumFields
<1>5. ValueUnder(RowOf(doc), "site_id") = SiteOf(doc)
  BY <1>3 DEF ValueUnder, SiteOf, SitesAssumption, IsCurrent
<1> QED
  BY <1>2, <1>3, <1>4, <1>5 DEF Decodes

\* The filters a slice's link puts on keep the rows of the documents of the
\* slice, of a fleet of current documents.
LEMMA LinkKeepsItsSlice ==
    ASSUME ViewAssumption, SitesAssumption, NEW slice, CanLink(slice),
           NEW docs, \A i \in DOMAIN docs : IsCurrent(docs[i]),
           \A i \in DOMAIN docs : EnumFields \in SUBSET DOMAIN docs[i],
           NEW rows, DOMAIN rows = DOMAIN docs,
           \A i \in DOMAIN docs : rows[i] = RowOf(docs[i])
    PROVE  Kept(rows, Filters(LinkTo(slice), Blank("search")))
             = {i \in DOMAIN docs : InSlice(docs[i], slice)}
<1> DEFINE u == LinkTo(slice)
           one(v) == IF v = Null THEN {} ELSE {v}
           filters == Filters(u, Blank("search"))
           Linked == {"site_id", "installation_type", "openshift_state", "health"}
<1>1. /\ u["site_id"] = one(slice.site)
      /\ u["installation_type"] = one(slice.installation)
      /\ u["openshift_state"] = one(slice.state)
      /\ u["health"] = one(slice.health)
      /\ u["maintenance"] = IF slice.maintenance = Null THEN Null ELSE "true"
      /\ \A p \in UrlParams \ (Linked \cup {"maintenance"}) : u[p] = Blank(p)
  BY DEF LinkTo, BlankUrl, UrlParams, FilterParams, MultiKeys
<1> HIDE DEF u
<1>2. /\ \A k \in MultiKeys : filters.multi[k] = u[k]
      /\ filters.search.kind = "blank"
      /\ filters.maintenance = IF slice.maintenance = Null THEN "include" ELSE "only"
  <2>1. MaintenanceMode(u) = IF slice.maintenance = Null THEN "include" ELSE "only"
    BY <1>1 DEF MaintenanceMode, ViewAssumption
  <2> QED
    BY <2>1, BlankValues DEF Filters, NoFilters
<1>3. filters.flags = {}
  <2>1. \A f \in UrlFlags : f \in UrlParams \ (Linked \cup {"maintenance"})
    BY DEF UrlFlags, FlagKeys, UrlParams, FilterParams
  <2>2. \A f \in UrlFlags : u[f] = FALSE
    BY <1>1, <2>1, BlankValues
  <2> QED
    BY <2>2 DEF Filters
<1>4. \A k \in MultiKeys \ Linked : u[k] = {}
  <2>1. \A k \in MultiKeys \ Linked : k \in UrlParams \ (Linked \cup {"maintenance"})
    BY BlankValues
  <2> QED
    BY <1>1, <2>1, BlankValues
<1>5. Linked \in SUBSET MultiKeys
  BY DEF MultiKeys
<1> HIDE DEF filters
<1>6. ASSUME NEW i \in DOMAIN rows
      PROVE  Keeps(rows, filters, rows[i]) <=> InSlice(docs[i], slice)
  <2> DEFINE row == rows[i]
           doc == docs[i]
  <2>0. /\ row = RowOf(doc) /\ IsCurrent(doc) /\ EnumFields \in SUBSET DOMAIN doc
    OBVIOUS
  <2>1. (filters.maintenance # "include" => (filters.maintenance = "only") = row.maintenance.enabled)
           <=> slice.maintenance \in {Null, doc.maintenance.enabled}
    <3>1. row.maintenance = doc.maintenance
      BY <2>0, CurrentRows
    <3> HIDE DEF row, doc
    <3> QED
      BY <1>2, <3>1 DEF CanLink
  <2>2. ValueUnder(row, "site_id") = SiteOf(doc)
    BY <2>0, CurrentRows
  <2>3. /\ ValueUnder(row, "installation_type") = Bucket(doc, "installation_type")
        /\ ValueUnder(row, "openshift_state") = Bucket(doc, "openshift_state")
        /\ ValueUnder(row, "health") = Bucket(doc, "health")
    BY <2>0, CurrentRows DEF ValueUnder, EnumFields
  <2>4. (\A k \in MultiKeys : filters.multi[k] = {} \/ ValueUnder(row, k) \in filters.multi[k])
           <=> /\ slice.site \in {Null, SiteOf(doc)}
               /\ slice.installation \in {Null, Bucket(doc, "installation_type")}
               /\ slice.state \in {Null, Bucket(doc, "openshift_state")}
               /\ slice.health \in {Null, Bucket(doc, "health")}
    <3>1. (\A k \in MultiKeys : filters.multi[k] = {} \/ ValueUnder(row, k) \in filters.multi[k])
             <=> (\A k \in Linked : u[k] = {} \/ ValueUnder(row, k) \in u[k])
      BY <1>2, <1>4, <1>5
    <3>2. \A v, x : (one(v) = {} \/ x \in one(v)) <=> v \in {Null, x}
      OBVIOUS
    <3>3. (\A k \in Linked : u[k] = {} \/ ValueUnder(row, k) \in u[k])
             <=> /\ u["site_id"] = {} \/ ValueUnder(row, "site_id") \in u["site_id"]
                 /\ u["installation_type"] = {}
                    \/ ValueUnder(row, "installation_type") \in u["installation_type"]
                 /\ u["openshift_state"] = {}
                    \/ ValueUnder(row, "openshift_state") \in u["openshift_state"]
                 /\ u["health"] = {} \/ ValueUnder(row, "health") \in u["health"]
      OBVIOUS
    <3> HIDE DEF one, row, doc, Linked
    <3> QED
      BY <1>1, <2>2, <2>3, <3>1, <3>2, <3>3
  <2> HIDE DEF row, doc
  <2> QED
    BY <1>3, <2>1, <2>4 DEF Keeps, InSlice, row, doc
<1>7. \A row : ParseSearch(filters.search, row)
  BY <1>2 DEF ParseSearch
<1>8. Kept(rows, filters) = {i \in DOMAIN docs : InSlice(docs[i], slice)}
  BY <1>6, <1>7 DEF Kept
<1> QED
  BY <1>8 DEF filters, u

LEMMA LinksList ==
    ASSUME ViewAssumption, SitesAssumption, SitesInv
    PROVE  CurrentLinksListTheirCount
<1> SUFFICES ASSUME \A i \in DOMAIN servers : IsCurrent(servers[i]),
                    followed # Null, followed.of = servers
             PROVE  /\ \A i \in DOMAIN servers : Decodes(servers[i])
                    /\ Len(Listed) = followed.number
  BY DEF CurrentLinksListTheirCount, LinksListTheirCount
<1>1. PICK slice : /\ CanLink(slice)
                   /\ followed.to = LinkTo(slice)
                   /\ followed.number = CountOf(followed.of, slice)
  BY DEF SitesInv, OfASlice
<1>2. /\ servers \in Seq(ToSet(servers))
      /\ \A i \in DOMAIN servers : EnumFields \in SUBSET DOMAIN servers[i]
  BY DEF SitesInv, SitesTypeOK, SitesAssumption
<1> DEFINE filters == Filters(LinkTo(slice), Blank("search"))
           rows == [i \in DOMAIN servers |-> RowOf(servers[i])]
<1>3. /\ DOMAIN rows = DOMAIN servers
      /\ \A i \in DOMAIN servers : rows[i] = RowOf(servers[i])
  OBVIOUS
<1>4. rows \in Seq({RowOf(servers[i]) : i \in DOMAIN servers})
  <2>1. Len(servers) \in Nat /\ DOMAIN servers = 1 .. Len(servers)
    BY <1>2
  <2> QED
    BY <2>1
<1>5. Listed = FilterRows(rows, filters)
  BY <1>1 DEF Listed
<1> HIDE DEF filters, rows
<1>6. Kept(rows, filters) = {i \in DOMAIN servers : InSlice(servers[i], slice)}
  BY <1>1, <1>2, <1>3, LinkKeepsItsSlice DEF filters
<1>7. Len(FilterRows(rows, filters)) = Cardinality(Kept(rows, filters))
  BY <1>4, KeptPlaces
<1>8. \A i \in DOMAIN servers : Decodes(servers[i])
  BY <1>2, CurrentRows
<1> QED
  BY <1>1, <1>5, <1>6, <1>7, <1>8 DEF CountOf

----------------------------------------------------------------------------
(* SitesView: the cards add up.                                            *)

\* The places of the rows in one of some slices.
InAny(rows, cards) == {i \in DOMAIN rows : \E card \in cards : InSlice(rows[i], card)}

\* The numbers of slices that share no row add up to the rows in any of them:
\* the sum takes one slice out at a time.
LEMMA NumbersAddUp ==
    ASSUME NEW S, NEW rows \in Seq(S), NEW cards, IsFiniteSet(cards),
           \A i \in DOMAIN rows : \A c, d \in cards :
              InSlice(rows[i], c) /\ InSlice(rows[i], d) => c = d
    PROVE  MapThenSumSet(LAMBDA card : CountOf(rows, card), cards)
             = Cardinality(InAny(rows, cards))
<1> DEFINE one(s) == CHOOSE x \in s : TRUE
           count == [s \in SUBSET cards |-> Cardinality(InAny(rows, s))]
           steps(f) == [s \in SUBSET cards |->
                           IF s = {} THEN 0 ELSE CountOf(rows, one(s)) + f[s \ {one(s)}]]
           iter == CHOOSE f : f = steps(f)
<1>1. IsFiniteSet(DOMAIN rows)
  BY FS_Interval
<1>2. \A s : /\ IsFiniteSet(InAny(rows, s)) /\ Cardinality(InAny(rows, s)) \in Nat
             /\ InAny(rows, s) \in SUBSET (DOMAIN rows)
  <2> SUFFICES ASSUME NEW s
               PROVE  /\ IsFiniteSet(InAny(rows, s)) /\ Cardinality(InAny(rows, s)) \in Nat
                      /\ InAny(rows, s) \in SUBSET (DOMAIN rows)
    OBVIOUS
  <2>1. InAny(rows, s) \in SUBSET (DOMAIN rows)
    BY DEF InAny
  <2>2. IsFiniteSet(InAny(rows, s))
    BY <1>1, <2>1, FS_Subset
  <2> QED
    BY <2>1, <2>2, FS_CardinalityType
<1>3. ASSUME NEW s \in SUBSET cards, NEW c \in s
      PROVE  Cardinality(InAny(rows, s)) = CountOf(rows, c) + Cardinality(InAny(rows, s \ {c}))
  <2> DEFINE of == InAny(rows, {c})
             rest == InAny(rows, s \ {c})
  <2>1. InAny(rows, s) = of \cup rest /\ of \cap rest = {}
    BY DEF InAny
  <2>2. CountOf(rows, c) = Cardinality(of)
    BY DEF CountOf, InAny
  <2>3. /\ IsFiniteSet(of) /\ IsFiniteSet(rest)
        /\ Cardinality(of) \in Nat /\ Cardinality(rest) \in Nat
    BY <1>2
  <2> HIDE DEF of, rest
  <2>4. Cardinality(of \cap rest) = 0
    BY <2>1, FS_EmptySet
  <2>5. Cardinality(of \cup rest) = Cardinality(of) + Cardinality(rest) - Cardinality(of \cap rest)
    BY <2>3, FS_Union
  <2>6. Cardinality(InAny(rows, s)) = CountOf(rows, c) + Cardinality(rest)
    BY <2>1, <2>2, <2>3, <2>4, <2>5
  <2> QED
    BY <2>6 DEF rest
<1>4. Cardinality(InAny(rows, {})) = 0
  <2>1. InAny(rows, {}) = {}
    BY DEF InAny
  <2> QED
    BY <2>1, FS_EmptySet
<1>5. count = steps(count)
  <2> SUFFICES ASSUME NEW s \in SUBSET cards
               PROVE  count[s] = IF s = {} THEN 0
                                 ELSE CountOf(rows, one(s)) + count[s \ {one(s)}]
    OBVIOUS
  <2>1. CASE s = {}
    BY <1>4, <2>1
  <2>2. CASE s # {}
    <3>1. one(s) \in s
      BY <2>2
    <3> HIDE DEF one
    <3> QED
      BY <1>3, <2>2, <3>1
  <2> QED
    BY <2>1, <2>2
<1> HIDE DEF count
<1>6. iter = steps(iter)
  BY <1>5
<1> HIDE DEF iter
<1>7. \A s \in SUBSET cards : iter[s] = count[s]
  <2> DEFINE Bad == {n \in Nat : \E s \in SUBSET cards : Cardinality(s) = n /\ iter[s] # count[s]}
  <2>1. \A s \in SUBSET cards : IsFiniteSet(s) /\ Cardinality(s) \in Nat
    BY FS_Subset, FS_CardinalityType
  <2>2. SUFFICES ASSUME Bad # {} PROVE FALSE
    BY <2>1
  <2>3. PICK n \in Bad : \A m \in Bad : ~ (<<m, n>> \in OpToRel(<, Nat))
    BY <2>2, NatLessThanWellFounded, WFMin
  <2>4. PICK s \in SUBSET cards : Cardinality(s) = n /\ iter[s] # count[s]
    BY <2>3
  <2>5. iter[s] = IF s = {} THEN 0 ELSE CountOf(rows, one(s)) + iter[s \ {one(s)}]
    BY <1>6
  <2>6. count[s] = IF s = {} THEN 0 ELSE CountOf(rows, one(s)) + count[s \ {one(s)}]
    BY <1>5
  <2>7. s # {}
    BY <2>4, <2>5, <2>6
  <2>8. one(s) \in s
    BY <2>7
  <2> DEFINE less == s \ {one(s)}
  <2> HIDE DEF one
  <2>9. less \in SUBSET cards /\ Cardinality(less) = Cardinality(s) - 1
    BY <2>1, <2>8, FS_RemoveElement
  <2>10. iter[less] # count[less]
    BY <2>4, <2>5, <2>6, <2>7
  <2> HIDE DEF less
  <2>11. Cardinality(less) \in Bad /\ Cardinality(less) < n /\ n \in Nat
    BY <2>1, <2>4, <2>9, <2>10
  <2>12. <<Cardinality(less), n>> \in OpToRel(<, Nat)
    BY <2>11 DEF OpToRel
  <2> QED
    BY <2>3, <2>11, <2>12
<1>8. MapThenSumSet(LAMBDA card : CountOf(rows, card), cards) = iter[cards]
  BY DEF MapThenSumSet, MapThenFoldSet, iter
<1>9. count[cards] = Cardinality(InAny(rows, cards))
  BY DEF count
<1> QED
  BY <1>7, <1>8, <1>9

LEMMA CardsAddUp ==
    ASSUME ViewAssumption, SitesAssumption, SitesTypeOK
    PROVE  SiteCardsAddUp
<1> SUFFICES ASSUME stats # Null
             PROVE  MapThenSumSet(LAMBDA card : CountOf(stats, card), SiteCards(stats))
                      = CountOf(stats, Whole)
  BY DEF SiteCardsAddUp
<1> DEFINE cards == SiteCards(stats)
           site(s) == [Whole EXCEPT !.site = s]
           named == [s \in Sites |-> site(s)]
           byName == {site(s) : s \in Sites}
           orNone == {c \in {site(Unassigned)} : CountOf(stats, c) > 0}
<1>1. stats \in Seq(ToSet(stats))
  BY DEF SitesTypeOK, SitesAssumption
<1>2. cards = byName \cup orNone
  BY DEF SiteCards
<1>3. IsFiniteSet(cards)
  <2>1. named \in Surjection(Sites, byName)
    BY DEF Surjection
  <2> HIDE DEF named
  <2>2. IsFiniteSet(byName)
    <3> HIDE DEF byName
    <3> QED
      BY <2>1, FS_Surjection DEF SitesAssumption
  <2>3. orNone \in SUBSET {site(Unassigned)} /\ IsFiniteSet({site(Unassigned)})
    BY FS_Singleton
  <2> HIDE DEF byName, orNone
  <2>4. IsFiniteSet(orNone)
    BY <2>3, FS_Subset
  <2> QED
    BY <1>2, <2>2, <2>4, FS_Union
<1>4. \A row, s : s # Null => (InSlice(row, site(s)) <=> SiteOf(row) = s)
  BY DEF InSlice, Whole
<1>5. \A s \in Sites : s # Null
  BY DEF SitesAssumption
<1>6. Unassigned # Null
  BY DEF ViewAssumption
<1>7. \A c \in cards : \E s : s # Null /\ c = site(s)
  BY <1>2, <1>5, <1>6
<1> HIDE DEF site
<1>8. \A i \in DOMAIN stats : \A c, d \in cards :
         InSlice(stats[i], c) /\ InSlice(stats[i], d) => c = d
  BY <1>4, <1>7
<1>9. InAny(stats, cards) = DOMAIN stats
  <2> SUFFICES ASSUME NEW i \in DOMAIN stats
               PROVE  \E c \in cards : InSlice(stats[i], c)
    BY DEF InAny
  <2>1. CASE stats[i].site_id \in Sites
    <3>1. SiteOf(stats[i]) \in Sites
      BY <2>1 DEF SiteOf
    <3>2. InSlice(stats[i], site(SiteOf(stats[i])))
      BY <1>4, <1>5, <3>1
    <3> QED
      BY <1>2, <3>1, <3>2
  <2>2. CASE stats[i].site_id \notin Sites
    <3>1. SiteOf(stats[i]) = Unassigned
      BY <2>2 DEF SiteOf
    <3>2. InSlice(stats[i], site(Unassigned))
      BY <1>4, <1>6, <3>1
    <3> DEFINE there == {j \in DOMAIN stats : InSlice(stats[j], site(Unassigned))}
    <3>3. IsFiniteSet(DOMAIN stats) /\ there \in SUBSET (DOMAIN stats) /\ i \in there
      BY <1>1, <3>2, FS_Interval
    <3> HIDE DEF there
    <3>4. IsFiniteSet(there)
      BY <3>3, FS_Subset
    <3>5. Cardinality(there) \in Nat /\ Cardinality(there) # 0
      BY <3>3, <3>4, FS_CardinalityType, FS_EmptySet
    <3>6. CountOf(stats, site(Unassigned)) > 0
      BY <3>5 DEF CountOf, there
    <3> QED
      BY <1>2, <3>2, <3>6
  <2> QED
    BY <2>1, <2>2
<1>10. CountOf(stats, Whole) = Cardinality(DOMAIN stats)
  <2>1. {i \in DOMAIN stats : InSlice(stats[i], Whole)} = DOMAIN stats
    BY DEF InSlice, Whole
  <2> QED
    BY <2>1 DEF CountOf
<1> HIDE DEF cards
<1>11. MapThenSumSet(LAMBDA card : CountOf(stats, card), cards) = Cardinality(InAny(stats, cards))
  BY <1>1, <1>3, <1>8, NumbersAddUp
<1> QED
  BY <1>9, <1>10, <1>11 DEF cards

----------------------------------------------------------------------------
(* InventoryView: the pages and the file.                                  *)

\* Pages of the size, laid end to end: a page starts where the one before it
\* ended.
LEMMA EndToEnd ==
    ASSUME NEW S, NEW seq \in Seq(S), NEW a \in 0 .. Len(seq), NEW b \in a .. Len(seq)
    PROVE  SubSeq(seq, 1, a) \o SubSeq(seq, a + 1, b) = SubSeq(seq, 1, b)
<1> DEFINE left == SubSeq(seq, 1, a)
           right == SubSeq(seq, a + 1, b)
           both == SubSeq(seq, 1, b)
<1>0. a \in Nat /\ b \in Nat /\ a <= b /\ Len(seq) \in Nat /\ b <= Len(seq)
  OBVIOUS
<1>1. /\ Len(left) = a /\ left \in Seq(S) /\ \A i \in 1 .. a : left[i] = seq[i]
  OBVIOUS
<1>2. /\ Len(right) = b - a /\ right \in Seq(S) /\ \A i \in 1 .. b - a : right[i] = seq[a + i]
  OBVIOUS
<1>3. /\ Len(both) = b /\ both \in Seq(S) /\ \A i \in 1 .. b : both[i] = seq[i]
  OBVIOUS
<1> HIDE DEF left, right, both
<1>4. Len(left \o right) = b /\ left \o right \in Seq(S)
  BY <1>0, <1>1, <1>2
<1>5. ASSUME NEW i \in 1 .. b
      PROVE  (left \o right)[i] = seq[i]
  <2>1. CASE i <= a
    BY <1>1, <1>2, <2>1
  <2>2. CASE i > a
    <3>1. (left \o right)[i] = right[i - a] /\ i - a \in 1 .. b - a
      BY <1>1, <1>2, <2>2
    <3> QED
      BY <1>2, <2>2, <3>1
  <2> QED
    <3>1. i \in Nat
      BY <1>0
    <3>2. i <= a \/ i > a
      BY <1>0, <3>1
    <3> QED
      BY <2>1, <2>2, <3>2
<1>6. left \o right = both
  <2>1. \A i \in 1 .. b : (left \o right)[i] = both[i]
    BY <1>3, <1>5
  <2> DEFINE joined == left \o right
  <2> HIDE DEF joined
  <2>2. joined \in [1 .. b -> S] /\ both \in [1 .. b -> S]
    <3>1. Len(joined) = b /\ joined \in Seq(S)
      BY <1>4 DEF joined
    <3> QED
      BY <1>3, <3>1
  <2>3. \A i \in 1 .. b : joined[i] = both[i]
    BY <2>1 DEF joined
  <2>4. joined = both
    BY <2>2, <2>3
  <2> QED
    BY <2>4 DEF joined
<1> QED
  BY <1>6 DEF left, right, both

\* As many pages as the rows take, and one when there are none: the one before
\* the last leaves rows over, the last leaves none.
LEMMA PagesCover ==
    ASSUME NEW L \in Nat, NEW size \in Nat \ {0}
    PROVE  LET pageCount == Max({1, (L + size - 1) \div size})
           IN /\ pageCount \in Nat \ {0}
              /\ L <= pageCount * size
              /\ \A p \in 1 .. pageCount : (p - 1) * size <= L
<1> DEFINE whole == (L + size - 1) \div size
           pageCount == Max({1, whole})
<1>1. whole \in Nat /\ L <= whole * size /\ whole * size <= L + size - 1
  OBVIOUS
<1> HIDE DEF whole
<1>2. pageCount = IF whole > 1 THEN whole ELSE 1
  BY <1>1 DEF Max
<1> HIDE DEF pageCount
<1>3. L <= pageCount * size
  <2>1. CASE whole > 1
    BY <1>1, <1>2, <2>1
  <2>2. CASE whole = 0
    BY <1>1, <1>2, <2>2
  <2>3. CASE whole = 1
    BY <1>1, <1>2, <2>3
  <2> QED
    BY <1>1, <2>1, <2>2, <2>3
<1>4. ASSUME NEW p \in 1 .. pageCount
      PROVE  (p - 1) * size <= L
  <2>1. CASE p = 1
    BY <2>1
  <2>2. CASE p # 1
    <3>1. p \in Nat /\ p <= whole
      BY <1>1, <1>2, <2>2
    <3>2. p * size <= whole * size
      BY <1>1, <3>1
    <3>3. (p - 1) * size = p * size - size
      BY <3>1
    <3>4. p * size \in Nat /\ whole * size \in Nat
      BY <1>1, <3>1
    <3> QED
      BY <1>1, <3>2, <3>3, <3>4
  <2> QED
    BY <2>1, <2>2
<1>5. pageCount \in Nat \ {0}
  BY <1>1, <1>2
<1> QED
  BY <1>3, <1>4, <1>5 DEF pageCount, whole

\* What is on a page that there is.
LEMMA OnPage ==
    ASSUME NEW rows, Len(rows) \in Nat, NEW size \in Nat \ {0}, NEW pageCount,
           pageCount = Max({1, (Len(rows) + size - 1) \div size}), NEW p \in 1 .. pageCount
    PROVE  Paginate(rows, p, size).items
             = SubSeq(rows, (p - 1) * size + 1, Min({(p - 1) * size + size, Len(rows)}))
<1>1. pageCount \in Nat
  BY PagesCover
<1>2. Max({1, p}) = p
  BY <1>1 DEF Max
<1>3. Min({p, pageCount}) = p
  BY <1>1 DEF Min
<1> QED
  BY <1>2, <1>3 DEF Paginate

\* All the pages, laid end to end, are the rows.
LEMMA LaidEndToEnd ==
    ASSUME NEW S, NEW rows \in Seq(S), NEW size \in Nat \ {0}, NEW pageCount,
           pageCount = Max({1, (Len(rows) + size - 1) \div size})
    PROVE  FlattenSeq([p \in 1 .. pageCount |-> Paginate(rows, p, size).items]) = rows
<1> DEFINE L == Len(rows)
           pages == [p \in 1 .. pageCount |-> Paginate(rows, p, size).items]
           end(p) == IF p * size <= L THEN p * size ELSE L
           upTo == [p \in 1 .. pageCount |-> SubSeq(rows, 1, end(p))]
           steps(f) == [p \in 1 .. pageCount |-> IF p = 1 THEN pages[p] ELSE f[p - 1] \o pages[p]]
           flatten == CHOOSE f : f = steps(f)
<1>1. L \in Nat
  OBVIOUS
<1> HIDE DEF L
<1>2. /\ pageCount \in Nat \ {0} /\ L <= pageCount * size
      /\ \A p \in 1 .. pageCount : (p - 1) * size <= L
  BY <1>1, PagesCover DEF L
<1>3. ASSUME NEW p \in 1 .. pageCount
      PROVE  /\ p \in Nat /\ p * size = (p - 1) * size + size
             /\ (p - 1) * size \in Nat /\ (p - 1) * size <= L
             /\ end(p) \in (p - 1) * size .. L
             /\ pages[p] = SubSeq(rows, (p - 1) * size + 1, end(p))
  <2>1. p \in Nat /\ p - 1 \in Nat
    BY <1>2
  <2>2. (p - 1) * size \in Nat /\ p * size = (p - 1) * size + size /\ p * size \in Nat
    BY <2>1
  <2>3. (p - 1) * size <= L
    BY <1>2
  <2>4. end(p) \in (p - 1) * size .. L
    BY <1>1, <2>2, <2>3
  <2>5. Min({(p - 1) * size + size, L}) = end(p)
    <3> DEFINE n == p * size
    <3>1. n \in Nat /\ (p - 1) * size + size = n
      BY <2>2
    <3> HIDE DEF n
    <3>2. Min({n, L}) = IF n <= L THEN n ELSE L
      BY <1>1, <3>1 DEF Min
    <3> QED
      BY <3>1, <3>2 DEF n
  <2>6. pages[p] = SubSeq(rows, (p - 1) * size + 1, Min({(p - 1) * size + size, L}))
    BY <1>1, OnPage DEF L
  <2> QED
    BY <2>1, <2>2, <2>3, <2>4, <2>5, <2>6
<1> HIDE DEF pages
<1>4. upTo = steps(upTo)
  <2> SUFFICES ASSUME NEW p \in 1 .. pageCount
               PROVE  upTo[p] = IF p = 1 THEN pages[p] ELSE upTo[p - 1] \o pages[p]
    OBVIOUS
  <2>1. CASE p = 1
    <3>1. (p - 1) * size + 1 = 1
      BY <2>1
    <3> QED
      BY <1>3, <2>1, <3>1
  <2>2. CASE p # 1
    <3>1. p - 1 \in 1 .. pageCount
      BY <1>2, <2>2
    <3> DEFINE a == (p - 1) * size
               b == end(p)
    <3>2. end(p - 1) = a
      BY <1>3
    <3>3. a \in 0 .. L /\ b \in a .. L /\ pages[p] = SubSeq(rows, a + 1, b)
      <4>1. a \in Nat /\ a <= L /\ b \in a .. L
        BY <1>3
      <4>2. pages[p] = SubSeq(rows, a + 1, b)
        BY <1>3
      <4> HIDE DEF a, b
      <4> QED
        BY <1>1, <4>1, <4>2
    <3>4. upTo[p - 1] = SubSeq(rows, 1, a) /\ upTo[p] = SubSeq(rows, 1, b)
      BY <3>1, <3>2
    <3> HIDE DEF a, b, upTo
    <3>5. SubSeq(rows, 1, a) \o SubSeq(rows, a + 1, b) = SubSeq(rows, 1, b)
      BY <3>3, EndToEnd DEF L
    <3> QED
      BY <2>2, <3>3, <3>4, <3>5
  <2> QED
    BY <2>1, <2>2
<1>5. upTo[pageCount] = rows
  <2>1. end(pageCount) = L /\ pageCount \in 1 .. pageCount
    <3>1. pageCount * size \in Nat
      BY <1>2
    <3> QED
      BY <1>1, <1>2, <3>1
  <2>2. upTo[pageCount] = SubSeq(rows, 1, L)
    BY <2>1
  <2>3. SubSeq(rows, 1, L) = rows
    BY DEF L
  <2> QED
    BY <2>2, <2>3
<1> HIDE DEF upTo
<1>6. flatten = steps(flatten)
  BY <1>4
<1> HIDE DEF flatten
<1>7. \A p \in 1 .. pageCount : flatten[p] = upTo[p]
  <2> DEFINE Bad == {p \in 1 .. pageCount : flatten[p] # upTo[p]}
  <2>1. SUFFICES ASSUME Bad # {} PROVE FALSE
    OBVIOUS
  <2>2. Bad \in SUBSET Nat
    BY <1>2
  <2>3. PICK p \in Bad : \A q \in Bad : ~ (<<q, p>> \in OpToRel(<, Nat))
    BY <2>1, <2>2, NatLessThanWellFounded, WFMin
  <2>4. flatten[p] = IF p = 1 THEN pages[p] ELSE flatten[p - 1] \o pages[p]
    BY <1>6
  <2>5. upTo[p] = IF p = 1 THEN pages[p] ELSE upTo[p - 1] \o pages[p]
    BY <1>4
  <2>6. p # 1 /\ p - 1 \in 1 .. pageCount /\ p \in Nat
    BY <1>2, <2>4, <2>5
  <2>7. flatten[p - 1] # upTo[p - 1]
    BY <2>4, <2>5, <2>6
  <2>8. p - 1 \in Bad /\ p - 1 < p
    BY <2>6, <2>7
  <2>9. <<p - 1, p>> \in OpToRel(<, Nat)
    BY <2>2, <2>6, <2>8 DEF OpToRel
  <2> QED
    BY <2>3, <2>8, <2>9
<1>8. FlattenSeq(pages) = flatten[pageCount]
  <2>1. Len(pages) = pageCount /\ pageCount # 0
    BY <1>2 DEF pages
  <2> QED
    BY <2>1 DEF FlattenSeq, flatten
<1>9. FlattenSeq(pages) = rows
  <2>1. pageCount \in 1 .. pageCount
    BY <1>2
  <2> QED
    BY <1>5, <1>7, <1>8, <2>1
<1> QED
  BY <1>9 DEF pages

LEMMA ExportIsThePages ==
    ASSUME ViewAssumption, ViewTypeOK
    PROVE  PagesMakeTheExport
<1> DEFINE kept == FilterRows(Rows, Filters(shown, debounced))
           n == Cardinality(Kept(Rows, Filters(shown, debounced)))
           S == {Matched[i] : i \in DOMAIN Matched}
<1>1. Rows \in Seq(ToSet(Rows))
  BY RowsAreAList
<1>2. DOMAIN kept = 1 .. n /\ n \in Nat
  <2> DEFINE F == Filters(shown, debounced)
  <2> HIDE DEF F
  <2>1. DOMAIN FilterRows(Rows, F) = 1 .. Cardinality(Kept(Rows, F)) /\ IsFiniteSet(Kept(Rows, F))
    BY <1>1, KeptPlaces
  <2> QED
    BY <2>1, FS_CardinalityType DEF F
<1> HIDE DEF n
<1>3. Matched \in [1 .. n -> S]
  <2>1. Matched = [i \in DOMAIN Matched |-> Matched[i]] /\ DOMAIN Matched = DOMAIN kept
    <3> HIDE DEF kept
    <3> QED
      BY DEF Matched, SortRows, kept
  <2> HIDE DEF kept
  <2> QED
    BY <1>2, <2>1
<1>4. Matched \in Seq(S)
  <2> DEFINE m == Matched
  <2> HIDE DEF m, S
  <2>1. m \in [1 .. n -> S]
    BY <1>3 DEF m
  <2>2. m \in Seq(S)
    BY <1>2, <2>1
  <2> QED
    BY <2>2 DEF m
<1>5. PageSize \in Nat \ {0}
  BY DEF ViewAssumption
<1> HIDE DEF S
<1>6. Shown.pageCount = Max({1, (Len(Matched) + PageSize - 1) \div PageSize})
  BY DEF Shown, Paginate
<1>7. FlattenSeq([p \in 1 .. Shown.pageCount |-> Paginate(Matched, p, PageSize).items]) = Matched
  BY <1>4, <1>5, <1>6, LaidEndToEnd
<1> QED
  BY <1>7 DEF PagesMakeTheExport, ExportedFile

----------------------------------------------------------------------------
(* The Servers page and the Sites page, one of them mounted at a time.     *)

PagesInv == ViewInv /\ SitesInv

LEMMA PagesStart ==
    ASSUME PagesInit
    PROVE  PagesInv
<1> QED
  BY ViewStart, SitesStart, ViewAssumption DEF PagesInit, PagesInv

LEMMA PagesStep ==
    ASSUME PagesInv, [PagesNext]_<<page, viewVars, sitesVars>>
    PROVE  PagesInv'
<1>1. [ViewNext]_viewVars /\ [SitesNext]_sitesVars
  BY DEF PagesNext
<1>2. ViewInv'
  BY <1>1, ViewStep, ViewAssumption DEF PagesInv
<1>3. SitesInv'
  BY <1>1, SitesStep DEF PagesInv
<1> QED
  BY <1>2, <1>3 DEF PagesInv

LEMMA PagesAlways == PagesSpec => []PagesInv
<1>1. PagesInit => PagesInv
  BY PagesStart
<1>2. PagesInv /\ [PagesNext]_<<page, viewVars, sitesVars>> => PagesInv'
  BY PagesStep
<1> QED
  BY <1>1, <1>2, PTL DEF PagesSpec

\* Each page's state is of the type its declarations give it: no click, answer
\* or link leaves the Servers page without one of its URL parameters.
THEOREM PagesTyped == PagesSpec => []PagesTypeOK
<1>1. PagesInv => PagesTypeOK
  BY DEF PagesInv, ViewInv, SitesInv, PagesTypeOK
<1> QED
  BY <1>1, PagesAlways, PTL

\* For any fleet and any filters, the number beside an option is what ticking
\* it would do (DropdownFacetCount of rows.ts counts over the other filters).
THEOREM CountsAreTrue == PagesSpec => []CountsSayWhatTickingDoes
<1>1. PagesInv => CountsSayWhatTickingDoes
  BY CountsSay, ViewAssumption DEF PagesInv, ViewInv
<1> QED
  BY <1>1, PagesAlways, PTL

\* Whatever hides a row has a chip that takes it away (ActiveFilters of
\* InventoryPage.tsx).
THEOREM ChipsAreComplete == PagesSpec => []ChipsExplainTheView
<1>1. PagesInv => ChipsExplainTheView
  BY ChipsUndo, ViewAssumption DEF PagesInv, ViewInv
<1> QED
  BY <1>1, PagesAlways, PTL

\* For any fleet, filters, order and page size, the pages one after another
\* are the exported file (paginate and handleExportCsv).
THEOREM PagesAreTheExport == PagesSpec => []PagesMakeTheExport
<1>1. PagesInv => PagesMakeTheExport
  BY ExportIsThePages, ViewAssumption DEF PagesInv, ViewInv
<1> QED
  BY <1>1, PagesAlways, PTL

\* A link of the Sites page opens as many servers as it says, for any fleet of
\* documents without a retired value that has not changed since the count (the
\* to= links of SitesOverviewPage.tsx and filterRows over ServerRow.from_doc,
\* against the buckets of _pivot).
THEOREM LinksAreTrue == PagesSpec => []CurrentLinksListTheirCount
<1>1. PagesInv => CurrentLinksListTheirCount
  BY LinksList, ViewAssumption, SitesAssumption DEF PagesInv
<1> QED
  BY <1>1, PagesAlways, PTL

\* The site cards add up to the headline number, for any fleet and any
\* configured sites (_pivot of api/v1/sites.py).
THEOREM SiteCardsSum == PagesSpec => []SiteCardsAddUp
<1>1. PagesInv => SiteCardsAddUp
  BY CardsAddUp, ViewAssumption, SitesAssumption DEF PagesInv, SitesInv
<1> QED
  BY <1>1, PagesAlways, PTL

\* Clear filters leaves nothing that filters (handleClearFilters).
THEOREM ClearLeavesNothing == PagesSpec => ClearShowsTheFleet
<1>1. PagesInv => [ClearFilters => FilterRows(Rows, Filters(url', url'["search"])) = Rows]_viewVars
  BY ClearedKeepAll, ViewAssumption DEF PagesInv, ViewInv
<1> QED
  BY <1>1, PagesAlways, PTL DEF ClearShowsTheFleet

\* No step undoes a click that was not rendered yet: each changes one place of
\* the live URL (updateFilters, toggleMulti).
THEOREM ClicksAreKept == PagesSpec => NoClickIsLost
<1>1. PagesInv /\ [PagesNext]_<<page, viewVars, sitesVars>> => [OneChange]_viewVars
  BY NoneLost, ViewAssumption DEF PagesInv, PagesNext
<1>2. PagesSpec => [][OneChange]_viewVars
  BY <1>1, PagesAlways, PTL DEF PagesSpec
<1>3. [OneChange]_viewVars
      <=> [LET changed == {p \in UrlParams \ {"page"} : url'[p] # url[p]}
           IN \/ Cardinality(changed) <= 1
              \/ changed \in SUBSET {"sort", "sort_desc"}
              \/ changed \in SUBSET {"health", "maintenance"}
              \/ \A p \in FilterParams : url'[p] = Blank(p)]_viewVars
  BY DEF OneChange
<1> QED
  BY <1>2, <1>3, PTL DEF NoClickIsLost
=============================================================================
