----------------------------- MODULE EventsProofs -----------------------------
(***************************************************************************)
(* Proofs about EventsView: for pages of any size over a trail of any      *)
(* length, whatever is stamped, inserted, pruned and renamed between two   *)
(* requests of a load.                                                     *)
(***************************************************************************)
EXTENDS EventsView, FiniteSetTheorems, TLAPS

(***************************************************************************)
(* Numbers.                                                                *)
(***************************************************************************)

\* A set of naturals that is not empty has a least member.
LEMMA LeastMember ==
    ASSUME NEW S \in SUBSET Nat, S # {}
    PROVE  Min(S) \in S /\ \A x \in S : Min(S) <= x
<1>1. PICK x \in S : \A y \in S : ~ (<<y, x>> \in OpToRel(<, Nat))
  BY NatLessThanWellFounded, WFMin
<1>2. \A y \in S : x <= y
  <2> TAKE y \in S
  <2>1. ~ (y < x)
    BY <1>1 DEF OpToRel
  <2> QED
    BY <2>1
<1> QED
  BY <1>2 DEF Min

(***************************************************************************)
(* A page: the newest of what is left.                                     *)
(***************************************************************************)

\* A page holds whatever is newer than something it holds; it is empty only
\* when nothing is left, and then there is no more; the last holds all.
LEMMA PageIsNewest ==
    ASSUME EventsAssumption, NEW all \in SUBSET Places, NEW rest \in SUBSET all
    PROVE  /\ Newest(rest, all) \in EventPages
           /\ Newest(rest, all).items \subseteq rest /\ Newest(rest, all).of = all
           /\ \A i \in rest, j \in Newest(rest, all).items :
                 j <= i => i \in Newest(rest, all).items
           /\ Newest(rest, all).has_more => Newest(rest, all).items # {}
           /\ ~Newest(rest, all).has_more => Newest(rest, all).items = rest
<1> DEFINE From(i) == {j \in rest : j >= i}
           page == Newest(rest, all)
<1> HIDE DEF From, page
<1>1. IsFiniteSet(rest) /\ Cardinality(rest) \in Nat /\ \A x \in rest : x \in Nat
  <2>1. rest \in SUBSET Places /\ IsFiniteSet(Places) /\ \A x \in Places : x \in Nat
    BY DEF EventsAssumption
  <2> QED
    BY <2>1, FS_Subset, FS_CardinalityType
<1>2. \A i : /\ From(i) \in SUBSET rest /\ IsFiniteSet(From(i)) /\ Cardinality(From(i)) \in Nat
             /\ Cardinality(From(i)) <= Cardinality(rest)
  <2> TAKE i
  <2>1. From(i) \in SUBSET rest
    BY DEF From
  <2> QED
    BY <1>1, <2>1, FS_Subset, FS_CardinalityType
<1>3. /\ \A i \in rest : i \in page.items <=> Cardinality(From(i)) <= PAGE_SIZE
      /\ page.has_more <=> Cardinality(rest) > PAGE_SIZE
      /\ page.items \subseteq rest /\ page.of = all
  BY DEF Newest, From, page
<1>4. \A i \in rest, j \in rest :
          j <= i => From(i) \in SUBSET From(j) /\ Cardinality(From(i)) <= Cardinality(From(j))
  <2> SUFFICES ASSUME NEW i \in rest, NEW j \in rest, j <= i
               PROVE  From(i) \in SUBSET From(j) /\ Cardinality(From(i)) <= Cardinality(From(j))
    OBVIOUS
  <2>1. From(i) \in SUBSET From(j)
    <3>1. \A x \in rest : x >= i => x >= j
      BY <1>1
    <3> QED
      BY <3>1 DEF From
  <2> QED
    BY <1>2, <2>1, FS_Subset
<1>5. page \in EventPages
  <2>1. {i \in rest : Cardinality({j \in rest : j >= i}) <= PAGE_SIZE} \in SUBSET Places
    OBVIOUS
  <2> QED
    BY <2>1 DEF Newest, EventPages, page
<1>6. \A i \in rest, j \in page.items : j <= i => i \in page.items
  <2> SUFFICES ASSUME NEW i \in rest, NEW j \in page.items, j <= i
               PROVE  i \in page.items
    OBVIOUS
  <2>1. Cardinality(From(j)) <= PAGE_SIZE /\ Cardinality(From(i)) <= Cardinality(From(j))
    BY <1>3, <1>4
  <2> QED
    BY <1>2, <1>3, <2>1, EventsAssumption DEF EventsAssumption
\* From the event with the fewest from it on, there is that one only.
<1>7. page.has_more => page.items # {}
  <2> SUFFICES ASSUME page.has_more PROVE page.items # {}
    OBVIOUS
  <2> DEFINE C == {Cardinality(From(i)) : i \in rest}
  <2>1. rest # {}
    <3>1. Cardinality(rest) > PAGE_SIZE /\ PAGE_SIZE \in Nat \ {0}
      BY <1>3 DEF EventsAssumption
    <3> QED
      BY <1>1, <3>1, FS_EmptySet
  <2>2. C \in SUBSET Nat /\ C # {}
    BY <1>2, <2>1
  <2>3. Min(C) \in C /\ \A c \in C : Min(C) <= c
    <3> HIDE DEF C
    <3> QED
      BY <2>2, LeastMember
  <2>4. PICK x \in rest : Cardinality(From(x)) = Min(C)
    BY <2>3
  <2>5. \A y \in From(x) : y = x
    <3> SUFFICES ASSUME NEW y \in From(x), y # x PROVE FALSE
      OBVIOUS
    <3>1. y \in rest /\ x <= y /\ ~(x >= y)
      BY <1>1, <2>4 DEF From
    <3>2. From(y) \in SUBSET From(x) /\ x \notin From(y) /\ x \in From(x)
      BY <1>1, <1>4, <2>4, <3>1 DEF From
    <3>3. Cardinality(From(y)) < Cardinality(From(x))
      BY <1>2, <3>2, FS_Subset
    <3>4. Min(C) <= Cardinality(From(y))
      BY <2>3, <3>1
    <3> QED
      BY <1>2, <2>4, <3>3, <3>4
  <2>6. From(x) = {x}
    <3>1. x \in From(x)
      BY <1>1, <2>4 DEF From
    <3> QED
      BY <2>5, <3>1
  <2>7. Cardinality(From(x)) = 1
    BY <2>6, FS_Singleton
  <2> QED
    BY <1>3, <2>4, <2>7, EventsAssumption DEF EventsAssumption
<1>8. ~page.has_more => page.items = rest
  <2> SUFFICES ASSUME ~page.has_more, NEW i \in rest PROVE i \in page.items
    BY <1>3
  <2>1. Cardinality(rest) <= PAGE_SIZE
    BY <1>1, <1>3, EventsAssumption DEF EventsAssumption
  <2> QED
    BY <1>1, <1>2, <1>3, <2>1, EventsAssumption DEF EventsAssumption
<1> QED
  BY <1>3, <1>5, <1>6, <1>7, <1>8 DEF page

(***************************************************************************)
(* A walk: pages read one after another, each from where the last ended.   *)
(***************************************************************************)

\* What every page of the walk was read from, and the walk has come to.
ReadThrough(pages) ==
    {i \in Places :
        /\ pages # <<>> /\ \A n \in 1 .. Len(pages) : i \in pages[n].of
        /\ hasNextPage(pages) => NextCursor(pages) <= i}

\* Every page but the last has more after it, later pages are older, and the
\* walk holds all that it was read through.
IsWalk(pages) ==
    /\ pages \in Seq(EventPages)
    /\ \A n \in 1 .. Len(pages) :
          /\ pages[n].has_more => pages[n].items # {}
          /\ n < Len(pages) => pages[n].has_more
    /\ \A m, n \in 1 .. Len(pages) : m < n =>
          \A i \in pages[m].items, j \in pages[n].items : i > j
    /\ ReadThrough(pages) \subseteq Walked(pages)

\* One more page, read from the cursor of the last, makes a longer walk.
LEMMA WalkGrows ==
    ASSUME EventsAssumption, DOMAIN trail \subseteq Places,
           NEW p, NEW pages, IsWalk(pages), pages # <<>> => hasNextPage(pages)
    PROVE  /\ PageAfter(p, NextCursor(pages)) \in EventPages
           /\ IsWalk(Append(pages, PageAfter(p, NextCursor(pages))))
<1> DEFINE c == NextCursor(pages)
           all == Matching(p)
           rest == {i \in all : c # Absent => i < c}
           page == Newest(rest, all)
           longer == Append(pages, page)
           L == Len(pages)
<1>1. L \in Nat /\ pages \in Seq(EventPages) /\ \A n \in 1 .. L : pages[n] \in EventPages
  BY DEF IsWalk
<1>2. all \in SUBSET Places /\ rest \in SUBSET all /\ \A i \in Places : i \in Nat
  BY DEF Matching, EventsAssumption
<1>3. PageAfter(p, c) = page
  BY DEF PageAfter
<1>4. /\ page \in EventPages /\ page.items \subseteq rest /\ page.of = all
      /\ \A i \in rest, j \in page.items : j <= i => i \in page.items
      /\ page.has_more => page.items # {}
      /\ ~page.has_more => page.items = rest
  <2> HIDE DEF rest, all
  <2> QED
    BY <1>2, PageIsNewest
<1>5. /\ longer \in Seq(EventPages) /\ Len(longer) = L + 1 /\ longer[L + 1] = page
      /\ \A n \in 1 .. L : longer[n] = pages[n]
  <2> HIDE DEF page
  <2> QED
    BY <1>1, <1>4
<1>6. Walked(longer) = Walked(pages) \cup page.items
  <2> HIDE DEF longer, page, L
  <2>1. DOMAIN longer = 1 .. L + 1 /\ DOMAIN pages = 1 .. L
    BY <1>1, <1>5 DEF L
  <2>2. \A x : x \in Walked(longer) <=> \E n \in 1 .. L + 1 : x \in longer[n].items
    BY <2>1 DEF Walked
  <2>3. \A x : x \in Walked(pages) <=> \E n \in 1 .. L : x \in pages[n].items
    BY <2>1 DEF Walked
  <2>4. \A n \in 1 .. L + 1 : n = L + 1 \/ n \in 1 .. L
    BY <1>1 DEF L
  <2>5. \A n \in 1 .. L : n \in 1 .. L + 1
    BY <1>1 DEF L
  <2>6. L + 1 \in 1 .. L + 1
    BY <1>1 DEF L
  <2>7. \A x : x \in Walked(longer) <=> x \in Walked(pages) \/ x \in page.items
    BY <1>5, <2>2, <2>3, <2>4, <2>5, <2>6
  <2> QED
    BY <2>7
\* The cursor is the oldest event of the walk.
<1>7. pages # <<>> => c \in Nat /\ \A i \in Walked(pages) : i \in Nat /\ c <= i
  <2> SUFFICES ASSUME pages # <<>>
               PROVE  c \in Nat /\ \A i \in Walked(pages) : i \in Nat /\ c <= i
    OBVIOUS
  <2>1. L \in 1 .. L /\ DOMAIN pages = 1 .. L
    BY <1>1
  <2>2. pages[L].items # {} /\ c = Min(pages[L].items)
    BY <2>1 DEF IsWalk, hasNextPage, Last, NextCursor
  <2>3. \A n \in 1 .. L : pages[n].items \in SUBSET Nat
    BY <1>1, <1>2 DEF EventPages
  <2>4. c \in pages[L].items /\ \A x \in pages[L].items : c <= x
    <3> HIDE DEF c, L
    <3> QED
      BY <2>1, <2>2, <2>3, LeastMember
  <2>5. c \in Nat
    BY <2>1, <2>3, <2>4
  <2>6. ASSUME NEW i \in Walked(pages) PROVE i \in Nat /\ c <= i
    <3>1. PICK n \in 1 .. L : i \in pages[n].items
      BY <2>1 DEF Walked
    <3>2. i \in Nat
      BY <2>3, <3>1
    <3>3. CASE n = L
      BY <2>4, <3>1, <3>2, <3>3
    <3>4. CASE n # L
      <4>1. n < L
        BY <1>1, <3>4
      <4>2. i > c
        <5> HIDE DEF c, L
        <5> QED
          BY <2>1, <2>4, <3>1, <4>1 DEF IsWalk, L
      <4> QED
        BY <2>5, <3>2, <4>2
    <3> QED
      BY <3>3, <3>4
  <2> QED
    BY <2>5, <2>6
<1>8. pages = <<>> => c = Absent
  BY DEF NextCursor
<1> HIDE DEF c, page, longer, L, all
<1>9. \A n \in 1 .. Len(longer) :
          /\ longer[n].has_more => longer[n].items # {}
          /\ n < Len(longer) => longer[n].has_more
  <2> TAKE n \in 1 .. Len(longer)
  <2>1. CASE n = L + 1
    BY <1>1, <1>4, <1>5, <2>1
  <2>2. CASE n \in 1 .. L
    <3>1. pages[n].has_more
      <4>1. CASE n < L
        BY <2>2, <4>1 DEF IsWalk, L
      <4>2. CASE n = L
        BY <1>1, <2>2, <4>2 DEF hasNextPage, Last, L
      <4> QED
        BY <1>1, <2>2, <4>1, <4>2
    <3> QED
      BY <1>5, <2>2, <3>1 DEF IsWalk, L
  <2> QED
    BY <1>1, <1>5, <2>1, <2>2
<1>10. \A m, n \in 1 .. Len(longer) : m < n =>
          \A i \in longer[m].items, j \in longer[n].items : i > j
  <2> SUFFICES ASSUME NEW m \in 1 .. Len(longer), NEW n \in 1 .. Len(longer), m < n,
                      NEW i \in longer[m].items, NEW j \in longer[n].items
               PROVE  i > j
    OBVIOUS
  <2>1. m \in 1 .. L
    BY <1>1, <1>5
  <2>2. CASE n \in 1 .. L
    BY <1>5, <2>1, <2>2 DEF IsWalk, L
  <2>3. CASE n = L + 1
    <3>1. i \in Walked(pages) /\ pages # <<>>
      BY <1>1, <1>5, <2>1 DEF Walked, L
    <3>2. i \in Nat /\ c <= i /\ c \in Nat
      BY <1>7, <3>1
    <3>3. j \in rest /\ j \in Nat
      BY <1>2, <1>4, <1>5, <2>3
    <3>4. j < c
      BY <3>2, <3>3, EventsAssumption DEF EventsAssumption
    <3> QED
      BY <3>2, <3>3, <3>4
  <2> QED
    BY <1>1, <1>5, <2>2, <2>3
<1>11. ASSUME NEW i \in ReadThrough(longer) PROVE i \in Walked(longer)
  <2>1. longer # <<>> /\ Last(longer) = page
    BY <1>1, <1>5 DEF Last
  <2>2. i \in Places /\ i \in Nat /\ \A n \in 1 .. L + 1 : i \in longer[n].of
    BY <1>2, <1>5 DEF ReadThrough
  <2>3. i \in all /\ \A n \in 1 .. L : i \in pages[n].of
    BY <1>1, <1>4, <1>5, <2>2
  <2>4. page.has_more => Min(page.items) <= i
    BY <2>1 DEF ReadThrough, hasNextPage, NextCursor
  <2>5. CASE i \in rest
    <3>1. CASE page.has_more
      <4>1. page.items \in SUBSET Nat /\ page.items # {}
        BY <1>2, <1>4, <3>1
      <4>2. Min(page.items) \in page.items
        BY <4>1, LeastMember
      <4> QED
        BY <1>4, <1>6, <2>4, <2>5, <3>1, <4>2
    <3>2. CASE ~page.has_more
      BY <1>4, <1>6, <2>5, <3>2
    <3> QED
      BY <3>1, <3>2
  <2>6. CASE i \notin rest
    <3>1. pages # <<>> /\ ~(i < c)
      BY <1>8, <2>3, <2>6
    <3>2. c <= i
      BY <1>7, <2>2, <3>1
    <3>3. i \in ReadThrough(pages)
      BY <2>2, <2>3, <3>1, <3>2 DEF ReadThrough, c, L
    <3> QED
      BY <1>6, <3>3 DEF IsWalk
  <2> QED
    BY <2>5, <2>6
<1>12. IsWalk(longer)
  <2> HIDE DEF rest
  <2> QED
    BY <1>5, <1>9, <1>10, <1>11 DEF IsWalk
<1> QED
  BY <1>3, <1>4, <1>12 DEF c, longer

LEMMA NoPagesIsAWalk == IsWalk(<<>>)
BY DEF IsWalk, Walked, ReadThrough

(***************************************************************************)
(* The cache of pages.                                                     *)
(***************************************************************************)
Entries == [pages : Seq(EventPages), failed : BOOLEAN, fetch : {"none", "load", "next"},
            read : Seq(EventPages)]

TrailTypes ==
    /\ DOMAIN trail \subseteq Places /\ trail \in [DOMAIN trail -> Recorded]
    /\ naming \in [Servers -> Names \cup {Absent}]
    /\ minute \in 1 .. MaxMinute

PagerTypes ==
    /\ params \in DOMAIN cache /\ cache \in [DOMAIN cache -> Entries]
    /\ index \in Nat /\ awaiting \in Nat \cup {Absent}

\* What is cached, and what a fetch under way has read so far, is a walk; what
\* it has read is to be read on from, by Next from the end of what is cached.
CacheOfWalks ==
    \A p \in DOMAIN cache :
        /\ IsWalk(cache[p].pages) /\ IsWalk(cache[p].read)
        /\ cache[p].read # <<>> => hasNextPage(cache[p].read)
        /\ cache[p].fetch = "next" => cache[p].read = cache[p].pages

\* The pager waits for nothing but the page Next asked for.
AwaitsNext == awaiting # Absent => Data.fetch = "next"

EventsInv == TrailTypes /\ PagerTypes /\ CacheOfWalks /\ AwaitsNext

LEMMA FreshEntry ==
    /\ Unloaded \in Entries
    /\ Loading \in Entries /\ Loading.pages = <<>> /\ Loading.read = <<>> /\ Loading.fetch = "load"
<1>1. <<>> \in Seq(EventPages)
  OBVIOUS
<1>2. Unloaded \in Entries
  BY <1>1 DEF Unloaded, Entries
<1>3. Loading \in Entries
  BY <1>2 DEF Loading, Entries
<1> QED
  BY <1>2, <1>3 DEF Loading, Unloaded

\* The page is entered with nothing cached.
LEMMA EventsStart == EventsInit => EventsInv
<1> SUFFICES ASSUME EventsInit PROVE EventsInv
  OBVIOUS
<1>1. TrailTypes
  BY EventsAssumption DEF EventsInit, EventsAssumption, TrailTypes
<1>2. cache = [p \in {params} |-> Loading] /\ index = 0 /\ awaiting = Absent
  BY DEF EventsInit
<1>3. PagerTypes
  BY <1>2, FreshEntry DEF PagerTypes
<1>4. CacheOfWalks
  BY <1>2, FreshEntry, NoPagesIsAWalk DEF CacheOfWalks
<1> QED
  BY <1>1, <1>2, <1>3, <1>4 DEF EventsInv, AwaitsNext

\* What is cached for one set of parameters changes.
LEMMA EntryKeepsInv ==
    ASSUME EventsInv, UNCHANGED <<trailVars, params>>,
           NEW p \in DOMAIN cache, NEW entry \in Entries, cache' = [cache EXCEPT ![p] = entry],
           IsWalk(entry.pages), IsWalk(entry.read),
           entry.read # <<>> => hasNextPage(entry.read),
           entry.fetch = "next" => entry.read = entry.pages,
           index' \in Nat, awaiting' \in Nat \cup {Absent},
           awaiting' # Absent => cache'[params].fetch = "next"
    PROVE  EventsInv'
<1> USE DEF EventsInv
<1>1. DOMAIN cache' = DOMAIN cache /\ cache'[p] = entry
      /\ \A q \in DOMAIN cache : q # p => cache'[q] = cache[q]
  OBVIOUS
<1>2. TrailTypes'
  BY DEF TrailTypes, trailVars
<1>3. PagerTypes'
  <2>1. cache' \in [DOMAIN cache' -> Entries]
    BY DEF PagerTypes
  <2> QED
    BY <1>1, <2>1 DEF PagerTypes
<1>4. CacheOfWalks'
  BY <1>1 DEF CacheOfWalks
<1>5. AwaitsNext'
  BY DEF AwaitsNext, Data
<1> QED
  BY <1>2, <1>3, <1>4, <1>5

\* Nothing cached changes.
LEMMA CacheKeepsInv ==
    ASSUME EventsInv, TrailTypes', UNCHANGED <<params, cache>>,
           index' \in Nat, awaiting' \in {awaiting, Absent}
    PROVE  EventsInv'
<1>1. PagerTypes' /\ AwaitsNext'
  BY DEF EventsInv, PagerTypes, AwaitsNext, Data
<1>2. CacheOfWalks'
  BY DEF EventsInv, CacheOfWalks
<1> QED
  BY <1>1, <1>2 DEF EventsInv

(***************************************************************************)
(* The steps.                                                              *)
(***************************************************************************)

\* Filters and their debounce: new parameters get an entry of their own.
LEMMA ShowKeepsInv ==
    ASSUME EventsInv, NEW f, NEW text, Show(f, text), UNCHANGED trailVars
    PROVE  EventsInv'
<1> USE DEF EventsInv
<1>1. TrailTypes'
  BY DEF TrailTypes, trailVars
<1>2. CASE params' = params
  <2>1. UNCHANGED <<params, cache, index, awaiting>>
    BY <1>2 DEF Show
  <2> QED
    BY <1>1, <2>1, CacheKeepsInv DEF PagerTypes
<1>3. CASE params' # params
  <2>1. /\ index' = 0 /\ awaiting' = Absent
        /\ cache' = [q \in DOMAIN cache \cup {params'} |->
                         IF q \in DOMAIN cache THEN cache[q] ELSE Loading]
    BY <1>3 DEF Show
  <2>2. PagerTypes'
    <3>1. cache' \in [DOMAIN cache' -> Entries] /\ params' \in DOMAIN cache'
      BY <2>1, FreshEntry DEF PagerTypes
    <3> QED
      BY <2>1, <3>1 DEF PagerTypes
  <2>3. CacheOfWalks'
    BY <2>1, FreshEntry, NoPagesIsAWalk DEF CacheOfWalks
  <2> QED
    BY <1>1, <2>1, <2>2, <2>3 DEF AwaitsNext
<1> QED
  BY <1>2, <1>3

LEMMA ArrivesKeepsPager ==
    ASSUME EventsInv, NEW p \in DOMAIN cache, Arrives(p)
    PROVE  /\ index' \in Nat /\ awaiting' \in Nat \cup {Absent}
           /\ awaiting' # Absent => p # params /\ cache[params].fetch = "next"
BY DEF EventsInv, PagerTypes, AwaitsNext, Arrives, Data

LEMMA ArrivalKeepsInv ==
    ASSUME EventsAssumption, EventsInv, NEW p \in DOMAIN cache, PageArrives(p)
    PROVE  EventsInv'
<1> USE DEF EventsInv
<1> DEFINE read == cache[p].read
           pages == Append(read, PageAfter(p, NextCursor(read)))
<1>1. /\ cache[p] \in Entries /\ params \in DOMAIN cache /\ DOMAIN trail \subseteq Places
      /\ IsWalk(read) /\ IsWalk(cache[p].pages)
      /\ read # <<>> => hasNextPage(read)
      /\ cache[p].fetch = "next" => read = cache[p].pages
  BY DEF TrailTypes, PagerTypes, CacheOfWalks
<1>2. PICK r : r = read
  OBVIOUS
<1>3. /\ PageAfter(p, NextCursor(r)) \in EventPages
      /\ IsWalk(Append(r, PageAfter(p, NextCursor(r))))
  BY <1>1, <1>2, WalkGrows
<1>4. PICK longer : longer = pages
  OBVIOUS
<1>5. IsWalk(longer) /\ longer \in Seq(EventPages) /\ longer # <<>> /\ Len(longer) = Len(read) + 1
  <2>1. r \in Seq(EventPages)
    BY <1>1, <1>2 DEF IsWalk
  <2> QED
    BY <1>2, <1>3, <1>4, <2>1
<1>6. UNCHANGED <<trailVars, params>>
  BY DEF PageArrives
<1>7. CASE Len(pages) >= Len(cache[p].pages) \/ ~hasNextPage(pages)
  <2>1. PICK entry : entry = [Unloaded EXCEPT !.pages = longer]
    OBVIOUS
  <2>2. entry \in Entries /\ entry.pages = longer /\ entry.read = <<>> /\ entry.fetch = "none"
    BY <1>5, <2>1, FreshEntry DEF Entries, Unloaded
  <2>3. cache' = [cache EXCEPT ![p] = entry] /\ Arrives(p)
    BY <1>4, <1>7, <2>1 DEF PageArrives
  <2>4. awaiting' # Absent => cache'[params].fetch = "next"
    BY <1>1, <2>3, ArrivesKeepsPager
  <2>5. IsWalk(entry.pages) /\ IsWalk(entry.read)
    BY <1>5, <2>2, NoPagesIsAWalk
  <2> QED
    BY <1>6, <2>2, <2>3, <2>4, <2>5, EntryKeepsInv, ArrivesKeepsPager
<1>8. CASE ~(Len(pages) >= Len(cache[p].pages) \/ ~hasNextPage(pages))
  <2>1. PICK entry : entry = [cache[p] EXCEPT !.read = longer]
    OBVIOUS
  <2>2. /\ entry \in Entries /\ entry.pages = cache[p].pages /\ entry.read = longer
        /\ entry.fetch = cache[p].fetch
    BY <1>1, <1>5, <2>1 DEF Entries
  <2>3. cache' = [cache EXCEPT ![p] = entry] /\ UNCHANGED <<index, awaiting>>
    BY <1>4, <1>8, <2>1 DEF PageArrives
  <2>4. hasNextPage(longer) /\ entry.fetch # "next"
    <3>1. cache[p].pages \in Seq(EventPages) /\ read \in Seq(EventPages)
      BY <1>1 DEF Entries
    <3>2. cache[p].fetch = "next" => Len(longer) >= Len(cache[p].pages)
      BY <1>1, <1>5, <3>1
    <3> QED
      BY <1>4, <1>8, <2>2, <3>2
  <2>5. awaiting' # Absent => cache'[params].fetch = "next"
    <3>1. \A q \in DOMAIN cache : cache'[q].fetch = cache[q].fetch
      BY <2>2, <2>3
    <3> QED
      BY <1>1, <2>3, <3>1 DEF AwaitsNext, Data
  <2>6. index' \in Nat /\ awaiting' \in Nat \cup {Absent}
    BY <2>3 DEF PagerTypes
  <2>7. IsWalk(entry.pages) /\ IsWalk(entry.read)
    BY <1>1, <1>5, <2>2
  <2> QED
    BY <1>6, <2>2, <2>3, <2>4, <2>5, <2>6, <2>7, EntryKeepsInv
<1> QED
  BY <1>7, <1>8

LEMMA FailureKeepsInv ==
    ASSUME EventsInv, NEW p \in DOMAIN cache, PagesFail(p)
    PROVE  EventsInv'
<1> USE DEF EventsInv
<1>1. PICK entry : entry = [Unloaded EXCEPT !.pages = cache[p].pages, !.failed = TRUE]
  OBVIOUS
<1>2. cache[p] \in Entries /\ params \in DOMAIN cache /\ IsWalk(cache[p].pages)
  BY DEF PagerTypes, CacheOfWalks
<1>3. /\ entry \in Entries /\ entry.pages = cache[p].pages /\ entry.read = <<>>
      /\ entry.fetch = "none"
  BY <1>1, <1>2, FreshEntry DEF Entries, Unloaded
<1>4. cache' = [cache EXCEPT ![p] = entry] /\ Arrives(p) /\ UNCHANGED <<trailVars, params>>
  BY <1>1 DEF PagesFail
<1>5. awaiting' # Absent => cache'[params].fetch = "next"
  BY <1>2, <1>4, ArrivesKeepsPager
<1>6. IsWalk(entry.pages) /\ IsWalk(entry.read)
  BY <1>2, <1>3, NoPagesIsAWalk
<1> QED
  BY <1>3, <1>4, <1>5, <1>6, EntryKeepsInv, ArrivesKeepsPager

\* The fetches of the page itself (Reconnect, and Next at the last page).
LEMMA RequestKeepsInv ==
    ASSUME EventsInv, Reconnect \/ Next
    PROVE  EventsInv'
<1> USE DEF EventsInv
<1>1. PICK p : p = params
  OBVIOUS
<1>2. /\ p \in DOMAIN cache /\ cache[p] \in Entries /\ index \in Nat
      /\ IsWalk(cache[p].pages) /\ IsWalk(cache[p].read)
      /\ cache[p].read # <<>> => hasNextPage(cache[p].read)
  BY <1>1 DEF PagerTypes, CacheOfWalks
<1>3. CASE Reconnect
  <2>1. PICK entry : entry = [cache[p] EXCEPT !.fetch = "load"]
    OBVIOUS
  <2>2. /\ entry \in Entries /\ entry.pages = cache[p].pages /\ entry.read = cache[p].read
        /\ entry.fetch = "load"
    BY <1>2, <2>1 DEF Entries
  <2>3. /\ cache' = [cache EXCEPT ![p] = entry] /\ UNCHANGED <<index, awaiting>>
        /\ UNCHANGED <<trailVars, params>> /\ cache[params].fetch = "none"
    BY <1>1, <1>3, <2>1 DEF Reconnect, Data
  <2>4. awaiting' = Absent
    BY <2>3 DEF AwaitsNext, Data
  <2> QED
    BY <1>2, <2>2, <2>3, <2>4, EntryKeepsInv
<1>4. CASE Next /\ UNCHANGED <<cache, awaiting>>
  <2>1. index' \in Nat /\ UNCHANGED <<trailVars, params, cache, awaiting>>
    BY <1>2, <1>4 DEF Next
  <2>2. TrailTypes'
    BY <2>1 DEF TrailTypes, trailVars
  <2> QED
    BY <2>1, <2>2, CacheKeepsInv
<1>5. CASE Next /\ ~UNCHANGED <<cache, awaiting>>
  <2>1. PICK entry : entry = [cache[p] EXCEPT !.fetch = "next", !.read = cache[p].pages]
    OBVIOUS
  <2>2. /\ entry \in Entries /\ entry.pages = cache[p].pages /\ entry.read = cache[p].pages
        /\ entry.fetch = "next"
    BY <1>2, <2>1 DEF Entries
  <2>3. /\ cache' = [cache EXCEPT ![p] = entry] /\ awaiting' = index + 1 /\ index' = index
        /\ hasNextPage(cache[p].pages) /\ UNCHANGED <<trailVars, params>>
    BY <1>1, <1>5, <2>1 DEF Next, Data
  <2>4. cache'[params].fetch = "next" /\ index' \in Nat /\ awaiting' \in Nat
    BY <1>1, <1>2, <2>2, <2>3
  <2> QED
    BY <1>2, <2>2, <2>3, <2>4, EntryKeepsInv
<1> QED
  BY <1>3, <1>4, <1>5

\* The trail and the clock.
LEMMA TrailStep ==
    ASSUME EventsInv, EventsAssumption,
           \/ \E kind \in Kinds, i \in Places : Stamp(kind, i)
           \/ \E i \in DOMAIN trail : Insert(i) \/ PruneEvents(i)
           \/ \E s \in Servers, name \in Names \cup {Absent} : RenameServer(s, name)
           \/ Tick
    PROVE  TrailTypes' /\ UNCHANGED <<params, cache, index, awaiting>>
<1>1. TrailTypes /\ minute \in Nat /\ MaxMinute \in Nat
  BY DEF EventsInv, TrailTypes, EventsAssumption
<1>2. ASSUME NEW kind \in Kinds, NEW i \in Places, Stamp(kind, i)
      PROVE  TrailTypes' /\ UNCHANGED <<params, cache, index, awaiting>>
  <2>1. PICK e : /\ e = [kind |-> kind, name |-> naming[kind.server], minute |-> minute,
                         state |-> "pending"]
                 /\ trail' = [j \in DOMAIN trail \cup {i} |-> IF j = i THEN e ELSE trail[j]]
    BY <1>2 DEF Stamp
  <2>2. kind.server \in Servers
    BY DEF Servers
  <2>3. e \in Recorded
    BY <1>1, <2>1, <2>2 DEF Recorded, TrailTypes
  <2>4. DOMAIN trail' \subseteq Places /\ trail' \in [DOMAIN trail' -> Recorded]
    BY <1>1, <2>1, <2>3 DEF TrailTypes
  <2> QED
    BY <1>1, <1>2, <2>4 DEF Stamp, TrailTypes, pageVars
<1>3. ASSUME NEW i \in DOMAIN trail, Insert(i) \/ PruneEvents(i)
      PROVE  TrailTypes' /\ UNCHANGED <<params, cache, index, awaiting>>
  <2>1. PICK state \in {"stored", "pruned"} : trail' = [trail EXCEPT ![i].state = state]
    BY <1>3 DEF Insert, PruneEvents
  <2>2. DOMAIN trail' = DOMAIN trail /\ trail' \in [DOMAIN trail' -> Recorded]
    BY <1>1, <2>1 DEF TrailTypes, Recorded
  <2> QED
    BY <1>1, <1>3, <2>2 DEF Insert, PruneEvents, TrailTypes, pageVars
<1>4. ASSUME NEW s \in Servers, NEW name \in Names \cup {Absent}, RenameServer(s, name)
      PROVE  TrailTypes' /\ UNCHANGED <<params, cache, index, awaiting>>
  BY <1>1, <1>4 DEF RenameServer, TrailTypes
<1>5. CASE Tick
  BY <1>1, <1>5 DEF Tick, TrailTypes, pageVars
<1> QED
  BY <1>2, <1>3, <1>4, <1>5

LEMMA EventsStep == EventsAssumption /\ EventsInv /\ [EventsNext]_eventsVars => EventsInv'
<1> SUFFICES ASSUME EventsAssumption, EventsInv, [EventsNext]_eventsVars PROVE EventsInv'
  OBVIOUS
<1>1. TrailTypes /\ index \in Nat
  BY DEF EventsInv, PagerTypes
<1>2. UNCHANGED trailVars => TrailTypes'
  BY <1>1 DEF TrailTypes, trailVars
<1>3. CASE UNCHANGED eventsVars
  BY <1>1, <1>2, <1>3, CacheKeepsInv DEF eventsVars
<1>4. CASE SetFilter
  BY <1>4, ShowKeepsInv DEF SetFilter, setParam
<1>5. CASE \E key \in {"server", "from", "to"} : Settle(key)
  BY <1>5, ShowKeepsInv DEF Settle
<1>6. CASE \E p \in DOMAIN cache : PageArrives(p) \/ PagesFail(p)
  BY <1>6, ArrivalKeepsInv, FailureKeepsInv
<1>7. CASE Reconnect \/ Next
  BY <1>7, RequestKeepsInv
<1>8. CASE Previous
  <2>1. index' \in Nat /\ UNCHANGED <<trailVars, params, cache, awaiting>>
    BY <1>1, <1>8 DEF Previous
  <2> QED
    BY <1>2, <2>1, CacheKeepsInv
<1>9. ASSUME TrailTypes', UNCHANGED <<params, cache, index, awaiting>> PROVE EventsInv'
  BY <1>1, <1>9, CacheKeepsInv
<1> QED
  BY <1>3, <1>4, <1>5, <1>6, <1>7, <1>8, <1>9, TrailStep DEF EventsNext

(***************************************************************************)
(* Walking the pages repeats nothing, and skips nothing that was there and *)
(* matched as each of its pages was read, whatever was stamped, inserted,  *)
(* pruned or renamed between two requests of a load and whichever load was *)
(* cut short by another (the next page starts after the last event of the  *)
(* last page, not at a position).                                          *)
(***************************************************************************)
THEOREM NothingSkipped == EventsSpec => []NoEventSkipped
<1>1. EventsInv => NoEventSkipped
  <2> SUFFICES ASSUME EventsInv, NEW p \in DOMAIN cache, NEW pages, pages = cache[p].pages
               PROVE  /\ \A m, n \in DOMAIN pages : m < n =>
                            \A i \in pages[m].items, j \in pages[n].items : i > j
                      /\ \A i \in Places :
                            /\ pages # <<>> /\ \A n \in DOMAIN pages : i \in pages[n].of
                            /\ hasNextPage(pages) => NextCursor(pages) <= i
                            => i \in Walked(pages)
    BY DEF NoEventSkipped
  <2>1. IsWalk(pages)
    BY DEF EventsInv, CacheOfWalks
  <2>2. DOMAIN pages = 1 .. Len(pages)
    BY <2>1 DEF IsWalk
  <2> QED
    BY <2>1, <2>2 DEF IsWalk, ReadThrough
<1> QED
  BY <1>1, EventsStart, EventsStep, EventsAssumption, PTL DEF EventsSpec

\* The invariant gives the types EventsView states.
LEMMA EventsAreTyped == EventsAssumption /\ EventsInv => EventsTypeOK
<1> SUFFICES ASSUME EventsAssumption, EventsInv PROVE EventsTypeOK
  OBVIOUS
<1>1. minute \in 0 .. MaxMinute
  BY DEF EventsInv, TrailTypes, EventsAssumption
<1>2. \A p \in DOMAIN cache : \A n \in 1 .. Len(cache[p].pages) : cache[p].pages[n] \in EventPages
  BY DEF EventsInv, PagerTypes, Entries
<1> QED
  BY <1>1, <1>2 DEF EventsInv, TrailTypes, PagerTypes, EventsTypeOK

\* The trail, the cache and the pager stay of their types: every cached page
\* names places the trail may have (Stamp, PageArrives).
THEOREM EventsTyped == EventsSpec => []EventsTypeOK
BY EventsAreTyped, EventsStart, EventsStep, EventsAssumption, PTL DEF EventsSpec

(***************************************************************************)
(* The pager leaves the pages there are only by a Next whose load failed,  *)
(* or a reading again that found fewer pages: another filter's late answer *)
(* never moves it.                                                         *)
(***************************************************************************)
PagerStep ==
    PastThePages' /\ ~PastThePages =>
        \/ PagesFail(params)
        \/ params' = params /\ Len(Data.pages') < Len(Data.pages)

LEMMA PagerSteps == EventsAssumption /\ EventsInv /\ [EventsNext]_eventsVars => PagerStep
<1> SUFFICES ASSUME EventsAssumption, EventsInv, [EventsNext]_eventsVars, PastThePages', ~PastThePages
             PROVE  \/ PagesFail(params)
                    \/ params' = params /\ Len(Data.pages') < Len(Data.pages)
  BY DEF PagerStep
<1> USE DEF EventsInv
<1>1. /\ params \in DOMAIN cache /\ cache \in [DOMAIN cache -> Entries] /\ index \in Nat
      /\ awaiting \in Nat \cup {Absent}
  BY DEF PagerTypes
<1>2. cache[params] \in Entries /\ Data.pages \in Seq(EventPages) /\ Len(Data.pages) \in Nat
  BY <1>1 DEF Data, Entries
\* Something about the pager or its pages changed.
<1>3. ~(UNCHANGED <<index, awaiting>> /\ cache'[params'].pages = cache[params].pages)
  BY DEF PastThePages, Data
<1>4. CASE UNCHANGED eventsVars
  BY <1>3, <1>4 DEF eventsVars
<1>5. ASSUME NEW f, NEW text, Show(f, text) PROVE FALSE
  <2>1. CASE params' = params
    BY <1>3, <1>5, <2>1 DEF Show
  <2>2. CASE params' # params
    <3>1. index' = 0 /\ awaiting' = Absent
      BY <1>5, <2>2 DEF Show
    <3> QED
      BY <3>1 DEF PastThePages
  <2> QED
    BY <2>1, <2>2
<1>6. CASE SetFilter
  BY <1>5, <1>6 DEF SetFilter, setParam
<1>7. CASE \E key \in {"server", "from", "to"} : Settle(key)
  BY <1>5, <1>7 DEF Settle
<1>8. ASSUME NEW p \in DOMAIN cache, PageArrives(p)
      PROVE  params' = params /\ Len(Data.pages') < Len(Data.pages)
  <2> DEFINE read == cache[p].read
             pages == Append(read, PageAfter(p, NextCursor(read)))
  <2>1. params' = params
    BY <1>8 DEF PageArrives
  <2>2. ASSUME NEW new, cache' = [cache EXCEPT ![p].read = new], UNCHANGED <<index, awaiting>>
        PROVE  FALSE
    BY <1>1, <1>3, <2>1, <2>2 DEF Entries
  <2>3. Arrives(p) /\ cache' = [cache EXCEPT ![p] = [Unloaded EXCEPT !.pages = pages]]
    BY <1>8, <2>2 DEF PageArrives
  <2>4. p = params
    BY <1>1, <1>3, <2>1, <2>3 DEF Arrives
  <2>5. Data.pages' = pages
    BY <1>1, <2>1, <2>3, <2>4 DEF Data, Unloaded
  <2>6. CASE awaiting = Absent
    <3>1. index' = index /\ awaiting' = Absent
      BY <2>3, <2>6 DEF Arrives
    <3>2. Len(pages) \in Nat
      BY <1>1 DEF Entries
    <3> QED
      BY <1>1, <1>2, <2>1, <2>5, <3>1, <3>2 DEF PastThePages
  <2>7. CASE awaiting # Absent
    <3>1. index' = awaiting /\ awaiting' = Absent /\ awaiting \in Nat
      BY <1>1, <2>3, <2>4, <2>7 DEF Arrives
    <3>2. read = Data.pages
      BY <1>1, <2>4, <2>7 DEF AwaitsNext, CacheOfWalks, Data
    <3>3. Len(pages) = Len(Data.pages) + 1
      BY <1>2, <3>2
    <3>4. awaiting <= Len(Data.pages)
      BY <1>2, <2>7, <3>1 DEF PastThePages
    <3> QED
      BY <1>2, <2>5, <3>1, <3>3, <3>4 DEF PastThePages
  <2> QED
    BY <2>6, <2>7
<1>9. ASSUME NEW p \in DOMAIN cache, PagesFail(p) PROVE PagesFail(params)
  <2>1. CASE p = params
    BY <1>9, <2>1
  <2>2. CASE p # params
    <3>1. UNCHANGED <<params, index, awaiting>> /\ cache'[params] = cache[params]
      BY <1>1, <1>9, <2>2 DEF PagesFail, Arrives
    <3> QED
      BY <1>3, <3>1
  <2> QED
    BY <2>1, <2>2
<1>10. CASE Reconnect
  BY <1>1, <1>3, <1>10 DEF Reconnect, Entries
<1>11. CASE Previous
  <2>1. /\ index > 0 /\ index' = index - 1 /\ UNCHANGED <<params, cache, awaiting>>
    BY <1>11 DEF Previous
  <2> QED
    BY <1>1, <1>2, <2>1 DEF PastThePages, Data
<1>12. CASE Next
  <2>1. Data.pages # <<>> /\ Len(Data.pages) >= 1
    BY <1>2, <1>12 DEF Next, PagerIsShown
  <2>2. index + 1 <= Len(Data.pages)
    BY <1>1, <1>2, <2>1 DEF PastThePages
  <2>3. Data.pages' = Data.pages
    BY <1>1, <1>12 DEF Next, Data, Entries
  <2>4. CASE index + 1 < Len(Data.pages)
    <3>1. index' = index + 1 /\ awaiting' = awaiting
      BY <1>12, <2>4 DEF Next
    <3> QED
      BY <1>1, <1>2, <2>3, <2>4, <3>1 DEF PastThePages
  <2>5. CASE ~(index + 1 < Len(Data.pages))
    <3>1. index' = index /\ awaiting' = index + 1
      BY <1>12, <2>5 DEF Next
    <3> QED
      BY <1>1, <1>2, <2>2, <2>3, <3>1 DEF PastThePages
  <2> QED
    BY <2>4, <2>5
<1>13. ~UNCHANGED <<params, cache, index, awaiting>>
  BY <1>3
<1> QED
  BY <1>4, <1>6, <1>7, <1>8, <1>9, <1>10, <1>11, <1>12, <1>13, TrailStep DEF EventsNext

THEOREM PagerIsNamed == EventsSpec => PagerNamesItsPage
<1>1. EventsAssumption /\ EventsInv /\ [EventsNext]_eventsVars => [PagerStep]_eventsVars
  BY PagerSteps
<1> QED
  BY <1>1, EventsStart, EventsStep, EventsAssumption, PTL
     DEF EventsSpec, PagerNamesItsPage, PagerStep
=============================================================================
