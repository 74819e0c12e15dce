----------------------------- MODULE SitesView -----------------------------
(***************************************************************************)
(* The Sites page (features/sites/SitesOverviewPage.tsx): fleet-wide cards *)
(* over one card per site, each card and each count on it a link into the  *)
(* Servers page.  The numbers are GET /sites (api/v1/sites.py), which      *)
(* answers from a copy it keeps for 30 s; the list they lead to is         *)
(* FilterRows over the rows of the servers of that moment.  The two read   *)
(* the same documents differently: the count folds what the enums no       *)
(* longer have into a catch-all, the row decodes it or fails.  The         *)
(* statistics are a function of the documents they were counted over, so a *)
(* copy is kept as those documents.                                        *)
(***************************************************************************)
EXTENDS InventoryView

CONSTANTS
    Sites,          \* the configured site codes
    SiteFleets      \* the fleets the stored documents may form

\* The fields a card counts by and a row decodes, and the values their enums have
\* today; Null in one is a section the document does not have.
EnumFields == {"installation_type", "openshift_state", "health"}

Today == [installation_type |-> {"HOSTED_CLUSTER", "MCE", "UPI", "UNCLASSIFIED"},
          openshift_state   |-> {"AVAILABLE", "INSTALLED", "INSTALLED_TO_INVENTORY"},
          health            |-> ToSet(SEVERITY_ORDER)]

ASSUME SitesAssumption ==
    /\ IsFiniteSet(Sites) /\ Null \notin Sites
    /\ \A field \in EnumFields : Null \notin Today[field]
    /\ \A fleet \in SiteFleets :
          /\ fleet \in Seq(ToSet(fleet))
          /\ \A i \in DOMAIN fleet : EnumFields \subseteq DOMAIN fleet[i]

VARIABLES
    servers,        \* the documents stored now
    statsCache,     \* the servers the backend's copy was counted over, or Null
    stats,          \* the servers the answer on screen was counted over, or Null
    sitesFailed,    \* the last fetch of the sites failed
    followed        \* the link last followed: [to, number, of], or Null

sitesVars == <<servers, statsCache, stats, sitesFailed, followed>>

----------------------------------------------------------------------------
(* The documents, as GET /sites counts them and as GET /servers/rows reads them *)

CatchAll == [installation_type |-> "UNCLASSIFIED", openshift_state |-> "AVAILABLE",
             health |-> "UNKNOWN"]

\* Where the count puts a stored value: a retired one, and none at all, in the
\* catch-all bucket.
Bucket(doc, field) == IF doc[field] \in Today[field] THEN doc[field] ELSE CatchAll[field]

\* Mutant: a site no longer configured keeps its name.
StoredSiteOf(doc) == IF doc.site_id = Null THEN Unassigned ELSE doc.site_id

SiteOf(doc) == IF doc.site_id \in Sites THEN doc.site_id ELSE Unassigned

\* A slice of the fleet names a site, an installation type, a lifecycle
\* state, a severity and maintenance, any of them Null for "whichever".
Whole == [site |-> Null, installation |-> Null, state |-> Null,
          health |-> Null, maintenance |-> Null]
InSlice(doc, slice) ==
    /\ slice.site \in {Null, SiteOf(doc)}
    /\ slice.installation \in {Null, Bucket(doc, "installation_type")}
    /\ slice.state \in {Null, Bucket(doc, "openshift_state")}
    /\ slice.health \in {Null, Bucket(doc, "health")}
    /\ slice.maintenance \in {Null, doc.maintenance.enabled}
CountOf(docs, slice) == Cardinality({i \in DOMAIN docs : InSlice(docs[i], slice)})

\* What a row makes of a stored value: the default for none, HEALTHY for the
\* retired INFO, anything else as it is.
Decoded(doc, field) ==
    IF doc[field] = Null THEN CatchAll[field]
    ELSE IF field = "health" /\ doc[field] = "INFO" THEN "HEALTHY"
    ELSE doc[field]
RowOf(doc) == [doc EXCEPT !.installation_type = Decoded(doc, "installation_type"),
                          !.openshift_state = Decoded(doc, "openshift_state"),
                          !.health = Decoded(doc, "health")]

\* A row refuses a value of no enum, and one refused row fails the whole
\* answer of GET /servers/rows.
Decodes(doc) == \A field \in EnumFields : Decoded(doc, field) \in Today[field]

----------------------------------------------------------------------------
(* The cards *)

FleetCards ==
    {Whole} \cup {[Whole EXCEPT !.installation = t] : t \in {"UPI", "HOSTED_CLUSTER", "MCE"}}
            \cup {[Whole EXCEPT !.state = s] : s \in {"AVAILABLE", "INSTALLED"}}

\* Unassigned is dropped while empty; a configured site shows at zero.
SiteCards(docs) ==
    {[Whole EXCEPT !.site = s] : s \in Sites}
    \cup {c \in {[Whole EXCEPT !.site = Unassigned]} : CountOf(docs, c) > 0}

\* Mutant: the link drops the state and maintenance of the count.
LinkToSeverity(slice) ==
    LET one(v) == IF v = Null THEN {} ELSE {v}
    IN [BlankUrl EXCEPT !["site_id"] = one(slice.site),
                        !["installation_type"] = one(slice.installation),
                        !["health"] = one(slice.health)]

\* The list a slice's link opens.
LinkTo(slice) ==
    LET one(v) == IF v = Null THEN {} ELSE {v}
    IN [BlankUrl EXCEPT !["site_id"] = one(slice.site),
                        !["installation_type"] = one(slice.installation),
                        !["openshift_state"] = one(slice.state),
                        !["health"] = one(slice.health),
                        !["maintenance"] = IF slice.maintenance = Null THEN Null ELSE "true"]

\* The counts on a card, the nonzero ones: what is wrong, what is in
\* maintenance and, on a site's card, what is in use and what is free.
DrillIns(docs, card) ==
    {s \in {[card EXCEPT !.health = h] : h \in {"CRITICAL", "MAJOR", "WARNING", "UNKNOWN"}}
           \cup {[card EXCEPT !.maintenance = TRUE]}
           \cup (IF card.site = Null THEN {}
                 ELSE {[card EXCEPT !.state = s] : s \in {"INSTALLED", "AVAILABLE"}}) :
        CountOf(docs, s) > 0}

Cards == IF stats = Null THEN {} ELSE FleetCards \cup SiteCards(stats)

----------------------------------------------------------------------------
(* Actions *)

ServersChange(fleet) ==
    /\ servers' = fleet
    /\ UNCHANGED <<statsCache, stats, sitesFailed, followed>>

StatsExpire ==
    /\ statsCache # Null
    /\ statsCache' = Null
    /\ UNCHANGED <<servers, stats, sitesFailed, followed>>

\* The answer is the backend's copy, made now if there is none.
FetchSites ==
    /\ statsCache' = IF statsCache = Null THEN servers ELSE statsCache
    /\ stats' = statsCache'
    /\ sitesFailed' = FALSE
    /\ UNCHANGED <<servers, followed>>

\* A failed fetch says so above whatever cards there were.
FetchSitesFails ==
    /\ sitesFailed' = TRUE
    /\ UNCHANGED <<servers, statsCache, stats, followed>>

Follow(card, slice) ==
    /\ slice \in {card} \cup DrillIns(stats, card)
    /\ followed' = [to |-> LinkTo(slice), number |-> CountOf(stats, slice), of |-> stats]
    /\ UNCHANGED <<servers, statsCache, stats, sitesFailed>>

SitesInit ==
    /\ servers \in SiteFleets
    /\ statsCache = Null /\ stats = Null /\ sitesFailed = FALSE /\ followed = Null

SitesNext ==
    \/ \E fleet \in SiteFleets : ServersChange(fleet)
    \/ StatsExpire
    \/ FetchSites
    \/ FetchSitesFails
    \/ \E card \in Cards : \E slice \in {card} \cup DrillIns(stats, card) : Follow(card, slice)

----------------------------------------------------------------------------
(* Properties *)

SitesTypeOK ==
    /\ servers \in SiteFleets
    /\ {statsCache, stats} \subseteq SiteFleets \cup {Null}
    /\ sitesFailed \in BOOLEAN

\* The rows the followed link lists.
Listed ==
    FilterRows([i \in DOMAIN servers |-> RowOf(servers[i])],
               Filters(followed.to, Blank("search")))

\* A link opens as many servers as it says ("3 critical goes to those 3",
\* withHealthFilter), while no server has changed since the count.
LinksListTheirCount ==
    followed # Null /\ followed.of = servers =>
        /\ \A i \in DOMAIN servers : Decodes(servers[i])
        /\ Len(Listed) = followed.number

\* The document names a configured site, or none, and values its enums have
\* today, or none.
IsCurrent(doc) ==
    /\ doc.site_id \in Sites \cup {Null}
    /\ \A field \in EnumFields : doc[field] \in Today[field] \cup {Null}

\* The same, of a fleet of documents none of which holds a retired value: the
\* catch-alls of the count and the defaults of the rows then agree.
CurrentLinksListTheirCount ==
    (\A i \in DOMAIN servers : IsCurrent(servers[i])) => LinksListTheirCount

\* The site cards add up to the headline number, a server of a site no longer
\* configured included (_pivot: "so totals still add up").
SiteCardsAddUp ==
    stats # Null =>
        MapThenSumSet(LAMBDA card : CountOf(stats, card), SiteCards(stats)) = CountOf(stats, Whole)
=============================================================================
