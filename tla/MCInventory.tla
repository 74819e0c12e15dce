---------------------------- MODULE MCInventory ----------------------------
EXTENDS SitesView, TLC

CONSTANTS null, m1, m2

VARIABLE page      \* the page the router has mounted

Reservation(mce) == [held |-> mce # null, mce_cluster |-> mce]
NotReserved == Reservation(null)
InUse == [enabled |-> FALSE, reason |-> null]
ForParts == [enabled |-> TRUE, reason |-> "donor"]
InRepair == [enabled |-> TRUE, reason |-> "repair"]

\* A server with nothing remarkable; the fleets below differ from it.
Plain(n) ==
    [id |-> n, name |-> n, vendor |-> "dell", model |-> null, serial |-> null,
     site_id |-> "tlv", source_provider |-> "OPENMANAGE",
     installation_type |-> "UNCLASSIFIED", openshift_state |-> "AVAILABLE",
     health |-> "HEALTHY", maintenance |-> InUse, reservation |-> NotReserved,
     cluster_name |-> null, mce_name |-> null, openshift_reported_name |-> null,
     contested_with |-> null, profile_template_name |-> null, stale |-> FALSE,
     bmc_host |-> null, macs |-> {}]

\* Two servers of one name, a hosted cluster, one UPI cluster, an install in
\* progress, a donor, an unassigned server, unread models and hosts.
SmallFleet ==
    << [Plain("srv-2") EXCEPT !.id = "a", !.vendor = "hp", !.health = "CRITICAL",
                              !.model = "r650", !.macs = {m1}],
       [Plain("srv-2") EXCEPT !.id = "b", !.site_id = null, !.source_provider = null,
                              !.health = "UNKNOWN", !.stale = TRUE],
       [Plain("srv-10") EXCEPT !.mce_name = "mce-1", !.cluster_name = "hosted-1",
                               !.openshift_state = "INSTALLED", !.contested_with = "upi-1",
                               !.installation_type = "HOSTED_CLUSTER"],
       [Plain("srv-1") EXCEPT !.cluster_name = "upi-1", !.openshift_state = "INSTALLED",
                              !.openshift_reported_name = "srv-9", !.vendor = "hp",
                              !.maintenance = ForParts, !.model = "r650"],
       [Plain("srv-3") EXCEPT !.reservation = Reservation("mce-1"), !.health = "CRITICAL",
                              !.maintenance = InRepair] >>
MCFleets == {SmallFleet}

MCCollation ==
    [t \in {"srv-1", "srv-2", "srv-3", "srv-10", "r650", "mce-1", "hosted-1", "upi-1",
            "AVAILABLE", "INSTALLED"} |->
        CASE t = "AVAILABLE" -> 1 [] t = "hosted-1" -> 2 [] t = "INSTALLED" -> 3
          [] t = "mce-1" -> 4 [] t = "r650" -> 5 [] t = "srv-1" -> 6 [] t = "srv-2" -> 7
          [] t = "srv-3" -> 8 [] t = "srv-10" -> 9 [] t = "upi-1" -> 10]
MCWithin == {<<"srv-1", "srv-10">>, <<"mce", "mce-1">>, <<"hosted", "hosted-1">>}
MCRegexHits == {<<"srv-[12]", "srv-1">>, <<"srv-[12]", "srv-2">>, <<"srv-[12]", "srv-10">>}
MCBare == (m1 :> m2) @@ (m2 :> m2)

Query(kind, text) == [kind |-> kind, text |-> text]
MCQueries ==
    {Query("blank", null), Query("plain", "srv-1"), Query("exact", "srv-1"),
     Query("regex", "srv-[12]"), Query("bad_regex", null), Query("plain", m2)}

MCOptions ==
    [k \in {"vendor", "site_id", "health"} |->
        CASE k = "vendor" -> {"dell", "hp"}
          [] k = "site_id" -> {"tlv", Unassigned}
          [] k = "health" -> {"HEALTHY", "CRITICAL"}]

\* The bare page, a link of the Sites page, an old bookmark past the end.
MCStartUrls ==
    {BlankUrl,
     [BlankUrl EXCEPT !["maintenance"] = "true", !["site_id"] = {"tlv"}],
     [BlankUrl EXCEPT !["maintenance"] = "exclude", !["page"] = 9, !["sort"] = "size",
                      !["installation_type"] = {"HOSTED_CLUSTER", "UNCLASSIFIED"},
                      !["openshift_state"] = {"INSTALLED"}, !["cluster_name"] = {"hosted-1"},
                      !["source_provider"] = {"OPENMANAGE"}]}

MCSites == {"tlv", "hfa"}
SiteRow(site, type, state, severity, maintenance) ==
    [Plain("srv-1") EXCEPT !.site_id = site, !.installation_type = type,
                           !.openshift_state = state, !.health = severity,
                           !.maintenance = maintenance]
RetiredSiteFleet ==
    << SiteRow(null, "UNCLASSIFIED", "AVAILABLE", "CRITICAL", InUse),
       SiteRow("gone", "UPI", "INSTALLED", "CRITICAL", InUse) >>
\* The second fleet has documents that lack a section; the third a server of a
\* site that is no longer configured; the fourth a retired severity and a
\* retired lifecycle state.
MCSiteFleets ==
    { << SiteRow("tlv", "UPI", "INSTALLED", "CRITICAL", InUse),
         SiteRow("tlv", "MCE", "INSTALLED", "CRITICAL", InRepair),
         SiteRow("tlv", "UNCLASSIFIED", "AVAILABLE", "MAJOR", InUse),
         SiteRow(null, "UNCLASSIFIED", "INSTALLED_TO_INVENTORY", "UNKNOWN", ForParts) >>,
      << SiteRow("tlv", "HOSTED_CLUSTER", "INSTALLED", null, InUse),
         SiteRow("tlv", null, null, "WARNING", InUse) >>,
      RetiredSiteFleet,
      << SiteRow("tlv", "UPI", "INSTALLED", "INFO", InUse),
         SiteRow(null, "MCE", "UPI_NODE", "HEALTHY", InUse) >> }
MCRetiredSite == {RetiredSiteFleet}

\* The router mounts one page at a time; the other's state stays as it began.
PagesInit ==
    \/ /\ page = "servers"
       /\ ViewInit
       /\ SitesInit /\ servers = CHOOSE f \in SiteFleets : TRUE
    \/ /\ page = "sites"
       /\ ViewInit /\ url = BlankUrl
       /\ SitesInit
PagesNext ==
    \/ page = "servers" /\ ViewNext /\ UNCHANGED <<page, sitesVars>>
    \/ page = "sites" /\ SitesNext /\ UNCHANGED <<page, viewVars>>
PagesSpec ==
    /\ PagesInit /\ [][PagesNext]_<<page, viewVars, sitesVars>>
    /\ WF_viewVars(Render) /\ WF_viewVars(SearchSettles)

\* Each page's state is of the type its declarations give it.
PagesTypeOK == ViewTypeOK /\ SitesTypeOK
=============================================================================
