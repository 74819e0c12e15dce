------------------------------ MODULE MCPages ------------------------------
EXTENDS MaintenanceSwitch, JobsView, EventsView, Session, CopyToast, LoginThrottle, TLC

CONSTANTS bad, gone, b1

VARIABLE page      \* the part of the application that is in use

Ev == [server |-> "s1", event_type |-> "HEALTH_CHANGED", actor_id |-> "ann"]
OldEv == [Ev EXCEPT !.event_type = "HEALTH_STATUS_CHANGED"]
MCKinds == {Ev, OldEv}
MCRenamed == "HEALTH_STATUS_CHANGED" :> "HEALTH_CHANGED"
MCNaming == "s1" :> "srv"
MCSpan == "1h" :> 1
\* An old document, without a name, and a newer event, with room for a third
\* between them or above both.
MCStartTrails ==
    {1 :> [kind |-> OldEv, name |-> gone, minute |-> 0, state |-> "stored"]
     @@ i :> [kind |-> Ev, name |-> "srv", minute |-> 1, state |-> "stored"] : i \in {2, 3}}
\* An old bookmark, by name and event type and with a bound that is no date.
MCStartFilters ==
    {[server |-> "srv", event_type |-> "HEALTH_STATUS_CHANGED", actor_id |-> gone,
      range |-> "custom", from |-> bad, to |-> gone]}

MCPods == {[cronjob |-> "prune", run |-> 1]}
MCMaxRuns == [c \in {"prune", "oneview"} |-> IF c = "prune" THEN 2 ELSE 0]

MCRole == [u \in {"bob"} |-> "AUDITOR"]

Pages == {"maintenance", "jobs", "events", "session", "copy", "login"}
Use(p, A) == page = p /\ A
Freeze(p, vars) == page # p => UNCHANGED vars

\* One part is in use at a time; the others stay as they began, in one of
\* their initial states; the switch begins out of maintenance, its rows in Redis.
PagesInit ==
    /\ page \in Pages
    /\ SwitchInit /\ ~server.on /\ copy = server
    /\ JobsInit /\ EventsInit /\ (page # "events" => 3 \in DOMAIN trail)
    /\ SessionInit /\ (page # "session" => session.user = nobody /\ path = "/")
    /\ CopyInit /\ ThrottleInit
PagesNext ==
    /\ UNCHANGED page
    /\ \/ Use("maintenance", SwitchNext) \/ Use("jobs", JobsNext) \/ Use("events", EventsNext)
       \/ Use("session", SessionNext) \/ Use("copy", CopyNext)
       \/ Use("login", ThrottleNext)
    /\ Freeze("maintenance", switchVars) /\ Freeze("jobs", jobsVars)
    /\ Freeze("events", eventsVars) /\ Freeze("session", sessionVars)
    /\ Freeze("copy", copyVars) /\ Freeze("login", throttleVars)

\* SwitchFairness and JobsFairness, of the part in use.
PagesSpec ==
    /\ PagesInit
    /\ [][PagesNext]_<<page, switchVars, jobsVars, eventsVars, sessionVars, copyVars, throttleVars>>
    /\ WF_switchVars(Use("maintenance", Poll))
    /\ WF_switchVars(Use("maintenance", Lookup))
    /\ WF_switchVars(Use("maintenance", RowsArrive))
    /\ \A p \in Processes :
          /\ WF_switchVars(Use("maintenance", ReadRows(p)))
          /\ WF_switchVars(Use("maintenance", StoreRows(p)))
          /\ WF_switchVars(Use("maintenance", Forget(p)))
    /\ WF_switchVars(Use("maintenance", RowsExpire))
    /\ WF_jobsVars(Use("jobs", PollOverview))
    /\ SF_jobsVars(Use("jobs", ReadOverview))
    /\ SF_jobsVars(Use("jobs", OverviewArrives))

\* Every part's state is of the type its declarations give it.
PagesTypeOK ==
    /\ SwitchTypeOK /\ JobsTypeOK /\ EventsTypeOK /\ SessionTypeOK /\ CopyTypeOK
    /\ ThrottleTypeOK

\* Where the Jobs page is in use, its cards come to show the cluster as it is,
\* with the Jobs the schedule started while none ran (the poll's two intervals).
JobsPageCatchesUp == page = "jobs" => OverviewCatchesUp
=============================================================================
