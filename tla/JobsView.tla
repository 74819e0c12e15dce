------------------------------ MODULE JobsView ------------------------------
(***************************************************************************)
(* The Jobs page (features/jobs/JobsPage.tsx): the polled overview of the  *)
(* CronJobs, the dialog that confirms a run, the POST it sends, and the    *)
(* log of the selected pod, over the cluster the backend answers for.      *)
(*                                                                         *)
(* A CronJob is known by how many Jobs it had and which of them run; a log *)
(* by whether it was read before or after its Job finished.                *)
(***************************************************************************)
EXTENDS Integers, FiniteSets

CONSTANTS
    CronJobs,
    Deployed,       \* the CronJobs switched on in values.yaml
    Pods,           \* bound: the Jobs whose pod has a log to show: [cronjob, run]
    none,           \* nothing selected, asked for, loaded or being fetched
    sent,           \* a request the backend has not read the answer to yet
    MaxRuns,        \* bound: Jobs of each CronJob
    MaxPosts        \* bound: runs asked for and not answered

\* No CronJob goes by the name of something else the page shows.
ASSUME JobsAssumption ==
    /\ MaxPosts \in Nat
    /\ CronJobs \cap {none, "idle", "pending"} = {}

VARIABLES
    cluster,        \* of each CronJob, its latest Job and the running ones: [run, running]
    overview,       \* the same as the page last read it, none before
    overviewFetch,  \* none, sent, or the overview read for it
    asking,         \* the CronJob of the open dialog, none
    posts,          \* runs asked for: [id, cronjob, check, run]
    following,      \* the post the mutation observes, 0 for none
    outcome,        \* of it: "idle", "pending", or the CronJob whose run failed
    selected,       \* the pod of the log pane: [cronjob, run], none
    logs,           \* what each pod's pane shows: "unread", "partial", "whole", "failed"
    logFetch        \* the log being read: [pod, text], none

overviewVars == <<overview, overviewFetch>>
runVars == <<asking, posts, following, outcome>>
logVars == <<selected, logs, logFetch>>
jobsVars == <<cluster, overviewVars, runVars, logVars>>

----------------------------------------------------------------------------
(* The cluster *)

IsRunning(c) == cluster[c].running # {}
StartJob(c) ==
    /\ cluster[c].run < MaxRuns[c]
    /\ cluster' = [cluster EXCEPT ![c] = [run |-> @.run + 1, running |-> @.running \cup {@.run + 1}]]
Finished(pod) == pod.run \notin cluster[pod.cronjob].running

\* The controller starts no Job while it sees one running (Forbid).
Schedule(c) ==
    /\ c \in Deployed /\ ~IsRunning(c)
    /\ StartJob(c)
    /\ UNCHANGED <<overviewVars, runVars, logVars>>

\* A POST this page no longer hears from, or another operator's: its check may
\* be old by the time its Job is created.
StartedElsewhere(c) ==
    /\ c \in Deployed
    /\ StartJob(c)
    /\ UNCHANGED <<overviewVars, runVars, logVars>>

Finish(c) ==
    /\ \E run \in cluster[c].running : cluster' = [cluster EXCEPT ![c].running = @ \ {run}]
    /\ UNCHANGED <<overviewVars, runVars, logVars>>

----------------------------------------------------------------------------
(* The overview, polled whether or not a Job runs, faster while one does *)

\* Mutant: the overview is polled only while a Job runs.
PollWhileActive ==
    /\ overviewFetch = none
    /\ overview # none => \E c \in CronJobs : overview[c].running # {}
    /\ overviewFetch' = sent
    /\ UNCHANGED <<cluster, overview, runVars, logVars>>

PollOverview ==
    /\ overviewFetch = none
    /\ overviewFetch' = sent
    /\ UNCHANGED <<cluster, overview, runVars, logVars>>

ReadOverview ==
    /\ overviewFetch = sent
    /\ overviewFetch' = cluster
    /\ UNCHANGED <<cluster, overview, runVars, logVars>>

OverviewArrives ==
    /\ overviewFetch \notin {none, sent}
    /\ overview' = overviewFetch
    /\ overviewFetch' = none
    /\ UNCHANGED <<cluster, runVars, logVars>>

\* The last overview stays on screen under the error.
OverviewFails ==
    /\ overviewFetch # none
    /\ overviewFetch' = none
    /\ UNCHANGED <<cluster, overview, runVars, logVars>>

\* The pod's Job still runs, as far as the latest overview knows.
isUnfinished(pod) ==
    /\ overview # none
    /\ pod.run \in overview[pod.cronjob].running

----------------------------------------------------------------------------
(* Running a CronJob by hand *)

\* Mutant: the mutation is not reset before a dialog opens.
KeepRun == UNCHANGED <<following, outcome>>

ResetRun == following' = 0 /\ outcome' = "idle"

\* Run job on a card: disabled while a Job runs or when it is not deployed.
Ask(c) ==
    /\ overview # none /\ asking = none /\ selected = none
    /\ c \in Deployed /\ overview[c].running = {}
    /\ asking' = c
    /\ ResetRun
    /\ UNCHANGED <<cluster, overviewVars, posts, logVars>>

\* Cancelling neither recalls the run nor stops listening to it.
Cancel ==
    /\ asking # none
    /\ asking' = none
    /\ UNCHANGED <<cluster, overviewVars, posts, following, outcome, logVars>>

Confirm ==
    LET id == CHOOSE i \in 1 .. MaxPosts : \A p \in posts : p.id # i
    IN /\ asking # none /\ outcome # "pending"
       /\ Cardinality(posts) < MaxPosts
       /\ posts' = posts \cup {[id |-> id, cronjob |-> asking, check |-> "none", run |-> 0]}
       /\ following' = id /\ outcome' = "pending"
       /\ UNCHANGED <<cluster, overviewVars, asking, logVars>>

\* The backend lists the CronJob's Jobs and refuses if one is running; the Job
\* it then creates, in a request of its own, may come beside another.
CheckJobs(p) ==
    /\ p.check = "none"
    /\ LET check == IF IsRunning(p.cronjob) THEN "refused" ELSE "passed"
       IN posts' = (posts \ {p}) \cup {[p EXCEPT !.check = check]}
    /\ UNCHANGED <<cluster, overviewVars, asking, following, outcome, logVars>>

CreateJob(p) ==
    /\ p.check = "passed" /\ p.run = 0
    /\ StartJob(p.cronjob)
    /\ posts' = (posts \ {p}) \cup {[p EXCEPT !.run = cluster'[p.cronjob].run]}
    /\ UNCHANGED <<overviewVars, asking, following, outcome, logVars>>

\* A success closes whatever dialog is open, refetches the overview and opens
\* the log of the new Job's first pod, when it has one already.
RunStarted(p) ==
    /\ p.run > 0
    /\ posts' = posts \ {p}
    /\ asking' = none
    /\ overviewFetch' = sent
    /\ selected' \in {selected} \cup (Pods \cap {[cronjob |-> p.cronjob, run |-> p.run]})
    /\ IF p.id = following THEN ResetRun ELSE UNCHANGED <<following, outcome>>
    /\ UNCHANGED <<cluster, overview, logs, logFetch>>

\* A refusal, or a POST without an answer, shows if the mutation still follows
\* it; the handler of the latter goes on (StartedElsewhere).
RunFails(p) ==
    /\ posts' = posts \ {p}
    /\ IF p.id = following THEN following' = 0 /\ outcome' = p.cronjob
                           ELSE UNCHANGED <<following, outcome>>
    /\ UNCHANGED <<cluster, overviewVars, asking, logVars>>

----------------------------------------------------------------------------
(* The log pane *)

Select(pod) ==
    /\ asking = none /\ selected = none /\ overview # none
    /\ pod.run \in 1 .. overview[pod.cronjob].run
    /\ selected' = pod
    /\ UNCHANGED <<cluster, overviewVars, runVars, logs, logFetch>>

CloseLog ==
    /\ selected # none
    /\ selected' = none
    /\ UNCHANGED <<cluster, overviewVars, runVars, logs, logFetch>>

\* On opening a pod never read, by Refresh, and every 3 s while the overview
\* shows the Job running: not once more when it stops.
FetchLog ==
    /\ selected # none /\ logFetch = none
    /\ logFetch' = [pod |-> selected, text |-> sent]
    /\ UNCHANGED <<cluster, overviewVars, runVars, selected, logs>>
OpensUnread == selected # none /\ logs[selected] = "unread" /\ FetchLog
PollLog == selected # none /\ isUnfinished(selected) /\ FetchLog
Refresh == FetchLog

ReadLog ==
    /\ logFetch # none /\ logFetch.text = sent
    /\ logFetch' = [logFetch EXCEPT !.text = IF Finished(logFetch.pod) THEN "whole" ELSE "partial"]
    /\ UNCHANGED <<cluster, overviewVars, runVars, selected, logs>>

LogArrives ==
    /\ logFetch # none /\ logFetch.text # sent
    /\ logs' = [logs EXCEPT ![logFetch.pod] = logFetch.text]
    /\ logFetch' = none
    /\ UNCHANGED <<cluster, overviewVars, runVars, selected>>

\* The error replaces the log already shown.
LogFails ==
    /\ logFetch # none
    /\ logs' = [logs EXCEPT ![logFetch.pod] = "failed"]
    /\ logFetch' = none
    /\ UNCHANGED <<cluster, overviewVars, runVars, selected>>

----------------------------------------------------------------------------
JobsInit ==
    /\ cluster = [c \in CronJobs |-> [run |-> 0, running |-> {}]]
    /\ overview = none /\ overviewFetch = sent
    /\ asking = none /\ posts = {} /\ following = 0 /\ outcome = "idle"
    /\ selected = none /\ logs = [p \in Pods |-> "unread"] /\ logFetch = none

JobsNext ==
    \/ \E c \in CronJobs : Schedule(c) \/ StartedElsewhere(c) \/ Finish(c) \/ Ask(c)
    \/ PollOverview \/ ReadOverview \/ OverviewArrives \/ OverviewFails
    \/ Cancel \/ Confirm
    \/ \E p \in posts : CheckJobs(p) \/ CreateJob(p) \/ RunStarted(p) \/ RunFails(p)
    \/ \E pod \in Pods : Select(pod)
    \/ CloseLog \/ OpensUnread \/ PollLog \/ Refresh \/ ReadLog \/ LogArrives \/ LogFails

\* The timer and the network, which does not lose every answer; neither the
\* operator nor the end of a Job.
JobsFairness ==
    WF_jobsVars(PollOverview) /\ SF_jobsVars(ReadOverview) /\ SF_jobsVars(OverviewArrives)

JobsSpec == JobsInit /\ [][JobsNext]_jobsVars /\ JobsFairness

----------------------------------------------------------------------------
(* Properties *)

JobsTypeOK ==
    /\ \A o \in {cluster, overview} \ {none} : \A c \in CronJobs : o[c].running \subseteq 1 .. o[c].run
    /\ asking \in CronJobs \cup {none}
    /\ \A p \in posts : p \in [id : 1 .. MaxPosts, cronjob : CronJobs,
                                check : {"none", "refused", "passed"}, run : Nat]
    /\ following \in 0 .. MaxPosts
    /\ outcome \in {"idle", "pending"} \cup CronJobs
    /\ selected \in Pods \cup {none}
    /\ logs \in [Pods -> {"unread", "partial", "whole", "failed"}]

\* The dialog shows the failure of the run it asks about and of no other:
\* a run cancelled out of sight may fail while another CronJob's dialog is
\* open (Run job on a card resets the mutation before the dialog opens).
ErrorIsOfTheDialog == asking # none /\ outcome \in CronJobs => outcome = asking

\* The cards come to show the cluster as it is, with Jobs the schedule started
\* and finished while nothing ran (the overview is polled in that case too).
OverviewCatchesUp == <>[](overview = cluster)
=============================================================================
