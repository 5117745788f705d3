------------------------------ MODULE Dashboard ------------------------------
(***************************************************************************)
(* The dashboard's background fetch: the job registry, the task that runs  *)
(* both backends, the pages that start and poll it, and what shares the    *)
(* data directory with it.                                                 *)
(*                                                                         *)
(* All handlers and the task run on one event loop, and a handler's body   *)
(* has no await: it is one step, and the task's steps are what lies        *)
(* between two of its awaits.  Other processes (`finstore setup`,          *)
(* `finstore snaptrade`) may change the stored credentials at any time.    *)
(***************************************************************************)
EXTENDS Naturals, Sequences

CONSTANTS
    Tabs,     \* browser tabs on the fetch page
    Setups,   \* the settings the server may be started with
    Windows,  \* SimpleFIN windows of one job
    MaxJobs   \* bound on the jobs ever started

ASSUME DashboardAssumption ==
    /\ Setups \subseteq [access_url : BOOLEAN, partner_keys : BOOLEAN]
    /\ Windows \in Nat \ {0} /\ MaxJobs \in Nat

BackendIds == {"simplefin", "snaptrade"}

VARIABLES
    settings,    \* the process's settings: access URL and partner keys given?
    creds,       \* backends with a stored credential
    cached,      \* what the directory holds: <<backend, window>>
    jobs,        \* the jobs started so far with their tasks, oldest first
    current,     \* registry._job: its place in jobs, 0 for a job never started
    lastSuccess, \* registry._last_success_at has been set
    page,        \* each tab's fetch page
    \* History variables.
    due,         \* backends that were configured throughout the current job
    wiped        \* a full reset has fallen into it

registry == <<jobs, current, lastSuccess>>
vars == <<settings, creds, cached, registry, page, due, wiped>>

Outcomes == {"none", "ok", "error"}
Reports == [BackendIds -> Outcomes]

\* A job with its task: `report` is the task's local dictionary until it is done.
FetchJob ==
    [state  : {"running", "done"},
     at     : {"created", "simplefin", "between", "snaptrade", "finish", "ended"},
     window : 1..Windows,
     report : Reports]

\* What is left of a job that the registry and the event loop have dropped.
Dropped == [state |-> "done", at |-> "ended", window |-> 1,
            report |-> [b \in BackendIds |-> "none"]]
NewJob == [state |-> "running", at |-> "created", window |-> 1,
           report |-> [b \in BackendIds |-> "none"]]

\* A page shows what the server rendered, and polls if that was "running".
Page == [shown   : {"loading", "idle", "running", "done"},
         button  : BOOLEAN,
         polling : BOOLEAN]
Loading == [shown |-> "loading", button |-> FALSE, polling |-> FALSE]

TypeOK ==
    /\ settings \in Setups
    /\ creds \subseteq BackendIds
    /\ cached \subseteq BackendIds \X (1..Windows)
    /\ jobs \in Seq(FetchJob) /\ Len(jobs) <= MaxJobs
    /\ current \in 0..Len(jobs)
    /\ lastSuccess \in BOOLEAN
    /\ page \in [Tabs -> Page]
    /\ due \subseteq BackendIds
    /\ wiped \in BOOLEAN

Init ==
    /\ settings \in Setups
    /\ creds = {}
    /\ cached = {}
    /\ jobs = <<>> /\ current = 0 /\ lastSuccess = FALSE
    /\ page = [t \in Tabs |-> Loading]
    /\ due = {}
    /\ wiped = FALSE

\* JobRegistry.status()["state"].
State == IF current = 0 THEN "idle" ELSE jobs[current].state

\* backend_status: a stored credential, or an access URL in the settings;
\* SnapTrade needs the partner keys as well.
Configured ==
    {b \in BackendIds :
        IF b = "simplefin" THEN b \in creds \/ settings.access_url
                           ELSE b \in creds /\ settings.partner_keys}

-----------------------------------------------------------------------------
(***************************************************************************)
(* Requests.                                                               *)
(***************************************************************************)

\* The user opens the page, again or for the first time.
Reload(t) ==
    /\ page' = [page EXCEPT ![t] = Loading]
    /\ UNCHANGED <<settings, creds, cached, registry, due, wiped>>

\* GET /fetch, and app.js on the page it returns.
FetchPage(t) ==
    /\ page[t].shown = "loading"
    /\ page' = [page EXCEPT ![t] = [shown   |-> State,
                                    button  |-> Configured # {} /\ State # "running",
                                    polling |-> State = "running"]]
    /\ UNCHANGED <<settings, creds, cached, registry, due, wiped>>

Start ==
    /\ jobs' = Append([i \in DOMAIN jobs |->
                         IF jobs[i].at = "ended" THEN Dropped ELSE jobs[i]], NewJob)
    /\ current' = Len(jobs) + 1
    /\ due' = Configured
    /\ wiped' = FALSE
    /\ UNCHANGED lastSuccess

\* Mutant: start() does not look at the job there is.
FetchStartAnyway(t) ==
    /\ page[t].button
    /\ Len(jobs) < MaxJobs
    /\ IF Configured # {}
       THEN Start
       ELSE UNCHANGED <<registry, due, wiped>>
    /\ page' = [page EXCEPT ![t] = Loading]
    /\ UNCHANGED <<settings, creds, cached>>

\* POST /fetch/start from a page that may be long out of date.
FetchStart(t) ==
    /\ page[t].button
    /\ Len(jobs) < MaxJobs
    /\ IF Configured # {} /\ State # "running"
       THEN Start
       ELSE UNCHANGED <<registry, due, wiped>>
    /\ page' = [page EXCEPT ![t] = Loading]
    /\ UNCHANGED <<settings, creds, cached>>

\* Mutant: the timer is set once.
PollOnce(t) ==
    /\ page[t].polling
    /\ page' = [page EXCEPT ![t] = IF State = "running"
                                   THEN [page[t] EXCEPT !.polling = FALSE]
                                   ELSE Loading]
    /\ UNCHANGED <<settings, creds, cached, registry, due, wiped>>

\* GET /fetch/status: poll again while the job runs, else reload the page.
Poll(t) ==
    /\ page[t].polling
    /\ page' = IF State = "running"
               THEN page
               ELSE [page EXCEPT ![t] = Loading]
    /\ UNCHANGED <<settings, creds, cached, registry, due, wiped>>

\* POST /cache/reset: the whole data directory, credentials included.
FullReset ==
    /\ cached' = {}
    /\ creds' = {}
    /\ due' = {b \in due : b = "simplefin" /\ settings.access_url}
    /\ wiped' = TRUE
    /\ UNCHANGED <<settings, registry, page>>

-----------------------------------------------------------------------------
(***************************************************************************)
(* _run_fetch, the task of job i.                                          *)
(***************************************************************************)

Step(i, from, to) ==
    /\ jobs[i].at = from
    /\ jobs' = [jobs EXCEPT ![i] = to]
    /\ UNCHANGED <<settings, creds, current, lastSuccess, page, due, wiped>>

At(i, point) == [jobs[i] EXCEPT !.at = point]

Reported(i, backend, outcome, point) ==
    [At(i, point) EXCEPT !.report[backend] = outcome]

\* SimpleFIN only if the settings have an access URL.
Begin(i) ==
    /\ Step(i, "created", At(i, IF settings.access_url THEN "simplefin" ELSE "between"))
    /\ UNCHANGED cached

\* Mutant: the range ends before the last window.
SimplefinWindowShort(i) ==
    LET w == jobs[i].window
    IN  /\ Step(i, "simplefin",
                IF w + 1 < Windows THEN [jobs[i] EXCEPT !.window = w + 1]
                                   ELSE Reported(i, "simplefin", "ok", "between"))
        /\ cached' = cached \cup {<<"simplefin", w>>}

\* Mutant: one window too many.
SimplefinWindowLong(i) ==
    LET w == jobs[i].window
    IN  /\ Step(i, "simplefin",
                IF w <= Windows THEN [jobs[i] EXCEPT !.window = w + 1]
                                ELSE Reported(i, "simplefin", "ok", "between"))
        /\ cached' = cached \cup {<<"simplefin", w>>}

\* A window arrives and is merged.
SimplefinWindow(i) ==
    LET w == jobs[i].window
    IN  /\ Step(i, "simplefin",
                IF w < Windows THEN [jobs[i] EXCEPT !.window = w + 1]
                               ELSE Reported(i, "simplefin", "ok", "between"))
        /\ cached' = cached \cup {<<"simplefin", w>>}

SimplefinFails(i) ==
    /\ Step(i, "simplefin", Reported(i, "simplefin", "error", "between"))
    /\ UNCHANGED cached

\* SnapTrade if there are keys and, by now, a stored credential.
ReadSnaptradeCredential(i) ==
    /\ Step(i, "between",
            At(i, IF settings.partner_keys /\ "snaptrade" \in creds
                  THEN "snaptrade" ELSE "finish"))
    /\ UNCHANGED cached

\* Its one merge.
SnaptradeMerge(i) ==
    /\ Step(i, "snaptrade", Reported(i, "snaptrade", "ok", "finish"))
    /\ cached' = cached \cup {<<"snaptrade", 1>>}

\* Mutant: the exception is not caught.
SnaptradeRaises(i) ==
    /\ Step(i, "snaptrade", At(i, "ended"))
    /\ UNCHANGED cached

SnaptradeFails(i) ==
    /\ Step(i, "snaptrade", Reported(i, "snaptrade", "error", "finish"))
    /\ UNCHANGED cached

\* The report is published, and a success recorded in any case.
Finish(i) ==
    /\ jobs[i].at = "finish"
    /\ jobs' = [jobs EXCEPT ![i] = [At(i, "ended") EXCEPT !.state = "done"]]
    /\ lastSuccess' = TRUE
    /\ UNCHANGED <<settings, creds, cached, current, page, due, wiped>>

TaskStep(i) ==
    \/ Begin(i)
    \/ SimplefinWindow(i)
    \/ SimplefinFails(i)
    \/ ReadSnaptradeCredential(i)
    \/ SnaptradeMerge(i)
    \/ SnaptradeFails(i)
    \/ Finish(i)

-----------------------------------------------------------------------------
\* `finstore setup` and `finstore snaptrade setup`, in another process.
StoreCredential(b) ==
    /\ creds' = creds \cup {b}
    /\ UNCHANGED <<settings, cached, registry, page, due, wiped>>

\* `finstore snaptrade delete`.
DeleteSnaptradeCredential ==
    /\ creds' = creds \ {"snaptrade"}
    /\ due' = due \ {"snaptrade"}
    /\ UNCHANGED <<settings, cached, registry, page, wiped>>

\* The server stops, its task with it, and starts again (create_app resets
\* the registry); open pages keep polling.
Restart ==
    /\ jobs' = [i \in DOMAIN jobs |-> Dropped]
    /\ current' = 0
    /\ lastSuccess' = FALSE
    /\ UNCHANGED <<settings, creds, cached, page, due, wiped>>

Next ==
    \/ \E t \in Tabs : Reload(t) \/ FetchPage(t) \/ FetchStart(t) \/ Poll(t)
    \/ FullReset
    \/ \E i \in DOMAIN jobs : TaskStep(i)
    \/ \E b \in BackendIds : StoreCredential(b)
    \/ DeleteSnaptradeCredential
    \/ Restart

(***************************************************************************)
(* Every await of the task ends (HTTP timeouts, bounded retries), a page   *)
(* that is asked for is answered, and app.js polls every two seconds.      *)
(***************************************************************************)
Fairness ==
    /\ \A i \in 1..MaxJobs : WF_vars(i \in DOMAIN jobs /\ TaskStep(i))
    /\ \A t \in Tabs : WF_vars(FetchPage(t)) /\ WF_vars(Poll(t))

Spec == Init /\ [][Next]_vars /\ Fairness

-----------------------------------------------------------------------------
(***************************************************************************)
(* The registry says "running" exactly while a task is alive, and that is  *)
(* its own: however many stale pages submit, two jobs never write the      *)
(* directory at once (ADR 06: one writer).                                 *)
(***************************************************************************)
OneWriter ==
    /\ \A i \in DOMAIN jobs : jobs[i].at # "ended" => i = current
    /\ State = "running" <=> \E i \in DOMAIN jobs : jobs[i].at # "ended"

(***************************************************************************)
(* What a finished job reports without an error is in the directory: every *)
(* window of the range, although the handlers may have removed the whole   *)
(* directory between two of its awaits (a job that a full reset fell into  *)
(* is excused).                                                            *)
(***************************************************************************)
ReportHolds ==
    State = "done" /\ ~wiped =>
      /\ jobs[current].report["simplefin"] = "ok" =>
           \A w \in 1..Windows : <<"simplefin", w>> \in cached
      /\ jobs[current].report["snaptrade"] = "ok" => <<"snaptrade", 1>> \in cached

(***************************************************************************)
(* A job ends whatever its backends do ("a failure in one never blocks the *)
(* other", jobs.py:79), so that a fetch can be started again.              *)
(***************************************************************************)
JobEnds == State = "running" ~> State # "running"

(***************************************************************************)
(* A page that shows a running fetch comes to show something else: app.js  *)
(* keeps polling, also across a restart of the server, and reloads.        *)
(***************************************************************************)
PageSettles ==
    \A t \in Tabs : page[t].shown = "running" ~> page[t].shown # "running"

(***************************************************************************)
(* "The access URL is resolved at runtime in the following priority order" *)
(* (ADR 13): settings, then the stored credential.  A backend that was     *)
(* configured when a job began, and stayed so, is in the job's report.     *)
(***************************************************************************)
ConfiguredIsFetched ==
    State = "done" => \A b \in due : jobs[current].report[b] # "none"
=============================================================================
