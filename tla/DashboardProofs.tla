---------------------------- MODULE DashboardProofs ----------------------------
(***************************************************************************)
(* The invariants of Dashboard for any number of tabs, jobs and windows:   *)
(* one job writes at a time, and what it reports is in the directory.      *)
(***************************************************************************)
EXTENDS Dashboard, SequenceTheorems, TLAPS

(***************************************************************************)
(* A job runs exactly while its task is alive, and only the registry's own *)
(* job does.                                                               *)
(***************************************************************************)
Alive ==
    \A i \in DOMAIN jobs :
      /\ jobs[i].state = "running" <=> jobs[i].at # "ended"
      /\ jobs[i].at # "ended" => i = current

(***************************************************************************)
(* What the current job has merged so far, unless a full reset fell in it: *)
(* the windows before the one it is at, all of them once it says so, the   *)
(* activities once it says so.                                             *)
(***************************************************************************)
Merged(job) ==
    /\ job.at \in {"created", "simplefin"} => job.report["simplefin"] = "none"
    /\ job.at = "created" => job.window = 1
    /\ job.at = "simplefin" =>
         \A w \in 1..Windows : w < job.window => <<"simplefin", w>> \in cached
    /\ job.report["simplefin"] = "ok" =>
         \A w \in 1..Windows : <<"simplefin", w>> \in cached
    /\ job.report["snaptrade"] = "ok" => <<"snaptrade", 1>> \in cached

IInv ==
    /\ TypeOK
    /\ Alive
    /\ current # 0 /\ ~wiped => Merged(jobs[current])
-----------------------------------------------------------------------------
USE DashboardAssumption
USE DEF BackendIds, registry, vars

\* Jobs are numbered from 1.
LEMMA JobsAre ==
  ASSUME TypeOK
  PROVE  /\ Len(jobs) \in Nat
         /\ DOMAIN jobs = 1..Len(jobs)
         /\ \A i \in DOMAIN jobs : jobs[i] \in FetchJob
         /\ current # 0 => current \in DOMAIN jobs
  BY LenProperties, ElementOfSeq DEF TypeOK

LEMMA DroppedIsJob ==
  /\ Dropped \in FetchJob /\ Dropped.at = "ended" /\ Dropped.state = "done"
  /\ NewJob \in FetchJob /\ NewJob.at = "created" /\ NewJob.state = "running"
  /\ NewJob.window = 1
  /\ \A b \in BackendIds : NewJob.report[b] = "none"
  BY DEF Dropped, NewJob, FetchJob, Reports, Outcomes

LEMMA InitIInv == Init => IInv
  <1> SUFFICES ASSUME Init PROVE IInv
    OBVIOUS
  <1>1. jobs \in Seq(FetchJob) /\ Len(jobs) = 0 /\ DOMAIN jobs = {}
    BY DEF Init
  <1>2. page \in [Tabs -> Page]
    BY DEF Init, Page, Loading
  <1>3. settings \in Setups /\ creds \subseteq BackendIds /\ due \subseteq BackendIds
    BY DEF Init
  <1>4. cached \subseteq BackendIds \X (1..Windows)
    BY DEF Init
  <1>5. Len(jobs) <= MaxJobs /\ current \in 0..Len(jobs)
    BY <1>1 DEF Init
  <1>6. lastSuccess \in BOOLEAN /\ wiped \in BOOLEAN
    BY DEF Init
  <1>7. TypeOK
    BY <1>1, <1>2, <1>3, <1>4, <1>5, <1>6 DEF TypeOK
  <1> QED
    BY <1>1, <1>7 DEF IInv, Alive, Init

(***************************************************************************)
(* A step that leaves the jobs alone, and takes nothing from the directory *)
(* unless it is a full reset.                                              *)
(***************************************************************************)
LEMMA OtherSteps ==
  ASSUME IInv, TypeOK',
         UNCHANGED <<jobs, current>>,
         \/ wiped'
         \/ wiped' = wiped /\ cached \subseteq cached'
  PROVE  IInv'
  <1>1. Alive'
    BY DEF IInv, Alive
  <1>2. current' # 0 /\ ~wiped' => Merged(jobs[current])'
    BY DEF IInv, Merged
  <1> QED
    BY <1>1, <1>2 DEF IInv

\* Every request and every other process.
LEMMA OthersType ==
  ASSUME TypeOK
  PROVE  /\ \A t \in Tabs : Reload(t) \/ FetchPage(t) \/ Poll(t) => TypeOK'
         /\ FullReset => TypeOK'
         /\ \A b \in BackendIds : StoreCredential(b) => TypeOK'
         /\ DeleteSnaptradeCredential => TypeOK'
         /\ UNCHANGED vars => TypeOK'
  <1> USE DEF TypeOK
  <1>1. State \in {"idle", "running", "done"}
    BY JobsAre DEF State, FetchJob
  <1>2. Loading \in Page
    BY DEF Loading, Page
  <1>3. ASSUME NEW t \in Tabs, Reload(t) \/ FetchPage(t) \/ Poll(t) PROVE TypeOK'
    <2>1. page' \in [Tabs -> Page]
      <3>1. CASE Reload(t)
        BY <1>2, <3>1 DEF Reload
      <3>2. CASE FetchPage(t)
        <4>1. [shown |-> State, button |-> Configured # {} /\ State # "running",
               polling |-> State = "running"] \in Page
          BY <1>1 DEF Page
        <4> QED
          BY <3>2, <4>1 DEF FetchPage
      <3>3. CASE Poll(t)
        BY <1>2, <3>3 DEF Poll
      <3> QED
        BY <1>3, <3>1, <3>2, <3>3
    <2>2. UNCHANGED <<settings, creds, cached, registry, due, wiped>>
      BY <1>3 DEF Reload, FetchPage, Poll
    <2> QED
      BY <2>1, <2>2
  <1>4. ASSUME FullReset PROVE TypeOK'
    BY <1>4 DEF FullReset
  <1>5. ASSUME NEW b \in BackendIds, StoreCredential(b) PROVE TypeOK'
    BY <1>5 DEF StoreCredential
  <1>6. ASSUME DeleteSnaptradeCredential PROVE TypeOK'
    BY <1>6 DEF DeleteSnaptradeCredential
  <1>7. ASSUME UNCHANGED vars PROVE TypeOK'
    BY <1>7
  <1> QED
    BY <1>3, <1>4, <1>5, <1>6, <1>7

\* POST /fetch/start: a job is started only when none runs.
LEMMA StartKeeps ==
  ASSUME IInv, NEW t \in Tabs, FetchStart(t)
  PROVE  IInv'
  <1>1. TypeOK /\ Alive
    BY DEF IInv
  <1>2. page' \in [Tabs -> Page]
    BY <1>1 DEF TypeOK, FetchStart, Page, Loading
  <1>3. CASE UNCHANGED <<registry, due, wiped>>
    <2>1. TypeOK'
      BY <1>1, <1>2, <1>3 DEF TypeOK, FetchStart
    <2> QED
      BY <1>3, <2>1, OtherSteps DEF FetchStart
  <1>4. CASE State # "running" /\ Start
    <2> DEFINE n == Len(jobs)
               kept == [i \in DOMAIN jobs |-> IF jobs[i].at = "ended" THEN Dropped ELSE jobs[i]]
    <2>1. /\ kept \in Seq(FetchJob)
          /\ Len(kept) = n /\ n \in Nat
          /\ \A i \in 1..n : kept[i].at = "ended" /\ kept[i].state = "done"
      <3>1. \A i \in DOMAIN jobs : jobs[i].at = "ended"
        BY <1>1, <1>4, JobsAre DEF Alive, State, FetchJob
      <3>2. kept \in [1..n -> FetchJob] /\ n \in Nat
        BY <1>1, JobsAre, DroppedIsJob
      <3>3. kept \in Seq(FetchJob) /\ Len(kept) = n
        BY <3>2
      <3>4. \A i \in 1..n : kept[i] = Dropped
        BY <1>1, <3>1, JobsAre
      <3> QED
        BY <3>2, <3>3, <3>4, DroppedIsJob
    <2>2. /\ jobs' = Append(kept, NewJob)
          /\ current' = n + 1
          /\ wiped' = FALSE /\ due' = Configured
          /\ n < MaxJobs
          /\ UNCHANGED <<settings, creds, cached, lastSuccess>>
      BY <1>4 DEF Start, FetchStart
    <2> HIDE DEF n, kept
    <2>3. /\ jobs' \in Seq(FetchJob) /\ Len(jobs') = n + 1
          /\ \A i \in 1..n : jobs'[i] = kept[i]
          /\ jobs'[n + 1] = NewJob
          /\ DOMAIN jobs' = 1..(n + 1)
      BY <2>1, <2>2, AppendProperties, LenProperties, DroppedIsJob
    <2>4. TypeOK'
      <3>1. Len(jobs') <= MaxJobs /\ current' \in 0..Len(jobs')
        BY <2>1, <2>2, <2>3
      <3>2. due' \subseteq BackendIds
        BY <2>2 DEF Configured
      <3> QED
        BY <1>1, <1>2, <2>2, <2>3, <3>1, <3>2 DEF TypeOK
    <2>5. Alive'
      BY <2>1, <2>2, <2>3, DroppedIsJob DEF Alive
    <2>6. Merged(jobs[current])'
      BY <2>2, <2>3, DroppedIsJob DEF Merged
    <2> QED
      BY <2>4, <2>5, <2>6 DEF IInv
  <1> QED
    BY <1>3, <1>4 DEF FetchStart

(***************************************************************************)
(* A step of a task: its job changes to another that is as well-formed,    *)
(* alive or ended as it says it is, and truthful about the directory.      *)
(***************************************************************************)
LEMMA TaskKeeps ==
  ASSUME IInv, NEW i \in DOMAIN jobs, NEW job \in FetchJob,
         jobs[i].at # "ended",
         jobs' = [jobs EXCEPT ![i] = job],
         job.state = "running" <=> job.at # "ended",
         cached \subseteq cached',
         cached' \subseteq BackendIds \X (1..Windows),
         lastSuccess' \in BOOLEAN,
         UNCHANGED <<settings, creds, current, page, due, wiped>>,
         ~wiped => Merged(jobs[current])' 
  PROVE  IInv'
  <1>1. TypeOK /\ Alive
    BY DEF IInv
  <1>2. /\ jobs' \in Seq(FetchJob) /\ Len(jobs') = Len(jobs)
        /\ DOMAIN jobs' = DOMAIN jobs
        /\ \A j \in DOMAIN jobs : jobs'[j] = IF j = i THEN job ELSE jobs[j]
    BY <1>1, JobsAre, ExceptSeq DEF TypeOK
  <1>3. TypeOK'
    BY <1>1, <1>2 DEF TypeOK
  <1>4. Alive'
    BY <1>1, <1>2 DEF Alive
  <1> QED
    BY <1>3, <1>4 DEF IInv

\* _run_fetch, step by step.
LEMMA TaskStepKeeps ==
  ASSUME IInv, NEW i \in DOMAIN jobs, TaskStep(i)
  PROVE  IInv'
  <1> DEFINE w == jobs[i].window
  <1>1. TypeOK /\ Alive /\ jobs[i] \in FetchJob
    BY JobsAre DEF IInv
  <1>2. /\ w \in 1..Windows
        /\ \A b \in BackendIds : jobs[i].report[b] \in Outcomes
    BY <1>1 DEF FetchJob, Reports
  <1>3. jobs[i].at # "ended"
    BY DEF TaskStep, Begin, SimplefinWindow, SimplefinFails,
       ReadSnaptradeCredential, SnaptradeMerge, SnaptradeFails, Finish, Step
  <1>4. i = current /\ jobs[i].state = "running"
    BY <1>1, <1>3 DEF Alive, FetchJob
  <1>5. ~wiped => Merged(jobs[i])
    BY <1>1, <1>4, JobsAre DEF IInv
  <1>6. /\ cached' \subseteq BackendIds \X (1..Windows)
        /\ cached \subseteq cached'
    BY <1>1, <1>2 DEF TypeOK, TaskStep, Begin, SimplefinWindow, SimplefinFails,
       ReadSnaptradeCredential, SnaptradeMerge, SnaptradeFails, Finish
  <1>7. CASE Begin(i)
    <2> DEFINE job == At(i, IF settings.access_url THEN "simplefin" ELSE "between")
    <2>1. /\ jobs' = [jobs EXCEPT ![i] = job] /\ jobs'[i] = job
          /\ lastSuccess' \in BOOLEAN
          /\ UNCHANGED <<settings, creds, current, page, due, wiped>>
      BY <1>1, <1>7 DEF Begin, Step, TypeOK
    <2>2. /\ job \in FetchJob
          /\ jobs[i].at = "created"
          /\ job.state = "running" /\ job.at \in {"simplefin", "between"}
          /\ job.report = jobs[i].report /\ job.window = jobs[i].window
      BY <1>1, <1>2, <1>4, <1>7 DEF FetchJob, Reports, Outcomes, At, Begin, Step
    <2> HIDE DEF job
    <2>3. ~wiped => Merged(jobs[current])'
      BY <1>4, <1>5, <1>6, <2>1, <2>2 DEF Merged
    <2> QED
      BY <1>3, <1>6, <2>1, <2>2, <2>3, TaskKeeps
  <1>8. CASE SimplefinWindow(i)
    <2> DEFINE job == IF w < Windows THEN [jobs[i] EXCEPT !.window = w + 1]
                      ELSE Reported(i, "simplefin", "ok", "between")
    <2>1. /\ jobs' = [jobs EXCEPT ![i] = job] /\ jobs'[i] = job
          /\ lastSuccess' \in BOOLEAN
          /\ UNCHANGED <<settings, creds, current, page, due, wiped>>
      BY <1>1, <1>8 DEF SimplefinWindow, Step, TypeOK
    <2>2. /\ job \in FetchJob
          /\ jobs[i].at = "simplefin"
          /\ job.state = "running"
          /\ job.at = IF w < Windows THEN "simplefin" ELSE "between"
          /\ w < Windows => job.window = w + 1 /\ job.report = jobs[i].report
          /\ w = Windows => job.report["simplefin"] = "ok"
          /\ job.report["snaptrade"] = jobs[i].report["snaptrade"]
      <3>1. jobs[i].at = "simplefin"
        BY <1>8 DEF SimplefinWindow, Step
      <3>2. CASE w < Windows
        <4>1. job = [jobs[i] EXCEPT !.window = w + 1] /\ w + 1 \in 1..Windows
          BY <1>2, <3>2
        <4> QED
          BY <1>1, <1>2, <1>4, <3>1, <3>2, <4>1 DEF FetchJob, Reports
      <3>3. CASE w = Windows
        <4>1. job = Reported(i, "simplefin", "ok", "between")
          BY <1>2, <3>3
        <4> QED
          BY <1>1, <1>2, <1>4, <3>1, <3>3, <4>1
             DEF FetchJob, Reports, Outcomes, At, Reported
      <3> QED
        BY <1>2, <3>2, <3>3
    <2> HIDE DEF job
    <2>3. ~wiped => Merged(jobs[current])'
      <3>1. SUFFICES ASSUME ~wiped PROVE Merged(jobs[current])'
        OBVIOUS
      <3>2. \A v \in 1..Windows : v <= w => <<"simplefin", v>> \in cached'
        <4>1. <<"simplefin", w>> \in cached'
          BY <1>8 DEF SimplefinWindow
        <4>2. \A v \in 1..Windows : v < w => <<"simplefin", v>> \in cached'
          BY <1>5, <1>6, <2>2, <3>1 DEF Merged
        <4> QED
          BY <1>2, <4>1, <4>2
      <3>3. CASE w < Windows
        <4>1. \A v \in 1..Windows : v < w + 1 => <<"simplefin", v>> \in cached'
          BY <1>2, <3>2
        <4> QED
          BY <1>4, <1>5, <1>6, <2>1, <2>2, <3>1, <3>3, <4>1 DEF Merged
      <3>4. CASE w = Windows
        <4>1. \A v \in 1..Windows : <<"simplefin", v>> \in cached'
          <5>1. \A v \in 1..Windows : v <= w
            BY <3>4
          <5> HIDE DEF w
          <5> QED
            BY <3>2, <5>1
        <4>2. jobs'[current'] = job
          BY <1>4, <2>1
        <4>3. job.at = "between"
          BY <1>2, <2>2, <3>4
        <4>4. job.report["snaptrade"] = "ok" => <<"snaptrade", 1>> \in cached'
          BY <1>5, <1>6, <2>2, <3>1 DEF Merged
        <4> QED
          BY <4>1, <4>2, <4>3, <4>4 DEF Merged
      <3> QED
        BY <1>2, <3>3, <3>4
    <2> QED
      BY <1>3, <1>6, <2>1, <2>2, <2>3, TaskKeeps
  <1>9. CASE SimplefinFails(i)
    <2> DEFINE job == Reported(i, "simplefin", "error", "between")
    <2>1. /\ jobs' = [jobs EXCEPT ![i] = job] /\ jobs'[i] = job
          /\ lastSuccess' \in BOOLEAN
          /\ UNCHANGED <<settings, creds, current, page, due, wiped>>
      BY <1>1, <1>9 DEF SimplefinFails, Step, TypeOK
    <2>2. /\ job \in FetchJob
          /\ job.state = "running" /\ job.at = "between"
          /\ job.report["simplefin"] = "error"
          /\ job.report["snaptrade"] = jobs[i].report["snaptrade"]
      BY <1>1, <1>2, <1>4, <1>9 DEF FetchJob, Reports, Outcomes, At, Reported
    <2> HIDE DEF job
    <2>3. ~wiped => Merged(jobs[current])'
      BY <1>4, <1>5, <1>6, <2>1, <2>2 DEF Merged
    <2> QED
      BY <1>3, <1>6, <2>1, <2>2, <2>3, TaskKeeps
  <1>10. CASE ReadSnaptradeCredential(i)
    <2> DEFINE job == At(i, IF settings.partner_keys /\ "snaptrade" \in creds
                          THEN "snaptrade" ELSE "finish")
    <2>1. /\ jobs' = [jobs EXCEPT ![i] = job] /\ jobs'[i] = job
          /\ lastSuccess' \in BOOLEAN
          /\ UNCHANGED <<settings, creds, current, page, due, wiped>>
      BY <1>1, <1>10 DEF ReadSnaptradeCredential, Step, TypeOK
    <2>2. /\ job \in FetchJob
          /\ job.state = "running" /\ job.at \in {"snaptrade", "finish"}
          /\ job.report = jobs[i].report
      BY <1>1, <1>2, <1>4, <1>10 DEF FetchJob, Reports, Outcomes, At
    <2> HIDE DEF job
    <2>3. ~wiped => Merged(jobs[current])'
      BY <1>4, <1>5, <1>6, <2>1, <2>2 DEF Merged
    <2> QED
      BY <1>3, <1>6, <2>1, <2>2, <2>3, TaskKeeps
  <1>11. CASE SnaptradeMerge(i)
    <2> DEFINE job == Reported(i, "snaptrade", "ok", "finish")
    <2>1. /\ jobs' = [jobs EXCEPT ![i] = job] /\ jobs'[i] = job
          /\ lastSuccess' \in BOOLEAN
          /\ UNCHANGED <<settings, creds, current, page, due, wiped>>
      BY <1>1, <1>11 DEF SnaptradeMerge, Step, TypeOK
    <2>2. /\ job \in FetchJob
          /\ job.state = "running" /\ job.at = "finish"
          /\ job.report["simplefin"] = jobs[i].report["simplefin"]
          /\ <<"snaptrade", 1>> \in cached'
      BY <1>1, <1>2, <1>4, <1>11 DEF FetchJob, Reports, Outcomes, At, Reported, SnaptradeMerge
    <2> HIDE DEF job
    <2>3. ~wiped => Merged(jobs[current])'
      BY <1>4, <1>5, <1>6, <2>1, <2>2 DEF Merged
    <2> QED
      BY <1>3, <1>6, <2>1, <2>2, <2>3, TaskKeeps
  <1>12. CASE SnaptradeFails(i)
    <2> DEFINE job == Reported(i, "snaptrade", "error", "finish")
    <2>1. /\ jobs' = [jobs EXCEPT ![i] = job] /\ jobs'[i] = job
          /\ lastSuccess' \in BOOLEAN
          /\ UNCHANGED <<settings, creds, current, page, due, wiped>>
      BY <1>1, <1>12 DEF SnaptradeFails, Step, TypeOK
    <2>2. /\ job \in FetchJob
          /\ job.state = "running" /\ job.at = "finish"
          /\ job.report["simplefin"] = jobs[i].report["simplefin"]
          /\ job.report["snaptrade"] = "error"
      BY <1>1, <1>2, <1>4, <1>12 DEF FetchJob, Reports, Outcomes, At, Reported
    <2> HIDE DEF job
    <2>3. ~wiped => Merged(jobs[current])'
      BY <1>4, <1>5, <1>6, <2>1, <2>2 DEF Merged
    <2> QED
      BY <1>3, <1>6, <2>1, <2>2, <2>3, TaskKeeps
  <1>13. CASE Finish(i)
    <2> DEFINE job == [At(i, "ended") EXCEPT !.state = "done"]
    <2>1. /\ jobs' = [jobs EXCEPT ![i] = job] /\ jobs'[i] = job
          /\ lastSuccess' \in BOOLEAN
          /\ UNCHANGED <<settings, creds, current, page, due, wiped>>
      BY <1>1, <1>13 DEF Finish, Step, TypeOK
    <2>2. /\ job \in FetchJob
          /\ job.state = "done" /\ job.at = "ended"
          /\ job.report = jobs[i].report
      BY <1>1, <1>2, <1>4, <1>13 DEF FetchJob, Reports, Outcomes, At
    <2> HIDE DEF job
    <2>3. ~wiped => Merged(jobs[current])'
      BY <1>4, <1>5, <1>6, <2>1, <2>2 DEF Merged
    <2> QED
      BY <1>3, <1>6, <2>1, <2>2, <2>3, TaskKeeps
  <1> QED
    BY <1>7, <1>8, <1>9, <1>10, <1>11, <1>12, <1>13 DEF TaskStep

\* The server stops and starts again: no job is current, none is alive.
LEMMA RestartKeeps ==
  ASSUME IInv, Restart
  PROVE  IInv'
  <1>1. TypeOK
    BY DEF IInv
  <1>2. jobs' \in [1..Len(jobs) -> FetchJob] /\ Len(jobs) \in Nat
    BY <1>1, JobsAre, DroppedIsJob DEF Restart
  <1>3. jobs' \in Seq(FetchJob) /\ Len(jobs') = Len(jobs)
    BY <1>2
  <1>4. \A i \in DOMAIN jobs' : jobs'[i] = Dropped
    BY DEF Restart
  <1>5. TypeOK'
    <2>1. Len(jobs') <= MaxJobs /\ current' \in 0..Len(jobs')
      BY <1>1, <1>2, <1>3 DEF TypeOK, Restart
    <2> QED
      BY <1>1, <1>3, <2>1 DEF TypeOK, Restart
  <1>6. Alive'
    BY <1>4, DroppedIsJob DEF Alive
  <1> QED
    BY <1>5, <1>6 DEF IInv, Restart

LEMMA NextIInv ==
  ASSUME IInv, [Next]_vars
  PROVE  IInv'
  <1>1. TypeOK
    BY DEF IInv
  <1>2. ASSUME NEW t \in Tabs, Reload(t) \/ FetchPage(t) \/ Poll(t) PROVE IInv'
    <2>1. UNCHANGED <<jobs, current, wiped, cached>>
      BY <1>2 DEF Reload, FetchPage, Poll
    <2> QED
      BY <1>1, <1>2, <2>1, OthersType, OtherSteps
  <1>3. CASE FullReset
    BY <1>1, <1>3, OthersType, OtherSteps DEF FullReset
  <1>4. ASSUME NEW b \in BackendIds, StoreCredential(b) PROVE IInv'
    BY <1>1, <1>4, OthersType, OtherSteps DEF StoreCredential
  <1>5. CASE DeleteSnaptradeCredential
    BY <1>1, <1>5, OthersType, OtherSteps DEF DeleteSnaptradeCredential
  <1>6. CASE UNCHANGED vars
    BY <1>1, <1>6, OthersType, OtherSteps
  <1> QED
    BY <1>2, <1>3, <1>4, <1>5, <1>6, StartKeeps, TaskStepKeeps, RestartKeeps DEF Next

LEMMA Inductive == Spec => []IInv
  BY InitIInv, NextIInv, PTL DEF Spec

(***************************************************************************)
(* The registry, the tasks and the pages keep their form.                  *)
(***************************************************************************)
THEOREM TypeCorrect == Spec => []TypeOK
  <1>1. IInv => TypeOK
    BY DEF IInv
  <1> QED
    BY <1>1, Inductive, PTL

(***************************************************************************)
(* However many tabs submit, however stale their pages and whatever resets *)
(* and restarts fall in between, one task at most writes the directory,    *)
(* and the registry says "running" exactly while it does.                  *)
(***************************************************************************)
THEOREM OneJobWrites == Spec => []OneWriter
  <1>1. IInv => OneWriter
    <2> SUFFICES ASSUME IInv PROVE OneWriter
      OBVIOUS
    <2>1. TypeOK /\ Alive
      BY DEF IInv
    <2>2. CASE current = 0
      <3>1. \A i \in DOMAIN jobs : jobs[i].at = "ended"
        BY <2>1, <2>2, JobsAre DEF Alive
      <3> QED
        BY <2>2, <3>1 DEF OneWriter, State
    <2>3. CASE current # 0
      BY <2>1, <2>3, JobsAre DEF Alive, OneWriter, State
    <2> QED
      BY <2>2, <2>3
  <1> QED
    BY <1>1, Inductive, PTL

(***************************************************************************)
(* What a finished job reports without an error is in the directory.       *)
(***************************************************************************)
THEOREM ReportIsTrue == Spec => []ReportHolds
  <1>1. IInv => ReportHolds
    BY DEF IInv, ReportHolds, State, Merged
  <1> QED
    BY <1>1, Inductive, PTL
=============================================================================
