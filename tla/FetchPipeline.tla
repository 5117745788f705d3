---------------------------- MODULE FetchPipeline ----------------------------
(***************************************************************************)
(* `finstore fetch`: where a run starts, the windows it asks the backends  *)
(* for, retries, failures, crashes, and what the cache holds afterwards.   *)
(*                                                                         *)
(* Time counts days.  A transaction is the account it belongs to and the   *)
(* day it is posted; the institution may publish it up to Lag days later.  *)
(* The cache is two sets: the transactions in the account files, and those *)
(* that meta.json summarises (its latest_posted and latest_trade are all   *)
(* the code reads of it).  FilesystemStorage models the files themselves.  *)
(***************************************************************************)
EXTENDS Integers

CONSTANTS
    Transactions,    \* all that will ever be posted: [acct, day]
    Source,          \* the backend of each account
    Configurations,  \* the sets of backends that may be configured
    Outages,         \* accounts whose institution may fail within an answer
    TornMerges,      \* TRUE: a crash may fall inside merge_chunk
    IndexLoss,       \* TRUE: a reset may leave account files without meta.json
    LongPauses,      \* TRUE: a job may come after a pause longer than it goes back
    Lag,             \* the most days between posting and publication
    Window,          \* chunk_window_days
    Overlap,         \* the days _resolve_start goes back (7)
    Span,            \* the days a job, or a fetch without a cache, goes back (90)
    MaxRetries,      \* simplefin_max_retries
    FirstDay, LastDay

BackendIds == {"simplefin", "snaptrade"}
Accounts == {t.acct : t \in Transactions}
Of(backend) == {t \in Transactions : Source[t.acct] = backend}

ASSUME FetchAssumption ==
    /\ \A t \in Transactions : t.day \in Int
    /\ Source \in [Accounts -> BackendIds]
    /\ Configurations \subseteq SUBSET BackendIds
    /\ Outages \subseteq Accounts
    /\ TornMerges \in BOOLEAN /\ IndexLoss \in BOOLEAN /\ LongPauses \in BOOLEAN
    /\ Lag \in Nat /\ Overlap \in Nat /\ Lag <= Overlap
    /\ Window \in Nat \ {0}         \* validate_window: 1 to 90
    /\ Span \in Nat /\ MaxRetries \in Nat
    /\ FirstDay \in Int /\ LastDay \in Int

VARIABLES
    clock,       \* today
    upstream,    \* published by the institutions so far
    configured,  \* backends that do not say "not configured"
    files,       \* transactions in the account files
    indexed,     \* transactions that meta.json summarises
    pc,          \* "idle", or the backend being fetched
    todo,        \* backends this run has still to fetch after this one
    byJob,       \* this run is a job of the dashboard
    dtstart, dtend,
    cursor,      \* start of the window that is asked for next
    attempt,     \* failed requests for it
    batch,       \* activities gathered so far (SnapTrade merges once, at the end)
    failed,      \* a backend of this run returned False
    asked,       \* the backends this run fetches
    exit,        \* exit status of the last run: 0, 1, 2, or none; of a job,
                 \* whether its report has errors
    \* History variables.
    origin,      \* the user wants everything from this day on
    owed,        \* visible when the run started, and in its range
    told         \* out of reach of a plain run, and the user can know why

remote == <<clock, upstream, configured>>
cache == <<files, indexed>>
run == <<pc, todo, byJob, dtstart, dtend, cursor, attempt, batch, failed, asked>>
vars == <<remote, cache, run, exit, origin, owed, told>>

None == -1

TypeOK ==
    /\ clock \in Int
    /\ upstream \subseteq Transactions
    /\ configured \in Configurations
    /\ files \subseteq Transactions /\ indexed \subseteq Transactions
    /\ pc \in BackendIds \cup {"idle"} /\ todo \subseteq BackendIds
    /\ byJob \in BOOLEAN
    /\ dtstart \in Int /\ dtend \in Int /\ cursor \in Int
    /\ attempt \in 0..MaxRetries
    /\ batch \subseteq Transactions
    /\ failed \in BOOLEAN
    /\ asked \subseteq BackendIds
    /\ exit \in {0, 1, 2, None}
    /\ origin \in Int
    /\ owed \subseteq Transactions /\ told \subseteq Transactions

Init ==
    /\ clock = FirstDay
    /\ upstream = {t \in Transactions : t.day + Lag < FirstDay}
    /\ configured \in Configurations
    /\ files = {} /\ indexed = {}
    /\ pc = "idle" /\ todo = {} /\ byJob = FALSE
    /\ dtstart = 0 /\ dtend = 0 /\ cursor = 0 /\ attempt = 0
    /\ batch = {} /\ failed = FALSE /\ asked = {}
    /\ exit = None
    /\ origin = 0
    /\ owed = {} /\ told = {}

-----------------------------------------------------------------------------
(***************************************************************************)
(* The world outside.                                                      *)
(***************************************************************************)

Tick ==
    /\ clock < LastDay
    /\ clock' = clock + 1
    /\ UNCHANGED <<upstream, configured, cache, run, exit, origin, owed, told>>

Publish(t) ==
    /\ t \notin upstream
    /\ t.day <= clock /\ clock <= t.day + Lag
    /\ upstream' = upstream \cup {t}
    /\ UNCHANGED <<clock, configured, cache, run, exit, origin, owed, told>>

-----------------------------------------------------------------------------
(***************************************************************************)
(* Starting a run.                                                         *)
(***************************************************************************)

\* Mutant: no overlap with what is already cached.
ResumeAfterLatest(known, start) ==
    IF known = {} THEN start = clock - Span
    ELSE \E newest \in known :
           /\ \A t \in known : t.day <= newest.day
           /\ start = newest.day + 1

\* _resolve_start without --start, from the entries of meta.json.
ResolvedStart(known, start) ==
    IF known = {} THEN start = clock - Span
    ELSE \E newest \in known :
           /\ \A t \in known : t.day <= newest.day
           /\ start = newest.day - Overlap

\* --backend b, --all, neither, or a name that run() does not know.
Commands == BackendIds \cup {"all", "default", "unknown"}

Asked(command) ==
    CASE command \in BackendIds -> {command}
      [] command = "all" -> BackendIds
      [] command = "default" -> {"simplefin"}
      [] command = "unknown" -> {}

\* _reset_scope: without --backend everything goes, also what is not fetched.
Scope(command) == IF command \in BackendIds THEN {command} ELSE BackendIds

\* clear_cache: the subtrees of the scope, and meta.json in any case.
Reset(scope) ==
    /\ files' = {t \in files : Source[t.acct] \notin scope}
    /\ indexed' = {}
    /\ told' = {}

EnterBackend(b) ==
    /\ pc' = b
    /\ cursor' = dtstart'
    /\ attempt' = 0
    /\ batch' = {}

Idle ==
    /\ pc' = "idle"
    /\ todo' = {} /\ byJob' = FALSE
    /\ dtstart' = 0 /\ dtend' = 0 /\ cursor' = 0 /\ attempt' = 0
    /\ batch' = {} /\ failed' = FALSE /\ asked' = {}

\* The first backend of a set that run() goes through: SimpleFIN before SnapTrade.
First(backends) ==
    IF "simplefin" \in backends THEN "simplefin" ELSE "snaptrade"

(***************************************************************************)
(* The user's wish, a history variable.  A plain run that has something to *)
(* resume from keeps it.  An explicit start, or the default one, that      *)
(* leaves a hole behind the cached transactions gives up what is older.    *)
(***************************************************************************)
Wish(explicit, start) ==
    IF \/ explicit = None /\ indexed' # {}
       \/ \E t \in indexed' : start <= t.day - Overlap
    THEN origin
    ELSE start

\* The first of these backends is about to be asked.
Launch(backends) ==
    /\ backends # {}
    /\ EnterBackend(First(backends))
    /\ todo' = backends \ {First(backends)}
    /\ asked' = backends
    /\ dtend' = clock
    /\ failed' = FALSE
    /\ exit' = None
    /\ owed' = {t \in upstream : /\ Source[t.acct] \in backends
                                 /\ dtstart' <= t.day /\ t.day < clock}
    /\ UNCHANGED remote

\* run() up to the first request.
StartFetch(command, explicit, reset) ==
    /\ pc = "idle"
    /\ IF reset THEN Reset(Scope(command)) ELSE UNCHANGED <<cache, told>>
    /\ IF explicit = None
       THEN \E start \in (FirstDay - Span - Overlap)..LastDay :
              ResolvedStart(indexed', start) /\ dtstart' = start
       ELSE dtstart' = explicit
    /\ Launch(Asked(command) \cap configured)
    /\ byJob' = FALSE
    /\ origin' = Wish(explicit, dtstart')

\* The dashboard's job, with its access URL in the settings (Dashboard has the
\* other case): both backends, from a fixed number of days back, whatever is
\* cached.
StartJob ==
    /\ pc = "idle"
    /\ UNCHANGED <<cache, told>>
    /\ dtstart' = clock - Span
    /\ \/ LongPauses \/ indexed = {}
       \/ \E newest \in indexed : dtstart' <= newest.day - Overlap
    /\ Launch(configured)
    /\ byJob' = TRUE
    /\ origin' = Wish(None, dtstart')

\* Nothing that was asked for is configured: status 2, but a --reset has been
\* carried out by then.  That of another backend takes meta.json all the same.
RefuseFetch(command, reset) ==
    /\ pc = "idle"
    /\ Asked(command) \cap configured = {}
    /\ reset => IndexLoss \/ configured \subseteq Scope(command)
    /\ IF reset THEN Reset(Scope(command)) ELSE UNCHANGED <<cache, told>>
    /\ exit' = 2
    /\ owed' = {}
    /\ UNCHANGED <<remote, run, origin>>

\* A crash inside clear_cache, which unlinks meta.json before anything else.
CrashInReset(command) ==
    /\ IndexLoss
    /\ pc = "idle"
    /\ \E removed \in SUBSET {a \in Accounts : Source[a] \in Scope(command)} :
         files' = {t \in files : t.acct \notin removed}
    /\ indexed' = {}
    /\ told' = {}
    /\ exit' = None
    /\ owed' = {}
    /\ UNCHANGED <<remote, run, origin>>

-----------------------------------------------------------------------------
(***************************************************************************)
(* What may be lost when a run has ended, and whether the user can know    *)
(* (history variables).                                                    *)
(***************************************************************************)

\* Published, wanted, and not in the cache.
Missing == {t \in upstream \ files : /\ Source[t.acct] \in configured
                                    /\ origin <= t.day}

\* Before the day that a plain run would start from.
OutOfReach(t) == \E newest \in indexed : t.day < newest.day - Overlap

(***************************************************************************)
(* A run that ends excuses what it did not fetch: it was not asked for the *)
(* backend, or it failed or died and its status says so.  A job of the     *)
(* dashboard answers for no more than was there when it began, in the days *)
(* that it goes back.                                                      *)
(***************************************************************************)
Excused(t) ==
    \/ Source[t.acct] \notin asked
    \/ t \in owed /\ exit' # 0
    \/ byJob /\ t \notin owed

TellTheUser ==
    told' = {t \in upstream \ files' : /\ OutOfReach(t)'
                                       /\ t \in told \/ Excused(t)}

-----------------------------------------------------------------------------
(***************************************************************************)
(* Requests.                                                               *)
(***************************************************************************)

Min2(x, y) == IF x < y THEN x ELSE y

\* End of the window at the cursor; a range that is empty gives one window
\* (dtstart, dtend) to SimpleFIN and none to SnapTrade.
WindowEnd == IF cursor < dtend THEN Min2(cursor + Window, dtend) ELSE dtend

\* Mutant: the exit status is that of the last backend.
EndBackendLastCounts(ok) ==
    /\ UNCHANGED <<remote, origin>>
    /\ IF todo = {}
       THEN /\ Idle
            /\ exit' = IF ok THEN 0 ELSE 1
            /\ TellTheUser
            /\ UNCHANGED owed
       ELSE /\ UNCHANGED <<failed, asked, byJob, dtstart, dtend, exit, owed, told>>
            /\ EnterBackend(First(todo))
            /\ todo' = todo \ {First(todo)}

\* A backend is done: the next one, or the exit status.  A job leaves the end
\* of the range to the backend, which takes the time of its call.
EndBackend(ok) ==
    /\ UNCHANGED <<remote, origin>>
    /\ IF todo = {}
       THEN /\ Idle
            /\ exit' = IF ok /\ ~failed THEN 0 ELSE 1
            /\ TellTheUser
            /\ UNCHANGED owed
       ELSE /\ failed' = (failed \/ ~ok)
            /\ dtend' = IF byJob THEN clock ELSE dtend
            /\ UNCHANGED <<asked, byJob, dtstart, exit, owed, told>>
            /\ EnterBackend(First(todo))
            /\ todo' = todo \ {First(todo)}

\* Mutant: a failed request starts the whole range over.
RetryFromStart ==
    /\ pc = "simplefin"
    /\ cursor' = dtstart
    /\ attempt' = 0
    /\ UNCHANGED <<remote, cache, pc, todo, byJob, dtstart, dtend, batch, failed,
                   asked, exit, origin, owed, told>>

\* Mutant: the number of attempts is not limited.
RetryUnlimited ==
    /\ pc = "simplefin"
    /\ attempt' = attempt + 1
    /\ UNCHANGED <<remote, cache, pc, todo, byJob, dtstart, dtend, cursor, batch,
                   failed, asked, exit, origin, owed, told>>

\* A transport error or a 5xx, with attempts left: sleep and try again.
Retry ==
    /\ pc = "simplefin"
    /\ attempt < MaxRetries
    /\ attempt' = attempt + 1
    /\ UNCHANGED <<remote, cache, pc, todo, byJob, dtstart, dtend, cursor, batch,
                   failed, asked, exit, origin, owed, told>>

\* The last attempt failed, or the answer was a 4xx or not JSON; SnapTrade's
\* requests are not retried, and its keys without a stored credential are a
\* failure too.  The windows that were merged stay.
BackendFails ==
    /\ pc # "idle"
    /\ UNCHANGED cache
    /\ EndBackend(FALSE)

\* What SimpleFIN returns for a window (external).
Posted(from, to) == {t \in upstream : from <= t.day /\ t.day < to}

\* Mutant: institutions that the answer names as failing are not counted.
MergeWindowIgnoresErrlist(omitted) ==
    LET present == {a \in Accounts : Source[a] = "simplefin"} \ omitted
    IN  /\ pc = "simplefin"
        /\ files' = files \cup {t \in Posted(cursor, WindowEnd) : t.acct \in present}
        /\ indexed' = indexed \cup {t \in files' : t.acct \in present}
        /\ IF WindowEnd < dtend
           THEN /\ cursor' = WindowEnd
                /\ attempt' = 0
                /\ UNCHANGED <<remote, pc, todo, byJob, dtstart, dtend, batch, failed,
                               asked, exit, origin, owed, told>>
           ELSE EndBackend(TRUE)

\* One window of SimpleFIN: merged as soon as it arrives, oldest first.
MergeWindow(omitted) ==
    LET present == {a \in Accounts : Source[a] = "simplefin"} \ omitted
        arrived == {t \in Posted(cursor, WindowEnd) : t.acct \in present}
    IN  /\ pc = "simplefin"
        /\ files' = files \cup arrived
        /\ indexed' = indexed \cup {t \in files' : t.acct \in present}
        /\ IF WindowEnd < dtend
           THEN /\ cursor' = WindowEnd
                /\ attempt' = 0
                /\ failed' = (failed \/ omitted # {})
                /\ UNCHANGED <<remote, pc, todo, byJob, dtstart, dtend, batch, asked,
                               exit, origin, owed, told>>
           ELSE EndBackend(omitted = {})

\* One window of SnapTrade: gathered; both of its days are included (external).
GatherActivities ==
    /\ pc = "snaptrade"
    /\ cursor < dtend
    /\ batch' = batch \cup {t \in Of("snaptrade") \cap upstream :
                              cursor <= t.day /\ t.day <= WindowEnd}
    /\ cursor' = WindowEnd
    /\ UNCHANGED <<remote, cache, pc, todo, byJob, dtstart, dtend, attempt, failed,
                   asked, exit, origin, owed, told>>

\* All windows are gathered: one chunk is merged.
MergeBatch ==
    /\ pc = "snaptrade"
    /\ cursor >= dtend
    /\ files' = files \cup batch
    /\ indexed' = indexed \cup (files' \cap Of("snaptrade"))
    /\ EndBackend(TRUE)

-----------------------------------------------------------------------------
Dies ==
    /\ pc # "idle"
    /\ Idle
    /\ UNCHANGED <<remote, exit, origin>>
    /\ TellTheUser
    /\ owed' = {}

\* Ctrl-C or a crash, between two merges.
Crash == UNCHANGED cache /\ Dies

\* A crash inside merge_chunk: some account files are written, meta.json is not.
CrashInMerge ==
    /\ TornMerges
    /\ LET arrived == IF pc = "simplefin"
                      THEN Posted(cursor, WindowEnd) \cap Of("simplefin")
                      ELSE batch
       IN  \E written \in SUBSET Accounts :
             files' = files \cup {t \in arrived : t.acct \in written}
    /\ pc = "snaptrade" => cursor >= dtend
    /\ UNCHANGED indexed
    /\ Dies

RunStep ==
    \/ Retry
    \/ BackendFails
    \/ \E omitted \in SUBSET Outages : MergeWindow(omitted)
    \/ GatherActivities
    \/ MergeBatch

Next ==
    \/ Tick
    \/ \E t \in Transactions : Publish(t)
    \/ \E command \in Commands, reset \in BOOLEAN,
          explicit \in {None} \cup FirstDay..LastDay :
         StartFetch(command, explicit, reset)
    \/ StartJob
    \/ \E command \in Commands, reset \in BOOLEAN : RefuseFetch(command, reset)
    \/ \E command \in Commands : CrashInReset(command)
    \/ RunStep
    \/ Crash
    \/ CrashInMerge

(***************************************************************************)
(* Every await of a run ends: httpx has timeouts and the retries sleep for *)
(* a fixed time.  Nothing obliges the user to start a run.                 *)
(***************************************************************************)
Spec == Init /\ [][Next]_vars /\ WF_vars(RunStep)

-----------------------------------------------------------------------------
(***************************************************************************)
(* "Subsequent runs without --start pick up from where the last fetch left *)
(* off" (running-locally.md:124).  No transaction that the user asked for, *)
(* and that lies before the day the next plain run would start from, is    *)
(* missing from the cache: whatever failed, and however often, the next    *)
(* run reaches back to it.                                                 *)
(***************************************************************************)
ResumeLosesNothing == \A t \in Missing : ~OutOfReach(t)

(***************************************************************************)
(* With both backends, institutions that fail, crashes inside a merge and  *)
(* resets of one backend it may be lost, but never in silence: once a run  *)
(* is over, whatever is missing before the day the next plain run starts   *)
(* from was left out by a run that exited with a status other than 0, or   *)
(* died, or was not asked to fetch its backend, since the last reset; or   *)
(* by a job of the dashboard that did not go back to it.  A transaction    *)
(* that a failed run left within reach is not excused: the next plain run  *)
(* that succeeds has it.                                                   *)
(***************************************************************************)
NoSilentGap == pc = "idle" => \A t \in Missing \ told : ~OutOfReach(t)

(***************************************************************************)
(* The same line of running-locally.md, of runs that fetch whatever is     *)
(* configured: once `finstore fetch --all` has ended, with whatever status,*)
(* nothing it left out is out of reach of the next plain run.              *)
(***************************************************************************)
FetchAllCanBeResumed ==
    [][/\ pc # "idle" /\ pc' = "idle" /\ exit' # None
       /\ asked = configured /\ ~byJob
       => ResumeLosesNothing']_vars

(***************************************************************************)
(* Exit status 0 means what it says: everything the backends showed when   *)
(* the run began, in the range of the run, is in the cache.  So a fetch of *)
(* the same range after a failed one fills in what was missed (ADR 11).    *)
(***************************************************************************)
CompleteOnSuccess == exit = 0 => owed \subseteq files

(***************************************************************************)
(* Every run ends, however the backends fail: the retries are bounded and  *)
(* each window is asked for once.                                          *)
(***************************************************************************)
RunEnds == pc # "idle" ~> pc = "idle"
=============================================================================
