-------------------------- MODULE FetchPipelineProofs --------------------------
(***************************************************************************)
(* The invariants of FetchPipeline for every set of transactions, window,  *)
(* overlap, number of retries and calendar, with any backends configured,  *)
(* institutions that fail, crashes anywhere and resets of any scope.       *)
(***************************************************************************)
EXTENDS FetchPipeline, TLAPS

\* Where a run stands.
Shape ==
    /\ TypeOK
    /\ pc = "idle" => todo = {}
    /\ pc # "idle" => exit = None
    /\ pc \notin todo
    /\ pc = "snaptrade" => todo = {}

\* What it owes is published, and in its range.
Owing ==
    pc # "idle" =>
      /\ dtend <= clock
      /\ \A t \in owed : t \in upstream /\ dtstart <= t.day /\ t.day < dtend

(***************************************************************************)
(* As long as nothing has failed: what it owes of the backends it is done  *)
(* with is cached, and of the backend it is at what lies before the cursor *)
(* is cached or gathered.                                                  *)
(***************************************************************************)
Settled ==
    pc # "idle" /\ ~failed =>
      \A t \in owed :
        /\ Source[t.acct] \notin {pc} \cup todo => t \in files
        /\ Source[t.acct] = pc /\ t.day < cursor
             => t \in IF pc = "simplefin" THEN files ELSE batch

IInv == Shape /\ Owing /\ Settled /\ CompleteOnSuccess
-----------------------------------------------------------------------------
USE FetchAssumption
USE DEF BackendIds, remote, cache, run, vars

LEMMA TransactionsAre ==
  ASSUME NEW t \in Transactions
  PROVE  t.day \in Int /\ t.acct \in Accounts /\ Source[t.acct] \in BackendIds
  BY DEF Accounts

LEMMA FirstIsOne ==
  ASSUME NEW backends \in SUBSET BackendIds, backends # {}
  PROVE  /\ First(backends) \in backends
         /\ First(backends) = "snaptrade" => backends = {"snaptrade"}
  BY DEF First

LEMMA WindowEnds ==
  ASSUME TypeOK
  PROVE  /\ WindowEnd \in Int /\ WindowEnd <= dtend
         /\ cursor < dtend => cursor < WindowEnd
         /\ cursor >= dtend => WindowEnd = dtend
  BY DEF TypeOK, WindowEnd, Min2

LEMMA InitIInv == Init => IInv
  <1> SUFFICES ASSUME Init PROVE IInv
    OBVIOUS
  <1>1. TypeOK
    <2>1. attempt \in 0..MaxRetries /\ batch \subseteq Transactions
      BY DEF Init
    <2>2. failed \in BOOLEAN
      BY DEF Init
    <2>5. byJob \in BOOLEAN
      BY DEF Init
    <2>3. /\ clock \in Int /\ upstream \subseteq Transactions
          /\ configured \in Configurations
          /\ files \subseteq Transactions /\ indexed \subseteq Transactions
      BY DEF Init
    <2>4. /\ pc \in BackendIds \cup {"idle"} /\ todo \subseteq BackendIds
          /\ dtstart \in Int /\ dtend \in Int /\ cursor \in Int
          /\ exit \in {0, 1, 2, None} /\ origin \in Int /\ owed \subseteq Transactions
      BY DEF Init
    <2>6. asked \subseteq BackendIds /\ told \subseteq Transactions
      BY DEF Init
    <2> QED
      BY <2>1, <2>2, <2>3, <2>4, <2>5, <2>6 DEF TypeOK
  <1>2. Shape
    BY <1>1 DEF Init, Shape
  <1>3. Owing /\ Settled /\ CompleteOnSuccess
    BY DEF Init, Owing, Settled, CompleteOnSuccess, None
  <1> QED
    BY <1>2, <1>3 DEF IInv

\* A step of the world outside.
LEMMA OutsideKeeps ==
  ASSUME IInv,
         UNCHANGED <<configured, cache, run, exit, origin, owed, told>>,
         clock' \in Int, clock <= clock',
         upstream' \subseteq Transactions, upstream \subseteq upstream'
  PROVE  IInv'
  <1> USE DEF IInv
  <1>1. Shape'
    BY DEF Shape, TypeOK
  <1>2. Settled' /\ CompleteOnSuccess'
    BY DEF Settled, CompleteOnSuccess
  <1>3. pc # "idle" => dtend <= clock'
    BY DEF Shape, TypeOK, Owing
  <1>4. Owing'
    BY <1>3 DEF Owing
  <1> QED
    BY <1>1, <1>2, <1>4

\* A step after which no run is in progress and none has succeeded.
LEMMA NothingRuns ==
  ASSUME IInv,
         pc' = "idle" /\ todo' = {},
         dtstart' \in Int /\ dtend' \in Int /\ cursor' \in Int,
         attempt' \in 0..MaxRetries, batch' \subseteq Transactions,
         failed' \in BOOLEAN, byJob' \in BOOLEAN,
         (exit' \in {1, 2, None}) \/ (exit' = 0 /\ owed' \subseteq files'),
         files' \subseteq Transactions, indexed' \subseteq Transactions,
         owed' \subseteq Transactions, told' \subseteq Transactions,
         asked' \subseteq BackendIds,
         UNCHANGED <<remote, origin>>
  PROVE  IInv'
  <1> USE DEF IInv
  <1>1. TypeOK'
    BY DEF Shape, TypeOK
  <1>2. Shape'
    BY <1>1 DEF Shape
  <1>3. CompleteOnSuccess'
    BY DEF CompleteOnSuccess, None
  <1> QED
    BY <1>2, <1>3 DEF Owing, Settled

LEMMA IdleIs ==
  ASSUME Idle
  PROVE  /\ pc' = "idle" /\ todo' = {}
         /\ dtstart' \in Int /\ dtend' \in Int /\ cursor' \in Int
         /\ attempt' \in 0..MaxRetries /\ batch' \subseteq Transactions
         /\ failed' \in BOOLEAN /\ byJob' \in BOOLEAN
         /\ asked' \subseteq BackendIds
  <1>1. attempt' \in 0..MaxRetries
    BY DEF Idle
  <1>2. failed' \in BOOLEAN
    BY DEF Idle
  <1>3. byJob' \in BOOLEAN
    BY DEF Idle
  <1> QED
    BY <1>1, <1>2, <1>3 DEF Idle

\* The cache after the resets that run() carries out, and after clear_cache dies.
LEMMA ResetShrinks ==
  ASSUME IInv, NEW scope, NEW reset \in BOOLEAN,
         IF reset THEN Reset(scope) ELSE UNCHANGED <<cache, told>>
  PROVE  /\ files' \subseteq Transactions /\ indexed' \subseteq Transactions
         /\ told' \subseteq Transactions
  BY DEF IInv, Shape, TypeOK, Reset

\* The first request of a run is about to be sent.
LEMMA LaunchKeeps ==
  ASSUME IInv,
         NEW backends \in SUBSET BackendIds, Launch(backends),
         files' \subseteq Transactions, indexed' \subseteq Transactions,
         told' \subseteq Transactions,
         dtstart' \in Int, origin' \in Int, byJob' \in BOOLEAN
  PROVE  IInv'
  <1>1. Shape /\ TypeOK
    BY DEF IInv, Shape
  <1>2. backends # {}
    BY DEF Launch
  <1>3. /\ First(backends) \in backends
        /\ First(backends) = "snaptrade" => backends = {"snaptrade"}
    BY <1>2, FirstIsOne
  <1>4. /\ pc' = First(backends) /\ todo' = backends \ {First(backends)}
        /\ cursor' = dtstart' /\ attempt' = 0 /\ batch' = {}
        /\ failed' = FALSE /\ exit' = None /\ dtend' = clock
        /\ asked' = backends
        /\ UNCHANGED remote
        /\ owed' = {t \in upstream : /\ Source[t.acct] \in backends
                                     /\ dtstart' <= t.day /\ t.day < clock}
    BY DEF Launch, EnterBackend
  <1>5. TypeOK'
    <2>1. attempt' \in 0..MaxRetries /\ batch' \subseteq Transactions
      BY <1>4
    <2>2. failed' \in BOOLEAN
      BY <1>4
    <2>3. pc' \in BackendIds \cup {"idle"} /\ todo' \subseteq BackendIds
      BY <1>3, <1>4
    <2>4. owed' \subseteq Transactions
      BY <1>1, <1>4 DEF TypeOK
    <2>5. /\ clock' \in Int /\ upstream' \subseteq Transactions
          /\ configured' \in Configurations
          /\ dtend' \in Int /\ cursor' \in Int /\ exit' \in {0, 1, 2, None}
          /\ asked' \subseteq BackendIds
      BY <1>1, <1>4 DEF TypeOK
    <2> QED
      BY <2>1, <2>2, <2>3, <2>4, <2>5 DEF TypeOK
  <1>6. Shape'
    BY <1>2, <1>3, <1>4, <1>5 DEF Shape
  <1>7. Owing'
    BY <1>1, <1>4 DEF Owing, TypeOK
  <1>8. Settled'
    <2>1. \A t \in owed' : /\ Source[t.acct] \in {pc'} \cup todo'
                           /\ ~(t.day < cursor')
      BY <1>1, <1>3, <1>4, TransactionsAre DEF TypeOK
    <2> QED
      BY <2>1 DEF Settled
  <1>9. CompleteOnSuccess'
    BY <1>4 DEF CompleteOnSuccess, None
  <1> QED
    BY <1>6, <1>7, <1>8, <1>9 DEF IInv

LEMMA ConfiguredAre == IInv => configured \subseteq BackendIds
  BY DEF IInv, Shape, TypeOK

LEMMA StartKeeps ==
  ASSUME IInv,
         NEW command \in Commands, NEW reset \in BOOLEAN,
         NEW explicit \in {None} \cup FirstDay..LastDay,
         StartFetch(command, explicit, reset)
  PROVE  IInv'
  <1>1. Asked(command) \cap configured \in SUBSET BackendIds
    BY ConfiguredAre
  <1>2. /\ files' \subseteq Transactions /\ indexed' \subseteq Transactions
        /\ told' \subseteq Transactions
    BY ResetShrinks DEF StartFetch
  <1>3. dtstart' \in Int
    BY DEF StartFetch, None
  <1>4. origin' \in Int
    BY <1>3 DEF StartFetch, Wish, IInv, Shape, TypeOK
  <1>5. byJob' \in BOOLEAN
    BY DEF StartFetch
  <1> QED
    BY <1>1, <1>2, <1>3, <1>4, <1>5, LaunchKeeps DEF StartFetch

LEMMA StartJobKeeps == IInv /\ StartJob => IInv'
  <1> SUFFICES ASSUME IInv, StartJob PROVE IInv'
    OBVIOUS
  <1>1. /\ files' \subseteq Transactions /\ indexed' \subseteq Transactions
        /\ told' \subseteq Transactions
    BY DEF StartJob, IInv, Shape, TypeOK
  <1>2. dtstart' \in Int
    BY DEF StartJob, IInv, Shape, TypeOK
  <1>3. origin' \in Int
    BY <1>2 DEF StartJob, Wish, IInv, Shape, TypeOK
  <1>4. byJob' \in BOOLEAN
    BY DEF StartJob
  <1> QED
    BY <1>1, <1>2, <1>3, <1>4, LaunchKeeps, ConfiguredAre DEF StartJob

(***************************************************************************)
(* A backend is done: if it did well, and nothing has failed before it,    *)
(* what the run owes of it is cached.                                      *)
(***************************************************************************)
LEMMA EndBackendKeeps ==
  ASSUME IInv, pc # "idle",
         NEW ok \in BOOLEAN, EndBackend(ok),
         files \subseteq files', files' \subseteq Transactions,
         indexed' \subseteq Transactions,
         ok /\ ~failed => \A t \in owed : Source[t.acct] = pc => t \in files'
  PROVE  IInv'
  <1>1. Shape /\ TypeOK /\ Owing /\ Settled
    BY DEF IInv, Shape
  <1>2. ok /\ ~failed => \A t \in owed : Source[t.acct] \notin todo => t \in files'
    BY <1>1 DEF Settled
  <1>3. CASE todo = {}
    <2>1. /\ Idle /\ UNCHANGED <<remote, origin, owed>> /\ TellTheUser
          /\ exit' = IF ok /\ ~failed THEN 0 ELSE 1
      BY <1>3 DEF EndBackend
    <2>2. (exit' \in {1, 2, None}) \/ (exit' = 0 /\ owed' \subseteq files')
      BY <1>2, <1>3, <2>1
    <2>3. owed' \subseteq Transactions /\ told' \subseteq Transactions
      BY <1>1, <2>1 DEF TypeOK, TellTheUser
    <2> QED
      BY <2>1, <2>2, <2>3, IdleIs, NothingRuns
  <1>4. CASE todo # {}
    <2>1. /\ First(todo) \in todo
          /\ First(todo) = "snaptrade" => todo = {"snaptrade"}
      BY <1>1, <1>4, FirstIsOne DEF TypeOK
    <2>2. /\ pc' = First(todo) /\ todo' = todo \ {First(todo)}
          /\ cursor' = dtstart /\ attempt' = 0 /\ batch' = {}
          /\ UNCHANGED <<remote, origin, asked, byJob, dtstart, exit, owed, told>>
          /\ dtend' = dtend \/ dtend' = clock
      BY <1>4 DEF EndBackend, EnterBackend
    <2>3. failed' = (failed \/ ~ok)
      BY <1>4 DEF EndBackend
    <2>4. failed' \in BOOLEAN
      BY <2>3
    <2>5. TypeOK'
      <3>1. attempt' \in 0..MaxRetries /\ batch' \subseteq Transactions
        BY <2>2
      <3>2. pc' \in BackendIds \cup {"idle"} /\ todo' \subseteq BackendIds
        BY <1>1, <2>1, <2>2 DEF TypeOK
      <3>3. /\ clock' \in Int /\ upstream' \subseteq Transactions
            /\ configured' \in Configurations
            /\ dtstart' \in Int /\ dtend' \in Int /\ cursor' \in Int
            /\ exit' \in {0, 1, 2, None} /\ origin' \in Int
            /\ owed' \subseteq Transactions /\ told' \subseteq Transactions
            /\ asked' \subseteq BackendIds
        BY <1>1, <2>2 DEF TypeOK
      <3>4. byJob' \in BOOLEAN
        BY <1>1, <2>2 DEF TypeOK
      <3> QED
        BY <2>4, <3>1, <3>2, <3>3, <3>4 DEF TypeOK
    <2>6. Shape'
      <3>1. pc' \notin todo' /\ pc' # "idle"
        BY <1>1, <2>1, <2>2 DEF TypeOK
      <3>2. pc' = "snaptrade" => todo' = {}
        BY <2>1, <2>2
      <3>3. exit' = None
        BY <1>1, <2>2 DEF Shape
      <3> QED
        BY <2>5, <3>1, <3>2, <3>3 DEF Shape
    <2>7. Owing'
      <3>1. clock \in Int /\ dtend \in Int /\ dtend <= clock
        BY <1>1 DEF Owing, TypeOK
      <3>2. dtend <= dtend' /\ dtend' <= clock'
        BY <2>2, <3>1
      <3>3. \A t \in owed : t.day \in Int
        BY <1>1, TransactionsAre DEF TypeOK
      <3>4. \A t \in owed : t.day < dtend'
        BY <1>1, <2>2, <3>1, <3>2, <3>3 DEF Owing
      <3> QED
        BY <1>1, <2>2, <3>2, <3>4 DEF Owing
    <2>8. Settled'
      <3>1. SUFFICES ASSUME ~failed', NEW t \in owed
            PROVE  /\ Source[t.acct] \notin {pc'} \cup todo' => t \in files'
                   /\ ~(t.day < cursor')
        BY <2>2 DEF Settled
      <3>2. ok /\ ~failed
        BY <2>3, <3>1
      <3>3. ~(t.day < dtstart)
        BY <1>1, TransactionsAre DEF Owing, TypeOK
      <3> QED
        BY <1>2, <2>1, <2>2, <3>2, <3>3
    <2>9. CompleteOnSuccess'
      BY <1>1, <2>2 DEF CompleteOnSuccess, Shape, None
    <2> QED
      BY <2>6, <2>7, <2>8, <2>9 DEF IInv
  <1> QED
    BY <1>3, <1>4

\* A request that neither ends its backend nor changes what the run is about.
LEMMA GoesOn ==
  ASSUME IInv, pc # "idle",
         UNCHANGED <<remote, pc, todo, byJob, asked, dtstart, dtend, exit, origin,
                     owed, told>>,
         cursor' \in Int, attempt' \in 0..MaxRetries, failed' \in BOOLEAN,
         files' \subseteq Transactions, indexed' \subseteq Transactions,
         batch' \subseteq Transactions, files \subseteq files', 
         ~failed' => ~failed,
         Settled'
  PROVE  IInv'
  <1> USE DEF IInv
  <1>1. TypeOK'
    BY DEF Shape, TypeOK
  <1>2. Shape' /\ Owing'
    BY <1>1 DEF Shape, Owing
  <1>3. CompleteOnSuccess'
    BY DEF Shape, CompleteOnSuccess, None
  <1> QED
    BY <1>2, <1>3

LEMMA RetryKeeps == IInv /\ Retry => IInv'
  <1> SUFFICES ASSUME IInv, Retry PROVE IInv'
    OBVIOUS
  <1>1. Shape /\ TypeOK /\ Settled
    BY DEF IInv, Shape
  <1>2. /\ pc # "idle" /\ attempt' \in 0..MaxRetries
        /\ UNCHANGED <<remote, cache, pc, todo, byJob, dtstart, dtend, cursor,
                      batch, failed, asked, exit, origin, owed, told>>
    BY <1>1 DEF Retry, TypeOK
  <1>3. Settled'
    BY <1>1, <1>2 DEF Settled
  <1>4. /\ cursor' \in Int /\ files' \subseteq Transactions
        /\ indexed' \subseteq Transactions /\ batch' \subseteq Transactions
    BY <1>1, <1>2 DEF TypeOK
  <1>5. failed' \in BOOLEAN
    BY <1>1, <1>2 DEF TypeOK
  <1> QED
    BY <1>2, <1>3, <1>4, <1>5, GoesOn

LEMMA BackendFailsKeeps == IInv /\ BackendFails => IInv'
  <1> SUFFICES ASSUME IInv, BackendFails PROVE IInv'
    OBVIOUS
  <1>1. files' \subseteq Transactions /\ indexed' \subseteq Transactions
    BY DEF IInv, Shape, TypeOK, BackendFails
  <1> QED
    BY <1>1, EndBackendKeeps DEF BackendFails

LEMMA GatherActivitiesKeeps == IInv /\ GatherActivities => IInv'
  <1> SUFFICES ASSUME IInv, GatherActivities PROVE IInv'
    OBVIOUS
  <1>1. Shape /\ TypeOK /\ Owing /\ Settled
    BY DEF IInv, Shape
  <1>2. cursor < dtend /\ WindowEnd \in Int
    BY <1>1, WindowEnds DEF GatherActivities
  <1>3. /\ pc = "snaptrade" /\ cursor' = WindowEnd
        /\ batch' = batch \cup {t \in Of("snaptrade") \cap upstream :
                                  cursor <= t.day /\ t.day <= WindowEnd}
        /\ UNCHANGED <<remote, cache, pc, todo, byJob, dtstart, dtend, attempt, failed,
                      asked, exit, origin, owed, told>>
    BY DEF GatherActivities
  <1>4. Settled'
    <2>1. SUFFICES ASSUME ~failed, NEW t \in owed
          PROVE  /\ Source[t.acct] \notin {pc} \cup todo => t \in files
                 /\ Source[t.acct] = pc /\ t.day < WindowEnd => t \in batch'
      BY <1>3 DEF Settled
    <2>2. t \in Transactions /\ t \in upstream /\ t.day \in Int
      BY <1>1, <1>3, TransactionsAre DEF Owing, TypeOK
    <2>3. CASE t.day < cursor
      BY <1>1, <1>3, <2>1, <2>3 DEF Settled
    <2>4. CASE cursor <= t.day
      <3>1. Source[t.acct] = pc /\ t.day < WindowEnd => t \in batch'
        BY <1>2, <1>3, <2>2, <2>4 DEF Of
      <3> QED
        BY <1>1, <1>3, <2>1, <3>1 DEF Settled
    <2> QED
      BY <1>1, <2>2, <2>3, <2>4 DEF TypeOK
  <1>5. /\ batch' \subseteq Transactions /\ files' \subseteq Transactions
        /\ indexed' \subseteq Transactions /\ attempt' \in 0..MaxRetries
    BY <1>1, <1>3 DEF TypeOK, Of
  <1>6. failed' \in BOOLEAN
    BY <1>1, <1>3 DEF TypeOK
  <1> QED
    BY <1>2, <1>3, <1>4, <1>5, <1>6, GoesOn

LEMMA MergeBatchKeeps == IInv /\ MergeBatch => IInv'
  <1> SUFFICES ASSUME IInv, MergeBatch PROVE IInv'
    OBVIOUS
  <1>1. Shape /\ TypeOK /\ Owing /\ Settled
    BY DEF IInv, Shape
  <1>2. /\ pc = "snaptrade" /\ cursor >= dtend /\ EndBackend(TRUE)
        /\ files' = files \cup batch
        /\ indexed' = indexed \cup (files' \cap Of("snaptrade"))
    BY DEF MergeBatch
  <1>3. ~failed => \A t \in owed : Source[t.acct] = pc => t \in files'
    <2>1. SUFFICES ASSUME ~failed, NEW t \in owed, Source[t.acct] = pc PROVE t \in files'
      OBVIOUS
    <2>2. t.day < cursor
      BY <1>1, <1>2, TransactionsAre DEF Owing, TypeOK
    <2> QED
      BY <1>1, <1>2, <2>1, <2>2 DEF Settled
  <1>4. /\ files \subseteq files' /\ files' \subseteq Transactions
        /\ indexed' \subseteq Transactions
    BY <1>1, <1>2 DEF TypeOK
  <1> QED
    BY <1>2, <1>3, <1>4, EndBackendKeeps

LEMMA MergeWindowKeeps ==
  ASSUME IInv, NEW omitted \in SUBSET Outages, MergeWindow(omitted)
  PROVE  IInv'
  <1> DEFINE present == {a \in Accounts : Source[a] = "simplefin"} \ omitted
             arrived == {t \in Posted(cursor, WindowEnd) : t.acct \in present}
  <1>1. Shape /\ TypeOK /\ Owing /\ Settled
    BY DEF IInv, Shape
  <1>2. /\ pc = "simplefin"
        /\ files' = files \cup arrived
        /\ indexed' = indexed \cup {t \in files' : t.acct \in present}
    BY DEF MergeWindow
  <1>3. arrived \subseteq Transactions
    BY <1>1 DEF Posted, TypeOK
  <1>4. WindowEnd \in Int /\ WindowEnd <= dtend
    BY <1>1, WindowEnds
  <1>5. \A t \in owed : /\ omitted = {} /\ Source[t.acct] = pc
                       /\ cursor <= t.day /\ t.day < WindowEnd
                       => t \in arrived
    <2>1. SUFFICES ASSUME NEW t \in owed, omitted = {}, Source[t.acct] = pc,
                          cursor <= t.day, t.day < WindowEnd
                   PROVE  t \in arrived
      OBVIOUS
    <2>2. t \in upstream /\ t.acct \in Accounts
      BY <1>1, <1>2, TransactionsAre DEF Owing, TypeOK
    <2> QED
      BY <1>2, <2>1, <2>2 DEF Posted
  <1> HIDE DEF arrived
  <1>6. /\ files \subseteq files' /\ files' \subseteq Transactions
        /\ indexed' \subseteq Transactions
    BY <1>1, <1>2, <1>3 DEF TypeOK
  <1> HIDE DEF present
  <1>7. CASE WindowEnd < dtend
    <2>1. /\ cursor' = WindowEnd /\ attempt' = 0
          /\ UNCHANGED <<remote, pc, todo, byJob, dtstart, dtend, batch, asked,
                        exit, origin, owed, told>>
      BY <1>7 DEF MergeWindow
    <2>2. failed' = (failed \/ omitted # {})
      BY <1>7 DEF MergeWindow
    <2>3. failed' \in BOOLEAN /\ (~failed' => ~failed)
      BY <2>2
    <2>4. Settled'
      <3>1. SUFFICES ASSUME ~failed', NEW t \in owed
            PROVE  /\ Source[t.acct] \notin {pc} \cup todo => t \in files'
                   /\ Source[t.acct] = pc /\ t.day < WindowEnd => t \in files'
        BY <1>2, <2>1 DEF Settled
      <3>2. ~failed /\ omitted = {}
        BY <2>2, <3>1
      <3>3. t.day \in Int /\ cursor \in Int
        BY <1>1, TransactionsAre DEF TypeOK
      <3>4. CASE t.day < cursor
        BY <1>1, <1>2, <3>2, <3>4 DEF Settled
      <3>5. CASE cursor <= t.day
        BY <1>1, <1>2, <1>5, <3>2, <3>5 DEF Settled
      <3> QED
        BY <3>3, <3>4, <3>5
    <2>5. attempt' \in 0..MaxRetries /\ batch' \subseteq Transactions
      BY <1>1, <2>1 DEF TypeOK
    <2> QED
      BY <1>2, <1>4, <1>6, <2>1, <2>3, <2>4, <2>5, GoesOn
  <1>8. CASE ~(WindowEnd < dtend)
    <2>1. EndBackend(omitted = {})
      BY <1>8 DEF MergeWindow
    <2>2. omitted = {} /\ ~failed => \A t \in owed : Source[t.acct] = pc => t \in files'
      <3>1. SUFFICES ASSUME omitted = {}, ~failed, NEW t \in owed, Source[t.acct] = pc
                     PROVE  t \in files'
        OBVIOUS
      <3>2. /\ t.day \in Int /\ cursor \in Int /\ dtend \in Int
            /\ t.day < dtend
        BY <1>1, <1>2, TransactionsAre DEF Owing, TypeOK
      <3>3. t.day < WindowEnd
        BY <1>4, <1>8, <3>2
      <3>4. CASE t.day < cursor
        BY <1>1, <1>2, <3>1, <3>4 DEF Settled
      <3>5. CASE cursor <= t.day
        BY <1>2, <1>5, <3>1, <3>3, <3>5
      <3> QED
        BY <3>2, <3>4, <3>5
    <2>3. pc # "idle" /\ (omitted = {}) \in BOOLEAN
      BY <1>2
    <2> QED
      BY <1>6, <2>1, <2>2, <2>3, EndBackendKeeps
  <1> QED
    BY <1>7, <1>8

LEMMA RefuseFetchKeeps ==
  ASSUME IInv, NEW command \in Commands, NEW reset \in BOOLEAN,
         RefuseFetch(command, reset)
  PROVE  IInv'
  <1>1. /\ files' \subseteq Transactions /\ indexed' \subseteq Transactions
        /\ told' \subseteq Transactions
    BY ResetShrinks DEF RefuseFetch
  <1>2. /\ pc' = "idle" /\ todo' = {} /\ exit' = 2 /\ owed' = {}
        /\ UNCHANGED <<remote, run, origin>>
    BY DEF RefuseFetch, IInv, Shape
  <1>3. /\ dtstart' \in Int /\ dtend' \in Int /\ cursor' \in Int
        /\ attempt' \in 0..MaxRetries /\ batch' \subseteq Transactions
        /\ asked' \subseteq BackendIds
    BY <1>2 DEF IInv, Shape, TypeOK
  <1>4. failed' \in BOOLEAN
    BY <1>2 DEF IInv, Shape, TypeOK
  <1>5. byJob' \in BOOLEAN
    BY <1>2 DEF IInv, Shape, TypeOK
  <1> QED
    BY <1>1, <1>2, <1>3, <1>4, <1>5, NothingRuns

LEMMA CrashInResetKeeps ==
  ASSUME IInv, NEW command \in Commands, CrashInReset(command)
  PROVE  IInv'
  <1>1. /\ files' \subseteq Transactions /\ indexed' \subseteq Transactions
        /\ told' \subseteq Transactions
    BY DEF CrashInReset, IInv, Shape, TypeOK
  <1>2. /\ pc' = "idle" /\ todo' = {} /\ exit' = None /\ owed' = {}
        /\ UNCHANGED <<remote, run, origin>>
    BY DEF CrashInReset, IInv, Shape
  <1>3. /\ dtstart' \in Int /\ dtend' \in Int /\ cursor' \in Int
        /\ attempt' \in 0..MaxRetries /\ batch' \subseteq Transactions
        /\ asked' \subseteq BackendIds
    BY <1>2 DEF IInv, Shape, TypeOK
  <1>4. failed' \in BOOLEAN
    BY <1>2 DEF IInv, Shape, TypeOK
  <1>5. byJob' \in BOOLEAN
    BY <1>2 DEF IInv, Shape, TypeOK
  <1> QED
    BY <1>1, <1>2, <1>3, <1>4, <1>5, NothingRuns

\* The process dies, whatever it has written by then.
LEMMA DiesKeeps ==
  ASSUME IInv, Dies, files' \subseteq Transactions, indexed' \subseteq Transactions
  PROVE  IInv'
  <1>1. /\ Idle /\ owed' = {} /\ exit' = None
        /\ UNCHANGED <<remote, origin>>
        /\ told' \subseteq Transactions
    BY DEF Dies, IInv, Shape, TypeOK, TellTheUser
  <1> QED
    BY <1>1, IdleIs, NothingRuns

LEMMA CrashKeeps == IInv /\ Crash => IInv'
  <1> SUFFICES ASSUME IInv, Crash PROVE IInv'
    OBVIOUS
  <1>1. files' \subseteq Transactions /\ indexed' \subseteq Transactions
    BY DEF Crash, IInv, Shape, TypeOK
  <1> QED
    BY <1>1, DiesKeeps DEF Crash

LEMMA CrashInMergeKeeps == IInv /\ CrashInMerge => IInv'
  <1> SUFFICES ASSUME IInv, CrashInMerge PROVE IInv'
    OBVIOUS
  <1>1. files' \subseteq Transactions /\ indexed' \subseteq Transactions
    BY DEF CrashInMerge, IInv, Shape, TypeOK, Posted
  <1> QED
    BY <1>1, DiesKeeps DEF CrashInMerge

-----------------------------------------------------------------------------
LEMMA NextIInv == IInv /\ [Next]_vars => IInv'
  <1> SUFFICES ASSUME IInv, [Next]_vars PROVE IInv'
    OBVIOUS
  <1>1. CASE Tick
    BY <1>1, OutsideKeeps DEF Tick, IInv, Shape, TypeOK
  <1>2. ASSUME NEW t \in Transactions, Publish(t) PROVE IInv'
    BY <1>2, OutsideKeeps DEF Publish, IInv, Shape, TypeOK
  <1>3. ASSUME NEW command \in Commands, NEW reset \in BOOLEAN,
               NEW explicit \in {None} \cup FirstDay..LastDay,
               StartFetch(command, explicit, reset)
        PROVE  IInv'
    BY <1>3, StartKeeps
  <1>9. CASE StartJob
    BY <1>9, StartJobKeeps
  <1>4. ASSUME NEW command \in Commands, NEW reset \in BOOLEAN,
               RefuseFetch(command, reset)
        PROVE  IInv'
    BY <1>4, RefuseFetchKeeps
  <1>5. ASSUME NEW command \in Commands, CrashInReset(command) PROVE IInv'
    BY <1>5, CrashInResetKeeps
  <1>6. CASE RunStep
    BY <1>6, RetryKeeps, BackendFailsKeeps, MergeWindowKeeps, GatherActivitiesKeeps,
       MergeBatchKeeps DEF RunStep
  <1>7. CASE Crash \/ CrashInMerge
    BY <1>7, CrashKeeps, CrashInMergeKeeps
  <1>8. CASE UNCHANGED vars
    BY <1>8, OutsideKeeps DEF IInv, Shape, TypeOK
  <1> QED
    BY <1>1, <1>2, <1>3, <1>4, <1>5, <1>6, <1>7, <1>8, <1>9 DEF Next

THEOREM Inductive == Spec => []IInv
  BY InitIInv, NextIInv, PTL DEF Spec

(***************************************************************************)
(* Cache, run and history keep their form, for any transactions, windows,  *)
(* retries and configurations.                                             *)
(***************************************************************************)
THEOREM TypeCorrect == Spec => []TypeOK
  <1>1. IInv => TypeOK
    BY DEF IInv, Shape
  <1> QED
    BY Inductive, <1>1, PTL

(***************************************************************************)
(* Exit status 0 means that what the backends showed when the run began is *)
(* cached: for any windows, any backends and accounts, and whatever fails  *)
(* or dies before and meanwhile.                                           *)
(***************************************************************************)
THEOREM SuccessIsComplete == Spec => []CompleteOnSuccess
  <1>1. IInv => CompleteOnSuccess
    BY DEF IInv
  <1> QED
    BY Inductive, <1>1, PTL


-----------------------------------------------------------------------------
(***************************************************************************)
(* No gap in silence.  A run that ends leaves nothing out of reach that it *)
(* was asked for and saw when it began, unless its status says so: that is *)
(* SuccessIsComplete.  What it did not see then was published later, hence *)
(* posted at most Lag days before the end of its range, and no entry of    *)
(* the cache is newer than that end, so that the overlap reaches back to   *)
(* it.                                                                     *)
(***************************************************************************)

\* Nothing is cached before it is published, or published before it is posted.
Dated ==
    /\ files \subseteq upstream /\ indexed \subseteq files /\ batch \subseteq upstream
    /\ \A t \in upstream : t.day <= clock
    /\ pc # "idle" /\ ~byJob => \A n \in files \cup batch : n.day <= dtend

\* What is missing, and neither told nor owed, was published late.
Accounted ==
    pc # "idle" /\ ~byJob =>
      \A t \in Missing \ (told \cup owed) :
        Source[t.acct] \in asked => dtend <= t.day + Lag

GInv == IInv /\ Dated /\ Accounted /\ NoSilentGap

LEMMA InitGInv == Init => GInv
  <1> SUFFICES ASSUME Init PROVE GInv
    OBVIOUS
  <1>1. \A t \in upstream : t.day <= clock
    <2>1. SUFFICES ASSUME NEW t \in upstream PROVE t.day <= clock
      OBVIOUS
    <2>2. clock = FirstDay /\ t \in Transactions /\ t.day + Lag < FirstDay
      BY DEF Init
    <2>3. t.day \in Int
      BY <2>2, TransactionsAre
    <2> QED
      BY <2>2, <2>3
  <1>2. Dated
    BY <1>1 DEF Init, Dated
  <1>3. Accounted /\ NoSilentGap
    BY DEF Init, Accounted, NoSilentGap, OutOfReach
  <1> QED
    BY <1>2, <1>3, InitIInv DEF GInv

\* A step of the world outside: what it publishes was posted at most Lag days ago.
LEMMA OutsideGap ==
  ASSUME GInv, IInv',
         UNCHANGED <<configured, cache, run, exit, origin, owed, told>>,
         clock <= clock', upstream \subseteq upstream',
         \A t \in upstream' \ upstream : t.day <= clock' /\ clock' <= t.day + Lag
  PROVE  GInv'
  <1>1. TypeOK /\ TypeOK' /\ Owing
    BY DEF GInv, IInv, Shape
  <1>2. \A t \in upstream' : t.day \in Int /\ t.day <= clock'
    <2>1. \A t \in upstream' : t.day \in Int
      BY <1>1, TransactionsAre DEF TypeOK
    <2>2. \A t \in upstream : t.day <= clock
      BY DEF GInv, Dated
    <2> QED
      BY <1>1, <2>1, <2>2 DEF TypeOK
  <1>3. Dated'
    BY <1>2 DEF GInv, Dated
  <1>4. Accounted'
    <2>1. SUFFICES ASSUME pc # "idle", ~byJob,
                          NEW t \in Missing', t \notin told \cup owed,
                          Source[t.acct] \in asked
                   PROVE  dtend <= t.day + Lag
      BY DEF Accounted
    <2>2. t \in upstream' /\ t \notin files
      BY <2>1 DEF Missing
    <2>3. CASE t \in upstream
      <3>1. t \in Missing
        BY <2>1, <2>3 DEF Missing
      <3> QED
        BY <2>1, <3>1 DEF GInv, Accounted
    <2>4. CASE t \notin upstream
      <3>1. clock' <= t.day + Lag /\ dtend <= clock
        BY <1>1, <2>1, <2>2, <2>4 DEF Owing
      <3> QED
        BY <1>1, <1>2, <2>2, <3>1 DEF TypeOK
    <2> QED
      BY <2>3, <2>4
  <1>5. NoSilentGap'
    <2>1. SUFFICES ASSUME pc = "idle", NEW t \in Missing', t \notin told
                   PROVE  ~OutOfReach(t)'
      BY DEF NoSilentGap
    <2>2. t \in upstream' /\ t \notin files
      BY <2>1 DEF Missing
    <2>3. CASE t \in upstream
      <3>1. t \in Missing
        BY <2>1, <2>3 DEF Missing
      <3> QED
        BY <2>1, <3>1 DEF GInv, NoSilentGap, OutOfReach
    <2>4. CASE t \notin upstream
      <3>1. SUFFICES ASSUME NEW newest \in indexed
                     PROVE  ~(t.day < newest.day - Overlap)
        BY DEF OutOfReach
      <3>2. newest \in upstream /\ newest.day <= clock
        BY DEF GInv, Dated
      <3>3. newest.day \in Int /\ t.day \in Int /\ clock' <= t.day + Lag
        BY <1>2, <2>2, <2>4, <3>2
      <3> QED
        BY <1>1, <3>2, <3>3 DEF TypeOK
    <2> QED
      BY <2>3, <2>4
  <1> QED
    BY <1>3, <1>4, <1>5 DEF GInv

(***************************************************************************)
(* A run starts.  What it does not owe of its backends is posted before    *)
(* its start, or on its last day.  Before its start nothing is wanted that *)
(* was missing in silence: such a run starts where the plain one would, or *)
(* earlier, or the user has given up what is older.                        *)
(***************************************************************************)
LEMMA LaunchGap ==
  ASSUME GInv, IInv', pc = "idle",
         NEW backends \in SUBSET BackendIds, Launch(backends),
         files' \subseteq files, indexed' \subseteq files',
         byJob' \/ origin' = dtstart'
           \/ /\ UNCHANGED <<files, indexed, told, origin>>
              /\ \E newest \in indexed : dtstart' <= newest.day - Overlap
  PROVE  GInv'
  <1>1. TypeOK /\ TypeOK'
    BY DEF GInv, IInv, Shape
  <1>2. /\ pc' # "idle" /\ batch' = {} /\ dtend' = clock /\ asked' = backends
        /\ UNCHANGED remote
        /\ owed' = {t \in upstream : /\ Source[t.acct] \in backends
                                     /\ dtstart' <= t.day /\ t.day < clock}
    <2>1. First(backends) \in BackendIds
      BY FirstIsOne DEF Launch
    <2> QED
      BY <2>1 DEF Launch, EnterBackend
  <1>3. Dated'
    BY <1>2 DEF GInv, Dated
  <1>4. Accounted'
    <2>1. SUFFICES ASSUME ~byJob', NEW t \in Missing', t \notin told' \cup owed',
                          Source[t.acct] \in backends
                   PROVE  clock <= t.day + Lag
      BY <1>2 DEF Accounted
    <2>2. /\ t \in upstream /\ t \notin files' /\ origin' <= t.day
          /\ Source[t.acct] \in configured
      BY <1>2, <2>1 DEF Missing
    <2>3. t.day \in Int /\ clock \in Int /\ dtstart' \in Int /\ origin' \in Int
      BY <1>1, <2>2, TransactionsAre DEF TypeOK
    <2>4. t.day < dtstart' \/ clock <= t.day
      BY <1>2, <2>1, <2>2, <2>3
    <2>5. ASSUME t.day < dtstart' PROVE FALSE
      <3>1. origin' # dtstart'
        BY <2>2, <2>3, <2>5
      <3>2. PICK newest \in indexed : dtstart' <= newest.day - Overlap
        BY <2>1, <3>1
      <3>3. UNCHANGED <<files, indexed, told, origin>>
        BY <2>1, <3>1
      <3>4. newest.day \in Int
        BY <1>1, TransactionsAre DEF TypeOK
      <3>5. OutOfReach(t)
        BY <2>3, <2>5, <3>2, <3>4 DEF OutOfReach
      <3>6. t \in Missing \ told
        BY <2>1, <2>2, <3>3 DEF Missing
      <3> QED
        BY <3>5, <3>6 DEF GInv, NoSilentGap
    <2> QED
      BY <2>3, <2>4, <2>5
  <1>5. NoSilentGap'
    BY <1>2 DEF NoSilentGap
  <1> QED
    BY <1>3, <1>4, <1>5 DEF GInv

LEMMA StartGap ==
  ASSUME GInv, IInv',
         NEW command \in Commands, NEW reset \in BOOLEAN,
         NEW explicit \in {None} \cup FirstDay..LastDay,
         StartFetch(command, explicit, reset)
  PROVE  GInv'
  <1>1. Asked(command) \cap configured \in SUBSET BackendIds
    BY ConfiguredAre DEF GInv
  <1>2. /\ pc = "idle" /\ Launch(Asked(command) \cap configured)
        /\ origin' = Wish(explicit, dtstart')
        /\ IF reset THEN Reset(Scope(command)) ELSE UNCHANGED <<cache, told>>
    BY DEF StartFetch
  <1>3. files' \subseteq files /\ indexed' \subseteq files'
    BY <1>2 DEF Reset, GInv, Dated
  <1>4. ASSUME origin' # dtstart'
        PROVE  /\ UNCHANGED <<files, indexed, told, origin>>
               /\ \E newest \in indexed : dtstart' <= newest.day - Overlap
    <2>1. /\ origin' = origin
          /\ \/ explicit = None /\ indexed' # {}
             \/ \E t \in indexed' : dtstart' <= t.day - Overlap
      BY <1>2, <1>4 DEF Wish
    <2>2. indexed' # {}
      BY <2>1
    <2>3. UNCHANGED <<files, indexed, told>>
      BY <1>2, <2>2 DEF Reset
    <2>4. CASE \E t \in indexed' : dtstart' <= t.day - Overlap
      BY <2>1, <2>3, <2>4
    <2>5. CASE explicit = None
      <3>1. PICK start \in (FirstDay - Span - Overlap)..LastDay :
                   ResolvedStart(indexed', start) /\ dtstart' = start
        BY <2>5 DEF StartFetch
      <3>2. PICK newest \in indexed : dtstart' = newest.day - Overlap
        BY <2>2, <2>3, <3>1 DEF ResolvedStart
      <3>3. newest.day \in Int
        BY TransactionsAre DEF GInv, IInv, Shape, TypeOK
      <3>4. dtstart' <= newest.day - Overlap
        BY <3>2, <3>3
      <3> QED
        BY <2>1, <2>3, <3>4
    <2> QED
      BY <2>1, <2>4, <2>5
  <1> QED
    BY <1>1, <1>2, <1>3, <1>4, LaunchGap

LEMMA StartJobGap == GInv /\ IInv' /\ StartJob => GInv'
  <1> SUFFICES ASSUME GInv, IInv', StartJob PROVE GInv'
    OBVIOUS
  <1>1. files' \subseteq files /\ indexed' \subseteq files' /\ byJob'
    BY DEF StartJob, GInv, Dated
  <1>2. pc = "idle" /\ Launch(configured)
    BY DEF StartJob
  <1>3. configured \in SUBSET BackendIds
    BY ConfiguredAre DEF GInv
  <1> QED
    BY <1>1, <1>2, <1>3, LaunchGap

\* A reset while no run is in progress: there is no entry to start from.
LEMMA ResetGap ==
  ASSUME GInv, IInv', pc = "idle",
         files' \subseteq files, indexed' = {},
         UNCHANGED <<remote, run>>
  PROVE  GInv'
  <1>1. Dated'
    BY DEF GInv, Dated
  <1>2. Accounted' /\ NoSilentGap'
    BY DEF Accounted, NoSilentGap, OutOfReach
  <1> QED
    BY <1>1, <1>2 DEF GInv

LEMMA RefuseFetchGap ==
  ASSUME GInv, IInv', NEW command \in Commands, NEW reset \in BOOLEAN,
         RefuseFetch(command, reset)
  PROVE  GInv'
  <1>1. pc = "idle" /\ UNCHANGED <<remote, run, origin>>
    BY DEF RefuseFetch
  <1>2. CASE reset
    BY <1>1, <1>2, ResetGap DEF RefuseFetch, Reset
  <1>3. CASE ~reset
    <2>1. UNCHANGED <<cache, told>>
      BY <1>3 DEF RefuseFetch
    <2> QED
      BY <1>1, <2>1 DEF GInv, Dated, Accounted, NoSilentGap, Missing, OutOfReach
  <1> QED
    BY <1>2, <1>3

LEMMA CrashInResetGap ==
  ASSUME GInv, IInv', NEW command \in Commands, CrashInReset(command)
  PROVE  GInv'
  BY ResetGap DEF CrashInReset

(***************************************************************************)
(* A step within a run.                                                    *)
(***************************************************************************)
LEMMA GoesOnGap ==
  ASSUME GInv, IInv', pc # "idle", pc' # "idle",
         UNCHANGED <<remote, byJob, asked, origin, owed, told>>,
         dtend' = dtend \/ byJob,
         files \subseteq files', files' \subseteq upstream, indexed' \subseteq files',
         batch' \subseteq upstream,
         ~byJob => \A n \in files' \cup batch' : n.day <= dtend
  PROVE  GInv'
  <1>1. Dated'
    BY DEF GInv, Dated
  <1>2. Accounted'
    <2>1. SUFFICES ASSUME ~byJob, NEW t \in Missing', t \notin told \cup owed,
                          Source[t.acct] \in asked
                   PROVE  dtend <= t.day + Lag
      BY DEF Accounted
    <2>2. t \in Missing
      BY <2>1 DEF Missing
    <2> QED
      BY <2>1, <2>2 DEF GInv, Accounted
  <1>3. NoSilentGap'
    BY DEF NoSilentGap
  <1> QED
    BY <1>1, <1>2, <1>3 DEF GInv

LEMMA RunOverGap ==
  ASSUME GInv, IInv', pc # "idle", Idle, TellTheUser,
         UNCHANGED <<remote, origin>>,
         files \subseteq files', files' \subseteq upstream, indexed' \subseteq files',
         ~byJob => \A n \in files' : n.day <= dtend,
         exit' = 0 => owed \subseteq files'
  PROVE  GInv'
  <1>1. TypeOK /\ TypeOK'
    BY DEF GInv, IInv, Shape
  <1>2. pc' = "idle" /\ batch' = {}
    BY DEF Idle
  <1>3. Dated'
    BY <1>2 DEF GInv, Dated
  <1>4. Accounted'
    BY <1>2 DEF Accounted
  <1>5. NoSilentGap'
    <2>1. SUFFICES ASSUME NEW t \in Missing', t \notin told', OutOfReach(t)'
                   PROVE  FALSE
      BY DEF NoSilentGap
    <2>2. t \in upstream /\ t \notin files' /\ t \in Missing
      BY <2>1 DEF Missing
    <2>3. t \notin told /\ ~Excused(t)
      BY <2>1, <2>2 DEF TellTheUser
    <2>4. Source[t.acct] \in asked /\ t \notin owed /\ ~byJob
      BY <2>2, <2>3 DEF Excused
    <2>5. dtend <= t.day + Lag
      BY <2>2, <2>3, <2>4 DEF GInv, Accounted
    <2>6. PICK newest \in indexed' : t.day < newest.day - Overlap
      BY <2>1 DEF OutOfReach
    <2>7. newest.day <= dtend
      BY <2>4, <2>6
    <2>8. newest.day \in Int /\ t.day \in Int /\ dtend \in Int
      BY <1>1, <2>2, <2>6, TransactionsAre DEF TypeOK
    <2> QED
      BY <2>5, <2>6, <2>7, <2>8
  <1> QED
    BY <1>3, <1>4, <1>5 DEF GInv

LEMMA EndBackendGap ==
  ASSUME GInv, IInv', pc # "idle",
         NEW ok \in BOOLEAN, EndBackend(ok),
         files \subseteq files', files' \subseteq upstream, indexed' \subseteq files',
         ~byJob => \A n \in files' : n.day <= dtend
  PROVE  GInv'
  <1>1. UNCHANGED <<remote, origin>>
    BY DEF EndBackend
  <1>2. CASE todo = {}
    <2>1. Idle /\ TellTheUser /\ owed' = owed
      BY <1>2 DEF EndBackend
    <2>2. exit' = 0 => owed \subseteq files'
      BY <2>1 DEF IInv, CompleteOnSuccess
    <2> QED
      BY <1>1, <2>1, <2>2, RunOverGap
  <1>3. CASE todo # {}
    <2>1. /\ pc' = First(todo) /\ batch' = {}
          /\ UNCHANGED <<byJob, asked, owed, told>>
          /\ dtend' = dtend \/ byJob
      BY <1>3 DEF EndBackend, EnterBackend
    <2>2. First(todo) \in BackendIds
      BY <1>3, FirstIsOne DEF GInv, IInv, Shape, TypeOK
    <2> QED
      BY <1>1, <2>1, <2>2, GoesOnGap
  <1> QED
    BY <1>2, <1>3

LEMMA DiesGap ==
  ASSUME GInv, IInv', Dies,
         files \subseteq files', files' \subseteq upstream, indexed' \subseteq files',
         ~byJob => \A n \in files' : n.day <= dtend
  PROVE  GInv'
  <1>1. exit' = None
    BY DEF Dies, GInv, IInv, Shape
  <1> QED
    BY <1>1, RunOverGap DEF Dies, None

LEMMA CacheUnchanged ==
  ASSUME GInv, UNCHANGED cache
  PROVE  /\ files \subseteq files' /\ files' \subseteq upstream
         /\ indexed' \subseteq files'
         /\ pc # "idle" /\ ~byJob => \A n \in files' : n.day <= dtend
  BY DEF GInv, Dated

\* What SimpleFIN returns for a window lies in it.
LEMMA PostedInRange ==
  ASSUME GInv
  PROVE  /\ Posted(cursor, WindowEnd) \subseteq upstream
         /\ \A t \in Posted(cursor, WindowEnd) : t.day <= dtend
  <1>1. TypeOK
    BY DEF GInv, IInv, Shape
  <1>2. WindowEnd \in Int /\ WindowEnd <= dtend
    BY <1>1, WindowEnds
  <1>3. \A t \in Posted(cursor, WindowEnd) :
          t \in upstream /\ t.day \in Int /\ t.day < WindowEnd
    BY <1>1, TransactionsAre DEF Posted, TypeOK
  <1> QED
    BY <1>1, <1>2, <1>3 DEF TypeOK

LEMMA RetryGap == GInv /\ IInv' /\ Retry => GInv'
  <1> SUFFICES ASSUME GInv, IInv', Retry PROVE GInv'
    OBVIOUS
  <1>1. /\ pc # "idle" /\ pc' # "idle"
        /\ UNCHANGED <<remote, cache, byJob, asked, origin, owed, told, dtend, batch>>
    BY DEF Retry
  <1> QED
    BY <1>1, GoesOnGap DEF GInv, Dated

LEMMA BackendFailsGap == GInv /\ IInv' /\ BackendFails => GInv'
  BY CacheUnchanged, EndBackendGap DEF BackendFails

LEMMA GatherActivitiesGap == GInv /\ IInv' /\ GatherActivities => GInv'
  <1> SUFFICES ASSUME GInv, IInv', GatherActivities PROVE GInv'
    OBVIOUS
  <1> DEFINE gathered == {t \in Of("snaptrade") \cap upstream :
                            cursor <= t.day /\ t.day <= WindowEnd}
  <1>1. TypeOK
    BY DEF GInv, IInv, Shape
  <1>2. /\ pc # "idle" /\ pc' # "idle" /\ batch' = batch \cup gathered
        /\ UNCHANGED <<remote, cache, byJob, asked, origin, owed, told, dtend>>
    BY DEF GatherActivities
  <1>3. WindowEnd \in Int /\ WindowEnd <= dtend
    BY <1>1, WindowEnds
  <1>4. \A t \in gathered : t \in upstream /\ t.day <= dtend
    BY <1>1, <1>3, TransactionsAre DEF TypeOK
  <1> HIDE DEF gathered
  <1> QED
    BY <1>2, <1>4, GoesOnGap DEF GInv, Dated

LEMMA MergeBatchGap == GInv /\ IInv' /\ MergeBatch => GInv'
  <1> SUFFICES ASSUME GInv, IInv', MergeBatch PROVE GInv'
    OBVIOUS
  <1>1. /\ pc # "idle" /\ EndBackend(TRUE)
        /\ files' = files \cup batch
        /\ indexed' = indexed \cup (files' \cap Of("snaptrade"))
    BY DEF MergeBatch
  <1>2. /\ files \subseteq files' /\ files' \subseteq upstream
        /\ indexed' \subseteq files'
        /\ ~byJob => \A n \in files' : n.day <= dtend
    BY <1>1 DEF GInv, Dated
  <1> QED
    BY <1>1, <1>2, EndBackendGap

LEMMA MergeWindowGap ==
  ASSUME GInv, IInv', NEW omitted \in SUBSET Outages, MergeWindow(omitted)
  PROVE  GInv'
  <1> DEFINE present == {a \in Accounts : Source[a] = "simplefin"} \ omitted
             arrived == {t \in Posted(cursor, WindowEnd) : t.acct \in present}
  <1>1. /\ pc = "simplefin"
        /\ files' = files \cup arrived
        /\ indexed' = indexed \cup {t \in files' : t.acct \in present}
    BY DEF MergeWindow
  <1>2. \A t \in arrived : t \in upstream /\ t.day <= dtend
    BY PostedInRange
  <1> HIDE DEF arrived, present
  <1>3. /\ files \subseteq files' /\ files' \subseteq upstream
        /\ indexed' \subseteq files'
        /\ ~byJob => \A n \in files' : n.day <= dtend
    BY <1>1, <1>2 DEF GInv, Dated
  <1>4. CASE WindowEnd < dtend
    <2>1. UNCHANGED <<remote, pc, byJob, dtend, batch, asked, origin, owed, told>>
      BY <1>4 DEF MergeWindow
    <2> QED
      BY <1>1, <1>3, <2>1, GoesOnGap DEF GInv, Dated
  <1>5. CASE ~(WindowEnd < dtend)
    <2>1. EndBackend(omitted = {})
      BY <1>5 DEF MergeWindow
    <2>2. pc # "idle" /\ (omitted = {}) \in BOOLEAN
      BY <1>1
    <2> QED
      BY <1>3, <2>1, <2>2, EndBackendGap
  <1> QED
    BY <1>4, <1>5

LEMMA CrashGap == GInv /\ IInv' /\ Crash => GInv'
  BY CacheUnchanged, DiesGap DEF Crash, Dies

LEMMA CrashInMergeGap == GInv /\ IInv' /\ CrashInMerge => GInv'
  <1> SUFFICES ASSUME GInv, IInv', CrashInMerge PROVE GInv'
    OBVIOUS
  <1> DEFINE arrived == IF pc = "simplefin"
                        THEN Posted(cursor, WindowEnd) \cap Of("simplefin")
                        ELSE batch
  <1>1. Dies /\ pc # "idle" /\ indexed' = indexed
    BY DEF CrashInMerge, Dies
  <1>2. PICK written \in SUBSET Accounts :
               files' = files \cup {t \in arrived : t.acct \in written}
    BY DEF CrashInMerge
  <1>3. \A t \in arrived : t \in upstream /\ (~byJob => t.day <= dtend)
    BY <1>1, PostedInRange DEF GInv, Dated
  <1> HIDE DEF arrived
  <1>4. /\ files \subseteq files' /\ files' \subseteq upstream
        /\ indexed' \subseteq files'
        /\ ~byJob => \A n \in files' : n.day <= dtend
    BY <1>1, <1>2, <1>3 DEF GInv, Dated
  <1> QED
    BY <1>1, <1>4, DiesGap

LEMMA NextGInv == GInv /\ [Next]_vars => GInv'
  <1> SUFFICES ASSUME GInv, [Next]_vars PROVE GInv'
    OBVIOUS
  <1>1. IInv'
    BY NextIInv DEF GInv
  <1>2. TypeOK
    BY DEF GInv, IInv, Shape
  <1>3. CASE Tick \/ UNCHANGED vars
    <2>1. /\ UNCHANGED <<configured, cache, run, exit, origin, owed, told, upstream>>
          /\ clock <= clock'
      BY <1>2, <1>3 DEF Tick, TypeOK
    <2> QED
      BY <1>1, <2>1, OutsideGap
  <1>4. ASSUME NEW t \in Transactions, Publish(t) PROVE GInv'
    <2>1. /\ UNCHANGED <<configured, cache, run, exit, origin, owed, told, clock>>
          /\ upstream' = upstream \cup {t}
          /\ t.day <= clock /\ clock <= t.day + Lag
      BY <1>4 DEF Publish
    <2>2. clock <= clock'
      BY <1>2, <2>1 DEF TypeOK
    <2> QED
      BY <1>1, <2>1, <2>2, OutsideGap
  <1>5. ASSUME NEW command \in Commands, NEW reset \in BOOLEAN,
               NEW explicit \in {None} \cup FirstDay..LastDay,
               StartFetch(command, explicit, reset)
        PROVE  GInv'
    BY <1>1, <1>5, StartGap
  <1>6. CASE StartJob
    BY <1>1, <1>6, StartJobGap
  <1>7. ASSUME NEW command \in Commands, NEW reset \in BOOLEAN,
               RefuseFetch(command, reset)
        PROVE  GInv'
    BY <1>1, <1>7, RefuseFetchGap
  <1>8. ASSUME NEW command \in Commands, CrashInReset(command) PROVE GInv'
    BY <1>1, <1>8, CrashInResetGap
  <1>9. CASE RunStep
    BY <1>1, <1>9, RetryGap, BackendFailsGap, MergeWindowGap, GatherActivitiesGap,
       MergeBatchGap DEF RunStep
  <1>10. CASE Crash \/ CrashInMerge
    BY <1>1, <1>10, CrashGap, CrashInMergeGap
  <1> QED
    BY <1>3, <1>4, <1>5, <1>6, <1>7, <1>8, <1>9, <1>10 DEF Next

(***************************************************************************)
(* Whatever is lost behind the day that the next plain run starts from was *)
(* left out by a run that said so, or that was not asked for it: with any  *)
(* backends, institutions that fail, crashes inside a merge, resets and    *)
(* pauses.  The overlap has to cover the lag (FetchAssumption).            *)
(***************************************************************************)
THEOREM GapsAreTold == Spec => []NoSilentGap
  <1>1. Spec => []GInv
    BY InitGInv, NextGInv, PTL DEF Spec
  <1>2. GInv => NoSilentGap
    BY DEF GInv
  <1> QED
    BY <1>1, <1>2, PTL
=============================================================================
