# A verification of finstore in TLA+

finstore caches what SimpleFIN (bank accounts) and SnapTrade (brokerage
accounts) report about a user's finances in a directory of JSON files, and
serves it to a CLI and a dashboard. These modules model what decides whether
that cache is right: the writes that make up a merge and a reset, what a crash
between two of them leaves behind, what a reader sees meanwhile, what becomes of
the fields of an account on the way into a file and under the validator, how a
fetch chooses what to ask for, how credentials are obtained and given up, and
the dashboard's background job that runs beside the requests.
TLC checks the models on small instances; TLAPS proves that the safety
properties that hold of them, and the storage's refinement, hold for every value
of their constants (all but one, named at the end of section 4).

Paths below are relative to the repository root (`src/finstore/...`,
`src/finstore_local/...`, `docs/...`).

## 1. Inventory

| Component | State it keeps | Operations | Interacts with |
|---|---|---|---|
| **Filesystem storage** (`src/finstore/storage/filesystem.py`, `paths.py`, `types.py`, `model/`) | `accounts/<dir>/<display>.json`, `investment/<dir>/<display>.json` and `.positions.json`, `securities.json`, `meta.json`, `tenants/local/credentials/*.bin` | `merge_chunk`, `clear_cache`, `write_/delete_/read_backend_credential`, `read_meta`, `list_*`, `read_*` | called by both backends, the CLI and the dashboard; all share the directory, without locks (ADR 06) |
| **Cache reset** (`cli/cache_reset.py`, `web/router.py`) | none; edits the directory behind the storage class | reset one account; wipe everything | shares `meta.json` and the account files with `merge_chunk` |
| **finstore fetch** (`cli/fetch.py`, `finstore/fetch.py`) | the run: start, end, results so far | `--reset`, `_resolve_start`, one backend after the other, exit status | reads `meta.json`, calls `clear_cache` and the backends |
| **SimpleFIN backend** (`backends/simplefin/`) | window and attempt in progress | windows oldest first, retries, merge after each window, one-shot claim of a token | HTTP; `merge_chunk` per window |
| **SnapTrade backend** (`backends/snaptrade/`) | activities gathered so far | windows, bisection of full pages, orders fallback, one merge at the end | HTTP; `merge_chunk` once |
| **Dashboard** (`web/jobs.py`, `router.py`, `backends.py`, `__init__.py`, `static/app.js`) | the job registry: state, report, last success | start a job, poll it, browse, reset | one event loop; the job calls both backends |
| **Credential setup** (`simplefin/activate.py`, `cli/setup.py`, `cli/snaptrade.py`) | credentials, local and remote | claim, register, log in, delete | remote call, then a local write |
| **Cache readers** (`filesystem.py` `read_*`, `list_*`, `cli/accounts.py`) | none | read index, then files | may run while a merge does |
| **Validator** (`storage/validate.py`) | none | a walk of the directory, rules over each file | may run while a fetch or a reset does |
| Configuration, logging, argument parsing, templates, protocols | none that a property is about | | |

What is hard in it:

* *Several files describe each other and are written one after another.* A
  merge replaces an account file, its positions, the registry and the index in
  four separate `os.replace` calls; a crash may fall between any two.
* *The index is keyed otherwise than the files.* Files are found by connection
  and display id, index entries by display id alone.
* *Three code paths write the directory*, two of them (`cache reset`, the
  dashboard's POST) without the storage class and without its atomic write.
* *A fetch remembers nothing.* Where the next one starts is derived from the
  newest transaction of the index, so whatever failed must lie within the
  overlap behind it, or it is never asked for again.
* *Failures are per backend and per institution*, and reach the user only as
  an exit status.
* *The dashboard's job* shares the directory and the event loop with handlers
  that reset the cache.
* *Readers look before they open.* A page reads the index, then asks for each
  file whether it is there, then opens it; a merge or a reset in another process
  may step in between.
* *A remote call and a local write make one command.* A setup token is spent, a
  user registered or removed by a request whose answer may be lost, and the blob
  is written or unlinked afterwards.
* *The upstreams leave out, misspell and repeat fields*, and a stored
  transaction is never touched again.

What makes each correct: the **storage** keeps what a merge acknowledged,
stores one entry per id where it says so, and publishes an index that never
claims more than the files hold. A **reset** removes what it names and leaves
the rest readable. A **fetch** that reports success has fetched everything that
was there, and one that does not leaves the next plain run able to catch up.
The **backends** ask for every day of the range and end. The **dashboard** runs
one job at a time, reports what it did, and becomes ready again. **Readers**
see an index and files that fit, or an error the callers handle. **Credential
setup** never ends with a credential that exists remotely and can no longer be
reached locally.

`PROJECT.json` lists the hazards at their lines with the properties that cover
them, and for the rest why none does.

## 2. Modules

| Module | What it is |
|---|---|
| `FilesystemStorage` | the cache directory and every operation that writes it |
| `FilesystemStorageProofs` | its invariant and seven theorems, checked by TLAPS |
| `MCFilesystemStorage` | small accounts, names and chunks for TLC |
| `Ledger` | what the cache promises, without files, phases and crashes |
| `StorageRefinement` | the mapping under which `FilesystemStorage` implements `Ledger` |
| `LedgerProofs` | that it does, checked by TLAPS |
| `CacheReader` | a page or a listing, read step by step beside `FilesystemStorage` |
| `CacheReaderProofs` | its invariant beside the storage's, checked by TLAPS |
| `MCCacheReader` | one bank and one brokerage account for TLC |
| `Records` | the fields of an account from the upstream's answer into a file, and `finstore validate` |
| `RecordsProofs` | its properties, checked by TLAPS |
| `MCRecords` | answers that lack, misspell and repeat things, for TLC |
| `FetchPipeline` | `finstore fetch` and the dashboard's job over one cache: start, windows, retries, failures, crashes, exit status |
| `FetchPipelineProofs` | its invariants, checked by TLAPS |
| `MCFetchPipeline` | small calendars and transactions for TLC |
| `SnapTradeBackend` | one call of the SnapTrade backend: windows, bisection of full pages, orders, positions, the chunk |
| `SnapTradeBackendProofs` | its invariants, checked by TLAPS |
| `MCSnapTradeBackend` | two windows, pages of two, five activities, five orders, for TLC |
| `Credentials` | `finstore setup` and `finstore snaptrade setup / status / delete` with the services they call |
| `CredentialsProofs` | its invariants, checked by TLAPS |
| `MCCredentials` | two tokens, three access URLs, three users for TLC |
| `Dashboard` | the job registry, the fetch task, the pages that start and poll it, resets and other processes meanwhile |
| `DashboardProofs` | its invariants, checked by TLAPS |
| `MCDashboard` | two tabs, two jobs, all settings, for TLC |

`CacheReader` extends `FilesystemStorage`: every step of the storage, of its
resets and of its crashes is a step of the composition, between any two of the
reader's. `StorageRefinement` extends it too.

The others meet at fixed points. `FetchPipeline` sees the cache as two sets,
`files` and `indexed`; `FilesystemStorage` shows why the second is a set of
its own (a merge writes account files first and `meta.json` last) and that what
a completed merge stored stays (`AckedKept`), which `FetchPipeline` takes for
granted when it only ever adds to `files`. `SnapTradeBackend` looks inside two
steps of `FetchPipeline`: `NothingMissed` is why `GatherActivities` may take a
window's activities as one set, and `ChunkDescribed` is what the storage
assumes of a chunk (`WellFormed`). `Records` looks inside a merge where
`FilesystemStorage` keeps only ids and versions; it shows what the ids of a
file may be. `Credentials` produces the blobs that `FilesystemStorage` writes
and `Dashboard` and `FetchPipeline` find configured.

### FilesystemStorage

One step is one visible change of the directory.

| TLA+ | Code |
|---|---|
| `files`, `positions`, `securities`, `meta`, `creds`, `root` | the files of `filesystem.py:8-19`; `Absent` is a missing file, `Torn` one cut short in the middle of a write in place |
| `PathOf`, `KeyOf` | `_account_path` (directory and display id) and the key of `meta.json` (display id alone); `Dir` and `Display` stand for `normalize_conn_id` and `sanitize_account_name`, and may map two names to one |
| `StartMerge`, `MergeAccount`, `MergeInvestmentAccount`, `WritePositions`, `UpsertSecurities`, `UpdateMeta` | `merge_chunk`, one action per file it replaces |
| `MergeRaises` | `FileNotFoundError` of a chunk without accounts when the directory is gone |
| `StartClear`, `ClearSubtree`, `FinishClear` | `clear_cache(scope)`: index, subtrees in any order of unlinks, registry |
| `CliResetAccount`, `WebResetAccount`, `TruncateMeta`, `RewriteMeta` | the per-account resets, with the truncation that `write_text` begins with as a step |
| `StartWipe`, `WipeAccounts`, `WipeTopLevel`, `FinishWipe` | `shutil.rmtree(data_dir)`, any order of unlinks |
| `WriteBackendCredential`, `DeleteBackendCredential`, `ResolveDataDir` | their namesakes |
| `Crash` | the process dies; `pc` and the loop variables are lost, the disk stays |

Transactions are `[id, ver]`: two entries with one id and two versions stand
for two copies or two revisions. An index entry keeps the *set* of
transactions its numbers were computed from; that set says whether
`txn_count`, `earliest_posted` and `latest_posted` are right, and
is what "the file" means in the properties. `acked`, `unsettled` and `severed`
are history variables: what completed merges promised, which paths a merge has
written without publishing them, and which entries a reset unlinked the file
of.

Left out because no control flow reads them: organisation names, account types
and `MergeStats`. Balances, dates and the `.tmp` files of `_atomic_write_json`
are in `Records`. One writer runs at a time, as ADR 06 states.

### Ledger and StorageRefinement

`Ledger` is what a user may rely on: a `book` of transactions per account, to
which entries with new ids are added and which otherwise goes as a whole; a
`statement` per account name, issued about the whole of one book at one
instant; and the transactions that have been `promised`. Its steps are `Enter`,
`Issue`, `Withdraw` and `Destroy`; a step may issue or withdraw several
statements, since one `os.replace` of `meta.json` does.

`StorageRefinement` maps a book to the transaction list of a file, a statement
to an index entry, and `promised` to `acked`. A `meta.json` that is missing or
cut short makes no statements, except while a per-account reset has it open for
rewriting: the statements in force are then those the reset is about to write
back, so that the truncation is a stutter and only a crash in the middle
withdraws them. `ImplementsLedger` is `Ledger`'s specification under that
mapping. `Names` are fewer than `Books`: where two banks share an account name,
the ledger has one statement for two books, as the code has.

### CacheReader

| TLA+ | Code |
|---|---|
| `StartRead`, `TakeResult` | a request for a page (`account_detail`, `investment_account_detail`) or a list (`list_accounts`, `list_investment_accounts`, `finstore accounts`), and its answer |
| `ResolveDisplayId`, `ReadIndex`, `IndexRaises`, `AccountMisses` | `resolve_display_id`, `read_meta`, `_conn_id_for`; the account page reads the index twice |
| `FindAccountFile` / `OpenAccountFile`, `FindPositions` / `OpenPositions`, `FindRegistry` / `OpenRegistry` | the `exists()` and the `open()` of the `_load_*` methods and of `read_securities`, two steps each |
| `OpenRaises` | `FileNotFoundError`, when the file went in between |
| `WriteStep` | any step of `FilesystemStorage` |

A read remembers only what the properties ask for: `missing` (what the index
counted and the file lacks), `held` and `described` (the securities of the
positions and of the registry). `disturbed`, `midMerge` and `cutShort` are
history variables for the excuses: a reset under way during the read (or one
that was cut short and left the entry without its file), positions read between
a merge's files, and a `meta.json` left torn.

### Records

A field is the class of values that its conversions and the validator's rules
tell apart (an amount with cents, without, or one `Decimal` rejects; a day, the
epoch, a date far off; and so on), listed at the top of the module.
`DecodeAccount` and `NormalizeAccount` are `_decode`, `_to_account` and
SnapTrade's `_decode_*` and `_normalize_*`; `Decodable` is where SimpleFIN's
decoding raises and the whole window is lost. `CashWrites`,
`InvestmentWrites`, `WriteNext`, `MergeCash` and `MergeInvestment` are the
writes of `merge_chunk` with what they do to the fields; `Crash` may leave a
temporary file. `ACCOUNT_RULES`, `TRANSACTION_RULES` and the other rules have
the names they have in `validate.py`; `StartValidate` to `TakeReport` are the
walk of `validate_cache`, which lists a connection's directory and then judges
the listed files one by one, while a fetch replaces them, a crash leaves
temporary files beside them and a reset takes them away. `always` and
`sometimes` are history variables: the violations that held throughout the
walk, or at some time in it.

`Picked` is the list comprehension of a merge: the entries of an answer at the
indices taken, in their order. The positions of an account are the set of their
securities: the one rule about them asks whether some entry lacks an id, and
neither their order nor a repeat changes what it says.

### Credentials

One command runs at a time; a step is a request with its answer, an
`os.replace` or an `unlink`. A request is answered, fails without an effect
(`RequestFails`), or takes effect without an answer (`ClaimLost`,
`RegisterLost`, `DeregisterLost`); `Crash` may follow any step, the last file
operation included (`Report` is what comes after it), and `WipeCredentials`, a
full reset from the dashboard, may fall anywhere. `spent` and `account` are what
SimpleFIN and SnapTrade know. The probe of a pasted access URL may answer with a
2xx or fail, whatever the URL: `activate` does not read the body and asks nobody
where the URL comes from. `EditSettings` changes the kind of keys in `.env`
between two commands. `before` and `last` are history variables: the blobs when
the latest command began, how it ended, and the access URL that an exchange
returned to it or that answered its probe. `lost`
holds the users that no blob will ever name and that the property excuses.
`FetchCredential` is how `finstore fetch` reads the blob, by rules of its own.

### FetchPipeline

Time counts days. A transaction is its account and day, and is published up
to `Lag` days later. `StartFetch` is `run()` up to the first request: the
`--reset` with the scope of `_reset_scope`, then `_resolve_start` on what is
left, then `Launch`, the first configured backend. `StartJob` is the dashboard's
job as the cache meets it: both backends, always `Span` days back, whatever is
cached; `byJob` tells its run from the CLI's. `RefuseFetch` is exit status 2, which
comes *after* the reset. `MergeWindow` is one window of SimpleFIN with its
merge; `GatherActivities` and `MergeBatch` are SnapTrade's windows and its one
merge; `Retry` and `BackendFails` are the retry loop and every way a backend
returns `False`; `EndBackend` goes on to the other backend or sets the exit
status. `Crash` is Ctrl-C, a cancelled task or a crash between merges,
`CrashInMerge` one inside `merge_chunk`: some account files are written, the
index is not. `CrashInReset` is one inside `clear_cache`, which unlinks
`meta.json` before anything else. Three constants say which of the code's
weaker moments an instance contains: `TornMerges` (crashes inside a merge),
`IndexLoss` (a reset that leaves account files without `meta.json`, by a crash
or because it was told to clear one backend of two and then fetched nothing),
and `LongPauses` (a job after a pause longer than it goes back). `origin` is a
history variable for what the user asked for: the start of the last explicit
range that nothing cached lies before. `owed` is what the run could see when it
began, and `told` what is out of reach of a plain run and was left out by a run
that said so (`TellTheUser`): its status was not 0, or it died, or it was not
asked for that backend, or it was a job that does not go back so far (`Excused`).
A reset empties it.

Not modelled there: the orders fallback of personal SnapTrade accounts (it is
in `SnapTradeBackend`), pending transactions (`posted` = 0, which
`_resolve_start` ignores; `Records` has them as the epoch "zero"), a malformed
`--start`, and a `meta.json` that does not parse (both end the run before its
first request).

### Dashboard

Every handler body of `web/router.py` runs to its end without an `await`, so a
request is one step; the steps of `_run_fetch` are what lies between two of its
awaits, and any request may fall between them. `jobs` holds the `FetchJob`s
with the point each task has reached, `current` is `registry._job`. A page is
what the server rendered last (`shown`, and whether the start button is
enabled) and whether `app.js` polls. `FetchStart` is the POST of a page that
may be long out of date, `Poll` is `poll()` with its reload, `FullReset` the
POST that removes the directory with its credentials, `Restart` a new process
(`create_app` resets the registry) while the pages stay open. `StoreCredential`
and `DeleteSnaptradeCredential` are other processes. `due` and `wiped` are
history variables: the backends configured throughout the current job, and
whether a full reset fell into it. A backend counts as configured for a job when
the settings have its keys and, for SnapTrade, the store has its blob: keys
without a blob are left out of the report (`jobs.py:107-109`).

Not modelled: the login (`Poll` takes it that `/fetch/status` answers with the
state of the job, or not at all; with an access code but no fixed secret key a
restart ends the session, the answer is the login page, and `app.js:42` tries
again until the page is loaded anew, so `PageSettles` says nothing of that
setting), and the per-account reset during a job (the storage
model has its steps). A job's range, 90 days back, is in `FetchPipeline`
(`StartJob`); the pages that only read the cache are in `CacheReader`.

### SnapTradeBackend

A step is a request with what the code does before the next one, while
SnapTrade goes on publishing (`Publish`, `OpenAccount`). `stack` holds the
calls of `get_activities` that have yet to ask: `NextWindow` pushes a window
of `_windows`, `TakePage` and `TakeFullDay` pop a range and keep its answer,
`Bisect` replaces a range by its two `Halves`. `EndActivities` sorts what was
`gathered` into the listed accounts and removes repeats, as `GetOrders` does
for the orders that a personal client id gets instead (`ActivitiesGone`, the
answer 410). `GetPositions` and `MergeChunk` are the rest of
`fetch_and_persist`; `Raises` is any failing request. `/activities` is
external: a range with at least `PageLimit` activities answers with a full
page, any other with all it has. `owed`, a history variable, is what the range
contained when the call began.

Dates, action types, identifiers and names, and what stands in for one that is
missing, are in `Records`. Not modelled: amounts and balances, which no control
flow reads, and the connections of the chunk.

## 3. Properties and runs

| Run | Checks | Shows |
|---|---|---|
| `storage` | `TypeOK`, `IndexSound`, `AckedKept`, `InvestmentIdsUnique`, `RegistryCoversPositions`, `HistoryKept`, `CountsNeverShrink`, `ImplementsLedger` | two banks with an account of one display name and an investment account, chunks with repeats, revisions and replaced positions, every reset, crashes anywhere |
| `listing` | `CachedAccountsListed` — violated | of two banks' accounts with one name, the one merged first disappears from every listing |
| `credential_loss` | `WipeKeepsCredentials` — violated | `finstore cache reset` removes the credentials that the documented `fetch` after it needs |
| `reader` | `ReaderTypeOK`, `CountedIsRead`, `PositionsDescribed`, `OnlyResetsBreakReads` | pages and listings beside merges, resets and crashes: a merge never breaks a read, the files hold what the index counted, and every position is described |
| `records` | `TypeOK`, `ReportFaithful`, `OwnRulesHold`, `DuplicatesFromOneAnswer`, `VerdictSticks` | nothing an upstream sends makes a file unreadable, the validator's report is true of a directory that changes under it, and what it says of a transaction never changes |
| `fetch_resume` | `TypeOK`, `ResumeLosesNothing` | one backend configured at a time, institutions that answer in full, plain and explicit starts, jobs that reach back to what is cached, resets that take the files with the index, crashes between merges: a plain run always reaches back to what is missing |
| `fetch_complete` | `CompleteOnSuccess`, `NoSilentGap`, `RunEnds` | both backends, runs and jobs, institutions that fail, crashes inside a merge or a reset, resets that lose the index, late publication: success means complete, what a plain run cannot reach any more was left out by a run that said so, and every run ends |
| `fetch_gap` | `FetchAllCanBeResumed` — violated | in one `finstore fetch --all` SimpleFIN fails and SnapTrade advances the newest day, and the next plain run starts beyond what SimpleFIN missed |
| `snaptrade` | `TypeOK`, `NothingMissed`, `ChunkDescribed`, `CallEnds` | pages that fill up while they are split, a day that overflows, activities on the day two windows share, repeated orders, failures anywhere: nothing is missed, every security is described, the call ends |
| `credentials` | `TypeOK`, `SetupKeepsOrReplaces`, `NoOrphans`, `DeleteIsComplete`, `SetupEnablesFetch` | commands in any order under changing keys, pasted access URLs, requests whose answers are lost, crashes, full resets: a setup keeps the old access URL or replaces it by one that was vouched for, no user is orphaned but in the ways listed, success means what it says |
| `dashboard` | `TypeOK`, `OneWriter`, `ReportHolds`, `JobEnds`, `PageSettles` | stale pages, resets between any two awaits, credentials that come and go, restarts: one job at a time, a report that is true of the directory, jobs that end and pages that notice |
| `stored_credential` | `ConfiguredIsFetched` — violated | with the SimpleFIN URL only in the credential store, a job ends as a success without having asked SimpleFIN |

Bounds and why they are enough:

* Storage: three accounts, two transaction ids with two versions, two
  securities. The properties relate one entry, one file and one registry; the
  two bank accounts collide on the key of the index, the investment account has
  the four files of a merge. Two versions tell a repeat from a revision. The
  number of merges, resets and crashes is not bounded. `CONSTRAINT Explored`
  leaves out states in which the second bank and the investment account both
  have files, and those in which a stored credential lies beside account files:
  no property relates the two. The proofs remove the bounds.
* Reader: one bank and one brokerage account, one transaction, two securities;
  what happens between two accesses of one read is a matter of one account.
  Reads leave no trace, so one at a time stands for any number. The proofs
  remove the other bounds.
* Records: one connection and `_unknown`, names that all sanitise alike (so
  that accounts share a file), three SimpleFIN and two SnapTrade answers with a
  representative of each class. `CONSTRAINT Explored`: the two subtrees, which
  the walk visits one after the other, do not both have files, at most one
  temporary file is left, and no directory is there that none of the answers
  files anything in (one whose files were removed may be). `Bounded` is TRUE:
  during a walk one answer and one removal begin; between two walks there is no
  bound. The proofs remove the bounds, `Bounded` included.
* Credentials: two tokens, three access URLs (one that was granted to some
  other program and is pasted), three users: one stored, one lost, one new. Users are symmetric, since
  they are compared for equality only, and no property is temporal. The proofs
  remove the bounds.
* Fetch: windows of two days, an overlap of one, publication up to one day
  late. `fetch_resume` has a calendar of seven days and a default range of five:
  two transactions of one day, of which the overlap has to find the one
  published later, a quiet spell after an old one, and a brokerage account.
  `fetch_complete` has four days, a range of three and three transactions, since
  it checks liveness too: two of the first day, one of which may be left out by
  an institution's outage or published late, and a brokerage one that is newer
  by more than the overlap. `fetch_gap` has a transaction of each backend, both
  published when the one run of its trace begins. A run has several windows, and
  two or three runs fit into one behaviour. What matters is the order of the
  parameters, not their size: `Lag <= Overlap < Span`, `Window < Span`.
  The instance of `fetch_resume` is large enough to tell its assumptions
  apart: with any one of `Outages`, both backends, `TornMerges`, `IndexLoss` or
  `LongPauses` admitted there, TLC finds `ResumeLosesNothing` violated.
* Dashboard: two tabs (one may be stale when the other starts a job), two jobs
  (`MaxJobs`, which also bounds how often a page can find a new job running
  when it polls), two SimpleFIN windows (a reset can fall between them).
* SnapTrade: two windows of three days that share a day, pages of two. The
  first window is split twice, down to a day that fills a page, and every
  subset of the activities may be there at the start.

Symmetry is used in `credentials` only. Deadlock is checked in every run except `snaptrade`, whose
system stops: it is one call, and SnapTrade may have nothing left to publish.

Fairness: `FetchPipeline` assumes `WF_vars(RunStep)`, that a run goes on once
started. Every `await` in a run is an HTTP request with a timeout or a sleep of
a fixed length, so each one ends with an answer or an exception. Nothing
obliges the user to start a run, the clock to advance or an institution to
publish. Only `RunEnds` uses it. `Dashboard` assumes weak fairness of each task
(the same requests), of loading a page that was asked for, and of polling (a
timer of two seconds that `poll()` sets again after every answer and after
every failure); nobody is obliged to press the button, to reload or to reset.
`JobEnds` and `PageSettles` use it. `SnapTradeBackend` assumes weak fairness
of the call, for the same reason as `FetchPipeline`; `CallEnds` uses it.

Each property has a mutant of the code that it catches (`PROJECT.json`): the
definitions marked "Mutant" in the modules, which nothing else uses.

## 4. What is proved

`FilesystemStorageProofs` proves, for any accounts, connections and names with
any collisions, any chunks that satisfy `WellFormed`, and behaviours of any
length with crashes anywhere:

| Theorem | Property |
|---|---|
| `TypeCorrect` | `TypeOK` |
| `IndexIsSound` | `IndexSound` |
| `AckedIsKept` | `AckedKept` |
| `InvestmentIdsAreUnique` | `InvestmentIdsUnique` |
| `RegistryIsComplete` | `RegistryCoversPositions` |
| `HistoryIsKept` | `HistoryKept` |
| `CountsNeverGoDown` | `CountsNeverShrink` |

None of the properties is inductive. `IndexSound` at the end of a merge needs
to know that every account of the chunk has its file by then, `AckedKept` that
the file holds what the chunk delivered, `RegistryCoversPositions` that the
registry was extended first. The inductive invariant `IInv` adds:

* `Shape`: where the writer stands and what that says about `k`, `chunk` and
  `meta` (a `clear` has removed the index, a `rewrite` has truncated it);
* `Progress`: what a merge has on disk when it reaches its next step, item by
  item, with the securities before the index;
* `IndexInv`: every entry sits at the key of its account, and what is true of
  the index on disk is true of the copy a per-account reset is about to write;
* `Waived`: what a reset gives up before it deletes anything.

The only assumption is `StorageAssumption`: accounts and chunks are of their
type, cash accounts come before investment accounts in a chunk and hold
nothing, and a chunk describes the securities of its positions, as the
backends build it. The transition lemmas (`GrowsKeepsSound`,
`OtherPathSound`, ...) say once what a step that only adds to files, or only
touches another path, leaves true; each `...Next` lemma then goes through the
actions.

`HistoryIsKept` and `CountsNeverGoDown` are action properties and follow from
the same invariant.

`LedgerProofs` proves `StorageImplementsLedger`, `Spec => ImplementsLedger`:
initial states map to initial states and every step of the storage, the
truncations, crashes and half-finished wipes included, to a step of `Ledger` or
a stutter. It rests on `LinkInv`, which is `IInv` with one fact more: the index
a per-account reset holds in memory is the one on disk less some entries, so
that `TruncateMeta` may be a stutter. `RefinementAssumption` adds that
`Absent` is not a set of transactions.

`CredentialsProofs`, for any tokens, URLs and users:

| Theorem | Property |
|---|---|
| `TypeCorrect` | `TypeOK` |
| `SetupIsAtomic` | `SetupKeepsOrReplaces` |
| `NothingOrphaned` | `NoOrphans` |
| `DeleteDoesBoth` | `DeleteIsComplete` |
| `SetupFetches` | `SetupEnablesFetch` |

The properties speak of commands that have ended; the invariant adds what a
command has in hand at each of its requests (`Running`, `Holding`) and what has
become of the two blobs and of the user since it began (`SimplefinKept`,
`SnaptradeKept`, `Deleting`). `CredentialsAssumption`: a token grants a URL, and
the marker of personal keys is no user, URL or token.

`DashboardProofs`, for any tabs, settings, windows and number of jobs:
`TypeCorrect` (`TypeOK`), `OneJobWrites` (`OneWriter`) and `ReportIsTrue`
(`ReportHolds`). The invariant: a job is "running" exactly while its task
lives, and only the registry's current job does (`Alive`); unless a full reset
fell into it, the windows before the one it is at are cached, and all of a
backend's once the report says so (`Merged`).

`FetchPipelineProofs`, for any transactions, windows, overlap, retries and
calendar, with `FetchAssumption` (above all `Lag <= Overlap`):

| Theorem | Property |
|---|---|
| `TypeCorrect` | `TypeOK` |
| `SuccessIsComplete` | `CompleteOnSuccess` |
| `GapsAreTold` | `NoSilentGap` |

`SuccessIsComplete` needs that, as long as nothing has failed, what a run owes
before its cursor is cached or gathered (`Settled`). `GapsAreTold` holds with any
backends configured, outages, crashes inside a merge, resets and pauses: it
assumes nothing beyond `FetchAssumption`, of which it needs `Lag <= Overlap`. It
uses `SuccessIsComplete` for what a run saw when it began. For what it did not
see, `Accounted` says that it was published late, at most `Lag` days before the
end of the run's range, and `Dated` that nothing in the cache is newer than that
end; so the overlap reaches back to it. When a run starts, `Accounted` follows
from `NoSilentGap` itself: before the start of a run lies only what an earlier
one has told, or what the user has given up.

`SnapTradeBackendProofs`, for any range, window, page size, accounts,
activities and orders:

| Theorem | Property |
|---|---|
| `TypeCorrect` | `TypeOK` |
| `NothingIsMissed` | `NothingMissed` |
| `ChunkIsDescribed` | `ChunkDescribed` |

The argument is that an activity owed has arrived, or lies in a range that is
still on the stack, or after the cursor (`Covered`), and that splitting a range,
taking a page that is not full and starting a window keep it so; a page that is
full stays full (`FullGrows`), so that whoever is excused by a full day was
excused before. `Given` carries it over into the accounts' transactions,
`Describing` says that the symbols collected so far describe all that is held or
traded. `SnapTradeAssumption`: days are integers, there are finitely many
activities, window and page size are positive.

`CacheReaderProofs`, for any accounts and chunks, beside any steps of
`FilesystemStorage`:

| Theorem | Property |
|---|---|
| `WriterGoesOn` | `ReaderSpec => Spec`: the writer runs as if nobody read |
| `ReaderTypeCorrect` | `ReaderTypeOK` |
| `CountedIsAlwaysRead` | `CountedIsRead` |
| `PagesDescribeTheirPositions` | `PositionsDescribed` |
| `MergesNeverBreakReads` | `OnlyResetsBreakReads` |

`WriterGoesOn` is what ADR 06 relies on when readers take no lock, and it brings
the storage's `IInv` into the composition. `ReadInv` adds what a read holds on
to: as long as no reset has disturbed it, the entries it has still to load are
backed by their files, a file it has asked for is there to be opened, and the
registry describes the positions it has in hand (`Standing`); a reset under way
is noticed, and a torn index is known to be torn (`Noticed`). The writer's half
is one lemma, `GrowsBetween`: outside resets files and the registry only grow
and no positions file goes away, crashes and half-finished merges included.

`RecordsProofs`, for any answers, of any length, any connections and names:

| Theorem | Property |
|---|---|
| `TypeCorrect` | `TypeOK` |
| `ReportIsFaithful` | `ReportFaithful` |
| `OwnRulesAlwaysHold` | `OwnRulesHold` |
| `DuplicatesComeFromOneAnswer` | `DuplicatesFromOneAnswer` |
| `VerdictsStick` | `VerdictSticks` |

`CashAdded` and `InvestmentAdded` say what a merge leaves in a file: what was
stored stays in front, nothing behind it has a stored id, and repeats come from
the batch, or from nowhere. `Picked` is recursive, so they rest on an
induction: over sets of numbers (`Induction`, from the well-foundedness of the
order on `Nat`), since induction over formulas is out of reach, with a proof that
the recursion has a solution (`PickedExists`). The invariant `RInv` adds that
every queued write and every file came from an answer that converts
(`Contents`, with the ids that one answer repeats), and where the walk stands
(`Walked`): what has always been wrong is reported or in a file still `Ahead`,
what is reported has been wrong at some time, and what is listed is there
unless something was removed. `RecordsAssumption`: answers are sequences of
accounts of the classes above, `Conns` and `Displays` have what becomes of the
names in them, and `Absent` is none of the values it stands beside. Any number
of merges and resets may begin during a walk.

Only model-checked: `CallEnds`, `RunEnds`, `JobEnds` and `PageSettles`, which
are liveness under fairness; `ResumeLosesNothing`, which holds only in the
circumstances of `fetch_resume` (one backend configured, no outage, no crash
inside a merge, no reset that loses the index, no pause longer than a job goes
back), where `NoSilentGap` holds in all; and the four violations, each of which
TLC shows.

## 5. Where code and documents disagree

Shown by a run:

* **The index hides an account** (`filesystem.py:327`): run `listing`.
* **A full reset loses credentials** (`cache_reset.py:56`, `router.py:281`),
  while `running-locally.md` goes on with a fetch: run `credential_loss`.
* **A plain run does not pick up where the last one left off** when one backend
  failed and the other did not, in one `fetch --all` (`cli/fetch.py:275`): run
  `fetch_gap`. The exit status of that run is 1, so the gap is not silent
  (`NoSilentGap`), but nothing tells the user that only an explicit `--start`
  will fill it.
* **The dashboard's job ignores the stored SimpleFIN credential**
  (`web/jobs.py:82`), which ADR 13 and the page's own status count: run
  `stored_credential`.

The same promise, that a plain run picks up where the last one left off, fails
in three more ways. Each is kept out of `fetch_resume` by a constant, and is
found by TLC when that constant of `MCFetchResume.cfg` is set to TRUE:

* a crash inside a merge, and then a shorter run that publishes the account's
  newer entries (`filesystem.py:319`; `TornMerges`);
* a reset of one backend, or one cut short, which removes the index of the
  other's files (`filesystem.py:642`, `cli/fetch.py:33`; `IndexLoss`): the next
  start is computed from what is merged after that;
* a job of the dashboard after more than 90 days without a fetch
  (`web/jobs.py:76`; `LongPauses`).

An institution that SimpleFIN reports as failing has the same effect
(`Outages`): its days are skipped once another account's newest day is past
them.

Seen while modelling, without a run:

* A per-account reset rewrites `meta.json` in place (`cache_reset.py:48`,
  `router.py:276`), where ADR 06 has every write atomic: a crash there leaves a
  file that no command can read. `OnlyResetsBreakReads` is worded accordingly.
* The pages answer `FileNotFoundError` and `CacheCorruptError` with status 500,
  while `docs/api-reference.md` calls reads "safe to concurrent callers".
* The investment page asks the registry only for the securities of the
  positions (`router.py:185`), so that what has been sold since is shown by its
  raw id.
* `finstore accounts` lists cash accounts only; `docs/running-locally.md` says
  "cash and investment".
* The documents place blobs in `{data_dir}/credentials`, the code in
  `{data_dir}/tenants/local/credentials`.
* A `finstore snaptrade delete` whose answer was lost cannot be completed by a
  retry once SnapTrade no longer knows the user.
* A merge gives an account of a version 4 file, whose type was inferred on
  reading, the default type (`filesystem.py:122`).
* An amount without two decimals, as a bank may send it, is reported by
  `finstore validate` for good: a stored transaction is not touched again
  (`VerdictSticks`).
* The fetch page's "Last successful fetch" is the end of the last job whatever
  failed in it (`jobs.py:142`, action `Finish`), and it never shows the
  institutions' errors that SimpleFIN reports.

## 6. Plan

Done: the storage and its proofs, the abstract `Ledger` and the refinement, the
readers, the fetch with the dashboard's job, the SnapTrade backend, the
credentials, the dashboard, the validator with normalisation, each with proofs.

Left, in this order:

1. A bridge from `FetchPipeline` to the storage: that its `files` and `indexed`
   are what `AckedKept` and `IndexSound` allow, as a refinement rather than in
   words (section 2).
2. The per-account reset during a dashboard job, as a composition of
   `Dashboard` with the index of `FilesystemStorage`.
3. The connection an account is filed under, which changes when
   `/brokerageAuthorizations` does not name it (`backend.py:443`).

Not modelled, and not planned: parsing of settings and arguments, templates,
the login, logging, type declarations. They hold no state that a property is
about.
