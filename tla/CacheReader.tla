----------------------------- MODULE CacheReader -----------------------------
(***************************************************************************)
(* A reader beside the writer of FilesystemStorage: the read methods of    *)
(* FilesystemStorage as the dashboard's pages and `finstore accounts` call *)
(* them.  There are no locks (ADR 06), and the writer is another process: a*)
(* `finstore fetch` in cron while `finstore serve` answers.  A read looks  *)
(* at the index, then at the files it names, and for each file first asks  *)
(* whether it exists and then opens it; the writer may step in between.    *)
(*                                                                         *)
(* Abstractions.  A file is read at one instant (os.replace leaves the old *)
(* one to whoever has it open).  The filters by date of the _window methods*)
(* act on what was read; they change nothing here.  Reads leave no trace,  *)
(* so one at a time stands for any number.                                 *)
(***************************************************************************)
EXTENDS FilesystemStorage

CONSTANT Unread    \* nothing read yet

VARIABLES
    op,        \* the call in progress, or the latest one
    step,      \* its next access to the disk
    todo,      \* index entries whose files it has still to load
    acct,      \* the account whose files it is loading
    missing,   \* transactions an entry counted and the file opened later lacks
    held,      \* the securities in the positions it read
    described, \* the securities it read in the registry
    outcome,   \* what it returned or raised
    \* History variables.
    disturbed, \* a reset was under way during the read, or cut short before it
    midMerge,  \* the positions were read amid a merge, or after one cut short
    cutShort   \* meta.json is torn since a reset was stopped while rewriting it

result == <<missing, held, described>>
watched == <<disturbed, midMerge, cutShort>>
reader == <<op, step, todo, acct, result, outcome, watched>>

\* Two pages of one account, two lists; each over one subtree.
Pages == {"account page", "investment page"}
Lists == {"list_accounts", "list_investment_accounts"}
KindOf(call) ==
    IF call \in {"account page", "list_accounts"}
    THEN "accounts"
    ELSE "investment"

NoCall == [call |-> "none", key |-> Absent]

\* "page" is a result; a page answers CacheMissError and CacheEmptyError by 404,
\* and lets every other exception through.
Outcomes == {"none", "page", "CacheMissError", "CacheEmptyError",
             "CacheCorruptError", "FileNotFoundError"}

ReaderTypeOK ==
    /\ op \in [call : Pages \cup Lists \cup {"none"}, key : Keys \cup {Absent}]
    /\ step \in {"idle", "resolve", "meta", "next", "open account",
                 "find positions", "open positions", "find registry",
                 "open registry", "done"}
    /\ todo \subseteq [acct : Accounts, covers : SUBSET Txn]
    /\ acct \in Accounts \cup {Absent}
    /\ missing \subseteq Txn
    /\ held \in (SUBSET Securities) \cup {Unread}
    /\ described \in (SUBSET Securities) \cup {Unread}
    /\ outcome \in Outcomes
    /\ disturbed \in BOOLEAN
    /\ midMerge \in BOOLEAN
    /\ cutShort \in BOOLEAN

ReaderInit ==
    /\ Init
    /\ op = NoCall
    /\ step = "idle"
    /\ todo = {}
    /\ acct = Absent
    /\ missing = {}
    /\ held = Unread
    /\ described = Unread
    /\ outcome = "none"
    /\ disturbed = FALSE
    /\ midMerge = FALSE
    /\ cutShort = FALSE

Resetting == pc \in {"clear", "wipe", "pop", "rewrite"}

-----------------------------------------------------------------------------
StartRead(call, key) ==
    /\ step = "idle"
    /\ op' = [call |-> call, key |-> key]
    /\ step' = IF call = "account page" THEN "resolve" ELSE "meta"
    /\ disturbed' = Resetting
    /\ UNCHANGED <<todo, acct, result, outcome, midMerge, cutShort, vars>>

GoTo(next) ==
    /\ step' = next
    /\ UNCHANGED outcome

Return(how) ==
    /\ step' = "done"
    /\ outcome' = how

Raise(error) ==
    /\ Return(error)
    /\ UNCHANGED <<op, todo, acct, result, watched, vars>>

\* The caller takes the result; whatever is read next begins afresh.
TakeResult ==
    /\ step = "done"
    /\ op' = NoCall
    /\ step' = "idle"
    /\ todo' = {}
    /\ acct' = Absent
    /\ missing' = {}
    /\ held' = Unread
    /\ described' = Unread
    /\ outcome' = "none"
    /\ disturbed' = FALSE
    /\ midMerge' = FALSE
    /\ UNCHANGED <<cutShort, vars>>

\* The keys of the index entries that the call is about.
Wanted ==
    {key \in Keys : /\ key[1] = KindOf(op.call)
                    /\ op.call \in Pages => key = op.key
                    /\ Entries[key] # Absent}

\* read_meta: an index that is missing, does not parse or names no account.
IndexRaises ==
    /\ step \in {"resolve", "meta"}
    /\ \/ ReadMeta = "empty" /\ Raise("CacheEmptyError")
       \/ ReadMeta = "corrupt" /\ Raise("CacheCorruptError")

\* Mutant: the index is subscripted with an id it may not hold.
AccountRaisesKeyError ==
    /\ step \in {"resolve", "meta"}
    /\ ReadMeta = "ok"
    /\ op.call \in Pages
    /\ Wanted = {}
    /\ Raise("KeyError")

\* resolve_display_id, _conn_id_for, _conn_id_for_investment: no such account.
AccountMisses ==
    /\ step \in {"resolve", "meta"}
    /\ ReadMeta = "ok"
    /\ op.call \in Pages
    /\ Wanted = {}
    /\ Raise("CacheMissError")

\* resolve_display_id confirms the id; read_account reads the index again.
ResolveDisplayId ==
    /\ step = "resolve"
    /\ ReadMeta = "ok"
    /\ Wanted # {}
    /\ GoTo("meta")
    /\ UNCHANGED <<op, todo, acct, result, watched, vars>>

\* After an account a list goes on with what is left; a page has its result.
GoOnWith(left) ==
    /\ todo' = left
    /\ IF left # {} THEN GoTo("next")
       ELSE IF op.call = "investment page" THEN GoTo("find registry")
       ELSE Return("page")

ReadIndex ==
    /\ step = "meta"
    /\ ReadMeta = "ok"
    /\ op.call \in Pages => Wanted # {}
    /\ GoOnWith({[acct |-> Entries[key].acct, covers |-> Entries[key].covers] :
                    key \in Wanted})
    /\ disturbed' = (disturbed \/ Wanted \cap severed # {})
    /\ UNCHANGED <<op, acct, result, midMerge, cutShort, vars>>

\* _load_account_file, _load_investment_account_file up to the open.  A file
\* that is not there is CacheMissError, for which a list leaves the entry out.
FindAccountFile ==
    /\ step = "next"
    /\ \E e \in todo :
         IF files[PathOf(e.acct)] # Absent
         THEN acct' = e.acct /\ GoTo("open account") /\ UNCHANGED todo
         ELSE /\ UNCHANGED acct
              /\ IF op.call \in Lists
                 THEN GoOnWith(todo \ {e})
                 ELSE Return("CacheMissError") /\ UNCHANGED todo
    /\ UNCHANGED <<op, result, watched, vars>>

OpenAccountFile ==
    /\ step = "open account"
    /\ files[PathOf(acct)] # Absent
    /\ LET loading == {e \in todo : e.acct = acct}
       IN  /\ missing' = (UNION {e.covers : e \in loading})
                           \ files[PathOf(acct)].txns
           /\ IF acct.kind = "accounts"
              THEN GoOnWith(todo \ loading)
              ELSE GoTo("find positions") /\ todo' = todo \ loading
    /\ UNCHANGED <<op, acct, held, described, watched, vars>>

\* No positions file means no positions.
FindPositions ==
    /\ step = "find positions"
    /\ IF positions[PathOf(acct)] # Absent
       THEN GoTo("open positions") /\ UNCHANGED <<todo, held>>
       ELSE held' = {} /\ GoOnWith(todo)
    /\ UNCHANGED <<op, acct, missing, described, watched, vars>>

OpenPositions ==
    /\ step = "open positions"
    /\ positions[PathOf(acct)] # Absent
    /\ held' = Held(PathOf(acct))
    /\ midMerge' = (PathOf(acct) \in unsettled)
    /\ GoOnWith(todo)
    /\ UNCHANGED <<op, acct, missing, described, disturbed, cutShort, vars>>

\* Mutant: the registry is opened without asking whether it exists.
OpenRegistryUnseen ==
    /\ step = "find registry"
    /\ GoTo("open registry")
    /\ UNCHANGED <<op, todo, acct, result, watched, vars>>

\* read_securities; a registry that is not there is an empty one.
FindRegistry ==
    /\ step = "find registry"
    /\ IF securities # {}
       THEN GoTo("open registry") /\ UNCHANGED described
       ELSE described' = {} /\ Return("page")
    /\ UNCHANGED <<op, todo, acct, missing, held, watched, vars>>

\* Those of the positions on the page, or all of them if it has none.
OpenRegistry ==
    /\ step = "open registry"
    /\ securities # {}
    /\ described' = IF held = {} THEN securities ELSE securities \cap held
    /\ Return("page")
    /\ UNCHANGED <<op, todo, acct, missing, held, watched, vars>>

\* The file was there when the read looked, and is gone when it opens it.
OpenRaises ==
    /\ \/ step = "open account" /\ files[PathOf(acct)] = Absent
       \/ step = "open positions" /\ positions[PathOf(acct)] = Absent
       \/ step = "open registry" /\ securities = {}
    /\ Raise("FileNotFoundError")

ReadStep ==
    \/ IndexRaises
    \/ AccountMisses
    \/ ResolveDisplayId
    \/ ReadIndex
    \/ FindAccountFile
    \/ OpenAccountFile
    \/ FindPositions
    \/ OpenPositions
    \/ FindRegistry
    \/ OpenRegistry
    \/ OpenRaises
    \/ TakeResult

\* A step of the writer; what it owes the reader is noted while a read is on.
WriteStep ==
    /\ step # "done"
    /\ Next
    /\ disturbed' = (disturbed \/ (step # "idle" /\ (Resetting \/ Resetting')))
    /\ cutShort' = (meta' = Torn /\ (cutShort \/ Resetting))
    /\ UNCHANGED <<op, step, todo, acct, result, outcome, midMerge>>

ReaderNext ==
    \/ \E call \in Pages, key \in Keys :
         key[1] = KindOf(call) /\ StartRead(call, key)
    \/ \E call \in Lists : StartRead(call, Absent)
    \/ ReadStep
    \/ WriteStep

ReaderSpec == ReaderInit /\ [][ReaderNext]_<<vars, reader>>

-----------------------------------------------------------------------------
(***************************************************************************)
(* Properties.                                                             *)
(***************************************************************************)

(***************************************************************************)
(* "meta.json is updated last, so readers never see meta pointing at a     *)
(* half-written account" (ADR 06): the file a read opens after it took the *)
(* index holds every transaction the index counted, whatever was merged, or*)
(* cut short, in between.  Only a reset is excused.                        *)
(***************************************************************************)
CountedIsRead ==
    ~disturbed => missing = {}

(***************************************************************************)
(* The securities an investment page shows describe every position on it,  *)
(* although positions and registry are read one after the other while a    *)
(* merge replaces both.  Positions read amid a merge are excused: they are *)
(* on disk before the registry that describes them.                        *)
(***************************************************************************)
PositionsDescribed ==
    described # Unread /\ ~disturbed /\ ~midMerge => held \subseteq described

(***************************************************************************)
(* No merge takes a file away from under a reader, or shows it half a file,*)
(* in whatever order they step: an open fails only when a reset removed the*)
(* file, and meta.json fails to parse only amid a per-account reset, which *)
(* rewrites it in place, or after one that was cut short.                  *)
(***************************************************************************)
OnlyResetsBreakReads ==
    /\ outcome = "FileNotFoundError" => disturbed
    /\ outcome = "CacheCorruptError" => disturbed \/ cutShort
=============================================================================
