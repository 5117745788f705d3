-------------------------- MODULE FilesystemStorage --------------------------
(***************************************************************************)
(* The cache directory of finstore and every operation that writes it:     *)
(* FilesystemStorage.merge_chunk and clear_cache, the credential store,    *)
(* and the two handlers that edit the directory behind the class's back    *)
(* (`finstore cache reset` and the dashboard's POST /cache/reset).         *)
(*                                                                         *)
(* One step is one visible change of the directory: an os.replace, an      *)
(* unlink, or the truncation that opens a file for writing.  A crash may   *)
(* fall between any two of them.  One writer runs at a time (ADR 06: "the  *)
(* local app is the only writer"); the steps of readers are not here, but  *)
(* what a read returns in any state is (ReadMeta, ListAccounts).           *)
(*                                                                         *)
(* Abstractions.  A file's list of transactions is the SET of its entries: *)
(* nothing reads the order.  An entry is [id, ver]; two entries with one   *)
(* id and two vers are two copies or two revisions of a transaction.  The  *)
(* three numbers of an index entry (txn_count, earliest, latest) are kept  *)
(* as the set of transactions they summarise, position_count likewise.     *)
(* Balances, dates and names that no control flow reads are left out.      *)
(***************************************************************************)
EXTENDS Naturals, Sequences

CONSTANTS
    Accounts,    \* upstream accounts: [id, kind, conn, name]
    Conns,       \* raw connection ids
    Dir,         \* normalize_conn_id: connection id -> directory name
    Names,       \* account names
    Display,     \* sanitize_account_name: account name -> display id
    TxnIds,
    Versions,
    Securities,  \* keys "uniqueid_type:uniqueid"
    Backends,    \* ids of backends whose credentials may be stored
    Chunks,      \* the StorageChunks that backends may hand to merge_chunk
    Absent,      \* no file, no index entry
    Torn         \* a file cut short by a crash, which does not parse

Kinds == {"accounts", "investment"}          \* the two subtrees of the root

Account == [id : STRING, kind : Kinds, conn : Conns, name : Names]
Txn == [id : TxnIds, ver : Versions]

\* One element of chunk.accounts or chunk.investment_accounts.
Item == [acct : Accounts, txns : SUBSET Txn, holds : SUBSET Securities]

Paths == Kinds \X {Dir[c] : c \in Conns} \X {Display[n] : n \in Names}
Keys == Kinds \X {Display[n] : n \in Names}

\* _account_path, _investment_account_path: one file per (directory, display id).
PathOf(a) == <<a.kind, Dir[a.conn], Display[a.name]>>

\* The dictionaries of meta.json are keyed by the display id alone.
KeyOf(a) == <<a.kind, Display[a.name]>>

File == [txns : SUBSET Txn]
Entry == [acct : Accounts, covers : SUBSET Txn, held : SUBSET Securities]
Index == [entries : [Keys -> Entry \cup {Absent}], conns : SUBSET Conns]

Snapshot == [held : SUBSET Securities]

Ids(txns) == {t.id : t \in txns}

(***************************************************************************)
(* A chunk lists its cash accounts before its investment accounts (they    *)
(* are two fields merged in that order), a cash account holds nothing, and *)
(* the securities of a chunk describe every position in it (the backends   *)
(* build the two together).                                                *)
(***************************************************************************)
WellFormed(c) ==
    /\ c \in [items : Seq(Item), conns : SUBSET Conns, secs : SUBSET Securities]
    /\ \A i, j \in DOMAIN c.items :
         /\ c.items[i].acct.kind = "accounts" => c.items[i].holds = {}
         /\ i < j /\ c.items[j].acct.kind = "accounts"
              => c.items[i].acct.kind = "accounts"
         /\ c.items[i].holds \subseteq c.secs

ASSUME StorageAssumption ==
    /\ Accounts \subseteq Account
    /\ \A c \in Chunks : WellFormed(c)
    /\ Absent # Torn
    /\ Absent \notin File \cup Entry \cup Index \cup Snapshot
    /\ Torn \notin Index

VARIABLES
    root,       \* the data directory exists
    files,      \* <display_id>.json of each path
    positions,  \* <display_id>.positions.json of each path
    securities, \* keys in securities.json
    meta,       \* meta.json
    creds,      \* backends with a blob under tenants/local/credentials
    pc,         \* the write operation in progress and its next step
    chunk,      \* the chunk being merged
    k,          \* the item of it to merge next
    loaded,     \* the index a per-account reset holds in memory
    scope,      \* the subtrees clear_cache is deleting
    \* History variables: they record what the program owes, and steer nothing.
    acked,      \* <<path, id>> that a completed merge_chunk reported stored
    unsettled,  \* paths written by a merge that has not published them yet
    severed     \* index entries whose file a reset unlinked, entry left behind

disk == <<root, files, positions, securities, meta, creds>>
writer == <<pc, chunk, k, loaded, scope>>
history == <<acked, unsettled, severed>>
vars == <<disk, writer, history>>

NoChunk == [items |-> <<>>, conns |-> {}, secs |-> {}]
\* Mutant: a fresh meta.json in the shape of schema v4, without investment accounts.
EmptyIndexV4 ==
    [entries |-> [key \in {x \in Keys : x[1] = "accounts"} |-> Absent], conns |-> {}]
EmptyIndex == [entries |-> [key \in Keys |-> Absent], conns |-> {}]

MergePhases == {"account", "positions", "securities", "meta"}

TypeOK ==
    /\ root \in BOOLEAN
    /\ files \in [Paths -> File \cup {Absent}]
    /\ positions \in [Paths -> Snapshot \cup {Absent}]
    /\ securities \in SUBSET Securities
    /\ meta \in Index \cup {Absent, Torn}
    /\ creds \in SUBSET Backends
    /\ pc \in MergePhases \cup {"idle", "clear", "wipe", "pop", "rewrite"}
    /\ chunk \in Chunks \cup {NoChunk}
    /\ k \in Nat
    /\ loaded \in Index
    /\ scope \in SUBSET Kinds
    /\ acked \in SUBSET (Paths \X TxnIds)
    /\ unsettled \in SUBSET Paths
    /\ severed \in SUBSET Keys

Init ==
    /\ root = TRUE
    /\ files = [p \in Paths |-> Absent]
    /\ positions = [p \in Paths |-> Absent]
    /\ securities = {}
    /\ meta = Absent
    /\ creds = {}
    /\ pc = "idle"
    /\ chunk = NoChunk
    /\ k = 0
    /\ loaded = EmptyIndex
    /\ scope = {}
    /\ acked = {}
    /\ unsettled = {}
    /\ severed = {}

HasIndex == meta \notin {Absent, Torn}
Entries == meta.entries

-----------------------------------------------------------------------------
(***************************************************************************)
(* merge_chunk: the accounts one by one, each investment account followed  *)
(* by its positions, then the securities registry, and meta.json last.     *)
(***************************************************************************)

\* After i items of c are merged: the next item, or the registry, or the index.
Proceed(c, i) ==
    /\ pc' = IF i < Len(c.items) THEN "account"
             ELSE IF c.secs # {} THEN "securities" ELSE "meta"
    /\ k' = i + 1

StartMerge(c) ==
    /\ pc = "idle"
    /\ chunk' = c
    /\ Proceed(c, 0)
    /\ UNCHANGED <<disk, loaded, scope, history>>

Stored(p) == IF files[p] = Absent THEN {} ELSE files[p].txns

\* Mutant: a revision of a stored transaction is taken in beside it.
FreshRevision(p, txns) == txns \ Stored(p)

\* Incoming transactions whose id the file does not hold yet.
Fresh(p, txns) == {t \in txns : t.id \notin Ids(Stored(p))}

\* Mutant: the file is written with what is new alone.
ReplaceAccountFile(item, kept) ==
    LET p == PathOf(item.acct)
    IN  /\ files' = [files EXCEPT ![p] = [txns |-> kept]]
        /\ unsettled' = unsettled \cup {p}
        /\ root' = TRUE

WriteAccountFile(item, kept) ==
    LET p == PathOf(item.acct)
    IN  /\ files' = [files EXCEPT ![p] = [txns |-> Stored(p) \cup kept]]
        /\ unsettled' = unsettled \cup {p}
        /\ root' = TRUE                        \* mkdir(parents=True)

\* A cash account: ids already stored are dropped, the rest is appended as it
\* came, repeats within the batch included.
MergeAccount ==
    /\ pc = "account"
    /\ LET item == chunk.items[k]
       IN  /\ item.acct.kind = "accounts"
           /\ WriteAccountFile(item, Fresh(PathOf(item.acct), item.txns))
    /\ Proceed(chunk, k)
    /\ UNCHANGED <<positions, securities, meta, creds, chunk, loaded, scope,
                   acked, severed>>

\* Mutant: repeats within one batch are not looked for.
AllOfBatch(batch) == {batch}

\* The first of each id is kept; which one is first is the order of the batch.
OnePerId(batch) ==
    {kept \in SUBSET batch :
        /\ Ids(kept) = Ids(batch)
        /\ \A t, u \in kept : t.id = u.id => t = u}

\* An investment account: as for cash, and repeats within the batch go too.
MergeInvestmentAccount ==
    /\ pc = "account"
    /\ LET item == chunk.items[k]
       IN  /\ item.acct.kind = "investment"
           /\ \E kept \in OnePerId(Fresh(PathOf(item.acct), item.txns)) :
                WriteAccountFile(item, kept)
    /\ pc' = "positions"
    /\ UNCHANGED <<positions, securities, meta, creds, chunk, k, loaded, scope,
                   acked, severed>>

\* The latest snapshot replaces the positions file wholesale.
WritePositions ==
    /\ pc = "positions"
    /\ LET item == chunk.items[k]
       IN  positions' = [positions EXCEPT ![PathOf(item.acct)] =
                                         [held |-> item.holds]]
    /\ Proceed(chunk, k)
    /\ UNCHANGED <<root, files, securities, meta, creds, chunk, loaded, scope,
                   history>>

\* Mutant: the registry is what the latest chunk describes.
ReplaceSecurities ==
    /\ pc = "securities"
    /\ root
    /\ securities' = chunk.secs
    /\ pc' = "meta"
    /\ UNCHANGED <<root, files, positions, meta, creds, chunk, k, loaded, scope,
                   history>>

\* Entries of the registry are added or overwritten, never dropped.
UpsertSecurities ==
    /\ pc = "securities"
    /\ root
    /\ securities' = securities \cup chunk.secs
    /\ pc' = "meta"
    /\ UNCHANGED <<root, files, positions, meta, creds, chunk, k, loaded, scope,
                   history>>

ChunkPaths == {PathOf(chunk.items[i].acct) : i \in DOMAIN chunk.items}
ChunkKeys == {KeyOf(chunk.items[i].acct) : i \in DOMAIN chunk.items}

\* _update_meta walks the items in order, so the last one of a key wins.
IsLastOf(i, key) ==
    /\ KeyOf(chunk.items[i].acct) = key
    /\ \A j \in DOMAIN chunk.items :
         j > i => KeyOf(chunk.items[j].acct) # key

Held(p) == IF positions[p] = Absent THEN {} ELSE positions[p].held

\* Mutant: txn_count counts what arrived on top of what is stored.
SummaryOfArrivals(a) ==
    LET p == PathOf(a)
        arrived == UNION {chunk.items[i].txns :
                            i \in {j \in DOMAIN chunk.items : chunk.items[j].acct = a}}
    IN  [acct |-> a, covers |-> Stored(p) \cup arrived, held |-> Held(p)]

\* Mutant: an entry describes the last window instead of the file.
SummaryOfWindow(a) ==
    LET arrived == UNION {chunk.items[i].txns :
                            i \in {j \in DOMAIN chunk.items : chunk.items[j].acct = a}}
    IN  [acct |-> a, covers |-> Stored(PathOf(a)) \cap arrived, held |-> Held(PathOf(a))]

\* Mutant: the file is looked up where the index already has the display id.
SummaryAtOldPath(a) ==
    LET old == IF HasIndex THEN Entries[KeyOf(a)] ELSE Absent
        p == IF old = Absent THEN PathOf(a) ELSE PathOf(old.acct)
    IN  [acct |-> a, covers |-> Stored(p), held |-> Held(p)]

\* An entry is recomputed from the files as they are now.
Summary(a) ==
    LET p == PathOf(a)
    IN  [acct   |-> a,
         covers |-> Stored(p),
         held   |-> Held(p)]

\* _update_meta starts afresh when meta.json is missing or does not parse.
Existing == IF HasIndex THEN meta ELSE EmptyIndex

Delivered ==
    UNION {{PathOf(chunk.items[i].acct)} \X Ids(chunk.items[i].txns) :
             i \in DOMAIN chunk.items}

EndOperation ==
    /\ pc' = "idle"
    /\ chunk' = NoChunk
    /\ k' = 0
    /\ loaded' = EmptyIndex
    /\ scope' = {}

UpdateMeta ==
    /\ pc = "meta"
    /\ root
    /\ \E last \in [ChunkKeys -> DOMAIN chunk.items] :
         /\ \A key \in ChunkKeys : IsLastOf(last[key], key)
         /\ meta' =
              [entries |-> [key \in Keys |->
                              IF key \in ChunkKeys
                              THEN Summary(chunk.items[last[key]].acct)
                              ELSE Existing.entries[key]],
               conns   |-> Existing.conns \cup chunk.conns]
    /\ acked' = acked \cup Delivered
    /\ unsettled' = unsettled \ ChunkPaths
    /\ severed' = IF HasIndex THEN severed \ ChunkKeys ELSE {}
    /\ EndOperation
    /\ UNCHANGED <<root, files, positions, securities, creds>>

\* Only account writes create directories: a chunk without accounts raises
\* FileNotFoundError when the data directory is gone.
MergeRaises ==
    /\ pc \in {"securities", "meta"}
    /\ ~root
    /\ EndOperation
    /\ UNCHANGED <<disk, history>>

-----------------------------------------------------------------------------
(***************************************************************************)
(* clear_cache(scope): meta.json first, then the subtrees, then the        *)
(* registry; credentials stay.  rmtree unlinks its files in any order.     *)
(***************************************************************************)

RemoveFile(p) ==
    \/ /\ files[p] # Absent
       /\ files' = [files EXCEPT ![p] = Absent]
       /\ UNCHANGED positions
    \/ /\ positions[p] # Absent
       /\ positions' = [positions EXCEPT ![p] = Absent]
       /\ UNCHANGED files

Emptied(kinds) ==
    \A p \in Paths : p[1] \in kinds => files[p] = Absent /\ positions[p] = Absent

StartClear(s) ==
    /\ pc = "idle"
    /\ pc' = "clear"
    /\ scope' = s
    /\ meta' = Absent
    /\ acked' = {x \in acked : x[1][1] \notin s}
    /\ severed' = {}
    /\ UNCHANGED <<root, files, positions, securities, creds, chunk, k, loaded,
                   unsettled>>

ClearSubtree ==
    /\ pc = "clear"
    /\ \E p \in Paths :
         /\ p[1] \in scope
         /\ p[1] = "investment" => Emptied(scope \ {"investment"})
         /\ RemoveFile(p)
    /\ UNCHANGED <<root, securities, meta, creds, writer, history>>

\* Mutant: the registry goes with either subtree.
FinishClearWithRegistry ==
    /\ pc = "clear"
    /\ Emptied(scope)
    /\ securities' = {}
    /\ EndOperation
    /\ UNCHANGED <<root, files, positions, meta, creds, history>>

FinishClear ==
    /\ pc = "clear"
    /\ Emptied(scope)
    /\ securities' = IF "investment" \in scope THEN {} ELSE securities
    /\ EndOperation
    /\ UNCHANGED <<root, files, positions, meta, creds, history>>

-----------------------------------------------------------------------------
(***************************************************************************)
(* Resetting one cash account: unlink its file, then rewrite meta.json     *)
(* WITHOUT its entry by write_text, which truncates the file in place.     *)
(***************************************************************************)

Without(key) == [meta EXCEPT !.entries[key] = Absent]

\* Mutant: the display id alone decides what is unlinked.
UnlinkByDisplayId(key) ==
    /\ files' = [p \in Paths |-> IF <<p[1], p[3]>> = key THEN Absent ELSE files[p]]
    /\ acked' = {x \in acked : x[1] # PathOf(Entries[key].acct)}
    /\ severed' = severed \cup {key}

UnlinkAccountFile(key) ==
    LET p == PathOf(Entries[key].acct)
    IN  /\ files' = [files EXCEPT ![p] = Absent]
        /\ acked' = {x \in acked : x[1] # p}
        /\ severed' = severed \cup {key}

\* `finstore cache reset --account`: refuses when the entry or its file is gone.
CliResetAccount(key) ==
    /\ pc = "idle"
    /\ HasIndex
    /\ key[1] = "accounts"
    /\ Entries[key] # Absent
    /\ files[PathOf(Entries[key].acct)] # Absent
    /\ UnlinkAccountFile(key)
    /\ loaded' = Without(key)
    /\ pc' = "pop"
    /\ UNCHANGED <<root, positions, securities, meta, creds, chunk, k, scope,
                   unsettled>>

\* POST /cache/reset with an account: rewrites meta.json even when it has no
\* such entry; an index with no account at all raises CacheEmptyError first.
WebResetAccount(key) ==
    /\ pc = "idle"
    /\ HasIndex
    /\ key[1] = "accounts"
    /\ \E other \in Keys : Entries[other] # Absent
    /\ IF Entries[key] # Absent
       THEN UnlinkAccountFile(key)
       ELSE UNCHANGED <<files, acked, severed>>
    /\ loaded' = Without(key)
    /\ pc' = "pop"
    /\ UNCHANGED <<root, positions, securities, meta, creds, chunk, k, scope,
                   unsettled>>

\* open(meta.json, "w") inside write_text.
TruncateMeta ==
    /\ pc = "pop"
    /\ meta' = Torn
    /\ pc' = "rewrite"
    /\ UNCHANGED <<root, files, positions, securities, creds, chunk, k, loaded,
                   scope, history>>

RewriteMeta ==
    /\ pc = "rewrite"
    /\ meta' = loaded
    /\ severed' = {key \in severed : loaded.entries[key] # Absent}
    /\ EndOperation
    /\ UNCHANGED <<root, files, positions, securities, creds, acked, unsettled>>

-----------------------------------------------------------------------------
(***************************************************************************)
(* Resetting everything: shutil.rmtree(data_dir).  The whole directory     *)
(* goes, in any order, meta.json and the stored credentials included.      *)
(***************************************************************************)

StartWipe ==
    /\ pc = "idle"
    /\ root
    /\ pc' = "wipe"
    /\ acked' = {}
    /\ unsettled' = Paths
    /\ severed' = Keys
    /\ UNCHANGED <<disk, chunk, k, loaded, scope>>

WipeAccounts ==
    /\ pc = "wipe"
    /\ \E p \in Paths : RemoveFile(p)
    /\ UNCHANGED <<root, securities, meta, creds, writer, history>>

WipeTopLevel ==
    /\ pc = "wipe"
    /\ \/ /\ securities # {}
          /\ securities' = {}
          /\ UNCHANGED <<meta, creds>>
       \/ /\ meta # Absent
          /\ meta' = Absent
          /\ UNCHANGED <<securities, creds>>
       \/ \E b \in creds :
            /\ creds' = creds \ {b}
            /\ UNCHANGED <<securities, meta>>
    /\ UNCHANGED <<root, files, positions, writer, history>>

FinishWipe ==
    /\ pc = "wipe"
    /\ Emptied(Kinds) /\ securities = {} /\ meta = Absent /\ creds = {}
    /\ root' = FALSE
    /\ unsettled' = {}
    /\ severed' = {}
    /\ EndOperation
    /\ UNCHANGED <<files, positions, securities, meta, creds, acked>>

\* resolve_data_dir(create=True), at the start of `finstore fetch` and `serve`.
ResolveDataDir ==
    /\ pc = "idle"
    /\ ~root
    /\ root' = TRUE
    /\ UNCHANGED <<files, positions, securities, meta, creds, writer, history>>

-----------------------------------------------------------------------------
WriteBackendCredential(b) ==
    /\ pc = "idle"
    /\ root' = TRUE
    /\ creds' = creds \cup {b}
    /\ UNCHANGED <<files, positions, securities, meta, writer, history>>

DeleteBackendCredential(b) ==
    /\ pc = "idle"
    /\ b \in creds                             \* otherwise it returns False
    /\ creds' = creds \ {b}
    /\ UNCHANGED <<root, files, positions, securities, meta, writer, history>>

\* The process dies between two steps; the directory stays as it is.
Crash ==
    /\ pc # "idle"
    /\ EndOperation
    /\ UNCHANGED <<disk, history>>

MergeStep ==
    \/ MergeAccount
    \/ MergeInvestmentAccount
    \/ WritePositions
    \/ UpsertSecurities
    \/ UpdateMeta
    \/ MergeRaises

ResetStep ==
    \/ ClearSubtree
    \/ FinishClear
    \/ TruncateMeta
    \/ RewriteMeta
    \/ WipeAccounts
    \/ WipeTopLevel
    \/ FinishWipe

Next ==
    \/ \E c \in Chunks : StartMerge(c)
    \/ MergeStep
    \/ \E s \in {Kinds, {"accounts"}, {"investment"}} : StartClear(s)
    \/ \E key \in Keys : CliResetAccount(key)
    \/ \E key \in Keys : WebResetAccount(key)
    \/ StartWipe
    \/ ResetStep
    \/ ResolveDataDir
    \/ \E b \in Backends : WriteBackendCredential(b)
    \/ \E b \in Backends : DeleteBackendCredential(b)
    \/ Crash

Spec == Init /\ [][Next]_vars

-----------------------------------------------------------------------------
(***************************************************************************)
(* What readers get in a given state.                                      *)
(***************************************************************************)

\* read_meta: CacheEmptyError, CacheCorruptError, or the index.
ReadMeta ==
    CASE meta = Absent -> "empty"
      [] meta = Torn -> "corrupt"
      [] OTHER -> IF \A key \in Keys : Entries[key] = Absent
                  THEN "empty" ELSE "ok"

\* list_accounts and list_investment_accounts skip an entry without a file.
ListAccounts ==
    IF ReadMeta # "ok"
    THEN {}
    ELSE {key \in Keys : /\ Entries[key] # Absent
                         /\ files[PathOf(Entries[key].acct)] # Absent}

-----------------------------------------------------------------------------
(***************************************************************************)
(* Properties.                                                             *)
(***************************************************************************)

SoundEntry(e) ==
    LET p == PathOf(e.acct)
    IN  /\ files[p] # Absent
        /\ e.covers \subseteq files[p].txns
        /\ p \notin unsettled => e = Summary(e.acct)

(***************************************************************************)
(* "meta.json is updated last so a crash mid-fetch never points meta at    *)
(* half-written account files" (filesystem.py:21).  An index entry names a *)
(* file that exists and never counts a transaction the file lacks; and     *)
(* unless a merge of that path was cut short, its numbers are exactly the  *)
(* file's.  Crashes at any step included; only the entry whose file a      *)
(* reset unlinked is excused, until a merge rewrites it.                   *)
(***************************************************************************)
IndexSound ==
    HasIndex =>
      \A key \in Keys \ severed :
        Entries[key] # Absent => SoundEntry(Entries[key])

(***************************************************************************)
(* Once merge_chunk has returned, every transaction it was given is in the *)
(* account's file, whatever is merged afterwards and wherever a later      *)
(* operation crashes, until a reset of that account (ADR 11: completed     *)
(* merges "remain on disk").                                               *)
(***************************************************************************)
AckedKept ==
    \A x \in acked : files[x[1]] # Absent /\ x[2] \in Ids(files[x[1]].txns)

(***************************************************************************)
(* An investment file holds one entry per transaction id, although adjacent*)
(* windows deliver boundary activities twice within one chunk (the dedup   *)
(* of _merge_investment_account, and the rule inv_txn_ids_unique).         *)
(***************************************************************************)
InvestmentIdsUnique ==
    \A p \in Paths :
      p[1] = "investment" =>
        \A t, u \in Stored(p) : t.id = u.id => t = u

(***************************************************************************)
(* Every security a settled positions file refers to is in the registry    *)
(* that read_securities serves, although the two are separate files        *)
(* written in separate steps and reset by different scopes.                *)
(***************************************************************************)
RegistryCoversPositions ==
    \A p \in Paths \ unsettled :
      Held(p) \subseteq securities

(***************************************************************************)
(* Stored history is append-only and first-write-wins: no step but a reset *)
(* that removes the whole file takes a transaction out of a file, and no   *)
(* revision of a stored id is taken in by a later merge (filesystem.py:193 *)
(* "keeping stored").                                                      *)
(***************************************************************************)
HistoryKept ==
    [][\A p \in Paths :
         files[p] # Absent /\ files'[p] # Absent =>
           /\ files[p].txns \subseteq files'[p].txns
           /\ \A t \in files'[p].txns \ files[p].txns :
                t.id \notin Ids(files[p].txns)]_vars

(***************************************************************************)
(* The numbers the dashboard and _resolve_start take from an index entry   *)
(* never go backwards while the entry stays at one path: a merge, also one *)
(* that follows a crash, republishes at least what was published before.   *)
(***************************************************************************)
CountsNeverShrink ==
    [][HasIndex /\ HasIndex' =>
         \A key \in Keys \ severed :
           /\ Entries[key] # Absent /\ Entries'[key] # Absent
           /\ PathOf(Entries[key].acct) = PathOf(Entries'[key].acct)
           => Entries[key].covers \subseteq Entries'[key].covers]_vars

(***************************************************************************)
(* `finstore accounts` "list[s] cached accounts (cash and investment)"     *)
(* (running-locally.md:129): an account with an acknowledged transaction   *)
(* is listed whenever the index can be read.                               *)
(***************************************************************************)
CachedAccountsListed ==
    ReadMeta = "ok" =>
      {x[1] : x \in acked} \subseteq
        {PathOf(Entries[key].acct) : key \in ListAccounts}

(***************************************************************************)
(* "you must reset and re-fetch: finstore cache reset --yes, finstore      *)
(* fetch --all" (running-locally.md:138): wiping the cache leaves the      *)
(* credentials that the fetch after it needs.                              *)
(***************************************************************************)
WipeKeepsCredentials == [][pc = "wipe" => creds \subseteq creds']_vars
=============================================================================
