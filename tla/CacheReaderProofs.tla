--------------------------- MODULE CacheReaderProofs ---------------------------
(***************************************************************************)
(* The invariants of CacheReader, for every set of accounts and chunks and *)
(* any number of merges, resets and crashes beside any number of reads.    *)
(* A read changes nothing on the disk, so all that is proved of the writer *)
(* holds beside it (WriterGoesOn).  Between two accesses of a read that no *)
(* reset disturbs the disk only grows (GrowsBetween); so what an access    *)
(* found, and what the index said, is still there at the next.             *)
(***************************************************************************)
EXTENDS CacheReader, FilesystemStorageProofs

Reading == step \notin {"idle", "done"}

\* Where a read stands, and what it works on.
ReadShape ==
    /\ ReaderTypeOK
    /\ Reading => op.call \in Pages \cup Lists
    /\ step \in {"resolve", "meta"} /\ op.call \in Pages => op.key \in Keys
    /\ step \in {"open account", "find positions", "open positions"} =>
         acct \in Accounts /\ acct.kind = KindOf(op.call)
    /\ \A e \in todo : e.acct.kind = KindOf(op.call)
    /\ step = "idle" => todo = {} /\ missing = {}
    /\ step # "done" => described = Unread /\ outcome = "none"

\* A read knows of every reset, and a torn index of what tore it.
Noticed ==
    /\ Reading /\ Resetting => disturbed
    /\ meta = Torn => cutShort

(***************************************************************************)
(* What an undisturbed read relies on: the files of the entries it has yet *)
(* to load hold what the index counted, the file it is about to open is    *)
(* there, and the registry describes the positions it has read.            *)
(***************************************************************************)
Backed(e) ==
    files[PathOf(e.acct)] # Absent /\ e.covers \subseteq files[PathOf(e.acct)].txns

Standing ==
    Reading /\ ~disturbed =>
      /\ \A e \in todo : Backed(e)
      /\ step = "open account" => files[PathOf(acct)] # Absent
      /\ step = "open positions" => positions[PathOf(acct)] # Absent
      /\ step = "open registry" => securities # {}
      /\ step \in {"find registry", "open registry"} /\ ~midMerge
           => held \subseteq securities

ReadInv ==
    /\ ReadShape /\ Noticed /\ Standing
    /\ CountedIsRead /\ PositionsDescribed /\ OnlyResetsBreakReads
-----------------------------------------------------------------------------
USE DEF Pages, Lists, result, watched, reader

(***************************************************************************)
(* The writer, beside a read.                                              *)
(***************************************************************************)

\* Without a reset nothing is taken away.
LEMMA GrowsBetween ==
  ASSUME IInv, [Next]_vars, ~Resetting, ~Resetting'
  PROVE  /\ \A p \in Paths :
              /\ files[p] # Absent => /\ files'[p] # Absent
                                      /\ files[p].txns \subseteq files'[p].txns
              /\ positions[p] # Absent => positions'[p] # Absent
         /\ securities \subseteq securities'
  <1> USE DEF IInv, Resetting
  <1>1. CASE MergeAccount \/ MergeInvestmentAccount
    <2>1. Grows /\ \E q \in Paths : \A r \in Paths : r # q => files'[r] = files[r]
      BY <1>1, AccountWritten
    <2>2. positions' = positions /\ securities' = securities
      BY <1>1 DEF MergeAccount, MergeInvestmentAccount
    <2> QED
      BY <2>1, <2>2 DEF Grows
  <1>2. CASE WritePositions
    <2>1. files' = files /\ securities' = securities
      BY <1>2 DEF WritePositions
    <2>2. \A p \in Paths : positions[p] # Absent => positions'[p] # Absent
      <3>1. positions' = [positions EXCEPT ![PathOf(chunk.items[k].acct)] =
                                             [held |-> chunk.items[k].holds]]
        BY <1>2 DEF WritePositions
      <3>2. [held |-> chunk.items[k].holds] \in Snapshot
        BY <1>2, CurrentItem DEF WritePositions, Snapshot
      <3>3. [held |-> chunk.items[k].holds] # Absent
        BY <3>2, StorageAssumption
      <3> QED
        BY <3>1, <3>3 DEF Shape, TypeOK
    <2> QED
      BY <2>1, <2>2
  <1>3. CASE UpsertSecurities
    BY <1>3 DEF UpsertSecurities
  <1>4. CASE Quiet \/ UpdateMeta
    BY <1>4 DEF Quiet, UpdateMeta
  <1>5. CASE \/ \E s \in SUBSET Kinds : StartClear(s)
             \/ ClearSubtree \/ FinishClear
             \/ \E key \in Keys : CliResetAccount(key) \/ WebResetAccount(key)
             \/ TruncateMeta \/ RewriteMeta
             \/ StartWipe \/ WipeAccounts \/ WipeTopLevel \/ FinishWipe
    BY <1>5 DEF StartClear, ClearSubtree, FinishClear, CliResetAccount, WebResetAccount,
       TruncateMeta, RewriteMeta, StartWipe, WipeAccounts, WipeTopLevel, FinishWipe
  <1> QED
    BY <1>1, <1>2, <1>3, <1>4, <1>5, StepCases

\* Only a reset tears meta.json.
LEMMA TornByReset ==
  ASSUME Shape, [Next]_vars, meta # Torn, meta' = Torn
  PROVE  Resetting
  <1>1. CASE TruncateMeta \/ RewriteMeta
    BY <1>1 DEF TruncateMeta, RewriteMeta, Resetting
  <1>2. CASE UpdateMeta
    <2>1. meta' \in Index
      BY <1>2, MetaWritten DEF UpdateMeta, Shape, MergePhases
    <2> QED
      BY <2>1, StorageAssumption
  <1>3. CASE WipeTopLevel
    BY <1>3 DEF WipeTopLevel, Resetting
  <1>4. CASE \E s \in SUBSET Kinds : StartClear(s)
    BY <1>4, StorageAssumption DEF StartClear
  <1>5. CASE \/ Quiet \/ MergeAccount \/ MergeInvestmentAccount \/ WritePositions
             \/ UpsertSecurities \/ ClearSubtree \/ FinishClear
             \/ \E key \in Keys : CliResetAccount(key) \/ WebResetAccount(key)
             \/ StartWipe \/ WipeAccounts \/ FinishWipe
    BY <1>5 DEF Quiet, MergeAccount, MergeInvestmentAccount, WritePositions,
       UpsertSecurities, ClearSubtree, FinishClear, CliResetAccount, WebResetAccount,
       StartWipe, WipeAccounts, FinishWipe, disk
  <1> QED
    BY <1>1, <1>2, <1>3, <1>4, <1>5, StepCases

LEMMA WriteStepKeeps ==
  ASSUME IInv, ReadInv, WriteStep
  PROVE  ReadInv'
  <1>1. /\ step # "done" /\ [Next]_vars
        /\ disturbed' = (disturbed \/ (step # "idle" /\ (Resetting \/ Resetting')))
        /\ cutShort' = (meta' = Torn /\ (cutShort \/ Resetting))
        /\ UNCHANGED <<op, step, todo, acct, result, outcome, midMerge>>
    BY DEF WriteStep
  <1>2. ReadShape'
    <2>1. disturbed' \in BOOLEAN /\ cutShort' \in BOOLEAN
      BY <1>1
    <2> QED
      BY <1>1, <2>1 DEF ReadInv, ReadShape, ReaderTypeOK, Reading
  <1>3. Noticed'
    <2>1. meta' = Torn => cutShort'
      BY <1>1, TornByReset DEF IInv, ReadInv, Noticed
    <2>2. Reading' /\ Resetting' => disturbed'
      BY <1>1 DEF Reading
    <2> QED
      BY <2>1, <2>2 DEF Noticed
  <1>4. Standing'
    <2>1. SUFFICES ASSUME Reading', ~disturbed' PROVE Standing'
      BY DEF Standing
    <2>2. Reading /\ ~disturbed /\ ~Resetting /\ ~Resetting'
      BY <1>1, <2>1 DEF Reading
    <2>3. /\ \A p \in Paths :
               /\ files[p] # Absent => /\ files'[p] # Absent
                                       /\ files[p].txns \subseteq files'[p].txns
               /\ positions[p] # Absent => positions'[p] # Absent
          /\ securities \subseteq securities'
      BY <1>1, <2>2, GrowsBetween
    <2>4. /\ \A e \in todo : PathOf(e.acct) \in Paths
          /\ step \in {"open account", "open positions"} => PathOf(acct) \in Paths
      BY PathInPaths DEF ReadInv, ReadShape, ReaderTypeOK
    <2>5. \A e \in todo' : Backed(e)'
      BY <1>1, <2>2, <2>3, <2>4 DEF ReadInv, Standing, Backed
    <2>6. step' \in {"find registry", "open registry"} /\ ~midMerge'
            => held' \subseteq securities'
      BY <1>1, <2>2, <2>3 DEF ReadInv, Standing
    <2>7. step' = "open registry" => securities' # {}
      BY <1>1, <2>2, <2>3 DEF ReadInv, Standing
    <2>8. /\ step' = "open account" => files'[PathOf(acct')] # Absent
          /\ step' = "open positions" => positions'[PathOf(acct')] # Absent
      BY <1>1, <2>2, <2>3, <2>4 DEF ReadInv, Standing
    <2> QED
      BY <2>5, <2>6, <2>7, <2>8 DEF Standing
  <1>5. CountedIsRead' /\ PositionsDescribed'
    BY <1>1 DEF ReadInv, CountedIsRead, PositionsDescribed
  <1>6. OnlyResetsBreakReads'
    BY <1>1, <1>2 DEF ReadInv, ReadShape, OnlyResetsBreakReads
  <1> QED
    BY <1>2, <1>3, <1>4, <1>5, <1>6 DEF ReadInv

-----------------------------------------------------------------------------
(***************************************************************************)
(* The reader.                                                             *)
(***************************************************************************)

\* What none of a read's own steps touches, and what that keeps.
LEMMA DiskStays ==
  ASSUME UNCHANGED vars
  PROVE  /\ UNCHANGED <<files, positions, securities, meta, unsettled, severed>>
         /\ Resetting' = Resetting
         /\ \A e : Backed(e)' = Backed(e)
  BY DEF vars, disk, writer, history, Resetting, Backed

\* Whether a reset is under way is a fact of pc alone.
LEMMA ResettingIsBoolean ==
  ASSUME disturbed' = Resetting PROVE disturbed' \in BOOLEAN
  BY DEF Resetting

\* A read that has just begun has looked at nothing.
LEMMA StartReadKeeps ==
  ASSUME ReadInv, NEW call \in Pages \cup Lists, NEW key \in Keys \cup {Absent},
         call \in Pages => key \in Keys, StartRead(call, key)
  PROVE  ReadInv'
  <1>1. /\ step = "idle" /\ op' = [call |-> call, key |-> key]
        /\ step' \in {"resolve", "meta"} /\ disturbed' = Resetting
        /\ UNCHANGED <<todo, acct, missing, held, described, outcome, midMerge, cutShort>>
        /\ UNCHANGED vars
    BY DEF StartRead
  <1>2. /\ Resetting' = Resetting /\ meta' = meta
        /\ todo' = {} /\ missing' = {}
        /\ described' = Unread /\ outcome' = "none"
    BY <1>1, DiskStays DEF ReadInv, ReadShape
  <1>3. op' \in [call : Pages \cup Lists \cup {"none"}, key : Keys \cup {Absent}]
    BY <1>1
  <1>4. disturbed' \in BOOLEAN
    BY <1>1, ResettingIsBoolean
  <1>5. ReadShape'
    BY <1>1, <1>2, <1>3, <1>4 DEF ReadInv, ReadShape, ReaderTypeOK, Reading
  <1>6. Noticed'
    BY <1>1, <1>2 DEF ReadInv, Noticed
  <1>7. Standing'
    BY <1>1, <1>2 DEF Standing
  <1> QED
    BY <1>2, <1>5, <1>6, <1>7 DEF ReadInv, CountedIsRead, PositionsDescribed, OnlyResetsBreakReads

\* The steps of a read that end it or that go on without having learnt anything
\* of the files: nothing on the disk or in todo is touched.
LEMMA EndKeeps ==
  ASSUME ReadInv, Reading, step' = "done", UNCHANGED vars,
         UNCHANGED <<op, acct, missing, held, disturbed, midMerge, cutShort>>,
         todo' \in SUBSET todo,
         outcome' \in Outcomes,
         described' \in (SUBSET Securities) \cup {Unread},
         outcome' = "FileNotFoundError" => disturbed,
         outcome' = "CacheCorruptError" => disturbed \/ cutShort,
         described' # Unread /\ ~disturbed /\ ~midMerge => held \subseteq described'
  PROVE  ReadInv'
  <1>1. ReadShape'
    BY DEF ReadInv, ReadShape, ReaderTypeOK, Reading
  <1>2. Noticed'
    BY DiskStays DEF ReadInv, Noticed, Reading
  <1>3. Standing'
    BY DEF Standing, Reading
  <1>4. CountedIsRead' /\ PositionsDescribed' /\ OnlyResetsBreakReads'
    BY DEF ReadInv, CountedIsRead, PositionsDescribed, OnlyResetsBreakReads
  <1> QED
    BY <1>1, <1>2, <1>3, <1>4 DEF ReadInv

\* read_meta raises, or names no such account.
LEMMA RaisesKeep ==
  ASSUME ReadInv, IndexRaises \/ AccountMisses
  PROVE  ReadInv'
  <1>1. /\ Reading /\ step' = "done" /\ UNCHANGED vars
        /\ UNCHANGED <<op, acct, missing, held, described, disturbed, midMerge, cutShort, todo>>
        /\ outcome' \in {"CacheEmptyError", "CacheCorruptError", "CacheMissError"}
    BY DEF IndexRaises, AccountMisses, Raise, Return, Reading
  <1>2. described' = Unread
    BY <1>1 DEF ReadInv, ReadShape, Reading
  <1>3. outcome' = "CacheCorruptError" => meta = Torn
    BY DEF IndexRaises, AccountMisses, Raise, Return, ReadMeta
  <1>4. outcome' = "CacheCorruptError" => cutShort
    BY <1>3 DEF ReadInv, Noticed
  <1> QED
    BY <1>1, <1>2, <1>4, EndKeeps DEF Outcomes

\* The file was there when the read looked: an undisturbed read finds it.
LEMMA OpenRaisesKeeps ==
  ASSUME ReadInv, OpenRaises
  PROVE  ReadInv'
  <1>1. /\ Reading /\ step' = "done" /\ UNCHANGED vars
        /\ UNCHANGED <<op, acct, missing, held, described, disturbed, midMerge, cutShort, todo>>
        /\ outcome' = "FileNotFoundError"
    BY DEF OpenRaises, Raise, Return, Reading
  <1>2. described' = Unread
    BY <1>1 DEF ReadInv, ReadShape, Reading
  <1>3. disturbed
    BY <1>1 DEF ReadInv, Standing, OpenRaises
  <1> QED
    BY <1>1, <1>2, <1>3, EndKeeps DEF Outcomes

\* Whatever is read next begins afresh.
LEMMA TakeResultKeeps ==
  ASSUME ReadInv, TakeResult
  PROVE  ReadInv'
  <1>1. /\ op' = NoCall /\ step' = "idle" /\ todo' = {} /\ acct' = Absent
        /\ missing' = {} /\ held' = Unread /\ described' = Unread
        /\ outcome' = "none" /\ disturbed' = FALSE /\ midMerge' = FALSE
        /\ cutShort' = cutShort /\ UNCHANGED vars
    BY DEF TakeResult
  <1>2. op' \in [call : Pages \cup Lists \cup {"none"}, key : Keys \cup {Absent}]
    BY <1>1 DEF NoCall
  <1>3. ReadShape'
    BY <1>1, <1>2 DEF ReadInv, ReadShape, ReaderTypeOK, Reading, Outcomes
  <1>4. Noticed'
    BY <1>1, DiskStays DEF ReadInv, Noticed, Reading
  <1> QED
    BY <1>1, <1>3, <1>4
       DEF ReadInv, Standing, Reading, CountedIsRead, PositionsDescribed, OnlyResetsBreakReads

\* The id is confirmed; nothing has been taken from the index yet.
LEMMA ResolveKeeps ==
  ASSUME ReadInv, ResolveDisplayId
  PROVE  ReadInv'
  <1>1. /\ step = "resolve" /\ step' = "meta" /\ UNCHANGED vars
        /\ UNCHANGED <<op, todo, acct, missing, held, described, outcome, disturbed, midMerge, cutShort>>
    BY DEF ResolveDisplayId, GoTo
  <1>2. ReadShape'
    BY <1>1 DEF ReadInv, ReadShape, ReaderTypeOK, Reading
  <1>3. Noticed'
    BY <1>1, DiskStays DEF ReadInv, Noticed, Reading
  <1>4. Standing'
    BY <1>1, DiskStays DEF ReadInv, Standing, Reading
  <1> QED
    BY <1>1, <1>2, <1>3, <1>4
       DEF ReadInv, CountedIsRead, PositionsDescribed, OnlyResetsBreakReads

(***************************************************************************)
(* A step of a read that leaves it among its files, or ends it with a page:*)
(* what it has to show of the accounts left to load and of what it read.   *)
(***************************************************************************)
LEMMA StepKeeps ==
  ASSUME ReadInv, Reading, UNCHANGED vars, UNCHANGED <<op, cutShort, described>>,
         step' \in {"next", "open account", "find positions", "open positions",
                    "find registry", "open registry", "done"},
         todo' \subseteq [acct : Accounts, covers : SUBSET Txn],
         \A e \in todo' : e.acct.kind = KindOf(op.call),
         step' = "done" => outcome' \in {"page", "CacheMissError"},
         step' # "done" => outcome' = outcome,
         acct' \in Accounts \cup {Absent},
         step' \in {"open account", "find positions", "open positions"} =>
           acct' \in Accounts /\ acct'.kind = KindOf(op.call),
         missing' \subseteq Txn,
         held' \in (SUBSET Securities) \cup {Unread},
         disturbed' \in BOOLEAN, midMerge' \in BOOLEAN, disturbed => disturbed',
         ~disturbed' =>
           /\ missing' = {}
           /\ \A e \in todo' : Backed(e)
           /\ step' = "open account" => files[PathOf(acct')] # Absent
           /\ step' = "open positions" => positions[PathOf(acct')] # Absent
           /\ step' = "open registry" => securities # {}
           /\ step' \in {"find registry", "open registry"} /\ ~midMerge'
                => held' \subseteq securities
  PROVE  ReadInv'
  <1>1. described' = Unread /\ outcome = "none"
    BY DEF ReadInv, ReadShape, Reading
  <1>2. ReaderTypeOK'
    BY <1>1 DEF ReadInv, ReadShape, ReaderTypeOK, Outcomes
  <1>3. ReadShape'
    BY <1>1, <1>2 DEF ReadInv, ReadShape, Reading
  <1>4. Noticed'
    <2>1. Resetting' = Resetting /\ meta' = meta
      BY DiskStays
    <2> QED
      BY <2>1 DEF ReadInv, Noticed
  <1>5. Standing'
    BY DiskStays DEF Standing
  <1>6. CountedIsRead' /\ PositionsDescribed' /\ OnlyResetsBreakReads'
    BY <1>1 DEF CountedIsRead, PositionsDescribed, OnlyResetsBreakReads
  <1> QED
    BY <1>3, <1>4, <1>5, <1>6 DEF ReadInv

\* After an account: the next of what is left, or the registry, or the page.
LEMMA GoOnTo ==
  ASSUME NEW left, GoOnWith(left)
  PROVE  /\ todo' = left
         /\ \/ step' = "next" /\ outcome' = outcome
            \/ /\ left = {} /\ op.call = "investment page"
               /\ step' = "find registry" /\ outcome' = outcome
            \/ /\ left = {} /\ step' = "done" /\ outcome' = "page"
  BY DEF GoOnWith, GoTo, Return

\* Every entry of the index names a file that has what it counts, those whose
\* file a reset unlinked excepted.
LEMMA ReadIndexKeeps ==
  ASSUME IInv, ReadInv, ReadIndex
  PROVE  ReadInv'
  <1> DEFINE left == {[acct |-> Entries[key].acct, covers |-> Entries[key].covers] :
                         key \in Wanted}
  <1>1. /\ step = "meta" /\ HasIndex /\ (op.call \in Pages => Wanted # {})
        /\ GoOnWith(left)
        /\ UNCHANGED vars /\ UNCHANGED <<op, acct, missing, held, described, midMerge, cutShort>>
    BY DEF ReadIndex, ReadMeta, HasIndex
  <1>2. disturbed' = (disturbed \/ Wanted \cap severed # {})
    BY DEF ReadIndex
  <1>3. ASSUME NEW key \in Wanted
        PROVE  /\ Entries[key] \in Entry /\ Entries[key].acct \in Accounts
               /\ Entries[key].covers \subseteq Txn
               /\ Entries[key].acct.kind = KindOf(op.call)
               /\ key \notin severed => SoundEntry(Entries[key])
    <2>1. key \in Keys /\ key[1] = KindOf(op.call) /\ Entries[key] # Absent
      BY DEF Wanted
    <2>2. Entries[key] \in Entry /\ Entries[key].acct \in Accounts
      BY <1>1, <2>1, IndexType DEF IInv, Shape
    <2>3. KeyOf(Entries[key].acct) = key
      BY <1>1, <2>1 DEF IInv, IndexInv, Keyed, Entries
    <2>4. Entries[key].acct.kind = key[1]
      BY <2>2, <2>3, PathInPaths
    <2>5. key \notin severed => SoundEntry(Entries[key])
      BY <1>1, <2>1 DEF IInv, IndexInv, SoundIndex, Entries
    <2> QED
      BY <2>1, <2>2, <2>4, <2>5 DEF Entry
  <1>4. left \subseteq [acct : Accounts, covers : SUBSET Txn]
    BY <1>3
  <1>5. \A e \in left : e.acct.kind = KindOf(op.call)
    BY <1>3
  <1>6. ~disturbed' => \A e \in left : Backed(e)
    <2> SUFFICES ASSUME ~disturbed', NEW key \in Wanted
                 PROVE  /\ files[PathOf(Entries[key].acct)] # Absent
                        /\ Entries[key].covers \subseteq files[PathOf(Entries[key].acct)].txns
      BY DEF Backed
    <2>1. key \notin severed
      BY <1>2
    <2> QED
      BY <1>3, <2>1 DEF SoundEntry
  <1>7. left = {} => op.call \notin Pages
    BY <1>1
  <1>8. ~disturbed' => missing' = {}
    BY <1>1, <1>2 DEF ReadInv, CountedIsRead
  <1> HIDE DEF left
  <1>9. /\ todo' = left
        /\ \/ step' = "next" /\ outcome' = outcome
           \/ step' = "done" /\ outcome' = "page"
    BY <1>1, <1>7, GoOnTo
  <1>10. Reading /\ disturbed' \in BOOLEAN /\ (disturbed => disturbed')
    BY <1>1, <1>2 DEF Reading
  <1>11. /\ acct' \in Accounts \cup {Absent} /\ missing' \subseteq Txn
         /\ held' \in (SUBSET Securities) \cup {Unread} /\ midMerge' \in BOOLEAN
    BY <1>1 DEF ReadInv, ReadShape, ReaderTypeOK
  <1> QED
    BY <1>1, <1>4, <1>5, <1>6, <1>8, <1>9, <1>10, <1>11, StepKeeps

\* What the variables of a read are, as StepKeeps asks for it.
LEMMA ReadTypes ==
  ASSUME ReadInv
  PROVE  /\ acct \in Accounts \cup {Absent} /\ missing \subseteq Txn
         /\ held \in (SUBSET Securities) \cup {Unread}
         /\ disturbed \in BOOLEAN /\ midMerge \in BOOLEAN
         /\ todo \subseteq [acct : Accounts, covers : SUBSET Txn]
         /\ \A e \in todo : e.acct.kind = KindOf(op.call)
         /\ step \in {"open account", "find positions", "open positions"} =>
              acct \in Accounts /\ acct.kind = KindOf(op.call)
         /\ ~disturbed => missing = {}
         /\ Reading /\ ~disturbed => \A e \in todo : Backed(e)
  BY DEF ReadInv, ReadShape, ReaderTypeOK, CountedIsRead, Standing

LEMMA FindAccountFileKeeps ==
  ASSUME ReadInv, FindAccountFile
  PROVE  ReadInv'
  <1>1. PICK e \in todo :
          \/ /\ files[PathOf(e.acct)] # Absent
             /\ acct' = e.acct /\ step' = "open account"
             /\ outcome' = outcome /\ todo' = todo
          \/ /\ acct' = acct /\ op.call \in Lists /\ GoOnWith(todo \ {e})
          \/ /\ acct' = acct /\ step' = "done" /\ outcome' = "CacheMissError"
             /\ todo' = todo
    BY DEF FindAccountFile, GoTo, Return
  <1>2. /\ step = "next" /\ Reading /\ UNCHANGED vars
        /\ UNCHANGED <<op, missing, held, described, disturbed, midMerge, cutShort>>
    BY DEF FindAccountFile, Reading
  <1>3. CASE /\ files[PathOf(e.acct)] # Absent
             /\ acct' = e.acct /\ step' = "open account"
             /\ outcome' = outcome /\ todo' = todo
    BY <1>2, <1>3, ReadTypes, StepKeeps
  <1>4. CASE acct' = acct /\ op.call \in Lists /\ GoOnWith(todo \ {e})
    <2>1. /\ todo' = todo \ {e}
          /\ \/ step' = "next" /\ outcome' = outcome
             \/ step' = "done" /\ outcome' = "page"
      BY <1>4, GoOnTo
    <2> QED
      BY <1>2, <1>4, <2>1, ReadTypes, StepKeeps
  <1>5. CASE /\ acct' = acct /\ step' = "done" /\ outcome' = "CacheMissError"
             /\ todo' = todo
    BY <1>2, <1>5, ReadTypes, StepKeeps
  <1> QED
    BY <1>1, <1>3, <1>4, <1>5

\* The file opened holds what the index counted.
LEMMA OpenAccountFileKeeps ==
  ASSUME ReadInv, OpenAccountFile
  PROVE  ReadInv'
  <1> DEFINE loading == {e \in todo : e.acct = acct}
  <1>1. /\ step = "open account" /\ Reading /\ UNCHANGED vars
        /\ UNCHANGED <<op, acct, held, described, disturbed, midMerge, cutShort>>
        /\ missing' = (UNION {e.covers : e \in loading}) \ files[PathOf(acct)].txns
        /\ \/ acct.kind = "accounts" /\ GoOnWith(todo \ loading)
           \/ /\ step' = "find positions" /\ outcome' = outcome
              /\ todo' = todo \ loading
    BY DEF OpenAccountFile, GoTo, Reading
  <1>2. acct \in Accounts /\ acct.kind = KindOf(op.call)
    BY <1>1, ReadTypes
  <1>3. /\ todo' = todo \ loading
        /\ \/ step' \in {"next", "find positions"} /\ outcome' = outcome
           \/ step' = "done" /\ outcome' = "page"
    <2>1. acct.kind = "accounts" => op.call # "investment page"
      BY <1>2 DEF KindOf
    <2> QED
      BY <1>1, <2>1, GoOnTo
  <1>4. missing' \subseteq Txn
    <2>1. \A e \in loading : e.covers \subseteq Txn
      BY ReadTypes
    <2> QED
      BY <1>1, <2>1
  <1>5. ~disturbed => missing' = {}
    BY <1>1, ReadTypes DEF Backed
  <1>6. todo \ loading \subseteq todo
    OBVIOUS
  <1> HIDE DEF loading
  <1> QED
    BY <1>1, <1>2, <1>3, <1>4, <1>5, <1>6, ReadTypes, StepKeeps

LEMMA FindPositionsKeeps ==
  ASSUME ReadInv, FindPositions
  PROVE  ReadInv'
  <1>1. /\ step = "find positions" /\ Reading /\ UNCHANGED vars
        /\ UNCHANGED <<op, acct, missing, described, disturbed, midMerge, cutShort>>
        /\ \/ /\ positions[PathOf(acct)] # Absent
              /\ step' = "open positions" /\ outcome' = outcome
              /\ UNCHANGED <<todo, held>>
           \/ held' = {} /\ GoOnWith(todo)
    BY DEF FindPositions, GoTo, Reading
  <1>2. CASE /\ positions[PathOf(acct)] # Absent
             /\ step' = "open positions" /\ outcome' = outcome
             /\ UNCHANGED <<todo, held>>
    BY <1>1, <1>2, ReadTypes, StepKeeps
  <1>3. CASE held' = {} /\ GoOnWith(todo)
    <2>1. /\ todo' = todo
          /\ \/ step' \in {"next", "find registry"} /\ outcome' = outcome
             \/ step' = "done" /\ outcome' = "page"
      BY <1>3, GoOnTo
    <2> QED
      BY <1>1, <1>3, <2>1, ReadTypes, StepKeeps
  <1> QED
    BY <1>1, <1>2, <1>3

\* The registry is ahead of the positions of every path that no merge has open.
LEMMA OpenPositionsKeeps ==
  ASSUME IInv, ReadInv, OpenPositions
  PROVE  ReadInv'
  <1>1. /\ step = "open positions" /\ Reading /\ UNCHANGED vars
        /\ UNCHANGED <<op, acct, missing, described, disturbed, cutShort>>
        /\ held' = Held(PathOf(acct)) /\ GoOnWith(todo)
    BY DEF OpenPositions, Reading
  <1>2. acct \in Accounts /\ PathOf(acct) \in Paths
    BY <1>1, ReadTypes, PathInPaths
  <1>3. held' \subseteq Securities
    BY <1>1, <1>2, StoredType DEF IInv, Shape
  <1>4. midMerge' \in BOOLEAN /\ (~midMerge' => held' \subseteq securities)
    <2>1. midMerge' = (PathOf(acct) \in unsettled)
      BY DEF OpenPositions
    <2>2. midMerge' \in BOOLEAN
      BY ONLY <2>1
    <2> QED
      BY <1>1, <1>2, <2>1, <2>2 DEF IInv, RegistryCoversPositions
  <1>5. /\ todo' = todo
        /\ \/ step' \in {"next", "find registry"} /\ outcome' = outcome
           \/ step' = "done" /\ outcome' = "page"
    BY <1>1, GoOnTo
  <1> QED
    BY <1>1, <1>2, <1>3, <1>4, <1>5, ReadTypes, StepKeeps

LEMMA FindRegistryKeeps ==
  ASSUME ReadInv, FindRegistry
  PROVE  ReadInv'
  <1>1. /\ step = "find registry" /\ Reading /\ UNCHANGED vars
        /\ UNCHANGED <<op, todo, acct, missing, held, disturbed, midMerge, cutShort>>
    BY DEF FindRegistry, Reading
  <1>2. CASE securities # {}
    <2>1. step' = "open registry" /\ outcome' = outcome /\ described' = described
      BY <1>2 DEF FindRegistry, GoTo
    <2>2. ~disturbed /\ ~midMerge => held \subseteq securities
      BY <1>1 DEF ReadInv, Standing
    <2> QED
      BY <1>1, <1>2, <2>1, <2>2, ReadTypes, StepKeeps
  <1>3. CASE securities = {}
    <2>1. step' = "done" /\ outcome' = "page" /\ described' = {}
      BY <1>3 DEF FindRegistry, Return
    <2>2. ~disturbed /\ ~midMerge => held \subseteq {}
      BY <1>1, <1>3 DEF ReadInv, Standing
    <2> QED
      BY <1>1, <2>1, <2>2, EndKeeps DEF Outcomes
  <1> QED
    BY <1>2, <1>3

LEMMA OpenRegistryKeeps ==
  ASSUME IInv, ReadInv, OpenRegistry
  PROVE  ReadInv'
  <1>1. /\ step = "open registry" /\ Reading /\ UNCHANGED vars
        /\ UNCHANGED <<op, todo, acct, missing, held, disturbed, midMerge, cutShort>>
        /\ step' = "done" /\ outcome' = "page"
        /\ described' = IF held = {} THEN securities ELSE securities \cap held
    BY DEF OpenRegistry, Return, Reading
  <1>2. described' \subseteq Securities
    BY <1>1 DEF IInv, Shape, TypeOK
  <1>3. ~disturbed /\ ~midMerge => held \subseteq described'
    <2>1. ~disturbed /\ ~midMerge => held \subseteq securities
      BY <1>1 DEF ReadInv, Standing
    <2> QED
      BY <1>1, <2>1
  <1> QED
    BY <1>1, <1>2, <1>3, EndKeeps DEF Outcomes

-----------------------------------------------------------------------------
(***************************************************************************)
(* The theorems.                                                           *)
(***************************************************************************)

\* A step is a step of the writer, or changes none of its variables.
LEMMA WriterStep ==
  ASSUME [ReaderNext]_<<vars, reader>>
  PROVE  [Next]_vars
  <1>1. ReadStep => UNCHANGED vars
    BY DEF ReadStep, IndexRaises, AccountMisses, Raise, ResolveDisplayId, ReadIndex,
       FindAccountFile, OpenAccountFile, FindPositions, OpenPositions, FindRegistry,
       OpenRegistry, OpenRaises, TakeResult
  <1> QED
    BY <1>1 DEF ReaderNext, StartRead, WriteStep

\* Readers take no lock and leave no trace (ADR 06): whatever they do, the writer
\* runs as if they were not there, so all its theorems hold beside them.
THEOREM WriterGoesOn == ReaderSpec => Spec
  <1>1. ReaderInit => Init
    BY DEF ReaderInit
  <1>2. [ReaderNext]_<<vars, reader>> => [Next]_vars
    BY WriterStep
  <1> QED
    BY <1>1, <1>2, PTL DEF ReaderSpec, Spec

\* Nothing is being read, and no reset is under way.
LEMMA ReadInvInit == ReaderInit => ReadInv
  <1> SUFFICES ASSUME ReaderInit PROVE ReadInv
    OBVIOUS
  <1>1. ReaderTypeOK
    BY DEF ReaderInit, ReaderTypeOK, NoCall, Outcomes
  <1>2. ReadShape
    BY <1>1 DEF ReaderInit, ReadShape, Reading
  <1>3. Noticed
    BY StorageAssumption DEF ReaderInit, Init, Noticed, Reading
  <1> QED
    BY <1>2, <1>3 DEF ReaderInit, ReadInv, Standing, Reading, CountedIsRead,
       PositionsDescribed, OnlyResetsBreakReads

\* Every step of a read, and every step of the writer beside it.
LEMMA ReadInvNext == IInv /\ ReadInv /\ [ReaderNext]_<<vars, reader>> => ReadInv'
  <1> SUFFICES ASSUME IInv, ReadInv, [ReaderNext]_<<vars, reader>> PROVE ReadInv'
    OBVIOUS
  <1>1. ASSUME NEW call \in Pages, NEW key \in Keys, StartRead(call, key) PROVE ReadInv'
    BY <1>1, StartReadKeeps
  <1>2. ASSUME NEW call \in Lists, StartRead(call, Absent) PROVE ReadInv'
    BY <1>2, StartReadKeeps
  <1>3. ReadStep => ReadInv'
    BY RaisesKeep, ResolveKeeps, ReadIndexKeeps, FindAccountFileKeeps,
       OpenAccountFileKeeps, FindPositionsKeeps, OpenPositionsKeeps,
       FindRegistryKeeps, OpenRegistryKeeps, OpenRaisesKeeps, TakeResultKeeps
       DEF ReadStep
  <1>4. WriteStep => ReadInv'
    BY WriteStepKeeps
  <1>5. CASE UNCHANGED <<vars, reader>>
    <2>1. UNCHANGED vars /\ UNCHANGED reader
      BY <1>5
    <2>2. UNCHANGED <<op, step, todo, acct, missing, held, described, outcome,
                      disturbed, midMerge, cutShort>>
      BY <2>1
    <2>3. ReaderTypeOK'
      <3>1. ReaderTypeOK
        BY DEF ReadInv, ReadShape
      <3>2. disturbed' \in BOOLEAN /\ midMerge' \in BOOLEAN /\ cutShort' \in BOOLEAN
        BY <2>2, <3>1 DEF ReaderTypeOK
      <3> QED
        BY <2>2, <3>1, <3>2 DEF ReaderTypeOK
    <2>4. ReadShape'
      BY <2>2, <2>3 DEF ReadInv, ReadShape, Reading
    <2>5. CountedIsRead' /\ PositionsDescribed' /\ OnlyResetsBreakReads'
      BY <2>2 DEF ReadInv, CountedIsRead, PositionsDescribed, OnlyResetsBreakReads
    <2>6. Reading' = Reading
      BY <2>2 DEF Reading
    <2>7. Resetting' = Resetting /\ meta' = meta
      BY <2>1, DiskStays
    <2>8. Noticed'
      BY <2>2, <2>6, <2>7 DEF ReadInv, Noticed
    <2>9. Standing'
      <3>1. /\ UNCHANGED <<files, positions, securities>>
            /\ \A e : Backed(e)' = Backed(e)
        BY <2>1, DiskStays
      <3>2. SUFFICES ASSUME Reading', ~disturbed' PROVE Standing'
        BY DEF Standing
      <3>3. Standing /\ Reading /\ ~disturbed
        BY <2>2, <2>6, <3>2 DEF ReadInv
      <3>4. /\ \A e \in todo' : Backed(e)'
            /\ step' = "open account" => files'[PathOf(acct')] # Absent
            /\ step' = "open positions" => positions'[PathOf(acct')] # Absent
        BY <2>2, <3>1, <3>3 DEF Standing
      <3>5. /\ step' = "open registry" => securities' # {}
            /\ step' \in {"find registry", "open registry"} /\ ~midMerge'
                 => held' \subseteq securities'
        BY <2>2, <3>1, <3>3 DEF Standing
      <3> QED
        BY <3>4, <3>5 DEF Standing
    <2> QED
      BY <2>4, <2>5, <2>8, <2>9 DEF ReadInv
  <1> QED
    BY <1>1, <1>2, <1>3, <1>4, <1>5 DEF ReaderNext

\* What a read relies on, in every state of every interleaving.
LEMMA ReadInvariance == ReaderSpec => []ReadInv
  <1>1. ReaderSpec => []IInv
    BY WriterGoesOn, Invariance, PTL
  <1> QED
    BY <1>1, ReadInvInit, ReadInvNext, PTL DEF ReaderSpec

\* Where a read stands and what it holds have the form the next access expects.
THEOREM ReaderTypeCorrect == ReaderSpec => []ReaderTypeOK
  <1>1. ReadInv => ReaderTypeOK
    BY DEF ReadInv, ReadShape
  <1> QED
    BY <1>1, ReadInvariance, PTL

\* meta.json last: a file opened by way of the index has every transaction that
\* the index counted, whatever was merged in between, or where it was cut short.
THEOREM CountedIsAlwaysRead == ReaderSpec => []CountedIsRead
  <1>1. ReadInv => CountedIsRead
    BY DEF ReadInv
  <1> QED
    BY <1>1, ReadInvariance, PTL

\* The registry before meta.json: a page of an investment account describes
\* every settled position on it.
THEOREM PagesDescribeTheirPositions == ReaderSpec => []PositionsDescribed
  <1>1. ReadInv => PositionsDescribed
    BY DEF ReadInv
  <1> QED
    BY <1>1, ReadInvariance, PTL

\* No merge, finished or not, makes a read fail; only a reset can.
THEOREM MergesNeverBreakReads == ReaderSpec => []OnlyResetsBreakReads
  <1>1. ReadInv => OnlyResetsBreakReads
    BY DEF ReadInv
  <1> QED
    BY <1>1, ReadInvariance, PTL
=============================================================================
