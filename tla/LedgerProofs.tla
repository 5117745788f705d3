----------------------------- MODULE LedgerProofs -----------------------------
(***************************************************************************)
(* FilesystemStorage implements Ledger, for every set of accounts, naming, *)
(* set of chunks and sequence of merges, resets and crashes.  The step     *)
(* simulation rests on the inductive invariant of the storage (an entry is *)
(* published only when the file is written) and on one fact more: the      *)
(* index a per-account reset holds in memory is the one on disk, less some *)
(* entries.                                                                *)
(***************************************************************************)
EXTENDS FilesystemStorageProofs, StorageRefinement

HeldIndex ==
    pc = "pop" =>
      /\ HasIndex
      /\ \A key \in Keys : loaded.entries[key] \in {Entries[key], Absent}

LinkInv == IInv /\ HeldIndex

\* Only the two resets fill it, and only its own next step follows.
LEMMA HeldIndexNext ==
  ASSUME Shape, HeldIndex, [Next]_vars
  PROVE  HeldIndex'
  <1> USE DEF HeldIndex
  <1>1. ASSUME NEW key \in Keys, CliResetAccount(key) \/ WebResetAccount(key)
        PROVE  HeldIndex'
    <2>1. /\ HasIndex /\ meta' = meta
          /\ loaded' = Without(key)
      BY <1>1 DEF CliResetAccount, WebResetAccount
    <2>2. \A other \in Keys :
            Without(key).entries[other] = IF other = key THEN Absent ELSE Entries[other]
      BY <2>1, IndexType DEF Shape, Without, Entries, Index
    <2> QED
      BY <2>1, <2>2 DEF HasIndex, Entries
  <1>2. CASE UNCHANGED vars
    BY <1>2 DEF vars, disk, writer, HasIndex, Entries
  <1>3. ASSUME pc' # "pop" PROVE HeldIndex'
    BY <1>3
  <1>4. CASE \/ \E c \in Chunks : StartMerge(c)
             \/ MergeStep \/ ResetStep \/ Crash \/ StartWipe
             \/ \E s \in SUBSET Kinds : StartClear(s)
    <2>1. pc' # "pop"
      BY <1>4 DEF StartMerge, Proceed, MergeStep, MergeAccount,
         MergeInvestmentAccount, WritePositions, UpsertSecurities, UpdateMeta,
         MergeRaises, EndOperation, ResetStep, ClearSubtree, FinishClear,
         TruncateMeta, RewriteMeta, WipeAccounts, WipeTopLevel, FinishWipe,
         Crash, StartWipe, StartClear, writer
    <2> QED
      BY <2>1, <1>3
  <1>5. CASE \/ ResolveDataDir
             \/ \E b \in Backends : \/ WriteBackendCredential(b)
                                    \/ DeleteBackendCredential(b)
    BY <1>5 DEF ResolveDataDir, WriteBackendCredential, DeleteBackendCredential,
       writer, HasIndex, Entries
  <1> QED
    BY <1>1, <1>2, <1>4, <1>5 DEF Next, Kinds

\* The invariants the simulation rests on, together.
LEMMA LinkInvariance == Spec => []LinkInv
  <1>1. Init => LinkInv
    BY IInvInit DEF LinkInv, HeldIndex, Init
  <1>2. LinkInv /\ [Next]_vars => LinkInv'
    BY IInvNext, HeldIndexNext DEF LinkInv, IInv
  <1> QED
    BY <1>1, <1>2, PTL DEF Spec

-----------------------------------------------------------------------------
(***************************************************************************)
(* What a step of the storage does to books and statements.                *)
(***************************************************************************)

\* A book and what is stored in its file.
LEMMA BookOf ==
  ASSUME Shape, NEW p \in Paths
  PROVE  /\ Book[p] = IF files[p] = Absent THEN Absent ELSE Stored(p)
         /\ files[p] # Absent => Book[p] # Absent
         /\ Promise!Contents(p) = Stored(p)
  <1>1. Book[p] = IF files[p] = Absent THEN Absent ELSE Stored(p)
    BY DEF Book, Stored
  <1>2. Stored(p) # Absent
    BY StoredType, RefinementAssumption DEF Shape
  <1> QED
    BY <1>1, <1>2 DEF Promise!Contents, Stored

\* Outside the rewrite of a reset, the statements are the index on disk.
LEMMA SameStatement ==
  ASSUME pc # "rewrite", pc' # "rewrite", meta' = meta
  PROVE  Statement' = Statement
  BY DEF Statement, IndexInForce, Existing, HasIndex, StatementOf

\* An index that is gone or cut short makes no statement.
LEMMA NoStatement ==
  ASSUME pc # "rewrite", ~HasIndex
  PROVE  \A key \in Keys : Statement[key] = Absent
  BY DEF Statement, IndexInForce, Existing, EmptyIndex, StatementOf

\* The same, in the state after a step.
LEMMA NoStatementAfter ==
  ASSUME pc' # "rewrite", ~HasIndex'
  PROVE  \A key \in Keys : Statement'[key] = Absent
  BY DEF Statement, IndexInForce, Existing, EmptyIndex, StatementOf

-----------------------------------------------------------------------------
(***************************************************************************)
(* The step simulation, one lemma for each kind of step of the ledger.     *)
(***************************************************************************)

\* Merging an account enters its new transactions in its book.
LEMMA MergeEnters ==
  ASSUME LinkInv, [Next]_vars, MergeAccount \/ MergeInvestmentAccount
  PROVE  Promise!Next
  <1>1. Shape /\ Shape'
    BY ShapeNext DEF LinkInv, IInv
  <1>2. PICK p \in Paths :
          /\ Grows
          /\ \A q \in Paths : q # p => files'[q] = files[q]
          /\ files'[p] # Absent
          /\ \A t \in Stored(p)' \ Stored(p) : t.id \notin Ids(Stored(p))
    BY <1>1, AccountWritten
  <1>3. Promise!Contents(p) = Stored(p)
    BY <1>1, BookOf
  <1>4. Book'[p] = Stored(p)'
    BY <1>2 DEF Book, Stored
  <1>5. Book'[p] # Absent
    <2>1. files'[p] \in File
      BY <1>1, <1>2 DEF Shape, TypeOK
    <2>2. Stored(p)' \subseteq Txn
      BY <2>1 DEF Stored, File
    <2> QED
      BY <1>4, <2>2, RefinementAssumption
  <1>6. Stored(p) \subseteq Stored(p)'
    BY <1>2 DEF Grows, Stored
  <1>7. Book' = [Book EXCEPT ![p] = Book'[p]]
    BY <1>2 DEF Book
  <1>8. Statement' = Statement
    BY SameStatement
       DEF MergeAccount, MergeInvestmentAccount, Proceed
  <1>9. acked' = acked
    BY DEF MergeAccount, MergeInvestmentAccount
  <1>10. Promise!Enter(p)
    <2> DEFINE new == Book'[p] \ Promise!Contents(p)
    <2>1. Promise!IdsIn(new) \cap Promise!IdsIn(Promise!Contents(p)) = {}
      BY <1>2, <1>3, <1>4 DEF Promise!IdsIn, Ids
    <2>2. Promise!Contents(p) \cup new = Book'[p]
      BY <1>3, <1>4, <1>6
    <2> HIDE DEF new
    <2>3. Book' = [Book EXCEPT ![p] = Promise!Contents(p) \cup new]
      BY <1>7, <2>2
    <2> QED
      BY <1>5, <1>8, <1>9, <2>1, <2>3 DEF Promise!Enter, new
  <1> QED
    BY <1>10 DEF Promise!Next

\* _update_meta issues statements about whole books, and the chunk is promised.
LEMMA UpdateIssues ==
  ASSUME LinkInv, UpdateMeta
  PROVE  Promise!Next
  <1>1. Shape /\ Progress /\ pc = "meta" /\ pc' = "idle"
    BY DEF LinkInv, IInv, UpdateMeta, EndOperation
  <1>2. chunk \in Chunks
    BY <1>1 DEF Shape, MergePhases
  <1>3. PICK last \in [ChunkKeys -> DOMAIN chunk.items] :
          /\ \A key \in ChunkKeys : IsLastOf(last[key], key)
          /\ meta' = [entries |-> [key \in Keys |->
                                     IF key \in ChunkKeys
                                     THEN Summary(chunk.items[last[key]].acct)
                                     ELSE Existing.entries[key]],
                      conns   |-> Existing.conns \cup chunk.conns]
    BY DEF UpdateMeta
  <1>4. HasIndex'
    <2>2. Existing \in Index
      BY <1>1, IndexType, EmptyIndexType DEF Existing, Shape
    <2>3. \A key \in ChunkKeys : Summary(chunk.items[last[key]].acct) \in Entry
      BY <1>1, <1>2, <1>3, ChunkItems, SummaryType DEF Shape
    <2>4. meta' \in Index
      BY <1>2, <1>3, <2>2, <2>3, ChunkItems DEF Index
    <2> QED
      BY <2>4, StorageAssumption DEF HasIndex
  <1>5. \A key \in Keys :
          Statement'[key] = IF key \in ChunkKeys
                            THEN StatementOf(Summary(chunk.items[last[key]].acct))
                            ELSE Statement[key]
    BY <1>1, <1>3, <1>4 DEF Statement, IndexInForce, Existing, StatementOf
  <1>6. ASSUME NEW key \in Keys, key \in ChunkKeys
        PROVE  \E p \in Paths : Promise!Exact(key, p)
    <2> DEFINE a == chunk.items[last[key]].acct
    <2>1. last[key] \in 1..Len(chunk.items)
      BY <1>2, <1>3, <1>6, ChunkItems
    <2>2. /\ a \in Accounts
          /\ PathOf(a) \in Paths
          /\ files[PathOf(a)] # Absent
      BY <1>1, <2>1, AllMerged
    <2>3. KeyOfPath(PathOf(a)) = key
      BY <1>3, <1>6 DEF IsLastOf, KeyOf, PathOf, KeyOfPath
    <2>4. Summary(a) # Absent
      BY <1>1, <2>2, SummaryType, StorageAssumption DEF Shape
    <2>5. Statement'[key] = [of |-> PathOf(a), covers |-> Stored(PathOf(a))]
      BY <1>5, <1>6, <2>4 DEF StatementOf, Summary
    <2>6. Book[PathOf(a)] = Stored(PathOf(a)) /\ Book[PathOf(a)] # Absent
      BY <1>1, <2>2, BookOf
    <2> HIDE DEF a
    <2>7. Promise!Exact(key, PathOf(a))
      BY <2>3, <2>5, <2>6 DEF Promise!Exact
    <2> QED
      BY <2>2, <2>7
  <1>7. ASSUME NEW x \in acked' \ acked
        PROVE  x[2] \in Promise!IdsIn(Promise!Contents(x[1]))
    <2>1. PICK i \in DOMAIN chunk.items :
            x \in {PathOf(chunk.items[i].acct)} \X Ids(chunk.items[i].txns)
      BY <1>7 DEF UpdateMeta, Delivered
    <2>2. i \in 1..Len(chunk.items)
      BY <1>2, <2>1, ChunkItems
    <2>3. /\ x[1] \in Paths
          /\ x[2] \in Ids(Stored(x[1]))
      BY <1>1, <2>1, <2>2, AllMerged
    <2> QED
      BY <1>1, <2>3, BookOf DEF Promise!IdsIn, Ids
  <1>8. Book' = Book /\ acked \subseteq acked'
    BY DEF UpdateMeta, Book
  <1>9. DOMAIN Statement' = Keys
    BY DEF Statement
  <1>10. Promise!Issue
    BY <1>5, <1>6, <1>7, <1>8, <1>9 DEF Promise!Issue
  <1> QED
    BY <1>10 DEF Promise!Next

\* A file that goes is a book destroyed, of which nothing is promised any more.
LEMMA FileGoes ==
  ASSUME Shape, NEW p \in Paths,
         files' = [files EXCEPT ![p] = Absent],
         acked' = {x \in acked : x[1] # p},
         Statement' = Statement
  PROVE  Promise!Next
  <1>1. Book' = [Book EXCEPT ![p] = Absent]
    BY DEF Book, Shape, TypeOK
  <1>2. Promise!Destroy(p)
    BY <1>1 DEF Promise!Destroy
  <1> QED
    BY <1>2 DEF Promise!Next

\* Statements that are left alone or withdrawn, and books given up as a whole.
LEMMA Withdrawn ==
  ASSUME \A key \in Keys : Statement'[key] \in {Statement[key], Absent},
         acked' \subseteq acked,
         \A x \in acked \ acked' : \A y \in acked' : x[1] # y[1],
         UNCHANGED files
  PROVE  Promise!Next
  <1>1. Book' = Book /\ DOMAIN Statement' = Keys
    BY DEF Book, Statement
  <1> QED
    BY <1>1 DEF Promise!Next, Promise!Withdraw

\* Nothing happens that the ledger knows of.
LEMMA Stutters ==
  ASSUME UNCHANGED <<files, acked>>, Statement' = Statement
  PROVE  UNCHANGED Promise!vars
  BY DEF Promise!vars, Book

\* clear_cache and the wipe remove files whose promises they gave up before.
LEMMA RemovalDestroys ==
  ASSUME LinkInv, ClearSubtree \/ WipeAccounts
  PROVE  Promise!Next \/ UNCHANGED Promise!vars
  <1>1. Shape /\ Waived
    BY DEF LinkInv, IInv
  <1>2. Statement' = Statement
    BY SameStatement DEF ClearSubtree, WipeAccounts, writer
  <1>3. acked' = acked
    BY DEF ClearSubtree, WipeAccounts, history
  <1>4. PICK p \in Paths : RemoveFile(p) /\ (pc = "clear" => p[1] \in scope)
    BY DEF ClearSubtree, WipeAccounts
  <1>5. acked = {x \in acked : x[1] # p}
    BY <1>1, <1>4 DEF Waived, ClearSubtree, WipeAccounts
  <1>6. CASE files' = [files EXCEPT ![p] = Absent]
    BY <1>1, <1>2, <1>3, <1>5, <1>6, FileGoes
  <1>7. CASE UNCHANGED files
    BY <1>2, <1>3, <1>7, Stutters
  <1> QED
    BY <1>4, <1>6, <1>7 DEF RemoveFile

\* Resetting an account destroys its book; the statement stays for the moment.
LEMMA ResetDestroys ==
  ASSUME LinkInv, NEW key \in Keys, CliResetAccount(key) \/ WebResetAccount(key)
  PROVE  Promise!Next \/ UNCHANGED Promise!vars
  <1>1. Shape /\ HasIndex
    BY DEF LinkInv, IInv, CliResetAccount, WebResetAccount
  <1>2. Statement' = Statement
    BY SameStatement DEF CliResetAccount, WebResetAccount
  <1>3. CASE Entries[key] # Absent
    <2>1. PathOf(Entries[key].acct) \in Paths
      BY <1>1, <1>3, IndexType, PathInPaths DEF Shape
    <2>2. UnlinkAccountFile(key)
      BY <1>3 DEF CliResetAccount, WebResetAccount
    <2> QED
      BY <1>1, <1>2, <2>1, <2>2, FileGoes DEF UnlinkAccountFile
  <1>4. CASE Entries[key] = Absent
    BY <1>2, <1>4, Stutters DEF CliResetAccount, WebResetAccount
  <1> QED
    BY <1>3, <1>4

\* Every step at which meta.json goes, is cut short or is given up withdraws.
LEMMA ResetWithdraws ==
  ASSUME LinkInv,
         \/ \E s \in SUBSET Kinds : StartClear(s)
         \/ TruncateMeta \/ StartWipe \/ WipeTopLevel
  PROVE  Promise!Next
  <1>1. CASE \E s \in SUBSET Kinds : StartClear(s)
    <2>1. PICK s \in SUBSET Kinds : StartClear(s)
      BY <1>1
    <2>2. \A key \in Keys : Statement'[key] = Absent
      BY <2>1, NoStatementAfter DEF StartClear, HasIndex
    <2>3. acked' = {x \in acked : x[1][1] \notin s} /\ UNCHANGED files
      BY <2>1 DEF StartClear
    <2> QED
      BY <2>2, <2>3, Withdrawn
  <1>2. CASE TruncateMeta
    <2>1. \A key \in Keys : loaded.entries[key] \in {Entries[key], Absent}
      BY <1>2 DEF LinkInv, HeldIndex, TruncateMeta
    <2>2. HasIndex /\ pc = "pop" /\ pc' = "rewrite" /\ loaded' = loaded
      BY <1>2 DEF LinkInv, HeldIndex, TruncateMeta
    <2>3. \A key \in Keys : /\ Statement[key] = StatementOf(Entries[key])
                            /\ Statement'[key] = StatementOf(loaded.entries[key])
      BY <2>2 DEF Statement, IndexInForce, Existing, Entries, StatementOf
    <2>4. \A key \in Keys : Statement'[key] \in {Statement[key], Absent}
      BY <2>1, <2>3 DEF StatementOf
    <2>5. acked' = acked /\ UNCHANGED files
      BY <1>2 DEF TruncateMeta, history
    <2> QED
      BY <2>4, <2>5, Withdrawn
  <1>3. CASE StartWipe
    <2>1. Statement' = Statement /\ acked' = {} /\ UNCHANGED files
      BY <1>3, SameStatement DEF StartWipe, disk
    <2> QED
      BY <2>1, Withdrawn
  <1>4. CASE WipeTopLevel
    <2>1. acked' = acked /\ UNCHANGED files /\ pc' = pc /\ pc = "wipe"
      BY <1>4 DEF WipeTopLevel, writer, history
    <2>2. CASE meta' = meta
      BY <2>1, <2>2, SameStatement, Withdrawn
    <2>3. CASE meta' = Absent
      BY <2>1, <2>3, NoStatementAfter, Withdrawn DEF HasIndex
    <2> QED
      BY <1>4, <2>2, <2>3 DEF WipeTopLevel
  <1> QED
    BY <1>1, <1>2, <1>3, <1>4

\* Writing meta.json back is no news: its statements were in force already.
LEMMA RewriteStutters ==
  ASSUME LinkInv, RewriteMeta
  PROVE  UNCHANGED Promise!vars
  <1>1. /\ loaded \in Index
        /\ pc = "rewrite" /\ pc' = "idle" /\ meta' = loaded
        /\ UNCHANGED <<files, acked>>
    BY DEF LinkInv, IInv, Shape, TypeOK, RewriteMeta, EndOperation
  <1>2. HasIndex'
    BY <1>1, StorageAssumption DEF HasIndex
  <1>3. Statement' = Statement
    BY <1>1, <1>2 DEF Statement, IndexInForce, Existing, StatementOf
  <1> QED
    BY <1>1, <1>3, Stutters

\* An operation that starts or ends changes no book; a crash while meta.json
\* is truncated withdraws every statement.
LEMMA QuietWithdraws ==
  ASSUME LinkInv, Quiet
  PROVE  Promise!Next \/ UNCHANGED Promise!vars
  <1>1. Shape /\ UNCHANGED <<files, meta, acked>>
    BY DEF LinkInv, IInv, Quiet, history
  <1>2. CASE UNCHANGED writer
    <2>1. Statement' = Statement
      BY <1>1, <1>2 DEF writer, Statement, IndexInForce, Existing, HasIndex, StatementOf
    <2> QED
      BY <1>1, <2>1, Stutters
  <1>3. CASE pc # "rewrite" /\ pc' # "rewrite"
    BY <1>1, <1>3, SameStatement, Stutters
  <1>4. CASE pc = "rewrite" /\ pc' = "idle"
    <2>1. ~HasIndex'
      BY <1>1, <1>4 DEF Shape, HasIndex
    <2>2. \A key \in Keys : Statement'[key] = Absent
      BY <1>4, <2>1, NoStatementAfter
    <2> QED
      BY <1>1, <2>2, Withdrawn
  <1>5. CASE \E c \in Chunks : StartMerge(c)
    BY <1>3, <1>5 DEF StartMerge, Proceed
  <1> QED
    BY <1>2, <1>3, <1>4, <1>5 DEF Quiet

\* The other writes are below what the ledger tells apart.
LEMMA OthersStutter ==
  ASSUME WritePositions \/ UpsertSecurities \/ FinishClear \/ FinishWipe
  PROVE  UNCHANGED Promise!vars
  <1>1. UNCHANGED <<files, meta, acked>> /\ pc # "rewrite" /\ pc' # "rewrite"
    BY DEF WritePositions, Proceed, UpsertSecurities, FinishClear, FinishWipe,
       EndOperation, history
  <1> QED
    BY <1>1, SameStatement, Stutters

\* Every step of the storage is a step of the ledger, or none.
LEMMA StepImplements == LinkInv /\ [Next]_vars => [Promise!Next]_(Promise!vars)
  <1> SUFFICES ASSUME LinkInv, [Next]_vars
               PROVE  Promise!Next \/ UNCHANGED Promise!vars
    OBVIOUS
  <1> QED
    BY StepCases, MergeEnters, UpdateIssues, RemovalDestroys, ResetDestroys,
       ResetWithdraws, RewriteStutters, QuietWithdraws, OthersStutter

\* An empty directory is an empty ledger.
LEMMA InitImplements == Init => Promise!Init
  <1> SUFFICES ASSUME Init PROVE Promise!Init
    OBVIOUS
  <1>1. Book = [p \in Paths |-> Absent]
    BY DEF Init, Book
  <1>2. Statement = [key \in Keys |-> Absent]
    BY DEF Init, Statement, IndexInForce, Existing, HasIndex, EmptyIndex, StatementOf
  <1> QED
    BY <1>1, <1>2 DEF Init, Promise!Init

(***************************************************************************)
(* The storage keeps the ledger's promises: whatever the accounts, their   *)
(* names, the chunks, the resets and the crashes, its files and its index  *)
(* behave as books that only gain entries or go as a whole, statements     *)
(* that are exact when issued, and promises kept until a reset.            *)
(***************************************************************************)
THEOREM StorageImplementsLedger == Spec => ImplementsLedger
  <1>1. Spec => [][Promise!Next]_(Promise!vars)
    BY LinkInvariance, StepImplements, PTL DEF Spec
  <1>2. Spec => Promise!Init
    BY InitImplements DEF Spec
  <1> QED
    BY <1>1, <1>2 DEF ImplementsLedger, Promise!Spec
=============================================================================
