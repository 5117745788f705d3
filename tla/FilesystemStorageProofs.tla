----------------------- MODULE FilesystemStorageProofs -----------------------
(***************************************************************************)
(* Theorems about FilesystemStorage, for every set of accounts, every      *)
(* naming of connections and accounts (collisions included), every set of  *)
(* chunks and any number of merges, resets and crashes.                    *)
(*                                                                         *)
(* The inductive invariant is Shape (types, and where the writer stands)   *)
(* together with the parts of IInv.  None of the properties is inductive by *)
(* itself: that an index entry is sound after _update_meta follows from    *)
(* what the merge has already written, which Progress records.             *)
(***************************************************************************)
EXTENDS FilesystemStorage, TLAPS

\* Where the writer stands, and what that says about its volatile state.
Shape ==
    /\ TypeOK
    /\ pc \in MergePhases => chunk \in Chunks
    /\ pc \in {"account", "positions"} => k \in 1..Len(chunk.items)
    /\ pc = "positions" => chunk.items[k].acct.kind = "investment"
    /\ pc \in {"securities", "meta"} => k = Len(chunk.items) + 1
    /\ pc = "clear" => meta = Absent
    /\ pc = "rewrite" => meta = Torn
    /\ \A p \in Paths : p[1] = "accounts" => positions[p] = Absent

\* What a merge has on disk by the time it reaches its next step.
Progress ==
    pc \in MergePhases =>
      /\ \A i \in 1..Len(chunk.items) :
           LET p == PathOf(chunk.items[i].acct)
           IN  /\ i < k \/ (i = k /\ pc = "positions") =>
                    /\ p \in unsettled
                    /\ files[p] # Absent
                    /\ Ids(chunk.items[i].txns) \subseteq Ids(Stored(p))
               /\ i < k => Held(p) \subseteq chunk.secs
      /\ pc = "meta" => chunk.secs \subseteq securities

\* An entry sits at the key of its account: only its own path can disturb it.
Keyed(ix) ==
    \A key \in Keys :
      ix.entries[key] # Absent => KeyOf(ix.entries[key].acct) = key

SoundIndex(ix) ==
    \A key \in Keys \ severed :
      ix.entries[key] # Absent => SoundEntry(ix.entries[key])

\* The index on disk, and the copy that a per-account reset is about to write.
IndexInv ==
    /\ HasIndex => Keyed(meta) /\ SoundIndex(meta)
    /\ pc \in {"pop", "rewrite"} => Keyed(loaded) /\ SoundIndex(loaded)

\* What a reset has given up before it deletes anything.
Waived ==
    /\ pc = "clear" => \A x \in acked : x[1][1] \notin scope
    /\ pc = "wipe" => acked = {} /\ unsettled = Paths /\ severed = Keys

IInv ==
    /\ Shape
    /\ Progress
    /\ IndexInv
    /\ Waived
    /\ AckedKept
    /\ InvestmentIdsUnique
    /\ RegistryCoversPositions

-----------------------------------------------------------------------------

\* The path and the key of an account exist, and carry its kind.
LEMMA PathInPaths ==
  ASSUME NEW a \in Accounts
  PROVE  /\ PathOf(a) \in Paths
         /\ KeyOf(a) \in Keys
         /\ PathOf(a)[1] = a.kind
         /\ KeyOf(a)[1] = a.kind
  BY StorageAssumption DEF PathOf, KeyOf, Paths, Keys, Account

\* Two accounts at one path share their key; the converse fails.
LEMMA PathGivesKey ==
  ASSUME NEW a \in Accounts, NEW b \in Accounts, PathOf(a) = PathOf(b)
  PROVE  KeyOf(a) = KeyOf(b)
  BY StorageAssumption DEF PathOf, KeyOf

\* What the assumption on Chunks says of one chunk.
LEMMA ChunkItems ==
  ASSUME NEW c \in Chunks
  PROVE  /\ c.items \in Seq(Item)
         /\ c.secs \subseteq Securities
         /\ c.conns \subseteq Conns
         /\ DOMAIN c.items = 1..Len(c.items)
         /\ Len(c.items) \in Nat
         /\ \A i \in 1..Len(c.items) :
              /\ c.items[i] \in Item
              /\ c.items[i].acct \in Accounts
              /\ c.items[i].txns \subseteq Txn
              /\ c.items[i].holds \subseteq c.secs
              /\ c.items[i].acct.kind = "accounts" => c.items[i].holds = {}
  <1>1. c.items \in Seq(Item) /\ c.secs \subseteq Securities /\ c.conns \subseteq Conns
    BY StorageAssumption DEF WellFormed
  <1>2. \A i \in 1..Len(c.items) : c.items[i] \in Item
    BY <1>1
  <1> QED
    BY <1>1, <1>2, StorageAssumption DEF WellFormed, Item

\* _fresh_meta is an index.
LEMMA EmptyIndexType == EmptyIndex \in Index
  BY DEF EmptyIndex, Index

\* What is stored at a path are transactions and securities.
LEMMA StoredType ==
  ASSUME TypeOK, NEW p \in Paths
  PROVE  Stored(p) \subseteq Txn /\ Held(p) \subseteq Securities
  BY DEF TypeOK, Stored, Held, File, Snapshot

\* _update_meta writes entries of the right form.
LEMMA SummaryType ==
  ASSUME TypeOK, NEW a \in Accounts
  PROVE  Summary(a) \in Entry
  BY StoredType, PathInPaths DEF Summary, Entry

\* What an index entry on disk is made of.
LEMMA IndexType ==
  ASSUME TypeOK, HasIndex
  PROVE  /\ meta \in Index
         /\ \A key \in Keys :
              Entries[key] # Absent => /\ Entries[key] \in Entry
                                       /\ Entries[key].acct \in Accounts
  BY DEF TypeOK, HasIndex, Index, Entry, Entries

\* The index a per-account reset holds in memory is an index.
LEMMA WithoutType ==
  ASSUME TypeOK, HasIndex, NEW key \in Keys
  PROVE  Without(key) \in Index
  BY IndexType DEF Without, Index

-----------------------------------------------------------------------------
(***************************************************************************)
(* Type correctness.                                                       *)
(***************************************************************************)

\* The empty directory has the right shape.
LEMMA ShapeInit == Init => Shape
  BY EmptyIndexType DEF Init, Shape, TypeOK, MergePhases, Paths

\* _update_meta writes an index, whatever it found.
LEMMA MetaWritten ==
  ASSUME TypeOK, chunk \in Chunks, UpdateMeta
  PROVE  meta' \in Index
  <1>1. PICK last \in [ChunkKeys -> DOMAIN chunk.items] :
          meta' = [entries |-> [key \in Keys |->
                                  IF key \in ChunkKeys
                                  THEN Summary(chunk.items[last[key]].acct)
                                  ELSE Existing.entries[key]],
                   conns   |-> Existing.conns \cup chunk.conns]
    BY DEF UpdateMeta
  <1>2. Existing \in Index
    BY IndexType, EmptyIndexType DEF Existing
  <1>3. \A key \in ChunkKeys : Summary(chunk.items[last[key]].acct) \in Entry
    BY <1>1, ChunkItems, SummaryType
  <1> QED
    BY <1>1, <1>2, <1>3, ChunkItems DEF Index

\* What the writer's progress says after i of the items of c are merged.
LEMMA ProceedShape ==
  ASSUME NEW c \in Chunks, NEW i \in 0..Len(c.items), Proceed(c, i)
  PROVE  /\ k' \in Nat
         /\ pc' \in {"account", "securities", "meta"}
         /\ pc' = "account" => k' \in 1..Len(c.items)
         /\ pc' # "account" => k' = Len(c.items) + 1
  BY ChunkItems DEF Proceed

\* What every operation leaves of the writer's state when it ends.
LEMMA EndShape ==
  ASSUME EndOperation
  PROVE  /\ pc' = "idle" /\ chunk' = NoChunk /\ k' = 0
         /\ loaded' \in Index /\ scope' = {}
  BY EmptyIndexType DEF EndOperation

\* Every step of every operation keeps the shape.
LEMMA ShapeNext == Shape /\ [Next]_vars => Shape'
  <1> SUFFICES ASSUME Shape, [Next]_vars PROVE Shape'
    OBVIOUS
  <1> USE DEF disk, writer, history
  <1>1. ASSUME NEW c \in Chunks, StartMerge(c) PROVE Shape'
    <2>1. 0 \in 0..Len(c.items) /\ Proceed(c, 0)
      BY <1>1, ChunkItems DEF StartMerge
    <2> QED
      BY <1>1, <2>1, ProceedShape DEF StartMerge, Shape, TypeOK, MergePhases
  <1>2. ASSUME pc = "account", NEW kept \in SUBSET chunk.items[k].txns,
               WriteAccountFile(chunk.items[k], kept),
               UNCHANGED <<positions, securities, meta, creds, chunk, loaded,
                           scope, acked, severed>>
        PROVE  /\ root' \in BOOLEAN
               /\ files' \in [Paths -> File \cup {Absent}]
               /\ unsettled' \in SUBSET Paths
    <2>1. /\ chunk.items[k].acct \in Accounts
          /\ chunk.items[k].txns \subseteq Txn
          /\ PathOf(chunk.items[k].acct) \in Paths
      BY <1>2, ChunkItems, PathInPaths DEF Shape, MergePhases
    <2>2. Stored(PathOf(chunk.items[k].acct)) \cup kept \subseteq Txn
      BY <2>1, StoredType DEF Shape
    <2> QED
      BY <1>2, <2>1, <2>2 DEF WriteAccountFile, Shape, TypeOK, File
  <1>3. CASE MergeAccount
    <2>1. Fresh(PathOf(chunk.items[k].acct), chunk.items[k].txns)
            \in SUBSET chunk.items[k].txns
      BY DEF Fresh
    <2>2. /\ root' \in BOOLEAN
          /\ files' \in [Paths -> File \cup {Absent}]
          /\ unsettled' \in SUBSET Paths
      BY <1>2, <1>3, <2>1 DEF MergeAccount
    <2>3. chunk \in Chunks /\ k \in 0..Len(chunk.items) /\ Proceed(chunk, k)
      BY <1>3, ChunkItems DEF MergeAccount, Shape, MergePhases
    <2> QED
      BY <1>3, <2>2, <2>3, ProceedShape DEF MergeAccount, Shape, TypeOK, MergePhases
  <1>4. CASE MergeInvestmentAccount
    <2>1. PICK kept \in OnePerId(Fresh(PathOf(chunk.items[k].acct),
                                       chunk.items[k].txns)) :
            WriteAccountFile(chunk.items[k], kept)
      BY <1>4 DEF MergeInvestmentAccount
    <2>2. kept \in SUBSET chunk.items[k].txns
      BY <2>1 DEF OnePerId, Fresh
    <2>3. /\ root' \in BOOLEAN
          /\ files' \in [Paths -> File \cup {Absent}]
          /\ unsettled' \in SUBSET Paths
      BY <1>2, <1>4, <2>1, <2>2 DEF MergeInvestmentAccount
    <2> QED
      BY <1>4, <2>3 DEF MergeInvestmentAccount, Shape, TypeOK, MergePhases
  <1>5. CASE WritePositions
    <2>1. /\ chunk \in Chunks
          /\ k \in 0..Len(chunk.items)
          /\ Proceed(chunk, k)
          /\ PathOf(chunk.items[k].acct) \in Paths
          /\ PathOf(chunk.items[k].acct)[1] # "accounts"
          /\ chunk.items[k].holds \subseteq Securities
      BY <1>5, ChunkItems, PathInPaths DEF WritePositions, Shape, MergePhases
    <2>2. positions' \in [Paths -> Snapshot \cup {Absent}]
      BY <1>5, <2>1 DEF WritePositions, Shape, TypeOK, Snapshot
    <2> QED
      BY <1>5, <2>1, <2>2, ProceedShape DEF WritePositions, Shape, TypeOK, MergePhases
  <1>6. CASE UpsertSecurities
    BY <1>6, ChunkItems DEF UpsertSecurities, Shape, TypeOK, MergePhases
  <1>7. CASE UpdateMeta
    <2>1. chunk \in Chunks
      BY <1>7 DEF UpdateMeta, Shape, MergePhases
    <2>5. meta' \in Index
      BY <1>7, <2>1, MetaWritten DEF Shape
    <2>6. Delivered \in SUBSET (Paths \X TxnIds)
      BY <2>1, ChunkItems, PathInPaths DEF Delivered, Ids, Txn
    <2> QED
      BY <1>7, <2>5, <2>6, EndShape DEF UpdateMeta, Shape, TypeOK, MergePhases
  <1>8. CASE MergeRaises
    BY <1>8, EndShape DEF MergeRaises, Shape, TypeOK, MergePhases
  <1>9. ASSUME NEW s \in SUBSET Kinds, StartClear(s) PROVE Shape'
    BY <1>9 DEF StartClear, Shape, TypeOK, MergePhases
  <1>10. ASSUME NEW p \in Paths, RemoveFile(p)
         PROVE  /\ files' \in [Paths -> File \cup {Absent}]
                /\ positions' \in [Paths -> Snapshot \cup {Absent}]
                /\ \A q \in Paths : q[1] = "accounts" => positions'[q] = Absent
    BY <1>10 DEF RemoveFile, Shape, TypeOK
  <1>11. CASE ClearSubtree
    BY <1>10, <1>11 DEF ClearSubtree, Shape, TypeOK, MergePhases
  <1>12. CASE FinishClear
    BY <1>12, EndShape DEF FinishClear, Shape, TypeOK, MergePhases
  <1>13. ASSUME NEW key \in Keys, HasIndex, Entries[key] # Absent,
                UnlinkAccountFile(key)
         PROVE  /\ files' \in [Paths -> File \cup {Absent}]
                /\ acked' \in SUBSET (Paths \X TxnIds)
                /\ severed' \in SUBSET Keys
    BY <1>13 DEF UnlinkAccountFile, Shape, TypeOK
  <1>14. ASSUME NEW key \in Keys, CliResetAccount(key) PROVE Shape'
    BY <1>13, <1>14, WithoutType DEF CliResetAccount, Shape, TypeOK, MergePhases
  <1>15. ASSUME NEW key \in Keys, WebResetAccount(key) PROVE Shape'
    BY <1>13, <1>15, WithoutType DEF WebResetAccount, Shape, TypeOK, MergePhases
  <1>16. CASE TruncateMeta
    BY <1>16 DEF TruncateMeta, Shape, TypeOK, MergePhases
  <1>17. CASE RewriteMeta
    BY <1>17, EndShape DEF RewriteMeta, Shape, TypeOK, MergePhases
  <1>18. CASE StartWipe
    BY <1>18 DEF StartWipe, Shape, TypeOK, MergePhases
  <1>19. CASE WipeAccounts
    BY <1>10, <1>19 DEF WipeAccounts, Shape, TypeOK, MergePhases
  <1>20. CASE WipeTopLevel
    BY <1>20 DEF WipeTopLevel, Shape, TypeOK, MergePhases
  <1>21. CASE FinishWipe
    <2>1. root' \in BOOLEAN /\ unsettled' = {} /\ severed' = {}
      BY <1>21 DEF FinishWipe
    <2> QED
      BY <1>21, <2>1, EndShape DEF FinishWipe, Shape, TypeOK, MergePhases
  <1>22. CASE ResolveDataDir
    BY <1>22 DEF ResolveDataDir, Shape, TypeOK, MergePhases
  <1>23. ASSUME NEW b \in Backends, WriteBackendCredential(b) PROVE Shape'
    BY <1>23 DEF WriteBackendCredential, Shape, TypeOK, MergePhases
  <1>24. ASSUME NEW b \in Backends, DeleteBackendCredential(b) PROVE Shape'
    BY <1>24 DEF DeleteBackendCredential, Shape, TypeOK, MergePhases
  <1>25. CASE Crash
    BY <1>25, EndShape DEF Crash, Shape, TypeOK, MergePhases
  <1>26. CASE UNCHANGED vars
    BY <1>26 DEF vars, Shape, TypeOK, MergePhases
  <1> QED
    BY <1>1, <1>3, <1>4, <1>5, <1>6, <1>7, <1>8, <1>9, <1>11, <1>12, <1>14,
       <1>15, <1>16, <1>17, <1>18, <1>19, <1>20, <1>21, <1>22, <1>23, <1>24,
       <1>25, <1>26
       DEF Next, MergeStep, ResetStep, Kinds

\* Every file has the form its readers expect, at every step of every operation.
THEOREM TypeCorrect == Spec => []TypeOK
  <1>1. Spec => []Shape
    BY ShapeInit, ShapeNext, PTL DEF Spec
  <1>2. Shape => TypeOK
    BY DEF Shape
  <1> QED
    BY <1>1, <1>2, PTL

-----------------------------------------------------------------------------
(***************************************************************************)
(* How a step may change the directory.                                    *)
(***************************************************************************)

\* Steps that start or end an operation, or touch only root and creds.
Quiet ==
    /\ UNCHANGED <<files, positions, securities, meta, history>>
    /\ \/ UNCHANGED writer
       \/ pc' = "idle"
       \/ \E c \in Chunks : StartMerge(c)

\* The steps there are, those that touch no data of the cache gathered in Quiet.
LEMMA StepCases ==
  ASSUME [Next]_vars
  PROVE  \/ Quiet
         \/ MergeAccount \/ MergeInvestmentAccount \/ WritePositions
         \/ UpsertSecurities \/ UpdateMeta
         \/ \E s \in SUBSET Kinds : StartClear(s)
         \/ ClearSubtree \/ FinishClear
         \/ \E key \in Keys : CliResetAccount(key) \/ WebResetAccount(key)
         \/ TruncateMeta \/ RewriteMeta
         \/ StartWipe \/ WipeAccounts \/ WipeTopLevel \/ FinishWipe
  <1> USE DEF disk, writer, history
  <1>1. (\E c \in Chunks : StartMerge(c)) => Quiet
    BY DEF StartMerge, Quiet
  <1>2. MergeRaises \/ Crash => Quiet
    BY DEF MergeRaises, Crash, EndOperation, Quiet
  <1>3. ResolveDataDir => Quiet
    BY DEF ResolveDataDir, Quiet
  <1>4. ASSUME NEW b \in Backends,
               WriteBackendCredential(b) \/ DeleteBackendCredential(b)
        PROVE  Quiet
    BY <1>4 DEF WriteBackendCredential, DeleteBackendCredential, Quiet
  <1>5. UNCHANGED vars => Quiet
    BY DEF vars, Quiet
  <1> QED
    BY <1>1, <1>2, <1>3, <1>4, <1>5 DEF Next, MergeStep, ResetStep, Kinds

\* A merge step only adds to the files, and marks the path it touches.
Grows ==
    \A p \in Paths :
      \/ /\ files'[p] = files[p]
         /\ positions'[p] = positions[p]
         /\ p \in unsettled => p \in unsettled'
      \/ /\ p \in unsettled'
         /\ files[p] # Absent =>
              files'[p] # Absent /\ files[p].txns \subseteq files'[p].txns

\* The item a merge is at.
LEMMA CurrentItem ==
  ASSUME Shape, pc \in {"account", "positions"}
  PROVE  /\ chunk \in Chunks
         /\ k \in 1..Len(chunk.items)
         /\ chunk.items[k].acct \in Accounts
         /\ chunk.items[k].txns \subseteq Txn
         /\ chunk.items[k].holds \subseteq chunk.secs
         /\ chunk.items[k].holds \subseteq Securities
         /\ PathOf(chunk.items[k].acct) \in Paths
         /\ PathOf(chunk.items[k].acct)[1] = chunk.items[k].acct.kind
  BY ChunkItems, PathInPaths DEF Shape, MergePhases

(***************************************************************************)
(* The write that both kinds of account make: what it takes in, added to   *)
(* what was stored, leaves every id of the batch in the file.              *)
(***************************************************************************)
LEMMA WriteAccount ==
  ASSUME Shape, pc = "account",
         NEW p \in Paths, p = PathOf(chunk.items[k].acct),
         NEW kept, kept \subseteq Fresh(p, chunk.items[k].txns),
         Ids(kept) = Ids(Fresh(p, chunk.items[k].txns)),
         WriteAccountFile(chunk.items[k], kept),
         UNCHANGED positions
  PROVE  /\ Grows
         /\ \A q \in Paths : q # p => files'[q] = files[q]
         /\ files'[p] # Absent
         /\ Stored(p)' = Stored(p) \cup kept
         /\ Ids(chunk.items[k].txns) \subseteq Ids(Stored(p)')
         /\ unsettled' = unsettled \cup {p}
  <1>1. /\ chunk.items[k].acct \in Accounts
        /\ chunk.items[k].txns \subseteq Txn
    BY CurrentItem
  <1>2. /\ files' = [files EXCEPT ![p] = [txns |-> Stored(p) \cup kept]]
        /\ unsettled' = unsettled \cup {p}
    BY DEF WriteAccountFile
  <1>3. /\ \A q \in Paths : q # p => files'[q] = files[q]
        /\ files'[p] = [txns |-> Stored(p) \cup kept]
    BY <1>2 DEF Shape, TypeOK
  <1>4. files'[p] \in File
    BY <1>1, <1>3, StoredType DEF File, Fresh, Shape
  <1>5. files'[p] # Absent
    BY <1>4, StorageAssumption
  <1>6. Stored(p)' = Stored(p) \cup kept
    BY <1>3, <1>5 DEF Stored
  <1>7. Ids(chunk.items[k].txns) \subseteq Ids(Stored(p)')
    <2>1. \A t \in chunk.items[k].txns :
            t.id \in Ids(Stored(p)) \/ t.id \in Ids(kept)
      BY DEF Fresh, Ids
    <2>2. Ids(Stored(p)) \subseteq Ids(Stored(p)') /\ Ids(kept) \subseteq Ids(Stored(p)')
      BY <1>6 DEF Ids
    <2> QED
      BY <2>1, <2>2 DEF Ids
  <1>8. Grows
    BY <1>2, <1>3, <1>5 DEF Grows, Stored
  <1> QED
    BY <1>2, <1>3, <1>5, <1>6, <1>7, <1>8

(***************************************************************************)
(* What each account-writing action does, in the terms the invariants use. *)
(***************************************************************************)
LEMMA AccountWritten ==
  ASSUME Shape, MergeAccount \/ MergeInvestmentAccount
  PROVE  \E p \in Paths :
           /\ p = PathOf(chunk.items[k].acct)
           /\ Grows
           /\ \A q \in Paths : q # p => files'[q] = files[q]
           /\ files'[p] # Absent
           /\ Ids(chunk.items[k].txns) \subseteq Ids(Stored(p)')
           /\ unsettled' = unsettled \cup {p}
           /\ \A t \in Stored(p)' \ Stored(p) : t.id \notin Ids(Stored(p))
           /\ p[1] = "investment" /\ InvestmentIdsUnique =>
                \A t, u \in Stored(p)' : t.id = u.id => t = u
  <1> DEFINE p == PathOf(chunk.items[k].acct)
             batch == Fresh(p, chunk.items[k].txns)
  <1>1. pc = "account" /\ UNCHANGED positions
    BY DEF MergeAccount, MergeInvestmentAccount
  <1>2. p \in Paths /\ p[1] = chunk.items[k].acct.kind
    BY <1>1, CurrentItem
  <1>3. CASE MergeAccount
    <2>1. WriteAccountFile(chunk.items[k], batch) /\ p[1] # "investment"
      BY <1>2, <1>3 DEF MergeAccount
    <2>2. PICK q \in Paths : q = p
      BY <1>2
    <2>3. /\ batch \subseteq Fresh(q, chunk.items[k].txns)
          /\ Ids(batch) = Ids(Fresh(q, chunk.items[k].txns))
      BY <2>2
    <2>4. /\ Grows
          /\ \A r \in Paths : r # q => files'[r] = files[r]
          /\ files'[q] # Absent
          /\ Stored(q)' = Stored(q) \cup batch
          /\ Ids(chunk.items[k].txns) \subseteq Ids(Stored(q)')
          /\ unsettled' = unsettled \cup {q}
      <3> HIDE DEF p, batch
      <3> QED BY <1>1, <2>1, <2>2, <2>3, WriteAccount DEF p
    <2>5. \A t \in Stored(q)' \ Stored(q) : t.id \notin Ids(Stored(q))
      BY <2>2, <2>4 DEF Fresh
    <2> QED
      BY <2>1, <2>2, <2>4, <2>5
  <1>4. CASE MergeInvestmentAccount
    <2>1. PICK kept \in OnePerId(batch) : WriteAccountFile(chunk.items[k], kept)
      BY <1>4 DEF MergeInvestmentAccount
    <2>2. PICK q \in Paths : q = p
      BY <1>2
    <2>3. /\ kept \subseteq Fresh(q, chunk.items[k].txns)
          /\ Ids(kept) = Ids(Fresh(q, chunk.items[k].txns))
          /\ \A t, u \in kept : t.id = u.id => t = u
      BY <2>1, <2>2 DEF OnePerId
    <2>4. /\ Grows
          /\ \A r \in Paths : r # q => files'[r] = files[r]
          /\ files'[q] # Absent
          /\ Stored(q)' = Stored(q) \cup kept
          /\ Ids(chunk.items[k].txns) \subseteq Ids(Stored(q)')
          /\ unsettled' = unsettled \cup {q}
      <3> HIDE DEF p, batch
      <3> QED BY <1>1, <2>1, <2>2, <2>3, WriteAccount DEF p
    <2>5. ASSUME q[1] = "investment", InvestmentIdsUnique
          PROVE  \A t, u \in Stored(q)' : t.id = u.id => t = u
      <3>1. \A t, u \in Stored(q) : t.id = u.id => t = u
        BY <2>5 DEF InvestmentIdsUnique
      <3>2. \A t \in kept : t.id \notin Ids(Stored(q))
        BY <2>3 DEF Fresh
      <3>3. \A t \in kept, u \in Stored(q) : t.id # u.id
        BY <3>2 DEF Ids
      <3> QED
        BY <2>3, <2>4, <3>1, <3>3
    <2>6. \A t \in Stored(q)' \ Stored(q) : t.id \notin Ids(Stored(q))
      BY <2>3, <2>4 DEF Fresh
    <2> QED
      BY <2>2, <2>4, <2>5, <2>6
  <1> QED
    BY <1>3, <1>4

\* What WritePositions does, in the same terms.
LEMMA PositionsWritten ==
  ASSUME Shape, Progress, WritePositions
  PROVE  \E p \in Paths :
           /\ p = PathOf(chunk.items[k].acct)
           /\ p \in unsettled
           /\ p[1] = "investment"
           /\ Grows
           /\ \A q \in Paths : q # p => Held(q)' = Held(q)
           /\ Held(p)' = chunk.items[k].holds
  <1>1. pc = "positions"
    BY DEF WritePositions
  <1>2. PICK p \in Paths : p = PathOf(chunk.items[k].acct)
    BY <1>1, CurrentItem
  <1>3. p \in unsettled /\ p[1] = "investment"
    BY <1>1, <1>2, CurrentItem DEF Progress, MergePhases, Shape
  <1>4. positions' = [positions EXCEPT ![p] = [held |-> chunk.items[k].holds]]
    BY <1>2 DEF WritePositions
  <1>5. /\ \A q \in Paths : q # p => positions'[q] = positions[q]
        /\ positions'[p] = [held |-> chunk.items[k].holds]
    BY <1>4 DEF Shape, TypeOK
  <1>6. positions'[p] # Absent
    BY <1>1, <1>5, CurrentItem, StorageAssumption DEF Snapshot
  <1>7. Grows
    BY <1>3, <1>5 DEF Grows, WritePositions, history
  <1> QED
    BY <1>2, <1>3, <1>5, <1>6, <1>7 DEF Held

\* One file of the tree goes.
LEMMA FileRemoved ==
  ASSUME Shape, NEW p \in Paths, RemoveFile(p)
  PROVE  /\ \A q \in Paths : q # p => files'[q] = files[q] /\ positions'[q] = positions[q]
         /\ files'[p] \in {files[p], Absent}
         /\ positions'[p] \in {positions[p], Absent}
  BY DEF RemoveFile, Shape, TypeOK

\* When the index is due, every item of the chunk is in the files.
LEMMA AllMerged ==
  ASSUME Shape, Progress, pc = "meta", NEW i \in 1..Len(chunk.items)
  PROVE  /\ chunk.items[i].acct \in Accounts
         /\ PathOf(chunk.items[i].acct) \in Paths
         /\ files[PathOf(chunk.items[i].acct)] # Absent
         /\ Ids(chunk.items[i].txns) \subseteq Ids(Stored(PathOf(chunk.items[i].acct)))
         /\ Held(PathOf(chunk.items[i].acct)) \subseteq securities
  <1>1. chunk \in Chunks /\ k = Len(chunk.items) + 1
    BY DEF Shape, MergePhases
  <1>2. i < k
    BY <1>1, ChunkItems
  <1>3. chunk.secs \subseteq securities
    BY DEF Progress, MergePhases
  <1> QED
    BY <1>1, <1>2, <1>3, ChunkItems, PathInPaths DEF Progress, MergePhases

-----------------------------------------------------------------------------
(***************************************************************************)
(* Acknowledged transactions stay.                                         *)
(***************************************************************************)

\* A step that only adds to files keeps what was acknowledged.
LEMMA GrowsKeepsAcked ==
  ASSUME Shape, AckedKept, Grows, UNCHANGED acked
  PROVE  AckedKept'
  <1> SUFFICES ASSUME NEW x \in acked
               PROVE  files'[x[1]] # Absent /\ x[2] \in Ids(files'[x[1]].txns)
    BY DEF AckedKept
  <1>1. x[1] \in Paths /\ files[x[1]] # Absent /\ x[2] \in Ids(files[x[1]].txns)
    BY DEF AckedKept, Shape, TypeOK
  <1>2. files'[x[1]] # Absent /\ files[x[1]].txns \subseteq files'[x[1]].txns
    BY <1>1 DEF Grows
  <1> QED
    BY <1>1, <1>2 DEF Ids

\* Every step keeps AckedKept: merges add, resets waive before they delete.
LEMMA AckedNext ==
  ASSUME IInv, [Next]_vars
  PROVE  AckedKept'
  <1> USE DEF IInv
  <1>1. CASE MergeAccount \/ MergeInvestmentAccount
    BY <1>1, AccountWritten, GrowsKeepsAcked DEF MergeAccount, MergeInvestmentAccount
  <1>2. CASE WritePositions
    BY <1>2, PositionsWritten, GrowsKeepsAcked DEF WritePositions, history
  <1>3. CASE UpdateMeta
    <2>1. pc = "meta" /\ chunk \in Chunks /\ k = Len(chunk.items) + 1
      BY <1>3 DEF UpdateMeta, Shape, MergePhases
    <2>2. ASSUME NEW x \in Delivered
          PROVE  files[x[1]] # Absent /\ x[2] \in Ids(files[x[1]].txns)
      <3>1. PICK i \in 1..Len(chunk.items) :
              x \in {PathOf(chunk.items[i].acct)} \X Ids(chunk.items[i].txns)
        BY <2>1, ChunkItems DEF Delivered
      <3>2. x[1] = PathOf(chunk.items[i].acct) /\ x[2] \in Ids(chunk.items[i].txns)
        BY <3>1
      <3>3. files[x[1]] # Absent /\ Ids(chunk.items[i].txns) \subseteq Ids(Stored(x[1]))
        BY <2>1, <3>2, ChunkItems, AllMerged
      <3> QED
        BY <3>2, <3>3 DEF Stored
    <2> QED
      BY <1>3, <2>2 DEF UpdateMeta, AckedKept
  <1>4. ASSUME NEW s \in SUBSET Kinds, StartClear(s) PROVE AckedKept'
    BY <1>4 DEF StartClear, AckedKept
  <1>5. CASE ClearSubtree
    <2>1. PICK p \in Paths : p[1] \in scope /\ RemoveFile(p)
      BY <1>5 DEF ClearSubtree
    <2>2. \A x \in acked : x[1] \in Paths /\ x[1] # p
      BY <1>5, <2>1 DEF ClearSubtree, Waived, Shape, TypeOK
    <2> QED
      BY <1>5, <2>1, <2>2, FileRemoved DEF ClearSubtree, history, AckedKept
  <1>6. ASSUME NEW key \in Keys, CliResetAccount(key) \/ WebResetAccount(key)
        PROVE  AckedKept'
    <2>1. CASE UNCHANGED <<files, acked>>
      BY <2>1 DEF AckedKept
    <2>2. CASE UnlinkAccountFile(key)
      <3>1. \A x \in acked : x[1] \in Paths
        BY DEF Shape, TypeOK
      <3>2. \A x \in acked' : x \in acked /\ files'[x[1]] = files[x[1]]
        BY <2>2, <3>1 DEF UnlinkAccountFile, Shape, TypeOK
      <3> QED
        BY <3>2 DEF AckedKept
    <2> QED
      BY <1>6, <2>1, <2>2 DEF CliResetAccount, WebResetAccount
  <1>7. CASE StartWipe \/ WipeAccounts \/ WipeTopLevel \/ FinishWipe
    <2>1. acked' = {}
      BY <1>7 DEF StartWipe, WipeAccounts, WipeTopLevel, FinishWipe, Waived, history
    <2> QED
      BY <2>1 DEF AckedKept
  <1>8. CASE Quiet \/ UpsertSecurities \/ FinishClear \/ TruncateMeta \/ RewriteMeta
    BY <1>8 DEF Quiet, UpsertSecurities, FinishClear, TruncateMeta, RewriteMeta,
                history, AckedKept
  <1> QED
    BY <1>1, <1>2, <1>3, <1>4, <1>5, <1>6, <1>7, <1>8, StepCases

-----------------------------------------------------------------------------
(***************************************************************************)
(* Investment files hold one transaction per id.                           *)
(***************************************************************************)

\* The property asks nothing of cash files, and nothing of missing ones.
LEMMA UniqueNext ==
  ASSUME IInv, [Next]_vars
  PROVE  InvestmentIdsUnique'
  <1> USE DEF IInv
  <1>1. CASE MergeAccount \/ MergeInvestmentAccount
    <2>1. PICK p \in Paths :
            /\ \A q \in Paths : q # p => files'[q] = files[q]
            /\ p[1] = "investment" =>
                 \A t, u \in Stored(p)' : t.id = u.id => t = u
      BY <1>1, AccountWritten
    <2>2. \A q \in Paths : q # p => Stored(q)' = Stored(q)
      BY <2>1 DEF Stored
    <2> QED
      BY <2>1, <2>2 DEF InvestmentIdsUnique
  <1>2. ASSUME \A q \in Paths : files'[q] \in {files[q], Absent}
        PROVE  InvestmentIdsUnique'
    BY <1>2 DEF InvestmentIdsUnique, Stored
  <1>3. CASE ClearSubtree \/ WipeAccounts
    BY <1>2, <1>3, FileRemoved DEF ClearSubtree, WipeAccounts
  <1>4. ASSUME NEW key \in Keys, CliResetAccount(key) \/ WebResetAccount(key)
        PROVE  InvestmentIdsUnique'
    BY <1>2, <1>4 DEF CliResetAccount, WebResetAccount, UnlinkAccountFile,
                      Shape, TypeOK
  <1>5. ASSUME UNCHANGED files PROVE InvestmentIdsUnique'
    BY <1>5 DEF InvestmentIdsUnique, Stored
  <1>6. ASSUME NEW s \in SUBSET Kinds, StartClear(s) PROVE InvestmentIdsUnique'
    BY <1>5, <1>6 DEF StartClear
  <1>7. CASE \/ Quiet \/ WritePositions \/ UpsertSecurities \/ UpdateMeta
             \/ FinishClear \/ TruncateMeta \/ RewriteMeta
             \/ StartWipe \/ WipeTopLevel \/ FinishWipe
    BY <1>5, <1>7 DEF Quiet, WritePositions, UpsertSecurities, UpdateMeta,
         FinishClear, TruncateMeta, RewriteMeta, StartWipe, WipeTopLevel,
         FinishWipe, disk
  <1> QED
    BY <1>1, <1>3, <1>4, <1>6, <1>7, StepCases

-----------------------------------------------------------------------------
(***************************************************************************)
(* The registry covers every settled position.                             *)
(***************************************************************************)

\* Only investment accounts have a positions file.
LEMMA CashHoldsNothing ==
  ASSUME Shape, NEW p \in Paths, p[1] # "investment"
  PROVE  Held(p) = {}
  BY DEF Shape, Held, Paths, Kinds

\* Every step keeps the registry ahead of the settled positions.
LEMMA RegistryNext ==
  ASSUME IInv, [Next]_vars
  PROVE  RegistryCoversPositions'
  <1> USE DEF IInv
  <1>1. ASSUME /\ \A p \in Paths : positions'[p] \in {positions[p], Absent}
               /\ securities \subseteq securities'
               /\ unsettled \subseteq unsettled'
        PROVE  RegistryCoversPositions'
    BY <1>1 DEF RegistryCoversPositions, Held
  <1>2. CASE MergeAccount \/ MergeInvestmentAccount
    BY <1>1, <1>2 DEF MergeAccount, MergeInvestmentAccount, WriteAccountFile
  <1>3. CASE WritePositions
    <2>1. PICK p \in Paths :
            p \in unsettled /\ \A q \in Paths : q # p => Held(q)' = Held(q)
      BY <1>3, PositionsWritten
    <2> QED
      BY <1>3, <2>1 DEF RegistryCoversPositions, WritePositions, history
  <1>4. CASE UpdateMeta
    <2>1. pc = "meta" /\ chunk \in Chunks
      BY <1>4 DEF UpdateMeta, Shape, MergePhases
    <2>2. \A p \in ChunkPaths : Held(p) \subseteq securities
      BY <2>1, ChunkItems, AllMerged DEF ChunkPaths
    <2>3. \A p \in Paths : Held(p)' = Held(p)
      BY <1>4 DEF UpdateMeta, Held
    <2> QED
      BY <1>4, <2>2, <2>3 DEF UpdateMeta, RegistryCoversPositions
  <1>5. CASE ClearSubtree \/ WipeAccounts
    BY <1>1, <1>5, FileRemoved DEF ClearSubtree, WipeAccounts, history
  <1>6. CASE FinishClear
    <2>1. CASE "investment" \in scope
      <3>1. \A p \in Paths : Held(p)' = {}
        BY <1>6, <2>1, CashHoldsNothing DEF FinishClear, Emptied, Held
      <3> QED
        BY <3>1 DEF RegistryCoversPositions
    <2> QED
      BY <1>1, <1>6, <2>1 DEF FinishClear, history
  <1>7. CASE WipeTopLevel
    BY <1>7 DEF WipeTopLevel, Waived, history, RegistryCoversPositions
  <1>8. CASE FinishWipe
    <2>1. \A p \in Paths : Held(p)' = {}
      BY <1>8 DEF FinishWipe, Emptied, Held, Paths
    <2> QED
      BY <2>1 DEF RegistryCoversPositions
  <1>9. ASSUME NEW s \in SUBSET Kinds, StartClear(s)
        PROVE  RegistryCoversPositions'
    BY <1>1, <1>9 DEF StartClear
  <1>10. ASSUME NEW key \in Keys, CliResetAccount(key) \/ WebResetAccount(key)
         PROVE  RegistryCoversPositions'
    BY <1>1, <1>10 DEF CliResetAccount, WebResetAccount
  <1>11. CASE Quiet \/ UpsertSecurities \/ TruncateMeta \/ RewriteMeta \/ StartWipe
    <2>1. unsettled \subseteq unsettled'
      BY <1>11 DEF Quiet, UpsertSecurities, TruncateMeta, RewriteMeta, StartWipe,
                   history, Shape, TypeOK
    <2> QED
      BY <1>1, <1>11, <2>1 DEF Quiet, UpsertSecurities, TruncateMeta, RewriteMeta,
                               StartWipe, disk
  <1> QED
    BY <1>2, <1>3, <1>4, <1>5, <1>6, <1>7, <1>8, <1>9, <1>10, <1>11, StepCases

-----------------------------------------------------------------------------
(***************************************************************************)
(* Progress: what has been merged stays merged while the merge goes on.    *)
(***************************************************************************)

\* What Progress says of the item i once it is merged.
Merged(i) ==
    LET p == PathOf(chunk.items[i].acct)
    IN  /\ p \in unsettled
        /\ files[p] # Absent
        /\ Ids(chunk.items[i].txns) \subseteq Ids(Stored(p))

\* What a merge has written of an item stays while files only grow.
LEMMA GrowsKeepsMerged ==
  ASSUME chunk \in Chunks, Grows, UNCHANGED chunk,
         NEW i \in 1..Len(chunk.items), Merged(i)
  PROVE  Merged(i)'
  <1>1. PICK p \in Paths : p = PathOf(chunk.items[i].acct)
    BY ChunkItems, PathInPaths
  <1>2. files'[p] # Absent /\ p \in unsettled' /\ files[p].txns \subseteq files'[p].txns
    BY <1>1 DEF Grows, Merged
  <1>3. Stored(p) \subseteq Stored(p)'
    BY <1>1, <1>2 DEF Merged, Stored
  <1>4. Ids(Stored(p)) \subseteq Ids(Stored(p)')
    BY <1>3 DEF Ids
  <1> QED
    BY <1>1, <1>2, <1>4 DEF Merged

\* Every step of a merge establishes what the next one relies on.
LEMMA ProgressNext ==
  ASSUME IInv, [Next]_vars
  PROVE  Progress'
  <1> USE DEF IInv
  <1>1. ASSUME UNCHANGED <<files, positions, unsettled, securities>>, UNCHANGED writer
        PROVE  Progress'
    BY <1>1 DEF Progress, writer, Stored, Held
  <1>2. ASSUME pc' \notin MergePhases PROVE Progress'
    BY <1>2 DEF Progress, MergePhases
  <1>3. ASSUME NEW c \in Chunks, StartMerge(c) PROVE Progress'
    <2>1. /\ chunk' = c /\ k' = 1 /\ pc' # "positions"
          /\ pc' = "meta" => c.secs = {}
      BY <1>3 DEF StartMerge, Proceed
    <2> QED
      BY <2>1, ChunkItems DEF Progress
  <1>4. CASE MergeAccount \/ MergeInvestmentAccount
    <2>1. /\ pc = "account" /\ chunk' = chunk /\ chunk \in Chunks
          /\ k \in 1..Len(chunk.items) /\ Len(chunk.items) \in Nat
          /\ UNCHANGED <<positions, securities>>
      BY <1>4, CurrentItem, ChunkItems DEF MergeAccount, MergeInvestmentAccount
    <2>2. PICK p \in Paths :
            /\ p = PathOf(chunk.items[k].acct)
            /\ Grows
            /\ files'[p] # Absent
            /\ Ids(chunk.items[k].txns) \subseteq Ids(Stored(p)')
            /\ unsettled' = unsettled \cup {p}
      BY <1>4, AccountWritten
    <2>3. ASSUME NEW i \in 1..Len(chunk.items), i <= k
          PROVE  Merged(i)'
      <3>1. CASE i = k
        <4>1. /\ p = PathOf(chunk'.items[i].acct)
              /\ Ids(chunk'.items[i].txns) \subseteq Ids(Stored(p)')
          BY <2>1, <2>2, <3>1
        <4> QED
          BY <2>2, <4>1 DEF Merged
      <3>2. CASE i < k
        BY <2>1, <2>2, <3>2, GrowsKeepsMerged DEF Progress, Merged, MergePhases
      <3> QED
        BY <2>1, <2>3, <3>1, <3>2
    <2>4. ASSUME NEW i \in 1..Len(chunk.items), i < k
          PROVE  Held(PathOf(chunk.items[i].acct)) \subseteq chunk.secs
      BY <2>1, <2>4 DEF Progress, MergePhases
    <2>5. CASE MergeAccount
      <3>1. chunk.items[k].acct.kind = "accounts" /\ p[1] # "investment"
        BY <1>4, <2>2, <2>1, <2>5, CurrentItem DEF MergeAccount
      <3>2. Held(p) = {}
        BY <3>1, CashHoldsNothing
      <3>3. /\ k' = k + 1
            /\ pc' \in {"account", "securities", "meta"}
            /\ pc' = "meta" => chunk.secs = {}
        BY <2>5 DEF MergeAccount, Proceed
      <3>4. \A i \in 1..Len(chunk.items) : i < k' =>
              Held(PathOf(chunk.items[i].acct)) \subseteq chunk.secs
        BY <2>1, <2>2, <2>4, <3>2, <3>3
      <3>5. \A i \in 1..Len(chunk.items) : i < k' => Merged(i)'
        BY <2>1, <2>3, <3>3
      <3> QED
        BY <2>1, <3>3, <3>4, <3>5 DEF Progress, Merged, Held
    <2>6. CASE MergeInvestmentAccount
      <3>1. k' = k /\ pc' = "positions"
        BY <2>6 DEF MergeInvestmentAccount
      <3>2. \A i \in 1..Len(chunk.items) : i < k \/ i = k => Merged(i)'
        BY <2>1, <2>3
      <3> QED
        BY <2>1, <2>4, <3>1, <3>2 DEF Progress, Merged, Held
    <2> QED
      BY <1>4, <2>5, <2>6
  <1>5. CASE WritePositions
    <2>1. /\ pc = "positions" /\ chunk' = chunk /\ chunk \in Chunks
          /\ k \in 1..Len(chunk.items) /\ Len(chunk.items) \in Nat
          /\ chunk.items[k].holds \subseteq chunk.secs
          /\ UNCHANGED securities
      BY <1>5, CurrentItem, ChunkItems DEF WritePositions
    <2>2. PICK p \in Paths :
            /\ p = PathOf(chunk.items[k].acct)
            /\ Grows
            /\ \A q \in Paths : q # p => Held(q)' = Held(q)
            /\ Held(p)' = chunk.items[k].holds
      BY <1>5, PositionsWritten
    <2>3. /\ k' = k + 1
          /\ pc' \in {"account", "securities", "meta"}
          /\ pc' = "meta" => chunk.secs = {}
      BY <1>5 DEF WritePositions, Proceed
    <2>4. ASSUME NEW i \in 1..Len(chunk.items), i < k'
          PROVE  Merged(i)'
      <3>1. i < k \/ i = k
        BY <2>1, <2>3, <2>4
      <3>2. Merged(i)
        BY <2>1, <3>1 DEF Progress, Merged, MergePhases
      <3> QED
        BY <2>1, <2>2, <3>2, GrowsKeepsMerged
    <2>5. ASSUME NEW i \in 1..Len(chunk.items), i < k'
          PROVE  Held(PathOf(chunk.items[i].acct))' \subseteq chunk.secs
      <3>1. PICK q \in Paths : q = PathOf(chunk.items[i].acct)
        BY <2>1, ChunkItems, PathInPaths
      <3>2. Held(q)' \subseteq chunk.secs
        <4>1. CASE q = p
          BY <2>1, <2>2, <4>1
        <4>2. CASE q # p
          <5>1. i # k /\ i < k
            BY <2>1, <2>2, <2>3, <2>5, <3>1, <4>2
          <5> QED
            BY <2>1, <2>2, <3>1, <4>2, <5>1 DEF Progress, MergePhases
        <4> QED
          BY <4>1, <4>2
      <3> QED
        BY <2>1, <3>1, <3>2 DEF Held
    <2> QED
      BY <2>1, <2>3, <2>4, <2>5 DEF Progress, Merged
  <1>6. CASE UpsertSecurities
    <2>1. /\ pc = "securities" /\ pc' = "meta"
          /\ UNCHANGED <<files, positions, unsettled, chunk, k>>
          /\ securities' = securities \cup chunk.secs
          /\ chunk \in Chunks /\ k = Len(chunk.items) + 1
      BY <1>6 DEF UpsertSecurities, history, Shape, MergePhases
    <2> QED
      BY <2>1, ChunkItems DEF Progress, MergePhases, Stored, Held
  <1>7. CASE Quiet
    BY <1>1, <1>2, <1>3, <1>7 DEF Quiet, history, MergePhases
  <1>8. CASE UpdateMeta \/ FinishClear \/ RewriteMeta \/ FinishWipe
    BY <1>2, <1>8 DEF UpdateMeta, FinishClear, RewriteMeta, FinishWipe,
                      EndOperation, MergePhases
  <1>9. CASE \/ \E s \in SUBSET Kinds : StartClear(s)
             \/ \E key \in Keys : CliResetAccount(key) \/ WebResetAccount(key)
             \/ TruncateMeta \/ StartWipe
    BY <1>2, <1>9 DEF StartClear, CliResetAccount, WebResetAccount, TruncateMeta,
                      StartWipe, MergePhases
  <1>10. CASE ClearSubtree \/ WipeAccounts \/ WipeTopLevel
    BY <1>2, <1>10 DEF ClearSubtree, WipeAccounts, WipeTopLevel, writer, MergePhases
  <1> QED
    BY <1>4, <1>5, <1>6, <1>7, <1>8, <1>9, <1>10, StepCases

\* A reset in progress has given up what it deletes before it deletes it.
LEMMA WaivedNext ==
  ASSUME IInv, [Next]_vars
  PROVE  Waived'
  <1> USE DEF IInv
  <1>1. ASSUME pc' \notin {"clear", "wipe"} PROVE Waived'
    BY <1>1 DEF Waived
  <1>2. ASSUME UNCHANGED <<pc, scope, history>> PROVE Waived'
    BY <1>2 DEF Waived, history
  <1>3. ASSUME NEW s \in SUBSET Kinds, StartClear(s) PROVE Waived'
    BY <1>3 DEF StartClear, Waived
  <1>4. CASE StartWipe
    BY <1>4 DEF StartWipe, Waived
  <1>5. CASE Quiet
    BY <1>1, <1>2, <1>5 DEF Quiet, writer, StartMerge, Proceed
  <1>6. CASE MergeAccount \/ MergeInvestmentAccount \/ WritePositions \/ UpsertSecurities
    BY <1>1, <1>6 DEF MergeAccount, MergeInvestmentAccount, WritePositions,
                      UpsertSecurities, Proceed
  <1>7. CASE UpdateMeta \/ FinishClear \/ RewriteMeta \/ FinishWipe
    BY <1>1, <1>7 DEF UpdateMeta, FinishClear, RewriteMeta, FinishWipe, EndOperation
  <1>8. CASE \/ \E key \in Keys : CliResetAccount(key) \/ WebResetAccount(key)
             \/ TruncateMeta
    BY <1>1, <1>8 DEF CliResetAccount, WebResetAccount, TruncateMeta
  <1>9. CASE ClearSubtree \/ WipeAccounts \/ WipeTopLevel
    BY <1>2, <1>9 DEF ClearSubtree, WipeAccounts, WipeTopLevel, writer
  <1> QED
    BY <1>3, <1>4, <1>5, <1>6, <1>7, <1>8, <1>9, StepCases

-----------------------------------------------------------------------------
(***************************************************************************)
(* The index stays sound.                                                  *)
(***************************************************************************)

\* An entry stays sound when files grow at paths that are marked unsettled.
LEMMA GrowsKeepsSound ==
  ASSUME Grows, NEW e \in Entry, SoundEntry(e)
  PROVE  SoundEntry(e)'
  <1>1. PICK p \in Paths : p = PathOf(e.acct)
    BY PathInPaths DEF Entry
  <1>2. files'[p] # Absent /\ e.covers \subseteq files'[p].txns
    BY <1>1 DEF Grows, SoundEntry
  <1>3. ASSUME p \notin unsettled' PROVE e = Summary(e.acct)'
    <2>1. files'[p] = files[p] /\ positions'[p] = positions[p] /\ p \notin unsettled
      BY <1>3 DEF Grows
    <2>2. e = Summary(e.acct)
      BY <1>1, <2>1 DEF SoundEntry
    <2> QED
      BY <1>1, <2>1, <2>2 DEF Summary, Stored, Held
  <1> QED
    BY <1>1, <1>2, <1>3 DEF SoundEntry

\* Deleting one path leaves the entries of the others alone.
LEMMA OtherPathSound ==
  ASSUME NEW e \in Entry, SoundEntry(e), NEW p, PathOf(e.acct) # p,
         \A q \in Paths : q # p => files'[q] = files[q],
         UNCHANGED <<positions, unsettled>>
  PROVE  SoundEntry(e)'
  <1>1. PICK r \in Paths : r = PathOf(e.acct) /\ r # p
    BY PathInPaths DEF Entry
  <1>2. files'[r] = files[r] /\ positions'[r] = positions[r]
    BY <1>1
  <1> QED
    BY <1>1, <1>2 DEF SoundEntry, Summary, Stored, Held

\* An entry of any index, the one in memory included.
LEMMA EntryType ==
  ASSUME NEW ix \in Index, NEW key \in Keys, ix.entries[key] # Absent
  PROVE  ix.entries[key] \in Entry /\ ix.entries[key].acct \in Accounts
  BY DEF Index, Entry

\* The same for a whole index.
LEMMA GrowsKeepsIndex ==
  ASSUME Grows, UNCHANGED severed, NEW ix \in Index, SoundIndex(ix)
  PROVE  SoundIndex(ix)'
  BY EntryType, GrowsKeepsSound DEF SoundIndex

\* A step that only adds to the files, and leaves meta.json and loaded alone.
LEMMA GrowsKeepsIndexInv ==
  ASSUME Shape, IndexInv, Grows, UNCHANGED <<meta, severed>>,
         pc' \notin {"pop", "rewrite"} \/ UNCHANGED <<pc, loaded>>
  PROVE  IndexInv'
  <1>1. HasIndex' = HasIndex /\ (HasIndex => meta \in Index) /\ loaded \in Index
    BY DEF HasIndex, Shape, TypeOK
  <1>2. HasIndex => Keyed(meta)' /\ SoundIndex(meta)'
    <2>1. SUFFICES ASSUME HasIndex PROVE Keyed(meta)' /\ SoundIndex(meta)'
      OBVIOUS
    <2>2. PICK ix \in Index : ix = meta
      BY <1>1, <2>1
    <2>3. Keyed(ix) /\ SoundIndex(ix)
      BY <2>1, <2>2 DEF IndexInv
    <2>4. SoundIndex(ix)'
      BY <2>3, GrowsKeepsIndex
    <2> QED
      BY <2>2, <2>3, <2>4 DEF Keyed, SoundIndex
  <1>3. pc' \in {"pop", "rewrite"} => Keyed(loaded)' /\ SoundIndex(loaded)'
    <2>1. SUFFICES ASSUME pc' \in {"pop", "rewrite"}
                   PROVE  Keyed(loaded)' /\ SoundIndex(loaded)'
      OBVIOUS
    <2>2. pc \in {"pop", "rewrite"} /\ UNCHANGED loaded
      BY <2>1
    <2>3. PICK ix \in Index : ix = loaded
      BY <1>1
    <2>4. Keyed(ix) /\ SoundIndex(ix)
      BY <2>2, <2>3 DEF IndexInv
    <2>5. SoundIndex(ix)'
      BY <2>4, GrowsKeepsIndex
    <2> QED
      BY <2>2, <2>3, <2>4, <2>5 DEF Keyed, SoundIndex
  <1> QED
    BY <1>1, <1>2, <1>3 DEF IndexInv

\* An entry that was just computed is sound.
LEMMA SummarySound ==
  ASSUME Shape, NEW a \in Accounts, files[PathOf(a)] # Absent
  PROVE  SoundEntry(Summary(a))
  BY DEF SoundEntry, Summary, Stored

\* _update_meta: the entries of the chunk are recomputed, the others are kept.
LEMMA UpdateMetaIndex ==
  ASSUME IInv, UpdateMeta
  PROVE  IndexInv'
  <1> USE DEF IInv
  <1>1. /\ pc = "meta" /\ chunk \in Chunks /\ pc' = "idle"
        /\ UNCHANGED <<files, positions>>
        /\ unsettled' = unsettled \ ChunkPaths
        /\ severed' = IF HasIndex THEN severed \ ChunkKeys ELSE {}
    BY DEF UpdateMeta, EndOperation, Shape, MergePhases
  <1>2. PICK last \in [ChunkKeys -> DOMAIN chunk.items] :
          /\ \A key \in ChunkKeys : IsLastOf(last[key], key)
          /\ meta' = [entries |-> [key \in Keys |->
                                     IF key \in ChunkKeys
                                     THEN Summary(chunk.items[last[key]].acct)
                                     ELSE Existing.entries[key]],
                      conns   |-> Existing.conns \cup chunk.conns]
    BY DEF UpdateMeta
  <1>3. SUFFICES ASSUME NEW key \in Keys, meta'.entries[key] # Absent
                 PROVE  /\ KeyOf(meta'.entries[key].acct) = key
                        /\ key \notin severed' => SoundEntry(meta.entries[key])'
    BY <1>1 DEF IndexInv, Keyed, SoundIndex
  <1>4. CASE key \in ChunkKeys
    <2>1. PICK i \in 1..Len(chunk.items) : i = last[key]
      BY <1>1, <1>2, <1>4, ChunkItems
    <2>2. PICK a \in Accounts : a = chunk.items[i].acct
      BY <1>1, <2>1, ChunkItems
    <2>3. KeyOf(a) = key
      BY <1>2, <1>4, <2>1, <2>2 DEF IsLastOf
    <2>4. PICK e : e = Summary(a)
      OBVIOUS
    <2>5. meta'.entries[key] = e /\ e.acct = a
      BY <1>2, <1>4, <2>1, <2>2, <2>4 DEF Summary
    <2>6. files[PathOf(a)] # Absent
      BY <1>1, <2>1, <2>2, AllMerged
    <2>7. e.covers = files[PathOf(a)].txns /\ e = Summary(a)'
      BY <1>1, <2>4, <2>6 DEF Summary, Stored, Held
    <2>8. SoundEntry(e)'
      BY <1>1, <2>5, <2>6, <2>7 DEF SoundEntry
    <2> QED
      BY <2>3, <2>5, <2>8 DEF SoundEntry
  <1>5. CASE key \notin ChunkKeys
    <2>1. meta'.entries[key] = Existing.entries[key]
      BY <1>2, <1>5
    <2>2. HasIndex /\ Existing = meta
      BY <1>3, <2>1 DEF Existing, EmptyIndex
    <2>3. PICK e \in Entry : e = meta.entries[key] /\ e.acct \in Accounts
      BY <1>3, <2>1, <2>2, IndexType DEF Entries, Shape
    <2>4. KeyOf(e.acct) = key
      BY <1>3, <2>1, <2>2, <2>3 DEF IndexInv, Keyed
    <2>5. ASSUME key \notin severed' PROVE SoundEntry(e)'
      <3>1. SoundEntry(e)
        BY <1>1, <1>3, <1>5, <2>1, <2>2, <2>3, <2>5 DEF IndexInv, SoundIndex
      <3>2. PathOf(e.acct) \notin ChunkPaths
        <4>1. SUFFICES ASSUME NEW i \in 1..Len(chunk.items),
                              PathOf(e.acct) = PathOf(chunk.items[i].acct)
                       PROVE  FALSE
          BY <1>1, ChunkItems DEF ChunkPaths
        <4>2. chunk.items[i].acct \in Accounts
          BY <1>1, ChunkItems
        <4>3. KeyOf(chunk.items[i].acct) = key
          BY <2>3, <2>4, <4>1, <4>2, PathGivesKey
        <4>4. i \in DOMAIN chunk.items
          BY <1>1, ChunkItems
        <4> QED
          BY <1>5, <4>3, <4>4 DEF ChunkKeys
      <3> QED
        BY <1>1, <3>1, <3>2 DEF SoundEntry, Summary, Stored, Held
    <2> QED
      BY <2>1, <2>2, <2>3, <2>4, <2>5 DEF SoundEntry
  <1> QED
    BY <1>4, <1>5

\* The file of one cash account goes; the index in memory drops its entry.
LEMMA ResetAccountIndex ==
  ASSUME IInv, NEW key \in Keys, CliResetAccount(key) \/ WebResetAccount(key)
  PROVE  IndexInv'
  <1> USE DEF IInv
  <1>1. /\ HasIndex /\ pc' = "pop" /\ loaded' = Without(key)
        /\ UNCHANGED <<meta, positions, unsettled>>
    BY DEF CliResetAccount, WebResetAccount
  <1>2. \/ Entries[key] # Absent /\ UnlinkAccountFile(key)
        \/ Entries[key] = Absent /\ UNCHANGED <<files, severed>>
    BY DEF CliResetAccount, WebResetAccount
  <1>3. PICK ix \in Index : ix = meta
    BY <1>1, IndexType DEF Shape
  <1>4. Keyed(ix) /\ SoundIndex(ix)
    BY <1>1, <1>3 DEF IndexInv
  <1>5. /\ \A other \in Keys : other # key => loaded'.entries[other] = ix.entries[other]
        /\ loaded'.entries[key] = Absent
    <2>1. /\ Without(key).entries = [ix.entries EXCEPT ![key] = Absent]
          /\ ix.entries \in [Keys -> Entry \cup {Absent}]
      BY <1>3 DEF Without, Index
    <2> QED
      BY <1>1, <2>1
  <1>6. ASSUME NEW other \in Keys, other \notin severed', ix.entries[other] # Absent
        PROVE  SoundEntry(ix.entries[other])'
    <2>1. PICK e \in Entry : e = ix.entries[other] /\ e.acct \in Accounts
      BY <1>6, EntryType
    <2>2. CASE Entries[key] # Absent /\ UnlinkAccountFile(key)
      <3>1. other # key /\ other \notin severed
        BY <1>6, <2>2 DEF UnlinkAccountFile
      <3>2. SoundEntry(e) /\ KeyOf(e.acct) = other
        BY <1>4, <1>6, <2>1, <3>1 DEF SoundIndex, Keyed
      <3>3. PICK b \in Accounts : b = Entries[key].acct
        BY <1>1, <2>2, IndexType DEF Shape
      <3>4. KeyOf(b) = key
        BY <1>3, <1>4, <2>2, <3>3 DEF Keyed, Entries
      <3>5. PathOf(e.acct) # PathOf(b)
        BY <2>1, <3>1, <3>2, <3>4, PathGivesKey
      <3>6. \A q \in Paths : q # PathOf(b) => files'[q] = files[q]
        BY <2>2, <3>3 DEF UnlinkAccountFile, Shape, TypeOK
      <3> QED
        BY <1>1, <2>1, <3>2, <3>5, <3>6, OtherPathSound
    <2>3. CASE UNCHANGED <<files, severed>>
      BY <1>1, <1>4, <1>6, <2>3 DEF SoundIndex, SoundEntry, Summary, Stored, Held
    <2> QED
      BY <1>2, <2>2, <2>3
  <1>7. Keyed(ix)' /\ SoundIndex(ix)'
    BY <1>4, <1>6 DEF Keyed, SoundIndex
  <1>8. Keyed(meta)' /\ SoundIndex(meta)'
    BY <1>1, <1>3, <1>7 DEF Keyed, SoundIndex
  <1>9. Keyed(loaded)' /\ SoundIndex(loaded)'
    BY <1>5, <1>7 DEF Keyed, SoundIndex
  <1> QED
    BY <1>8, <1>9 DEF IndexInv

\* Every step keeps the index, on disk and in memory, sound.
LEMMA IndexNext ==
  ASSUME IInv, [Next]_vars
  PROVE  IndexInv'
  <1> USE DEF IInv
  <1>1. ASSUME ~HasIndex', pc' \notin {"pop", "rewrite"} PROVE IndexInv'
    BY <1>1 DEF IndexInv
  <1>2. ASSUME severed' = Keys, pc' \notin {"pop", "rewrite"},
               HasIndex' => HasIndex /\ UNCHANGED meta
        PROVE  IndexInv'
    BY <1>2 DEF IndexInv, SoundIndex, Keyed
  <1>3. CASE Quiet
    <2>1. Grows /\ UNCHANGED <<meta, severed>>
      BY <1>3 DEF Quiet, Grows, history
    <2>2. pc' \notin {"pop", "rewrite"} \/ UNCHANGED <<pc, loaded>>
      BY <1>3 DEF Quiet, writer, StartMerge, Proceed
    <2> QED
      BY <2>1, <2>2, GrowsKeepsIndexInv
  <1>4. CASE MergeAccount \/ MergeInvestmentAccount \/ WritePositions \/ UpsertSecurities
    <2>1. Grows
      BY <1>4, AccountWritten, PositionsWritten
         DEF UpsertSecurities, Grows, history
    <2>2. pc' \notin {"pop", "rewrite"} /\ UNCHANGED <<meta, severed>>
      BY <1>4 DEF MergeAccount, MergeInvestmentAccount, WritePositions,
                  UpsertSecurities, Proceed, history
    <2> QED
      BY <2>1, <2>2, GrowsKeepsIndexInv
  <1>5. ASSUME NEW s \in SUBSET Kinds, StartClear(s) PROVE IndexInv'
    BY <1>1, <1>5 DEF StartClear, HasIndex
  <1>6. CASE ClearSubtree \/ FinishClear
    BY <1>1, <1>6 DEF ClearSubtree, FinishClear, EndOperation, HasIndex, Shape, writer
  <1>7. CASE TruncateMeta
    <2>1. /\ pc = "pop" /\ pc' = "rewrite" /\ ~HasIndex'
          /\ UNCHANGED <<files, positions, loaded, unsettled, severed>>
      BY <1>7 DEF TruncateMeta, HasIndex, history
    <2> QED
      BY <2>1 DEF IndexInv, Keyed, SoundIndex, SoundEntry, Summary, Stored, Held
  <1>8. CASE RewriteMeta
    <2>1. /\ pc = "rewrite" /\ pc' = "idle" /\ meta' = loaded
          /\ UNCHANGED <<files, positions, unsettled>>
          /\ severed' = {key \in severed : loaded.entries[key] # Absent}
      BY <1>8 DEF RewriteMeta, EndOperation
    <2> QED
      BY <2>1 DEF IndexInv, Keyed, SoundIndex, SoundEntry, Summary, Stored, Held
  <1>9. CASE StartWipe \/ WipeAccounts \/ WipeTopLevel
    BY <1>2, <1>9 DEF StartWipe, WipeAccounts, WipeTopLevel, Waived, HasIndex,
                      disk, writer, history
  <1>10. CASE FinishWipe
    BY <1>1, <1>10 DEF FinishWipe, EndOperation, HasIndex
  <1> QED
    BY <1>3, <1>4, <1>5, <1>6, <1>7, <1>8, <1>9, <1>10, UpdateMetaIndex,
       ResetAccountIndex, StepCases

-----------------------------------------------------------------------------
(***************************************************************************)
(* The theorems.                                                           *)
(***************************************************************************)

\* The inductive invariant holds of the empty directory.
LEMMA IInvInit == Init => IInv
  <1> SUFFICES ASSUME Init PROVE IInv
    OBVIOUS
  <1>1. \A p \in Paths : Stored(p) = {} /\ Held(p) = {}
    BY DEF Init, Stored, Held
  <1> QED
    BY <1>1, ShapeInit DEF Init, IInv, Progress, IndexInv, Waived, HasIndex,
       AckedKept, InvestmentIdsUnique, RegistryCoversPositions, MergePhases

\* Every step preserves the inductive invariant.
LEMMA IInvNext == IInv /\ [Next]_vars => IInv'
  BY ShapeNext, ProgressNext, IndexNext, WaivedNext, AckedNext, UniqueNext,
     RegistryNext DEF IInv

\* The inductive invariant holds in every reachable state.
LEMMA Invariance == Spec => []IInv
  BY IInvInit, IInvNext, PTL DEF Spec

\* The index never names a missing file and never counts what a file lacks,
\* and outside an unfinished merge it is exact, wherever a crash falls.
THEOREM IndexIsSound == Spec => []IndexSound
  <1>1. IInv => IndexSound
    BY DEF IInv, IndexInv, SoundIndex, IndexSound, Entries
  <1> QED
    BY <1>1, Invariance, PTL

\* What a completed merge_chunk stored survives every later merge and crash.
THEOREM AckedIsKept == Spec => []AckedKept
  <1>1. IInv => AckedKept
    BY DEF IInv
  <1> QED
    BY <1>1, Invariance, PTL

\* No investment file ever holds two transactions with one id.
THEOREM InvestmentIdsAreUnique == Spec => []InvestmentIdsUnique
  <1>1. IInv => InvestmentIdsUnique
    BY DEF IInv
  <1> QED
    BY <1>1, Invariance, PTL

\* The securities registry describes every settled position.
THEOREM RegistryIsComplete == Spec => []RegistryCoversPositions
  <1>1. IInv => RegistryCoversPositions
    BY DEF IInv
  <1> QED
    BY <1>1, Invariance, PTL

\* What one step may do to a file that is there before and after it.
LEMMA HistoryStep ==
  ASSUME IInv, [Next]_vars, NEW p \in Paths, files[p] # Absent, files'[p] # Absent
  PROVE  /\ files[p].txns \subseteq files'[p].txns
         /\ \A t \in files'[p].txns \ files[p].txns : t.id \notin Ids(files[p].txns)
  <1> USE DEF IInv
  <1>1. CASE MergeAccount \/ MergeInvestmentAccount
    <2>1. PICK q \in Paths :
            /\ Grows
            /\ \A r \in Paths : r # q => files'[r] = files[r]
            /\ \A t \in Stored(q)' \ Stored(q) : t.id \notin Ids(Stored(q))
      BY <1>1, AccountWritten
    <2>2. CASE p = q
      <3>1. Stored(p) = files[p].txns /\ Stored(p)' = files'[p].txns
        BY DEF Stored
      <3> QED
        BY <2>1, <2>2, <3>1 DEF Grows
    <2> QED
      BY <2>1, <2>2
  <1>2. ASSUME files'[p] = files[p] PROVE files[p].txns = files'[p].txns
    BY <1>2
  <1>3. CASE ClearSubtree \/ WipeAccounts
    <2>1. PICK q \in Paths : RemoveFile(q)
      BY <1>3 DEF ClearSubtree, WipeAccounts
    <2> QED
      BY <1>2, <2>1, FileRemoved
  <1>4. ASSUME NEW key \in Keys, CliResetAccount(key) \/ WebResetAccount(key)
        PROVE  files'[p] = files[p]
    BY <1>4 DEF CliResetAccount, WebResetAccount, UnlinkAccountFile, Shape, TypeOK
  <1>5. CASE \/ Quiet \/ WritePositions \/ UpsertSecurities \/ UpdateMeta
             \/ \E s \in SUBSET Kinds : StartClear(s)
             \/ FinishClear \/ TruncateMeta \/ RewriteMeta
             \/ StartWipe \/ WipeTopLevel \/ FinishWipe
    <2>1. files' = files
      BY <1>5 DEF Quiet, WritePositions, UpsertSecurities, UpdateMeta, StartClear,
           FinishClear, TruncateMeta, RewriteMeta, StartWipe, WipeTopLevel,
           FinishWipe, disk
    <2> QED
      BY <2>1
  <1> QED
    BY <1>1, <1>2, <1>3, <1>4, <1>5, StepCases

\* Stored transactions are never rewritten, only removed with their file.
THEOREM HistoryIsKept == Spec => HistoryKept
  <1>1. IInv /\ [Next]_vars =>
          [\A p \in Paths :
             files[p] # Absent /\ files'[p] # Absent =>
               /\ files[p].txns \subseteq files'[p].txns
               /\ \A t \in files'[p].txns \ files[p].txns :
                    t.id \notin Ids(files[p].txns)]_vars
    BY HistoryStep
  <1> QED
    BY <1>1, Invariance, PTL DEF Spec, HistoryKept

\* What one step may do to an index entry that stays at its path.
LEMMA CountsStep ==
  ASSUME IInv, [Next]_vars, HasIndex, HasIndex', NEW key \in Keys \ severed,
         Entries[key] # Absent, Entries'[key] # Absent,
         PathOf(Entries[key].acct) = PathOf(Entries'[key].acct)
  PROVE  Entries[key].covers \subseteq Entries'[key].covers
  <1> USE DEF IInv
  <1>1. CASE UpdateMeta
    <2>1. PICK last \in [ChunkKeys -> DOMAIN chunk.items] :
            meta'.entries = [other \in Keys |->
                               IF other \in ChunkKeys
                               THEN Summary(chunk.items[last[other]].acct)
                               ELSE Existing.entries[other]]
      BY <1>1 DEF UpdateMeta
    <2>2. CASE key \in ChunkKeys
      <3>1. PICK a : a = chunk.items[last[key]].acct
        OBVIOUS
      <3>2. Entries'[key] = Summary(a)
        BY <2>1, <2>2, <3>1 DEF Entries
      <3>3. Entries'[key].acct = a /\ Entries'[key].covers = Stored(PathOf(a))
        BY <3>2 DEF Summary
      <3>4. SoundEntry(Entries[key])
        BY DEF IndexInv, SoundIndex, Entries
      <3> QED
        BY <3>3, <3>4 DEF SoundEntry, Stored
    <2>3. CASE key \notin ChunkKeys
      BY <2>1, <2>3 DEF Existing, Entries
    <2> QED
      BY <2>2, <2>3
  <1>2. CASE UNCHANGED meta
    BY <1>2 DEF Entries
  <1>3. CASE RewriteMeta \/ TruncateMeta \/ WipeTopLevel
    BY <1>2, <1>3 DEF RewriteMeta, TruncateMeta, WipeTopLevel, HasIndex, Shape
  <1>4. CASE \E s \in SUBSET Kinds : StartClear(s)
    BY <1>4 DEF StartClear, HasIndex
  <1>5. CASE \/ Quiet \/ MergeAccount \/ MergeInvestmentAccount \/ WritePositions
             \/ UpsertSecurities \/ ClearSubtree \/ FinishClear
             \/ \E other \in Keys : CliResetAccount(other) \/ WebResetAccount(other)
             \/ StartWipe \/ WipeAccounts \/ FinishWipe
    BY <1>2, <1>5 DEF Quiet, MergeAccount, MergeInvestmentAccount, WritePositions,
         UpsertSecurities, ClearSubtree, FinishClear, CliResetAccount,
         WebResetAccount, StartWipe, WipeAccounts, FinishWipe, disk
  <1> QED
    BY <1>1, <1>3, <1>4, <1>5, StepCases

\* A published count never goes down while its entry stays in place.
THEOREM CountsNeverGoDown == Spec => CountsNeverShrink
  <1>1. IInv /\ [Next]_vars =>
          [HasIndex /\ HasIndex' =>
             \A key \in Keys \ severed :
               /\ Entries[key] # Absent /\ Entries'[key] # Absent
               /\ PathOf(Entries[key].acct) = PathOf(Entries'[key].acct)
               => Entries[key].covers \subseteq Entries'[key].covers]_vars
    BY CountsStep
  <1> QED
    BY <1>1, Invariance, PTL DEF Spec, CountsNeverShrink
=============================================================================
