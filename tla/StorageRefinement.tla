-------------------------- MODULE StorageRefinement --------------------------
(***************************************************************************)
(* FilesystemStorage implements Ledger.  A book is the transaction list of *)
(* a file, a statement is an index entry, and a promise is a merge_chunk   *)
(* that has returned.  While a per-account reset has meta.json truncated,  *)
(* the statements in force are those it is about to write back; a          *)
(* meta.json that is missing or does not parse makes none.                 *)
(***************************************************************************)
EXTENDS FilesystemStorage

\* Nothing is not an empty list of transactions.
ASSUME RefinementAssumption == \A txns \in SUBSET Txn : Absent # txns

Book == [p \in Paths |-> IF files[p] = Absent THEN Absent ELSE files[p].txns]

IndexInForce ==
    IF pc = "rewrite" THEN loaded ELSE Existing

StatementOf(e) ==
    IF e = Absent THEN Absent ELSE [of |-> PathOf(e.acct), covers |-> e.covers]

Statement == [key \in Keys |-> StatementOf(IndexInForce.entries[key])]

KeyOfPath(p) == <<p[1], p[3]>>

Promise ==
    INSTANCE Ledger WITH
        Books <- Paths,
        Names <- Keys,
        NameOf <- KeyOfPath,
        NoBook <- Absent,
        NoStatement <- Absent,
        book <- Book,
        statement <- Statement,
        promised <- acked

(***************************************************************************)
(* Every step of the storage class and of the handlers that edit its       *)
(* directory, crashes included, is a step of the ledger or none: a file    *)
(* only gains transactions with new ids or goes as a whole; index entries  *)
(* are published only about a whole file that exists, or withdrawn; and    *)
(* what merge_chunk reported stored is given up only with the file.        *)
(***************************************************************************)
ImplementsLedger == Promise!Spec
=============================================================================
