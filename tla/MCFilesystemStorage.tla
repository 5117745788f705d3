------------------------ MODULE MCFilesystemStorage ------------------------
(***************************************************************************)
(* FilesystemStorage on a small directory.                                 *)
(***************************************************************************)
EXTENDS StorageRefinement

MCConns == {"bank", "union", "broker"}
MCDir == [c \in MCConns |-> c]
MCNames == {"Checking", "IRA"}
MCDisplay == [n \in MCNames |-> n]

Checking == [id |-> "A1", kind |-> "accounts", conn |-> "bank", name |-> "Checking"]
\* A second bank whose account has the name of the first bank's.
OtherChecking ==
    [id |-> "B1", kind |-> "accounts", conn |-> "union", name |-> "Checking"]
IRA == [id |-> "I1", kind |-> "investment", conn |-> "broker", name |-> "IRA"]

CONSTANTS t1, t2, v1, v2, s1, s2

Tx(t, v) == [id |-> t, ver |-> v]
Cash(a, txns) == [acct |-> a, txns |-> txns, holds |-> {}]
Invest(a, txns, holds) == [acct |-> a, txns |-> txns, holds |-> holds]
ChunkOf(items) ==
    [items |-> items,
     conns |-> {items[i].acct.conn : i \in DOMAIN items},
     secs  |-> UNION {items[i].holds : i \in DOMAIN items}]

(***************************************************************************)
(* A fetch of both institutions in which one activity comes twice; a       *)
(* SnapTrade fetch that revises it, brings another, and finds one position *)
(* sold and another bought; a SimpleFIN window that revises a transaction, *)
(* brings another and the second bank; an empty window.                    *)
(***************************************************************************)
MCChunks ==
    {ChunkOf(<<Cash(Checking, {Tx(t1, v1)}),
               Invest(IRA, {Tx(t1, v1), Tx(t1, v2)}, {s1})>>),
     ChunkOf(<<Invest(IRA, {Tx(t1, v2), Tx(t2, v1)}, {s2})>>),
     ChunkOf(<<Cash(Checking, {Tx(t1, v2), Tx(t2, v1)}),
               Cash(OtherChecking, {Tx(t2, v1)})>>),
     ChunkOf(<<>>)}
MCAccounts == {Checking, OtherChecking, IRA}

\* The part of the state space that is explored: the second bank and the
\* investment account are not both there, and neither is a stored credential
\* when there are account files.
Explored ==
    /\ files[PathOf(IRA)] = Absent \/ files[PathOf(OtherChecking)] = Absent
    /\ creds # {} => Emptied(Kinds)

\* Two banks, each with an account called Checking.
SameNameChunks ==
    {ChunkOf(<<Cash(Checking, {Tx(t1, v1)})>>),
     ChunkOf(<<Cash(OtherChecking, {Tx(t1, v1)})>>)}
SameNameAccounts == {Checking, OtherChecking}
=============================================================================
