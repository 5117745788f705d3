--------------------------- MODULE MCCacheReader ---------------------------
(***************************************************************************)
(* CacheReader on a directory with one account at a bank and one at a      *)
(* broker.                                                                 *)
(***************************************************************************)
EXTENDS CacheReader

MCConns == {"bank", "broker"}
MCDir == [c \in MCConns |-> c]
MCNames == {"Checking"}
MCDisplay == [n \in MCNames |-> n]

Checking == [id |-> "A1", kind |-> "accounts", conn |-> "bank", name |-> "Checking"]
IRA == [id |-> "I1", kind |-> "investment", conn |-> "broker", name |-> "Checking"]

CONSTANTS t1, v1, s1, s2

Tx(t) == [id |-> t, ver |-> v1]
Cash(a, txns) == [acct |-> a, txns |-> txns, holds |-> {}]
Invest(a, txns, holds) == [acct |-> a, txns |-> txns, holds |-> holds]
ChunkOf(items) ==
    [items |-> items,
     conns |-> {items[i].acct.conn : i \in DOMAIN items},
     secs  |-> UNION {items[i].holds : i \in DOMAIN items}]

(***************************************************************************)
(* A first fetch of both institutions, when the broker holds nothing yet;  *)
(* then a purchase; then the position is exchanged for another, and the    *)
(* activity of the purchase comes once more.                               *)
(***************************************************************************)
MCChunks ==
    {ChunkOf(<<Cash(Checking, {Tx(t1)}), Invest(IRA, {}, {})>>),
     ChunkOf(<<Invest(IRA, {Tx(t1)}, {s1})>>),
     ChunkOf(<<Invest(IRA, {Tx(t1)}, {s2})>>)}
MCAccounts == {Checking, IRA}
=============================================================================
