------------------------------ MODULE MCRecords ------------------------------
(***************************************************************************)
(* Records with one bank, one broker and answers that lack, misspell and   *)
(* repeat things.                                                          *)
(***************************************************************************)
EXTENDS Records, FiniteSets

MCConns == {"bank", "_unknown"}
\* All names sanitise alike: the accounts of a connection share their file.
MCDisplay(name) == "Checking"
MCDisplays == {"Checking"}

Good(id) ==
    [id |-> id, posted |-> "day", amount |-> "padded", text |-> "short", transacted |-> "null"]
\* The same transaction revised, without cents, and posted at 0.
Odd(id) ==
    [id |-> id, posted |-> "zero", amount |-> "other", text |-> "null", transacted |-> "wild"]

Cash(id, name, conn, available, txns) ==
    [id |-> id, name |-> name, currency |-> "iso", balance |-> "cents",
     available |-> available, date |-> "day", sfin |-> "", domain |-> conn, txns |-> txns]

MCSimplefin ==
    {<<Cash("A", "Checking", "bank", "null", <<Good("t1"), Odd("t2")>>)>>,
     <<Cash("B", "CHECKING", "bank", "other", <<Odd("t1"), Good("t2"), Good("t2")>>)>>,
     <<Cash("C", "", "bank", "bad", <<Good("t1")>>)>>}

Share == [figi |-> "", cusip |-> "", isin |-> "", ticker |-> "X"]
Nameless == [figi |-> "", cusip |-> "", isin |-> "", ticker |-> ""]

Act(id, date, type, symbol) ==
    [id |-> id, date |-> date, type |-> type, symbol |-> symbol]

MCSnaptrade ==
    {<<[id |-> "I", name |-> "", number |-> "", slug |-> "",
        activities |-> <<Act("", "bad", "null", Absent),
                         Act("a1", "day", "known", Share),
                         Act("a1", "bad", "known", Share)>>,
        positions |-> <<Nameless, Absent>>]>>,
     <<[id |-> "I", name |-> "", number |-> "", slug |-> "",
        activities |-> <<>>, positions |-> <<Share>>]>>}

\* The part of the state space that is explored: the two subtrees, which the
\* walk visits one after the other, do not both have files; a crash leaves one
\* temporary file; a directory that none of the answers files anything in is not
\* there.
Explored ==
    /\ Cardinality(temps) <= 1
    /\ \/ \A p \in Paths : p[1] = "accounts" => files[p] = Absent
       \/ \A p \in Paths :
            p[1] = "investment" => files[p] = Absent /\ positions[p] = Absent
    /\ scan.at = "accounts" => scan.dirs \subseteq {"bank"}
    /\ scan.at = "investment" => scan.dirs \subseteq {"_unknown"}
=============================================================================
