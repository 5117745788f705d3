------------------------------- MODULE Ledger -------------------------------
(***************************************************************************)
(* What the cache promises its users, without files, phases or crashes: a  *)
(* book of transactions per account, to which entries are only added; a    *)
(* statement per account name, issued about a whole book at once; and the  *)
(* transactions whose keeping has been promised.  A step may do its work   *)
(* for several names or books; which ones is left open, what is not is     *)
(* how each may change.                                                    *)
(***************************************************************************)
CONSTANTS
    Books,          \* where the transactions of an account are kept
    Names,          \* what statements are issued under
    NameOf(_),      \* the name a book goes by; two books may share it
    NoBook,
    NoStatement

VARIABLES
    book,           \* the transactions of each book, or NoBook
    statement,      \* [of, covers] under each name, or NoStatement
    promised        \* <<b, id>>: book b keeps a transaction with this id

vars == <<book, statement, promised>>

IdsIn(txns) == {t.id : t \in txns}
Contents(b) == IF book[b] = NoBook THEN {} ELSE book[b]

Init ==
    /\ book = [b \in Books |-> NoBook]
    /\ statement = [name \in Names |-> NoStatement]
    /\ promised = {}

\* Transactions enter a book, under ids that it does not hold yet.
Enter(b) ==
    /\ book'[b] # NoBook
    /\ \E new \in {book'[b] \ Contents(b)} :
         /\ IdsIn(new) \cap IdsIn(Contents(b)) = {}
         /\ book' = [book EXCEPT ![b] = Contents(b) \cup new]
    /\ UNCHANGED <<statement, promised>>

Exact(name, b) ==
    /\ NameOf(b) = name
    /\ book[b] # NoBook
    /\ statement'[name] = [of |-> b, covers |-> book[b]]

\* Statements are issued, each about the whole of a book, and what is in the
\* books may be promised.
Issue ==
    /\ DOMAIN statement' = Names
    /\ \A name \in Names :
         \/ statement'[name] = statement[name]
         \/ \E b \in Books : Exact(name, b)
    /\ promised \subseteq promised'
    /\ \A x \in promised' \ promised : x[2] \in IdsIn(Contents(x[1]))
    /\ UNCHANGED book

\* Statements are withdrawn, and books given up that may be destroyed later.
Withdraw ==
    /\ DOMAIN statement' = Names
    /\ \A name \in Names : statement'[name] \in {statement[name], NoStatement}
    /\ promised' \subseteq promised
    /\ \A x \in promised \ promised' : \A y \in promised' : x[1] # y[1]
    /\ UNCHANGED book

\* A book is destroyed, as a whole.
Destroy(b) ==
    /\ book' = [book EXCEPT ![b] = NoBook]
    /\ promised' = {x \in promised : x[1] # b}
    /\ UNCHANGED statement

Next ==
    \/ \E b \in Books : Enter(b)
    \/ Issue
    \/ Withdraw
    \/ \E b \in Books : Destroy(b)

Spec == Init /\ [][Next]_vars
=============================================================================
