--------------------------- MODULE SnapTradeBackend ---------------------------
(***************************************************************************)
(* One call of SnapTradeBackend.fetch_and_persist: the windows, the        *)
(* bisection of full pages (StClient.get_activities), the orders that take *)
(* the place of activities for personal accounts, the positions, and the   *)
(* one chunk that is merged.  SnapTrade goes on publishing meanwhile.      *)
(*                                                                         *)
(* Time counts days, as the requests do.  A security is a key of the       *)
(* registry; two that differ do so in their uniqueid.  Amounts, dates and  *)
(* names of the normalised records are left out.                           *)
(***************************************************************************)
EXTENDS Integers, Sequences, FiniteSets

CONSTANTS
    Accounts,
    Securities,
    None,        \* no symbol
    Activities,  \* that will ever be published: [id, acct, day, sec]
    Orders,      \* likewise: [id, acct, executed, sec]
    DtStart, DtEnd,
    Window,      \* activity_window_days
    PageLimit    \* _PAGE_LIMIT (1000)

ASSUME SnapTradeAssumption ==
    /\ None \notin Securities
    /\ \A a \in Activities : a.day \in Int /\ a.sec \in Securities \cup {None}
    /\ \A o \in Orders : o.executed \in BOOLEAN /\ o.sec \in Securities \cup {None}
    /\ IsFiniteSet(Activities)
    /\ DtStart \in Int /\ DtEnd \in Int
    /\ Window \in Nat \ {0} /\ PageLimit \in Nat \ {0}

VARIABLES
    personal,  \* a PERS- client id: /activities answers 410
    open,      \* accounts that /accounts lists
    upstream,  \* activities published so far
    pc,
    listed,    \* st_accounts of this call
    cursor,    \* start of the next window
    stack,     \* calls of get_activities that have yet to ask: <<first, last>>
    gathered,  \* activities received
    todo,      \* accounts whose orders or positions have yet to be asked for
    txns,      \* transactions of each account, as ids with their security
    symbols,   \* all_symbols and all_option_symbols
    holds,     \* positions of each account
    chunk,     \* what was merged, or the empty set
    \* A history variable.
    owed       \* published and in range when the call began

outside == <<personal, open, upstream>>
call == <<listed, cursor, stack, gathered, todo, txns, symbols, holds>>
vars == <<outside, pc, call, chunk, owed>>

Txn == [id : {x.id : x \in Activities \cup Orders}, sec : Securities \cup {None}]
Ranges == {r \in Int \X Int : r[1] <= r[2]}
NoTxns == [a \in Accounts |-> {}]

TypeOK ==
    /\ personal \in BOOLEAN
    /\ open \subseteq Accounts
    /\ upstream \subseteq Activities
    /\ pc \in {"accounts", "activities", "orders", "positions", "merge", "done", "error"}
    /\ listed \subseteq Accounts
    /\ cursor \in Int
    /\ stack \in Seq(Ranges)
    /\ gathered \subseteq Activities
    /\ todo \subseteq listed
    /\ txns \in [Accounts -> SUBSET Txn]
    /\ symbols \subseteq Securities
    /\ holds \in [Accounts -> SUBSET Securities]
    /\ chunk \subseteq [acct : Accounts, txns : SUBSET Txn, holds : SUBSET Securities]
    /\ owed \subseteq Activities

Init ==
    /\ personal \in BOOLEAN
    /\ open \in SUBSET Accounts
    /\ upstream \in SUBSET Activities
    /\ pc = "accounts"
    /\ listed = {} /\ cursor = DtStart /\ stack = <<>> /\ gathered = {}
    /\ todo = {} /\ txns = NoTxns /\ symbols = {}
    /\ holds = [a \in Accounts |-> {}]
    /\ chunk = {}
    /\ owed = {a \in upstream : DtStart <= a.day /\ a.day <= DtEnd}

-----------------------------------------------------------------------------
Publish(a) ==
    /\ a \notin upstream
    /\ upstream' = upstream \cup {a}
    /\ UNCHANGED <<personal, open, pc, call, chunk, owed>>

OpenAccount(a) ==
    /\ a \notin open
    /\ open' = open \cup {a}
    /\ UNCHANGED <<personal, upstream, pc, call, chunk, owed>>

GetAccounts ==
    /\ pc = "accounts"
    /\ listed' = open
    /\ pc' = "activities"
    /\ UNCHANGED <<outside, cursor, stack, gathered, todo, txns, symbols, holds,
                   chunk, owed>>

-----------------------------------------------------------------------------
(***************************************************************************)
(* Activities.                                                             *)
(***************************************************************************)

Min2(x, y) == IF x < y THEN x ELSE y

\* _windows: the next window is asked for when the one before is complete.
NextWindow ==
    /\ pc = "activities"
    /\ stack = <<>>
    /\ cursor < DtEnd
    /\ LET last == Min2(cursor + Window, DtEnd)
       IN  /\ stack' = <<<<cursor, last>>>>
           /\ cursor' = last
    /\ UNCHANGED <<outside, pc, listed, gathered, todo, txns, symbols, holds,
                   chunk, owed>>

\* What /activities has for a range; both days are included (external).
Published(range) == {a \in upstream : range[1] <= a.day /\ a.day <= range[2]}
Full(range) == Cardinality(Published(range)) >= PageLimit

\* Mutant: the second half begins with the day that ends the first.
HalvesOverlapping(range) ==
    LET mid == range[1] + (range[2] - range[1]) \div 2
    IN  <<<<range[1], mid>>, <<mid, range[2]>>>>

\* Mutant: the day in the middle belongs to neither half.
HalvesApart(range) ==
    LET mid == range[1] + (range[2] - range[1]) \div 2
    IN  <<<<range[1], mid>>, <<Min2(mid + 2, range[2]), range[2]>>>>

Halves(range) ==
    LET mid == range[1] + (range[2] - range[1]) \div 2
    IN  <<<<range[1], mid>>, <<mid + 1, range[2]>>>>

\* A page that is not full is all there is.
TakePage ==
    /\ pc = "activities" /\ ~personal
    /\ stack # <<>>
    /\ ~Full(Head(stack))
    /\ gathered' = gathered \cup Published(Head(stack))
    /\ stack' = Tail(stack)
    /\ UNCHANGED <<outside, pc, listed, cursor, todo, txns, symbols, holds, chunk, owed>>

\* Mutant: a single day is split as well.
BisectAlways ==
    /\ pc = "activities" /\ ~personal
    /\ stack # <<>>
    /\ Full(Head(stack))
    /\ stack' = Halves(Head(stack)) \o Tail(stack)
    /\ UNCHANGED <<outside, pc, listed, cursor, gathered, todo, txns, symbols,
                   holds, chunk, owed>>

\* A full page is thrown away and its two halves are asked for instead.
Bisect ==
    /\ pc = "activities" /\ ~personal
    /\ stack # <<>>
    /\ Full(Head(stack))
    /\ Head(stack)[1] < Head(stack)[2]
    /\ stack' = Halves(Head(stack)) \o Tail(stack)
    /\ UNCHANGED <<outside, pc, listed, cursor, gathered, todo, txns, symbols,
                   holds, chunk, owed>>

\* A full page of a single day: what it holds is taken, with a warning.
TakeFullDay ==
    /\ pc = "activities" /\ ~personal
    /\ stack # <<>>
    /\ Full(Head(stack))
    /\ Head(stack)[1] >= Head(stack)[2]
    /\ \E page \in SUBSET Published(Head(stack)) :
         /\ Cardinality(page) = PageLimit
         /\ gathered' = gathered \cup page
    /\ stack' = Tail(stack)
    /\ UNCHANGED <<outside, pc, listed, cursor, todo, txns, symbols, holds, chunk, owed>>

\* The first of each id; which one is first is the order of the answers.
OnePerId(answers) ==
    {kept \in SUBSET answers :
        /\ {x.id : x \in kept} = {x.id : x \in answers}
        /\ \A x, y \in kept : x.id = y.id => x = y}

AsTxn(x) == [id |-> x.id, sec |-> x.sec]
Secs(answers) == {x.sec : x \in answers} \ {None}

\* All windows are done.  Activities of accounts that were not listed are
\* dropped, their symbols kept; repeats from the shared day of two windows go.
EndActivities ==
    /\ pc = "activities"
    /\ stack = <<>>
    /\ cursor >= DtEnd
    /\ \E kept \in [listed -> SUBSET gathered] :
         /\ \A a \in listed :
              kept[a] \in OnePerId({x \in gathered : x.acct = a})
         /\ txns' = [a \in Accounts |-> IF a \in listed THEN {AsTxn(x) : x \in kept[a]}
                                                         ELSE {}]
    /\ symbols' = symbols \cup Secs(gathered)
    /\ pc' = "positions"
    /\ todo' = listed
    /\ UNCHANGED <<outside, listed, cursor, stack, gathered, holds, chunk, owed>>

\* 410 Gone: the windows are given up, and orders are asked for instead.
ActivitiesGone ==
    /\ pc = "activities" /\ personal
    /\ stack # <<>>
    /\ stack' = <<>>
    /\ pc' = "orders"
    /\ todo' = listed
    /\ UNCHANGED <<outside, listed, cursor, gathered, txns, symbols, holds, chunk, owed>>

OrdersOf(a) == {o \in Orders : o.acct = a}

\* Orders in another status, or without a fill or a date, are no transactions.
Executed(orders) == {o \in orders : o.executed}

\* One account's orders: of each id the first, and of those the executed ones.
GetOrders(a) ==
    /\ pc = "orders"
    /\ a \in todo
    /\ \E kept \in OnePerId(OrdersOf(a)) :
         /\ txns' = [txns EXCEPT ![a] = {AsTxn(o) : o \in Executed(kept)}]
         /\ symbols' = symbols \cup Secs(Executed(kept))
    /\ todo' = todo \ {a}
    /\ UNCHANGED <<outside, pc, listed, cursor, stack, gathered, holds, chunk, owed>>

EndOrders ==
    /\ pc = "orders"
    /\ todo = {}
    /\ pc' = "positions"
    /\ todo' = listed
    /\ UNCHANGED <<outside, listed, cursor, stack, gathered, txns, symbols, holds,
                   chunk, owed>>

-----------------------------------------------------------------------------
(***************************************************************************)
(* Positions, and the chunk.                                               *)
(***************************************************************************)

\* What an account may hold; a position without a symbol is left out.
Holdings == SUBSET Securities

\* Mutant: only what was traded goes into the registry.
GetPositionsUndescribed(a) ==
    /\ pc = "positions"
    /\ a \in todo
    /\ \E held \in Holdings : holds' = [holds EXCEPT ![a] = held]
    /\ UNCHANGED symbols
    /\ todo' = todo \ {a}
    /\ UNCHANGED <<outside, pc, listed, cursor, stack, gathered, txns, chunk, owed>>

GetPositions(a) ==
    /\ pc = "positions"
    /\ a \in todo
    /\ \E held \in Holdings :
         /\ holds' = [holds EXCEPT ![a] = held]
         /\ symbols' = symbols \cup held
    /\ todo' = todo \ {a}
    /\ UNCHANGED <<outside, pc, listed, cursor, stack, gathered, txns, chunk, owed>>

MergeChunk ==
    /\ pc = "positions"
    /\ todo = {}
    /\ chunk' = {[acct |-> a, txns |-> txns[a], holds |-> holds[a]] : a \in listed}
    /\ pc' = "done"
    /\ UNCHANGED <<outside, call, owed>>

\* A request fails, and with it the call: nothing was merged.
Raises ==
    /\ pc \notin {"done", "error"}
    /\ pc' = "error"
    /\ UNCHANGED <<outside, call, chunk, owed>>

CallStep ==
    \/ GetAccounts
    \/ NextWindow
    \/ TakePage
    \/ Bisect
    \/ TakeFullDay
    \/ EndActivities
    \/ ActivitiesGone
    \/ \E a \in Accounts : GetOrders(a)
    \/ EndOrders
    \/ \E a \in Accounts : GetPositions(a)
    \/ MergeChunk
    \/ Raises

Next ==
    \/ \E a \in Activities : Publish(a)
    \/ \E a \in Accounts : OpenAccount(a)
    \/ CallStep

\* Every request of the call ends, with an answer, an error or a timeout.
Spec == Init /\ [][Next]_vars /\ WF_vars(CallStep)

-----------------------------------------------------------------------------
(***************************************************************************)
(* The bisection "continues until the range is a single calendar day"      *)
(* (client.py:160) and loses nothing on the way: an activity that was      *)
(* there when the call began is merged, however pages fill up while they   *)
(* are split, unless its day alone fills a page.  For personal accounts so *)
(* is every executed order that shares its id with no other.  (A range     *)
(* without a day has no windows, and nothing is asked for.)                *)
(***************************************************************************)
NothingMissed ==
    pc = "done" /\ DtStart < DtEnd =>
      \A m \in chunk :
        /\ ~personal =>
             \A a \in owed :
               a.acct = m.acct /\ ~Full(<<a.day, a.day>>)
               => \E t \in m.txns : t.id = a.id
        /\ personal =>
             \A o \in Orders :
               /\ o.acct = m.acct /\ o.executed
               /\ \A other \in Orders : other.id = o.id => other = o
               => AsTxn(o) \in m.txns

(***************************************************************************)
(* The securities of a chunk describe every position and transaction in    *)
(* it, whichever endpoint they came from: what merge_chunk, and with it    *)
(* the registry, relies on (WellFormed in FilesystemStorage).              *)
(***************************************************************************)
ChunkDescribed ==
    pc = "done" =>
      \A m \in chunk : m.holds \cup Secs(m.txns) \subseteq symbols

(***************************************************************************)
(* The call ends: a range that is split gets shorter.                      *)
(***************************************************************************)
CallEnds == <>(pc \in {"done", "error"})
=============================================================================
