------------------------ MODULE SnapTradeBackendProofs ------------------------
(***************************************************************************)
(* The invariants of SnapTradeBackend for every range, window, page size,  *)
(* and any accounts, activities and orders: the bisection covers the range *)
(* whatever is published while pages are split, and a chunk describes the  *)
(* securities it names.                                                    *)
(***************************************************************************)
EXTENDS SnapTradeBackend, FiniteSetTheorems, SequenceTheorems, TLAPS

Shape ==
    /\ TypeOK
    /\ pc = "accounts" => cursor = DtStart /\ stack = <<>> /\ todo = {}
    /\ pc # "done" => chunk = {}

Owing == \A a \in owed : a \in upstream /\ DtStart <= a.day /\ a.day <= DtEnd

\* An activity has arrived, or will be asked for.
InRange(a, r) == r[1] <= a.day /\ a.day <= r[2]
Covered(a) ==
    \/ a \in gathered
    \/ \E i \in 1..Len(stack) : InRange(a, stack[i])
    \/ cursor < a.day
    \/ cursor = DtStart   \* no window has begun
Alone(a) == ~Full(<<a.day, a.day>>)

Asking ==
    pc \in {"accounts", "activities"} =>
      /\ ~personal => \A a \in owed : Alone(a) => Covered(a)
      /\ personal /\ stack = <<>> => cursor = DtStart

\* An executed order that shares its id with no other.
Sole(o) == o.executed /\ \A other \in Orders : other.id = o.id => other = o

\* What has been asked for is among the transactions.
Given ==
    pc \in {"orders", "positions"} /\ DtStart < DtEnd =>
      /\ ~personal =>
           /\ pc = "positions"
           /\ \A a \in owed : a.acct \in listed /\ Alone(a)
                              => \E t \in txns[a.acct] : t.id = a.id
      /\ personal =>
           \A o \in Orders :
             o.acct \in listed /\ (pc = "orders" => o.acct \notin todo) /\ Sole(o)
             => AsTxn(o) \in txns[o.acct]

Describing == \A a \in Accounts : holds[a] \cup Secs(txns[a]) \subseteq symbols

IInv ==
    /\ Shape /\ Owing /\ Asking /\ Given /\ Describing
    /\ NothingMissed /\ ChunkDescribed
-----------------------------------------------------------------------------
USE SnapTradeAssumption
USE DEF outside, call, vars

\* A page that is full stays full.
LEMMA FullGrows ==
  ASSUME upstream \subseteq upstream', upstream' \subseteq Activities, NEW range, Full(range)
  PROVE  Full(range)'
  <1> DEFINE before == Published(range)
             after == {a \in upstream' : range[1] <= a.day /\ a.day <= range[2]}
  <1>1. before \subseteq after /\ after \subseteq Activities
    BY DEF Published
  <1>2. IsFiniteSet(after)
    BY <1>1, FS_Subset
  <1>3. Cardinality(before) <= Cardinality(after) /\ IsFiniteSet(before)
    BY <1>1, <1>2, FS_Subset
  <1>4. Cardinality(before) \in Nat /\ Cardinality(after) \in Nat
    BY <1>2, <1>3, FS_CardinalityType
  <1>5. Full(range)' <=> Cardinality(after) >= PageLimit
    BY DEF Full, Published
  <1>6. Cardinality(before) >= PageLimit
    BY DEF Full
  <1> HIDE DEF before, after
  <1> QED
    BY <1>3, <1>4, <1>5, <1>6

LEMMA AloneBefore ==
  ASSUME upstream \subseteq upstream', upstream' \subseteq Activities, NEW a
  PROVE  Alone(a)' => Alone(a)
  BY FullGrows DEF Alone

LEMMA DaysAre ==
  ASSUME TypeOK
  PROVE  /\ \A a \in upstream \cup owed \cup gathered : a \in Activities /\ a.day \in Int
         /\ cursor \in Int
  BY DEF TypeOK

\* The ranges on the stack, one by one.
LEMMA StackIs ==
  ASSUME TypeOK, stack # <<>>
  PROVE  /\ Head(stack) \in Ranges /\ Tail(stack) \in Seq(Ranges)
         /\ Len(Tail(stack)) = Len(stack) - 1 /\ Len(stack) \in Nat
         /\ Head(stack) = stack[1]
         /\ \A i \in 1..Len(Tail(stack)) : Tail(stack)[i] = stack[i + 1]
  BY HeadTailProperties, LenProperties DEF TypeOK

LEMMA HalvesAre ==
  ASSUME NEW r \in Ranges, r[1] < r[2]
  PROVE  /\ Halves(r) \in Seq(Ranges) /\ Len(Halves(r)) = 2
         /\ \A day \in Int : r[1] <= day /\ day <= r[2] =>
              \/ Halves(r)[1][1] <= day /\ day <= Halves(r)[1][2]
              \/ Halves(r)[2][1] <= day /\ day <= Halves(r)[2][2]
  <1> DEFINE mid == r[1] + (r[2] - r[1]) \div 2
  <1>1. r[1] \in Int /\ r[2] \in Int
    BY DEF Ranges
  <1>2. mid \in Int /\ r[1] <= mid /\ mid < r[2]
    BY <1>1
  <1>3. Halves(r) = <<<<r[1], mid>>, <<mid + 1, r[2]>>>>
    BY DEF Halves
  <1> HIDE DEF mid
  <1>4. <<r[1], mid>> \in Ranges /\ <<mid + 1, r[2]>> \in Ranges
    BY <1>1, <1>2 DEF Ranges
  <1> QED
    BY <1>1, <1>2, <1>3, <1>4

LEMMA InitIInv == Init => IInv
  <1> SUFFICES ASSUME Init PROVE IInv
    OBVIOUS
  <1>1. TypeOK
    <2>1. stack \in Seq(Ranges)
      BY DEF Init
    <2>2. personal \in BOOLEAN
      BY DEF Init
    <2>3. txns \in [Accounts -> SUBSET Txn] /\ holds \in [Accounts -> SUBSET Securities]
      BY DEF Init, NoTxns
    <2> QED
      BY <2>1, <2>2, <2>3 DEF Init, TypeOK
  <1>2. Shape
    BY <1>1 DEF Init, Shape
  <1>3. Owing
    BY DEF Init, Owing
  <1>4. Asking /\ Given
    BY DEF Init, Asking, Given, Covered
  <1>5. Describing
    BY DEF Init, Describing, NoTxns, Secs
  <1>6. NothingMissed /\ ChunkDescribed
    BY DEF Init, NothingMissed, ChunkDescribed
  <1> QED
    BY <1>2, <1>3, <1>4, <1>5, <1>6 DEF IInv

\* SnapTrade publishes, opens an account, or nothing happens.
LEMMA OutsideKeeps ==
  ASSUME IInv, UNCHANGED <<personal, pc, call, chunk, owed>>,
         open' \subseteq Accounts, upstream \subseteq upstream', upstream' \subseteq Activities
  PROVE  IInv'
  <1>1. Shape /\ TypeOK /\ Owing /\ Asking /\ Given /\ Describing
        /\ NothingMissed /\ ChunkDescribed
    BY DEF IInv, Shape
  <1>2. \A a : Alone(a)' => Alone(a)
    BY AloneBefore
  <1>3. TypeOK'
    BY <1>1 DEF TypeOK
  <1>4. Shape'
    BY <1>1, <1>3 DEF Shape
  <1>5. Owing'
    BY <1>1 DEF Owing
  <1>6. Asking'
    BY <1>1, <1>2 DEF Asking, Covered
  <1>7. Given'
    BY <1>1, <1>2 DEF Given
  <1>8. Describing' /\ ChunkDescribed'
    BY <1>1 DEF Describing, ChunkDescribed
  <1>9. NothingMissed'
    BY <1>1, <1>2 DEF NothingMissed, Alone
  <1> QED
    BY <1>4, <1>5, <1>6, <1>7, <1>8, <1>9 DEF IInv

\* A step of the call before its merge: what is left to show.
LEMMA CallKeeps ==
  ASSUME IInv, UNCHANGED <<outside, chunk, owed>>, pc' # "done", pc # "done",
         pc' # "accounts", TypeOK', Asking', Given', Describing'
  PROVE  IInv'
  <1>1. Shape' /\ Owing'
    BY DEF IInv, Shape, Owing
  <1>2. NothingMissed' /\ ChunkDescribed'
    BY DEF NothingMissed, ChunkDescribed
  <1> QED
    BY <1>1, <1>2 DEF IInv

LEMMA RaisesKeeps == IInv /\ Raises => IInv'
  <1> SUFFICES ASSUME IInv, Raises PROVE IInv'
    OBVIOUS
  <1>1. /\ pc' = "error" /\ pc # "done"
        /\ UNCHANGED <<outside, call, chunk, owed>>
    BY DEF Raises
  <1>2. TypeOK'
    <2>1. TypeOK
      BY DEF IInv, Shape
    <2> QED
      BY <1>1, <2>1 DEF TypeOK
  <1>3. Describing'
    BY <1>1 DEF IInv, Describing
  <1>4. Asking' /\ Given'
    BY <1>1 DEF Asking, Given
  <1> QED
    BY <1>1, <1>2, <1>3, <1>4, CallKeeps

LEMMA GetAccountsKeeps == IInv /\ GetAccounts => IInv'
  <1> SUFFICES ASSUME IInv, GetAccounts PROVE IInv'
    OBVIOUS
  <1>1. /\ pc = "accounts" /\ pc' = "activities" /\ listed' = open
        /\ UNCHANGED <<outside, cursor, stack, gathered, todo, txns, symbols, holds,
                      chunk, owed>>
    BY DEF GetAccounts
  <1>2. TypeOK'
    <2>1. TypeOK /\ todo = {}
      BY <1>1 DEF IInv, Shape
    <2> QED
      BY <1>1, <2>1 DEF TypeOK
  <1>3. Describing'
    BY <1>1 DEF IInv, Describing
  <1>4. Asking' /\ Given'
    BY <1>1 DEF IInv, Shape, Asking, Given, Covered
  <1> QED
    BY <1>1, <1>2, <1>3, <1>4, CallKeeps

LEMMA NextWindowKeeps == IInv /\ NextWindow => IInv'
  <1> SUFFICES ASSUME IInv, NextWindow PROVE IInv'
    OBVIOUS
  <1> DEFINE last == Min2(cursor + Window, DtEnd)
  <1>1. /\ pc = "activities" /\ stack = <<>> /\ cursor < DtEnd
        /\ stack' = <<<<cursor, last>>>> /\ cursor' = last
        /\ UNCHANGED <<outside, pc, listed, gathered, todo, txns, symbols, holds,
                      chunk, owed>>
    BY DEF NextWindow
  <1>2. TypeOK /\ cursor \in Int
    BY DEF IInv, Shape, TypeOK
  <1>3. last \in Int /\ cursor < last
    BY <1>1, <1>2 DEF Min2
  <1> HIDE DEF last
  <1>4. <<cursor, last>> \in Ranges
    BY <1>2, <1>3 DEF Ranges
  <1>5. stack' \in Seq(Ranges) /\ Len(stack') = 1 /\ stack'[1] = <<cursor, last>>
    BY <1>1, <1>4
  <1>6. TypeOK'
    BY <1>1, <1>2, <1>3, <1>5 DEF TypeOK
  <1>7. Asking'
    <2>1. stack' # <<>>
      BY <1>5
    <2>2. \A a \in owed : ~personal /\ Alone(a) => Covered(a)'
      <3>1. SUFFICES ASSUME NEW a \in owed, ~personal, Alone(a) PROVE Covered(a)'
        OBVIOUS
      <3>2. Covered(a) /\ a.day \in Int /\ DtStart <= a.day
        BY <1>1, <1>2, <3>1, DaysAre DEF IInv, Asking, Owing
      <3>3. a \in gathered \/ cursor <= a.day
        BY <1>1, <1>2, <3>2 DEF Covered
      <3>4. cursor <= a.day /\ a.day <= last => InRange(a, stack'[1])
        BY <1>5 DEF InRange
      <3>5. a \in gathered \/ InRange(a, stack'[1]) \/ last < a.day
        BY <1>2, <1>3, <3>2, <3>3, <3>4
      <3> QED
        BY <1>1, <1>5, <3>5 DEF Covered
    <2>3. \A a : Alone(a)' <=> Alone(a)
      BY <1>1 DEF Alone, Full, Published
    <2> QED
      BY <1>1, <2>1, <2>2, <2>3 DEF Asking
  <1>8. Given' /\ Describing'
    BY <1>1 DEF IInv, Given, Describing
  <1> QED
    BY <1>1, <1>6, <1>7, <1>8, CallKeeps

(***************************************************************************)
(* A range leaves the stack: whatever it covered has arrived, or others on *)
(* the stack cover it now.                                                 *)
(***************************************************************************)
LEMMA PopKeeps ==
  ASSUME IInv, pc = "activities", ~personal, stack # <<>>,
         UNCHANGED <<outside, pc, listed, cursor, todo, txns, symbols, holds, chunk, owed>>,
         gathered \subseteq gathered', gathered' \subseteq Activities,
         stack' \in Seq(Ranges),
         \A i \in 1..Len(Tail(stack)) : \E j \in 1..Len(stack') : stack'[j] = Tail(stack)[i],
         \A a \in owed : Alone(a) /\ InRange(a, Head(stack)) => Covered(a)'
  PROVE  IInv'
  <1>1. TypeOK /\ Asking
    BY DEF IInv, Shape
  <1>2. TypeOK'
    BY <1>1 DEF TypeOK
  <1>3. Asking'
    <2>1. \A a \in owed : Alone(a) => Covered(a)'
      <3>1. SUFFICES ASSUME NEW a \in owed, Alone(a) PROVE Covered(a)'
        OBVIOUS
      <3>2. Covered(a)
        BY <1>1, <3>1 DEF Asking
      <3>3. CASE \E i \in 1..Len(stack) : InRange(a, stack[i])
        <4>1. PICK i \in 1..Len(stack) : InRange(a, stack[i])
          BY <3>3
        <4>2. CASE i = 1
          BY <1>1, <3>1, <4>1, <4>2, StackIs
        <4>3. CASE i # 1
          <5>1. i - 1 \in 1..Len(Tail(stack)) /\ stack[i] = Tail(stack)[i - 1]
            BY <1>1, <4>1, <4>3, StackIs
          <5>2. PICK j \in 1..Len(stack') : stack'[j] = Tail(stack)[i - 1]
            BY <5>1
          <5> QED
            BY <4>1, <5>1, <5>2 DEF Covered
        <4> QED
          BY <4>2, <4>3
      <3> QED
        BY <3>2, <3>3 DEF Covered
    <2>2. \A a : Alone(a)' <=> Alone(a)
      BY DEF Alone, Full, Published
    <2> QED
      BY <2>1, <2>2 DEF Asking
  <1>4. Given' /\ Describing'
    BY DEF IInv, Given, Describing
  <1> QED
    BY <1>2, <1>3, <1>4, CallKeeps

LEMMA TakePageKeeps == IInv /\ TakePage => IInv'
  <1> SUFFICES ASSUME IInv, TakePage PROVE IInv'
    OBVIOUS
  <1>1. /\ pc = "activities" /\ ~personal /\ stack # <<>> /\ stack' = Tail(stack)
        /\ gathered' = gathered \cup Published(Head(stack))
        /\ UNCHANGED <<outside, pc, listed, cursor, todo, txns, symbols, holds, chunk, owed>>
    BY DEF TakePage
  <1>2. TypeOK
    BY DEF IInv, Shape
  <1>3. gathered' \subseteq Activities
    BY <1>1, <1>2 DEF Published, TypeOK
  <1>4. stack' \in Seq(Ranges)
    BY <1>1, <1>2, StackIs
  <1>5. \A a \in owed : InRange(a, Head(stack)) => a \in gathered'
    BY <1>1 DEF InRange, Published, IInv, Owing
  <1> QED
    BY <1>1, <1>3, <1>4, <1>5, PopKeeps DEF Covered

LEMMA BisectKeeps == IInv /\ Bisect => IInv'
  <1> SUFFICES ASSUME IInv, Bisect PROVE IInv'
    OBVIOUS
  <1> DEFINE r == Head(stack)
  <1>1. /\ pc = "activities" /\ ~personal /\ stack # <<>>
        /\ r[1] < r[2] /\ stack' = Halves(r) \o Tail(stack)
        /\ UNCHANGED <<outside, pc, listed, cursor, gathered, todo, txns, symbols,
                      holds, chunk, owed>>
    BY DEF Bisect
  <1>2. TypeOK
    BY DEF IInv, Shape
  <1>3. r \in Ranges /\ Tail(stack) \in Seq(Ranges)
    BY <1>1, <1>2, StackIs
  <1> HIDE DEF r
  <1>4. /\ Halves(r) \in Seq(Ranges) /\ Len(Halves(r)) = 2
        /\ \A day \in Int : r[1] <= day /\ day <= r[2] =>
             \/ Halves(r)[1][1] <= day /\ day <= Halves(r)[1][2]
             \/ Halves(r)[2][1] <= day /\ day <= Halves(r)[2][2]
    BY <1>1, <1>3, HalvesAre
  <1>5. Len(Tail(stack)) \in Nat
    BY <1>3, LenProperties
  <1>6. /\ stack' \in Seq(Ranges) /\ Len(stack') = 2 + Len(Tail(stack))
        /\ \A i \in 1..2 + Len(Tail(stack)) :
             stack'[i] = IF i <= 2 THEN Halves(r)[i] ELSE Tail(stack)[i - 2]
    <2> DEFINE halves == Halves(r)
               rest == Tail(stack)
    <2>1. halves \in Seq(Ranges) /\ rest \in Seq(Ranges) /\ Len(halves) = 2
      BY <1>3, <1>4
    <2>2. stack' = halves \o rest
      BY <1>1
    <2> HIDE DEF halves, rest
    <2>3. /\ halves \o rest \in Seq(Ranges)
          /\ Len(halves \o rest) = Len(halves) + Len(rest)
          /\ \A i \in 1..(Len(halves) + Len(rest)) :
               (halves \o rest)[i] = IF i <= Len(halves) THEN halves[i]
                                     ELSE rest[i - Len(halves)]
      BY <2>1, ConcatProperties
    <2>4. /\ stack' \in Seq(Ranges) /\ Len(stack') = 2 + Len(rest)
          /\ \A i \in 1..2 + Len(rest) :
               stack'[i] = IF i <= 2 THEN halves[i] ELSE rest[i - 2]
      BY <2>1, <2>2, <2>3
    <2> QED
      BY <2>4 DEF halves, rest
  <1>7. \A i \in 1..Len(Tail(stack)) :
          i + 2 \in 1..Len(stack') /\ stack'[i + 2] = Tail(stack)[i]
    BY <1>5, <1>6
  <1>8. /\ 1 \in 1..Len(stack') /\ stack'[1] = Halves(r)[1]
        /\ 2 \in 1..Len(stack') /\ stack'[2] = Halves(r)[2]
    BY <1>5, <1>6
  <1>9. \A a \in owed : InRange(a, r) => InRange(a, stack'[1]) \/ InRange(a, stack'[2])
    BY <1>2, <1>4, <1>8, DaysAre DEF InRange
  <1>10. \A a \in owed : InRange(a, r) => Covered(a)'
    BY <1>8, <1>9 DEF Covered
  <1>11. gathered' \subseteq Activities
    BY <1>1, <1>2 DEF TypeOK
  <1> QED
    BY <1>1, <1>6, <1>7, <1>10, <1>11, PopKeeps DEF r

LEMMA TakeFullDayKeeps == IInv /\ TakeFullDay => IInv'
  <1> SUFFICES ASSUME IInv, TakeFullDay PROVE IInv'
    OBVIOUS
  <1>1. /\ pc = "activities" /\ ~personal /\ stack # <<>> /\ stack' = Tail(stack)
        /\ Full(Head(stack)) /\ Head(stack)[1] >= Head(stack)[2]
        /\ UNCHANGED <<outside, pc, listed, cursor, todo, txns, symbols, holds, chunk, owed>>
    BY DEF TakeFullDay
  <1>2. TypeOK
    BY DEF IInv, Shape
  <1>3. gathered \subseteq gathered' /\ gathered' \subseteq Activities
    BY <1>2 DEF TakeFullDay, Published, TypeOK
  <1>4. stack' \in Seq(Ranges)
    BY <1>1, <1>2, StackIs
  <1>5. \A a \in owed : InRange(a, Head(stack)) => ~Alone(a)
    <2>1. SUFFICES ASSUME NEW a \in owed, InRange(a, Head(stack)) PROVE ~Alone(a)
      OBVIOUS
    <2>2. Head(stack)[1] \in Int /\ Head(stack)[2] \in Int /\ a.day \in Int
      BY <1>1, <1>2, StackIs, DaysAre DEF Ranges
    <2>3. Head(stack)[1] = a.day /\ Head(stack)[2] = a.day
      BY <1>1, <2>1, <2>2 DEF InRange
    <2>4. Full(<<a.day, a.day>>)
      BY <1>1, <2>3 DEF Full, Published
    <2> QED
      BY <2>4 DEF Alone
  <1> QED
    BY <1>1, <1>3, <1>4, <1>5, PopKeeps

-----------------------------------------------------------------------------
(***************************************************************************)
(* From what was gathered to the transactions of the accounts.             *)
(***************************************************************************)

LEMMA TxnFields == \A x : AsTxn(x).id = x.id /\ AsTxn(x).sec = x.sec
  BY DEF AsTxn

LEMMA TxnsAre ==
  ASSUME NEW S, S \subseteq Activities \/ S \subseteq Orders
  PROVE  {AsTxn(x) : x \in S} \subseteq Txn
  <1>1. \A x \in Activities \cup Orders : x.sec \in Securities \cup {None}
    OBVIOUS
  <1>2. \A x \in S : AsTxn(x) \in Txn
    BY <1>1 DEF AsTxn, Txn
  <1> QED
    BY <1>2

\* What the normalised records name is what the answers name.
LEMMA SameSecs ==
  ASSUME NEW S
  PROVE  Secs({AsTxn(x) : x \in S}) = Secs(S)
  <1>1. {t.sec : t \in {AsTxn(x) : x \in S}} = {x.sec : x \in S}
    BY TxnFields
  <1> QED
    BY <1>1 DEF Secs

LEMMA SecsGrow ==
  ASSUME NEW S, NEW T, S \subseteq T
  PROVE  Secs(S) \subseteq Secs(T)
  BY DEF Secs

LEMMA SecsAre ==
  ASSUME NEW S, S \subseteq Activities \/ S \subseteq Orders
  PROVE  Secs(S) \subseteq Securities
  <1>1. \A x \in S : x.sec \in Securities \cup {None}
    OBVIOUS
  <1> QED
    BY <1>1 DEF Secs

LEMMA EndActivitiesKeeps == IInv /\ EndActivities => IInv'
  <1> SUFFICES ASSUME IInv, EndActivities PROVE IInv'
    OBVIOUS
  <1>1. /\ pc = "activities" /\ pc' = "positions" /\ stack = <<>> /\ cursor >= DtEnd
        /\ symbols' = symbols \cup Secs(gathered) /\ todo' = listed
        /\ UNCHANGED <<outside, listed, cursor, stack, gathered, holds, chunk, owed>>
    BY DEF EndActivities
  <1>2. PICK kept \in [listed -> SUBSET gathered] :
          /\ \A a \in listed : kept[a] \in OnePerId({x \in gathered : x.acct = a})
          /\ txns' = [a \in Accounts |-> IF a \in listed THEN {AsTxn(x) : x \in kept[a]}
                                                          ELSE {}]
    BY DEF EndActivities
  <1>3. /\ TypeOK /\ listed \subseteq Accounts /\ gathered \subseteq Activities
        /\ symbols \subseteq Securities
    BY DEF IInv, Shape, TypeOK
  <1>4. \A a \in Accounts :
          txns'[a] = IF a \in listed THEN {AsTxn(x) : x \in kept[a]} ELSE {}
    BY <1>2
  <1>5. TypeOK'
    <2>1. txns' \in [Accounts -> SUBSET Txn]
      <3>1. \A a \in listed : {AsTxn(x) : x \in kept[a]} \subseteq Txn
        BY <1>2, <1>3, TxnsAre
      <3> QED
        BY <1>2, <3>1
    <2>2. symbols' \subseteq Securities
      BY <1>1, <1>3, SecsAre
    <2> QED
      BY <1>1, <1>3, <2>1, <2>2 DEF TypeOK
  <1>6. Asking'
    BY <1>1 DEF Asking
  <1>7. Given'
    <2>1. SUFFICES ASSUME DtStart < DtEnd PROVE Given'
      BY DEF Given
    <2>2. ~personal
      BY <1>1, <1>3, <2>1 DEF IInv, Asking, TypeOK
    <2>3. \A a \in owed : a.acct \in listed /\ Alone(a)
                         => \E t \in txns'[a.acct] : t.id = a.id
      <3>1. SUFFICES ASSUME NEW a \in owed, a.acct \in listed, Alone(a)
                     PROVE  \E t \in txns'[a.acct] : t.id = a.id
        OBVIOUS
      <3>2. Covered(a)
        BY <1>1, <2>2, <3>1 DEF IInv, Asking
      <3>3. a.day \in Int /\ a.day <= DtEnd /\ cursor \in Int
        BY <1>3, DaysAre DEF IInv, Owing
      <3>4. a \in gathered
        <4>1. ~(cursor < a.day) /\ cursor # DtStart
          BY <1>1, <2>1, <3>3
        <4>2. Len(stack) = 0
          BY <1>1
        <4> QED
          BY <3>2, <4>1, <4>2 DEF Covered
      <3>5. {x.id : x \in kept[a.acct]} = {x.id : x \in {y \in gathered : y.acct = a.acct}}
        BY <1>2, <3>1 DEF OnePerId
      <3>6. PICK x \in kept[a.acct] : x.id = a.id
        BY <3>4, <3>5
      <3>7. AsTxn(x) \in txns'[a.acct] /\ AsTxn(x).id = a.id
        <4>1. txns'[a.acct] = {AsTxn(y) : y \in kept[a.acct]}
          BY <1>3, <1>4, <3>1
        <4>2. AsTxn(x) \in txns'[a.acct]
          BY <4>1, <3>6
        <4> QED
          BY <4>2, <3>6, TxnFields
      <3> QED
        BY <3>7
    <2>4. \A a : Alone(a)' <=> Alone(a)
      BY <1>1 DEF Alone, Full, Published
    <2> QED
      BY <1>1, <2>2, <2>3, <2>4 DEF Given
  <1>8. Describing'
    <2>1. SUFFICES ASSUME NEW a \in Accounts
                   PROVE  holds'[a] \cup Secs(txns'[a]) \subseteq symbols'
      BY DEF Describing
    <2>2. holds'[a] \subseteq symbols'
      BY <1>1 DEF IInv, Describing
    <2>3. Secs(txns'[a]) \subseteq Secs(gathered)
      <3>1. CASE a \in listed
        <4>1. txns'[a] = {AsTxn(x) : x \in kept[a]} /\ kept[a] \subseteq gathered
          BY <1>2, <1>4, <3>1
        <4>2. Secs(txns'[a]) = Secs(kept[a])
          BY <4>1, SameSecs
        <4> QED
          BY <4>1, <4>2, SecsGrow
      <3>2. CASE a \notin listed
        BY <1>4, <3>2 DEF Secs
      <3> QED
        BY <3>1, <3>2
    <2> QED
      BY <1>1, <2>2, <2>3
  <1> QED
    BY <1>1, <1>5, <1>6, <1>7, <1>8, CallKeeps

LEMMA ActivitiesGoneKeeps == IInv /\ ActivitiesGone => IInv'
  <1> SUFFICES ASSUME IInv, ActivitiesGone PROVE IInv'
    OBVIOUS
  <1>1. /\ pc = "activities" /\ pc' = "orders" /\ personal /\ stack' = <<>>
        /\ todo' = listed
        /\ UNCHANGED <<outside, listed, cursor, gathered, txns, symbols, holds, chunk, owed>>
    BY DEF ActivitiesGone
  <1>2. TypeOK
    BY DEF IInv, Shape
  <1>3. stack' \in Seq(Ranges)
    BY <1>1
  <1>4. TypeOK'
    BY <1>1, <1>2, <1>3 DEF TypeOK
  <1>5. Asking' /\ Given'
    BY <1>1 DEF Asking, Given
  <1>6. Describing'
    BY <1>1 DEF IInv, Describing
  <1> QED
    BY <1>1, <1>4, <1>5, <1>6, CallKeeps

LEMMA GetOrdersKeeps == ASSUME NEW b \in Accounts, IInv, GetOrders(b) PROVE IInv'
  <1>1. /\ pc = "orders" /\ b \in todo /\ todo' = todo \ {b}
        /\ UNCHANGED <<outside, pc, listed, cursor, stack, gathered, holds, chunk, owed>>
    BY DEF GetOrders
  <1>2. PICK kept \in OnePerId(OrdersOf(b)) :
          /\ txns' = [txns EXCEPT ![b] = {AsTxn(o) : o \in Executed(kept)}]
          /\ symbols' = symbols \cup Secs(Executed(kept))
    BY DEF GetOrders
  <1>3. /\ TypeOK /\ txns \in [Accounts -> SUBSET Txn] /\ symbols \subseteq Securities
        /\ todo \subseteq listed
    BY DEF IInv, Shape, TypeOK
  <1>4. Executed(kept) \subseteq kept /\ kept \subseteq Orders
    BY DEF OnePerId, OrdersOf, Executed
  <1>5. \A a \in Accounts :
          txns'[a] = IF a = b THEN {AsTxn(o) : o \in Executed(kept)} ELSE txns[a]
    BY <1>2, <1>3
  <1>6. TypeOK'
    <2>1. {AsTxn(o) : o \in Executed(kept)} \subseteq Txn
      BY <1>4, TxnsAre
    <2>2. txns' \in [Accounts -> SUBSET Txn]
      BY <1>2, <1>3, <2>1
    <2>3. symbols' \subseteq Securities
      BY <1>2, <1>3, <1>4, SecsAre
    <2> QED
      BY <1>1, <1>3, <2>2, <2>3 DEF TypeOK
  <1>7. Asking'
    BY <1>1 DEF Asking
  <1>8. Given'
    <2>1. SUFFICES ASSUME DtStart < DtEnd PROVE Given'
      BY DEF Given
    <2>2. personal
      BY <1>1, <1>3, <2>1 DEF IInv, Given, TypeOK
    <2>3. SUFFICES ASSUME NEW o \in Orders, o.acct \in listed, o.acct \notin todo', Sole(o)
                   PROVE  AsTxn(o) \in txns'[o.acct]
      BY <1>1, <2>2 DEF Given
    <2>4. CASE o.acct = b
      <3>1. o \in OrdersOf(b)
        BY <2>3, <2>4 DEF OrdersOf
      <3>2. PICK first \in kept : first.id = o.id
        <4>1. {x.id : x \in kept} = {x.id : x \in OrdersOf(b)}
          BY DEF OnePerId
        <4> QED
          BY <3>1, <4>1
      <3>3. o \in Executed(kept)
        BY <1>4, <2>3, <3>2 DEF Sole, Executed
      <3> QED
        BY <1>5, <2>4, <3>3
    <2>5. CASE o.acct # b
      <3>1. o.acct \notin todo /\ o.acct \in Accounts
        BY <1>1, <1>3, <2>3, <2>5 DEF TypeOK
      <3>2. AsTxn(o) \in txns[o.acct]
        BY <1>1, <2>1, <2>2, <2>3, <3>1 DEF IInv, Given
      <3> QED
        BY <1>5, <2>5, <3>1, <3>2
    <2> QED
      BY <2>4, <2>5
  <1>9. Describing'
    <2>1. SUFFICES ASSUME NEW a \in Accounts
                   PROVE  holds'[a] \cup Secs(txns'[a]) \subseteq symbols'
      BY DEF Describing
    <2>2. holds'[a] \subseteq symbols' /\ Secs(txns[a]) \subseteq symbols'
      BY <1>1, <1>2 DEF IInv, Describing
    <2>3. Secs({AsTxn(o) : o \in Executed(kept)}) \subseteq symbols'
      BY <1>2, SameSecs
    <2> QED
      BY <1>5, <2>2, <2>3
  <1> QED
    BY <1>1, <1>6, <1>7, <1>8, <1>9, CallKeeps

LEMMA EndOrdersKeeps == IInv /\ EndOrders => IInv'
  <1> SUFFICES ASSUME IInv, EndOrders PROVE IInv'
    OBVIOUS
  <1>1. /\ pc = "orders" /\ todo = {} /\ pc' = "positions" /\ todo' = listed
        /\ UNCHANGED <<outside, listed, cursor, stack, gathered, txns, symbols, holds,
                      chunk, owed>>
    BY DEF EndOrders
  <1>2. TypeOK
    BY DEF IInv, Shape
  <1>3. TypeOK'
    BY <1>1, <1>2 DEF TypeOK
  <1>4. Asking'
    BY <1>1 DEF Asking
  <1>5. Given'
    <2>1. SUFFICES ASSUME DtStart < DtEnd PROVE Given'
      BY DEF Given
    <2>2. personal
      BY <1>1, <1>2, <2>1 DEF IInv, Given, TypeOK
    <2> QED
      BY <1>1, <2>1, <2>2 DEF IInv, Given
  <1>6. Describing'
    BY <1>1 DEF IInv, Describing
  <1> QED
    BY <1>1, <1>3, <1>4, <1>5, <1>6, CallKeeps

LEMMA GetPositionsKeeps == ASSUME NEW b \in Accounts, IInv, GetPositions(b) PROVE IInv'
  <1>1. /\ pc = "positions" /\ todo' = todo \ {b}
        /\ UNCHANGED <<outside, pc, listed, cursor, stack, gathered, txns, chunk, owed>>
    BY DEF GetPositions
  <1>2. PICK held \in Holdings :
          holds' = [holds EXCEPT ![b] = held] /\ symbols' = symbols \cup held
    BY DEF GetPositions
  <1>3. /\ TypeOK /\ holds \in [Accounts -> SUBSET Securities]
        /\ symbols \subseteq Securities /\ todo \subseteq listed
        /\ held \subseteq Securities
    BY DEF IInv, Shape, TypeOK, Holdings
  <1>4. \A a \in Accounts : holds'[a] = IF a = b THEN held ELSE holds[a]
    BY <1>2, <1>3
  <1>5. TypeOK'
    <2>1. holds' \in [Accounts -> SUBSET Securities]
      BY <1>2, <1>3
    <2>2. symbols' \subseteq Securities
      BY <1>2, <1>3
    <2> QED
      BY <1>1, <1>3, <2>1, <2>2 DEF TypeOK
  <1>6. Asking'
    BY <1>1 DEF Asking
  <1>7. Given'
    <2>1. \A a : Alone(a)' <=> Alone(a)
      BY <1>1 DEF Alone, Full, Published
    <2> QED
      BY <1>1, <2>1 DEF IInv, Given
  <1>8. Describing'
    BY <1>1, <1>2, <1>4 DEF IInv, Describing
  <1> QED
    BY <1>1, <1>5, <1>6, <1>7, <1>8, CallKeeps

LEMMA MergeChunkKeeps == IInv /\ MergeChunk => IInv'
  <1> SUFFICES ASSUME IInv, MergeChunk PROVE IInv'
    OBVIOUS
  <1>1. /\ pc = "positions" /\ pc' = "done" /\ UNCHANGED <<outside, call, owed>>
        /\ chunk' = {[acct |-> a, txns |-> txns[a], holds |-> holds[a]] : a \in listed}
    BY DEF MergeChunk
  <1>2. /\ TypeOK /\ listed \subseteq Accounts /\ txns \in [Accounts -> SUBSET Txn]
        /\ holds \in [Accounts -> SUBSET Securities]
    BY DEF IInv, Shape, TypeOK
  <1>3. \A m \in chunk' : /\ m.acct \in listed
                          /\ m.txns = txns[m.acct] /\ m.holds = holds[m.acct]
    BY <1>1
  <1>4. TypeOK'
    <2>1. chunk' \subseteq [acct : Accounts, txns : SUBSET Txn, holds : SUBSET Securities]
      BY <1>1, <1>2
    <2> QED
      BY <1>1, <1>2, <2>1 DEF TypeOK
  <1>5. Shape' /\ Owing'
    BY <1>1, <1>4 DEF IInv, Shape, Owing
  <1>6. Asking' /\ Given'
    BY <1>1 DEF Asking, Given
  <1>7. Describing'
    BY <1>1 DEF IInv, Describing
  <1>8. ChunkDescribed'
    BY <1>1, <1>2, <1>3 DEF IInv, Describing, ChunkDescribed
  <1>9. NothingMissed'
    <2>1. SUFFICES ASSUME DtStart < DtEnd, NEW m \in chunk'
                   PROVE  /\ ~personal =>
                               \A a \in owed : a.acct = m.acct /\ Alone(a)
                                               => \E t \in m.txns : t.id = a.id
                          /\ personal =>
                               \A o \in Orders : o.acct = m.acct /\ Sole(o)
                                                 => AsTxn(o) \in m.txns
      BY <1>1 DEF NothingMissed, Alone, Full, Published, Sole
    <2> QED
      BY <1>1, <1>3, <2>1 DEF IInv, Given
  <1> QED
    BY <1>5, <1>6, <1>7, <1>8, <1>9 DEF IInv

LEMMA NextIInv == IInv /\ [Next]_vars => IInv'
  <1> SUFFICES ASSUME IInv, [Next]_vars PROVE IInv'
    OBVIOUS
  <1>1. TypeOK
    BY DEF IInv, Shape
  <1>2. CASE \E a \in Activities : Publish(a)
    <2>1. /\ UNCHANGED <<personal, pc, call, chunk, owed>> /\ open' \subseteq Accounts
          /\ upstream \subseteq upstream' /\ upstream' \subseteq Activities
      BY <1>1, <1>2 DEF Publish, TypeOK
    <2> QED
      BY <2>1, OutsideKeeps
  <1>3. CASE \E a \in Accounts : OpenAccount(a)
    <2>1. /\ UNCHANGED <<personal, pc, call, chunk, owed>> /\ open' \subseteq Accounts
          /\ upstream \subseteq upstream' /\ upstream' \subseteq Activities
      BY <1>1, <1>3 DEF OpenAccount, TypeOK
    <2> QED
      BY <2>1, OutsideKeeps
  <1>4. CASE CallStep
    BY <1>4, GetAccountsKeeps, NextWindowKeeps, TakePageKeeps, BisectKeeps,
       TakeFullDayKeeps, EndActivitiesKeeps, ActivitiesGoneKeeps, GetOrdersKeeps,
       EndOrdersKeeps, GetPositionsKeeps, MergeChunkKeeps, RaisesKeeps DEF CallStep
  <1>5. CASE UNCHANGED vars
    <2>1. /\ UNCHANGED <<personal, pc, call, chunk, owed>> /\ open' \subseteq Accounts
          /\ upstream \subseteq upstream' /\ upstream' \subseteq Activities
      BY <1>1, <1>5 DEF TypeOK
    <2> QED
      BY <2>1, OutsideKeeps
  <1> QED
    BY <1>2, <1>3, <1>4, <1>5 DEF Next

LEMMA Inductive == Spec => []IInv
  BY InitIInv, NextIInv, PTL DEF Spec

(***************************************************************************)
(* Every variable keeps its type: the ranges that are asked for hold a day *)
(* or more, however often they are split.                                  *)
(***************************************************************************)
THEOREM TypeCorrect == Spec => []TypeOK
  <1>1. IInv => TypeOK
    BY DEF IInv, Shape
  <1> QED
    BY <1>1, Inductive, PTL

(***************************************************************************)
(* What was published when the call began is merged, unless its day alone  *)
(* fills a page: for every range, window and page size, and whatever is    *)
(* published while get_activities splits its pages.                        *)
(***************************************************************************)
THEOREM NothingIsMissed == Spec => []NothingMissed
  <1>1. IInv => NothingMissed
    BY DEF IInv
  <1> QED
    BY <1>1, Inductive, PTL

(***************************************************************************)
(* The chunk that is merged describes every security it names.             *)
(***************************************************************************)
THEOREM ChunkIsDescribed == Spec => []ChunkDescribed
  <1>1. IInv => ChunkDescribed
    BY DEF IInv
  <1> QED
    BY <1>1, Inductive, PTL
=============================================================================
