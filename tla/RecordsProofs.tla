----------------------------- MODULE RecordsProofs -----------------------------
(***************************************************************************)
(* The properties of Records, for every set of answers, connections and    *)
(* names.  They rest on what a merge leaves in a file (CashAdded,          *)
(* InvestmentAdded), which Picked computes by recursion over the answer and*)
(* which is proved by induction over its length, and on an invariant that  *)
(* says what is on disk and queued (Contents) and which files the walk of  *)
(* `finstore validate` has still ahead of it (Walked).                     *)
(***************************************************************************)
EXTENDS Records, WellFoundedInduction, TLAPS

(***************************************************************************)
(* Induction over the length of a sequence, stated of a set of numbers.    *)
(***************************************************************************)
LEMMA Least ==
  ASSUME NEW S \in SUBSET Nat, S # {}
  PROVE  \E n \in S : \A m \in S : n <= m
  <1> DEFINE R == OpToRel(<, Nat)
  <1>1. \E x \in S : \A y \in S : ~(<<y, x>> \in R)
    <2>1. IsWellFoundedOn(R, Nat)
      BY NatLessThanWellFounded, Zenon
    <2> HIDE DEF R
    <2> QED
      BY <2>1, WFMin
  <1>2. \A x, y \in S : <<y, x>> \notin R => x <= y
    BY DEF OpToRel
  <1> HIDE DEF R
  <1> QED
    BY <1>1, <1>2

\* A set of numbers that has 0, and with a number its successor, has them all.
LEMMA Induction ==
  ASSUME NEW S \in SUBSET Nat, 0 \in S, \A n \in S : n + 1 \in S
  PROVE  S = Nat
  <1>1. SUFFICES ASSUME Nat \ S # {} PROVE FALSE
    OBVIOUS
  <1>2. PICK n \in Nat \ S : \A m \in Nat \ S : n <= m
    BY <1>1, Least
  <1>3. n # 0 /\ n - 1 \in Nat /\ n - 1 \in S
    BY <1>2
  <1> QED
    BY <1>2, <1>3

\* The recursion in Picked, and a function that satisfies it up to m.
PickedNext(txns, taken, picked, n) ==
    IF n = 0 THEN <<>>
    ELSE IF n \in taken THEN Append(picked[n - 1], txns[n])
    ELSE picked[n - 1]

PickedUpTo(txns, taken, m, picked) ==
    picked = [n \in 0..m |-> PickedNext(txns, taken, picked, n)]

\* What such a function has at each place.
LEMMA PickedStep ==
  ASSUME NEW txns, NEW taken, NEW m \in Nat, NEW picked,
         PickedUpTo(txns, taken, m, picked), NEW n \in 0..m
  PROVE  picked[n] = PickedNext(txns, taken, picked, n)
  BY DEF PickedUpTo

\* It has a solution, whatever the length.
LEMMA PickedExists ==
  ASSUME NEW txns, NEW taken, NEW m \in Nat
  PROVE  \E picked : PickedUpTo(txns, taken, m, picked)
  <1> DEFINE S == {k \in Nat : \E picked : PickedUpTo(txns, taken, k, picked)}
  <1>1. 0 \in S
    <2>1. PickedUpTo(txns, taken, 0, [n \in 0..0 |-> <<>>])
      BY DEF PickedUpTo
    <2> QED
      BY <2>1
  <1>2. ASSUME NEW k \in S PROVE k + 1 \in S
    <2>1. PICK g : PickedUpTo(txns, taken, k, g)
      OBVIOUS
    <2>2. k \in Nat
      OBVIOUS
    <2> DEFINE last == IF k + 1 \in taken THEN Append(g[k], txns[k + 1]) ELSE g[k]
               h == [n \in 0..(k + 1) |-> IF n = k + 1 THEN last ELSE g[n]]
    <2>3. /\ DOMAIN h = 0..(k + 1) /\ h[k + 1] = last
          /\ \A n \in 0..k : h[n] = g[n]
      BY <2>2
    <2>4. /\ g[0] = <<>>
          /\ \A n \in 1..k : g[n] = IF n \in taken THEN Append(g[n - 1], txns[n]) ELSE g[n - 1]
      <3>1. \A n \in 0..k : g[n] = PickedNext(txns, taken, g, n)
        BY <2>1, <2>2, PickedStep
      <3> QED
        BY <2>2, <3>1 DEF PickedNext
    <2>5. h = [n \in 0..(k + 1) |-> h[n]]
      OBVIOUS
    <2> HIDE DEF h
    <2>6. ASSUME NEW n \in 0..(k + 1)
          PROVE  h[n] = PickedNext(txns, taken, h, n)
      <3> USE DEF PickedNext
      <3>1. CASE n = 0
        BY <2>2, <2>3, <2>4, <3>1
      <3>2. CASE n \in 1..k
        <4>1. h[n] = g[n] /\ h[n - 1] = g[n - 1] /\ n # 0
          BY <2>2, <2>3, <3>2
        <4> QED
          BY <2>4, <3>2, <4>1
      <3>3. CASE n = k + 1
        <4>1. h[n] = last /\ h[n - 1] = g[k] /\ n # 0
          BY <2>2, <2>3, <3>3
        <4> QED
          BY <3>3, <4>1
      <3> QED
        BY <2>2, <3>1, <3>2, <3>3
    <2>7. PickedUpTo(txns, taken, k + 1, h)
      BY <2>5, <2>6 DEF PickedUpTo
    <2> QED
      BY <2>2, <2>7
  <1> HIDE DEF S
  <1>3. S = Nat
    BY <1>1, <1>2, Induction DEF S
  <1> QED
    BY <1>3 DEF S

\* Picked is what that function has at the end.
LEMMA PickedFinal ==
  ASSUME NEW txns, NEW taken, Len(txns) \in Nat
  PROVE  \E picked : /\ PickedUpTo(txns, taken, Len(txns), picked)
                     /\ Picked(txns, taken) = picked[Len(txns)]
  <1> DEFINE f == CHOOSE g : PickedUpTo(txns, taken, Len(txns), g)
  <1>1. PickedUpTo(txns, taken, Len(txns), f)
    BY PickedExists
  <1>2. Picked(txns, taken) = f[Len(txns)]
    BY DEF Picked, PickedUpTo, PickedNext
  <1> QED
    BY <1>1, <1>2

\* r consists of entries of txns at taken indices up to n, in their order.
EntriesOf(r, txns, taken, n) ==
    \E h \in [1..Len(r) -> Nat] :
      /\ \A a \in 1..Len(r) : h[a] \in taken /\ h[a] \in 1..n /\ r[a] = txns[h[a]]
      /\ \A a, b \in 1..Len(r) : a < b => h[a] < h[b]

\* One more of them.
LEMMA EntryAppended ==
  ASSUME NEW T, NEW r \in Seq(T), NEW txns, NEW taken, NEW n \in Nat,
         EntriesOf(r, txns, taken, n), n + 1 \in taken, txns[n + 1] \in T
  PROVE  /\ Append(r, txns[n + 1]) \in Seq(T)
         /\ EntriesOf(Append(r, txns[n + 1]), txns, taken, n + 1)
  <1> DEFINE s == Append(r, txns[n + 1])
  <1>1. /\ s \in Seq(T) /\ Len(r) \in Nat /\ Len(s) = Len(r) + 1
        /\ s[Len(r) + 1] = txns[n + 1]
        /\ \A a \in 1..Len(r) : s[a] = r[a]
    OBVIOUS
  <1> HIDE DEF s
  <1>2. PICK h \in [1..Len(r) -> Nat] :
          /\ \A a \in 1..Len(r) : h[a] \in taken /\ h[a] \in 1..n /\ r[a] = txns[h[a]]
          /\ \A a, b \in 1..Len(r) : a < b => h[a] < h[b]
    BY DEF EntriesOf
  <1> DEFINE g == [a \in 1..Len(s) |-> IF a = Len(r) + 1 THEN n + 1 ELSE h[a]]
  <1>3. /\ g \in [1..Len(s) -> Nat] /\ g[Len(r) + 1] = n + 1
        /\ \A a \in 1..Len(r) : g[a] = h[a]
    BY <1>1
  <1> HIDE DEF g
  <1>4. ASSUME NEW a \in 1..Len(s)
        PROVE  g[a] \in taken /\ g[a] \in 1..(n + 1) /\ s[a] = txns[g[a]]
    <2>1. CASE a \in 1..Len(r)
      BY <1>1, <1>2, <1>3, <2>1
    <2>2. CASE a = Len(r) + 1
      BY <1>1, <1>3, <2>2
    <2> QED
      BY <1>1, <2>1, <2>2
  <1>5. ASSUME NEW a \in 1..Len(s), NEW b \in 1..Len(s), a < b
        PROVE  g[a] < g[b]
    <2>1. a \in 1..Len(r) /\ g[a] = h[a] /\ h[a] \in 1..n
      BY <1>1, <1>2, <1>3, <1>5
    <2>2. CASE b \in 1..Len(r)
      BY <1>2, <1>3, <1>5, <2>1, <2>2
    <2>3. CASE b = Len(r) + 1
      BY <1>3, <2>1, <2>3
    <2> QED
      BY <1>1, <2>2, <2>3
  <1> QED
    BY <1>1, <1>3, <1>4, <1>5 DEF EntriesOf, s

\* What Picked returns: entries at taken indices, in their order.
LEMMA PickedEntries ==
  ASSUME NEW T, NEW txns \in Seq(T), NEW taken \in SUBSET (DOMAIN txns)
  PROVE  /\ Picked(txns, taken) \in Seq(T)
         /\ EntriesOf(Picked(txns, taken), txns, taken, Len(txns))
  <1>1. Len(txns) \in Nat /\ \A i \in taken : i \in 1..Len(txns) /\ txns[i] \in T
    OBVIOUS
  <1>2. PICK picked : /\ PickedUpTo(txns, taken, Len(txns), picked)
                      /\ Picked(txns, taken) = picked[Len(txns)]
    BY <1>1, PickedFinal
  <1>3. \A n \in 0..Len(txns) : picked[n] = PickedNext(txns, taken, picked, n)
    BY <1>1, <1>2, PickedStep
  <1> DEFINE S == {n \in Nat : n <= Len(txns) =>
                     picked[n] \in Seq(T) /\ EntriesOf(picked[n], txns, taken, n)}
  <1>4. 0 \in S
    <2>1. picked[0] = <<>>
      BY <1>1, <1>3 DEF PickedNext
    <2>2. picked[0] \in Seq(T) /\ Len(picked[0]) = 0
      BY <2>1
    <2>3. EntriesOf(picked[0], txns, taken, 0)
      <3>1. [a \in 1..0 |-> 0] \in [1..Len(picked[0]) -> Nat] /\ 1..Len(picked[0]) = {}
        BY <2>2
      <3> QED
        BY <3>1 DEF EntriesOf
    <2> QED
      BY <2>2, <2>3
  <1>5. ASSUME NEW n \in S PROVE n + 1 \in S
    <2>1. n \in Nat
      OBVIOUS
    <2>2. SUFFICES ASSUME n + 1 <= Len(txns)
                   PROVE  /\ picked[n + 1] \in Seq(T)
                          /\ EntriesOf(picked[n + 1], txns, taken, n + 1)
      BY <2>1
    <2>3. picked[n] \in Seq(T) /\ EntriesOf(picked[n], txns, taken, n)
      BY <1>1, <2>1, <2>2
    <2>4. picked[n + 1] = IF n + 1 \in taken THEN Append(picked[n], txns[n + 1]) ELSE picked[n]
      BY <1>1, <1>3, <2>1, <2>2 DEF PickedNext
    <2>5. CASE n + 1 \in taken
      BY <1>1, <2>1, <2>3, <2>4, <2>5, EntryAppended
    <2>6. CASE n + 1 \notin taken
      <3>1. PICK h \in [1..Len(picked[n]) -> Nat] :
              /\ \A a \in 1..Len(picked[n]) :
                   h[a] \in taken /\ h[a] \in 1..n /\ picked[n][a] = txns[h[a]]
              /\ \A a, b \in 1..Len(picked[n]) : a < b => h[a] < h[b]
        BY <2>3 DEF EntriesOf
      <3>2. \A a \in 1..Len(picked[n]) : h[a] \in 1..(n + 1)
        BY <2>1, <3>1
      <3> QED
        <4>1. EntriesOf(picked[n], txns, taken, n + 1)
          BY <3>1, <3>2 DEF EntriesOf
        <4> QED
          BY <2>3, <2>4, <2>6, <4>1
    <2> QED
      BY <2>5, <2>6
  <1> HIDE DEF S
  <1>6. Len(txns) \in S
    <2>1. S = Nat
      BY <1>4, <1>5, Induction DEF S
    <2> QED
      BY <1>1, <2>1
  <1> QED
    BY <1>1, <1>2, <1>6 DEF S

\* r is stored, with entries of txns at taken indices behind it, in their order.
Extends(r, stored, txns, taken) ==
    \E h \in [1..Len(r) -> Nat] :
      /\ Len(stored) <= Len(r)
      /\ \A a \in 1..Len(stored) : r[a] = stored[a]
      /\ \A a \in 1..Len(r) : a > Len(stored) => h[a] \in taken /\ r[a] = txns[h[a]]
      /\ \A a, b \in 1..Len(r) : Len(stored) < a /\ a < b => h[a] < h[b]

\* What is stored with a choice of the answer behind it.
LEMMA PickedExtends ==
  ASSUME NEW T, NEW stored \in Seq(T), NEW txns \in Seq(T),
         NEW taken \in SUBSET (DOMAIN txns)
  PROVE  /\ stored \o Picked(txns, taken) \in Seq(T)
         /\ Extends(stored \o Picked(txns, taken), stored, txns, taken)
  <1> DEFINE p == Picked(txns, taken)
             r == stored \o p
  <1>1. p \in Seq(T) /\ EntriesOf(p, txns, taken, Len(txns))
    BY PickedEntries
  <1> HIDE DEF p
  <1>2. PICK g \in [1..Len(p) -> Nat] :
          /\ \A a \in 1..Len(p) : g[a] \in taken /\ p[a] = txns[g[a]]
          /\ \A a, b \in 1..Len(p) : a < b => g[a] < g[b]
    BY <1>1 DEF EntriesOf
  <1>3. /\ r \in Seq(T) /\ Len(stored) \in Nat /\ Len(p) \in Nat
        /\ Len(r) = Len(stored) + Len(p)
        /\ \A a \in 1..Len(stored) : r[a] = stored[a]
        /\ \A a \in 1..Len(r) : a > Len(stored) => r[a] = p[a - Len(stored)]
    BY <1>1
  <1> DEFINE h == [a \in 1..Len(r) |-> IF a > Len(stored) THEN g[a - Len(stored)] ELSE 0]
  <1> HIDE DEF r
  <1>4. \A a \in 1..Len(r) : a > Len(stored) => a - Len(stored) \in 1..Len(p)
    BY <1>3
  <1>5. /\ h \in [1..Len(r) -> Nat]
        /\ \A a \in 1..Len(r) : a > Len(stored) => h[a] = g[a - Len(stored)]
    BY <1>3, <1>4
  <1> HIDE DEF h
  <1>6. ASSUME NEW a \in 1..Len(r), a > Len(stored)
        PROVE  h[a] \in taken /\ r[a] = txns[h[a]]
    <2> DEFINE c == a - Len(stored)
    <2>1. c \in 1..Len(p) /\ h[a] = g[c] /\ r[a] = p[c]
      BY <1>3, <1>4, <1>5, <1>6
    <2> HIDE DEF c
    <2> QED
      BY <1>2, <2>1
  <1>7. ASSUME NEW a \in 1..Len(r), NEW b \in 1..Len(r), Len(stored) < a, a < b
        PROVE  h[a] < h[b]
    <2> DEFINE c == a - Len(stored)
               d == b - Len(stored)
    <2>1. c \in 1..Len(p) /\ d \in 1..Len(p) /\ c < d
      BY <1>3, <1>4, <1>7
    <2>2. h[a] = g[c] /\ h[b] = g[d]
      BY <1>3, <1>5, <1>7
    <2> HIDE DEF c, d
    <2> QED
      BY <1>2, <2>1, <2>2
  <1>8. Extends(r, stored, txns, taken)
    <2>1. Len(stored) <= Len(r)
      BY <1>3
    <2> QED
      BY <1>3, <1>5, <1>6, <1>7, <2>1 DEF Extends
  <1> QED
    BY <1>3, <1>8 DEF r, p

\* What is stored stays in front, and nothing behind it has an id of it.
KeepsStored(r, stored) ==
    /\ Len(stored) <= Len(r)
    /\ \A a \in 1..Len(stored) : r[a] = stored[a]
    /\ \A a \in 1..Len(r) : a > Len(stored) => r[a].id \notin IdsOf(stored)

\* If none of the choice has an id that is stored.
LEMMA ExtendsKeeps ==
  ASSUME NEW T, NEW r \in Seq(T), NEW stored \in Seq(T), NEW txns \in Seq(T),
         NEW taken \in SUBSET NewTo(stored, txns), Extends(r, stored, txns, taken)
  PROVE  KeepsStored(r, stored)
  BY DEF Extends, KeepsStored, NewTo

\* An id that is twice among stored and added entries is twice among the stored
\* ones or twice among the added ones.
LEMMA ExtendsRepeats ==
  ASSUME NEW T, NEW r \in Seq(T), NEW stored \in Seq(T), NEW txns \in Seq(T),
         NEW taken \in SUBSET NewTo(stored, txns), Extends(r, stored, txns, taken),
         NEW id \in RepeatedIn(r), id \notin RepeatedIn(stored)
  PROVE  \E i, j \in taken : i < j /\ txns[i].id = id /\ txns[j].id = id
  <1>1. PICK a \in DOMAIN r, b \in DOMAIN r : a < b /\ r[a].id = id /\ r[b].id = id
    BY DEF RepeatedIn
  <1>2. /\ Len(stored) \in Nat /\ Len(r) \in Nat
        /\ a \in 1..Len(r) /\ b \in 1..Len(r)
        /\ DOMAIN stored = 1..Len(stored)
    OBVIOUS
  <1>3. PICK h \in [1..Len(r) -> Nat] :
          /\ Len(stored) <= Len(r)
          /\ \A c \in 1..Len(stored) : r[c] = stored[c]
          /\ \A c \in 1..Len(r) : c > Len(stored) => h[c] \in taken /\ r[c] = txns[h[c]]
          /\ \A c, d \in 1..Len(r) : Len(stored) < c /\ c < d => h[c] < h[d]
    BY DEF Extends
  <1>4. CASE b <= Len(stored)
    <2>1. /\ a \in DOMAIN stored /\ b \in DOMAIN stored
          /\ stored[a].id = id /\ stored[b].id = id
      BY <1>1, <1>2, <1>3, <1>4
    <2> QED
      BY <1>1, <2>1 DEF RepeatedIn, IdsOf
  <1>5. CASE a <= Len(stored) /\ b > Len(stored)
    <2>1. id \in IdsOf(stored)
      <3>1. a \in DOMAIN stored /\ stored[a].id = id
        BY <1>1, <1>2, <1>3, <1>5
      <3> QED
        BY <3>1 DEF IdsOf
    <2>2. h[b] \in NewTo(stored, txns) /\ txns[h[b]].id = id
      BY <1>1, <1>2, <1>3, <1>5
    <2> QED
      BY <2>1, <2>2 DEF NewTo
  <1>6. CASE a > Len(stored) /\ b > Len(stored)
    <2>1. /\ h[a] \in taken /\ h[b] \in taken /\ h[a] < h[b]
          /\ txns[h[a]].id = id /\ txns[h[b]].id = id
      BY <1>1, <1>2, <1>3, <1>6
    <2> QED
      BY <2>1
  <1> QED
    BY <1>2, <1>4, <1>5, <1>6

\* What a cash merge leaves in the file: repeats come from the file or the batch.
LEMMA CashAdded ==
  ASSUME NEW T, NEW stored \in Seq(T), NEW txns \in Seq(T)
  PROVE  /\ AddCash(stored, txns) \in Seq(T)
         /\ KeepsStored(AddCash(stored, txns), stored)
         /\ RepeatedIn(AddCash(stored, txns)) \subseteq
              RepeatedIn(stored) \cup RepeatedIn(txns)
  <1> DEFINE new == NewTo(stored, txns)
             r == AddCash(stored, txns)
  <1>1. new \in SUBSET (DOMAIN txns)
    BY DEF NewTo
  <1>2. r \in Seq(T) /\ Extends(r, stored, txns, new)
    BY <1>1, PickedExtends DEF AddCash
  <1>3. ASSUME NEW id \in RepeatedIn(r), id \notin RepeatedIn(stored)
        PROVE  id \in RepeatedIn(txns)
    <2>1. \E i, j \in new : i < j /\ txns[i].id = id /\ txns[j].id = id
      BY <1>2, <1>3, ExtendsRepeats
    <2> QED
      BY <1>1, <2>1 DEF RepeatedIn, IdsOf
  <1>4. KeepsStored(r, stored)
    BY <1>2, ExtendsKeeps
  <1> QED
    BY <1>2, <1>3, <1>4

\* An investment merge adds no repeat at all.
LEMMA InvestmentAdded ==
  ASSUME NEW T, NEW stored \in Seq(T), NEW txns \in Seq(T)
  PROVE  /\ AddInvestment(stored, txns) \in Seq(T)
         /\ KeepsStored(AddInvestment(stored, txns), stored)
         /\ RepeatedIn(AddInvestment(stored, txns)) \subseteq RepeatedIn(stored)
  <1> DEFINE new == NewTo(stored, txns)
             first == {i \in new : \A j \in new : j < i => txns[j].id # txns[i].id}
             r == AddInvestment(stored, txns)
  <1>1. first \in SUBSET new /\ first \in SUBSET (DOMAIN txns)
    BY DEF NewTo
  <1>2. r = stored \o Picked(txns, first)
    BY DEF AddInvestment
  <1>3. \A i, j \in first : i < j => txns[i].id # txns[j].id
    OBVIOUS
  <1> HIDE DEF first, r
  <1>4. r \in Seq(T) /\ Extends(r, stored, txns, first)
    BY <1>1, <1>2, PickedExtends
  <1>5. ASSUME NEW id \in RepeatedIn(r), id \notin RepeatedIn(stored) PROVE FALSE
    <2>1. \E i, j \in first : i < j /\ txns[i].id = id /\ txns[j].id = id
      BY <1>1, <1>4, <1>5, ExtendsRepeats
    <2> QED
      BY <1>3, <2>1
  <1>6. KeepsStored(r, stored)
    BY <1>1, <1>4, ExtendsKeeps
  <1> QED
    BY <1>4, <1>5, <1>6 DEF r

\* An id that is stored means the same before and after.
LEMMA StoredIdKept ==
  ASSUME NEW T, NEW r \in Seq(T), NEW stored \in Seq(T), KeepsStored(r, stored),
         NEW id \in IdsOf(stored)
  PROVE  /\ id \in RepeatedIn(r) <=> id \in RepeatedIn(stored)
         /\ \A a \in DOMAIN r : r[a].id = id => a \in DOMAIN stored /\ stored[a] = r[a]
         /\ \A a \in DOMAIN stored : a \in DOMAIN r /\ r[a] = stored[a]
  <1>1. /\ DOMAIN r = 1..Len(r) /\ DOMAIN stored = 1..Len(stored)
        /\ Len(r) \in Nat /\ Len(stored) \in Nat
    OBVIOUS
  <1>2. \A a \in DOMAIN r : r[a].id = id => a \in DOMAIN stored /\ stored[a] = r[a]
    BY <1>1 DEF KeepsStored
  <1>3. \A a \in DOMAIN stored : a \in DOMAIN r /\ r[a] = stored[a]
    BY <1>1 DEF KeepsStored
  <1>4. id \in RepeatedIn(r) <=> id \in RepeatedIn(stored)
    BY <1>2, <1>3 DEF RepeatedIn, IdsOf
  <1> QED
    BY <1>2, <1>3, <1>4

-----------------------------------------------------------------------------
(***************************************************************************)
(* The inductive invariant.                                                *)
(***************************************************************************)

\* A write that may be queued.
Writes ==
    [what : {"account", "positions", "securities"}, path : Paths \cup {Registry},
     content : CashFile \cup InvestmentFile \cup SUBSET SecurityId]

\* The types, of what TypeOK leaves open too.
Shape ==
    /\ TypeOK
    /\ files \in [Paths -> CashFile \cup InvestmentFile \cup {Absent}]
    /\ positions \in [Paths -> (SUBSET SecurityId) \cup {Absent}]
    /\ todo \in Seq(Writes)
    /\ scan \in [at : Kinds \cup {"none", "securities", "done"}, dirs : SUBSET Conns,
                 left : SUBSET ({"account", "positions"} \X Paths)]

\* The connection that the program supplies to an investment file.
Supplied(f) ==
    f.broker # "" /\ f.conn # ""

\* What a file at p, or one about to be merged into it, may be.
CashAt(p, f) ==
    f \in CashFile /\ \A id \in RepeatedIn(f.txns) : <<p, id>> \in repeats

InvestmentAt(f) ==
    f \in InvestmentFile /\ Supplied(f) /\ RepeatedIn(f.txns) = {}

\* A write that an answer has queued.
Queued(w) ==
    \/ /\ w.what = "account" /\ w.path \in Paths /\ w.path[1] = "accounts"
       /\ CashAt(w.path, w.content)
    \/ /\ w.what = "account" /\ w.path \in Paths /\ w.path[1] = "investment"
       /\ w.content \in InvestmentFile /\ Supplied(w.content)
    \/ /\ w.what = "positions" /\ w.path \in Paths
       /\ w.content \subseteq SecurityId /\ w.content # Absent
    \/ /\ w.what = "securities" /\ w.content \subseteq SecurityId

\* What is queued and what is on disk came from an answer.
Contents ==
    /\ \A i \in DOMAIN todo : Queued(todo[i])
    /\ \A p \in Paths :
         files[p] # Absent =>
           IF p[1] = "accounts" THEN CashAt(p, files[p]) ELSE InvestmentAt(files[p])

\* The file is on disk.
There(what, p) ==
    \/ what = "account" /\ p \in Paths /\ files[p] # Absent
    \/ what = "positions" /\ p \in Paths /\ positions[p] # Absent
    \/ what = "securities" /\ p = Registry /\ securities # {}

\* The walk has still to visit the file.
Ahead(what, p) ==
    \/ what = "securities" /\ scan.at \in Kinds \cup {"securities"}
    \/ /\ what \in {"account", "positions"}
       /\ \/ scan.at = "accounts" /\ p[1] = "investment"
          \/ p[1] = scan.at /\ (p[2] \in scan.dirs \/ <<what, p>> \in scan.left)

\* Nothing that always held is missed, nothing that never did is reported, and
\* what is listed is there unless something was removed.
Walked ==
    /\ scan.at = "none" => report = {} /\ always = {} /\ sometimes = {}
    /\ scan.at # "none" => always \subseteq Violations /\ Violations \subseteq sometimes
    /\ \A v \in always : v \in report \/ Ahead(v.what, v.path)
    /\ \A v \in report : v.rule # "json_parse" => v \in sometimes
    /\ (\E v \in report : v.rule = "json_parse") => "removal" \in meanwhile
    /\ scan.at \notin Kinds => scan.left = {}
    /\ \A f \in scan.left : There(f[1], f[2]) \/ "removal" \in meanwhile

RInv == Shape /\ Contents /\ Walked

-----------------------------------------------------------------------------
(***************************************************************************)
(* What a verdict says.                                                    *)
(***************************************************************************)

\* The files there may be.
Target(what, p) ==
    \/ what \in {"account", "positions"} /\ p \in Paths
    \/ what = "securities" /\ p = Registry

\* A fault names its file and one of the rules.
LEMMA FaultIs ==
  ASSUME NEW p, NEW txn, NEW rules, NEW v \in Faults(p, txn, rules)
  PROVE  /\ v.what = "account" /\ v.path = p /\ v.txn = txn
         /\ v.rule \in DOMAIN rules /\ v.rule \in Broken(rules)
  BY DEF Faults, Violation, Broken

\* A repeat names its file and the id.
LEMMA TwiceIs ==
  ASSUME NEW p, NEW txns, NEW unique, NEW v \in Twice(p, txns, unique)
  PROVE  /\ v.what = "account" /\ v.path = p /\ v.rule = unique
         /\ v.txn \in Repeated(txns)
  BY DEF Twice, Violation

\* None of the tables has the rule that a file must parse.
LEMMA NoRuleIsParse ==
  ASSUME NEW f
  PROVE  /\ "json_parse" \notin DOMAIN ACCOUNT_RULES(f)
         /\ "json_parse" \notin DOMAIN TRANSACTION_RULES(f)
         /\ "json_parse" \notin DOMAIN InvestmentAccountRules(f)
         /\ "json_parse" \notin DOMAIN InvestmentTransactionRules(f)
  BY DEF ACCOUNT_RULES, TRANSACTION_RULES, InvestmentAccountRules, InvestmentTransactionRules

\* The verdict on a cash account file names it and never says that it is not there.
LEMMA CashVerdictIs ==
  ASSUME NEW p, NEW f, NEW v \in validate_account_file(p, f)
  PROVE  v.what = "account" /\ v.path = p /\ v.rule # "json_parse"
  <1>1. CASE v \in Faults(p, Absent, ACCOUNT_RULES(f))
    BY <1>1, FaultIs, NoRuleIsParse
  <1>2. CASE \E i \in DOMAIN f.txns :
               v \in Faults(p, f.txns[i].id, TRANSACTION_RULES(f.txns[i]))
    BY <1>2, FaultIs, NoRuleIsParse
  <1>3. CASE v \in Twice(p, f.txns, "txn_ids_unique_within_account")
    BY <1>3, TwiceIs
  <1> QED
    BY <1>1, <1>2, <1>3 DEF validate_account_file

\* And that on an investment account file.
LEMMA InvestmentVerdictIs ==
  ASSUME NEW p, NEW f, NEW v \in validate_investment_account_file(p, f)
  PROVE  v.what = "account" /\ v.path = p /\ v.rule # "json_parse"
  <1>1. CASE v \in Faults(p, Absent, InvestmentAccountRules(f))
    BY <1>1, FaultIs, NoRuleIsParse
  <1>2. CASE \E i \in DOMAIN f.txns :
               v \in Faults(p, f.txns[i].id, InvestmentTransactionRules(f.txns[i]))
    BY <1>2, FaultIs, NoRuleIsParse
  <1>3. CASE v \in Twice(p, f.txns, "inv_txn_ids_unique")
    BY <1>3, TwiceIs
  <1> QED
    BY <1>1, <1>2, <1>3 DEF validate_investment_account_file

\* A verdict names the file it is on, and says that it cannot be opened exactly
\* when it is not there.
LEMMA VerdictIs ==
  ASSUME NEW what, NEW p, Target(what, p), NEW v \in Verdict(what, p)
  PROVE  /\ v.what = what /\ v.path = p
         /\ v.rule = "json_parse" <=> ~There(what, p)
  <1>1. CASE There(what, p) /\ what = "account"
    <2>1. /\ p \in Paths /\ files[p] # Absent
          /\ \/ v \in validate_account_file(p, files[p])
             \/ v \in validate_investment_account_file(p, files[p])
      BY <1>1 DEF Verdict, There
    <2> QED
      BY <1>1, <2>1, CashVerdictIs, InvestmentVerdictIs
  <1>2. CASE There(what, p) /\ what = "positions"
    <2>1. v = Violation("positions", p, Absent, "pos_security_id_nonempty")
      BY <1>2 DEF Verdict, There, validate_positions_file
    <2> QED
      BY <1>2, <2>1 DEF Violation
  <1>3. CASE There(what, p) /\ what = "securities"
    <2>1. v = Violation("securities", Registry, Absent, "sec_uniqueid_nonempty")
      BY <1>3 DEF Verdict, There, validate_securities_file
    <2> QED
      BY <1>3, <2>1 DEF Violation, There
  <1>4. CASE ~There(what, p)
    <2>1. v = Violation(what, p, Absent, "json_parse")
      BY <1>4 DEF Verdict, There, Target, json_parse
    <2> QED
      BY <1>4, <2>1 DEF Violation
  <1> QED
    BY <1>1, <1>2, <1>3, <1>4 DEF There

\* All that is wrong: the verdicts on the files that are there.
LEMMA ViolationsThere ==
  ASSUME NEW v \in Violations
  PROVE  /\ There(v.what, v.path) /\ v \in Verdict(v.what, v.path)
         /\ Target(v.what, v.path) /\ v.rule # "json_parse"
  <1>1. \E what, p : There(what, p) /\ v \in Verdict(what, p)
    BY DEF Violations, There
  <1>2. PICK what, p : There(what, p) /\ v \in Verdict(what, p)
    BY <1>1
  <1>3. Target(what, p)
    BY <1>2 DEF There, Target
  <1> QED
    BY <1>2, <1>3, VerdictIs

\* And nothing that they find is missing.
LEMMA ThereViolations ==
  ASSUME NEW what, NEW p, There(what, p)
  PROVE  Verdict(what, p) \subseteq Violations
  BY DEF There, Violations

-----------------------------------------------------------------------------
(***************************************************************************)
(* What an answer queues.                                                  *)
(***************************************************************************)

\* An account that could be decoded makes a cash file, with the ids it came with.
LEMMA DecodedIsCash ==
  ASSUME NEW a \in SimplefinAccount, DecodableAccount(a), DecodeAccount(a).path \in Paths
  PROVE  /\ DecodeAccount(a) \in CashFile
         /\ DecodeAccount(a).path[1] = "accounts"
         /\ RepeatedIn(DecodeAccount(a).txns) = RepeatedIn(a.txns)
  <1> DEFINE d == DecodeAccount(a)
  <1>0. a.txns \in Seq(SimplefinTransaction)
    BY DEF SimplefinAccount
  <1>1. ASSUME NEW i \in DOMAIN a.txns
        PROVE  /\ DecodeTransaction(a.txns[i]) \in CashTransaction
               /\ DecodeTransaction(a.txns[i]).id = a.txns[i].id
    <2>1. a.txns[i] \in SimplefinTransaction
      BY <1>0
    <2>2. DecodableTransaction(a.txns[i])
      BY DEF DecodableAccount
    <2> QED
      BY <2>1, <2>2 DEF SimplefinTransaction, DecodableTransaction, DecodeTransaction,
         CashTransaction, Amount
  <1>2. /\ d.txns = [i \in DOMAIN a.txns |-> DecodeTransaction(a.txns[i])]
        /\ DOMAIN a.txns = 1..Len(a.txns) /\ Len(a.txns) \in Nat
    <2>1. d.txns = [i \in DOMAIN a.txns |-> DecodeTransaction(a.txns[i])]
      BY DEF DecodeAccount
    <2> QED
      BY <1>0, <2>1
  <1>3. d.txns \in Seq(CashTransaction)
    BY <1>1, <1>2
  <1>4. /\ d.balance \in {"cents", "other"} /\ d.available \in {"cents", "other", "null"}
        /\ d.date \in {"day", "zero", "wild"}
    BY DEF DecodeAccount, SimplefinAccount, DecodableAccount, Amount
  <1>5. d.id \in STRING /\ d.name \in STRING /\ d.currency \in {"iso", "lower", ""}
        /\ d.conn \in STRING
    BY DEF DecodeAccount, SimplefinAccount
  <1>6. d \in CashFile
    BY <1>3, <1>4, <1>5 DEF DecodeAccount, CashFile
  <1>7. d.path[1] = "accounts"
    BY DEF DecodeAccount
  <1>8. DOMAIN d.txns = DOMAIN a.txns /\ \A i \in DOMAIN a.txns : d.txns[i].id = a.txns[i].id
    BY <1>1, <1>2
  <1>9. RepeatedIn(d.txns) = RepeatedIn(a.txns)
    BY <1>8 DEF RepeatedIn, IdsOf
  <1> QED
    BY <1>6, <1>7, <1>9

\* SnapTrade's accounts make investment files, whatever they lack.
LEMMA NormalizedIsInvestment ==
  ASSUME NEW a \in SnaptradeAccount, NormalizeAccount(a).path \in Paths
  PROVE  /\ NormalizeAccount(a) \in InvestmentFile
         /\ NormalizeAccount(a).path[1] = "investment"
         /\ Supplied(NormalizeAccount(a))
  <1> DEFINE d == NormalizeAccount(a)
  <1>0. a.activities \in Seq(Activity)
    BY DEF SnaptradeAccount
  <1>1. ASSUME NEW i \in DOMAIN a.activities
        PROVE  NormalizeActivity(a.activities[i]) \in InvestmentTransaction
    <2>1. a.activities[i] \in Activity
      BY <1>0
    <2> QED
      BY <2>1 DEF Activity, NormalizeActivity, InvestmentTransaction
  <1>2. /\ d.txns = [i \in DOMAIN a.activities |-> NormalizeActivity(a.activities[i])]
        /\ DOMAIN a.activities = 1..Len(a.activities) /\ Len(a.activities) \in Nat
    <2>1. d.txns = [i \in DOMAIN a.activities |-> NormalizeActivity(a.activities[i])]
      BY DEF NormalizeAccount
    <2> QED
      BY <1>0, <2>1
  <1>3. d.txns \in Seq(InvestmentTransaction)
    BY <1>1, <1>2
  <1>4. NormalizeConnId(a.slug) \in Conns /\ NormalizeConnId(a.slug) # ""
    <2>1. NormalizeConnId(a.slug) \in Conns
      BY DEF NormalizeAccount, Paths
    <2>2. CASE a.slug = ""
      BY <2>1, <2>2 DEF NormalizeConnId
    <2>3. CASE a.slug # ""
      BY <2>1, <2>3 DEF NormalizeConnId
    <2> QED
      BY <2>2, <2>3
  <1>5. d.id \in STRING /\ d.name \in STRING
    BY DEF NormalizeAccount, SnaptradeAccount
  <1>6. d.broker = NormalizeConnId(a.slug) /\ d.conn = NormalizeConnId(a.slug)
    BY DEF NormalizeAccount
  <1>7. d \in InvestmentFile
    BY <1>3, <1>4, <1>5, <1>6 DEF NormalizeAccount, InvestmentFile
  <1>8. Supplied(d)
    BY <1>4, <1>6 DEF Supplied
  <1>9. d.path[1] = "investment"
    BY DEF NormalizeAccount
  <1> QED
    BY <1>7, <1>8, <1>9

\* Every symbol has an id to be registered under.
LEMMA PickedSecurity ==
  ASSUME NEW sym \in Symbol
  PROVE  PickSecurityId(sym) \in SecurityId
  BY DEF Symbol, PickSecurityId, SecurityId

\* The securities of an account, and of a whole answer.
LEMMA SecuritiesOf ==
  ASSUME NEW answer \in Seq(SnaptradeAccount)
  PROVE  /\ \A i \in DOMAIN answer : Held(answer[i]) \subseteq SecurityId
         /\ Registered(answer) \subseteq SecurityId
  <1>1. ASSUME NEW i \in DOMAIN answer
        PROVE  Symbols(answer[i]) \subseteq Symbol /\ SymbolsOf(answer[i]) \subseteq Symbol
    <2>1. answer[i] \in SnaptradeAccount
      OBVIOUS
    <2>2. Symbols(answer[i]) \subseteq Symbol
      BY <2>1 DEF Symbols, SnaptradeAccount
    <2>3. \A j \in DOMAIN answer[i].activities :
            answer[i].activities[j].symbol \in Symbol \cup {Absent}
      <3>1. answer[i].activities \in Seq(Activity)
        BY <2>1 DEF SnaptradeAccount
      <3>2. \A j \in DOMAIN answer[i].activities : answer[i].activities[j] \in Activity
        BY <3>1
      <3> QED
        BY <3>2 DEF Activity
    <2> QED
      BY <2>2, <2>3 DEF SymbolsOf
  <1>2. \A i \in DOMAIN answer : Held(answer[i]) \subseteq SecurityId
    BY <1>1, PickedSecurity DEF Held
  <1>3. Registered(answer) \subseteq SecurityId
    BY <1>1, PickedSecurity DEF Registered
  <1> QED
    BY <1>2, <1>3

\* The writes of a SimpleFIN answer.
LEMMA CashQueued ==
  ASSUME Shape, NEW answer \in SimplefinAnswers, AnswerSimplefin(answer)
  PROVE  /\ todo' \in Seq(Writes)
         /\ \A i \in DOMAIN todo' : Queued(todo[i])'
         /\ repeats \subseteq repeats' /\ \A x \in repeats' : x[1] \in Paths
  <1>1. /\ answer \in Seq(SimplefinAccount) /\ Decodable(answer)
        /\ todo' = CashWrites(answer)
        /\ \A i \in DOMAIN answer : DecodeAccount(answer[i]).path \in Paths
    BY RecordsAssumption DEF AnswerSimplefin
  <1>2. repeats' = repeats \cup
          (UNION {{DecodeAccount(answer[i]).path} \X RepeatedIn(answer[i].txns) :
                    i \in DOMAIN answer})
    BY DEF AnswerSimplefin
  <1>3. ASSUME NEW i \in DOMAIN answer
        PROVE  /\ DecodeAccount(answer[i]) \in CashFile
               /\ DecodeAccount(answer[i]).path[1] = "accounts"
               /\ \A id \in RepeatedIn(DecodeAccount(answer[i]).txns) :
                    <<DecodeAccount(answer[i]).path, id>> \in repeats'
    <2>1. answer[i] \in SimplefinAccount /\ DecodableAccount(answer[i])
      BY <1>1 DEF Decodable
    <2>2. RepeatedIn(DecodeAccount(answer[i]).txns) = RepeatedIn(answer[i].txns)
      BY <1>1, <2>1, DecodedIsCash
    <2> QED
      BY <1>1, <1>2, <2>1, <2>2, DecodedIsCash
  <1>4. /\ DOMAIN todo' = DOMAIN answer /\ DOMAIN answer = 1..Len(answer) /\ Len(answer) \in Nat
        /\ todo' = [i \in DOMAIN answer |->
                      Write("account", DecodeAccount(answer[i]).path, DecodeAccount(answer[i]))]
    BY <1>1 DEF CashWrites
  <1>5. ASSUME NEW i \in DOMAIN answer
        PROVE  todo'[i] \in Writes /\ Queued(todo[i])'
    <2> DEFINE d == DecodeAccount(answer[i])
    <2>1. todo'[i] = [what |-> "account", path |-> d.path, content |-> d]
      BY <1>4 DEF Write
    <2>2. d.path \in Paths /\ d \in CashFile /\ d.path[1] = "accounts"
          /\ \A id \in RepeatedIn(d.txns) : <<d.path, id>> \in repeats'
      BY <1>1, <1>3
    <2> HIDE DEF d
    <2>3. todo'[i] \in Writes
      BY <2>1, <2>2 DEF Writes
    <2>4. /\ todo'[i].what = "account" /\ todo'[i].path = d.path /\ todo'[i].content = d
      BY <2>1
    <2> QED
      BY <2>2, <2>3, <2>4 DEF Queued, CashAt
  <1>6. \A x \in repeats' : x[1] \in Paths
    BY <1>1, <1>2 DEF Shape, TypeOK
  <1>7. todo' \in Seq(Writes)
    BY <1>4, <1>5
  <1>8. \A i \in DOMAIN todo' : Queued(todo[i])'
    BY <1>4, <1>5
  <1> QED
    BY <1>2, <1>6, <1>7, <1>8

\* The account that an index of InvestmentWrites is about.
LEMMA Halves ==
  ASSUME NEW L \in Nat, NEW n \in 1..(2 * L)
  PROVE  /\ (n + 1) \div 2 \in 1..L
         /\ n % 2 # 1 => n \div 2 \in 1..L /\ (n + 1) \div 2 = n \div 2
  OBVIOUS

\* The writes of a SnapTrade answer.
LEMMA InvestmentQueued ==
  ASSUME Shape, NEW answer \in SnaptradeAnswers, AnswerSnaptrade(answer)
  PROVE  /\ todo' \in Seq(Writes)
         /\ \A i \in DOMAIN todo' : Queued(todo[i])'
  <1> DEFINE account(n) == NormalizeAccount(answer[(n + 1) \div 2])
             filed(n) == Write("account", account(n).path, account(n))
             held(n) == Write("positions", account(n).path, Held(answer[n \div 2]))
             s == [n \in 1..(2 * Len(answer)) |-> IF n % 2 = 1 THEN filed(n) ELSE held(n)]
             w == Write("securities", Registry, Registered(answer))
             t == IF Registered(answer) = {} THEN <<>> ELSE <<w>>
  <1>1. /\ answer \in Seq(SnaptradeAccount) /\ Len(answer) \in Nat
        /\ DOMAIN answer = 1..Len(answer)
        /\ \A i \in DOMAIN answer : /\ NormalizeAccount(answer[i]).path \in Paths
                                    /\ Held(answer[i]) # Absent
        /\ todo' = s \o t
    BY RecordsAssumption DEF AnswerSnaptrade, InvestmentWrites
  <1>2. ASSUME NEW x, x \in Writes, Queued(x)
        PROVE  Queued(x)'
    BY <1>2 DEF Queued, CashAt, AnswerSnaptrade
  <1>3. ASSUME NEW i \in DOMAIN answer
        PROVE  LET d == NormalizeAccount(answer[i])
               IN  /\ Write("account", d.path, d) \in Writes
                   /\ Queued(Write("account", d.path, d))
                   /\ Write("positions", d.path, Held(answer[i])) \in Writes
                   /\ Queued(Write("positions", d.path, Held(answer[i])))
    <2> DEFINE d == NormalizeAccount(answer[i])
               h == Held(answer[i])
    <2>1. answer[i] \in SnaptradeAccount
      BY <1>1
    <2>2. /\ d.path \in Paths /\ d \in InvestmentFile /\ d.path[1] = "investment"
          /\ Supplied(d) /\ h \subseteq SecurityId /\ h # Absent
      BY <1>1, <2>1, NormalizedIsInvestment, SecuritiesOf
    <2> HIDE DEF d, h
    <2>3. Write("account", d.path, d) \in Writes /\ Write("positions", d.path, h) \in Writes
      BY <2>2 DEF Write, Writes
    <2>4. Queued(Write("account", d.path, d)) /\ Queued(Write("positions", d.path, h))
      BY <2>2 DEF Write, Queued
    <2> QED
      BY <2>3, <2>4 DEF d, h
  <1>4. w \in Writes /\ Queued(w)
    <2>1. Registered(answer) \subseteq SecurityId
      BY <1>1, SecuritiesOf
    <2> QED
      BY <2>1 DEF Write, Writes, Queued
  <1>5. ASSUME NEW n \in 1..(2 * Len(answer))
        PROVE  s[n] \in Writes /\ Queued(s[n])
    <2>1. (n + 1) \div 2 \in DOMAIN answer
      BY <1>1, Halves
    <2>2. CASE n % 2 = 1
      <3>1. s[n] = filed(n)
        BY <2>2
      <3>2. filed(n) \in Writes /\ Queued(filed(n))
        BY <1>3, <2>1
      <3> QED
        BY <3>1, <3>2
    <2>3. CASE n % 2 # 1
      <3>1. s[n] = held(n)
        BY <2>3
      <3>2. n \div 2 = (n + 1) \div 2
        BY <1>1, <2>3, Halves
      <3>3. held(n) \in Writes /\ Queued(held(n))
        BY <1>3, <2>1, <3>2
      <3> QED
        BY <3>1, <3>3
    <2> QED
      BY <2>2, <2>3
  <1> DEFINE good(x) == x \in Writes /\ Queued(x)
  <1>6. s \in Seq(Writes) /\ \A i \in DOMAIN s : good(s[i])
    <2>1. DOMAIN s = 1..(2 * Len(answer)) /\ 2 * Len(answer) \in Nat
      BY <1>1
    <2>2. s = [n \in 1..(2 * Len(answer)) |-> s[n]]
      OBVIOUS
    <2>3. \A n \in 1..(2 * Len(answer)) : s[n] \in Writes /\ good(s[n])
      BY <1>5
    <2> HIDE DEF s, good
    <2>4. s \in [1..(2 * Len(answer)) -> Writes]
      BY <2>2, <2>3
    <2>5. s \in Seq(Writes)
      BY <2>1, <2>4
    <2> QED
      BY <2>1, <2>3, <2>5
  <1>7. t \in Seq(Writes) /\ \A i \in DOMAIN t : good(t[i])
    <2>1. t = <<>> \/ t = <<w>>
      OBVIOUS
    <2> HIDE DEF w, t
    <2>2. CASE t = <<>>
      BY <2>2
    <2>3. CASE t = <<w>>
      BY <1>4, <2>3
    <2> QED
      BY <2>1, <2>2, <2>3
  <1> HIDE DEF s, t, good
  <1>8. s \o t \in Seq(Writes) /\ \A i \in DOMAIN (s \o t) : good((s \o t)[i])
    <2>1. Len(s) \in Nat /\ Len(t) \in Nat /\ DOMAIN s = 1..Len(s) /\ DOMAIN t = 1..Len(t)
      BY <1>6, <1>7
    <2>2. s \o t \in Seq(Writes) /\ DOMAIN (s \o t) = 1..(Len(s) + Len(t))
      BY <1>6, <1>7
    <2>3. \A i \in 1..Len(s) : (s \o t)[i] = s[i]
      BY <1>6, <1>7
    <2>4. \A i \in 1..(Len(s) + Len(t)) :
            i > Len(s) => (s \o t)[i] = t[i - Len(s)] /\ i - Len(s) \in 1..Len(t)
      BY <1>6, <1>7, <2>1
    <2> QED
      BY <1>6, <1>7, <2>1, <2>2, <2>3, <2>4
  <1>9. \A i \in DOMAIN todo' : good(todo'[i])
    BY <1>1, <1>8
  <1>10. \A i \in DOMAIN todo' : Queued(todo[i])'
    BY <1>2, <1>9 DEF good
  <1> QED
    BY <1>1, <1>8, <1>10

-----------------------------------------------------------------------------
(***************************************************************************)
(* The writer: what is on disk and what is queued stays as it should be.   *)
(***************************************************************************)

\* A cash file is merged with what an answer has of it, or made of that.
LEMMA MergedCash ==
  ASSUME NEW p, NEW old, old # Absent => CashAt(p, old), NEW new, CashAt(p, new)
  PROVE  CashAt(p, MergeCash(old, new)) /\ MergeCash(old, new) # Absent
  <1> DEFINE f == MergeCash(old, new)
  <1>0. Absent \notin CashFile
    BY RecordsAssumption
  <1>1. CASE old = Absent
    BY <1>0, <1>1 DEF MergeCash, CashAt
  <1>2. CASE old # Absent
    <2>1. old \in CashFile /\ new \in CashFile
      BY <1>2 DEF CashAt
    <2>2. old.txns \in Seq(CashTransaction) /\ new.txns \in Seq(CashTransaction)
      BY <2>1 DEF CashFile
    <2> DEFINE txns == AddCash(old.txns, new.txns)
    <2>3. txns \in Seq(CashTransaction)
          /\ RepeatedIn(txns) \subseteq RepeatedIn(old.txns) \cup RepeatedIn(new.txns)
      BY <2>2, CashAdded
    <2> HIDE DEF txns
    <2>4. f = [old EXCEPT !.id = new.id, !.conn = new.conn,
                          !.balance = new.balance, !.available = new.available,
                          !.date = new.date, !.txns = txns]
      BY <1>2 DEF MergeCash, txns
    <2> HIDE DEF f
    <2>5. f \in CashFile /\ f.txns = txns
      BY <2>1, <2>3, <2>4 DEF CashFile
    <2>6. \A id \in RepeatedIn(f.txns) : <<p, id>> \in repeats
      BY <1>2, <2>3, <2>5 DEF CashAt
    <2> QED
      BY <1>0, <2>5, <2>6 DEF f, CashAt
  <1> QED
    BY <1>1, <1>2

\* So is an investment file.
LEMMA MergedInvestment ==
  ASSUME NEW old, old # Absent => InvestmentAt(old),
         NEW new \in InvestmentFile, Supplied(new)
  PROVE  InvestmentAt(MergeInvestment(old, new)) /\ MergeInvestment(old, new) # Absent
  <1> DEFINE f == MergeInvestment(old, new)
             stored == IF old = Absent THEN <<>> ELSE old.txns
             txns == AddInvestment(stored, new.txns)
  <1>1. stored \in Seq(InvestmentTransaction) /\ RepeatedIn(stored) = {}
    <2>1. CASE old = Absent
      BY <2>1 DEF RepeatedIn, IdsOf
    <2>2. CASE old # Absent
      <3>1. old \in InvestmentFile /\ RepeatedIn(old.txns) = {}
        BY <2>2 DEF InvestmentAt
      <3>2. old.txns \in Seq(InvestmentTransaction)
        BY <3>1 DEF InvestmentFile
      <3> QED
        BY <2>2, <3>1, <3>2
    <2> QED
      BY <2>1, <2>2
  <1>2. f = [new EXCEPT !.txns = txns]
    BY DEF MergeInvestment
  <1>3. new.txns \in Seq(InvestmentTransaction)
    BY DEF InvestmentFile
  <1> HIDE DEF stored
  <1>4. txns \in Seq(InvestmentTransaction) /\ RepeatedIn(txns) \subseteq {}
    BY <1>1, <1>3, InvestmentAdded
  <1> HIDE DEF f, txns
  <1>5. f \in InvestmentFile /\ f.txns = txns /\ f.broker = new.broker /\ f.conn = new.conn
    BY <1>2, <1>4 DEF InvestmentFile
  <1>6. InvestmentAt(f) /\ f # Absent
    BY <1>4, <1>5, RecordsAssumption DEF InvestmentAt, Supplied
  <1> QED
    BY <1>6 DEF f

\* The write that is due.
LEMMA HeadOfTodo ==
  ASSUME Shape, Contents, todo # <<>>
  PROVE  /\ Head(todo) \in Writes /\ Queued(Head(todo))
         /\ Tail(todo) \in Seq(Writes)
         /\ \A i \in DOMAIN Tail(todo) : Queued(Tail(todo)[i])
  <1>1. todo \in Seq(Writes)
    BY DEF Shape
  <1>2. 1 \in DOMAIN todo /\ Head(todo) = todo[1] /\ Tail(todo) \in Seq(Writes)
    BY <1>1
  <1>3. \A i \in DOMAIN Tail(todo) : i + 1 \in DOMAIN todo /\ Tail(todo)[i] = todo[i + 1]
    BY <1>1
  <1> QED
    BY <1>1, <1>2, <1>3 DEF Contents

\* Where the files are as they should be, they have their types.
LEMMA FilesTyped ==
  ASSUME Contents, files \in [Paths -> CashFile \cup InvestmentFile \cup {Absent}],
         positions \in [Paths -> (SUBSET SecurityId) \cup {Absent}]
  PROVE  /\ \A p \in Paths :
              files[p] # Absent =>
                files[p] \in (IF p[1] = "accounts" THEN CashFile ELSE InvestmentFile)
         /\ \A p \in Paths : positions[p] # Absent => positions[p] \subseteq SecurityId
  <1>1. \A p \in Paths :
          files[p] # Absent =>
            files[p] \in (IF p[1] = "accounts" THEN CashFile ELSE InvestmentFile)
    BY DEF Contents, CashAt, InvestmentAt
  <1>2. \A p \in Paths : positions[p] # Absent => positions[p] \subseteq SecurityId
    OBVIOUS
  <1> QED
    BY <1>1, <1>2

\* Nothing is stored and nothing queued at first.
LEMMA ContentsInit ==
  ASSUME Init
  PROVE  Shape /\ Contents
  <1>1. Contents
    BY DEF Init, Contents
  <1>2. /\ files \in [Paths -> CashFile \cup InvestmentFile \cup {Absent}]
        /\ positions \in [Paths -> (SUBSET SecurityId) \cup {Absent}]
    BY DEF Init
  <1>3. todo \in Seq(Writes)
    BY DEF Init
  <1>4. scan \in [at : Kinds \cup {"none", "securities", "done"}, dirs : SUBSET Conns,
                  left : SUBSET ({"account", "positions"} \X Paths)]
    BY DEF Init, NoScan
  <1>5. /\ securities \subseteq SecurityId /\ meanwhile \subseteq {"answer", "removal"}
        /\ \A x \in repeats : x[1] \in Paths
    BY DEF Init
  <1>6. scan.at \in Kinds \cup {"none", "securities", "done"} /\ scan.dirs \subseteq Conns
    BY <1>4
  <1>7. TypeOK
    BY <1>1, <1>2, <1>5, <1>6, FilesTyped DEF TypeOK
  <1> QED
    BY <1>1, <1>2, <1>3, <1>4, <1>7 DEF Shape

\* A step that leaves the scan alone keeps the types, if it keeps those of the
\* disk and of the queue.
LEMMA ShapeKept ==
  ASSUME Shape, Contents', scan' = scan, todo' \in Seq(Writes),
         files' \in [Paths -> CashFile \cup InvestmentFile \cup {Absent}],
         positions' \in [Paths -> (SUBSET SecurityId) \cup {Absent}],
         securities' \subseteq SecurityId, meanwhile' \subseteq {"answer", "removal"},
         \A x \in repeats' : x[1] \in Paths
  PROVE  Shape'
  <1>1. scan.at \in Kinds \cup {"none", "securities", "done"} /\ scan.dirs \subseteq Conns
    BY DEF Shape, TypeOK
  <1>2. /\ \A p \in Paths :
             files'[p] # Absent =>
               files'[p] \in (IF p[1] = "accounts" THEN CashFile ELSE InvestmentFile)
        /\ \A p \in Paths : positions'[p] # Absent => positions'[p] \subseteq SecurityId
    <2>1. \A p \in Paths :
            files'[p] # Absent =>
              files'[p] \in (IF p[1] = "accounts" THEN CashFile ELSE InvestmentFile)
      BY DEF Contents, CashAt, InvestmentAt
    <2> QED
      BY <2>1
  <1>3. TypeOK'
    BY <1>1, <1>2 DEF TypeOK
  <1>4. scan' \in [at : Kinds \cup {"none", "securities", "done"}, dirs : SUBSET Conns,
                   left : SUBSET ({"account", "positions"} \X Paths)]
    BY DEF Shape
  <1> QED
    BY <1>3, <1>4 DEF Shape

\* What Shape says of each variable.
LEMMA ShapeParts ==
  ASSUME Shape
  PROVE  /\ files \in [Paths -> CashFile \cup InvestmentFile \cup {Absent}]
         /\ positions \in [Paths -> (SUBSET SecurityId) \cup {Absent}]
         /\ todo \in Seq(Writes) /\ securities \subseteq SecurityId
         /\ meanwhile \subseteq {"answer", "removal"}
         /\ \A x \in repeats : x[1] \in Paths
  BY DEF Shape, TypeOK

\* What is begun is one of the two things that can be.
LEMMA BeginTyped ==
  ASSUME Shape, NEW what \in {"answer", "removal"}, Begin(what)
  PROVE  meanwhile' \subseteq {"answer", "removal"}
  BY ShapeParts DEF Begin

\* An answer queues what may be queued.
LEMMA AnswerKeeps ==
  ASSUME Shape, Contents,
         \/ \E answer \in SimplefinAnswers : AnswerSimplefin(answer)
         \/ \E answer \in SnaptradeAnswers : AnswerSnaptrade(answer)
  PROVE  Shape' /\ Contents'
  <1>1. /\ todo' \in Seq(Writes)
        /\ \A i \in DOMAIN todo' : Queued(todo[i])'
        /\ repeats \subseteq repeats' /\ \A x \in repeats' : x[1] \in Paths
    <2>1. CASE \E answer \in SimplefinAnswers : AnswerSimplefin(answer)
      BY <2>1, CashQueued
    <2>2. CASE \E answer \in SnaptradeAnswers : AnswerSnaptrade(answer)
      <3>1. repeats' = repeats
        BY <2>2 DEF AnswerSnaptrade
      <3> QED
        BY <2>2, <3>1, InvestmentQueued, ShapeParts
    <2> QED
      BY <2>1, <2>2
  <1>2. /\ files' = files /\ positions' = positions /\ securities' = securities
        /\ scan' = scan /\ Begin("answer")
    BY DEF AnswerSimplefin, AnswerSnaptrade, disk
  <1>3. ASSUME NEW p \in Paths, files'[p] # Absent
        PROVE  IF p[1] = "accounts" THEN CashAt(p, files[p])' ELSE InvestmentAt(files[p])'
    BY <1>1, <1>2, <1>3 DEF Contents, CashAt, InvestmentAt, Supplied
  <1>4. Contents'
    BY <1>1, <1>3 DEF Contents
  <1>5. meanwhile' \subseteq {"answer", "removal"}
    BY <1>2, BeginTyped
  <1> QED
    BY <1>1, <1>2, <1>4, <1>5, ShapeKept, ShapeParts

\* Writes that stay queued, and files that stay, are what they were as long as
\* repeats is.
LEMMA SameRepeats ==
  ASSUME repeats' = repeats
  PROVE  /\ \A w : Queued(w) => Queued(w)'
         /\ \A p, f : CashAt(p, f) => CashAt(p, f)'
  BY DEF Queued, CashAt

\* The next file is written or merged; none is taken away.
LEMMA WriteKeeps ==
  ASSUME Shape, Contents, WriteNext
  PROVE  Shape' /\ Contents' /\ \A what, p : There(what, p) => There(what, p)'
  <1> DEFINE w == Head(todo)
  <1>1. /\ w \in Writes /\ Queued(w) /\ Tail(todo) \in Seq(Writes)
        /\ \A i \in DOMAIN Tail(todo) : Queued(Tail(todo)[i])
    BY HeadOfTodo DEF WriteNext
  <1>2. /\ todo' = Tail(todo) /\ scan' = scan /\ meanwhile' = meanwhile
        /\ repeats' = repeats
    BY DEF WriteNext
  <1>3. \/ /\ w.what = "account"
           /\ files' = [files EXCEPT ![w.path] =
                          IF w.path[1] = "accounts"
                          THEN MergeCash(files[w.path], w.content)
                          ELSE MergeInvestment(files[w.path], w.content)]
           /\ positions' = positions /\ securities' = securities
        \/ /\ w.what = "positions"
           /\ positions' = [positions EXCEPT ![w.path] = w.content]
           /\ files' = files /\ securities' = securities
        \/ /\ w.what = "securities"
           /\ securities' = securities \cup w.content
           /\ files' = files /\ positions' = positions
    BY DEF WriteNext
  <1> HIDE DEF w
  <1>4. \A i \in DOMAIN todo' : Queued(todo[i])'
    <2>1. \A i \in DOMAIN todo' : Queued(todo'[i])
      BY <1>1, <1>2
    <2> QED
      BY <1>2, <2>1 DEF Queued, CashAt
  <1>5. meanwhile' \subseteq {"answer", "removal"} /\ \A x \in repeats' : x[1] \in Paths
    BY <1>2, ShapeParts
  <1> DEFINE FilesFine ==
               /\ files' \in [Paths -> CashFile \cup InvestmentFile \cup {Absent}]
               /\ \A p \in Paths :
                    /\ files'[p] # Absent =>
                         IF p[1] = "accounts" THEN CashAt(p, files'[p])
                         ELSE InvestmentAt(files'[p])
                    /\ files[p] # Absent => files'[p] # Absent
             PositionsFine ==
               /\ positions' \in [Paths -> (SUBSET SecurityId) \cup {Absent}]
               /\ \A p \in Paths : positions[p] # Absent => positions'[p] # Absent
             SecuritiesFine ==
               securities' \subseteq SecurityId /\ (securities # {} => securities' # {})
  <1>6. ASSUME w.what = "account"
        PROVE  FilesFine /\ PositionsFine /\ SecuritiesFine
    <2> DEFINE r == IF w.path[1] = "accounts"
                    THEN MergeCash(files[w.path], w.content)
                    ELSE MergeInvestment(files[w.path], w.content)
    <2>1. /\ files' = [files EXCEPT ![w.path] = r]
          /\ positions' = positions /\ securities' = securities
      BY <1>3, <1>6
    <2>2. /\ w.path \in Paths
          /\ \/ w.path[1] = "accounts" /\ CashAt(w.path, w.content)
             \/ w.path[1] = "investment" /\ w.content \in InvestmentFile /\ Supplied(w.content)
      BY <1>1, <1>6 DEF Queued
    <2>3. /\ r # Absent
          /\ IF w.path[1] = "accounts" THEN CashAt(w.path, r) ELSE InvestmentAt(r)
      <3>1. CASE w.path[1] = "accounts"
        <4>1. files[w.path] # Absent => CashAt(w.path, files[w.path])
          BY <2>2, <3>1 DEF Contents
        <4> QED
          BY <2>2, <3>1, <4>1, MergedCash
      <3>2. CASE w.path[1] = "investment"
        <4>1. files[w.path] # Absent => InvestmentAt(files[w.path])
          BY <2>2, <3>2 DEF Contents
        <4>2. w.content \in InvestmentFile /\ Supplied(w.content)
          BY <2>2, <3>2
        <4>3. r = MergeInvestment(files[w.path], w.content)
          BY <3>2
        <4> QED
          BY <3>2, <4>1, <4>2, <4>3, MergedInvestment
      <3> QED
        BY <2>2, <3>1, <3>2
    <2> HIDE DEF r
    <2>4. files \in [Paths -> CashFile \cup InvestmentFile \cup {Absent}]
      BY ShapeParts
    <2>5. r \in CashFile \cup InvestmentFile
      BY <2>3 DEF CashAt, InvestmentAt
    <2>6. /\ files' \in [Paths -> CashFile \cup InvestmentFile \cup {Absent}]
          /\ files'[w.path] = r
          /\ \A p \in Paths : p # w.path => files'[p] = files[p]
      BY <2>1, <2>2, <2>4, <2>5
    <2>7. FilesFine
      BY <2>2, <2>3, <2>6 DEF Contents
    <2>8. PositionsFine /\ SecuritiesFine
      BY <2>1, ShapeParts
    <2> HIDE DEF FilesFine, PositionsFine, SecuritiesFine
    <2> QED
      BY <2>7, <2>8
  <1>7. ASSUME w.what = "positions"
        PROVE  FilesFine /\ PositionsFine /\ SecuritiesFine
    <2>1. /\ w.path \in Paths /\ w.content \subseteq SecurityId /\ w.content # Absent
          /\ positions' = [positions EXCEPT ![w.path] = w.content]
          /\ files' = files /\ securities' = securities
      BY <1>1, <1>3, <1>7 DEF Queued
    <2>2. PositionsFine
      BY <2>1, ShapeParts
    <2>3. FilesFine
      BY <2>1, ShapeParts DEF Contents
    <2>4. SecuritiesFine
      BY <2>1, ShapeParts
    <2> HIDE DEF FilesFine, PositionsFine, SecuritiesFine
    <2> QED
      BY <2>2, <2>3, <2>4
  <1>8. ASSUME w.what = "securities"
        PROVE  FilesFine /\ PositionsFine /\ SecuritiesFine
    <2>1. /\ w.content \subseteq SecurityId /\ securities' = securities \cup w.content
          /\ files' = files /\ positions' = positions
      BY <1>1, <1>3, <1>8 DEF Queued
    <2>2. FilesFine
      BY <2>1, ShapeParts DEF Contents
    <2>3. PositionsFine /\ SecuritiesFine
      BY <2>1, ShapeParts
    <2> HIDE DEF FilesFine, PositionsFine, SecuritiesFine
    <2> QED
      BY <2>2, <2>3
  <1>9. FilesFine /\ PositionsFine /\ SecuritiesFine
    <2> HIDE DEF FilesFine, PositionsFine, SecuritiesFine
    <2> QED
      BY <1>3, <1>6, <1>7, <1>8
  <1>10. \A p \in Paths :
           files'[p] # Absent =>
             IF p[1] = "accounts" THEN CashAt(p, files[p])' ELSE InvestmentAt(files[p])'
    BY <1>2, <1>9 DEF CashAt, InvestmentAt, Supplied
  <1>11. Contents'
    BY <1>4, <1>10 DEF Contents
  <1>12. Shape'
    BY <1>1, <1>2, <1>5, <1>9, <1>11, ShapeKept
  <1>13. \A what, p : There(what, p) => There(what, p)'
    BY <1>9 DEF There
  <1> QED
    BY <1>11, <1>12, <1>13

\* What a crash leaves is the disk as it was.
LEMMA CrashKeeps ==
  ASSUME Shape, Contents, Crash
  PROVE  Shape' /\ Contents' /\ \A what, p : There(what, p) => There(what, p)'
  <1>1. /\ todo' = <<>> /\ files' = files /\ positions' = positions
        /\ securities' = securities /\ scan' = scan /\ meanwhile' = meanwhile
        /\ repeats' = repeats
    BY DEF Crash
  <1>2. Contents'
    <2>1. \A p \in Paths :
            files'[p] # Absent =>
              IF p[1] = "accounts" THEN CashAt(p, files[p])' ELSE InvestmentAt(files[p])'
      BY <1>1 DEF Contents, CashAt, InvestmentAt, Supplied
    <2>2. DOMAIN todo' = {}
      BY <1>1
    <2> QED
      BY <2>1, <2>2 DEF Contents
  <1>3. todo' \in Seq(Writes)
    BY <1>1
  <1>4. Shape'
    BY <1>1, <1>2, <1>3, ShapeKept, ShapeParts
  <1>5. \A what, p : There(what, p) => There(what, p)'
    BY <1>1 DEF There
  <1> QED
    BY <1>2, <1>4, <1>5

\* A file that is taken away takes its history with it.
LEMMA RemovalKeeps ==
  ASSUME Shape, Contents, RemoveFile
  PROVE  Shape' /\ Contents'
  <1>1. todo' = <<>> /\ todo' \in Seq(Writes) /\ scan' = scan /\ Begin("removal")
    BY DEF RemoveFile
  <1>2. meanwhile' \subseteq {"answer", "removal"}
    BY <1>1, BeginTyped
  <1>3. ASSUME NEW p \in Paths, files' = [files EXCEPT ![p] = Absent],
               repeats' = {x \in repeats : x[1] # p},
               positions' = positions, securities' = securities
        PROVE  Shape' /\ Contents'
    <2>1. /\ files' \in [Paths -> CashFile \cup InvestmentFile \cup {Absent}]
          /\ files'[p] = Absent
          /\ \A q \in Paths : q # p => files'[q] = files[q]
      BY <1>3, ShapeParts
    <2>2. \A q, f : q # p /\ CashAt(q, f) => CashAt(q, f)'
      BY <1>3 DEF CashAt
    <2>3. \A q \in Paths :
            files'[q] # Absent =>
              IF q[1] = "accounts" THEN CashAt(q, files[q])' ELSE InvestmentAt(files[q])'
      <3> SUFFICES ASSUME NEW q \in Paths, files'[q] # Absent
                   PROVE  IF q[1] = "accounts" THEN CashAt(q, files[q])'
                          ELSE InvestmentAt(files[q])'
        OBVIOUS
      <3>1. q # p /\ files'[q] = files[q]
        BY <2>1
      <3>2. IF q[1] = "accounts" THEN CashAt(q, files[q]) ELSE InvestmentAt(files[q])
        BY <3>1 DEF Contents
      <3> QED
        BY <1>3, <3>1, <3>2 DEF CashAt, InvestmentAt, Supplied
    <2>4. Contents'
      BY <1>1, <2>3 DEF Contents
    <2>5. \A x \in repeats' : x[1] \in Paths
      BY <1>3, ShapeParts
    <2> QED
      BY <1>1, <1>2, <1>3, <2>1, <2>4, <2>5, ShapeKept, ShapeParts
  <1>4. ASSUME files' = files, repeats' = repeats,
               positions' \in [Paths -> (SUBSET SecurityId) \cup {Absent}],
               securities' \subseteq SecurityId
        PROVE  Shape' /\ Contents'
    <2>1. \A p \in Paths :
            files'[p] # Absent =>
              IF p[1] = "accounts" THEN CashAt(p, files[p])' ELSE InvestmentAt(files[p])'
      BY <1>4 DEF Contents, CashAt, InvestmentAt, Supplied
    <2>2. DOMAIN todo' = {}
      BY <1>1
    <2>3. Contents'
      BY <2>1, <2>2 DEF Contents
    <2> QED
      BY <1>1, <1>2, <1>4, <2>3, ShapeKept, ShapeParts
  <1>5. \/ \E p \in Paths : /\ files' = [files EXCEPT ![p] = Absent]
                            /\ repeats' = {x \in repeats : x[1] # p}
                            /\ positions' = positions /\ securities' = securities
        \/ \E p \in Paths : /\ positions' = [positions EXCEPT ![p] = Absent]
                            /\ files' = files /\ securities' = securities /\ repeats' = repeats
        \/ /\ securities' = {} /\ files' = files /\ positions' = positions
           /\ repeats' = repeats
    BY DEF RemoveFile
  <1>6. CASE \E p \in Paths : /\ positions' = [positions EXCEPT ![p] = Absent]
                              /\ files' = files /\ securities' = securities
                              /\ repeats' = repeats
    <2>1. positions' \in [Paths -> (SUBSET SecurityId) \cup {Absent}]
      BY <1>6, ShapeParts
    <2> QED
      BY <1>4, <1>6, <2>1, ShapeParts
  <1> QED
    BY <1>3, <1>4, <1>5, <1>6, ShapeParts

-----------------------------------------------------------------------------
(***************************************************************************)
(* The walk: what it still has to visit, and what it has reported.         *)
(***************************************************************************)

\* While a walk is under way, what always held holds, and what holds has held.
LEMMA Bracketed ==
  ASSUME Watch
  PROVE  /\ scan'.at = "none" => always' = {} /\ sometimes' = {}
         /\ scan'.at # "none" => always' \subseteq Violations' /\ Violations' \subseteq sometimes'
         /\ scan'.at # "none" /\ scan.at # "none" =>
              always' \subseteq always /\ sometimes \subseteq sometimes'
  BY DEF Watch

\* The writer disturbs no walk, but for the files that it takes away.
LEMMA WriterWalked ==
  ASSUME Walked, Watch, scan' = scan, report' = report,
         scan.at # "none" =>
           /\ meanwhile \subseteq meanwhile'
           /\ "removal" \in meanwhile' \/ \A what, p : There(what, p) => There(what, p)'
  PROVE  Walked'
  <1>1. CASE scan.at = "none"
    <2>1. report' = {} /\ always' = {} /\ sometimes' = {}
      BY <1>1, Bracketed DEF Walked
    <2>2. scan'.at = "none" /\ scan'.left = {}
      <3>1. "none" \notin Kinds
        BY DEF Kinds
      <3> QED
        BY <1>1, <3>1 DEF Walked
    <2> QED
      BY <2>1, <2>2 DEF Walked
  <1>2. CASE scan.at # "none"
    <2>1. /\ always' \subseteq Violations' /\ Violations' \subseteq sometimes'
          /\ always' \subseteq always /\ sometimes \subseteq sometimes'
      BY <1>2, Bracketed
    <2>2. \A what, p : Ahead(what, p)' <=> Ahead(what, p)
      BY DEF Ahead
    <2>3. \A v \in always' : v \in report' \/ Ahead(v.what, v.path)'
      BY <2>1, <2>2 DEF Walked
    <2>4. \A v \in report' : v.rule # "json_parse" => v \in sometimes'
      BY <2>1 DEF Walked
    <2>5. (\E v \in report' : v.rule = "json_parse") => "removal" \in meanwhile'
      BY <1>2 DEF Walked
    <2>6. \A f \in scan'.left : There(f[1], f[2])' \/ "removal" \in meanwhile'
      BY <1>2 DEF Walked
    <2>7. scan'.at \notin Kinds => scan'.left = {}
      BY DEF Walked
    <2> QED
      BY <1>2, <2>1, <2>3, <2>4, <2>5, <2>6, <2>7 DEF Walked
  <1> QED
    BY <1>1, <1>2

\* Begin lets what was begun stand during a walk.
LEMMA BeginKeeps ==
  ASSUME NEW what, Begin(what), scan.at # "none"
  PROVE  meanwhile' = meanwhile \cup {what}
  BY DEF Begin

\* An answer does not touch the disk.
LEMMA AnswerWalked ==
  ASSUME Walked, Watch,
         \/ \E answer \in SimplefinAnswers : AnswerSimplefin(answer)
         \/ \E answer \in SnaptradeAnswers : AnswerSnaptrade(answer)
  PROVE  Walked'
  <1>1. /\ files' = files /\ positions' = positions /\ securities' = securities
        /\ scan' = scan /\ report' = report /\ Begin("answer")
    BY DEF AnswerSimplefin, AnswerSnaptrade, disk
  <1>2. \A what, p : There(what, p) => There(what, p)'
    BY <1>1 DEF There
  <1>3. scan.at # "none" => meanwhile \subseteq meanwhile'
    BY <1>1, BeginKeeps
  <1> QED
    BY <1>1, <1>2, <1>3, WriterWalked

\* A removal is noted.
LEMMA RemovalWalked ==
  ASSUME Walked, Watch, RemoveFile
  PROVE  Walked'
  <1>1. scan' = scan /\ report' = report /\ Begin("removal")
    BY DEF RemoveFile
  <1>2. scan.at # "none" => meanwhile' = meanwhile \cup {"removal"}
    BY <1>1, BeginKeeps
  <1> QED
    BY <1>1, <1>2, WriterWalked

\* No step of the scan touches the directory.
LEMMA SameVerdicts ==
  ASSUME disk' = disk
  PROVE  /\ \A what, p : Verdict(what, p)' = Verdict(what, p)
         /\ \A what, p : There(what, p)' <=> There(what, p)
         /\ Violations' = Violations
  <1>1. files' = files /\ positions' = positions /\ securities' = securities
    BY DEF disk
  <1>2. \A what, p : Verdict(what, p)' = Verdict(what, p)
    BY <1>1 DEF Verdict
  <1>3. \A what, p : There(what, p)' <=> There(what, p)
    BY <1>1 DEF There
  <1>4. Violations' = Violations
    BY <1>1 DEF Violations, Verdict
  <1> QED
    BY <1>2, <1>3, <1>4

\* A connection directory lists the files that are in it.
LEMMA Globbed ==
  ASSUME NEW kind, NEW c
  PROVE  /\ \A f \in Glob(kind, c) :
              /\ f[1] \in {"account", "positions"} /\ f[2] \in Paths
              /\ f = <<f[1], f[2]>> /\ There(f[1], f[2])
         /\ \A what, p :
              what # "securities" /\ There(what, p) /\ p[1] = kind /\ p[2] = c =>
                <<what, p>> \in Glob(kind, c)
  BY DEF Glob, There

\* What is there is of one of the two kinds, or the registry.
LEMMA ThereIs ==
  ASSUME NEW what, NEW p, There(what, p)
  PROVE  \/ what = "securities"
         \/ /\ what \in {"account", "positions"} /\ p \in Paths
            /\ p[1] \in {"accounts", "investment"} /\ p[2] \in Conns
  BY DEF There, Paths, Kinds

\* Where a walk of a subtree begins, all that is there is ahead, or of the
\* subtree before it.
LEMMA WalkAhead ==
  ASSUME NEW kind \in Kinds, Walk(kind), NEW what, NEW p, There(what, p),
         \/ what = "securities"
         \/ p[1] = kind
         \/ kind = "accounts"
  PROVE  Ahead(what, p)'
  <1>1. PICK dirs \in SUBSET Conns :
          /\ {c \in Conns : Glob(kind, c) # {}} \subseteq dirs
          /\ scan' = [at |-> kind, dirs |-> dirs, left |-> {}]
    BY DEF Walk
  <1>2. scan'.at = kind /\ scan'.dirs = dirs
    BY <1>1
  <1>3. CASE what = "securities"
    BY <1>2, <1>3 DEF Ahead
  <1>4. CASE what # "securities" /\ p[1] = kind
    <2>1. what \in {"account", "positions"} /\ p[2] \in Conns
      BY <1>4, ThereIs
    <2>2. <<what, p>> \in Glob(kind, p[2])
      BY <1>4, Globbed
    <2> QED
      BY <1>1, <1>2, <1>4, <2>1, <2>2 DEF Ahead
  <1>5. CASE what # "securities" /\ p[1] # kind /\ kind = "accounts"
    BY <1>2, <1>5, ThereIs DEF Ahead
  <1> QED
    BY <1>3, <1>4, <1>5

\* Walked, from its parts after a step that is watched.
LEMMA WalkedFrom ==
  ASSUME Watch,
         scan'.at = "none" => report' = {},
         \A v \in always' : v \in report' \/ Ahead(v.what, v.path)',
         \A v \in report' : v.rule # "json_parse" => v \in sometimes',
         (\E v \in report' : v.rule = "json_parse") => "removal" \in meanwhile',
         scan'.at \notin Kinds => scan'.left = {},
         \A f \in scan'.left : There(f[1], f[2])' \/ "removal" \in meanwhile'
  PROVE  Walked'
  BY Bracketed DEF Walked

\* The steps of the scan keep the types and the contents.
LEMMA ScanKeeps ==
  ASSUME Shape, Contents, ScanStep
  PROVE  Shape' /\ Contents'
  <1> DEFINE Scans == [at : Kinds \cup {"none", "securities", "done"}, dirs : SUBSET Conns,
                       left : SUBSET ({"account", "positions"} \X Paths)]
  <1>1. /\ files' = files /\ positions' = positions /\ securities' = securities
        /\ todo' = todo /\ repeats' = repeats
    BY DEF ScanStep, StartValidate, ListConnection, ValidateFile, EndSubtree,
       ValidateRegistry, TakeReport, disk
  <1>2. meanwhile' \subseteq {"answer", "removal"}
    BY ShapeParts DEF ScanStep, StartValidate, ListConnection, ValidateFile, EndSubtree,
       ValidateRegistry, TakeReport
  <1>3. ASSUME NEW kind \in Kinds, Walk(kind)
        PROVE  scan' \in Scans
    BY <1>3 DEF Walk
  <1>4. scan \in Scans
    BY DEF Shape
  <1>5. scan' \in Scans
    <2>1. CASE StartValidate
      BY <1>3, <2>1 DEF StartValidate, Kinds
    <2>2. CASE ListConnection
      <3>1. PICK c \in scan.dirs :
              scan' = [scan EXCEPT !.dirs = @ \ {c}, !.left = Glob(scan.at, c)]
        BY <2>2 DEF ListConnection
      <3>2. Glob(scan.at, c) \in SUBSET ({"account", "positions"} \X Paths)
        BY DEF Glob
      <3> QED
        BY <1>4, <3>1, <3>2
    <2>3. CASE ValidateFile
      <3>1. PICK f \in scan.left : scan' = [scan EXCEPT !.left = @ \ {f}]
        BY <2>3 DEF ValidateFile
      <3> QED
        BY <1>4, <3>1
    <2>4. CASE EndSubtree
      <3>1. Walk("investment") \/ scan' = [scan EXCEPT !.at = "securities"]
        BY <2>4 DEF EndSubtree
      <3> QED
        BY <1>3, <1>4, <3>1 DEF Kinds
    <2>5. CASE ValidateRegistry
      BY <1>4, <2>5 DEF ValidateRegistry
    <2>6. CASE TakeReport
      BY <2>6 DEF TakeReport, NoScan
    <2> QED
      BY <2>1, <2>2, <2>3, <2>4, <2>5, <2>6 DEF ScanStep
  <1>6. scan'.at \in Kinds \cup {"none", "securities", "done"} /\ scan'.dirs \subseteq Conns
    BY <1>5
  <1>7. Contents'
    BY <1>1 DEF Contents, Queued, CashAt, InvestmentAt, Supplied
  <1>8. TypeOK'
    BY <1>1, <1>2, <1>6 DEF Shape, TypeOK
  <1>9. Shape'
    BY <1>1, <1>5, <1>8 DEF Shape
  <1> QED
    BY <1>7, <1>9

\* At the start all is ahead.
LEMMA StartWalked ==
  ASSUME Walked, Watch, StartValidate
  PROVE  Walked'
  <1>1. /\ scan.at = "none" /\ Walk("accounts") /\ disk' = disk
        /\ report' = report /\ report = {}
    BY DEF StartValidate, Walked
  <1>2. scan'.at = "accounts" /\ scan'.left = {}
    BY <1>1 DEF Walk
  <1>3. always' \subseteq Violations
    BY <1>1, <1>2, Bracketed, SameVerdicts
  <1>4. \A v \in always' : Ahead(v.what, v.path)'
    BY <1>1, <1>3, ViolationsThere, WalkAhead DEF Kinds
  <1> QED
    BY <1>1, <1>2, <1>4, WalkedFrom

\* What a step in the midst of a walk may count on.
LEMMA MidWalk ==
  ASSUME Walked, Watch, disk' = disk, scan.at # "none", scan'.at # "none"
  PROVE  /\ \A v \in always' : /\ v \in always /\ v \in Violations
                               /\ v \in report \/ Ahead(v.what, v.path)
                               /\ There(v.what, v.path) /\ v \in Verdict(v.what, v.path)
         /\ sometimes \subseteq sometimes' /\ Violations \subseteq sometimes'
  <1>1. always' \subseteq always /\ sometimes \subseteq sometimes'
    BY Bracketed
  <1>2. always \subseteq Violations /\ Violations \subseteq sometimes
    BY DEF Walked
  <1>3. \A v \in always : v \in report \/ Ahead(v.what, v.path)
    BY DEF Walked
  <1> QED
    BY <1>1, <1>2, <1>3, ViolationsThere

\* The files of a directory are listed before it is ticked off.
LEMMA ListWalked ==
  ASSUME Shape, Walked, Watch, ListConnection
  PROVE  Walked'
  <1>1. /\ scan.at \in Kinds /\ scan.left = {} /\ disk' = disk /\ report' = report
        /\ meanwhile' = meanwhile
    BY DEF ListConnection
  <1>2. PICK c \in scan.dirs :
          scan' = [scan EXCEPT !.dirs = @ \ {c}, !.left = Glob(scan.at, c)]
    BY DEF ListConnection
  <1>3. /\ scan'.at = scan.at /\ scan'.dirs = scan.dirs \ {c}
        /\ scan'.left = Glob(scan.at, c)
    BY <1>2 DEF Shape
  <1>4. scan.at # "none" /\ scan'.at # "none"
    BY <1>1, <1>3 DEF Kinds
  <1>5. ASSUME NEW v \in always', v \notin report'
        PROVE  Ahead(v.what, v.path)'
    <2>1. There(v.what, v.path) /\ Ahead(v.what, v.path)
      BY <1>1, <1>4, <1>5, MidWalk
    <2>2. CASE v.what # "securities" /\ v.path[1] = scan.at /\ v.path[2] = c
      <3>1. <<v.what, v.path>> \in scan'.left
        BY <1>3, <2>1, <2>2, Globbed
      <3> QED
        BY <1>3, <2>1, <2>2, <3>1, ThereIs DEF Ahead
    <2>3. CASE ~(v.what # "securities" /\ v.path[1] = scan.at /\ v.path[2] = c)
      BY <1>1, <1>3, <2>1, <2>3 DEF Ahead
    <2> QED
      BY <2>2, <2>3
  <1>6. \A f \in scan'.left : There(f[1], f[2])'
    BY <1>1, <1>3, Globbed, SameVerdicts
  <1>7. \A v \in report' : v.rule # "json_parse" => v \in sometimes'
    BY <1>1, <1>4, MidWalk DEF Walked
  <1>8. (\E v \in report' : v.rule = "json_parse") => "removal" \in meanwhile'
    BY <1>1 DEF Walked
  <1> QED
    BY <1>1, <1>3, <1>4, <1>5, <1>6, <1>7, <1>8, WalkedFrom

\* A file is judged before it is ticked off; if it is gone, one was removed.
LEMMA FileWalked ==
  ASSUME Shape, Walked, Watch, ValidateFile
  PROVE  Walked'
  <1>1. scan.at \in Kinds /\ disk' = disk /\ meanwhile' = meanwhile
    BY DEF ValidateFile
  <1>2. PICK f \in scan.left :
          /\ report' = report \cup Verdict(f[1], f[2])
          /\ scan' = [scan EXCEPT !.left = @ \ {f}]
    BY DEF ValidateFile
  <1>3. /\ scan'.at = scan.at /\ scan'.dirs = scan.dirs
        /\ scan'.left = scan.left \ {f}
    BY <1>2 DEF Shape
  <1>4. scan.at # "none" /\ scan'.at # "none"
    BY <1>1, <1>3 DEF Kinds
  <1>5. f \in {"account", "positions"} \X Paths /\ Target(f[1], f[2]) /\ f[1] # "securities"
    <2>1. f \in {"account", "positions"} \X Paths
      BY DEF Shape
    <2> QED
      BY <2>1 DEF Target
  <1>6. ASSUME NEW v \in always', v \notin report'
        PROVE  Ahead(v.what, v.path)'
    <2>1. Ahead(v.what, v.path) /\ v \in Verdict(v.what, v.path)
      BY <1>1, <1>2, <1>4, <1>6, MidWalk
    <2>2. <<v.what, v.path>> # f
      BY <1>2, <1>6, <2>1
    <2> QED
      BY <1>3, <2>1, <2>2 DEF Ahead
  <1>7. ASSUME NEW v \in Verdict(f[1], f[2])
        PROVE  IF v.rule = "json_parse" THEN "removal" \in meanwhile'
               ELSE v \in sometimes'
    <2>1. CASE There(f[1], f[2])
      <3>1. v.rule # "json_parse" /\ v \in Violations
        BY <1>5, <1>7, <2>1, VerdictIs, ThereViolations
      <3> QED
        BY <1>1, <1>4, <3>1, MidWalk
    <2>2. CASE ~There(f[1], f[2])
      <3>1. v.rule = "json_parse" /\ "removal" \in meanwhile
        BY <1>5, <1>7, <2>2, VerdictIs DEF Walked
      <3> QED
        BY <1>1, <3>1
    <2> QED
      BY <2>1, <2>2
  <1>8. \A v \in report' : v.rule # "json_parse" => v \in sometimes'
    BY <1>1, <1>2, <1>4, <1>7, MidWalk DEF Walked
  <1>9. (\E v \in report' : v.rule = "json_parse") => "removal" \in meanwhile'
    BY <1>1, <1>2, <1>7 DEF Walked
  <1>10. \A g \in scan'.left : There(g[1], g[2])' \/ "removal" \in meanwhile'
    BY <1>1, <1>3, SameVerdicts DEF Walked
  <1> QED
    BY <1>1, <1>3, <1>4, <1>6, <1>8, <1>9, <1>10, WalkedFrom

\* A subtree is left when nothing of it is ahead.
LEMMA EndWalked ==
  ASSUME Shape, Walked, Watch, EndSubtree
  PROVE  Walked'
  <1>1. /\ scan.at \in Kinds /\ scan.left = {} /\ scan.dirs = {} /\ disk' = disk
        /\ report' = report /\ meanwhile' = meanwhile
    BY DEF EndSubtree
  <1>2. \/ scan.at = "accounts" /\ Walk("investment")
        \/ scan.at = "investment" /\ scan' = [scan EXCEPT !.at = "securities"]
    BY <1>1 DEF EndSubtree, Kinds
  <1>3. scan'.at \in {"investment", "securities"} /\ scan'.left = {}
    BY <1>1, <1>2 DEF Walk, Shape
  <1>4. scan.at # "none" /\ scan'.at # "none"
    BY <1>1, <1>3 DEF Kinds
  <1>5. ASSUME NEW v \in always', v \notin report'
        PROVE  Ahead(v.what, v.path)'
    <2>1. There(v.what, v.path) /\ Ahead(v.what, v.path)
      BY <1>1, <1>4, <1>5, MidWalk
    <2>2. CASE v.what = "securities"
      BY <1>3, <2>2 DEF Ahead, Kinds
    <2>3. CASE v.what # "securities"
      <3>1. scan.at = "accounts" /\ v.path[1] = "investment"
        BY <1>1, <2>1, <2>3 DEF Ahead
      <3> QED
        BY <1>2, <2>1, <3>1, WalkAhead DEF Kinds
    <2> QED
      BY <2>2, <2>3
  <1>6. \A v \in report' : v.rule # "json_parse" => v \in sometimes'
    BY <1>1, <1>4, MidWalk DEF Walked
  <1>7. (\E v \in report' : v.rule = "json_parse") => "removal" \in meanwhile'
    BY <1>1 DEF Walked
  <1> QED
    BY <1>3, <1>4, <1>5, <1>6, <1>7, WalkedFrom

\* The registry comes last.
LEMMA RegistryWalked ==
  ASSUME Shape, Walked, Watch, ValidateRegistry
  PROVE  Walked'
  <1>1. /\ scan.at = "securities" /\ disk' = disk /\ meanwhile' = meanwhile
        /\ scan' = [scan EXCEPT !.at = "done"]
        /\ report' = IF securities = {} THEN report
                     ELSE report \cup Verdict("securities", Registry)
    BY DEF ValidateRegistry
  <1>2. scan'.at = "done" /\ scan'.left = {} /\ scan.left = {}
    BY <1>1 DEF Shape, Walked, Kinds
  <1>3. scan.at # "none" /\ scan'.at # "none"
    BY <1>1, <1>2
  <1>4. ASSUME NEW v \in always'
        PROVE  v \in report'
    <2>1. /\ There(v.what, v.path) /\ v \in Verdict(v.what, v.path)
          /\ v \in report \/ Ahead(v.what, v.path)
      BY <1>1, <1>3, MidWalk
    <2>2. CASE v \in report
      BY <1>1, <2>2
    <2>3. CASE v.what = "securities"
      BY <1>1, <2>1, <2>3 DEF There
    <2>4. CASE v.what # "securities"
      <3>1. ~Ahead(v.what, v.path)
        BY <1>1, <2>1, <2>4, ThereIs DEF Ahead
      <3> QED
        BY <2>1, <2>2, <3>1
    <2> QED
      BY <2>3, <2>4
  <1>5. ASSUME NEW v \in report', v \notin report
        PROVE  v.rule # "json_parse" /\ v \in sometimes'
    <2>1. There("securities", Registry) /\ v \in Verdict("securities", Registry)
      BY <1>1, <1>5 DEF There
    <2>2. v.rule # "json_parse" /\ v \in Violations
      BY <2>1, VerdictIs, ThereViolations DEF Target
    <2> QED
      BY <1>1, <1>3, <2>2, MidWalk
  <1>6. \A v \in report' : v.rule # "json_parse" => v \in sometimes'
    BY <1>1, <1>3, <1>5, MidWalk DEF Walked
  <1>7. (\E v \in report' : v.rule = "json_parse") => "removal" \in meanwhile'
    BY <1>1, <1>5 DEF Walked
  <1> QED
    BY <1>2, <1>3, <1>4, <1>6, <1>7, WalkedFrom

\* And the next walk starts afresh.
LEMMA TakeWalked ==
  ASSUME Watch, TakeReport
  PROVE  Walked'
  <1>1. scan'.at = "none" /\ scan'.left = {} /\ report' = {} /\ always' = {}
    BY Bracketed DEF TakeReport, NoScan
  <1> QED
    BY <1>1, WalkedFrom

-----------------------------------------------------------------------------
(***************************************************************************)
(* The invariant holds.                                                    *)
(***************************************************************************)

\* It holds at first.
LEMMA RInvInit == Init => RInv
  <1> SUFFICES ASSUME Init PROVE RInv
    OBVIOUS
  <1>1. Shape /\ Contents
    BY ContentsInit
  <1>2. /\ scan.at = "none" /\ scan.left = {} /\ report = {} /\ always = {}
        /\ sometimes = {}
    BY DEF Init, NoScan
  <1>3. Walked
    BY <1>2 DEF Walked
  <1> QED
    BY <1>1, <1>3 DEF RInv

\* Every step keeps it.
LEMMA RInvNext == RInv /\ [Next]_vars => RInv'
  <1> SUFFICES ASSUME RInv, [Next]_vars PROVE RInv'
    OBVIOUS
  <1>1. Shape /\ Contents /\ Walked
    BY DEF RInv
  <1>2. CASE ScanStep /\ Watch
    <2>1. Shape' /\ Contents'
      BY <1>1, <1>2, ScanKeeps
    <2>2. Walked'
      BY <1>1, <1>2, StartWalked, ListWalked, FileWalked, EndWalked, RegistryWalked,
         TakeWalked DEF ScanStep
    <2> QED
      BY <2>1, <2>2 DEF RInv
  <1>3. CASE (\/ \E answer \in SimplefinAnswers : AnswerSimplefin(answer)
              \/ \E answer \in SnaptradeAnswers : AnswerSnaptrade(answer)) /\ Watch
    BY <1>1, <1>3, AnswerKeeps, AnswerWalked DEF RInv
  <1>4. CASE WriteNext /\ Watch
    <2>1. scan' = scan /\ report' = report /\ meanwhile' = meanwhile
      BY <1>4 DEF WriteNext
    <2> QED
      BY <1>1, <1>4, <2>1, WriteKeeps, WriterWalked DEF RInv
  <1>5. CASE Crash /\ Watch
    <2>1. scan' = scan /\ report' = report /\ meanwhile' = meanwhile
      BY <1>5 DEF Crash
    <2> QED
      BY <1>1, <1>5, <2>1, CrashKeeps, WriterWalked DEF RInv
  <1>6. CASE RemoveFile /\ Watch
    BY <1>1, <1>6, RemovalKeeps, RemovalWalked DEF RInv
  <1>7. CASE UNCHANGED vars
    <2>1. /\ files' = files /\ positions' = positions /\ securities' = securities
          /\ disk' = disk /\ todo' = todo /\ repeats' = repeats /\ scan' = scan
          /\ report' = report /\ always' = always /\ sometimes' = sometimes
          /\ meanwhile' = meanwhile
      BY <1>7 DEF vars, disk, validator
    <2>2. Contents'
      BY <1>1, <2>1 DEF Contents, Queued, CashAt, InvestmentAt, Supplied
    <2>3. todo \in Seq(Writes) /\ meanwhile \subseteq {"answer", "removal"}
      BY <1>1, ShapeParts
    <2>4. Shape'
      BY <1>1, <2>1, <2>2, <2>3, ShapeKept, ShapeParts
    <2>5. /\ Violations' = Violations /\ \A what, p : There(what, p)' <=> There(what, p)
          /\ \A what, p : Ahead(what, p)' <=> Ahead(what, p)
      BY <2>1, SameVerdicts DEF Ahead
    <2>6. Walked'
      BY <1>1, <2>1, <2>5 DEF Walked
    <2> QED
      BY <2>2, <2>4, <2>6 DEF RInv
  <1> QED
    BY <1>2, <1>3, <1>4, <1>5, <1>6, <1>7 DEF Next, WriterStep

\* So it always holds.
LEMMA Invariance == Spec => []RInv
  BY RInvInit, RInvNext, PTL DEF Spec

-----------------------------------------------------------------------------
(***************************************************************************)
(* Whatever the answers, the connections and the names: each field on disk *)
(* is of a class that the readers of the file convert.                     *)
(***************************************************************************)
THEOREM TypeCorrect == Spec => []TypeOK
  <1>1. RInv => TypeOK
    BY DEF RInv, Shape
  <1> QED
    BY <1>1, Invariance, PTL

(***************************************************************************)
(* The report of `finstore validate` names what was wrong all along and    *)
(* nothing that never was, whatever a fetch, a crash or a reset does to the*)
(* directory during the walk.                                              *)
(***************************************************************************)
THEOREM ReportIsFaithful == Spec => []ReportFaithful
  <1>1. RInv => ReportFaithful
    <2> SUFFICES ASSUME RInv, scan.at = "done"
                 PROVE  /\ always \subseteq report
                        /\ {v \in report : v.rule # "json_parse"} \subseteq sometimes
                        /\ (\E v \in report : v.rule = "json_parse") => "removal" \in meanwhile
      BY DEF ReportFaithful
    <2>1. Walked
      BY DEF RInv
    <2>2. ASSUME NEW v \in always PROVE v \in report
      <3>1. There(v.what, v.path)
        BY <2>1, ViolationsThere DEF Walked
      <3>2. ~Ahead(v.what, v.path)
        BY <3>1, ThereIs DEF Ahead, Kinds
      <3> QED
        BY <2>1, <3>2 DEF Walked
    <2> QED
      BY <2>1, <2>2 DEF Walked
  <1> QED
    BY <1>1, Invariance, PTL

\* The rules of each table, for the ones that the program answers for.
LEMMA CashRuleNames ==
  ASSUME NEW f, NEW r
  PROVE  /\ r \in DOMAIN ACCOUNT_RULES(f) => r \notin OwnRules
         /\ r \in DOMAIN TRANSACTION_RULES(f) => r \notin OwnRules
  <1>1. DOMAIN ACCOUNT_RULES(f) =
          {"acct_id_nonempty", "acct_name_nonempty", "acct_currency_iso",
           "acct_balance_decimal", "acct_available_balance_decimal",
           "acct_balance_date_epoch", "acct_conn_id_nonempty"}
    BY DEF ACCOUNT_RULES
  <1>2. DOMAIN TRANSACTION_RULES(f) =
          {"txn_id_nonempty", "txn_posted_epoch", "txn_amount_decimal",
           "txn_texts_string", "txn_transacted_at_epoch"}
    BY DEF TRANSACTION_RULES
  <1> QED
    BY <1>1, <1>2 DEF OwnRules

\* Those it answers for are broken by what it supplies alone.
LEMMA InvestmentRuleNames ==
  ASSUME NEW f, NEW r \in OwnRules
  PROVE  /\ r \in Broken(InvestmentAccountRules(f)) => f.broker = "" \/ f.conn = ""
         /\ r \in Broken(InvestmentTransactionRules(f)) =>
              f.trntype = "" \/ f.trade_date = "null"
  <1>1. /\ DOMAIN InvestmentAccountRules(f) =
             {"inv_acct_id_nonempty", "inv_acct_name_nonempty",
              "inv_acct_broker_id_nonempty", "inv_acct_conn_id_nonempty"}
        /\ DOMAIN InvestmentTransactionRules(f) =
             {"inv_txn_id_nonempty", "inv_txn_trntype_nonempty", "inv_txn_trade_date_int"}
    BY DEF InvestmentAccountRules, InvestmentTransactionRules
  <1>2. InvestmentAccountRules(f)["inv_acct_broker_id_nonempty"] = (f.broker = "")
    BY DEF InvestmentAccountRules
  <1>3. InvestmentAccountRules(f)["inv_acct_conn_id_nonempty"] = (f.conn = "")
    BY DEF InvestmentAccountRules
  <1>4. InvestmentTransactionRules(f)["inv_txn_trntype_nonempty"] = (f.trntype = "")
    BY DEF InvestmentTransactionRules
  <1>5. InvestmentTransactionRules(f)["inv_txn_trade_date_int"] = (f.trade_date = "null")
    BY DEF InvestmentTransactionRules
  <1>6. /\ "inv_acct_id_nonempty" \notin OwnRules /\ "inv_acct_name_nonempty" \notin OwnRules
        /\ "inv_txn_id_nonempty" \notin OwnRules
    BY DEF OwnRules
  <1>7. ASSUME r \in Broken(InvestmentAccountRules(f))
        PROVE  f.broker = "" \/ f.conn = ""
    <2>1. r \in DOMAIN InvestmentAccountRules(f) /\ InvestmentAccountRules(f)[r]
      BY <1>7 DEF Broken
    <2>2. r = "inv_acct_broker_id_nonempty" \/ r = "inv_acct_conn_id_nonempty"
      BY <1>1, <1>6, <2>1
    <2> QED
      BY <1>2, <1>3, <2>1, <2>2
  <1>8. ASSUME r \in Broken(InvestmentTransactionRules(f))
        PROVE  f.trntype = "" \/ f.trade_date = "null"
    <2>1. r \in DOMAIN InvestmentTransactionRules(f) /\ InvestmentTransactionRules(f)[r]
      BY <1>8 DEF Broken
    <2>2. r = "inv_txn_trntype_nonempty" \/ r = "inv_txn_trade_date_int"
      BY <1>1, <1>6, <2>1
    <2> QED
      BY <1>4, <1>5, <2>1, <2>2
  <1> QED
    BY <1>7, <1>8

\* The rules for a cash account are none of the program's own.
LEMMA CashRulesAreNotOwn ==
  ASSUME NEW p, NEW f, NEW v \in validate_account_file(p, f)
  PROVE  v.rule \notin OwnRules
  <1>1. CASE v \in Faults(p, Absent, ACCOUNT_RULES(f))
    BY <1>1, FaultIs, CashRuleNames
  <1>2. CASE \E i \in DOMAIN f.txns :
               v \in Faults(p, f.txns[i].id, TRANSACTION_RULES(f.txns[i]))
    BY <1>2, FaultIs, CashRuleNames
  <1>3. CASE v \in Twice(p, f.txns, "txn_ids_unique_within_account")
    BY <1>3, TwiceIs DEF OwnRules
  <1> QED
    BY <1>1, <1>2, <1>3 DEF validate_account_file

\* An investment file that the program filled breaks none of them.
LEMMA OwnRulesKept ==
  ASSUME NEW p, NEW f, InvestmentAt(f), NEW v \in validate_investment_account_file(p, f)
  PROVE  v.rule \notin OwnRules
  <1>1. CASE v \in Faults(p, Absent, InvestmentAccountRules(f))
    <2>1. v.rule \in Broken(InvestmentAccountRules(f))
      BY <1>1, FaultIs
    <2>2. f.broker # "" /\ f.conn # ""
      BY DEF InvestmentAt, Supplied
    <2> QED
      BY <2>1, <2>2, InvestmentRuleNames
  <1>2. CASE \E i \in DOMAIN f.txns :
               v \in Faults(p, f.txns[i].id, InvestmentTransactionRules(f.txns[i]))
    <2>1. PICK i \in DOMAIN f.txns :
            v \in Faults(p, f.txns[i].id, InvestmentTransactionRules(f.txns[i]))
      BY <1>2
    <2>2. v.rule \in Broken(InvestmentTransactionRules(f.txns[i]))
      BY <2>1, FaultIs
    <2>3. f.txns \in Seq(InvestmentTransaction)
      BY DEF InvestmentAt, InvestmentFile
    <2>4. f.txns[i] \in InvestmentTransaction
      BY <2>3
    <2>5. f.txns[i].trntype # "" /\ f.txns[i].trade_date # "null"
      BY <2>4 DEF InvestmentTransaction
    <2> QED
      BY <2>2, <2>5, InvestmentRuleNames
  <1>3. CASE v \in Twice(p, f.txns, "inv_txn_ids_unique")
    BY <1>3, TwiceIs DEF InvestmentAt, Repeated
  <1> QED
    BY <1>1, <1>2, <1>3 DEF validate_investment_account_file

(***************************************************************************)
(* No upstream makes an investment file break a rule about what the program*)
(* supplies itself: connection, type, trade date, one entry per id.        *)
(***************************************************************************)
THEOREM OwnRulesAlwaysHold == Spec => []OwnRulesHold
  <1>1. RInv => OwnRulesHold
    <2> SUFFICES ASSUME RInv, NEW v \in Violations
                 PROVE  v.rule \notin OwnRules
      BY DEF OwnRulesHold
    <2>1. There(v.what, v.path) /\ v \in Verdict(v.what, v.path)
      BY ViolationsThere
    <2>2. CASE v.what = "account"
      <3>1. /\ v.path \in Paths /\ files[v.path] # Absent
            /\ v \in IF v.path[1] = "accounts"
                     THEN validate_account_file(v.path, files[v.path])
                     ELSE validate_investment_account_file(v.path, files[v.path])
        BY <2>1, <2>2 DEF There, Verdict
      <3>2. v.path[1] # "accounts" => InvestmentAt(files[v.path])
        BY <3>1 DEF RInv, Contents
      <3> QED
        BY <3>1, <3>2, CashRulesAreNotOwn, OwnRulesKept
    <2>3. CASE v.what = "positions"
      <3>1. v = Violation("positions", v.path, Absent, "pos_security_id_nonempty")
        BY <2>1, <2>3 DEF There, Verdict, validate_positions_file
      <3>2. v.rule = "pos_security_id_nonempty"
        BY <3>1 DEF Violation
      <3> QED
        BY <3>2 DEF OwnRules
    <2>4. CASE v.what = "securities"
      <3>1. v = Violation("securities", Registry, Absent, "sec_uniqueid_nonempty")
        BY <2>1, <2>4 DEF There, Verdict, validate_securities_file
      <3>2. v.rule = "sec_uniqueid_nonempty"
        BY <3>1 DEF Violation
      <3> QED
        BY <3>2 DEF OwnRules
    <2> QED
      BY <2>1, <2>2, <2>3, <2>4 DEF There
  <1> QED
    BY <1>1, Invariance, PTL

(***************************************************************************)
(* However windows overlap, fetches are repeated and accounts share a file:*)
(* an id that a cash file holds twice came twice in one answer.            *)
(***************************************************************************)
THEOREM DuplicatesComeFromOneAnswer == Spec => []DuplicatesFromOneAnswer
  <1>1. RInv => DuplicatesFromOneAnswer
    BY DEF RInv, Contents, CashAt, DuplicatesFromOneAnswer, Repeated
  <1> QED
    BY <1>1, Invariance, PTL

-----------------------------------------------------------------------------
(***************************************************************************)
(* The verdict on a stored transaction.                                    *)
(***************************************************************************)

\* What a rule table says of an entry with this id.
LEMMA CashVerdictKept ==
  ASSUME NEW p, NEW f, NEW g, f.txns \in Seq(CashTransaction),
         g.txns \in Seq(CashTransaction), KeepsStored(g.txns, f.txns),
         NEW v, v.txn \in IdsOf(f.txns), v.txn # Absent
  PROVE  v \in validate_account_file(p, g) <=> v \in validate_account_file(p, f)
  <1> DEFINE faults(h) == UNION {Faults(p, h.txns[i].id, TRANSACTION_RULES(h.txns[i])) :
                                   i \in DOMAIN h.txns}
             twice(h) == Twice(p, h.txns, "txn_ids_unique_within_account")
  <1>1. /\ v.txn \in RepeatedIn(g.txns) <=> v.txn \in RepeatedIn(f.txns)
        /\ \A a \in DOMAIN g.txns :
             g.txns[a].id = v.txn => a \in DOMAIN f.txns /\ f.txns[a] = g.txns[a]
        /\ \A a \in DOMAIN f.txns : a \in DOMAIN g.txns /\ g.txns[a] = f.txns[a]
    BY StoredIdKept
  <1>2. ASSUME NEW h PROVE v \notin Faults(p, Absent, ACCOUNT_RULES(h))
    BY FaultIs
  <1>3. v \in faults(g) <=> v \in faults(f)
    <2>1. ASSUME NEW a \in DOMAIN g.txns,
                 v \in Faults(p, g.txns[a].id, TRANSACTION_RULES(g.txns[a]))
          PROVE  v \in faults(f)
      <3>1. g.txns[a].id = v.txn
        BY <2>1, FaultIs
      <3>2. a \in DOMAIN f.txns /\ f.txns[a] = g.txns[a]
        BY <1>1, <3>1
      <3> QED
        BY <2>1, <3>2
    <2>2. ASSUME NEW a \in DOMAIN f.txns,
                 v \in Faults(p, f.txns[a].id, TRANSACTION_RULES(f.txns[a]))
          PROVE  v \in faults(g)
      <3>1. a \in DOMAIN g.txns /\ g.txns[a] = f.txns[a]
        BY <1>1
      <3> QED
        BY <2>2, <3>1
    <2> QED
      BY <2>1, <2>2
  <1>4. v \in twice(g) <=> v \in twice(f)
    <2>1. ASSUME NEW h, NEW k, v \in twice(h),
                 v.txn \in RepeatedIn(h.txns) => v.txn \in RepeatedIn(k.txns)
          PROVE  v \in twice(k)
      <3>1. PICK id \in Repeated(h.txns) :
              v = Violation("account", p, id, "txn_ids_unique_within_account")
        BY <2>1 DEF Twice
      <3>2. v.txn = id
        BY <3>1 DEF Violation
      <3>3. id \in Repeated(k.txns)
        BY <2>1, <3>1, <3>2 DEF Repeated
      <3> QED
        BY <3>1, <3>3 DEF Twice
    <2> HIDE DEF twice
    <2> QED
      BY <1>1, <2>1
  <1>5. ASSUME NEW h
        PROVE  v \in validate_account_file(p, h) <=> v \in faults(h) \/ v \in twice(h)
    BY <1>2 DEF validate_account_file
  <1> HIDE DEF faults, twice
  <1> QED
    BY <1>3, <1>4, <1>5

\* The same of an investment file.
LEMMA InvestmentVerdictKept ==
  ASSUME NEW p, NEW f, NEW g, f.txns \in Seq(InvestmentTransaction),
         g.txns \in Seq(InvestmentTransaction), KeepsStored(g.txns, f.txns),
         NEW v, v.txn \in IdsOf(f.txns), v.txn # Absent
  PROVE  v \in validate_investment_account_file(p, g) <=>
           v \in validate_investment_account_file(p, f)
  <1> DEFINE faults(h) ==
               UNION {Faults(p, h.txns[i].id, InvestmentTransactionRules(h.txns[i])) :
                        i \in DOMAIN h.txns}
             twice(h) == Twice(p, h.txns, "inv_txn_ids_unique")
  <1>1. /\ v.txn \in RepeatedIn(g.txns) <=> v.txn \in RepeatedIn(f.txns)
        /\ \A a \in DOMAIN g.txns :
             g.txns[a].id = v.txn => a \in DOMAIN f.txns /\ f.txns[a] = g.txns[a]
        /\ \A a \in DOMAIN f.txns : a \in DOMAIN g.txns /\ g.txns[a] = f.txns[a]
    BY StoredIdKept
  <1>2. ASSUME NEW h PROVE v \notin Faults(p, Absent, InvestmentAccountRules(h))
    BY FaultIs
  <1>3. v \in faults(g) <=> v \in faults(f)
    <2>1. ASSUME NEW a \in DOMAIN g.txns,
                 v \in Faults(p, g.txns[a].id, InvestmentTransactionRules(g.txns[a]))
          PROVE  v \in faults(f)
      <3>1. g.txns[a].id = v.txn
        BY <2>1, FaultIs
      <3>2. a \in DOMAIN f.txns /\ f.txns[a] = g.txns[a]
        BY <1>1, <3>1
      <3> QED
        BY <2>1, <3>2
    <2>2. ASSUME NEW a \in DOMAIN f.txns,
                 v \in Faults(p, f.txns[a].id, InvestmentTransactionRules(f.txns[a]))
          PROVE  v \in faults(g)
      <3>1. a \in DOMAIN g.txns /\ g.txns[a] = f.txns[a]
        BY <1>1
      <3> QED
        BY <2>2, <3>1
    <2> QED
      BY <2>1, <2>2
  <1>4. v \in twice(g) <=> v \in twice(f)
    <2>1. ASSUME NEW h, NEW k, v \in twice(h),
                 v.txn \in RepeatedIn(h.txns) => v.txn \in RepeatedIn(k.txns)
          PROVE  v \in twice(k)
      <3>1. PICK id \in Repeated(h.txns) :
              v = Violation("account", p, id, "inv_txn_ids_unique")
        BY <2>1 DEF Twice
      <3>2. v.txn = id
        BY <3>1 DEF Violation
      <3>3. id \in Repeated(k.txns)
        BY <2>1, <3>1, <3>2 DEF Repeated
      <3> QED
        BY <3>1, <3>3 DEF Twice
    <2> HIDE DEF twice
    <2> QED
      BY <1>1, <2>1
  <1>5. ASSUME NEW h
        PROVE  v \in validate_investment_account_file(p, h) <=> v \in faults(h) \/ v \in twice(h)
    BY <1>2 DEF validate_investment_account_file
  <1> HIDE DEF faults, twice
  <1> QED
    BY <1>3, <1>4, <1>5

\* A file that is merged keeps what it stored, in its place.
LEMMA FilesExtended ==
  ASSUME RInv, [Next]_vars, NEW p \in Paths, files[p] # Absent, files'[p] # Absent
  PROVE  \/ files'[p] = files[p]
         \/ KeepsStored(files'[p].txns, files[p].txns)
  <1>1. Shape /\ Contents
    BY DEF RInv
  <1>2. CASE files' = files
    BY <1>2
  <1>3. CASE WriteNext
    <2> DEFINE w == Head(todo)
    <2>1. Queued(w)
      BY <1>1, <1>3, HeadOfTodo DEF WriteNext
    <2>2. \/ files' = files
          \/ /\ w.what = "account"
             /\ files' = [files EXCEPT ![w.path] =
                            IF w.path[1] = "accounts"
                            THEN MergeCash(files[w.path], w.content)
                            ELSE MergeInvestment(files[w.path], w.content)]
      BY <1>3 DEF WriteNext
    <2> HIDE DEF w
    <2>3. CASE w.what = "account" /\ w.path = p
      <3>1. \/ files' = files
            \/ files'[p] = IF p[1] = "accounts" THEN MergeCash(files[p], w.content)
                           ELSE MergeInvestment(files[p], w.content)
        BY <1>1, <2>2, <2>3, ShapeParts
      <3>2. CASE p[1] = "accounts" /\ files'[p] = MergeCash(files[p], w.content)
        <4>1. files[p] \in CashFile /\ w.content \in CashFile
          BY <1>1, <2>1, <2>3, <3>2 DEF Contents, Queued, CashAt
        <4>2. /\ files[p].txns \in Seq(CashTransaction)
              /\ w.content.txns \in Seq(CashTransaction)
          BY <4>1 DEF CashFile
        <4> DEFINE txns == AddCash(files[p].txns, w.content.txns)
        <4>3. KeepsStored(txns, files[p].txns)
          BY <4>2, CashAdded
        <4> HIDE DEF txns
        <4>4. files'[p] = [files[p] EXCEPT !.id = w.content.id, !.conn = w.content.conn,
                                           !.balance = w.content.balance,
                                           !.available = w.content.available,
                                           !.date = w.content.date, !.txns = txns]
          BY <3>2 DEF MergeCash, txns
        <4>5. files'[p].txns = txns
          BY <4>1, <4>4 DEF CashFile
        <4> QED
          BY <4>3, <4>5
      <3>3. CASE p[1] # "accounts" /\ files'[p] = MergeInvestment(files[p], w.content)
        <4>1. files[p] \in InvestmentFile /\ w.content \in InvestmentFile
          BY <1>1, <2>1, <2>3, <3>3 DEF Contents, Queued, InvestmentAt
        <4>2. /\ files[p].txns \in Seq(InvestmentTransaction)
              /\ w.content.txns \in Seq(InvestmentTransaction)
          BY <4>1 DEF InvestmentFile
        <4> DEFINE txns == AddInvestment(files[p].txns, w.content.txns)
        <4>3. KeepsStored(txns, files[p].txns)
          BY <4>2, InvestmentAdded
        <4> HIDE DEF txns
        <4>4. files'[p] = [w.content EXCEPT !.txns = txns]
          BY <3>3 DEF MergeInvestment, txns
        <4>5. files'[p].txns = txns
          BY <4>1, <4>4 DEF InvestmentFile
        <4> QED
          BY <4>3, <4>5
      <3> QED
        BY <3>1, <3>2, <3>3
    <2>4. CASE ~(w.what = "account" /\ w.path = p)
      BY <1>1, <2>2, <2>4, ShapeParts
    <2> QED
      BY <2>3, <2>4
  <1>4. CASE RemoveFile
    <2>1. \/ files' = files
          \/ \E q \in Paths : files' = [files EXCEPT ![q] = Absent]
      BY <1>4 DEF RemoveFile
    <2> QED
      BY <1>1, <2>1, ShapeParts
  <1>5. files' = files \/ WriteNext \/ RemoveFile
    BY DEF Next, WriterStep, ScanStep, StartValidate, ListConnection, ValidateFile,
       EndSubtree, ValidateRegistry, TakeReport, AnswerSimplefin, AnswerSnaptrade,
       Crash, vars, disk
  <1> QED
    BY <1>2, <1>3, <1>4, <1>5

\* So the verdict on an id that is stored is the same before and after.
LEMMA VerdictKept ==
  ASSUME RInv, RInv', [Next]_vars, NEW p \in Paths, files[p] # Absent, files'[p] # Absent,
         NEW id \in IdsOf(files[p].txns)
  PROVE  VerdictOn(p, id)' = VerdictOn(p, id)
  <1>1. \/ files'[p] = files[p]
        \/ KeepsStored(files'[p].txns, files[p].txns)
    BY FilesExtended
  <1>2. IF p[1] = "accounts" THEN files[p] \in CashFile /\ files'[p] \in CashFile
        ELSE files[p] \in InvestmentFile /\ files'[p] \in InvestmentFile
    BY DEF RInv, Contents, CashAt, InvestmentAt
  <1>3. CASE p[1] = "accounts"
    <2>1. files[p].txns \in Seq(CashTransaction) /\ files'[p].txns \in Seq(CashTransaction)
      BY <1>2, <1>3 DEF CashFile
    <2>2. id # Absent
      <3>1. PICK i \in DOMAIN files[p].txns : id = files[p].txns[i].id
        BY DEF IdsOf
      <3>2. files[p].txns[i] \in CashTransaction
        BY <2>1
      <3>3. id \in STRING
        BY <3>1, <3>2 DEF CashTransaction
      <3> QED
        BY <3>3, RecordsAssumption
    <2>3. ASSUME NEW v, v.txn = id
          PROVE  v \in validate_account_file(p, files'[p]) <=>
                   v \in validate_account_file(p, files[p])
      BY <1>1, <2>1, <2>2, <2>3, CashVerdictKept
    <2>4. /\ Verdict("account", p) = validate_account_file(p, files[p])
          /\ Verdict("account", p)' = validate_account_file(p, files'[p])
      BY <1>3 DEF Verdict
    <2> QED
      BY <2>3, <2>4 DEF VerdictOn
  <1>4. CASE p[1] # "accounts"
    <2>1. /\ files[p].txns \in Seq(InvestmentTransaction)
          /\ files'[p].txns \in Seq(InvestmentTransaction)
      BY <1>2, <1>4 DEF InvestmentFile
    <2>2. id # Absent
      <3>1. PICK i \in DOMAIN files[p].txns : id = files[p].txns[i].id
        BY DEF IdsOf
      <3>2. files[p].txns[i] \in InvestmentTransaction
        BY <2>1
      <3>3. id \in STRING
        BY <3>1, <3>2 DEF InvestmentTransaction
      <3> QED
        BY <3>3, RecordsAssumption
    <2>3. ASSUME NEW v, v.txn = id
          PROVE  v \in validate_investment_account_file(p, files'[p]) <=>
                   v \in validate_investment_account_file(p, files[p])
      BY <1>1, <2>1, <2>2, <2>3, InvestmentVerdictKept
    <2>4. /\ Verdict("account", p) = validate_investment_account_file(p, files[p])
          /\ Verdict("account", p)' = validate_investment_account_file(p, files'[p])
      BY <1>4 DEF Verdict
    <2> QED
      BY <2>3, <2>4 DEF VerdictOn
  <1> QED
    BY <1>3, <1>4

(***************************************************************************)
(* What validate finds on a stored transaction is settled when it is first *)
(* written: no later answer changes it, until the file is reset.           *)
(***************************************************************************)
THEOREM VerdictsStick == Spec => VerdictSticks
  <1>1. RInv /\ RInv' /\ [Next]_vars =>
          [\A p \in Paths :
             files[p] # Absent /\ files'[p] # Absent =>
               \A id \in IdsOf(files[p].txns) : VerdictOn(p, id)' = VerdictOn(p, id)]_files
    BY VerdictKept
  <1> QED
    BY <1>1, Invariance, PTL DEF Spec, VerdictSticks
=============================================================================
