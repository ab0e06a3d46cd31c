------------------------- MODULE RegisterMapProofs --------------------------
(***************************************************************************)
(* Lemmas about the numbering of the registers, for every configuration.   *)
(* UsedUpTo and SizeUpTo are recursive functions on the numbers up to the  *)
(* length of a list.  What holds of all their values is shown by way of    *)
(* the least number for which it would fail (Least).                       *)
(***************************************************************************)
EXTENDS RegisterMap, TLAPS, WellFoundedInduction

LEMMA Least ==
  ASSUME NEW T \in SUBSET Nat, T # {}
  PROVE  \E n \in T : \A m \in T : n <= m
<1> DEFINE R == {ss \in Nat \X Nat : ss[1] < ss[2]}
<1>1. IsWellFoundedOn(R, Nat)
  BY NatLessThanWellFounded, Zenon DEF OpToRel
<1> HIDE DEF R
<1>2. PICK n \in T : \A m \in T : <<m, n>> \notin R
  BY <1>1, WFMin
<1>3. ASSUME NEW m \in T, m < n PROVE FALSE
  <2>1. <<m, n>> \in Nat \X Nat /\ <<m, n>>[1] < <<m, n>>[2]
    BY <1>3
  <2>2. QED
    BY <1>2, <2>1 DEF R
<1>4. QED
  BY <1>3

\* Induction up to N, over a set in place of a predicate.
LEMMA SetInduction ==
  ASSUME NEW N \in Nat, NEW T, 0 \in T,
         \A n \in 0..(N - 1) : n \in T => n + 1 \in T
  PROVE  \A n \in 0..N : n \in T
<1> DEFINE Bad == {n \in 0..N : n \notin T}
<1>1. SUFFICES ASSUME Bad # {} PROVE FALSE
  OBVIOUS
<1>2. PICK n \in Bad : \A m \in Bad : n <= m
  <2>1. Bad \in SUBSET Nat
    OBVIOUS
  <2>2. QED
    BY <1>1, <2>1, Least, Zenon
<1>3. n # 0 /\ n - 1 \in 0..(N - 1) /\ n - 1 \notin Bad
  BY <1>2
<1>4. n - 1 \in T /\ (n - 1) + 1 = n
  BY <1>3
<1>5. QED
  BY <1>2, <1>3, <1>4

-----------------------------------------------------------------------------
(***************************************************************************)
(* The recursion equations.                                                *)
(***************************************************************************)

\* The listener's loop adds one slave's size after the other.
LEMMA SizeStep ==
  ASSUME NEW conf, Len(conf.slaves) \in Nat
  PROVE  \A n \in 0..Len(conf.slaves) :
           SizeUpTo(conf, n) =
             IF n = 0 THEN 0 ELSE SizeUpTo(conf, n - 1) + conf.slaves[n].size
<1> DEFINE N == Len(conf.slaves)
           IsTotal(f, n) ==
             f = [k \in 0..n |-> IF k = 0 THEN 0 ELSE f[k - 1] + conf.slaves[k].size]
           T == {n \in Nat : \E f : IsTotal(f, n)}
<1>1. 0 \in T
  <2>1. IsTotal([k \in 0..0 |-> 0], 0)
    OBVIOUS
  <2>2. QED
    BY <2>1
<1>2. ASSUME NEW n \in 0..(N - 1), n \in T PROVE n + 1 \in T
  <2>1. PICK f : IsTotal(f, n)
    BY <1>2
  <2> DEFINE g == [k \in 0..(n + 1) |-> IF k <= n THEN f[k] ELSE f[n] + conf.slaves[n + 1].size]
  <2>2. ASSUME NEW k \in 0..(n + 1)
        PROVE  g[k] = IF k = 0 THEN 0 ELSE g[k - 1] + conf.slaves[k].size
    <3>1. CASE k = 0
      BY <2>1, <3>1
    <3>2. CASE k # 0 /\ k <= n
      BY <2>1, <3>2
    <3>3. CASE k = n + 1
      BY <2>1, <3>3
    <3>4. QED
      BY <3>1, <3>2, <3>3
  <2>3. IsTotal(g, n + 1)
    BY <2>2
  <2>4. n + 1 \in Nat
    OBVIOUS
  <2> HIDE DEF g, IsTotal
  <2>5. QED
    BY <2>3, <2>4
<1>3. N \in T
  <2>1. N \in Nat /\ \A n \in 0..(N - 1) : n \in T => n + 1 \in T
    BY <1>2
  <2> HIDE DEF T, N
  <2>2. \A n \in 0..N : n \in T
    BY <1>1, <2>1, SetInduction, Zenon
  <2>3. QED
    BY <2>1, <2>2
<1> DEFINE total == CHOOSE f : IsTotal(f, N)
<1>4. IsTotal(total, N)
  BY <1>3
<1>5. \A n \in 0..N : SizeUpTo(conf, n) = total[n]
  BY DEF SizeUpTo
<1>6. QED
  <2> HIDE DEF total
  <2>1. \A n \in 0..N : total[n] = IF n = 0 THEN 0 ELSE total[n - 1] + conf.slaves[n].size
    BY <1>4
  <2>2. QED
    BY <1>5, <2>1

\* readFromFile appends the pins in use one by one.
LEMMA UsedStep ==
  ASSUME NEW conf, Len(conf.pins) \in Nat
  PROVE  \A n \in 0..Len(conf.pins) :
           UsedUpTo(conf, n) =
             IF n = 0 THEN <<>>
             ELSE IF conf.pins[n].use THEN Append(UsedUpTo(conf, n - 1), conf.pins[n])
             ELSE UsedUpTo(conf, n - 1)
<1> DEFINE N == Len(conf.pins)
           IsUsed(f, n) ==
             f = [k \in 0..n |-> IF k = 0 THEN <<>>
                                 ELSE IF conf.pins[k].use THEN Append(f[k - 1], conf.pins[k])
                                 ELSE f[k - 1]]
           T == {n \in Nat : \E f : IsUsed(f, n)}
<1>1. 0 \in T
  <2>1. IsUsed([k \in 0..0 |-> <<>>], 0)
    OBVIOUS
  <2>2. QED
    BY <2>1
<1>2. ASSUME NEW n \in 0..(N - 1), n \in T PROVE n + 1 \in T
  <2>1. PICK f : IsUsed(f, n)
    BY <1>2
  <2> DEFINE g == [k \in 0..(n + 1) |->
                     IF k <= n THEN f[k]
                     ELSE IF conf.pins[n + 1].use THEN Append(f[n], conf.pins[n + 1])
                     ELSE f[n]]
  <2>2. ASSUME NEW k \in 0..(n + 1)
        PROVE  g[k] = IF k = 0 THEN <<>>
                      ELSE IF conf.pins[k].use THEN Append(g[k - 1], conf.pins[k])
                      ELSE g[k - 1]
    <3>1. CASE k = 0
      BY <2>1, <3>1
    <3>2. CASE k # 0 /\ k <= n
      <4>1. k \in 0..n /\ g[k] = f[k] /\ g[k - 1] = f[k - 1]
        BY <3>2
      <4>2. f[k] = IF conf.pins[k].use THEN Append(f[k - 1], conf.pins[k]) ELSE f[k - 1]
        BY <2>1, <3>2, <4>1
      <4>3. QED
        BY <3>2, <4>1, <4>2, Zenon
    <3>3. CASE k = n + 1
      BY <2>1, <3>3
    <3>4. QED
      BY <3>1, <3>2, <3>3
  <2>3. IsUsed(g, n + 1)
    BY <2>2
  <2>4. n + 1 \in Nat
    OBVIOUS
  <2> HIDE DEF g, IsUsed
  <2>5. QED
    BY <2>3, <2>4
<1>3. N \in T
  <2>1. N \in Nat /\ \A n \in 0..(N - 1) : n \in T => n + 1 \in T
    BY <1>2
  <2> HIDE DEF T, N
  <2>2. \A n \in 0..N : n \in T
    BY <1>1, <2>1, SetInduction, Zenon
  <2>3. QED
    BY <2>1, <2>2
<1> DEFINE used == CHOOSE f : IsUsed(f, N)
<1>4. IsUsed(used, N)
  BY <1>3
<1>5. \A n \in 0..N : UsedUpTo(conf, n) = used[n]
  BY DEF UsedUpTo
<1>6. QED
  <2> HIDE DEF used
  <2>1. \A n \in 0..N : used[n] = IF n = 0 THEN <<>>
                                  ELSE IF conf.pins[n].use THEN Append(used[n - 1], conf.pins[n])
                                  ELSE used[n - 1]
    BY <1>4
  <2>2. SUFFICES ASSUME NEW n \in 0..N
                 PROVE  UsedUpTo(conf, n) =
                          IF n = 0 THEN <<>>
                          ELSE IF conf.pins[n].use
                          THEN Append(UsedUpTo(conf, n - 1), conf.pins[n])
                          ELSE UsedUpTo(conf, n - 1)
    OBVIOUS
  <2>3. UsedUpTo(conf, n) = used[n]
    BY <1>5
  <2>4. CASE n = 0
    BY <2>1, <2>3, <2>4
  <2>5. CASE n # 0
    <3>1. n - 1 \in 0..N
      BY <2>5
    <3>2. UsedUpTo(conf, n - 1) = used[n - 1]
      BY <1>5, <3>1
    <3>3. QED
      BY <2>1, <2>3, <2>5, <3>2, Zenon
  <2>6. QED
    BY <2>4, <2>5

-----------------------------------------------------------------------------
(***************************************************************************)
(* Consequences.                                                           *)
(***************************************************************************)

LEMMA UsedType ==
  ASSUME NEW S, NEW conf, conf.pins \in Seq(S)
  PROVE  \A n \in 0..Len(conf.pins) : UsedUpTo(conf, n) \in Seq(S)
<1> DEFINE N == Len(conf.pins)
           T == {n \in 0..N : UsedUpTo(conf, n) \in Seq(S)}
<1>1. N \in Nat /\ \A n \in 1..N : conf.pins[n] \in S
  OBVIOUS
<1>2. \A n \in 0..N :
        UsedUpTo(conf, n) =
          IF n = 0 THEN <<>>
          ELSE IF conf.pins[n].use THEN Append(UsedUpTo(conf, n - 1), conf.pins[n])
          ELSE UsedUpTo(conf, n - 1)
  BY <1>1, UsedStep
<1>3. 0 \in T
  <2>1. 0 \in 0..N /\ <<>> \in Seq(S)
    BY <1>1
  <2>2. UsedUpTo(conf, 0) = <<>>
    BY <1>2, <2>1
  <2>3. QED
    BY <2>1, <2>2
<1>4. ASSUME NEW n \in 0..(N - 1), n \in T PROVE n + 1 \in T
  <2>1. n + 1 \in 0..N /\ n + 1 # 0 /\ (n + 1) - 1 = n /\ conf.pins[n + 1] \in S
    BY <1>1
  <2>2. UsedUpTo(conf, n + 1) \in {Append(UsedUpTo(conf, n), conf.pins[n + 1]),
                                   UsedUpTo(conf, n)}
    BY <1>2, <2>1
  <2>3. QED
    BY <1>4, <2>1, <2>2
<1>5. QED
  <2> HIDE DEF T, N
  <2>1. \A n \in 0..N : n \in T
    BY <1>1, <1>3, <1>4, SetInduction
  <2>2. QED
    BY <2>1 DEF T, N

\* How many pins are in use among the first n.
LEMMA UsedCount ==
  ASSUME NEW S, NEW conf, conf.pins \in Seq(S)
  PROVE  /\ Len(UsedUpTo(conf, 0)) = 0
         /\ \A n \in 1..Len(conf.pins) :
              Len(UsedUpTo(conf, n)) =
                Len(UsedUpTo(conf, n - 1)) + (IF conf.pins[n].use THEN 1 ELSE 0)
         /\ \A n \in 0..Len(conf.pins) : Len(UsedUpTo(conf, n)) \in Nat
<1>1. Len(conf.pins) \in Nat
  OBVIOUS
<1>2. UsedUpTo(conf, 0) = <<>>
  BY <1>1, UsedStep
<1>3. ASSUME NEW n \in 0..Len(conf.pins) PROVE UsedUpTo(conf, n) \in Seq(S)
  BY UsedType
<1>4. ASSUME NEW n \in 1..Len(conf.pins)
      PROVE  Len(UsedUpTo(conf, n)) =
               Len(UsedUpTo(conf, n - 1)) + (IF conf.pins[n].use THEN 1 ELSE 0)
  <2>1. n \in 0..Len(conf.pins) /\ n - 1 \in 0..Len(conf.pins) /\ n # 0
    BY <1>1
  <2>2. UsedUpTo(conf, n) = IF conf.pins[n].use
                            THEN Append(UsedUpTo(conf, n - 1), conf.pins[n])
                            ELSE UsedUpTo(conf, n - 1)
    BY <1>1, <2>1, UsedStep
  <2>3. UsedUpTo(conf, n - 1) \in Seq(S)
    BY <1>3, <2>1
  <2>4. QED
    BY <2>2, <2>3
<1>5. QED
  BY <1>2, <1>3, <1>4

\* All of the first n pins are in use if, and only if, n of them are.
LEMMA UsedAll ==
  ASSUME NEW S, NEW conf, conf.pins \in Seq(S)
  PROVE  \A n \in 0..Len(conf.pins) :
           /\ Len(UsedUpTo(conf, n)) <= n
           /\ Len(UsedUpTo(conf, n)) = n <=> \A j \in 1..n : conf.pins[j].use
<1> DEFINE N == Len(conf.pins)
           u(n) == Len(UsedUpTo(conf, n))
           T == {n \in 0..N : u(n) <= n /\ (u(n) = n <=> \A j \in 1..n : conf.pins[j].use)}
<1>1. N \in Nat
  OBVIOUS
<1>2. /\ u(0) = 0
      /\ \A n \in 1..N : u(n) = u(n - 1) + (IF conf.pins[n].use THEN 1 ELSE 0)
      /\ \A n \in 0..N : u(n) \in Nat
  BY UsedCount
<1> HIDE DEF N, u
<1>3. 0 \in T
  BY <1>1, <1>2
<1>4. ASSUME NEW n \in 0..(N - 1), n \in T PROVE n + 1 \in T
  <2>1. n + 1 \in 1..N /\ (n + 1) - 1 = n /\ n \in 0..N /\ n + 1 \in 0..N
    BY <1>1
  <2>2. u(n + 1) = u(n) + (IF conf.pins[n + 1].use THEN 1 ELSE 0) /\ u(n) \in Nat
    BY <1>2, <2>1
  <2>3. u(n) <= n /\ (u(n) = n <=> \A j \in 1..n : conf.pins[j].use)
    BY <1>4
  <2>4. (\A j \in 1..(n + 1) : conf.pins[j].use)
          <=> conf.pins[n + 1].use /\ \A j \in 1..n : conf.pins[j].use
    BY <2>1
  <2>5. u(n + 1) <= n + 1
    BY <2>1, <2>2, <2>3
  <2>6. u(n + 1) = n + 1 <=> conf.pins[n + 1].use /\ u(n) = n
    BY <2>1, <2>2, <2>3
  <2>7. QED
    BY <2>1, <2>3, <2>4, <2>5, <2>6
<1>5. \A n \in 0..N : n \in T
  <2> HIDE DEF T
  <2>1. QED
    BY <1>1, <1>3, <1>4, SetInduction
<1>6. QED
  BY <1>5 DEF N, u

LEMMA SizeType ==
  ASSUME NEW conf, conf.slaves \in Seq(SlaveEntry)
  PROVE  \A n \in 0..Len(conf.slaves) : SizeUpTo(conf, n) \in Nat
<1> DEFINE N == Len(conf.slaves)
           T == {n \in 0..N : SizeUpTo(conf, n) \in Nat}
<1>1. N \in Nat /\ \A n \in 1..N : conf.slaves[n] \in SlaveEntry
  OBVIOUS
<1>2. \A n \in 1..N : conf.slaves[n].size \in Nat
  BY <1>1 DEF SlaveEntry
<1>3. \A n \in 0..N : SizeUpTo(conf, n) =
         IF n = 0 THEN 0 ELSE SizeUpTo(conf, n - 1) + conf.slaves[n].size
  BY <1>1, SizeStep
<1> HIDE DEF N
<1>4. 0 \in T
  BY <1>1, <1>3
<1>5. ASSUME NEW n \in 0..(N - 1), n \in T PROVE n + 1 \in T
  <2>1. n + 1 \in 0..N /\ n + 1 \in 1..N /\ n + 1 # 0 /\ (n + 1) - 1 = n
    BY <1>1
  <2>2. SizeUpTo(conf, n + 1) = SizeUpTo(conf, n) + conf.slaves[n + 1].size
    BY <1>3, <2>1
  <2>3. conf.slaves[n + 1].size \in Nat
    BY <1>2, <2>1
  <2>4. QED
    BY <1>5, <2>1, <2>2, <2>3
<1>6. \A n \in 0..N : n \in T
  <2> HIDE DEF T
  <2>1. QED
    BY <1>1, <1>4, <1>5, SetInduction
<1>7. QED
  BY <1>6 DEF N

\* The next slave begins where the one before ends.
LEMMA SizeNext ==
  ASSUME NEW conf, conf.slaves \in Seq(SlaveEntry)
  PROVE  /\ Len(conf.slaves) \in Nat
         /\ SizeUpTo(conf, 0) = 0
         /\ \A n \in 1..Len(conf.slaves) :
              /\ SizeUpTo(conf, n) = SizeUpTo(conf, n - 1) + conf.slaves[n].size
              /\ conf.slaves[n] \in SlaveEntry /\ conf.slaves[n].size \in Nat
         /\ \A n \in 0..Len(conf.slaves) : SizeUpTo(conf, n) \in Nat
<1>1. Len(conf.slaves) \in Nat /\ \A n \in 1..Len(conf.slaves) : conf.slaves[n] \in SlaveEntry
  OBVIOUS
<1>2. \A n \in 1..Len(conf.slaves) : n \in 0..Len(conf.slaves) /\ n # 0
  BY <1>1
<1>3. 0 \in 0..Len(conf.slaves)
  BY <1>1
<1>4. \A n \in 1..Len(conf.slaves) : conf.slaves[n].size \in Nat
  BY <1>1 DEF SlaveEntry
<1>5. QED
  BY <1>1, <1>2, <1>3, <1>4, SizeStep, SizeType

LEMMA SizeMonotone ==
  ASSUME NEW conf, conf.slaves \in Seq(SlaveEntry), NEW m \in 0..Len(conf.slaves)
  PROVE  \A n \in m..Len(conf.slaves) : SizeUpTo(conf, m) <= SizeUpTo(conf, n)
<1> DEFINE N == Len(conf.slaves)
           T == {n \in 0..N : n >= m => SizeUpTo(conf, m) <= SizeUpTo(conf, n)}
<1>1. /\ N \in Nat /\ SizeUpTo(conf, 0) = 0
      /\ \A n \in 1..N : /\ SizeUpTo(conf, n) = SizeUpTo(conf, n - 1) + conf.slaves[n].size
                         /\ conf.slaves[n].size \in Nat
      /\ \A n \in 0..N : SizeUpTo(conf, n) \in Nat
  BY SizeNext
<1> HIDE DEF N
<1>2. m \in 0..N
  BY DEF N
<1>3. 0 \in T
  BY <1>1, <1>2
<1>4. ASSUME NEW n \in 0..(N - 1), n \in T PROVE n + 1 \in T
  <2>1. n + 1 \in 1..N /\ n + 1 \in 0..N /\ n \in 0..N /\ (n + 1) - 1 = n
    BY <1>1
  <2>2. /\ SizeUpTo(conf, n + 1) = SizeUpTo(conf, n) + conf.slaves[n + 1].size
        /\ conf.slaves[n + 1].size \in Nat /\ SizeUpTo(conf, n) \in Nat
        /\ SizeUpTo(conf, m) \in Nat
    BY <1>1, <1>2, <2>1
  <2>3. CASE n >= m
    BY <1>4, <2>1, <2>2, <2>3
  <2>4. CASE n < m
    <3>1. n + 1 >= m => n + 1 = m
      BY <1>2, <2>4
    <3>2. QED
      BY <2>1, <2>2, <3>1
  <2>5. QED
    BY <1>2, <2>3, <2>4
<1>5. \A n \in 0..N : n \in T
  <2> HIDE DEF T
  <2>1. QED
    BY <1>1, <1>3, <1>4, SetInduction
<1>6. QED
  BY <1>2, <1>5 DEF N

\* Every register of the slaves is the g-th of some slave s.
LEMMA OffsetOwned ==
  ASSUME NEW conf, conf.slaves \in Seq(SlaveEntry),
         NEW offset \in 0..(SizeUpTo(conf, Len(conf.slaves)) - 1)
  PROVE  \E s \in 1..Len(conf.slaves) : \E g \in 0..(conf.slaves[s].size - 1) :
           offset = SizeUpTo(conf, s - 1) + g
<1> DEFINE N == Len(conf.slaves)
           T == {n \in 0..N : offset < SizeUpTo(conf, n)}
<1>1. /\ N \in Nat /\ SizeUpTo(conf, 0) = 0
      /\ \A n \in 1..N : /\ SizeUpTo(conf, n) = SizeUpTo(conf, n - 1) + conf.slaves[n].size
                         /\ conf.slaves[n].size \in Nat
      /\ \A n \in 0..N : SizeUpTo(conf, n) \in Nat
  BY SizeNext
<1>2. offset \in Nat /\ offset < SizeUpTo(conf, N)
  BY <1>1
<1> HIDE DEF N
<1>3. N \in T /\ T \in SUBSET Nat
  BY <1>1, <1>2
<1>4. PICK s \in T : \A m \in T : s <= m
  BY <1>3, Least
<1>5. s \in 1..N /\ s - 1 \in 0..N /\ s - 1 \notin T
  BY <1>1, <1>2, <1>4
<1>6. /\ SizeUpTo(conf, s) = SizeUpTo(conf, s - 1) + conf.slaves[s].size
      /\ conf.slaves[s].size \in Nat /\ SizeUpTo(conf, s - 1) \in Nat
  BY <1>1, <1>5
<1>7. SizeUpTo(conf, s - 1) <= offset /\ offset < SizeUpTo(conf, s)
  BY <1>2, <1>4, <1>5, <1>6
<1>8. /\ offset - SizeUpTo(conf, s - 1) \in 0..(conf.slaves[s].size - 1)
      /\ offset = SizeUpTo(conf, s - 1) + (offset - SizeUpTo(conf, s - 1))
  <2>1. \A a, b, size \in Nat : a <= b /\ b < a + size =>
          b - a \in 0..(size - 1) /\ b = a + (b - a)
    OBVIOUS
  <2>2. QED
    BY <1>2, <1>6, <1>7, <2>1
<1>9. QED
  BY <1>5, <1>8 DEF N

\* The listener's search ends at the slave that owns the offset, with the number
\* of the register in this slave.
LEMMA SearchFindsOwner ==
  ASSUME NEW conf, conf.slaves \in Seq(SlaveEntry),
         NEW s \in 1..Len(conf.slaves), NEW g \in 0..(conf.slaves[s].size - 1)
  PROVE  DeviceRoute(conf, SizeUpTo(conf, s - 1) + g) =
           [kind |-> "device", slave |-> s, reg |-> g, via |-> conf.slaves[s].protocol]
<1> DEFINE N == Len(conf.slaves)
           offset == SizeUpTo(conf, s - 1) + g
           L == LongEnough(conf, offset)
<1>1. /\ N \in Nat /\ s - 1 \in 0..N
      /\ SizeUpTo(conf, s) = SizeUpTo(conf, s - 1) + conf.slaves[s].size
      /\ conf.slaves[s].size \in Nat /\ SizeUpTo(conf, s - 1) \in Nat
      /\ \A n \in 0..N : SizeUpTo(conf, n) \in Nat
  BY SizeNext
<1>2. offset \in Nat /\ offset < SizeUpTo(conf, s) /\ SizeUpTo(conf, s - 1) <= offset
  <2>1. \A a, size \in Nat : \A b \in 0..(size - 1) :
          a + b \in Nat /\ a + b < a + size /\ a <= a + b
    OBVIOUS
  <2>2. QED
    BY <1>1, <2>1
<1>3. L = {i \in 1..N : offset < SizeUpTo(conf, i)}
  BY DEF LongEnough
<1>4. s \in L
  BY <1>2, <1>3
<1>5. ASSUME NEW m \in L PROVE s <= m
  <2>1. SUFFICES ASSUME m < s PROVE FALSE
    BY <1>3
  <2>2. m \in 0..N /\ s - 1 \in m..N /\ offset < SizeUpTo(conf, m)
    BY <1>1, <1>3, <2>1
  <2>3. SizeUpTo(conf, m) <= SizeUpTo(conf, s - 1)
    BY <2>2, SizeMonotone
  <2>4. QED
    BY <1>1, <1>2, <2>2, <2>3
<1>6. (CHOOSE n \in L : \A m \in L : n <= m) = s
  <2>1. \A n \in L : (\A m \in L : n <= m) => n = s
    <3>1. \A n \in L : n \in Nat
      BY <1>3
    <3>2. s \in Nat
      OBVIOUS
    <3> HIDE DEF L
    <3>3. QED
      BY <1>4, <1>5, <3>1, <3>2
  <2> HIDE DEF L
  <2>2. QED
    BY <1>4, <1>5, <2>1
<1>7. conf.slaves[s].size - (SizeUpTo(conf, s) - offset) = g
  BY <1>1
<1>8. L # {}
  BY <1>4
<1>9. QED
  <2> HIDE DEF offset, L
  <2>1. DeviceRoute(conf, offset) =
          [kind |-> "device", slave |-> s, reg |-> g, via |-> conf.slaves[s].protocol]
    <3> DEFINE i == CHOOSE n \in L : \A m \in L : n <= m
    <3>1. DeviceRoute(conf, offset) =
            [kind |-> "device", slave |-> i,
             reg |-> conf.slaves[i].size - (SizeUpTo(conf, i) - offset),
             via |-> conf.slaves[i].protocol]
      BY <1>8, Zenon DEF DeviceRoute, L
    <3>2. i = s
      BY <1>6
    <3> HIDE DEF i
    <3>3. QED
      BY <1>7, <3>1, <3>2
  <2>2. QED
    BY <2>1 DEF offset
=============================================================================
