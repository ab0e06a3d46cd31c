--------------------------- MODULE ReadingsProofs ---------------------------
(***************************************************************************)
(* Proofs about what becomes of the readings of a device.                  *)
(*                                                                         *)
(* AlarmLatch, for every pair of limits, every set of values the device    *)
(* may show and every set of pollers: as long as readings do not overlap,  *)
(* the messages about the connection alternate and an alarm for a high     *)
(* value is not repeated.                                                  *)
(*                                                                         *)
(* DataLogger, for every length of a day and of a month, every width of    *)
(* the cast, every limit and all powers: the energy adds up and never      *)
(* falls, across kills, restarts, and rows that are missing.               *)
(***************************************************************************)
EXTENDS AlarmLatch, DataLogger, RegisterMapProofs

-----------------------------------------------------------------------------
(***************************************************************************)
(* The data logger: numbers first.                                         *)
(***************************************************************************)

\* Division, as getEnergy uses it.
LEMMA Truncated ==
  ASSUME NEW x \in Nat, NEW d \in Nat \ {0}
  PROVE  x \div d \in Nat /\ d * (x \div d) \in 0..x /\ (x < d => x \div d = 0)
  OBVIOUS

\* The table of the present month is among the tables.
LEMMA MonthsAre ==
  ASSUME NEW t \in 0..Horizon
  PROVE  MonthOf(t) \in Months
<1>1. Month \in Nat \ {0} /\ Horizon \in Nat
  BY LoggerAssumption
<1> DEFINE q == t \div Month
           r == Horizon \div Month
<1>2. q \in Nat /\ r \in Nat /\ Month * q <= t /\ Horizon < Month * (r + 1)
  BY <1>1
<1> HIDE DEF q, r
<1>3. ASSUME q > r PROVE FALSE
  <2>1. PICK n \in Nat : q = r + 1 + n
    <3>1. q - (r + 1) \in Nat /\ q = r + 1 + (q - (r + 1))
      BY <1>2, <1>3
    <3>2. QED
      BY <3>1
  <2>2. Month * q = Month * (r + 1) + Month * n /\ Month * n >= 0
    BY <1>1, <1>2, <2>1
  <2>3. QED
    BY <1>1, <1>2, <2>2
<1>4. QED
  BY <1>2, <1>3 DEF MonthOf, Months, q, r

\* The cast to 32 bits may change the sign of the hours, but makes them no more.
LEMMA CastBounds ==
  ASSUME NEW g \in Nat \ {0}
  PROVE  Cast(-g) \in Int /\ Cast(-g) <= g /\ -Cast(-g) <= g
<1> DEFINE h == IntSpan \div 2
<1>1. IntSpan \in Nat \ {0} /\ h \in Nat /\ 2 * h <= IntSpan /\ IntSpan <= 2 * h + 1
  BY LoggerAssumption
<1> HIDE DEF h
<1>2. CASE g <= h
  <2>1. (-g + h) \in 0..(IntSpan - 1)
    BY <1>1, <1>2
  <2>2. (-g + h) % IntSpan = -g + h
    BY <1>1, <2>1
  <2>3. QED
    BY <1>1, <2>2 DEF Cast, h
<1>3. CASE g > h
  <2>1. (-g + h) % IntSpan \in 0..(IntSpan - 1)
    BY <1>1
  <2>2. QED
    BY <1>1, <1>3, <2>1 DEF Cast, h
<1>4. QED
  BY <1>1, <1>2, <1>3

\* So the wrong days never outweigh the hours, and below a day there are none.
LEMMA ElapsedBounds ==
  ASSUME NEW g \in Nat \ {0}, NEW date \in Int, date = now - g, now \in Int
  PROVE  /\ Elapsed(date) \in 0..(2 * g)
         /\ g < Day => Elapsed(date) = g
<1> DEFINE c == Cast(date - now)
<1>1. Day \in Nat \ {0}
  BY LoggerAssumption
<1>2. date - now = -g
  OBVIOUS
<1>3. c \in Int /\ c <= g /\ -c <= g
  BY <1>2, CastBounds
<1> HIDE DEF c
<1>4. /\ Quotient(c, Day) \in Int
      /\ Day * (-Quotient(c, Day)) <= g /\ -g <= Day * (-Quotient(c, Day))
      /\ g < Day => Quotient(c, Day) = 0
  <2>1. CASE c >= 0
    <3>1. c \in Nat /\ Quotient(c, Day) = c \div Day
      BY <1>3, <2>1 DEF Quotient
    <3>2. c \div Day \in Nat /\ Day * (c \div Day) \in 0..c /\ (c < Day => c \div Day = 0)
      BY <1>1, <3>1, Truncated
    <3>3. Day * (-(c \div Day)) = -(Day * (c \div Day))
      BY <1>1, <3>2
    <3>4. QED
      BY <1>1, <1>3, <3>1, <3>2, <3>3
  <2>2. CASE c < 0
    <3>1. -c \in Nat /\ Quotient(c, Day) = -((-c) \div Day)
      BY <1>3, <2>2 DEF Quotient
    <3>2. (-c) \div Day \in Nat /\ Day * ((-c) \div Day) \in 0..(-c)
          /\ (-c < Day => (-c) \div Day = 0)
      BY <1>1, <3>1, Truncated
    <3>3. -Quotient(c, Day) = (-c) \div Day
      BY <3>1, <3>2
    <3>4. QED
      BY <1>1, <1>3, <3>1, <3>2, <3>3
  <2>3. QED
    BY <1>3, <2>1, <2>2
<1>5. Elapsed(date) = Day * (-Quotient(c, Day)) + g
  BY <1>2 DEF Elapsed, c
<1>6. ASSUME g < Day PROVE Day * (-Quotient(c, Day)) = 0
  BY <1>1, <1>4, <1>6
<1>7. Day * (-Quotient(c, Day)) \in Int
  BY <1>1, <1>4
<1>8. QED
  BY <1>4, <1>5, <1>6, <1>7

-----------------------------------------------------------------------------
(* The inductive invariant. *)

Row == [date : Nat, power : 0..(Limit - 1), energy : 0..(Limit - 1)]

LoggerTypeOK ==
  /\ now \in 0..Horizon
  /\ up \in BOOLEAN
  /\ month \in Months
  /\ tables \in [Months -> Seq(Row)]

\* Row k continues the row before it: e are the hours getEnergy counted between
\* the two, right when they are less than a day apart and at most doubled else.
Continues(rows, k) ==
  /\ rows[k - 1].date < rows[k].date
  /\ \E e \in 0..(2 * Gap(rows, k)) :
       /\ Gap(rows, k) < Day => e = Gap(rows, k)
       /\ rows[k].energy = IF rows[k - 1].power = 0 THEN 0
                           ELSE Stored(rows[k - 1].energy + rows[k - 1].power * e)

RowsFollow(rows) ==
  /\ \A k \in DOMAIN rows : rows[k].date <= now
  /\ rows # <<>> => rows[1].energy = 0
  /\ \A k \in 2..Len(rows) : Continues(rows, k)

LoggerInv ==
  /\ LoggerTypeOK
  /\ \A m \in Months : RowsFollow(tables[m])

LEMMA RowIs ==
  ASSUME NEW r \in Row
  PROVE  r.date \in Nat /\ r.power \in Nat /\ r.energy \in Nat
  BY LoggerAssumption DEF Row

LEMMA ProductNat ==
  ASSUME NEW p \in Nat, NEW a \in Nat
  PROVE  p * a \in Nat
  OBVIOUS

\* What writeValues lets into the table.
LEMMA StoredBounds ==
  ASSUME NEW x \in Nat
  PROVE  Stored(x) \in 0..(Limit - 1) /\ (x < Limit => Stored(x) = x)
  BY LoggerAssumption DEF Stored

\* More hours, no less energy.
LEMMA ProductBounds ==
  ASSUME NEW p \in Nat, NEW a \in Nat, NEW b \in Nat, a <= b
  PROVE  p * a \in Nat /\ p * b \in Nat /\ p * a <= p * b
<1>1. b - a \in Nat /\ p * b = p * a + p * (b - a) /\ p * (b - a) >= 0
  OBVIOUS
<1>2. QED
  BY <1>1

\* The energy a further row would have.
LEMMA EnergyContinues ==
  ASSUME NEW rows \in Seq(Row), rows # <<>>, now \in Nat, rows[Len(rows)].date < now
  PROVE  LET last == rows[Len(rows)]
             gap  == now - last.date
         IN \E e \in 0..(2 * gap) :
              /\ gap < Day => e = gap
              /\ Stored(Energy(rows)) = IF last.power = 0 THEN 0
                                        ELSE Stored(last.energy + last.power * e)
              /\ Energy(rows) \in Nat
<1> DEFINE last == rows[Len(rows)]
           gap  == now - last.date
           e    == Elapsed(last.date)
<1>1. last \in Row
  <2>1. Len(rows) \in Nat /\ Len(rows) # 0
    OBVIOUS
  <2>2. \A k \in 1..Len(rows) : rows[k] \in Row
    OBVIOUS
  <2>3. QED
    BY <2>1, <2>2
<1> HIDE DEF last
<1>2. last.date \in Nat /\ last.power \in 0..(Limit - 1) /\ last.energy \in 0..(Limit - 1)
  BY <1>1 DEF Row
<1>3. gap \in Nat \ {0} /\ last.date = now - gap
  BY <1>2 DEF last, gap
<1> HIDE DEF gap
<1>4. e \in 0..(2 * gap) /\ (gap < Day => e = gap)
  <2>1. last.date \in Int /\ now \in Int
    BY <1>2
  <2>2. QED
    BY <1>3, <2>1, ElapsedBounds
<1>5. Limit \in Nat \ {0}
  BY LoggerAssumption
<1>6. last.power # Limit
  BY <1>2, <1>5
<1>7. Energy(rows) = IF last.power = 0 THEN 0 ELSE last.energy + last.power * e
  BY <1>6 DEF Energy, last
<1>8. last.power * e \in Nat
  BY <1>2, <1>3, <1>4, <1>5
<1>9. Energy(rows) \in Nat
  BY <1>2, <1>5, <1>7, <1>8
<1>10. Stored(0) = 0
  BY <1>5 DEF Stored
<1> HIDE DEF e
<1>11. Stored(Energy(rows)) = IF last.power = 0 THEN 0 ELSE Stored(last.energy + last.power * e)
  BY <1>7, <1>10
<1>12. QED
  BY <1>4, <1>9, <1>11 DEF last, gap

-----------------------------------------------------------------------------
\* The tables are empty.
LEMMA InitLogger == LogInit => LoggerInv
<1> SUFFICES ASSUME LogInit PROVE LoggerInv
  OBVIOUS
<1>1. Horizon \in Nat /\ 0 \in 0..Horizon
  BY LoggerAssumption
<1>2. 0 \in Months
  <2>1. Horizon \div Month \in Nat
    BY LoggerAssumption, Truncated
  <2>2. QED
    BY <2>1 DEF Months, MonthOf
<1>3. LoggerTypeOK
  BY <1>1, <1>2 DEF LogInit, LoggerTypeOK
<1>4. ASSUME NEW m \in Months PROVE RowsFollow(tables[m])
  BY DEF LogInit, RowsFollow
<1>5. QED
  BY <1>3, <1>4 DEF LoggerInv

\* The row that is written follows the rows of its table.
LEMMA LogFollows ==
  ASSUME NEW rows \in Seq(Row), RowsFollow(rows), now \in Nat,
         rows # <<>> => rows[Len(rows)].date < now,
         NEW power \in Nat
  PROVE  LET row  == [date |-> now, power |-> Stored(power), energy |-> Stored(Energy(rows))]
             more == Append(rows, row)
         IN more \in Seq(Row) /\ RowsFollow(more)
<1> DEFINE row  == [date |-> now, power |-> Stored(power), energy |-> Stored(Energy(rows))]
           more == Append(rows, row)
           n == Len(rows)
<1>1. Energy(rows) \in Nat
  <2>1. CASE rows = <<>>
    BY <2>1 DEF Energy
  <2>2. CASE rows # <<>>
    BY <2>2, EnergyContinues
  <2>3. QED
    BY <2>1, <2>2
<1>2. row \in Row
  BY <1>1, StoredBounds DEF Row
<1> HIDE DEF row
<1>3. /\ more \in Seq(Row) /\ n \in Nat /\ Len(more) = n + 1 /\ more # <<>>
      /\ more[n + 1] = row
      /\ \A k \in 1..n : more[k] = rows[k]
  <2>1. more \in Seq(Row) /\ n \in Nat
    BY <1>2
  <2>2. Len(more) = n + 1 /\ more[n + 1] = row
    OBVIOUS
  <2>3. more # <<>>
    BY <2>1, <2>2
  <2>4. \A k \in 1..n : more[k] = rows[k]
    OBVIOUS
  <2>5. QED
    BY <2>1, <2>2, <2>3, <2>4
<1>4. row.date = now /\ row.energy = Stored(Energy(rows))
  BY DEF row
<1> HIDE DEF more
<1>5. ASSUME NEW k \in DOMAIN more PROVE more[k].date <= now
  <2>1. CASE k = n + 1
    BY <1>3, <1>4, <2>1
  <2>2. CASE k # n + 1
    BY <1>3, <2>2 DEF RowsFollow
  <2>3. QED
    BY <2>1, <2>2
<1>6. more[1].energy = 0
  <2>1. CASE rows = <<>>
    <3>1. Energy(rows) = 0 /\ Stored(0) = 0
      BY <2>1, LoggerAssumption DEF Energy, Stored
    <3>2. QED
      BY <1>3, <1>4, <2>1, <3>1
  <2>2. CASE rows # <<>>
    BY <1>3, <2>2 DEF RowsFollow
  <2>3. QED
    BY <2>1, <2>2
<1>7. ASSUME NEW k \in 2..Len(more) PROVE Continues(more, k)
  <2>1. CASE k = n + 1
    <3>1. n \in 1..n /\ rows # <<>> /\ more[k - 1] = rows[n] /\ more[k] = row
      <4>1. n # 0 /\ k - 1 = n
        BY <1>3, <2>1
      <4>2. n \in 1..n /\ rows # <<>>
        BY <1>3, <4>1
      <4>3. QED
        BY <1>3, <2>1, <4>1, <4>2
    <3>2. rows[n].date < now /\ rows[n].date \in Nat
      <4>1. rows[n] \in Row
        BY <3>1
      <4>2. QED
        BY <3>1, <4>1 DEF Row
    <3>3. Gap(more, k) = now - rows[n].date
      BY <1>4, <3>1 DEF Gap
    <3>4. PICK e \in 0..(2 * Gap(more, k)) :
            /\ Gap(more, k) < Day => e = Gap(more, k)
            /\ Stored(Energy(rows)) = IF rows[n].power = 0 THEN 0
                                      ELSE Stored(rows[n].energy + rows[n].power * e)
      BY <3>1, <3>2, <3>3, EnergyContinues
    <3>5. QED
      BY <1>4, <3>1, <3>2, <3>4 DEF Continues
  <2>2. CASE k # n + 1
    <3>1. k \in 2..Len(rows) /\ more[k] = rows[k] /\ more[k - 1] = rows[k - 1]
      BY <1>3, <2>2
    <3>2. Continues(rows, k) /\ Gap(more, k) = Gap(rows, k)
      BY <3>1 DEF RowsFollow, Gap
    <3>3. QED
      BY <3>1, <3>2 DEF Continues
  <2>3. QED
    BY <2>1, <2>2
<1>8. RowsFollow(more)
  BY <1>5, <1>6, <1>7 DEF RowsFollow
<1>9. QED
  BY <1>3, <1>8 DEF more, row

\* Only Log touches a table, and only that of the month the server was started in.
LEMMA NextLogger == LoggerInv /\ [LogNext]_logVars => LoggerInv'
<1> SUFFICES ASSUME LoggerInv, [LogNext]_logVars PROVE LoggerInv'
  OBVIOUS
<1>1. LoggerTypeOK /\ \A m \in Months : RowsFollow(tables[m])
  BY DEF LoggerInv
<1>2. now \in Nat /\ Horizon \in Nat
  BY <1>1, LoggerAssumption DEF LoggerTypeOK
<1>3. CASE Log
  <2>1. PICK power \in Powers :
          tables' = [tables EXCEPT ![month] = Append(tables[month],
            [date |-> now, power |-> Stored(power), energy |-> Stored(Energy(tables[month]))])]
    BY <1>3 DEF Log
  <2>2. power \in Nat /\ tables[month] \in Seq(Row) /\ month \in Months
    BY <1>1, LoggerAssumption DEF LoggerTypeOK
  <2>3. now' = now /\ up' = up /\ month' = month
    BY <1>3 DEF Log
  <2>4. tables[month] # <<>> => tables[month][Len(tables[month])].date < now
    BY <1>3 DEF Log
  <2>5. tables'[month] \in Seq(Row) /\ RowsFollow(tables'[month])
    BY <1>1, <1>2, <2>1, <2>2, <2>4, LogFollows DEF LoggerTypeOK
  <2>6. \A m \in Months : m # month => tables'[m] = tables[m]
    BY <1>1, <2>1 DEF LoggerTypeOK
  <2>7. tables' \in [Months -> Seq(Row)]
    BY <1>1, <2>1, <2>2, <2>5 DEF LoggerTypeOK
  <2>8. ASSUME NEW m \in Months PROVE RowsFollow(tables'[m])
    BY <1>1, <2>5, <2>6
  <2>9. ASSUME NEW m \in Months PROVE RowsFollow(tables[m])'
    BY <2>3, <2>8 DEF RowsFollow, Continues, Gap
  <2>10. QED
    BY <1>1, <2>3, <2>7, <2>9 DEF LoggerInv, LoggerTypeOK
<1>4. CASE Start
  <2>1. UNCHANGED <<now, tables>> /\ up' = TRUE /\ month' = MonthOf(now)
    BY <1>4 DEF Start
  <2>2. month' \in Months
    BY <1>1, <2>1, MonthsAre DEF LoggerTypeOK
  <2>3. LoggerTypeOK'
    BY <1>1, <2>1, <2>2 DEF LoggerTypeOK
  <2>4. QED
    BY <1>1, <2>1, <2>3 DEF LoggerInv, RowsFollow, Continues, Gap
<1>5. CASE Kill
  <2>1. UNCHANGED <<now, month, tables>> /\ up' = FALSE
    BY <1>5 DEF Kill
  <2>2. LoggerTypeOK'
    BY <1>1, <2>1 DEF LoggerTypeOK
  <2>3. QED
    BY <1>1, <2>1, <2>2 DEF LoggerInv, RowsFollow, Continues, Gap
<1>6. CASE Pass
  <2>1. now' = now + 1 /\ now' \in 0..Horizon /\ UNCHANGED <<up, month, tables>>
    BY <1>1, <1>2, <1>6 DEF Pass, LoggerTypeOK
  <2>2. LoggerTypeOK'
    BY <1>1, <2>1 DEF LoggerTypeOK
  <2>3. ASSUME NEW m \in Months PROVE RowsFollow(tables[m])'
    <3>1. ASSUME NEW k \in DOMAIN tables[m]
          PROVE  tables[m][k].date \in Nat /\ tables[m][k].date <= now
      <4>1. tables[m] \in Seq(Row)
        BY <1>1 DEF LoggerTypeOK
      <4>2. tables[m][k] \in Row
        BY <4>1
      <4>3. QED
        BY <1>1, <4>2 DEF RowsFollow, Row
    <3>2. \A k \in DOMAIN tables[m] : tables[m][k].date <= now + 1
      BY <1>2, <3>1
    <3>3. QED
      BY <1>1, <2>1, <3>2 DEF RowsFollow, Continues, Gap
  <2>4. QED
    BY <2>2, <2>3 DEF LoggerInv
<1>7. CASE UNCHANGED logVars
  BY <1>1, <1>7 DEF logVars, LoggerInv, LoggerTypeOK, RowsFollow, Continues, Gap
<1>8. QED
  BY <1>3, <1>4, <1>5, <1>6, <1>7 DEF LogNext

\* In every table every row continues the row before it, whatever was killed or
\* missed between the two.
THEOREM LoggerAlways == LogSpec => []LoggerInv
<1>1. LogInit => LoggerInv
  BY InitLogger
<1>2. LoggerInv /\ [LogNext]_logVars => LoggerInv'
  BY NextLogger
<1>3. QED
  BY <1>1, <1>2, PTL DEF LogSpec

-----------------------------------------------------------------------------
(* The energy never falls. *)

\* The same of one pair of rows.
LEMMA FollowingNeverFalls ==
  ASSUME NEW rows \in Seq(Row), NEW k \in 2..Len(rows), Continues(rows, k),
         rows[k - 1].power # 0,
         rows[k - 1].energy + rows[k - 1].power * 2 * Gap(rows, k) < Limit
  PROVE  rows[k].energy >= rows[k - 1].energy
<1> DEFINE p == rows[k - 1].power
           g == Gap(rows, k)
           w == rows[k - 1].energy
<1>1. rows[k - 1] \in Row /\ rows[k] \in Row
  <2>1. k - 1 \in 1..Len(rows) /\ k \in 1..Len(rows)
    OBVIOUS
  <2>2. \A i \in 1..Len(rows) : rows[i] \in Row
    OBVIOUS
  <2>3. QED
    BY <2>1, <2>2
<1>2. p \in Nat /\ w \in Nat /\ rows[k].date \in Nat /\ rows[k - 1].date \in Nat
  BY <1>1, RowIs, Zenon
<1>3. PICK e \in 0..(2 * g) : rows[k].energy = Stored(w + p * e)
  BY DEF Continues
<1>4. g \in Nat
  BY <1>2 DEF Continues, Gap
<1> HIDE DEF p, g, w
<1>5. p * 2 * g = p * (2 * g) /\ 2 * g \in Nat
  BY <1>2, <1>4
<1>6. w + p * 2 * g < Limit
  BY DEF p, g, w
<1>7. p * e \in Nat /\ p * e <= p * (2 * g) /\ p * (2 * g) \in Nat
  BY <1>2, <1>4, <1>5, ProductBounds
<1>8. w + p * e \in Nat /\ w + p * e < Limit
  <2> DEFINE a == p * e
             b == p * (2 * g)
  <2>1. a \in Nat /\ b \in Nat /\ a <= b /\ w + b < Limit
    BY <1>5, <1>6, <1>7, Zenon
  <2>2. Limit \in Nat
    BY LoggerAssumption
  <2> HIDE DEF a, b
  <2>3. w + a \in Nat /\ w + a < Limit
    BY <1>2, <2>1, <2>2
  <2>4. QED
    BY <2>3 DEF a
<1>9. QED
  BY <1>2, <1>3, <1>7, <1>8, StoredBounds DEF w

\* For every month length, day length, limit and width of the cast, the energy
\* never falls while there is power, however long the server was down.
THEOREM EnergyRises == LogSpec => []EnergyNeverFalls
<1>1. LoggerInv => EnergyNeverFalls
  <2> SUFFICES ASSUME LoggerInv, NEW m \in Months, NEW k \in 2..Len(tables[m]),
                      tables[m][k - 1].power # 0,
                      tables[m][k - 1].energy
                        + tables[m][k - 1].power * 2 * Gap(tables[m], k) < Limit
               PROVE  tables[m][k].energy >= tables[m][k - 1].energy
    BY DEF EnergyNeverFalls
  <2>1. tables[m] \in Seq(Row) /\ Continues(tables[m], k)
    BY DEF LoggerInv, LoggerTypeOK, RowsFollow
  <2>2. QED
    BY <2>1, FollowingNeverFalls
<1>2. QED
  BY <1>1, LoggerAlways, PTL

-----------------------------------------------------------------------------
(* The energy adds up. *)

\* The equation of the recursive function SumUpTo.
LEMMA SumStep ==
  ASSUME NEW rows, Len(rows) \in Nat
  PROVE  \A n \in 0..Len(rows) :
           SumUpTo(rows, n) =
             IF n <= 1 \/ LastOff(rows, n) = n - 1 THEN 0
             ELSE SumUpTo(rows, n - 1) + rows[n - 1].power * Gap(rows, n)
<1> DEFINE N == Len(rows)
           Starts(n) == n <= 1 \/ LastOff(rows, n) = n - 1
           More(n) == rows[n - 1].power * Gap(rows, n)
           IsSum(f, n) == f = [k \in 0..n |-> IF Starts(k) THEN 0 ELSE f[k - 1] + More(k)]
           T == {n \in Nat : \E f : IsSum(f, n)}
<1> HIDE DEF More
<1>1. 0 \in T
  <2>1. IsSum([k \in 0..0 |-> 0], 0)
    OBVIOUS
  <2>2. QED
    BY <2>1
<1>2. ASSUME NEW n \in 0..(N - 1), n \in T PROVE n + 1 \in T
  <2>1. PICK f : IsSum(f, n)
    BY <1>2
  <2> DEFINE g == [k \in 0..(n + 1) |-> IF k <= n THEN f[k]
                                        ELSE IF Starts(n + 1) THEN 0 ELSE f[n] + More(n + 1)]
  <2>2. ASSUME NEW k \in 0..(n + 1)
        PROVE  g[k] = IF Starts(k) THEN 0 ELSE g[k - 1] + More(k)
    <3>1. CASE k = 0
      BY <2>1, <3>1
    <3>2. CASE k # 0 /\ k <= n
      BY <2>1, <3>2
    <3>3. CASE k = n + 1
      BY <2>1, <3>3
    <3>4. QED
      BY <3>1, <3>2, <3>3
  <2>3. IsSum(g, n + 1)
    BY <2>2
  <2>4. n + 1 \in Nat
    OBVIOUS
  <2> HIDE DEF g, IsSum
  <2>5. QED
    BY <2>3, <2>4
<1>3. N \in T
  <2>1. N \in Nat /\ \A n \in 0..(N - 1) : n \in T => n + 1 \in T
    BY <1>2
  <2> HIDE DEF T, N
  <2>2. \A n \in 0..N : n \in T
    BY <1>1, <2>1, SetInduction, Zenon
  <2>3. QED
    BY <2>1, <2>2
<1> DEFINE total == CHOOSE f : IsSum(f, N)
<1>4. IsSum(total, N)
  BY <1>3
<1>5. \A n \in 0..N : SumUpTo(rows, n) = total[n]
  BY DEF SumUpTo, More
<1>6. QED
  <2> HIDE DEF total
  <2>1. \A n \in 0..N : total[n] = IF Starts(n) THEN 0 ELSE total[n - 1] + More(n)
    BY <1>4
  <2>2. QED
    BY <1>5, <2>1 DEF More

\* LastOff is the greatest of its candidates, ...
LEMMA LastOffIs ==
  ASSUME NEW rows, NEW k \in Nat \ {0}, NEW j \in WithoutPower(rows, k),
         \A i \in WithoutPower(rows, k) : i <= j
  PROVE  LastOff(rows, k) = j
<1>1. WithoutPower(rows, k) \subseteq Nat
  BY DEF WithoutPower
<1>2. ASSUME NEW i \in WithoutPower(rows, k), \A l \in WithoutPower(rows, k) : l <= i
      PROVE  i = j
  BY <1>1, <1>2
<1>3. QED
  BY <1>2 DEF LastOff

\* ... there is a greatest one, ...
LEMMA LastOffExists ==
  ASSUME NEW rows, NEW k \in Nat \ {0}
  PROVE  /\ LastOff(rows, k) \in WithoutPower(rows, k)
         /\ \A i \in WithoutPower(rows, k) : i <= LastOff(rows, k)
<1> DEFINE T == {k - i : i \in WithoutPower(rows, k)}
<1>1. WithoutPower(rows, k) \subseteq 0..(k - 1) /\ 0 \in WithoutPower(rows, k)
  BY DEF WithoutPower
<1>2. T \in SUBSET Nat /\ T # {}
  BY <1>1
<1>3. PICK n \in T : \A m \in T : n <= m
  BY <1>2, Least, Zenon
<1>4. PICK j \in WithoutPower(rows, k) : n = k - j
  BY <1>3
<1>5. ASSUME NEW i \in WithoutPower(rows, k) PROVE i <= j
  BY <1>1, <1>3, <1>4
<1>6. QED
  BY <1>4, <1>5, LastOffIs

\* ... and it moves on only with a row without power.
LEMMA LastOffStep ==
  ASSUME NEW rows, NEW k \in Nat \ {0, 1}
  PROVE  LastOff(rows, k) = IF rows[k - 1].power = 0 THEN k - 1 ELSE LastOff(rows, k - 1)
<1>1. WithoutPower(rows, k) =
        WithoutPower(rows, k - 1) \cup (IF rows[k - 1].power = 0 THEN {k - 1} ELSE {})
  BY DEF WithoutPower
<1>2. CASE rows[k - 1].power = 0
  <2>1. k - 1 \in WithoutPower(rows, k) /\ \A i \in WithoutPower(rows, k) : i <= k - 1
    BY <1>2 DEF WithoutPower
  <2>2. QED
    BY <1>2, <2>1, LastOffIs
<1>3. CASE rows[k - 1].power # 0
  <2>1. WithoutPower(rows, k) = WithoutPower(rows, k - 1) /\ k - 1 \in Nat \ {0}
    BY <1>1, <1>3
  <2>2. QED
    BY <1>3, <2>1, LastOffExists, LastOffIs
<1>4. QED
  BY <1>2, <1>3

\* The rows of one table, by induction on their number.
LEMMA FollowingAddsUp ==
  ASSUME NEW rows \in Seq(Row), RowsFollow(rows)
  PROVE  \A k \in DOMAIN rows :
           (\A j \in (LastOff(rows, k) + 2)..k : Gap(rows, j) < Day /\ SumUpTo(rows, j) < Limit)
             => rows[k].energy = SumUpTo(rows, k)
<1> DEFINE Near(k) ==
             \A j \in (LastOff(rows, k) + 2)..k : Gap(rows, j) < Day /\ SumUpTo(rows, j) < Limit
           T == {k \in 0..Len(rows) : k # 0 /\ Near(k) => rows[k].energy = SumUpTo(rows, k)}
           N == Len(rows)
<1>1. 0 \in T /\ N \in Nat
  OBVIOUS
<1>2. ASSUME NEW n \in 0..(N - 1), n \in T PROVE n + 1 \in T
  <2> SUFFICES ASSUME Near(n + 1) PROVE rows[n + 1].energy = SumUpTo(rows, n + 1)
    OBVIOUS
  <2>1. CASE n = 0
    <3>1. rows[1].energy = 0 /\ SumUpTo(rows, 1) = 0
      BY <2>1, SumStep DEF RowsFollow
    <3>2. QED
      BY <2>1, <3>1
  <2>2. CASE n # 0
    <3> DEFINE k == n + 1
               p == rows[n].power
    <3>1. k \in 2..N /\ n \in 1..N /\ k - 1 = n /\ k \in Nat \ {0, 1} /\ n \in Nat \ {0}
      BY <2>2
    <3>2. Continues(rows, k)
      BY <3>1 DEF RowsFollow
    <3>3. LastOff(rows, k) = IF p = 0 THEN n ELSE LastOff(rows, n)
      BY <3>1, LastOffStep
    <3>4. SumUpTo(rows, k) = IF LastOff(rows, k) = n THEN 0
                             ELSE SumUpTo(rows, n) + p * Gap(rows, k)
      BY <3>1, SumStep
    <3>5. CASE p = 0
      BY <3>1, <3>2, <3>3, <3>4, <3>5 DEF Continues
    <3>6. CASE p # 0
      <4>1. LastOff(rows, n) \in 0..(n - 1)
        BY <3>1, LastOffExists DEF WithoutPower
      <4>2. Near(n) /\ Gap(rows, k) < Day /\ SumUpTo(rows, k) < Limit
        BY <3>1, <3>3, <3>6, <4>1
      <4>3. rows[n].energy = SumUpTo(rows, n)
        BY <1>2, <3>1, <4>2
      <4>4. rows[k].energy = Stored(rows[n].energy + p * Gap(rows, k))
        BY <3>1, <3>2, <3>6, <4>2 DEF Continues
      <4>5. SumUpTo(rows, k) = rows[n].energy + p * Gap(rows, k)
        BY <3>1, <3>3, <3>4, <3>6, <4>1, <4>3
      <4>6. SumUpTo(rows, k) \in Nat
        <5>1. rows[n] \in Row /\ rows[k] \in Row
          BY <3>1
        <5>2. /\ rows[n].energy \in Nat /\ p \in Nat
              /\ rows[n].date \in Nat /\ rows[k].date \in Nat
          BY <5>1, RowIs, Zenon
        <5>3. Gap(rows, k) \in Nat
          BY <3>1, <3>2, <5>2 DEF Continues, Gap
        <5>4. p * Gap(rows, k) \in Nat
          BY <5>2, <5>3, ProductNat, Zenon
        <5>5. QED
          BY <4>5, <5>2, <5>4
      <4>7. QED
        BY <4>2, <4>4, <4>5, <4>6, StoredBounds
    <3>7. QED
      BY <3>5, <3>6
  <2>3. QED
    BY <2>1, <2>2
<1>3. \A n \in 0..N : n \in T
  <2>1. \A n \in 0..(N - 1) : n \in T => n + 1 \in T
    BY <1>2
  <2> HIDE DEF T, N
  <2>2. QED
    BY <1>1, <2>1, SetInduction, Zenon
<1>4. QED
  BY <1>3

\* For every month length, day length, limit and width of the cast, the energy of
\* a row is what the powers before it make since the last row without power, while
\* rows are less than a day apart.
THEOREM EnergyIsRight == LogSpec => []EnergyAddsUp
<1>1. LoggerInv => EnergyAddsUp
  <2> SUFFICES ASSUME LoggerInv, NEW m \in Months, NEW k \in DOMAIN tables[m],
                      \A j \in (LastOff(tables[m], k) + 2)..k :
                        Gap(tables[m], j) < Day /\ SumUpTo(tables[m], j) < Limit
               PROVE  tables[m][k].energy = SumUpTo(tables[m], k)
    BY DEF EnergyAddsUp
  <2>1. tables[m] \in Seq(Row) /\ RowsFollow(tables[m])
    BY DEF LoggerInv, LoggerTypeOK
  <2>2. QED
    BY <2>1, FollowingAddsUp
<1>2. QED
  BY <1>1, LoggerAlways, PTL

-----------------------------------------------------------------------------
(***************************************************************************)
(* The alarms.                                                             *)
(***************************************************************************)
USE ReadingsAssumption DEF Gone, Branches

-----------------------------------------------------------------------------
(* The inductive invariant. *)

\* Between readings: the loss told last is still latched, a return told last
\* still holds, and a high value that was told is latched.
LossLatched == lastLink = "disconnected" => notificated /\ ~connected
ReturnHolds == lastLink = "reconnected" => connected
HighLatched == ~cleared => notificated
Calm == LossLatched /\ ReturnHolds /\ HighLatched

\* p is at statement n of branch b.
At(p, b, n) == pc[p] = Places[n] /\ branch[p] = b

\* Within a reading: what each branch has done so far, and may still do.
Acting(p) ==
  /\ At(p, "disconnected", 1) => Calm /\ ~notificated
  /\ At(p, "disconnected", 2) => ~connected /\ ~notificated /\ lastLink # "disconnected"
                                 /\ cleared
  /\ At(p, "disconnected", 3) => ~connected /\ notificated /\ lastLink # "disconnected"
  /\ At(p, "high", 1) => Calm /\ ~notificated
  /\ At(p, "high", 2) => lastLink # "disconnected" /\ ReturnHolds
  /\ At(p, "low", 1) => Calm /\ ~notificated
  /\ At(p, "low", 2) => lastLink # "disconnected" /\ ReturnHolds
  /\ At(p, "reconnected", 1) => Calm /\ ~connected
  /\ At(p, "reconnected", 2) => connected /\ cleared /\ lastLink # "reconnected"
  /\ At(p, "reconnected", 3) => connected /\ cleared /\ lastLink # "reconnected"
  /\ At(p, "clear", 1) => Calm /\ connected

AtWork(p) ==
  /\ pc[p] \in {"judge", "link", "store"} => Calm
  /\ pc[p] \in {"act1", "act2", "act3"} => Acting(p) /\ branch[p] # "none"

Alone == \A p, q \in Pollers : p # q => pc[p] = "idle" \/ pc[q] = "idle"

Latched ==
  ~overlapped =>
    /\ Alone
    /\ \A p \in Pollers : AtWork(p)
    /\ (\A p \in Pollers : pc[p] = "idle") => Calm

LatchInv == TypeOK /\ Latched

LEMMA PlacesAre ==
  Places[1] = "act1" /\ Places[2] = "act2" /\ Places[3] = "act3" /\ Places[4] = "store"
  BY DEF Places

LEMMA StatementsAre ==
  /\ Statements["disconnected"] = <<"setDisconnected", "latch", "tell">>
  /\ Statements["high"] = <<"tell", "latch">>
  /\ Statements["low"] = <<"tell", "latch">>
  /\ Statements["reconnected"] = <<"setConnected", "release", "tell">>
  /\ Statements["clear"] = <<"release">>
  BY DEF Statements

-----------------------------------------------------------------------------
LEMMA InitLatch == Init => LatchInv
<1> SUFFICES ASSUME Init PROVE LatchInv
  OBVIOUS
<1>1. TypeOK
  BY DEF Init, TypeOK
<1>2. Alone /\ Calm /\ \A p \in Pollers : AtWork(p)
  BY DEF Init, Alone, AtWork, Calm, LossLatched, ReturnHolds, HighLatched
<1>3. QED
  BY <1>1, <1>2 DEF LatchInv, Latched

LEMMA NextTyped == TypeOK /\ [Next]_vars => TypeOK'
<1> SUFFICES ASSUME TypeOK, [Next]_vars PROVE TypeOK'
  OBVIOUS
<1>1. CASE UNCHANGED vars \/ Change
  BY <1>1 DEF vars, Change, TypeOK
<1>2. ASSUME NEW p \in Pollers, Read(p) \/ Store(p)
      PROVE  TypeOK'
  BY <1>2 DEF Read, Store, Goto, TypeOK
<1>3. ASSUME NEW p \in Pollers, NEW b \in Branches, Take(p, b)
      PROVE  /\ branch' \in [Pollers -> Branches]
             /\ pc' \in [Pollers -> {"idle", "judge", "link", "act1", "act2", "act3", "store"}]
  BY <1>3 DEF Take, Goto, TypeOK
<1>4. ASSUME NEW p \in Pollers, Judge(p)
      PROVE  TypeOK'
  <2>1. AlarmOf(value[p]) \in Branches
    BY DEF AlarmOf
  <2>2. CASE Take(p, AlarmOf(value[p]))
    BY <1>3, <1>4, <2>1, <2>2 DEF Judge, TypeOK
  <2>3. CASE Goto(p, "link") /\ UNCHANGED branch
    BY <1>4, <2>3 DEF Judge, Goto, TypeOK
  <2>4. QED
    BY <1>4, <2>2, <2>3 DEF Judge
<1>5. ASSUME NEW p \in Pollers, Link(p)
      PROVE  TypeOK'
  <2>1. PICK b \in {"reconnected", "clear", "none"} : Take(p, b)
    BY <1>5 DEF Link
  <2>2. QED
    BY <1>3, <1>5, <2>1 DEF Link, TypeOK
<1>6. ASSUME NEW p \in Pollers, NEW n \in 1..3, Act(p, n)
      PROVE  TypeOK'
  <2>1. Places[n + 1] \in {"act1", "act2", "act3", "store"}
    BY PlacesAre
  <2>2. pc' \in [Pollers -> {"idle", "judge", "link", "act1", "act2", "act3", "store"}]
    BY <1>6, <2>1 DEF Act, Goto, TypeOK
  <2>3. /\ connected' \in BOOLEAN /\ notificated' \in BOOLEAN /\ cleared' \in BOOLEAN
        /\ lastLink' \in {"none", "disconnected", "reconnected"}
    BY <1>6 DEF Act, TypeOK
  <2>4. QED
    BY <1>6, <2>2, <2>3 DEF Act, TypeOK
<1>7. QED
  BY <1>1, <1>2, <1>4, <1>5, <1>6 DEF Next, Poll

-----------------------------------------------------------------------------
(* A step of a poller that is alone. *)

LEMMA OthersIdle ==
  ASSUME LatchInv, ~overlapped, NEW p \in Pollers, pc[p] # "idle"
  PROVE  \A q \in Pollers \ {p} : pc[q] = "idle"
  BY DEF LatchInv, Latched, Alone

LEMMA StaysAlone ==
  ASSUME TypeOK, NEW p \in Pollers, \A q \in Pollers \ {p} : pc[q] = "idle",
         NEW l, Goto(p, l), AtWork(p)', l = "idle" => Calm'
  PROVE  Latched'
<1>1. pc'[p] = l /\ \A q \in Pollers \ {p} : pc'[q] = "idle"
  BY DEF Goto, TypeOK
<1>2. Alone'
  BY <1>1 DEF Alone
<1>3. \A q \in Pollers : AtWork(q)'
  BY <1>1 DEF AtWork
<1>4. (\A q \in Pollers : pc'[q] = "idle") => Calm'
  BY <1>1
<1>5. QED
  BY <1>2, <1>3, <1>4 DEF Latched

LEMMA ReadLatched ==
  ASSUME LatchInv, NEW p \in Pollers, Read(p)
  PROVE  Latched'
<1> SUFFICES ASSUME ~overlapped' PROVE Latched'
  BY DEF Latched
<1>1. ~overlapped /\ \A q \in Pollers \ {p} : pc[q] = "idle"
  BY DEF Read
<1>2. Calm /\ TypeOK
  BY <1>1 DEF Read, LatchInv, Latched
<1>3. Calm'
  BY <1>2 DEF Read, Calm, LossLatched, ReturnHolds, HighLatched
<1>4. Goto(p, "judge") /\ pc'[p] = "judge"
  BY <1>2 DEF Read, Goto, TypeOK
<1>5. AtWork(p)'
  BY <1>3, <1>4 DEF AtWork
<1>6. QED
  BY <1>1, <1>2, <1>4, <1>5, StaysAlone

LEMMA StoreLatched ==
  ASSUME LatchInv, NEW p \in Pollers, Store(p)
  PROVE  Latched'
<1> SUFFICES ASSUME ~overlapped PROVE Latched'
  BY DEF Latched, Store
<1>1. \A q \in Pollers \ {p} : pc[q] = "idle"
  BY OthersIdle DEF Store
<1>2. Calm /\ TypeOK
  BY DEF Store, LatchInv, Latched, AtWork
<1>3. Calm'
  BY <1>2 DEF Store, Calm, LossLatched, ReturnHolds, HighLatched
<1>4. Goto(p, "idle") /\ pc'[p] = "idle"
  BY <1>2 DEF Store, Goto, TypeOK
<1>5. AtWork(p)'
  BY <1>4 DEF AtWork
<1>6. QED
  BY <1>1, <1>2, <1>3, <1>4, <1>5, StaysAlone

\* Entering a branch from Judge or Link.
LEMMA TakeLatched ==
  ASSUME LatchInv, ~overlapped, NEW p \in Pollers, pc[p] \in {"judge", "link"},
         NEW b \in Branches, Take(p, b),
         UNCHANGED <<connected, notificated, lastLink, cleared>>,
         b \in {"disconnected", "high", "low"} => ~notificated,
         b = "reconnected" => ~connected,
         b = "clear" => connected
  PROVE  Latched'
<1>1. \A q \in Pollers \ {p} : pc[q] = "idle"
  BY OthersIdle
<1>2. Calm /\ TypeOK
  BY DEF LatchInv, Latched, AtWork
<1>3. Calm'
  BY <1>2 DEF Calm, LossLatched, ReturnHolds, HighLatched
<1>4. branch'[p] = b
  BY <1>2 DEF Take, TypeOK
<1>5. CASE b = "none"
  <2>1. Goto(p, "store") /\ pc'[p] = "store"
    BY <1>2, <1>5 DEF Take, Goto, TypeOK
  <2>2. AtWork(p)'
    BY <1>3, <2>1 DEF AtWork
  <2>3. QED
    BY <1>1, <1>2, <2>1, <2>2, StaysAlone
<1>6. CASE b # "none"
  <2>1. Goto(p, "act1") /\ pc'[p] = "act1"
    BY <1>2, <1>6 DEF Take, Goto, TypeOK
  <2>2. Acting(p)'
    BY <1>3, <1>4, <2>1, PlacesAre DEF Acting, At
  <2>3. AtWork(p)'
    BY <1>4, <1>6, <2>1, <2>2 DEF AtWork
  <2>4. QED
    BY <1>1, <1>2, <2>1, <2>3, StaysAlone
<1>7. QED
  BY <1>5, <1>6

LEMMA JudgeLatched ==
  ASSUME LatchInv, NEW p \in Pollers, Judge(p)
  PROVE  Latched'
<1> SUFFICES ASSUME ~overlapped PROVE Latched'
  BY DEF Latched, Judge
<1>1. CASE ~notificated /\ AlarmOf(value[p]) # "none"
  <2>1. AlarmOf(value[p]) \in {"disconnected", "high", "low", "none"}
    BY DEF AlarmOf
  <2>2. Take(p, AlarmOf(value[p]))
    BY <1>1 DEF Judge
  <2>3. QED
    BY <1>1, <2>1, <2>2, TakeLatched DEF Judge
<1>2. CASE ~(~notificated /\ AlarmOf(value[p]) # "none")
  <2>1. \A q \in Pollers \ {p} : pc[q] = "idle"
    BY OthersIdle DEF Judge
  <2>2. Calm /\ TypeOK
    BY DEF Judge, LatchInv, Latched, AtWork
  <2>3. Calm'
    BY <2>2 DEF Judge, Calm, LossLatched, ReturnHolds, HighLatched
  <2>4. Goto(p, "link") /\ pc'[p] = "link"
    BY <1>2, <2>2 DEF Judge, Goto, TypeOK
  <2>5. AtWork(p)'
    BY <2>3, <2>4 DEF AtWork
  <2>6. QED
    BY <2>1, <2>2, <2>4, <2>5, StaysAlone
<1>3. QED
  BY <1>1, <1>2

LEMMA LinkLatched ==
  ASSUME LatchInv, NEW p \in Pollers, Link(p)
  PROVE  Latched'
<1> SUFFICES ASSUME ~overlapped PROVE Latched'
  BY DEF Latched, Link
<1>1. PICK b \in {"reconnected", "clear", "none"} :
        /\ Take(p, b)
        /\ b = "reconnected" => ~connected
        /\ b = "clear" => connected
  BY DEF Link
<1>2. QED
  BY <1>1, TakeLatched DEF Link

\* One statement of a branch.
LEMMA ActLatched ==
  ASSUME LatchInv, NEW p \in Pollers, NEW n \in 1..3, Act(p, n)
  PROVE  Latched'
<1> SUFFICES ASSUME ~overlapped PROVE Latched'
  BY DEF Latched, Act
<1> DEFINE b == branch[p]
<1>1. pc[p] = Places[n] /\ pc[p] \in {"act1", "act2", "act3"}
  BY PlacesAre DEF Act
<1>2. \A q \in Pollers \ {p} : pc[q] = "idle"
  BY <1>1, OthersIdle
<1>3. TypeOK /\ Acting(p) /\ b \in {"disconnected", "high", "low", "reconnected", "clear"}
  BY <1>1 DEF LatchInv, Latched, AtWork, TypeOK
<1>4. branch'[p] = b
  BY DEF Act
<1>5. PICK l \in {"act2", "act3", "store"} :
        /\ Goto(p, l)
        /\ l = IF n = Len(Statements[b]) THEN "store" ELSE Places[n + 1]
  BY PlacesAre DEF Act
<1>6. pc'[p] = l
  BY <1>3, <1>5 DEF Goto, TypeOK
<1>7. ASSUME l = "store" => Calm', l # "store" => Acting(p)'
      PROVE  Latched'
  <2>1. AtWork(p)'
    BY <1>3, <1>4, <1>5, <1>6, <1>7 DEF AtWork
  <2>2. QED
    BY <1>2, <1>3, <1>5, <2>1, StaysAlone
<1> USE DEF Calm, LossLatched, ReturnHolds, HighLatched
<1>8. CASE b = "disconnected"
  <2>0. Len(Statements[b]) = 3
    BY <1>8, StatementsAre
  <2>1. CASE n = 1
    <3>1. l = "act2" /\ Statements[b][n] = "setDisconnected"
      BY <1>5, <1>8, <2>0, <2>1, PlacesAre, StatementsAre
    <3>2. Calm /\ ~notificated
      BY <1>1, <1>3, <1>8, <2>1 DEF Acting, At
    <3>3. ~connected' /\ ~notificated' /\ lastLink' # "disconnected" /\ cleared'
      BY <1>8, <3>1, <3>2 DEF Act
    <3>4. Acting(p)'
      BY <1>4, <1>6, <1>8, <3>1, <3>3, PlacesAre DEF Acting, At
    <3>5. QED
      BY <1>7, <3>1, <3>4
  <2>2. CASE n = 2
    <3>1. l = "act3" /\ Statements[b][n] = "latch"
      BY <1>5, <1>8, <2>0, <2>2, PlacesAre, StatementsAre
    <3>2. ~connected /\ lastLink # "disconnected"
      BY <1>1, <1>3, <1>8, <2>2 DEF Acting, At
    <3>3. ~connected' /\ notificated' /\ lastLink' # "disconnected"
      BY <1>8, <3>1, <3>2 DEF Act
    <3>4. Acting(p)'
      BY <1>4, <1>6, <1>8, <3>1, <3>3, PlacesAre DEF Acting, At
    <3>5. QED
      BY <1>7, <3>1, <3>4
  <2>3. CASE n = 3
    <3>1. l = "store" /\ Statements[b][n] = "tell"
      BY <1>5, <1>8, <2>0, <2>3, StatementsAre
    <3>2. ~connected /\ notificated
      BY <1>1, <1>3, <1>8, <2>3 DEF Acting, At
    <3>3. Calm'
      BY <1>8, <3>1, <3>2 DEF Act
    <3>4. QED
      BY <1>7, <3>1, <3>3
  <2>4. QED
    BY <2>1, <2>2, <2>3
<1>9. CASE b \in {"high", "low"}
  <2>0. Len(Statements[b]) = 2 /\ DOMAIN Statements[b] = 1..2
    BY <1>9, StatementsAre
  <2>1. CASE n = 1
    <3>1. l = "act2" /\ Statements[b][n] = "tell"
      BY <1>5, <1>9, <2>0, <2>1, PlacesAre, StatementsAre
    <3>2. Calm /\ ~notificated
      BY <1>1, <1>3, <1>9, <2>1 DEF Acting, At
    <3>3. lastLink' # "disconnected" /\ ReturnHolds'
      BY <1>9, <3>1, <3>2 DEF Act
    <3>4. Acting(p)'
      BY <1>4, <1>6, <1>9, <3>1, <3>3, PlacesAre DEF Acting, At
    <3>5. QED
      BY <1>7, <3>1, <3>4
  <2>2. CASE n = 2
    <3>1. l = "store" /\ Statements[b][n] = "latch"
      BY <1>5, <1>9, <2>0, <2>2, StatementsAre
    <3>2. lastLink # "disconnected" /\ ReturnHolds
      BY <1>1, <1>3, <1>9, <2>2 DEF Acting, At
    <3>3. Calm'
      BY <1>9, <3>1, <3>2 DEF Act
    <3>4. QED
      BY <1>7, <3>1, <3>3
  <2>3. n # 3
    BY <2>0 DEF Act
  <2>4. QED
    BY <2>1, <2>2, <2>3
<1>10. CASE b = "reconnected"
  <2>0. Len(Statements[b]) = 3
    BY <1>10, StatementsAre
  <2>1. CASE n \in 1..2
    <3>1. l = Places[n + 1] /\ Statements[b][n] \in {"setConnected", "release"}
          /\ (n = 1 => Statements[b][n] = "setConnected")
      BY <1>5, <1>10, <2>0, <2>1, StatementsAre
    <3>2. /\ lastLink # "reconnected"
          /\ n = 2 => connected
      BY <1>1, <1>3, <1>10, <2>1 DEF Acting, At
    <3>3. connected' /\ cleared' /\ lastLink' # "reconnected"
      BY <1>10, <2>1, <3>1, <3>2 DEF Act
    <3>4. Acting(p)' /\ l # "store"
      BY <1>4, <1>6, <1>10, <2>1, <3>1, <3>3, PlacesAre DEF Acting, At
    <3>5. QED
      BY <1>7, <3>4
  <2>2. CASE n = 3
    <3>1. l = "store" /\ Statements[b][n] = "tell"
      BY <1>5, <1>10, <2>0, <2>2, StatementsAre
    <3>2. connected /\ cleared
      BY <1>1, <1>3, <1>10, <2>2 DEF Acting, At
    <3>3. Calm'
      BY <1>10, <3>1, <3>2 DEF Act
    <3>4. QED
      BY <1>7, <3>1, <3>3
  <2>3. QED
    BY <2>1, <2>2
<1>11. CASE b = "clear"
  <2>0. Len(Statements[b]) = 1 /\ n = 1 /\ Statements[b][n] = "release"
    <3>1. Len(Statements[b]) = 1 /\ DOMAIN Statements[b] = 1..1
      BY <1>11, StatementsAre
    <3>2. n = 1
      BY <3>1 DEF Act
    <3>3. QED
      BY <1>11, <3>1, <3>2, StatementsAre
  <2>1. l = "store"
    BY <1>5, <2>0
  <2>2. Calm /\ connected
    BY <1>1, <1>3, <1>11, <2>0 DEF Acting, At
  <2>3. Calm'
    BY <1>11, <2>0, <2>2 DEF Act
  <2>4. QED
    BY <1>7, <2>1, <2>3
<1>12. QED
  BY <1>3, <1>8, <1>9, <1>10, <1>11

LEMMA NextLatch == LatchInv /\ [Next]_vars => LatchInv'
<1> SUFFICES ASSUME LatchInv, [Next]_vars PROVE LatchInv'
  OBVIOUS
<1>1. TypeOK'
  BY NextTyped DEF LatchInv
<1>2. CASE UNCHANGED vars \/ Change
  BY <1>1, <1>2 DEF vars, Change, LatchInv, Latched, Alone, AtWork, Acting, At, Calm,
                    LossLatched, ReturnHolds, HighLatched
<1>3. CASE \E p \in Pollers : Poll(p)
  BY <1>1, <1>3, ReadLatched, StoreLatched, JudgeLatched, LinkLatched, ActLatched
     DEF Poll, LatchInv
<1>4. QED
  BY <1>2, <1>3 DEF Next

LEMMA LatchInvariant == Spec => []LatchInv
  BY InitLatch, NextLatch, PTL DEF Spec

-----------------------------------------------------------------------------
(***************************************************************************)
(* ReadDevices announces the loss and the return of a device in turn,      *)
(* whatever value alarms come between, unless readings overlap.            *)
(***************************************************************************)
THEOREM LinkAlternates == Spec => []LinkMessagesAlternate
<1>1. LatchInv => LinkMessagesAlternate
  <2> SUFFICES ASSUME LatchInv, ~overlapped, NEW p \in Pollers,
                      NEW b \in {"disconnected", "reconnected"}, Tells(p, b)
               PROVE  lastLink # b
    BY DEF LinkMessagesAlternate
  <2>1. At(p, b, 3)
    BY StatementsAre DEF Tells, At
  <2>2. pc[p] = "act3"
    BY <2>1, PlacesAre DEF At
  <2>3. Acting(p)
    BY <2>2 DEF LatchInv, Latched, AtWork
  <2>4. QED
    BY <2>1, <2>3 DEF Acting
<1>2. QED
  BY <1>1, LatchInvariant, PTL

(***************************************************************************)
(* ReadDevices does not announce a high value again before the device has  *)
(* shown a good value or come back, unless readings overlap.               *)
(***************************************************************************)
THEOREM HighToldOnce == Spec => []HighOnce
<1>1. LatchInv => HighOnce
  <2> SUFFICES ASSUME LatchInv, ~overlapped, NEW p \in Pollers, Tells(p, "high")
               PROVE  cleared
    BY DEF HighOnce
  <2>1. At(p, "high", 1)
    BY StatementsAre DEF Tells, At
  <2>2. pc[p] = "act1"
    BY <2>1, PlacesAre DEF At
  <2>3. Acting(p)
    BY <2>2 DEF LatchInv, Latched, AtWork
  <2>4. QED
    BY <2>1, <2>3 DEF Acting, Calm, HighLatched
<1>2. QED
  BY <1>1, LatchInvariant, PTL

(***************************************************************************)
(* The flags, readings and branches of ReadDevices keep their types.       *)
(***************************************************************************)
THEOREM LatchTyped == Spec => []TypeOK
<1>1. LatchInv => TypeOK
  BY DEF LatchInv
<1>2. QED
  BY <1>1, LatchInvariant, PTL
=============================================================================
