----------------------------- MODULE DataLogger -----------------------------
(***************************************************************************)
(* The data logger (DBConnection): every thirty seconds a row with the     *)
(* power a device reports and the energy since, continued from the last    *)
(* row of the table.  The table has the name of the month in which the     *)
(* server was started; the server may be killed and started at any time.   *)
(*                                                                         *)
(* Time is counted in hours, energy in watt-hours; the rounding to six     *)
(* decimals and to floats is left out.  Only one process runs at a time.   *)
(*                                                                         *)
(* The clock only goes on.  The code subtracts the local time of the last  *)
(* row from the local time: when that is set back, by hand or at the end   *)
(* of the summer time, the difference is negative and the energy falls.    *)
(***************************************************************************)
EXTENDS Integers, Sequences

CONSTANTS
  Day,          \* hours of a day (24)
  IntSpan,      \* hours in 2^32 milliseconds (about 1193)
  Month,        \* hours of a month
  Limit,        \* 65535: a value that is stored as 0, and what a device out of
                \* reach has in its register
  Powers,       \* what the register of the device may hold
  Horizon       \* bound on the time

ASSUME LoggerAssumption ==
  /\ {Day, IntSpan, Month, Limit} \subseteq Nat \ {0}
  /\ Horizon \in Nat
  /\ Powers \subseteq Nat

VARIABLES
  now,       \* hours since the beginning of a month
  up,        \* the server runs
  month,     \* currentMonth of its logger
  tables     \* month -> the rows of its table, [date, power, energy]

logVars == <<now, up, month, tables>>

MonthOf(t) == t \div Month
Months     == 0..MonthOf(Horizon)

LogInit ==
  /\ now = 0
  /\ up = FALSE /\ month = 0
  /\ tables = [m \in Months |-> <<>>]

-----------------------------------------------------------------------------
(* getEnergy *)

\* The cast of a time to 32 bits.
Cast(x) == ((x + IntSpan \div 2) % IntSpan) - IntSpan \div 2

\* Division of integers truncates.
Quotient(x, d) == IF x >= 0 THEN x \div d ELSE -((-x) \div d)

\* Mutant of Elapsed: the hours are cast as the days are.
CastElapsed(date) ==
  LET diff == date - now IN Day * (-Quotient(Cast(diff), Day)) + (-Cast(diff))

\* The days times twenty-four, and all the hours once more: diffHours is not
\* taken modulo a day as the minutes are modulo an hour.  The cast binds before
\* the division by a day.
Elapsed(date) ==
  LET diff == date - now IN Day * (-Quotient(Cast(diff), Day)) + (-diff)

\* Mutant of Energy: a power of zero does not end the sum.
EndlessEnergy(rows) ==
  IF rows = <<>> THEN 0
  ELSE LET last == rows[Len(rows)] IN last.energy + last.power * Elapsed(last.date)

Energy(rows) ==
  IF rows = <<>> \/ rows[Len(rows)].power \in {0, Limit}
  THEN 0
  ELSE LET last == rows[Len(rows)] IN last.energy + last.power * Elapsed(last.date)

-----------------------------------------------------------------------------
\* writeValues
Stored(x) == IF x >= Limit THEN 0 ELSE x

\* DataLogger.run, with the power the device has at the time, a while after the
\* last row.  The table is chosen at the start.
Log ==
  LET rows == tables[month] IN
  /\ up
  /\ rows # <<>> => rows[Len(rows)].date < now
  /\ \E power \in Powers :
       tables' = [tables EXCEPT ![month] =
         Append(@, [date |-> now, power |-> Stored(power), energy |-> Stored(Energy(rows))])]
  /\ UNCHANGED <<now, up, month>>

\* The constructor and firstConnection, which creates the table if it is not there.
Start ==
  /\ ~up
  /\ up' = TRUE
  /\ month' = MonthOf(now)
  /\ UNCHANGED <<now, tables>>

Kill ==
  /\ up
  /\ up' = FALSE
  /\ UNCHANGED <<now, month, tables>>

\* Time passes; a row may be missing because the database was locked.
Pass ==
  /\ now < Horizon
  /\ now' = now + 1
  /\ UNCHANGED <<up, month, tables>>

LogNext == Log \/ Start \/ Kill \/ Pass

LogSpec == LogInit /\ [][LogNext]_logVars

-----------------------------------------------------------------------------
(* Properties *)

\* Hours between row k and the one before.
Gap(rows, k) == rows[k].date - rows[k - 1].date

\* The last row without power before row k; 0 if there is none.
WithoutPower(rows, k) == {0} \cup {j \in 1..(k - 1) : rows[j].power = 0}
LastOff(rows, k) ==
  CHOOSE j \in WithoutPower(rows, k) : \A i \in WithoutPower(rows, k) : i <= j

\* What the powers of the rows before row n make since then.
SumUpTo(rows, n) ==
  LET sum[k \in 0..Len(rows)] ==
        IF k <= 1 \/ LastOff(rows, k) = k - 1 THEN 0
        ELSE sum[k - 1] + rows[k - 1].power * Gap(rows, k)
  IN sum[n]

(***************************************************************************)
(* Across kills and starts, lost rows and devices out of reach, the energy *)
(* of a row is what the powers of the rows before it make since the last   *)
(* row without power, as long as no two rows are a day or more apart and   *)
(* the sum stays below the limit; for a clock that is never set back.      *)
(***************************************************************************)
EnergyAddsUp ==
  \A m \in Months :
    LET rows == tables[m] IN
      \A k \in DOMAIN rows :
        (\A j \in (LastOff(rows, k) + 2)..k : Gap(rows, j) < Day /\ SumUpTo(rows, j) < Limit)
          => rows[k].energy = SumUpTo(rows, k)

(***************************************************************************)
(* However long the server was down, the energy never falls while there is *)
(* power: the cast of the milliseconds to 32 bits makes the days wrong,    *)
(* never so wrong that the hours do not make up for it.  Only a sum at the *)
(* limit starts again from zero; and a clock set back is not considered.   *)
(***************************************************************************)
EnergyNeverFalls ==
  \A m \in Months : \A k \in 2..Len(tables[m]) :
    LET prev == tables[m][k - 1]
        this == tables[m][k]
        most == prev.energy + prev.power * 2 * Gap(tables[m], k)
    IN prev.power # 0 /\ most < Limit => this.energy >= prev.energy
=============================================================================
