----------------------------- MODULE RegisterMap -----------------------------
(***************************************************************************)
(* The numbering of the master's holding registers.                        *)
(*                                                                         *)
(* The process image is laid out once, at boot, by                         *)
(* MainServer.createRegisters: register 0 is a status flag, then comes one *)
(* register per GPIO pin in use, then one per register of each slave.      *)
(* Nobody stores that layout.  Four places recompute it by arithmetic from *)
(* the configuration: the write listener, the poller, the GPIO listeners   *)
(* and the data logger.  This module holds that arithmetic; module Boot    *)
(* compares it with the layout that is really built.                       *)
(*                                                                         *)
(* A configuration is what Configuratore.readFromFile leaves behind:       *)
(*   gpioEnable : BOOLEAN                                                  *)
(*   pins       : sequence of [use, scope, alarm, delay]                   *)
(*   slaves     : sequence of [protocol, size]; empty when the devices are *)
(*                disabled, because readFromFile then skips them           *)
(* A register address is a number from 0; positions in TLA+ sequences      *)
(* start at 1, so pin register r belongs to position r of the used pins.   *)
(***************************************************************************)
EXTENDS Integers, Sequences

SlaveEntry == [protocol : {"rtu", "tcp"}, size : Nat]

(***************************************************************************)
(* Register values (PROTOCOL.java).                                        *)
(***************************************************************************)
OUT_OFF   == 10
OUT_ON    == 11
IN_OK     == 20
IN_ALARM  == 21
STATUS_OK == 1

(***************************************************************************)
(* The pins in use, in file order (UsedUpTo: those among the first n), and *)
(* the first register after them as the listener computes it.  gpioNumber  *)
(* counts the same pins that pinsUsed holds, GpioEnable or not.            *)
(***************************************************************************)
UsedUpTo(conf, n) ==
  LET used[k \in 0..Len(conf.pins)] ==
        IF k = 0 THEN <<>>
        ELSE IF conf.pins[k].use THEN Append(used[k - 1], conf.pins[k]) ELSE used[k - 1]
  IN  used[n]

PinsUsed(conf) == UsedUpTo(conf, Len(conf.pins))

GpioNumber(conf) == Len(PinsUsed(conf))

\* Mutant of GpioSize: the status register is forgotten.
NoStatusGpioSize(conf) == IF conf.gpioEnable THEN GpioNumber(conf) ELSE 0

GpioSize(conf) == IF conf.gpioEnable THEN GpioNumber(conf) + STATUS_OK ELSE 1

\* Registers of the first n slaves: allSize after n turns of the listener's loop.
SizeUpTo(conf, n) ==
  LET total[k \in 0..Len(conf.slaves)] ==
        IF k = 0 THEN 0 ELSE total[k - 1] + conf.slaves[k].size
  IN  total[n]

(***************************************************************************)
(* Where the listener sends a write of register ref.                       *)
(*   pin    the ref-th output of gpioList                                  *)
(*   device register reg (from 0) of slave number slave, over "via"        *)
(*   spin   the search loop has no exit: no slave is long enough           *)
(*   none   slaves.get(0), or its getRegisters().get(0), does not exist    *)
(* The first device register has offset 0, takes the branch meant for      *)
(* "nothing left to search" and always goes to slave 1 over tcp; so does   *)
(* register 0.                                                             *)
(***************************************************************************)
IsPinRegister(conf, ref) == conf.gpioEnable /\ 0 < ref /\ ref < GpioSize(conf)

\* Mutant of LongEnough: <= for <.
TooLongEnough(conf, offset) ==
  {i \in DOMAIN conf.slaves : offset <= SizeUpTo(conf, i)}

LongEnough(conf, offset) ==
  {i \in DOMAIN conf.slaves : offset < SizeUpTo(conf, i)}

DeviceRoute(conf, offset) ==
  IF LongEnough(conf, offset) = {}
  THEN [kind |-> "spin"]
  ELSE LET i == CHOOSE n \in LongEnough(conf, offset) :
                   \A m \in LongEnough(conf, offset) : n <= m
       IN  [kind  |-> "device",
            slave |-> i,
            reg   |-> conf.slaves[i].size - (SizeUpTo(conf, i) - offset),
            via   |-> conf.slaves[i].protocol]

FirstRoute(conf) ==
  IF conf.slaves = <<>> \/ conf.slaves[1].size = 0
  THEN [kind |-> "none"]
  ELSE [kind |-> "device", slave |-> 1, reg |-> 0, via |-> "tcp"]

Route(conf, ref) ==
  IF IsPinRegister(conf, ref)
  THEN [kind |-> "pin", pin |-> ref]
  ELSE IF ref - GpioSize(conf) > 0
       THEN DeviceRoute(conf, ref - GpioSize(conf))
       ELSE FirstRoute(conf)

(***************************************************************************)
(* Where the others believe a register is.                                 *)
(***************************************************************************)
\* Mutant of PollPosition: the status register is forgotten.
NoStatusPollPosition(conf, i, f) ==
  (IF conf.gpioEnable THEN GpioNumber(conf) ELSE 0) + SizeUpTo(conf, i - 1) + f

\* ReadDevices.calculatePosition: the poller, slave i from 1, register f from 0.
PollPosition(conf, i, f) ==
  1 + (IF conf.gpioEnable THEN GpioNumber(conf) ELSE 0) + SizeUpTo(conf, i - 1) + f

\* Mutant of SensePosition: the index, not one more than it.
IndexSensePosition(k) == k - 1

\* ThreadListenGpio: one more than the index of the pin in the list of ALL pins.
SensePosition(k) == k

=============================================================================
