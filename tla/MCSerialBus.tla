---------------------------- MODULE MCSerialBus ----------------------------
(***************************************************************************)
(* Instances of SerialBus: two readings and a write, of different devices. *)
(***************************************************************************)
EXTENDS SerialBus

CONSTANTS p1, p2, w1

MCPollers == {p1, p2}
MCWriters == {w1}

\* Only the device that is written to is tried again.
MCRetries == [t \in {p1, p2, w1} |-> IF t = w1 THEN 2 ELSE 1]
=============================================================================
