------------------------------ MODULE MCGateway ------------------------------
(***************************************************************************)
(* Small gateways.  Register 0 is the status; in the mixed gateway 1 is a  *)
(* relay, 2 a pulsed relay, 3 a sensor, 4 and 5 the registers of a tcp     *)
(* and an rtu slave, 6 is outside.                                         *)
(***************************************************************************)
EXTENDS Gateway

Relay(alarm)  == [use |-> TRUE, scope |-> "out", alarm |-> alarm, delay |-> FALSE]
Pulsed(alarm) == [use |-> TRUE, scope |-> "out", alarm |-> alarm, delay |-> TRUE]
Unused        == [use |-> FALSE, scope |-> "out", alarm |-> FALSE, delay |-> FALSE]
Sensor        == [use |-> TRUE, scope |-> "in", alarm |-> TRUE, delay |-> FALSE]

Rtu == [protocol |-> "rtu", size |-> 1]
Tcp == [protocol |-> "tcp", size |-> 1]

Write(refs, vals) == [ref : refs, val : vals]

\* one client, all kinds of registers
MCMixed == [gpioEnable |-> TRUE, pins |-> <<Relay(TRUE), Pulsed(TRUE), Sensor>>,
            slaves |-> <<Tcp, Rtu>>]
MCMixedRequests ==
  Write({1, 2, 3}, {2, OUT_OFF, OUT_ON}) \cup Write({0, 4, 5, 6}, {7})

\* two clients on relays; the pulsed one has register 2 and place 3 in the file
MCRelays == [gpioEnable |-> TRUE, pins |-> <<Relay(FALSE), Unused, Pulsed(FALSE)>>,
             slaves |-> <<>>]
MCRelayRequests == Write({1, 2}, {2, OUT_OFF, OUT_ON}) \cup Write({0}, {5})
=============================================================================
