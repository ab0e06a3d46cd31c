---------------------------- MODULE MCConfReload ----------------------------
(***************************************************************************)
(* Registers 1 and 2 are pins, one pulsed, 3 and 4 devices; place 2 of the *)
(* file is not in use.                                                     *)
(***************************************************************************)
EXTENDS ConfReload

MCPin(use, delay) == [use |-> use, delay |-> delay]

MCConf == [gpioEnable |-> TRUE,
           pins |-> <<MCPin(TRUE, FALSE), MCPin(FALSE, FALSE), MCPin(TRUE, TRUE)>>,
           slaves |-> <<[protocol |-> "tcp", size |-> 1], [protocol |-> "rtu", size |-> 1]>>]
=============================================================================
