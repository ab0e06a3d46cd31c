------------------------------- MODULE MCBoot -------------------------------
(***************************************************************************)
(* Every configuration of up to three pins and two slaves.  The two number *)
(* rows put an ordinary pin, or one of GPIO 10..14, first.                 *)
(***************************************************************************)
EXTENDS Boot, SequencesExt

MCNumberRows == {<<0, 1, 2>>, <<12, 1, 2>>}

MCPinRows ==
  {[i \in DOMAIN row |-> [use    |-> row[i][1],
                          scope  |-> row[i][2],
                          number |-> numbers[i]]] :
     row \in BoundedSeq(BOOLEAN \X {"in", "out"}, 3), numbers \in MCNumberRows}

MCSlaveRows == BoundedSeq([protocol : {"rtu", "tcp"}, size : 0..2], 2)

MCConfigs ==
  [gpioEnable : BOOLEAN, pins : MCPinRows, slaves : MCSlaveRows]
=============================================================================
