---------------------------- MODULE MCTcpAccess ----------------------------
(***************************************************************************)
(* Polling rounds and the writes of a client, overlapping at will.         *)
(***************************************************************************)
EXTENDS TcpAccess

CONSTANTS r1, w1

MCReaders == {r1}
MCWriters == {w1}
MCRetries == [t \in {r1, w1} |-> IF t = r1 THEN 3 ELSE 2]
=============================================================================
