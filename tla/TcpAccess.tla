----------------------------- MODULE TcpAccess -----------------------------
(***************************************************************************)
(* One register of a modbus/tcp device: the threads of the polling rounds  *)
(* read it, those of the clients write it, each access over a connection   *)
(* of its own (HoldingRegisterTCPMaster, ModbusTCPTransaction).            *)
(*                                                                         *)
(* A round does not wait for the one before, so several threads may read   *)
(* at once.  The device serves its connections one request at a time; it   *)
(* may close any of them, refuse a request, and send an answer in pieces.  *)
(***************************************************************************)
EXTENDS Integers, Sequences

CONSTANTS
  Readers, Writers,   \* threads of polling rounds and of clients
  Retries,            \* thread -> m_Retries: 3 for a reading, 2 for a write
  Values,             \* values of the register
  MaxAccesses,        \* accesses begun
  Unreachable,        \* model value: -1, what an access without answer returns
  Garbage             \* model value: what is read of an answer in pieces

Threads == Readers \cup Writers

ASSUME TcpAssumption ==
  /\ Readers \cap Writers = {}
  /\ Retries \in [Threads -> Nat \ {0}]
  /\ MaxAccesses \in Nat
  /\ {Unreachable, Garbage} \cap Values = {}

VARIABLES
  pc,         \* thread -> where it is
  value,      \* thread -> what it writes, or has read
  sock,       \* thread -> its connection: "none", "open", "gone" (closed by the device)
  wire,       \* thread -> requests the device has not seen yet
  answers,    \* thread -> the answers on their way, [kind, val]
  astray,     \* thread -> it has left part of an answer unread
  tries,      \* thread -> retryCounter
  field,      \* the register of the device
  image,      \* the register of the process image
  accesses,   \* accesses begun (bounded by MaxAccesses)
  applied,    \* thread -> times its write reached the device (history)
  broken,     \* thread -> an answer came in pieces (history)
  seen        \* thread -> values of the device since it began (history)

conn == <<sock, wire, answers, astray>>
hist == <<accesses, applied, broken, seen>>
vars == <<pc, value, conn, tries, field, image, hist>>

Goto(t, l) == pc' = [pc EXCEPT ![t] = l]

Init ==
  /\ pc = [t \in Threads |-> "idle"]
  /\ value = [t \in Threads |-> Unreachable]
  /\ sock = [t \in Threads |-> "none"]
  /\ wire = [t \in Threads |-> 0]
  /\ answers = [t \in Threads |-> <<>>]
  /\ astray = [t \in Threads |-> FALSE]
  /\ tries = [t \in Threads |-> 0]
  /\ field \in Values /\ image = Unreachable
  /\ accesses = 0
  /\ applied = [t \in Threads |-> 0]
  /\ broken = [t \in Threads |-> FALSE]
  /\ seen = [t \in Threads |-> {}]

-----------------------------------------------------------------------------
(* The threads *)

Begin(t) ==
  /\ pc[t] = "idle" /\ accesses < MaxAccesses
  /\ \E x \in IF t \in Writers THEN Values ELSE {Unreachable} :
       value' = [value EXCEPT ![t] = x]
  /\ tries' = [tries EXCEPT ![t] = 0]
  /\ accesses' = accesses + 1
  /\ applied' = [applied EXCEPT ![t] = 0]
  /\ broken' = [broken EXCEPT ![t] = FALSE]
  /\ seen' = [seen EXCEPT ![t] = {field}]
  /\ Goto(t, "connect")
  /\ UNCHANGED <<conn, field, image>>

\* Mutant of Connect: a connection that was left open is used again.
ThriftyConnect(t) ==
  /\ pc[t] = "connect"
  /\ IF sock[t] = "open"
     THEN UNCHANGED conn
     ELSE /\ sock' = [sock EXCEPT ![t] = "open"]
          /\ wire' = [wire EXCEPT ![t] = 0]
          /\ answers' = [answers EXCEPT ![t] = <<>>]
          /\ astray' = [astray EXCEPT ![t] = FALSE]
  /\ Goto(t, "send")
  /\ UNCHANGED <<value, tries, field, image, hist>>

\* A new connection; one that an access before has left open is forgotten.
Connect(t) ==
  /\ pc[t] = "connect"
  /\ sock' = [sock EXCEPT ![t] = "open"]
  /\ wire' = [wire EXCEPT ![t] = 0]
  /\ answers' = [answers EXCEPT ![t] = <<>>]
  /\ astray' = [astray EXCEPT ![t] = FALSE]
  /\ Goto(t, "send")
  /\ UNCHANGED <<value, tries, field, image, hist>>

\* The exception of a failed connect, of a device's refusal, or of an answer
\* that never came, ends in the catch of the master: a reading returns -1.
Fails(t) ==
  IF t \in Readers
  THEN Goto(t, "store") /\ value' = [value EXCEPT ![t] = Unreachable]
  ELSE Goto(t, "idle") /\ UNCHANGED value

ConnectFails(t) ==
  /\ pc[t] = "connect"
  /\ Fails(t)
  /\ UNCHANGED <<conn, tries, field, image, hist>>

\* Mutant of Retry: try again over a new connection.
ReconnectingRetry(t) ==
  /\ tries' = [tries EXCEPT ![t] = @ + 1]
  /\ IF tries[t] + 1 < Retries[t] THEN Goto(t, "connect") /\ UNCHANGED value ELSE Fails(t)

\* Mutant of Retry: the attempts are not counted.
UncountedRetry(t) == Goto(t, "send") /\ UNCHANGED <<value, tries>>

\* A ModbusIOException is tried again over the same connection.  After the last
\* try the loop is left without an answer, and the caller fails over the null.
Retry(t) ==
  /\ tries' = [tries EXCEPT ![t] = @ + 1]
  /\ IF tries[t] + 1 < Retries[t] THEN Goto(t, "send") /\ UNCHANGED value ELSE Fails(t)

\* writeMessage
Send(t) ==
  /\ pc[t] = "send" /\ sock[t] = "open"
  /\ wire' = [wire EXCEPT ![t] = @ + 1]
  /\ Goto(t, "receive")
  /\ UNCHANGED <<value, sock, answers, astray, tries, field, image, hist>>

\* The thread may not have heard that the device has closed the connection.
SendFails(t) ==
  /\ pc[t] = "send" /\ sock[t] = "gone"
  /\ Retry(t) \/ (Goto(t, "receive") /\ UNCHANGED <<value, tries>>)
  /\ UNCHANGED <<conn, field, image, hist>>

\* readResponse: an answer in one piece, or cut inside the registers: the bytes
\* that have not come are taken for zeros.
Receive(t) ==
  LET a == Head(answers[t]) IN
  /\ pc[t] = "receive" /\ answers[t] # <<>>
  /\ a.kind \in {"whole", "body"} /\ ~astray[t]
  /\ answers' = [answers EXCEPT ![t] = Tail(@)]
  /\ \/ /\ value' = [value EXCEPT ![t] = IF a.kind = "whole" THEN a.val ELSE Garbage]
        /\ Goto(t, "sleep")
     \/ a.kind = "body" /\ Fails(t)
  /\ UNCHANGED <<sock, wire, astray, tries, field, image, hist>>

\* An answer cut inside its header is an EOFException of the buffer, and what
\* follows is read out of step.
ReceiveAstray(t) ==
  /\ pc[t] = "receive" /\ answers[t] # <<>>
  /\ Head(answers[t]).kind = "head" \/ astray[t]
  /\ answers' = [answers EXCEPT ![t] = Tail(@)]
  /\ astray' = [astray EXCEPT ![t] = TRUE]
  /\ \/ Retry(t)
     \/ /\ astray[t]
        /\ value' = [value EXCEPT ![t] = Garbage]
        /\ Goto(t, "sleep") /\ UNCHANGED tries
     \/ astray[t] /\ Fails(t) /\ UNCHANGED tries
  /\ UNCHANGED <<sock, wire, field, image, hist>>

\* ModbusSlaveException: the connection stays open.
Refused(t) ==
  /\ pc[t] = "receive" /\ answers[t] # <<>>
  /\ Head(answers[t]).kind = "exception" /\ ~astray[t]
  /\ answers' = [answers EXCEPT ![t] = Tail(@)]
  /\ Fails(t)
  /\ UNCHANGED <<sock, wire, astray, tries, field, image, hist>>

\* The end of the stream
ReceiveEnd(t) ==
  /\ pc[t] = "receive" /\ answers[t] = <<>> /\ sock[t] = "gone"
  /\ Retry(t)
  /\ UNCHANGED <<conn, field, image, hist>>

\* Thread.sleep(300), and close; the answer to a write is only printed.
Finish(t) ==
  /\ pc[t] = "sleep"
  /\ sock' = [sock EXCEPT ![t] = "none"]
  /\ Goto(t, IF t \in Readers THEN "store" ELSE "idle")
  /\ UNCHANGED <<value, wire, answers, astray, tries, field, image, hist>>

\* The poller puts what it has read into the image.
Store(t) ==
  /\ pc[t] = "store"
  /\ image' = value[t]
  /\ Goto(t, "idle")
  /\ UNCHANGED <<value, conn, tries, field, hist>>

-----------------------------------------------------------------------------
(* The device *)

\* It takes a request, and answers in one piece or in two.
Serve(t) ==
  /\ sock[t] = "open" /\ wire[t] > 0
  /\ wire' = [wire EXCEPT ![t] = @ - 1]
  /\ field' = IF t \in Writers THEN value[t] ELSE field
  /\ applied' = [applied EXCEPT ![t] = @ + 1]
  /\ seen' = [u \in Threads |-> seen[u] \cup {field'}]
  /\ \E k \in {"whole", "body", "head"} :
       /\ answers' = [answers EXCEPT ![t] = Append(@, [kind |-> k, val |-> field'])]
       /\ broken' = [broken EXCEPT ![t] = @ \/ k # "whole"]
  /\ UNCHANGED <<pc, value, sock, astray, tries, image, accesses>>

Refuse(t) ==
  /\ sock[t] = "open" /\ wire[t] > 0
  /\ wire' = [wire EXCEPT ![t] = @ - 1]
  /\ answers' = [answers EXCEPT ![t] = Append(@, [kind |-> "exception", val |-> Unreachable])]
  /\ UNCHANGED <<pc, value, sock, astray, tries, field, image, hist>>

\* It closes a connection in use, at any time; what it has not read is lost, and
\* what it has sent may be.
Drop(t) ==
  /\ sock[t] = "open" /\ pc[t] \in {"send", "receive"}
  /\ sock' = [sock EXCEPT ![t] = "gone"]
  /\ wire' = [wire EXCEPT ![t] = 0]
  /\ answers' = [answers EXCEPT ![t] = <<>>] \/ UNCHANGED answers
  /\ UNCHANGED <<pc, value, astray, tries, field, image, hist>>

Device(t) == Serve(t) \/ Refuse(t) \/ Drop(t)

Step(t) ==
  \/ Connect(t) \/ ConnectFails(t) \/ Send(t) \/ SendFails(t)
  \/ Receive(t) \/ ReceiveAstray(t) \/ Refused(t) \/ ReceiveEnd(t)
  \/ Finish(t) \/ (t \in Readers /\ Store(t))

Next == \E t \in Threads : Begin(t) \/ Step(t) \/ Device(t)

Spec == Init /\ [][Next]_vars

\* Threads go on, and a device that got a request answers it or closes the
\* connection: nothing else ends the wait, no read timeout is set.
FairSpec ==
  /\ Spec
  /\ \A t \in Threads : WF_vars(Step(t)) /\ WF_vars(wire[t] > 0 /\ Device(t))

-----------------------------------------------------------------------------
(* Properties *)

Answered(t) == t \in Writers /\ pc[t] = "sleep"

(***************************************************************************)
(* A write is tried again after an error, yet it reaches the device at     *)
(* most once, and has reached it when the client is answered: the second   *)
(* try goes to the connection that has failed (ModbusTCPTransaction.       *)
(* execute).  Only an answer in pieces breaks that.                        *)
(***************************************************************************)
WrittenOnce ==
  \A t \in Writers : ~broken[t] =>
    applied[t] <= 1 /\ (Answered(t) => applied[t] = 1)

(***************************************************************************)
(* What a polling round is about to store is -1 or a value the device had  *)
(* since the round began, however rounds and writes overlap and whatever   *)
(* earlier accesses have left unread; unless this very answer came in      *)
(* pieces.                                                                 *)
(***************************************************************************)
FreshReading ==
  \A t \in Readers : pc[t] = "store" /\ ~broken[t] =>
    value[t] \in seen[t] \cup {Unreachable}

(***************************************************************************)
(* An access ends, after its retries at the latest, as long as the device  *)
(* does not keep silent over an open connection.                           *)
(***************************************************************************)
AccessesEnd == \A t \in Threads : pc[t] # "idle" ~> pc[t] = "idle"
=============================================================================
