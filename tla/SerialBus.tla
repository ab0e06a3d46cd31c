----------------------------- MODULE SerialBus -----------------------------
(***************************************************************************)
(* The serial bus: SerialSlave over SerialConnection, ModbusRTUTransport   *)
(* and ModbusSerialTransaction.  The poller's threads read registers, the  *)
(* listeners of clients write them and close the port behind them.         *)
(*                                                                         *)
(* The connection, the transaction, the request and the response of a      *)
(* reading are static: all devices and all threads share them.  What one   *)
(* thread asks another may send, and what was answered a third may take.   *)
(*                                                                         *)
(* A request and its answer are one Item: whose access it belongs to, and  *)
(* whether that access is still the one under way.  An answer may come     *)
(* when nobody waits for it any more.                                      *)
(***************************************************************************)
EXTENDS Integers, FiniteSets

CONSTANTS
  Pollers,       \* threads that read a register, again and again
  Writers,       \* handlers whose client writes a device register
  Retries,       \* thread -> retries of its device; 0 and 1 both mean one attempt
  MaxObjects,    \* transactions in use at once; transports, with the connection's own
  MaxOwed,       \* answers that devices still owe
  MaxAccesses,   \* accesses begun
  None           \* model value: null

Threads      == Pollers \cup Writers
Transactions == 1..MaxObjects
Transports   == 1..(MaxObjects + 1)

ASSUME SerialAssumption ==
  /\ Pollers \cap Writers = {}
  /\ None \notin Threads \cup Nat \cup [of : Threads, now : BOOLEAN]
  /\ Retries \in [Threads -> Nat]
  /\ MaxObjects \in Nat /\ MaxOwed \in Nat /\ MaxAccesses \in Nat

VARIABLES
  port,          \* the thread whose open took the serial port, or None
  m_Open,        \* what the connection says of itself
  m_Transport,   \* of the connection; it outlives a close
  live,          \* the streams of m_Transport are open
  trans,         \* static: the transaction made last
  req,           \* static: the request of the reading begun last
  res,           \* static: the response of the reading finished last
  io,            \* transaction -> its transport
  request,       \* transaction -> its request
  response,      \* transaction -> its response
  owed,          \* answers that devices have yet to send
  input,         \* the answer in the receive buffer
  pc,            \* thread -> what it does next
  cur,           \* thread -> the transaction it executes
  count,         \* thread -> looks at the port left, then attempts that failed
  apart,         \* thread -> nobody else was at the bus during its access (history)
  clean,         \* thread -> it never sent while a device owed an older answer (history)
  begun,         \* accesses begun (bounded by MaxAccesses)
  served         \* thread -> its device has carried out its request (history)

line   == <<port, m_Open, m_Transport, live>>
static == <<trans, req, res>>
objs   == <<io, request, response>>
wire   == <<owed, input>>
hist   == <<apart, clean, served, begun>>
vars   == <<line, static, objs, wire, pc, cur, count, hist>>

Items == [of : Threads, now : BOOLEAN]

Own(t) == [of |-> t, now |-> TRUE]

\* What was of t's last access is not of its next one.
Aged(x, t) == IF x = Own(t) THEN [of |-> t, now |-> FALSE] ELSE x

Resting == {"idle", "dead"}

\* Threads inside the monitor of the transport of transaction x.
Inside(x) == {t \in Threads : pc[t] \in {"send", "receive"} /\ io[cur[t]] = io[x]}

\* An object nobody refers to; what it held is gone.
Garbage(x) == x # trans /\ \A t \in Threads : cur[t] # x

NewTransport(x) == x # m_Transport /\ \A y \in Transactions : ~Garbage(y) => io[y] # x

Goto(t, l) == pc' = [pc EXCEPT ![t] = l]

Init ==
  /\ port = None /\ m_Open = FALSE /\ m_Transport = None /\ live = FALSE
  /\ trans = None /\ req = None /\ res = None
  /\ io = [x \in Transactions |-> None]
  /\ request = [x \in Transactions |-> None]
  /\ response = [x \in Transactions |-> None]
  /\ owed = {} /\ input = None
  /\ pc = [t \in Threads |-> "idle"]
  /\ cur = [t \in Threads |-> None]
  /\ count = [t \in Threads |-> 0]
  /\ apart = [t \in Threads |-> TRUE]
  /\ clean = [t \in Threads |-> TRUE]
  /\ begun = 0
  /\ served = [t \in Threads |-> FALSE]

-----------------------------------------------------------------------------
(* The port *)

\* A period has passed, or a client has written.  A writer looks at the port
\* twice, in the listener and in writeHoldingMultipleRegister.
Begin(t) ==
  /\ pc[t] \in Resting /\ begun < MaxAccesses
  /\ begun' = begun + 1
  /\ Goto(t, "check")
  /\ count' = [count EXCEPT ![t] = IF t \in Writers THEN 2 ELSE 1]
  /\ req' = Aged(req, t)
  /\ res' = Aged(res, t)
  /\ request' = [x \in Transactions |-> Aged(request[x], t)]
  /\ response' = [x \in Transactions |-> Aged(response[x], t)]
  /\ owed' = {Aged(x, t) : x \in owed}
  /\ input' = Aged(input, t)
  /\ LET others == {u \in Threads \ {t} : pc[u] \notin Resting}
     IN apart' = [u \in Threads |-> IF u = t THEN others = {}
                                    ELSE apart[u] /\ u \notin others]
  /\ clean' = [clean EXCEPT ![t] = TRUE]
  /\ served' = [served EXCEPT ![t] = FALSE]
  /\ UNCHANGED <<line, trans, io, cur>>

\* Where a thread goes when it has looked at the port often enough.
Looked(t) ==
  /\ count' = [count EXCEPT ![t] = @ - 1]
  /\ Goto(t, IF count[t] > 1 THEN "check" ELSE IF t \in Pollers THEN "ask" ELSE "make")

FindOpen(t) ==
  /\ pc[t] = "check" /\ m_Open
  /\ Looked(t)
  /\ UNCHANGED <<line, static, objs, wire, cur, hist>>

FindClosed(t) ==
  /\ pc[t] = "check" /\ ~m_Open
  /\ Goto(t, "open")
  /\ UNCHANGED <<line, static, objs, wire, cur, count, hist>>

\* open: the port can be taken when nobody has it; who waits for it for 30
\* seconds gives up, and connect swallows the exception.
TakePort(t) ==
  /\ pc[t] = "open" /\ port = None
  /\ port' = t
  /\ Goto(t, "opening")
  /\ UNCHANGED <<m_Open, m_Transport, live, static, objs, wire, cur, count, hist>>

PortInUse(t) ==
  /\ pc[t] = "open" /\ port # None
  /\ Looked(t)
  /\ UNCHANGED <<line, static, objs, wire, cur, hist>>

\* Another writer may have closed the port taken: then open fails.
Opened(t) ==
  /\ pc[t] = "opening"
  /\ IF port = t
     THEN /\ \E x \in Transports :
               /\ NewTransport(x)
               /\ \A y \in Transports : NewTransport(y) => x <= y
               /\ m_Transport' = x
          /\ m_Open' = TRUE /\ live' = TRUE
     ELSE UNCHANGED <<m_Open, m_Transport, live>>
  /\ Looked(t)
  /\ UNCHANGED <<port, static, objs, wire, cur, hist>>

-----------------------------------------------------------------------------
(* The transaction *)

\* Mutant of Ask: the static request is made once.
LazyAsk(t) ==
  /\ pc[t] = "ask"
  /\ req' = IF req = None THEN Own(t) ELSE req
  /\ Goto(t, "make")
  /\ UNCHANGED <<line, trans, res, objs, wire, cur, count, hist>>

\* req = new ReadMultipleRegistersRequest
Ask(t) ==
  /\ pc[t] = "ask"
  /\ req' = Own(t)
  /\ Goto(t, "make")
  /\ UNCHANGED <<line, trans, res, objs, wire, cur, count, hist>>

\* trans = new ModbusSerialTransaction(con)
Make(t) ==
  /\ pc[t] = "make"
  /\ \E x \in Transactions :
       /\ Garbage(x) /\ \A y \in Transactions : Garbage(y) => x <= y
       /\ trans' = x
       /\ io' = [y \in Transactions |-> IF y = x THEN m_Transport
                                        ELSE IF Garbage(y) THEN None ELSE io[y]]
       /\ request'  = [y \in Transactions |-> IF Garbage(y) THEN None ELSE request[y]]
       /\ response' = [y \in Transactions |-> IF Garbage(y) THEN None ELSE response[y]]
  /\ Goto(t, "set")
  /\ UNCHANGED <<line, req, res, wire, cur, count, hist>>

\* trans.setRequest: a reading sets the static request, a write its own.
SetRequest(t) ==
  /\ pc[t] = "set"
  /\ request' = [request EXCEPT ![trans] = IF t \in Pollers THEN req ELSE Own(t)]
  /\ Goto(t, "execute")
  /\ UNCHANGED <<line, static, io, response, wire, cur, count, hist>>

\* trans.execute: of whichever transaction is the static one now.
Execute(t) ==
  /\ pc[t] = "execute"
  /\ IF request[trans] = None \/ io[trans] = None
     THEN /\ Goto(t, "idle") /\ UNCHANGED cur
     ELSE /\ Goto(t, "enter") /\ cur' = [cur EXCEPT ![t] = trans]
  /\ UNCHANGED <<line, static, objs, wire, count, hist>>

\* The locks of the transaction and of its transport.
Enter(t) ==
  /\ pc[t] = "enter" /\ Inside(cur[t]) = {}
  /\ Goto(t, "send")
  /\ count' = [count EXCEPT ![t] = 0]
  /\ UNCHANGED <<line, static, objs, wire, cur, hist>>

Usable(t) == live /\ io[cur[t]] = m_Transport

\* Mutant of Failed: attempts are not counted.
EndlessFailed(t) == Goto(t, "send") /\ UNCHANGED <<count, cur>>

\* An attempt has failed: the next one, or the end of the access.
Failed(t) ==
  /\ count' = [count EXCEPT ![t] = @ + 1]
  /\ IF count[t] + 1 >= Retries[t]
     THEN /\ Goto(t, "idle") /\ cur' = [cur EXCEPT ![t] = None]
     ELSE /\ Goto(t, "send") /\ UNCHANGED cur

\* Mutant of Send: what has come in is left there.
UnclearedSend(t) ==
  /\ pc[t] = "send"
  /\ IF Usable(t)
     THEN LET x == request[cur[t]] IN
          /\ UNCHANGED input
          /\ clean' = [clean EXCEPT ![t] = @ /\ owed \subseteq {Own(t)}]
          /\ \/ /\ Cardinality(owed) < MaxOwed
                /\ owed' = owed \cup {x}
                /\ served' = [served EXCEPT ![x.of] = @ \/ x.now]
             \/ UNCHANGED <<owed, served>>
          /\ Goto(t, "receive")
          /\ UNCHANGED <<cur, count>>
     ELSE /\ Failed(t) /\ UNCHANGED <<wire, clean, served>>
  /\ UNCHANGED <<line, static, objs, apart, begun>>

\* writeMessage clears what has come in; the device gets the request or not.
Send(t) ==
  /\ pc[t] = "send"
  /\ IF Usable(t)
     THEN LET x == request[cur[t]] IN
          /\ input' = None
          /\ clean' = [clean EXCEPT ![t] = @ /\ owed \subseteq {Own(t)}]
          /\ \/ /\ Cardinality(owed) < MaxOwed
                /\ owed' = owed \cup {x}
                /\ served' = [served EXCEPT ![x.of] = @ \/ x.now]
             \/ UNCHANGED <<owed, served>>
          /\ Goto(t, "receive")
          /\ UNCHANGED <<cur, count>>
     ELSE /\ Failed(t) /\ UNCHANGED <<wire, clean, served>>
  /\ UNCHANGED <<line, static, objs, apart, begun>>

\* readResponse takes any answer there is.
Receive(t) ==
  /\ pc[t] = "receive" /\ Usable(t) /\ input # None
  /\ response' = [response EXCEPT ![cur[t]] = input]
  /\ input' = None
  /\ cur' = [cur EXCEPT ![t] = None]
  /\ Goto(t, "get")
  /\ UNCHANGED <<line, static, io, request, owed, count, hist>>

\* Nothing has come in time, or the port was closed meanwhile.
Miss(t) ==
  /\ pc[t] = "receive" /\ ~(Usable(t) /\ input # None)
  /\ Failed(t)
  /\ UNCHANGED <<line, static, objs, wire, hist>>

-----------------------------------------------------------------------------
(* The result *)

\* The response of the static transaction: null leaves a reading at 0, one of
\* the other kind fails the cast and ends the poller's thread.
GetReading(t) ==
  /\ pc[t] = "get" /\ t \in Pollers
  /\ LET r == response[trans] IN
       IF r # None /\ r.of \in Writers
       THEN Goto(t, "dead") /\ UNCHANGED res
       ELSE res' = r /\ Goto(t, IF r = None THEN "zero" ELSE "use")
  /\ UNCHANGED <<line, trans, req, objs, wire, cur, count, hist>>

\* value = res.getRegisterValue, of the static response, which goes to the image.
Store(t) ==
  /\ pc[t] \in {"use", "zero"}
  /\ Goto(t, IF pc[t] = "use" /\ res = None THEN "dead" ELSE "idle")
  /\ UNCHANGED <<line, static, objs, wire, cur, count, hist>>

GetWritten(t) ==
  /\ pc[t] = "get" /\ t \in Writers
  /\ LET r == response[trans] IN
       Goto(t, IF r # None /\ r.of \in Writers THEN "close" ELSE "idle")
  /\ UNCHANGED <<line, static, objs, wire, cur, count, hist>>

\* con.close tests its flag, closes the port it has now and resets the flag.
Close(t) ==
  /\ pc[t] = "close"
  /\ Goto(t, IF m_Open THEN "closing" ELSE "idle")
  /\ UNCHANGED <<line, static, objs, wire, cur, count, hist>>

ClosePort(t) ==
  /\ pc[t] = "closing"
  /\ port' = None /\ live' = FALSE /\ input' = None
  /\ Goto(t, "closed")
  /\ UNCHANGED <<m_Open, m_Transport, static, objs, owed, cur, count, hist>>

Unflag(t) ==
  /\ pc[t] = "closed"
  /\ m_Open' = FALSE
  /\ Goto(t, "idle")
  /\ UNCHANGED <<port, m_Transport, live, static, objs, wire, cur, count, hist>>

-----------------------------------------------------------------------------
(* The devices *)

\* An answer comes in, behind one that is already there, or on a closed port.
Answer(x) ==
  /\ owed' = owed \ {x}
  /\ input' = IF live /\ input = None THEN x ELSE input
  /\ UNCHANGED <<line, static, objs, pc, cur, count, hist>>

\* An answer is lost or garbled.
LoseAnswer(x) ==
  /\ owed' = owed \ {x}
  /\ UNCHANGED <<line, static, objs, input, pc, cur, count, hist>>

Access(t) ==
  \/ FindOpen(t) \/ FindClosed(t) \/ TakePort(t) \/ PortInUse(t) \/ Opened(t)
  \/ Ask(t) \/ Make(t) \/ SetRequest(t) \/ Execute(t) \/ Enter(t)
  \/ Send(t) \/ Receive(t) \/ Miss(t)
  \/ GetReading(t) \/ Store(t) \/ GetWritten(t)
  \/ Close(t) \/ ClosePort(t) \/ Unflag(t)

Devices == \E x \in owed : Answer(x) \/ LoseAnswer(x)

Next ==
  \/ \E t \in Threads : Begin(t) \/ Access(t)
  \/ Devices

Spec == Init /\ [][Next]_vars

\* A thread at the bus goes on: it sleeps, waits 500 ms for an answer or 30 s for
\* the port.  Periods, clients and devices owe nothing.
FairSpec == Spec /\ \A t \in Threads : WF_vars(Access(t))

-----------------------------------------------------------------------------
(* Properties *)

\* Each variable has its type (SerialSlave 23-28, SerialConnection 52-54).
LineOK ==
  /\ port \in Threads \cup {None}
  /\ m_Open \in BOOLEAN /\ live \in BOOLEAN
  /\ m_Transport \in Transports \cup {None}

StaticOK ==
  /\ trans \in Transactions \cup {None}
  /\ req \in Items \cup {None} /\ res \in Items \cup {None}

ObjectsOK ==
  /\ io \in [Transactions -> Transports \cup {None}]
  /\ request \in [Transactions -> Items \cup {None}]
  /\ response \in [Transactions -> Items \cup {None}]

WireOK == owed \in SUBSET Items /\ input \in Items \cup {None}

ThreadsOK ==
  /\ pc \in [Threads -> {"idle", "dead", "check", "open", "opening", "ask", "make", "set",
                         "execute", "enter", "send", "receive", "get", "use", "zero",
                         "close", "closing", "closed"}]
  /\ cur \in [Threads -> Transactions \cup {None}]
  /\ count \in [Threads -> Int]

HistoryOK ==
  /\ apart \in [Threads -> BOOLEAN] /\ clean \in [Threads -> BOOLEAN]
  /\ served \in [Threads -> BOOLEAN] /\ begun \in Nat

TypeOK == LineOK /\ StaticOK /\ ObjectsOK /\ WireOK /\ ThreadsOK /\ HistoryOK

\* A poller that had the bus to itself, and sent only when no device owed an
\* older answer, stores what its own device answered to this reading; it does
\* not take a 0 for a missing response and does not die of a foreign one.  The
\* exceptions are real: the statics of SerialSlave (23-28) mix up the readings
\* of threads that overlap, and readResponse (ModbusRTUTransport 110) takes a
\* late answer of any device for its own.
AloneReadsOwn ==
  \A t \in Pollers : apart[t] /\ clean[t] =>
    /\ pc[t] = "use" => res = Own(t)
    /\ pc[t] \notin {"zero", "dead"}

\* A writer that goes on to close the port because its write has succeeded
\* (SerialSlave 160-163) has been heard by its device, with the same exceptions.
AloneWritesReach ==
  \A t \in Writers : apart[t] /\ clean[t] =>
    (pc[t] \in {"close", "closing", "closed"} => served[t])

\* Once no new accesses are begun, all of them end, whatever the devices do: the
\* two locks, the wait for the port and the attempts (ModbusSerialTransaction
\* 151-216, SerialConnection 107) keep nobody for ever.
AccessesEnd == <>[](\A t \in Threads : pc[t] \in Resting)

=============================================================================
