-------------------------- MODULE SerialBusProofs --------------------------
(***************************************************************************)
(* Proofs about SerialBus, for any number of threads, retries and objects: *)
(* a thread that has the bus to itself, and sends only when no device owes *)
(* an older answer, stores its own device's answer and closes the port     *)
(* only behind a write its device has carried out.                         *)
(***************************************************************************)
EXTENDS SerialBus, TLAPS

USE SerialAssumption

-----------------------------------------------------------------------------
(* Types *)

LEMMA AgedType ==
  ASSUME NEW x \in Items \cup {None}, NEW t \in Threads
  PROVE  /\ Aged(x, t) \in Items \cup {None}
         /\ x \in Items => Aged(x, t) \in Items
BY DEF Aged, Items, Own

LEMMA OwnType == \A t \in Threads : Own(t) \in Items
BY DEF Own, Items

LEMMA NoneIsNothing == None \notin Items /\ None \notin Transactions /\ None \notin Transports
BY DEF Items, Transactions, Transports

\* What a thread refers to at each point is there.
Ready ==
  \A t \in Threads :
    /\ t \in Pollers /\ pc[t] \in {"make", "set"} => req # None
    /\ pc[t] \in {"set", "execute", "enter", "send", "receive", "get"} => trans # None
    /\ pc[t] \in {"enter", "send", "receive"} => cur[t] # None /\ request[cur[t]] # None

\* A group of variables that a step leaves alone keeps its type.
LEMMA Kept ==
  /\ LineOK /\ UNCHANGED line => LineOK'
  /\ StaticOK /\ UNCHANGED static => StaticOK'
  /\ ObjectsOK /\ UNCHANGED objs => ObjectsOK'
  /\ WireOK /\ UNCHANGED wire => WireOK'
  /\ HistoryOK /\ UNCHANGED hist => HistoryOK'
BY DEF LineOK, StaticOK, ObjectsOK, WireOK, HistoryOK, line, static, objs, wire, hist

LEMMA InitTyped == Init => TypeOK
<1> SUFFICES ASSUME Init PROVE TypeOK
  OBVIOUS
<1>1. LineOK BY DEF Init, LineOK
<1>2. StaticOK BY DEF Init, StaticOK
<1>3. ObjectsOK BY DEF Init, ObjectsOK
<1>4. WireOK BY DEF Init, WireOK
<1>5. ThreadsOK BY DEF Init, ThreadsOK
<1>6. HistoryOK BY DEF Init, HistoryOK
<1> QED BY <1>1, <1>2, <1>3, <1>4, <1>5, <1>6 DEF TypeOK

LEMMA BeginTyped ==
  ASSUME TypeOK, NEW t \in Threads, Begin(t)
  PROVE  TypeOK'
<1>1. StaticOK'
  BY AgedType DEF TypeOK, StaticOK, Begin
<1>2. ObjectsOK'
  BY AgedType DEF TypeOK, ObjectsOK, Begin
<1>3. WireOK'
  BY AgedType DEF TypeOK, WireOK, Begin
<1>4. ThreadsOK'
  BY DEF TypeOK, ThreadsOK, Begin, Goto
<1>5. HistoryOK'
  <2> DEFINE others == {u \in Threads \ {t} : pc[u] \notin Resting}
             now(u) == IF u = t THEN others = {} ELSE apart[u] /\ u \notin others
  <2>1. apart' = [u \in Threads |-> now(u)]
    BY DEF Begin
  <2>2. \A u \in Threads : now(u) \in BOOLEAN
    BY Zenon DEF TypeOK, HistoryOK
  <2>3. apart' \in [Threads -> BOOLEAN]
    BY ONLY <2>1, <2>2, Zenon
  <2>4. /\ clean' \in [Threads -> BOOLEAN] /\ served' \in [Threads -> BOOLEAN]
        /\ begun' \in Nat
    BY DEF TypeOK, HistoryOK, Begin
  <2> QED
    BY <2>3, <2>4 DEF HistoryOK
<1> QED
  BY <1>1, <1>2, <1>3, <1>4, <1>5, Kept DEF TypeOK, Begin

LEMMA AccessTyped ==
  ASSUME TypeOK, Ready, NEW t \in Threads, Access(t)
  PROVE  TypeOK'
<1>1. CASE FindOpen(t)
  <2>1. ThreadsOK'
    BY <1>1 DEF TypeOK, ThreadsOK, StaticOK, FindOpen, Looked, Goto
  <2> QED
    BY <1>1, <2>1, Kept DEF TypeOK, FindOpen, line, static, objs, wire, hist
<1>2. CASE FindClosed(t)
  <2>1. ThreadsOK'
    BY <1>2 DEF TypeOK, ThreadsOK, StaticOK, FindClosed, Goto
  <2> QED
    BY <1>2, <2>1, Kept DEF TypeOK, FindClosed, line, static, objs, wire, hist
<1>3. CASE TakePort(t)
  <2>1. ThreadsOK'
    BY <1>3 DEF TypeOK, ThreadsOK, StaticOK, TakePort, Goto
  <2>2. LineOK'
    BY <1>3, OwnType DEF TypeOK, LineOK, StaticOK, ObjectsOK, WireOK, ThreadsOK, HistoryOK, TakePort
  <2> QED
    BY <1>3, <2>1, <2>2, Kept DEF TypeOK, TakePort, line, static, objs, wire, hist
<1>4. CASE PortInUse(t)
  <2>1. ThreadsOK'
    BY <1>4 DEF TypeOK, ThreadsOK, StaticOK, PortInUse, Looked, Goto
  <2> QED
    BY <1>4, <2>1, Kept DEF TypeOK, PortInUse, line, static, objs, wire, hist
<1>5. CASE Opened(t)
  <2>1. ThreadsOK'
    BY <1>5 DEF TypeOK, ThreadsOK, StaticOK, Opened, Looked, Goto
  <2>2. LineOK'
    BY <1>5, OwnType DEF TypeOK, LineOK, StaticOK, ObjectsOK, WireOK, ThreadsOK, HistoryOK, Opened
  <2> QED
    BY <1>5, <2>1, <2>2, Kept DEF TypeOK, Opened, line, static, objs, wire, hist
<1>6. CASE Ask(t)
  <2>1. ThreadsOK'
    BY <1>6 DEF TypeOK, ThreadsOK, StaticOK, Ask, Goto
  <2>2. StaticOK'
    BY <1>6, OwnType DEF TypeOK, LineOK, StaticOK, ObjectsOK, WireOK, ThreadsOK, HistoryOK, Ask
  <2> QED
    BY <1>6, <2>1, <2>2, Kept DEF TypeOK, Ask, line, static, objs, wire, hist
<1>7. CASE Make(t)
  <2>1. ThreadsOK'
    BY <1>7 DEF TypeOK, ThreadsOK, StaticOK, Make, Goto
  <2>2. StaticOK'
    BY <1>7, OwnType DEF TypeOK, LineOK, StaticOK, ObjectsOK, WireOK, ThreadsOK, HistoryOK, Make
  <2>3. ObjectsOK'
    BY <1>7, OwnType DEF TypeOK, LineOK, StaticOK, ObjectsOK, WireOK, ThreadsOK, HistoryOK, Make
  <2> QED
    BY <1>7, <2>1, <2>2, <2>3, Kept DEF TypeOK, Make, line, static, objs, wire, hist
<1>8. CASE SetRequest(t)
  <2>1. ThreadsOK'
    BY <1>8 DEF TypeOK, ThreadsOK, StaticOK, SetRequest, Goto
  <2>2. ObjectsOK'
    BY <1>8, OwnType DEF TypeOK, LineOK, StaticOK, ObjectsOK, WireOK, ThreadsOK, HistoryOK, SetRequest
  <2> QED
    BY <1>8, <2>1, <2>2, Kept DEF TypeOK, SetRequest, line, static, objs, wire, hist
<1>9. CASE Execute(t)
  <2>1. ThreadsOK'
    BY <1>9 DEF TypeOK, ThreadsOK, StaticOK, Execute, Goto
  <2> QED
    BY <1>9, <2>1, Kept DEF TypeOK, Execute, line, static, objs, wire, hist
<1>10. CASE Enter(t)
  <2>1. ThreadsOK'
    BY <1>10 DEF TypeOK, ThreadsOK, StaticOK, Enter, Goto
  <2> QED
    BY <1>10, <2>1, Kept DEF TypeOK, Enter, line, static, objs, wire, hist
<1>11. CASE Send(t)
  <2>1. ThreadsOK'
    BY <1>11 DEF TypeOK, ThreadsOK, Send, Failed, Goto
  <2>2. CASE Usable(t)
    <3> DEFINE x == request[cur[t]]
    <3>1. x \in Items
      BY <1>11, NoneIsNothing DEF Send, Ready, TypeOK, ObjectsOK, ThreadsOK
    <3>2. WireOK'
      BY <1>11, <2>2, <3>1 DEF Send, TypeOK, WireOK
    <3>3. /\ served' \in [Threads -> BOOLEAN]
          /\ apart' = apart /\ begun' = begun
      <4>1. x.of \in Threads /\ x.now \in BOOLEAN
        BY <3>1 DEF Items
      <4>2. served' = [served EXCEPT ![x.of] = @ \/ x.now] \/ served' = served
        BY <1>11, <2>2 DEF Send
      <4>3. served \in [Threads -> BOOLEAN] /\ apart' = apart /\ begun' = begun
        BY <1>11 DEF Send, TypeOK, HistoryOK
      <4> QED
        BY ONLY <4>1, <4>2, <4>3, Zenon
    <3>4. clean' \in [Threads -> BOOLEAN]
      <4>1. clean' = [clean EXCEPT ![t] = @ /\ owed \subseteq {Own(t)}]
        BY <1>11, <2>2 DEF Send
      <4>2. clean \in [Threads -> BOOLEAN]
        BY DEF TypeOK, HistoryOK
      <4> QED
        BY ONLY <4>1, <4>2, Zenon
    <3> QED
      BY <1>11, <2>1, <3>2, <3>3, <3>4, Kept DEF TypeOK, HistoryOK, Send
  <2>3. CASE ~Usable(t)
    BY <1>11, <2>1, <2>3, Kept DEF TypeOK, Send, wire, hist
  <2> QED
    BY <2>2, <2>3
<1>12. CASE Receive(t)
  <2>1. ThreadsOK'
    BY <1>12 DEF TypeOK, ThreadsOK, StaticOK, Receive, Goto
  <2>2. ObjectsOK'
    BY <1>12, OwnType DEF TypeOK, LineOK, StaticOK, ObjectsOK, WireOK, ThreadsOK, HistoryOK, Receive
  <2>3. WireOK'
    BY <1>12, OwnType DEF TypeOK, LineOK, StaticOK, ObjectsOK, WireOK, ThreadsOK, HistoryOK, Receive
  <2> QED
    BY <1>12, <2>1, <2>2, <2>3, Kept DEF TypeOK, Receive, line, static, objs, wire, hist
<1>13. CASE Miss(t)
  <2>1. ThreadsOK'
    BY <1>13 DEF TypeOK, ThreadsOK, StaticOK, Miss, Failed, Goto
  <2> QED
    BY <1>13, <2>1, Kept DEF TypeOK, Miss, line, static, objs, wire, hist
<1>14. CASE GetReading(t)
  <2>1. ThreadsOK'
    BY <1>14 DEF TypeOK, ThreadsOK, StaticOK, GetReading, Goto
  <2>2. StaticOK'
    BY <1>14, OwnType, NoneIsNothing DEF Ready, TypeOK, LineOK, StaticOK, ObjectsOK, WireOK, ThreadsOK, HistoryOK, GetReading
  <2> QED
    BY <1>14, <2>1, <2>2, Kept DEF TypeOK, GetReading, line, static, objs, wire, hist
<1>15. CASE Store(t)
  <2>1. ThreadsOK'
    BY <1>15 DEF TypeOK, ThreadsOK, StaticOK, Store, Goto
  <2> QED
    BY <1>15, <2>1, Kept DEF TypeOK, Store, line, static, objs, wire, hist
<1>16. CASE GetWritten(t)
  <2>1. ThreadsOK'
    BY <1>16 DEF TypeOK, ThreadsOK, StaticOK, GetWritten, Goto
  <2> QED
    BY <1>16, <2>1, Kept DEF TypeOK, GetWritten, line, static, objs, wire, hist
<1>17. CASE Close(t)
  <2>1. ThreadsOK'
    BY <1>17 DEF TypeOK, ThreadsOK, StaticOK, Close, Goto
  <2> QED
    BY <1>17, <2>1, Kept DEF TypeOK, Close, line, static, objs, wire, hist
<1>18. CASE ClosePort(t)
  <2>1. ThreadsOK'
    BY <1>18 DEF TypeOK, ThreadsOK, StaticOK, ClosePort, Goto
  <2>2. LineOK'
    BY <1>18, OwnType DEF TypeOK, LineOK, StaticOK, ObjectsOK, WireOK, ThreadsOK, HistoryOK, ClosePort
  <2>3. WireOK'
    BY <1>18, OwnType DEF TypeOK, LineOK, StaticOK, ObjectsOK, WireOK, ThreadsOK, HistoryOK, ClosePort
  <2> QED
    BY <1>18, <2>1, <2>2, <2>3, Kept DEF TypeOK, ClosePort, line, static, objs, wire, hist
<1>19. CASE Unflag(t)
  <2>1. ThreadsOK'
    BY <1>19 DEF TypeOK, ThreadsOK, StaticOK, Unflag, Goto
  <2>2. LineOK'
    BY <1>19, OwnType DEF TypeOK, LineOK, StaticOK, ObjectsOK, WireOK, ThreadsOK, HistoryOK, Unflag
  <2> QED
    BY <1>19, <2>1, <2>2, Kept DEF TypeOK, Unflag, line, static, objs, wire, hist
<1> QED
  BY <1>1, <1>2, <1>3, <1>4, <1>5, <1>6, <1>7, <1>8, <1>9, <1>10, <1>11, <1>12, <1>13, <1>14, <1>15, <1>16, <1>17, <1>18, <1>19 DEF Access

-----------------------------------------------------------------------------
(* The inductive invariant *)

\* A device has carried out what it owes or has sent an answer to.
Sent(t) == Own(t) \in owed \/ input = Own(t) => served[t]

\* While a thread has the bus to itself the statics are its own, ...
Holds(t) ==
  apart[t] =>
    /\ pc[t] \notin Resting => \A u \in Threads \ {t} : pc[u] \in Resting
    /\ t \in Pollers /\ pc[t] \in {"make", "set"} => req = Own(t)
    /\ pc[t] = "execute" => request[trans] = Own(t)
    /\ pc[t] \in {"enter", "send", "receive"} => cur[t] = trans /\ request[trans] = Own(t)

\* ... and when it has sent with nothing else owed, so are the answers.
Gets(t) ==
  apart[t] /\ clean[t] =>
    /\ pc[t] = "receive" => owed \subseteq {Own(t)} /\ input \in {None, Own(t)}
    /\ pc[t] = "get" => response[trans] = Own(t) /\ served[t]
    /\ pc[t] = "use" => res = Own(t)
    /\ pc[t] \notin {"zero", "dead"}
    /\ pc[t] \in {"close", "closing", "closed"} => served[t]

BusInv ==
  /\ TypeOK /\ Ready
  /\ \A t \in Threads : Sent(t) /\ Holds(t) /\ Gets(t)

LEMMA InitBus == Init => BusInv
<1> SUFFICES ASSUME Init PROVE BusInv
  OBVIOUS
<1>1. TypeOK
  BY InitTyped
<1>2. Ready
  BY DEF Init, Ready
<1>3. ASSUME NEW t \in Threads PROVE Sent(t) /\ Holds(t) /\ Gets(t)
  BY OwnType, NoneIsNothing DEF Init, Sent, Holds, Gets, Resting
<1> QED
  BY <1>1, <1>2, <1>3 DEF BusInv

\* What a thread's step leaves alone.
LEMMA Others ==
  ASSUME TypeOK, NEW t \in Threads, Access(t)
  PROVE  /\ pc[t] \notin Resting /\ apart' = apart
         /\ \A u \in Threads \ {t} : pc'[u] = pc[u] /\ clean'[u] = clean[u]
<1>1. CASE FindOpen(t)
  BY <1>1 DEF FindOpen, Looked, Goto, TypeOK, ThreadsOK, HistoryOK, Resting, hist
<1>2. CASE FindClosed(t)
  BY <1>2 DEF FindClosed, Goto, TypeOK, ThreadsOK, HistoryOK, Resting, hist
<1>3. CASE TakePort(t)
  BY <1>3 DEF TakePort, Goto, TypeOK, ThreadsOK, HistoryOK, Resting, hist
<1>4. CASE PortInUse(t)
  BY <1>4 DEF PortInUse, Looked, Goto, TypeOK, ThreadsOK, HistoryOK, Resting, hist
<1>5. CASE Opened(t)
  BY <1>5 DEF Opened, Looked, Goto, TypeOK, ThreadsOK, HistoryOK, Resting, hist
<1>6. CASE Ask(t)
  BY <1>6 DEF Ask, Goto, TypeOK, ThreadsOK, HistoryOK, Resting, hist
<1>7. CASE Make(t)
  BY <1>7 DEF Make, Goto, TypeOK, ThreadsOK, HistoryOK, Resting, hist
<1>8. CASE SetRequest(t)
  BY <1>8 DEF SetRequest, Goto, TypeOK, ThreadsOK, HistoryOK, Resting, hist
<1>9. CASE Execute(t)
  BY <1>9 DEF Execute, Goto, TypeOK, ThreadsOK, HistoryOK, Resting, hist
<1>10. CASE Enter(t)
  BY <1>10 DEF Enter, Goto, TypeOK, ThreadsOK, HistoryOK, Resting, hist
<1>11. CASE Send(t)
  BY <1>11 DEF Send, Failed, Goto, TypeOK, ThreadsOK, HistoryOK, Resting, hist
<1>12. CASE Receive(t)
  BY <1>12 DEF Receive, Goto, TypeOK, ThreadsOK, HistoryOK, Resting, hist
<1>13. CASE Miss(t)
  BY <1>13 DEF Miss, Failed, Goto, TypeOK, ThreadsOK, HistoryOK, Resting, hist
<1>14. CASE GetReading(t)
  BY <1>14 DEF GetReading, Goto, TypeOK, ThreadsOK, HistoryOK, Resting, hist
<1>15. CASE Store(t)
  BY <1>15 DEF Store, Goto, TypeOK, ThreadsOK, HistoryOK, Resting, hist
<1>16. CASE GetWritten(t)
  BY <1>16 DEF GetWritten, Goto, TypeOK, ThreadsOK, HistoryOK, Resting, hist
<1>17. CASE Close(t)
  BY <1>17 DEF Close, Goto, TypeOK, ThreadsOK, HistoryOK, Resting, hist
<1>18. CASE ClosePort(t)
  BY <1>18 DEF ClosePort, Goto, TypeOK, ThreadsOK, HistoryOK, Resting, hist
<1>19. CASE Unflag(t)
  BY <1>19 DEF Unflag, Goto, TypeOK, ThreadsOK, HistoryOK, Resting, hist
<1> QED
  BY <1>1, <1>2, <1>3, <1>4, <1>5, <1>6, <1>7, <1>8, <1>9, <1>10, <1>11, <1>12, <1>13, <1>14, <1>15, <1>16, <1>17, <1>18, <1>19 DEF Access

LEMMA AccessReady ==
  ASSUME TypeOK, Ready, NEW t \in Threads, Access(t)
  PROVE  Ready'
<1>1. CASE FindOpen(t)
  BY <1>1, OwnType, NoneIsNothing DEF FindOpen, Looked, Goto, Ready, TypeOK, ThreadsOK, ObjectsOK, StaticOK, static, objs
<1>2. CASE FindClosed(t)
  BY <1>2, OwnType, NoneIsNothing DEF FindClosed, Goto, Ready, TypeOK, ThreadsOK, ObjectsOK, StaticOK, static, objs
<1>3. CASE TakePort(t)
  BY <1>3, OwnType, NoneIsNothing DEF TakePort, Goto, Ready, TypeOK, ThreadsOK, ObjectsOK, StaticOK, static, objs
<1>4. CASE PortInUse(t)
  BY <1>4, OwnType, NoneIsNothing DEF PortInUse, Looked, Goto, Ready, TypeOK, ThreadsOK, ObjectsOK, StaticOK, static, objs
<1>5. CASE Opened(t)
  BY <1>5, OwnType, NoneIsNothing DEF Opened, Looked, Goto, Ready, TypeOK, ThreadsOK, ObjectsOK, StaticOK, static, objs
<1>6. CASE Ask(t)
  BY <1>6, OwnType, NoneIsNothing DEF Ask, Goto, Ready, TypeOK, ThreadsOK, ObjectsOK, StaticOK, static, objs
<1>7. CASE Make(t)
  <2>1. PICK x \in Transactions :
          /\ Garbage(x) /\ trans' = x
          /\ request' = [y \in Transactions |-> IF Garbage(y) THEN None ELSE request[y]]
    BY <1>7 DEF Make
  <2>2. x # None
    BY NoneIsNothing
  <2>3. ASSUME NEW u \in Threads, pc'[u] \in {"enter", "send", "receive"}
        PROVE  cur'[u] # None /\ request'[cur'[u]] # None
    <3>1. pc[u] = pc'[u] /\ cur' = cur
      BY <1>7, <2>3 DEF Make, Goto, TypeOK, ThreadsOK
    <3>2. cur[u] \in Transactions /\ request[cur[u]] # None
      BY <2>3, <3>1 DEF Ready, TypeOK, ThreadsOK
    <3>3. ~Garbage(cur[u])
      BY DEF Garbage
    <3> QED
      BY <2>1, <3>1, <3>2, <3>3, NoneIsNothing
  <2>4. ASSUME NEW u \in Pollers, pc'[u] \in {"make", "set"} PROVE req' # None
    BY <1>7, <2>4 DEF Make, Goto, Ready, TypeOK, ThreadsOK, Threads
  <2> QED
    BY <2>1, <2>2, <2>3, <2>4 DEF Ready
<1>8. CASE SetRequest(t)
  BY <1>8, OwnType, NoneIsNothing DEF SetRequest, Goto, Ready, TypeOK, ThreadsOK, ObjectsOK, StaticOK, static, objs
<1>9. CASE Execute(t)
  BY <1>9, OwnType, NoneIsNothing DEF Execute, Goto, Ready, TypeOK, ThreadsOK, ObjectsOK, StaticOK, static, objs
<1>10. CASE Enter(t)
  BY <1>10, OwnType, NoneIsNothing DEF Enter, Goto, Ready, TypeOK, ThreadsOK, ObjectsOK, StaticOK, static, objs
<1>11. CASE Send(t)
  BY <1>11, OwnType, NoneIsNothing DEF Send, Failed, Goto, Ready, TypeOK, ThreadsOK, ObjectsOK, StaticOK, static, objs
<1>12. CASE Receive(t)
  BY <1>12, OwnType, NoneIsNothing DEF Receive, Goto, Ready, TypeOK, ThreadsOK, ObjectsOK, StaticOK, static, objs
<1>13. CASE Miss(t)
  BY <1>13, OwnType, NoneIsNothing DEF Miss, Failed, Goto, Ready, TypeOK, ThreadsOK, ObjectsOK, StaticOK, static, objs
<1>14. CASE GetReading(t)
  BY <1>14, OwnType, NoneIsNothing DEF GetReading, Goto, Ready, TypeOK, ThreadsOK, ObjectsOK, StaticOK, static, objs
<1>15. CASE Store(t)
  BY <1>15, OwnType, NoneIsNothing DEF Store, Goto, Ready, TypeOK, ThreadsOK, ObjectsOK, StaticOK, static, objs
<1>16. CASE GetWritten(t)
  BY <1>16, OwnType, NoneIsNothing DEF GetWritten, Goto, Ready, TypeOK, ThreadsOK, ObjectsOK, StaticOK, static, objs
<1>17. CASE Close(t)
  BY <1>17, OwnType, NoneIsNothing DEF Close, Goto, Ready, TypeOK, ThreadsOK, ObjectsOK, StaticOK, static, objs
<1>18. CASE ClosePort(t)
  BY <1>18, OwnType, NoneIsNothing DEF ClosePort, Goto, Ready, TypeOK, ThreadsOK, ObjectsOK, StaticOK, static, objs
<1>19. CASE Unflag(t)
  BY <1>19, OwnType, NoneIsNothing DEF Unflag, Goto, Ready, TypeOK, ThreadsOK, ObjectsOK, StaticOK, static, objs
<1> QED
  BY <1>1, <1>2, <1>3, <1>4, <1>5, <1>6, <1>7, <1>8, <1>9, <1>10, <1>11, <1>12, <1>13, <1>14, <1>15, <1>16, <1>17, <1>18, <1>19 DEF Access

LEMMA AccessSent ==
  ASSUME TypeOK, Ready, NEW t \in Threads, Access(t), NEW u \in Threads, Sent(u)
  PROVE  Sent(u)'
<1>1. CASE FindOpen(t)
  BY <1>1, OwnType, NoneIsNothing DEF FindOpen, Looked, Goto, Sent, TypeOK, WireOK, HistoryOK, wire, hist
<1>2. CASE FindClosed(t)
  BY <1>2, OwnType, NoneIsNothing DEF FindClosed, Goto, Sent, TypeOK, WireOK, HistoryOK, wire, hist
<1>3. CASE TakePort(t)
  BY <1>3, OwnType, NoneIsNothing DEF TakePort, Goto, Sent, TypeOK, WireOK, HistoryOK, wire, hist
<1>4. CASE PortInUse(t)
  BY <1>4, OwnType, NoneIsNothing DEF PortInUse, Looked, Goto, Sent, TypeOK, WireOK, HistoryOK, wire, hist
<1>5. CASE Opened(t)
  BY <1>5, OwnType, NoneIsNothing DEF Opened, Looked, Goto, Sent, TypeOK, WireOK, HistoryOK, wire, hist
<1>6. CASE Ask(t)
  BY <1>6, OwnType, NoneIsNothing DEF Ask, Goto, Sent, TypeOK, WireOK, HistoryOK, wire, hist
<1>7. CASE Make(t)
  BY <1>7, OwnType, NoneIsNothing DEF Make, Goto, Sent, TypeOK, WireOK, HistoryOK, wire, hist
<1>8. CASE SetRequest(t)
  BY <1>8, OwnType, NoneIsNothing DEF SetRequest, Goto, Sent, TypeOK, WireOK, HistoryOK, wire, hist
<1>9. CASE Execute(t)
  BY <1>9, OwnType, NoneIsNothing DEF Execute, Goto, Sent, TypeOK, WireOK, HistoryOK, wire, hist
<1>10. CASE Enter(t)
  BY <1>10, OwnType, NoneIsNothing DEF Enter, Goto, Sent, TypeOK, WireOK, HistoryOK, wire, hist
<1>11. CASE Send(t)
  <2>1. CASE Usable(t)
    <3> DEFINE x == request[cur[t]]
    <3>1. x \in Items
      BY <1>11, NoneIsNothing DEF Send, Ready, TypeOK, ObjectsOK, ThreadsOK
    <3>2. /\ input' = None
          /\ \/ owed' = owed \cup {x} /\ served' = [served EXCEPT ![x.of] = @ \/ x.now]
             \/ owed' = owed /\ served' = served
      BY <1>11, <2>1 DEF Send
    <3>3. served[u] => served'[u]
      BY <3>1, <3>2, Zenon DEF Items, TypeOK, HistoryOK
    <3>4. CASE x = Own(u) /\ served' = [served EXCEPT ![x.of] = @ \/ x.now]
      <4>1. x.of = u /\ x.now = TRUE
        BY <3>4 DEF Own
      <4>2. served \in [Threads -> BOOLEAN]
        BY DEF TypeOK, HistoryOK
      <4>3. served'[u]
        BY ONLY <3>4, <4>1, <4>2, u \in Threads
      <4> QED
        BY <4>3 DEF Sent
    <3> QED
      BY <3>2, <3>3, <3>4, OwnType, NoneIsNothing DEF Sent
  <2>2. CASE ~Usable(t)
    BY <1>11, <2>2 DEF Send, Sent, wire
  <2> QED
    BY <2>1, <2>2
<1>12. CASE Receive(t)
  BY <1>12, OwnType, NoneIsNothing DEF Receive, Goto, Sent, TypeOK, WireOK, HistoryOK, wire, hist
<1>13. CASE Miss(t)
  BY <1>13, OwnType, NoneIsNothing DEF Miss, Failed, Goto, Sent, TypeOK, WireOK, HistoryOK, wire, hist
<1>14. CASE GetReading(t)
  BY <1>14, OwnType, NoneIsNothing DEF GetReading, Goto, Sent, TypeOK, WireOK, HistoryOK, wire, hist
<1>15. CASE Store(t)
  BY <1>15, OwnType, NoneIsNothing DEF Store, Goto, Sent, TypeOK, WireOK, HistoryOK, wire, hist
<1>16. CASE GetWritten(t)
  BY <1>16, OwnType, NoneIsNothing DEF GetWritten, Goto, Sent, TypeOK, WireOK, HistoryOK, wire, hist
<1>17. CASE Close(t)
  BY <1>17, OwnType, NoneIsNothing DEF Close, Goto, Sent, TypeOK, WireOK, HistoryOK, wire, hist
<1>18. CASE ClosePort(t)
  BY <1>18, OwnType, NoneIsNothing DEF ClosePort, Goto, Sent, TypeOK, WireOK, HistoryOK, wire, hist
<1>19. CASE Unflag(t)
  BY <1>19, OwnType, NoneIsNothing DEF Unflag, Goto, Sent, TypeOK, WireOK, HistoryOK, wire, hist
<1> QED
  BY <1>1, <1>2, <1>3, <1>4, <1>5, <1>6, <1>7, <1>8, <1>9, <1>10, <1>11, <1>12, <1>13, <1>14, <1>15, <1>16, <1>17, <1>18, <1>19 DEF Access

LEMMA AccessHolds ==
  ASSUME TypeOK, Ready, NEW t \in Threads, Access(t), Holds(t)
  PROVE  Holds(t)'
<1> DEFINE alone == pc[t] \notin Resting => \A u \in Threads \ {t} : pc[u] \in Resting
<1>0. apart'[t] = apart[t] /\ (apart[t] => alone')
  BY Others DEF Holds, Resting
<1>1. CASE FindOpen(t)
  BY <1>0, <1>1, OwnType, NoneIsNothing DEF FindOpen, Looked, Goto, Holds, Ready, TypeOK, ThreadsOK, ObjectsOK, StaticOK, static, objs
<1>2. CASE FindClosed(t)
  BY <1>0, <1>2, OwnType, NoneIsNothing DEF FindClosed, Goto, Holds, Ready, TypeOK, ThreadsOK, ObjectsOK, StaticOK, static, objs
<1>3. CASE TakePort(t)
  BY <1>0, <1>3, OwnType, NoneIsNothing DEF TakePort, Goto, Holds, Ready, TypeOK, ThreadsOK, ObjectsOK, StaticOK, static, objs
<1>4. CASE PortInUse(t)
  BY <1>0, <1>4, OwnType, NoneIsNothing DEF PortInUse, Looked, Goto, Holds, Ready, TypeOK, ThreadsOK, ObjectsOK, StaticOK, static, objs
<1>5. CASE Opened(t)
  BY <1>0, <1>5, OwnType, NoneIsNothing DEF Opened, Looked, Goto, Holds, Ready, TypeOK, ThreadsOK, ObjectsOK, StaticOK, static, objs
<1>6. CASE Ask(t)
  BY <1>0, <1>6, OwnType, NoneIsNothing DEF Ask, Goto, Holds, Ready, TypeOK, ThreadsOK, ObjectsOK, StaticOK, static, objs
<1>7. CASE Make(t)
  BY <1>0, <1>7, OwnType, NoneIsNothing DEF Make, Goto, Holds, Ready, TypeOK, ThreadsOK, ObjectsOK, StaticOK, static, objs
<1>8. CASE SetRequest(t)
  BY <1>0, <1>8, OwnType, NoneIsNothing DEF SetRequest, Goto, Holds, Ready, TypeOK, ThreadsOK, ObjectsOK, StaticOK, static, objs
<1>9. CASE Execute(t)
  BY <1>0, <1>9, OwnType, NoneIsNothing DEF Execute, Goto, Holds, Ready, TypeOK, ThreadsOK, ObjectsOK, StaticOK, static, objs
<1>10. CASE Enter(t)
  BY <1>0, <1>10, OwnType, NoneIsNothing DEF Enter, Goto, Holds, Ready, TypeOK, ThreadsOK, ObjectsOK, StaticOK, static, objs
<1>11. CASE Send(t)
  BY <1>0, <1>11, OwnType, NoneIsNothing DEF Send, Failed, Goto, Holds, Ready, TypeOK, ThreadsOK, ObjectsOK, StaticOK, static, objs
<1>12. CASE Receive(t)
  BY <1>0, <1>12, OwnType, NoneIsNothing DEF Receive, Goto, Holds, Ready, TypeOK, ThreadsOK, ObjectsOK, StaticOK, static, objs
<1>13. CASE Miss(t)
  BY <1>0, <1>13, OwnType, NoneIsNothing DEF Miss, Failed, Goto, Holds, Ready, TypeOK, ThreadsOK, ObjectsOK, StaticOK, static, objs
<1>14. CASE GetReading(t)
  BY <1>0, <1>14, OwnType, NoneIsNothing DEF GetReading, Goto, Holds, Ready, TypeOK, ThreadsOK, ObjectsOK, StaticOK, static, objs
<1>15. CASE Store(t)
  BY <1>0, <1>15, OwnType, NoneIsNothing DEF Store, Goto, Holds, Ready, TypeOK, ThreadsOK, ObjectsOK, StaticOK, static, objs
<1>16. CASE GetWritten(t)
  BY <1>0, <1>16, OwnType, NoneIsNothing DEF GetWritten, Goto, Holds, Ready, TypeOK, ThreadsOK, ObjectsOK, StaticOK, static, objs
<1>17. CASE Close(t)
  BY <1>0, <1>17, OwnType, NoneIsNothing DEF Close, Goto, Holds, Ready, TypeOK, ThreadsOK, ObjectsOK, StaticOK, static, objs
<1>18. CASE ClosePort(t)
  BY <1>0, <1>18, OwnType, NoneIsNothing DEF ClosePort, Goto, Holds, Ready, TypeOK, ThreadsOK, ObjectsOK, StaticOK, static, objs
<1>19. CASE Unflag(t)
  BY <1>0, <1>19, OwnType, NoneIsNothing DEF Unflag, Goto, Holds, Ready, TypeOK, ThreadsOK, ObjectsOK, StaticOK, static, objs
<1> QED
  BY <1>1, <1>2, <1>3, <1>4, <1>5, <1>6, <1>7, <1>8, <1>9, <1>10, <1>11, <1>12, <1>13, <1>14, <1>15, <1>16, <1>17, <1>18, <1>19 DEF Access

LEMMA AccessGets ==
  ASSUME TypeOK, Ready, NEW t \in Threads, Access(t), Sent(t), Holds(t), Gets(t)
  PROVE  Gets(t)'
<1>0. apart'[t] = apart[t]
  BY Others
<1>1. CASE FindOpen(t)
  BY <1>0, <1>1, OwnType, NoneIsNothing DEF FindOpen, Looked, Goto, Gets, Holds, Sent, Ready, TypeOK, ThreadsOK, ObjectsOK, StaticOK, WireOK, HistoryOK, static, objs, wire, hist
<1>2. CASE FindClosed(t)
  BY <1>0, <1>2, OwnType, NoneIsNothing DEF FindClosed, Goto, Gets, Holds, Sent, Ready, TypeOK, ThreadsOK, ObjectsOK, StaticOK, WireOK, HistoryOK, static, objs, wire, hist
<1>3. CASE TakePort(t)
  BY <1>0, <1>3, OwnType, NoneIsNothing DEF TakePort, Goto, Gets, Holds, Sent, Ready, TypeOK, ThreadsOK, ObjectsOK, StaticOK, WireOK, HistoryOK, static, objs, wire, hist
<1>4. CASE PortInUse(t)
  BY <1>0, <1>4, OwnType, NoneIsNothing DEF PortInUse, Looked, Goto, Gets, Holds, Sent, Ready, TypeOK, ThreadsOK, ObjectsOK, StaticOK, WireOK, HistoryOK, static, objs, wire, hist
<1>5. CASE Opened(t)
  BY <1>0, <1>5, OwnType, NoneIsNothing DEF Opened, Looked, Goto, Gets, Holds, Sent, Ready, TypeOK, ThreadsOK, ObjectsOK, StaticOK, WireOK, HistoryOK, static, objs, wire, hist
<1>6. CASE Ask(t)
  BY <1>0, <1>6, OwnType, NoneIsNothing DEF Ask, Goto, Gets, Holds, Sent, Ready, TypeOK, ThreadsOK, ObjectsOK, StaticOK, WireOK, HistoryOK, static, objs, wire, hist
<1>7. CASE Make(t)
  BY <1>0, <1>7, OwnType, NoneIsNothing DEF Make, Goto, Gets, Holds, Sent, Ready, TypeOK, ThreadsOK, ObjectsOK, StaticOK, WireOK, HistoryOK, static, objs, wire, hist
<1>8. CASE SetRequest(t)
  BY <1>0, <1>8, OwnType, NoneIsNothing DEF SetRequest, Goto, Gets, Holds, Sent, Ready, TypeOK, ThreadsOK, ObjectsOK, StaticOK, WireOK, HistoryOK, static, objs, wire, hist
<1>9. CASE Execute(t)
  BY <1>0, <1>9, OwnType, NoneIsNothing DEF Execute, Goto, Gets, Holds, Sent, Ready, TypeOK, ThreadsOK, ObjectsOK, StaticOK, WireOK, HistoryOK, static, objs, wire, hist
<1>10. CASE Enter(t)
  BY <1>0, <1>10, OwnType, NoneIsNothing DEF Enter, Goto, Gets, Holds, Sent, Ready, TypeOK, ThreadsOK, ObjectsOK, StaticOK, WireOK, HistoryOK, static, objs, wire, hist
<1>11. CASE Send(t)
  <2> SUFFICES ASSUME apart'[t], clean'[t], Usable(t)
               PROVE  owed' \subseteq {Own(t)} /\ input' \in {None, Own(t)} /\ pc'[t] = "receive"
    BY <1>0, <1>11 DEF Send, Failed, Goto, Gets, TypeOK, ThreadsOK
  <2>1. request[cur[t]] = Own(t)
    BY <1>0, <1>11 DEF Send, Holds
  <2>2. clean'[t] = (clean[t] /\ owed \subseteq {Own(t)})
    BY <1>11 DEF Send, TypeOK, HistoryOK
  <2> QED
    BY <1>11, <2>1, <2>2 DEF Send, Goto, TypeOK, ThreadsOK
<1>12. CASE Receive(t)
  BY <1>0, <1>12, OwnType, NoneIsNothing DEF Receive, Goto, Gets, Holds, Sent, Ready, TypeOK, ThreadsOK, ObjectsOK, StaticOK, WireOK, HistoryOK, static, objs, wire, hist
<1>13. CASE Miss(t)
  BY <1>0, <1>13, OwnType, NoneIsNothing DEF Miss, Failed, Goto, Gets, Holds, Sent, Ready, TypeOK, ThreadsOK, ObjectsOK, StaticOK, WireOK, HistoryOK, static, objs, wire, hist
<1>14. CASE GetReading(t)
  <2> SUFFICES ASSUME apart'[t], clean'[t]
               PROVE  res' = Own(t) /\ pc'[t] = "use"
    BY <1>0, <1>14 DEF Gets
  <2>1. apart[t] /\ clean[t] /\ pc[t] = "get" /\ t \in Pollers
    BY <1>0, <1>14 DEF GetReading, hist
  <2>2. response[trans] = Own(t) /\ Own(t) # None
    BY <2>1, OwnType, NoneIsNothing DEF Gets
  <2>3. Own(t).of \notin Writers
    BY <2>1 DEF Own
  <2> QED
    BY <1>14, <2>2, <2>3 DEF GetReading, Goto, TypeOK, ThreadsOK
<1>15. CASE Store(t)
  BY <1>0, <1>15, OwnType, NoneIsNothing DEF Store, Goto, Gets, Holds, Sent, Ready, TypeOK, ThreadsOK, ObjectsOK, StaticOK, WireOK, HistoryOK, static, objs, wire, hist
<1>16. CASE GetWritten(t)
  BY <1>0, <1>16, OwnType, NoneIsNothing DEF GetWritten, Goto, Gets, Holds, Sent, Ready, TypeOK, ThreadsOK, ObjectsOK, StaticOK, WireOK, HistoryOK, static, objs, wire, hist
<1>17. CASE Close(t)
  BY <1>0, <1>17, OwnType, NoneIsNothing DEF Close, Goto, Gets, Holds, Sent, Ready, TypeOK, ThreadsOK, ObjectsOK, StaticOK, WireOK, HistoryOK, static, objs, wire, hist
<1>18. CASE ClosePort(t)
  BY <1>0, <1>18, OwnType, NoneIsNothing DEF ClosePort, Goto, Gets, Holds, Sent, Ready, TypeOK, ThreadsOK, ObjectsOK, StaticOK, WireOK, HistoryOK, static, objs, wire, hist
<1>19. CASE Unflag(t)
  BY <1>0, <1>19, OwnType, NoneIsNothing DEF Unflag, Goto, Gets, Holds, Sent, Ready, TypeOK, ThreadsOK, ObjectsOK, StaticOK, WireOK, HistoryOK, static, objs, wire, hist
<1> QED
  BY <1>1, <1>2, <1>3, <1>4, <1>5, <1>6, <1>7, <1>8, <1>9, <1>10, <1>11, <1>12, <1>13, <1>14, <1>15, <1>16, <1>17, <1>18, <1>19 DEF Access

\* An access never disturbs a thread that is not alone at the bus or rests.
LEMMA AccessBus ==
  ASSUME BusInv, NEW t \in Threads, Access(t)
  PROVE  BusInv'
<1>1. TypeOK' /\ Ready'
  BY AccessTyped, AccessReady DEF BusInv
<1>2. ASSUME NEW u \in Threads PROVE Sent(u)'
  BY AccessSent DEF BusInv
<1>3. Holds(t)' /\ Gets(t)'
  BY AccessHolds, AccessGets DEF BusInv
<1>4. ASSUME NEW u \in Threads \ {t} PROVE Holds(u)' /\ Gets(u)'
  <2>1. /\ pc[t] \notin Resting /\ apart' = apart
        /\ pc'[u] = pc[u] /\ clean'[u] = clean[u]
    BY Others DEF BusInv
  <2>2. apart[u] => pc[u] \in Resting
    BY <2>1 DEF BusInv, Holds
  <2> QED
    BY <2>1, <2>2 DEF BusInv, Holds, Gets, Resting
<1> QED
  BY <1>1, <1>2, <1>3, <1>4 DEF BusInv

\* What ages is of the thread that begins, and its own access has nothing yet.
LEMMA AgedOthers ==
  ASSUME NEW t \in Threads, NEW u \in Threads, NEW x, Aged(x, t) = Own(u)
  PROVE  u # t /\ x = Own(u)
BY DEF Aged, Own

LEMMA AgedKeeps ==
  ASSUME NEW t \in Threads, NEW x, x # None
  PROVE  Aged(x, t) # None
<1>1. [of |-> t, now |-> FALSE] \in Items
  BY DEF Items
<1> QED
  BY <1>1, NoneIsNothing DEF Aged

LEMMA BeginBus ==
  ASSUME BusInv, NEW t \in Threads, Begin(t)
  PROVE  BusInv'
<1>1. TypeOK'
  BY BeginTyped DEF BusInv
<1>2. /\ pc[t] \in Resting /\ pc'[t] = "check"
      /\ \A u \in Threads \ {t} : pc'[u] = pc[u] /\ clean'[u] = clean[u]
                                   /\ served'[u] = served[u]
      /\ cur' = cur /\ trans' = trans
  BY DEF Begin, Goto, BusInv, TypeOK, ThreadsOK, HistoryOK
<1>3. \A u \in Threads \ {t} : apart'[u] => apart[u] /\ pc[u] \in Resting
  BY DEF Begin
<1>4. apart'[t] => \A u \in Threads \ {t} : pc[u] \in Resting
  BY DEF Begin
<1>5. Ready'
  <2>1. ASSUME NEW u \in Pollers, pc'[u] \in {"make", "set"} PROVE req' # None
    BY <1>2, <2>1, AgedKeeps DEF BusInv, Ready, Begin, Threads
  <2>2. ASSUME NEW u \in Threads,
               pc'[u] \in {"set", "execute", "enter", "send", "receive", "get"}
        PROVE  trans' # None
    BY <1>2, <2>2 DEF BusInv, Ready
  <2>3. ASSUME NEW u \in Threads, pc'[u] \in {"enter", "send", "receive"}
        PROVE  cur'[u] # None /\ request'[cur'[u]] # None
    <3>1. cur'[u] \in Transactions /\ request[cur'[u]] # None
      BY <1>2, <2>3 DEF BusInv, Ready, TypeOK, ThreadsOK
    <3> QED
      BY <3>1, AgedKeeps, NoneIsNothing DEF Begin
  <2> QED
    BY <2>1, <2>2, <2>3 DEF Ready
<1>6. ASSUME NEW u \in Threads PROVE Sent(u)'
  <2> SUFFICES ASSUME Own(u) \in owed' \/ input' = Own(u) PROVE served'[u]
    BY DEF Sent
  <2>1. u # t /\ (Own(u) \in owed \/ input = Own(u))
    BY AgedOthers DEF Begin
  <2> QED
    BY <1>2, <2>1 DEF BusInv, Sent
<1>7. Holds(t)' /\ Gets(t)'
  BY <1>2, <1>4 DEF Holds, Gets, Resting
<1>8. ASSUME NEW u \in Threads \ {t} PROVE Holds(u)' /\ Gets(u)'
  BY <1>2, <1>3 DEF BusInv, Holds, Gets, Resting
<1> QED
  BY <1>1, <1>5, <1>6, <1>7, <1>8 DEF BusInv

LEMMA DeviceBus ==
  ASSUME BusInv, NEW x \in owed, Answer(x) \/ LoseAnswer(x)
  PROVE  BusInv'
<1>1. /\ UNCHANGED <<line, static, objs, pc, cur, count, hist>>
      /\ owed' \subseteq owed
      /\ input' = input \/ (input' = x /\ input = None)
  BY DEF Answer, LoseAnswer
<1>2. TypeOK'
  <2>1. WireOK'
    BY <1>1 DEF BusInv, TypeOK, WireOK
  <2>2. ThreadsOK'
    BY <1>1 DEF BusInv, TypeOK, ThreadsOK
  <2> QED
    BY <1>1, <2>1, <2>2, Kept DEF BusInv, TypeOK
<1>3. Ready'
  BY <1>1 DEF BusInv, Ready, static, objs
<1>4. ASSUME NEW u \in Threads PROVE Sent(u)' /\ Holds(u)' /\ Gets(u)'
  <2>1. Sent(u)'
    BY <1>1 DEF BusInv, Sent, hist
  <2>2. Holds(u)'
    BY <1>1 DEF BusInv, Holds, static, objs, hist
  <2>3. Gets(u)'
    BY <1>1 DEF BusInv, Gets, static, objs, hist
  <2> QED
    BY <2>1, <2>2, <2>3
<1> QED
  BY <1>2, <1>3, <1>4 DEF BusInv

LEMMA StutterBus == BusInv /\ UNCHANGED vars => BusInv'
<1> SUFFICES ASSUME BusInv, UNCHANGED vars PROVE BusInv'
  OBVIOUS
<1>1. TypeOK'
  BY Kept DEF BusInv, TypeOK, ThreadsOK, vars
<1>2. Ready'
  BY DEF BusInv, Ready, vars, static, objs
<1>3. ASSUME NEW u \in Threads PROVE Sent(u)' /\ Holds(u)' /\ Gets(u)'
  BY DEF BusInv, Sent, Holds, Gets, vars, static, objs, wire, hist
<1> QED
  BY <1>1, <1>2, <1>3 DEF BusInv

LEMMA BusInvariant == Spec => []BusInv
<1>1. BusInv /\ [Next]_vars => BusInv'
  BY BeginBus, AccessBus, DeviceBus, StutterBus DEF Next, Devices
<1> QED
  BY InitBus, <1>1, PTL DEF Spec

\* Every variable of the bus keeps its type.
THEOREM BusTyped == Spec => []TypeOK
<1>1. BusInv => TypeOK
  BY DEF BusInv
<1> QED
  BY BusInvariant, <1>1, PTL

\* A poller alone at a quiet bus stores what its own device answered.
THEOREM AloneReads == Spec => []AloneReadsOwn
<1>1. BusInv => AloneReadsOwn
  BY DEF BusInv, Gets, AloneReadsOwn, Threads
<1> QED
  BY BusInvariant, <1>1, PTL

\* A writer alone at a quiet bus closes it behind a write that was carried out.
THEOREM AloneWrites == Spec => []AloneWritesReach
<1>1. BusInv => AloneWritesReach
  BY DEF BusInv, Gets, AloneWritesReach, Threads
<1> QED
  BY BusInvariant, <1>1, PTL
=============================================================================
