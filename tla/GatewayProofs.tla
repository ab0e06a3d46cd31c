---------------------------- MODULE GatewayProofs ----------------------------
(***************************************************************************)
(* Proofs about Gateway, for every configuration, every set of handlers    *)
(* and pulse threads, and any number of requests.                          *)
(***************************************************************************)
EXTENDS Gateway, RegisterMapProofs

USE DEF Values, Creating, Deciding

(***************************************************************************)
(* Type correctness.                                                       *)
(***************************************************************************)

\* Putting a new object in a register keeps the image and the objects held
\* well-typed; nobody comes to hold an object he did not hold.
LEMMA SetRegisterType ==
  ASSUME TypeOK, NEW r, NEW v \in Nat, SetRegister(r, v)
  PROVE  /\ image' \in [Registers -> Values]
         /\ held' \in [Handlers -> [kind  : {"none", "live", "stale"},
                                    mates : SUBSET Handlers,
                                    val   : Values]]
         /\ \A h \in Handlers : held'[h].kind # "none" => held[h].kind # "none"
<1>1. image' \in [Registers -> Values]
  BY DEF TypeOK, VariableTypes, SetRegister
<1>2. ASSUME NEW g \in Handlers
      PROVE  /\ held'[g] \in [kind  : {"none", "live", "stale"},
                              mates : SUBSET Handlers, val : Values]
             /\ held'[g].kind # "none" => held[g].kind # "none"
  <2>1. CASE g \in Holders(r)
    <3>1. held[g].kind = "live" /\ req[g].ref = r
      BY <2>1 DEF Holders
    <3>2. r \in Registers /\ image[r] \in Nat
      BY <3>1 DEF TypeOK, VariableTypes, HandlerOK
    <3>3. Holders(r) \in SUBSET Handlers
      BY DEF Holders
    <3>4. held'[g] = [kind |-> "stale", mates |-> Holders(r), val |-> image[r]]
      BY <2>1 DEF SetRegister
    <3>5. QED
      BY <3>1, <3>2, <3>3, <3>4
  <2>2. CASE g \notin Holders(r)
    BY <2>2 DEF TypeOK, VariableTypes, SetRegister
  <2>3. QED
    BY <2>1, <2>2
<1>3. held' = [g \in Handlers |-> held'[g]]
  BY DEF SetRegister
<1>4. QED
  BY <1>1, <1>2, <1>3

\* The objects a handler may hold.
LEMMA ObjectTypes ==
  /\ Free \in [kind : {"none", "live", "stale"}, mates : SUBSET Handlers, val : Values]
  /\ Live \in [kind : {"none", "live", "stale"}, mates : SUBSET Handlers, val : Values]
  /\ Free.kind = "none" /\ Live.kind = "live"
  BY DEF Free, Live

LEMMA InitType == Init => TypeOK
<1> SUFFICES ASSUME Init PROVE TypeOK
  OBVIOUS
<1>1. \A r \in Registers : InitialValue(r) \in Nat
  BY DEF InitialValue, STATUS_OK, OUT_OFF, IN_OK
<1>2. image \in [Registers -> Values] /\ got \in [Handlers -> Values]
  BY <1>1 DEF Init
<1>3. held \in [Handlers -> [kind  : {"none", "live", "stale"},
                             mates : SUBSET Handlers, val : Values]]
  BY ObjectTypes DEF Init
<1>4. /\ level \in [PinRegisters -> {"low", "high"}]
      /\ told \in [DOMAIN Conf.pins -> {"none", "on", "off", "changed"}]
      /\ pc \in [Handlers -> Creating \cup Deciding \cup {"idle", "closed"}]
      /\ req \in [Handlers -> Requests \cup {None}]
      /\ turn \in [Handlers -> 1..3]
  BY DEF Init
<1>5. sleeper \in [Sleepers -> [pin   : PinRegisters \cup {None},
                                phase : {"free", "start", "low"}]]
  BY DEF Init, Asleep
<1>6. /\ field \in [DeviceKeys -> Values]
      /\ polled \in [DeviceKeys -> Values \cup {None}]
      /\ served \in 0..MaxRequests
  <2>1. field \in [DeviceKeys -> Field] /\ Field \subseteq Values
    BY RequestsAssumption DEF Init
  <2>2. field \in [DeviceKeys -> Values]
    BY <2>1, Zenon
  <2>3. polled \in [DeviceKeys -> Values \cup {None}]
    BY DEF Init
  <2>4. served \in 0..MaxRequests
    BY RequestsAssumption DEF Init
  <2>5. QED
    BY <2>2, <2>3, <2>4
<1>7. \A h \in Handlers : HandlerOK(h)
  BY ObjectTypes DEF Init, HandlerOK
<1>8. QED
  BY <1>2, <1>3, <1>4, <1>5, <1>6, <1>7 DEF TypeOK, VariableTypes

LEMMA NextType == TypeOK /\ [Next]_vars => TypeOK'
<1> SUFFICES ASSUME TypeOK, [Next]_vars PROVE TypeOK'
  OBVIOUS
<1> USE RequestsAssumption DEF TypeOK
<1>1. ASSUME NEW h \in Handlers, Receive(h)
      PROVE  TypeOK'
  <2>1. VariableTypes'
    BY <1>1 DEF VariableTypes, Receive, Goto
  <2>2. ASSUME NEW g \in Handlers PROVE HandlerOK(g)'
    BY <1>1 DEF VariableTypes, HandlerOK, Receive, Goto
  <2>3. QED
    BY <2>1, <2>2
<1>2. ASSUME NEW h \in Handlers, Fetch(h)
      PROVE  TypeOK'
  <2>1. held' \in [Handlers -> [kind  : {"none", "live", "stale"},
                                mates : SUBSET Handlers, val : Values]]
    BY <1>2, ObjectTypes DEF VariableTypes, Fetch
  <2>2. VariableTypes'
    BY <1>2, <2>1 DEF VariableTypes, Fetch, Goto, Close
  <2>3. ASSUME NEW g \in Handlers PROVE HandlerOK(g)'
    <3>1. CASE g # h
      <4>1. pc'[g] = pc[g] /\ req'[g] = req[g] /\ held'[g] = held[g]
        BY <1>2, <3>1 DEF VariableTypes, Fetch, Goto, Close
      <4>2. QED
        BY <4>1 DEF HandlerOK
    <3>2. CASE g = h
      <4>1. /\ req'[h] = req[h] /\ req[h] \in Requests
            /\ \/ pc'[h] = "store" /\ req[h].ref \in Registers
               \/ pc'[h] = "closed" /\ held'[h] = held[h] /\ held[h].kind = "none"
        BY <1>2 DEF VariableTypes, HandlerOK, Fetch, Goto, Close
      <4>2. QED
        BY <3>2, <4>1 DEF HandlerOK
    <3>3. QED
      BY <3>1, <3>2
  <2>4. QED
    BY <2>2, <2>3
<1>3. ASSUME NEW h \in Handlers, Store(h)
      PROVE  TypeOK'
  <2>1. req[h] \in Requests /\ req[h].val \in Nat
    BY <1>3 DEF HandlerOK, Store
  <2>2. image' \in [Registers -> Values]
    BY <1>3, <2>1 DEF VariableTypes, Store
  <2>3. /\ held' \in [Handlers -> [kind  : {"none", "live", "stale"},
                                   mates : SUBSET Handlers, val : Values]]
        /\ \A g \in Handlers : held'[g].kind = held[g].kind
    <3>1. CASE UNCHANGED held
      BY <3>1 DEF VariableTypes
    <3>2. CASE held' = [g \in Handlers |->
                          IF held[g].kind = "stale" /\ held[g].mates = held[h].mates
                          THEN [held[g] EXCEPT !.val = req[h].val]
                          ELSE held[g]]
      <4>1. ASSUME NEW g \in Handlers
            PROVE  /\ held'[g] \in [kind  : {"none", "live", "stale"},
                                    mates : SUBSET Handlers, val : Values]
                   /\ held'[g].kind = held[g].kind
        <5>1. held[g] \in [kind  : {"none", "live", "stale"},
                           mates : SUBSET Handlers, val : Nat]
          BY DEF VariableTypes
        <5>2. held'[g] = held[g] \/ held'[g] = [held[g] EXCEPT !.val = req[h].val]
          BY <3>2
        <5>3. QED
          BY <2>1, <5>1, <5>2
      <4>2. QED
        BY <3>2, <4>1
    <3>3. QED
      BY <1>3, <3>1, <3>2 DEF Store
  <2>4. /\ pc' = [pc EXCEPT ![h] = "reread"]
        /\ pc[h] = "store"
        /\ UNCHANGED <<level, told, req, turn, got, sleeper, field, polled, served>>
    BY <1>3 DEF Store, Goto
  <2>5. VariableTypes'
    BY <2>2, <2>3, <2>4 DEF VariableTypes
  <2>6. ASSUME NEW g \in Handlers PROVE HandlerOK(g)'
    BY <2>3, <2>4 DEF VariableTypes, HandlerOK
  <2>7. QED
    BY <2>5, <2>6
<1>4. ASSUME NEW h \in Handlers, Reread(h)
      PROVE  TypeOK'
  <2>1. held[h].val \in Nat /\ image[req[h].ref] \in Nat
    BY <1>4 DEF VariableTypes, HandlerOK, Reread
  <2>2. got' \in [Handlers -> Values]
    BY <1>4, <2>1 DEF VariableTypes, Reread
  <2>3. /\ held' \in [Handlers -> [kind  : {"none", "live", "stale"},
                                   mates : SUBSET Handlers, val : Values]]
        /\ \A g \in Handlers : held'[g].kind # "none" => g # h /\ held[g].kind # "none"
    BY <1>4, ObjectTypes DEF VariableTypes, Reread
  <2>4. /\ turn' \in [Handlers -> 1..3]
        /\ \E l \in {"fetch", "fire"} : pc' = [pc EXCEPT ![h] = l]
        /\ pc[h] = "reread"
        /\ UNCHANGED <<image, level, told, req, sleeper, field, polled, served>>
    BY <1>4 DEF VariableTypes, Reread, Goto
  <2>5. VariableTypes'
    BY <2>2, <2>3, <2>4 DEF VariableTypes
  <2>6. ASSUME NEW g \in Handlers PROVE HandlerOK(g)'
    BY <2>3, <2>4 DEF VariableTypes, HandlerOK
  <2>7. QED
    BY <2>5, <2>6
<1>5. ASSUME NEW h \in Handlers, Fire(h)
      PROVE  TypeOK'
  <2>1. VariableTypes'
    BY <1>5 DEF VariableTypes, Fire, Goto
  <2>2. ASSUME NEW g \in Handlers PROVE HandlerOK(g)'
    BY <1>5 DEF VariableTypes, HandlerOK, Fire, Goto
  <2>3. QED
    BY <2>1, <2>2
<1>6. ASSUME NEW h \in Handlers, Respond(h)
      PROVE  TypeOK'
  <2>1. VariableTypes'
    BY <1>6 DEF VariableTypes, Respond, Goto
  <2>2. ASSUME NEW g \in Handlers PROVE HandlerOK(g)'
    BY <1>6 DEF VariableTypes, HandlerOK, Respond, Goto
  <2>3. QED
    BY <2>1, <2>2
<1>7. ASSUME NEW h \in Handlers, Reconnect(h)
      PROVE  TypeOK'
  <2>1. VariableTypes'
    BY <1>7 DEF VariableTypes, Reconnect, Goto
  <2>2. ASSUME NEW g \in Handlers PROVE HandlerOK(g)'
    BY <1>7 DEF VariableTypes, HandlerOK, Reconnect, Goto
  <2>3. QED
    BY <2>1, <2>2
<1>8. ASSUME NEW h \in Handlers, TestOff(h)
      PROVE  TypeOK'
  <2>1. VariableTypes'
    BY <1>8 DEF VariableTypes, TestOff, Goto
  <2>2. ASSUME NEW g \in Handlers PROVE HandlerOK(g)'
    BY <1>8 DEF VariableTypes, HandlerOK, TestOff, Goto
  <2>3. QED
    BY <2>1, <2>2
<1>9. ASSUME NEW h \in Handlers, Raise(h)
      PROVE  TypeOK'
  <2>1. VariableTypes'
    BY <1>9 DEF VariableTypes, Raise, Goto, Close, Tell
  <2>2. ASSUME NEW g \in Handlers PROVE HandlerOK(g)'
    BY <1>9 DEF VariableTypes, HandlerOK, Raise, Goto, Close, Tell
  <2>3. QED
    BY <2>1, <2>2
<1>9a. ASSUME NEW h \in Handlers, TellOff(h)
      PROVE  TypeOK'
  <2>1. VariableTypes'
    BY <1>9a DEF VariableTypes, TellOff, Goto, Tell
  <2>2. ASSUME NEW g \in Handlers PROVE HandlerOK(g)'
    BY <1>9a DEF VariableTypes, HandlerOK, TellOff, Goto, Tell
  <2>3. QED
    BY <2>1, <2>2
<1>10. ASSUME NEW h \in Handlers, TestOn(h)
      PROVE  TypeOK'
  <2>1. VariableTypes'
    BY <1>10 DEF VariableTypes, TestOn, Goto
  <2>2. ASSUME NEW g \in Handlers PROVE HandlerOK(g)'
    BY <1>10 DEF VariableTypes, HandlerOK, TestOn, Goto
  <2>3. QED
    BY <2>1, <2>2
<1>10a. ASSUME NEW h \in Handlers, TellOn(h)
      PROVE  TypeOK'
  <2>1. VariableTypes'
    BY <1>10a DEF VariableTypes, TellOn, Goto, Tell
  <2>2. ASSUME NEW g \in Handlers PROVE HandlerOK(g)'
    BY <1>10a DEF VariableTypes, HandlerOK, TellOn, Goto, Tell
  <2>3. QED
    BY <2>1, <2>2
<1>11. ASSUME NEW h \in Handlers, Lower(h)
      PROVE  TypeOK'
  <2>1. VariableTypes'
    BY <1>11 DEF VariableTypes, Lower, Goto, Close, Tell
  <2>2. ASSUME NEW g \in Handlers PROVE HandlerOK(g)'
    BY <1>11 DEF VariableTypes, HandlerOK, Lower, Goto, Close, Tell
  <2>3. QED
    BY <2>1, <2>2
<1>12. ASSUME NEW h \in Handlers, PulseOn(h)
      PROVE  TypeOK'
  <2>1. SetRegister(req[h].ref, OUT_ON)
    BY <1>12 DEF PulseOn
  <2>2. OUT_ON \in Nat
    BY <1>12 DEF OUT_ON
  <2>3. /\ image' \in [Registers -> Values]
        /\ held' \in [Handlers -> [kind  : {"none", "live", "stale"},
                                   mates : SUBSET Handlers, val : Values]]
        /\ \A g \in Handlers : held'[g].kind # "none" => held[g].kind # "none"
    BY <2>1, <2>2, SetRegisterType
  <2>4. VariableTypes'
    BY <1>12, <2>3 DEF VariableTypes, PulseOn, Goto, Tell
  <2>5. ASSUME NEW g \in Handlers PROVE HandlerOK(g)'
    BY <1>12, <2>3 DEF VariableTypes, HandlerOK, PulseOn, Goto, Tell
  <2>6. QED
    BY <2>4, <2>5
<1>13. ASSUME NEW h \in Handlers, PulseStart(h)
      PROVE  TypeOK'
  <2>1. sleeper' \in [Sleepers -> [pin   : PinRegisters \cup {None},
                                  phase : {"free", "start", "low"}]]
    BY <1>13 DEF VariableTypes, PulseStart, Output
  <2>2. VariableTypes'
    BY <1>13, <2>1 DEF VariableTypes, PulseStart, Goto
  <2>3. ASSUME NEW g \in Handlers PROVE HandlerOK(g)'
    BY <1>13 DEF VariableTypes, HandlerOK, PulseStart, Goto, Output
  <2>4. QED
    BY <2>2, <2>3
<1>14. ASSUME NEW h \in Handlers, PulseOff(h)
      PROVE  TypeOK'
  <2>1. SetRegister(req[h].ref, OUT_OFF)
    BY <1>14 DEF PulseOff
  <2>2. OUT_OFF \in Nat
    BY <1>14 DEF OUT_OFF
  <2>3. /\ image' \in [Registers -> Values]
        /\ held' \in [Handlers -> [kind  : {"none", "live", "stale"},
                                   mates : SUBSET Handlers, val : Values]]
        /\ \A g \in Handlers : held'[g].kind # "none" => held[g].kind # "none"
    BY <2>1, <2>2, SetRegisterType
  <2>4. VariableTypes'
    BY <1>14, <2>3 DEF VariableTypes, PulseOff, Goto
  <2>5. ASSUME NEW g \in Handlers PROVE HandlerOK(g)'
    BY <1>14, <2>3 DEF VariableTypes, HandlerOK, PulseOff, Goto
  <2>6. QED
    BY <2>4, <2>5
<1>15. ASSUME NEW h \in Handlers, Reset(h)
      PROVE  TypeOK'
  <2>1. /\ image' \in [Registers -> Values]
        /\ held' \in [Handlers -> [kind  : {"none", "live", "stale"},
                                   mates : SUBSET Handlers, val : Values]]
        /\ \A g \in Handlers : held'[g].kind # "none" => held[g].kind # "none"
    <3>1. CASE UNCHANGED <<image, held>>
      BY <3>1 DEF VariableTypes
    <3>2. CASE SetRegister(req[h].ref, IN_OK)
      <4>1. IN_OK \in Nat
        BY DEF IN_OK
      <4>2. QED
        BY <3>2, <4>1, SetRegisterType
    <3>3. QED
      BY <1>15, <3>1, <3>2 DEF Reset
  <2>2. /\ level' \in [PinRegisters -> {"low", "high"}]
        /\ \E l \in {"resetoff", "closed", "respond"} : pc' = [pc EXCEPT ![h] = l]
        /\ pc[h] = "reset"
        /\ UNCHANGED <<told, req, turn, got, sleeper, field, polled, served>>
    BY <1>15 DEF VariableTypes, Reset, Goto, Close
  <2>3. VariableTypes'
    BY <2>1, <2>2 DEF VariableTypes
  <2>4. ASSUME NEW g \in Handlers PROVE HandlerOK(g)'
    BY <2>1, <2>2 DEF VariableTypes, HandlerOK
  <2>5. QED
    BY <2>3, <2>4
<1>16. ASSUME NEW h \in Handlers, ResetOff(h)
      PROVE  TypeOK'
  <2>1. SetRegister(req[h].ref, OUT_OFF)
    BY <1>16 DEF ResetOff
  <2>2. OUT_OFF \in Nat
    BY <1>16 DEF OUT_OFF
  <2>3. /\ image' \in [Registers -> Values]
        /\ held' \in [Handlers -> [kind  : {"none", "live", "stale"},
                                   mates : SUBSET Handlers, val : Values]]
        /\ \A g \in Handlers : held'[g].kind # "none" => held[g].kind # "none"
    BY <2>1, <2>2, SetRegisterType
  <2>4. /\ pc[h] = "resetoff" /\ pc' = [pc EXCEPT ![h] = "respond"]
        /\ UNCHANGED <<level, told, req, turn, got, sleeper, field, polled, served>>
    BY <1>16 DEF ResetOff, Goto
  <2>5. VariableTypes'
    BY <2>3, <2>4 DEF VariableTypes
  <2>6. ASSUME NEW g \in Handlers PROVE HandlerOK(g)'
    BY <2>3, <2>4 DEF VariableTypes, HandlerOK
  <2>7. QED
    BY <2>5, <2>6
<1>17. ASSUME NEW h \in Handlers, Forward(h)
      PROVE  TypeOK'
  <2>1. field' \in [DeviceKeys -> Values]
    <3>1. \/ UNCHANGED field
          \/ \E d : field' = [field EXCEPT ![d] = got[h]]
      BY <1>17 DEF Forward, Deliver
    <3>2. QED
      BY <1>17, <3>1 DEF VariableTypes
  <2>2. /\ \E l \in {"await", "respond", "closed"} : pc' = [pc EXCEPT ![h] = l]
        /\ pc[h] = "forward"
        /\ UNCHANGED <<image, level, told, req, turn, held, got, sleeper, polled, served>>
    BY <1>17 DEF Forward, Goto, Close
  <2>3. VariableTypes'
    BY <2>1, <2>2 DEF VariableTypes
  <2>4. ASSUME NEW g \in Handlers PROVE HandlerOK(g)'
    BY <2>2 DEF VariableTypes, HandlerOK
  <2>5. QED
    BY <2>3, <2>4
<1>17a. ASSUME NEW h \in Handlers, Answer(h)
      PROVE  TypeOK'
  <2>1. VariableTypes'
    BY <1>17a DEF VariableTypes, Answer, Goto
  <2>2. ASSUME NEW g \in Handlers PROVE HandlerOK(g)'
    BY <1>17a DEF VariableTypes, HandlerOK, Answer, Goto
  <2>3. QED
    BY <2>1, <2>2
<1>18. ASSUME NEW s \in Sleepers, SleeperLow(s)
      PROVE  TypeOK'
  <2>1. VariableTypes'
    BY <1>18 DEF VariableTypes, SleeperLow
  <2>2. ASSUME NEW g \in Handlers PROVE HandlerOK(g)'
    BY <1>18 DEF VariableTypes, HandlerOK, SleeperLow
  <2>3. QED
    BY <2>1, <2>2
<1>19. ASSUME NEW s \in Sleepers, SleeperHigh(s)
      PROVE  TypeOK'
  <2>1. VariableTypes'
    BY <1>19 DEF VariableTypes, SleeperHigh, Asleep
  <2>2. ASSUME NEW g \in Handlers PROVE HandlerOK(g)'
    BY <1>19 DEF VariableTypes, HandlerOK, SleeperHigh, Asleep
  <2>3. QED
    BY <2>1, <2>2
<1>20. ASSUME NEW k \in DOMAIN Conf.pins, Sense(k)
      PROVE  TypeOK'
  <2>1. SetRegister(SensePosition(k), IN_ALARM)
    BY <1>20 DEF Sense
  <2>2. IN_ALARM \in Nat
    BY <1>20 DEF IN_ALARM
  <2>3. /\ image' \in [Registers -> Values]
        /\ held' \in [Handlers -> [kind  : {"none", "live", "stale"},
                                   mates : SUBSET Handlers, val : Values]]
        /\ \A g \in Handlers : held'[g].kind # "none" => held[g].kind # "none"
    BY <2>1, <2>2, SetRegisterType
  <2>4. VariableTypes'
    BY <1>20, <2>3 DEF VariableTypes, Sense, Tell
  <2>5. ASSUME NEW g \in Handlers PROVE HandlerOK(g)'
    BY <1>20, <2>3 DEF VariableTypes, HandlerOK, Sense, Tell
  <2>6. QED
    BY <2>4, <2>5
<1>21. ASSUME NEW d \in DeviceKeys, PollRead(d)
      PROVE  TypeOK'
  <2>1. VariableTypes'
    BY <1>21 DEF VariableTypes, PollRead, Unreachable
  <2>2. ASSUME NEW g \in Handlers PROVE HandlerOK(g)'
    BY <1>21 DEF VariableTypes, HandlerOK, PollRead, Unreachable
  <2>3. QED
    BY <2>1, <2>2
<1>22. ASSUME NEW d \in DeviceKeys, PollStore(d)
      PROVE  TypeOK'
  <2>1. SetRegister(PollPosition(Conf, d[1], d[2]), polled[d])
    BY <1>22 DEF PollStore
  <2>2. polled[d] \in Nat
    BY <1>22 DEF PollStore, VariableTypes
  <2>3. /\ image' \in [Registers -> Values]
        /\ held' \in [Handlers -> [kind  : {"none", "live", "stale"},
                                   mates : SUBSET Handlers, val : Values]]
        /\ \A g \in Handlers : held'[g].kind # "none" => held[g].kind # "none"
    BY <2>1, <2>2, SetRegisterType
  <2>4. VariableTypes'
    BY <1>22, <2>3 DEF VariableTypes, PollStore
  <2>5. ASSUME NEW g \in Handlers PROVE HandlerOK(g)'
    BY <1>22, <2>3 DEF VariableTypes, HandlerOK, PollStore
  <2>6. QED
    BY <2>4, <2>5
<1>23. CASE UNCHANGED vars
  BY <1>23 DEF vars, VariableTypes, HandlerOK
<1>24. QED
  BY <1>1, <1>2, <1>3, <1>4, <1>5, <1>6, <1>7, <1>8, <1>9, <1>9a, <1>10, <1>10a, <1>11, <1>12, <1>13, <1>14, <1>15, <1>16, <1>17, <1>17a, <1>18, <1>19, <1>20, <1>21, <1>22, <1>23
  DEF Next, Handle, Pulse, Poll

\* Every variable keeps its type; who works has a request of the image, and holds an
\* object only between fetching it and reading it back.
THEOREM TypeCorrect == Spec => []TypeOK
<1>1. Init => TypeOK
  BY InitType
<1>2. TypeOK /\ [Next]_vars => TypeOK'
  BY NextType
<1>3. QED
  BY <1>1, <1>2, PTL DEF Spec

(***************************************************************************)
(* The registers of the outputs.  IllegalIsDecided is inductive on top of  *)
(* TypeOK: a handler that writes an illegal value owes the register a look *)
(* until the listener has put it right, and whoever replaces the object it *)
(* wrote to installs a legal value.                                        *)
(***************************************************************************)

\* What follows from the types of the configuration.
LEMMA ConfFacts ==
  /\ Conf.gpioEnable \in BOOLEAN
  /\ Conf.pins \in Seq(PinEntry) /\ Len(Conf.pins) \in Nat
  /\ Used \in Seq(PinEntry) /\ Len(Used) \in Nat
  /\ DOMAIN Conf.pins = 1..Len(Conf.pins) /\ DOMAIN Used = 1..Len(Used)
  /\ Conf.slaves \in Seq(SlaveEntry) /\ Len(Conf.slaves) \in Nat
  /\ DOMAIN Conf.slaves = 1..Len(Conf.slaves)
  /\ \A n \in 1..Len(Conf.slaves) :
       Conf.slaves[n].size \in Nat /\ Conf.slaves[n] \in SlaveEntry
  /\ \A n \in 0..Len(Conf.slaves) : SizeUpTo(Conf, n) \in Nat
  /\ GpioSize(Conf) = 1 + (IF Conf.gpioEnable THEN Len(Used) ELSE 0)
<1>1. /\ Conf.gpioEnable \in BOOLEAN
      /\ Conf.pins \in Seq(PinEntry) /\ Len(Conf.pins) \in Nat
      /\ DOMAIN Conf.pins = 1..Len(Conf.pins)
      /\ Conf.slaves \in Seq(SlaveEntry) /\ Len(Conf.slaves) \in Nat
      /\ DOMAIN Conf.slaves = 1..Len(Conf.slaves)
  BY ConfAssumption
<1>2. Used \in Seq(PinEntry)
  <2>1. Len(Conf.pins) \in 0..Len(Conf.pins)
    BY <1>1
  <2>2. QED
    BY <1>1, <2>1, UsedType DEF Used, PinsUsed
<1>3. DOMAIN Used = 1..Len(Used) /\ Len(Used) \in Nat
  BY <1>2
<1>4. GpioSize(Conf) = 1 + (IF Conf.gpioEnable THEN Len(Used) ELSE 0)
  BY <1>1, <1>3 DEF GpioSize, GpioNumber, Used, STATUS_OK
<1>5. QED
  BY <1>1, <1>2, <1>3, <1>4, SizeNext

\* The pins' registers are those the listener's pin branch takes, and they are in the
\* image.
LEMMA PinFacts ==
  /\ \A r \in PinRegisters :
       r \in Nat /\ r \in Registers /\ Conf.gpioEnable /\ r \in 1..Len(Used)
  /\ \A r \in Nat : IsPinRegister(Conf, r) <=> r \in PinRegisters
<1>1. /\ Conf.gpioEnable \in BOOLEAN /\ Len(Used) \in Nat /\ DOMAIN Used = 1..Len(Used)
      /\ GpioSize(Conf) = 1 + (IF Conf.gpioEnable THEN Len(Used) ELSE 0)
      /\ SizeUpTo(Conf, Len(Conf.slaves)) \in Nat
  <2>1. Len(Conf.slaves) \in 0..Len(Conf.slaves)
    BY ConfFacts
  <2>2. QED
    BY <2>1, ConfFacts
<1>2. PinRegisters = IF Conf.gpioEnable THEN 1..Len(Used) ELSE {}
  BY <1>1 DEF PinRegisters
<1>3. \A r \in Nat : IsPinRegister(Conf, r) <=> r \in PinRegisters
  BY <1>1, <1>2 DEF IsPinRegister
<1>4. \A r \in PinRegisters : r \in Registers
  BY <1>1, <1>2 DEF Registers
<1>5. QED
  BY <1>1, <1>2, <1>3, <1>4

\* The two lists agree that r is an output.
LEMMA OutputFacts ==
  ASSUME NEW r \in KnownOutputs
  PROVE  /\ r \in Nat /\ r \in PinRegisters /\ r \in Registers
         /\ IsPinRegister(Conf, r)
         /\ Output(r) /\ Used[r].scope = "out"
         /\ Conf.pins[r].scope # "in"
<1>1. r \in PinRegisters /\ Output(r) /\ Conf.pins[r].scope = "out"
  BY DEF KnownOutputs, Outputs
<1>2. Used[r].scope = "out"
  BY <1>1 DEF Output
<1>3. QED
  BY <1>1, <1>2, PinFacts

\* Where unused pins come last the two lists always agree.
LEMMA AllKnown == ASSUME Aligned PROVE KnownOutputs = Outputs
<1>1. ASSUME NEW r \in Outputs PROVE Conf.pins[r].scope = "out"
  <2>1. r \in DOMAIN Used /\ Used[r].scope = "out"
    BY <1>1 DEF Outputs, Output, PinRegisters
  <2>2. QED
    BY <2>1 DEF Aligned
<1>2. QED
  BY <1>1 DEF KnownOutputs

\* No sensor's alarm is put in an output's register.
LEMMA SenseElsewhere ==
  ASSUME NEW r \in KnownOutputs, NEW k \in DOMAIN Conf.pins, Sense(k)
  PROVE  SensePosition(k) # r
<1>1. Conf.pins[k].scope = "in"
  BY DEF Sense
<1>2. QED
  BY <1>1, OutputFacts DEF SensePosition

\* No reading is put in the register of a pin, output or input.
LEMMA PollElsewhere ==
  ASSUME NEW r \in PinRegisters, NEW d \in DeviceKeys
  PROVE  PollPosition(Conf, d[1], d[2]) # r
<1>1. PICK i \in DOMAIN Conf.slaves : d \in {i} \X (0..(Conf.slaves[i].size - 1))
  BY DEF DeviceKeys
<1>2. d[1] = i /\ d[2] \in 0..(Conf.slaves[i].size - 1)
  BY <1>1
<1>3. i \in 1..Len(Conf.slaves) /\ Conf.slaves[i].size \in Nat /\ Len(Conf.slaves) \in Nat
  BY ConfFacts
<1>4. d[1] - 1 \in 0..Len(Conf.slaves) /\ d[2] \in Nat
  BY <1>2, <1>3
<1>5. SizeUpTo(Conf, d[1] - 1) \in Nat
  BY <1>4, ConfFacts
<1>6. Conf.gpioEnable /\ r \in 1..Len(Used) /\ Len(Used) \in Nat
  BY PinFacts, ConfFacts
<1>7. PollPosition(Conf, d[1], d[2]) = 1 + Len(Used) + SizeUpTo(Conf, d[1] - 1) + d[2]
  BY <1>6 DEF PollPosition, GpioNumber, Used
<1>8. QED
  BY <1>4, <1>5, <1>6, <1>7

\* A step in which register r and all handlers but h stay as they are.
LEMMA OthersDecide ==
  ASSUME NEW h \in Handlers, NEW r \in KnownOutputs, LegalOrDecided(r),
         image'[r] = image[r],
         \A g \in Handlers \ {h} :
           /\ pc'[g] = pc[g] /\ req'[g] = req[g] /\ turn'[g] = turn[g] /\ got'[g] = got[g]
           /\ req[g].ref = r => held'[g].kind = held[g].kind,
         image[r] \notin Legal(r) /\ Decides(h, r) => Decides(h, r)'
  PROVE  LegalOrDecided(r)'
<1>1. CASE image[r] \in Legal(r)
  BY <1>1 DEF LegalOrDecided, Legal, Delayed
<1>2. CASE image[r] \notin Legal(r)
  <2>1. PICK g \in Handlers : Decides(g, r)
    BY <1>2 DEF LegalOrDecided
  <2>2. CASE g = h
    BY <1>2, <2>1, <2>2 DEF LegalOrDecided
  <2>3. CASE g # h
    BY <2>1, <2>3 DEF LegalOrDecided, Decides
  <2>4. QED
    BY <2>2, <2>3
<1>3. QED
  BY <1>1, <1>2

\* A step that replaces the object of another register, and moves no handler but h.
LEMMA SetElsewhere ==
  ASSUME TypeOK, NEW q, NEW v, SetRegister(q, v), NEW r \in Registers, r # q
  PROVE  /\ image'[r] = image[r]
         /\ \A g \in Handlers : req[g].ref = r => held'[g] = held[g]
  BY DEF SetRegister, TypeOK, VariableTypes, Holders

\* A step that puts a legal object in register r.
LEMMA SetLegal ==
  ASSUME TypeOK, NEW r \in KnownOutputs, NEW v \in Legal(r), SetRegister(r, v)
  PROVE  LegalOrDecided(r)'
<1>1. image'[r] = v
  BY OutputFacts DEF SetRegister, TypeOK, VariableTypes
<1>2. QED
  BY <1>1 DEF LegalOrDecided, Legal

LEMMA InitDecided == Init => IllegalIsDecided
<1> SUFFICES ASSUME Init, NEW r \in KnownOutputs PROVE LegalOrDecided(r)
  BY DEF IllegalIsDecided
<1>1. r \in Registers /\ r # 0 /\ r \in PinRegisters /\ Output(r)
  BY OutputFacts, PinFacts, ConfFacts
<1>2. image[r] = OUT_OFF
  BY <1>1 DEF Init, InitialValue
<1>3. QED
  BY <1>2 DEF LegalOrDecided, Legal

LEMMA NextDecided ==
  ASSUME TypeOK, IllegalIsDecided, [Next]_vars
  PROVE  IllegalIsDecided'
<1> SUFFICES ASSUME NEW r \in KnownOutputs PROVE LegalOrDecided(r)'
  BY DEF IllegalIsDecided, KnownOutputs, Outputs, Output
<1> USE OutputFacts
<1>a. LegalOrDecided(r)
  BY DEF IllegalIsDecided
<1>1. ASSUME NEW h \in Handlers, Receive(h)
      PROVE  LegalOrDecided(r)'
  <2>1. /\ image'[r] = image[r]
        /\ \A g \in Handlers \ {h} :
             /\ pc'[g] = pc[g] /\ req'[g] = req[g] /\ turn'[g] = turn[g] /\ got'[g] = got[g]
             /\ held'[g].kind = held[g].kind
    BY <1>1 DEF TypeOK, VariableTypes, Receive, Goto
  <2>2. image[r] \notin Legal(r) /\ Decides(h, r) => Decides(h, r)'
    BY <1>1 DEF Decides, Legal, TypeOK, VariableTypes, HandlerOK, Receive, Goto
  <2>3. QED
    BY <1>a, <2>1, <2>2, OthersDecide
<1>2. ASSUME NEW h \in Handlers, Fetch(h)
      PROVE  LegalOrDecided(r)'
  <2>1. /\ image'[r] = image[r]
        /\ \A g \in Handlers \ {h} :
             /\ pc'[g] = pc[g] /\ req'[g] = req[g] /\ turn'[g] = turn[g] /\ got'[g] = got[g]
             /\ held'[g].kind = held[g].kind
    BY <1>2 DEF TypeOK, VariableTypes, Fetch, Goto, Close, Live
  <2>2. image[r] \notin Legal(r) /\ Decides(h, r) => Decides(h, r)'
    BY <1>2 DEF Decides, Legal, TypeOK, VariableTypes, HandlerOK, Fetch, Goto, Close, Live
  <2>3. QED
    BY <1>a, <2>1, <2>2, OthersDecide
<1>3. ASSUME NEW h \in Handlers, Store(h)
      PROVE  LegalOrDecided(r)'
  <2>1. /\ pc' = [pc EXCEPT ![h] = "reread"] /\ pc[h] = "store"
        /\ UNCHANGED <<req, turn, got>>
        /\ \A g \in Handlers : held'[g].kind = held[g].kind
    <3>1. /\ pc' = [pc EXCEPT ![h] = "reread"] /\ pc[h] = "store"
          /\ UNCHANGED <<req, turn, got>>
      BY <1>3 DEF Store, Goto
    <3>2. CASE UNCHANGED held
      BY <3>1, <3>2
    <3>3. CASE held' = [g \in Handlers |->
                          IF held[g].kind = "stale" /\ held[g].mates = held[h].mates
                          THEN [held[g] EXCEPT !.val = req[h].val]
                          ELSE held[g]]
      <4>1. \A g \in Handlers : held'[g].kind = held[g].kind
        BY <3>3 DEF TypeOK, VariableTypes
      <4>2. QED
        BY <3>1, <4>1
    <3>4. QED
      BY <1>3, <3>2, <3>3 DEF Store
  <2>2. CASE image'[r] = image[r]
    <3>1. Decides(h, r) => Decides(h, r)'
      BY <2>1 DEF Decides, TypeOK, VariableTypes
    <3>2. QED
      BY <1>a, <2>1, <2>2, <3>1, OthersDecide DEF TypeOK, VariableTypes
  <2>3. CASE image'[r] # image[r]
    <3>1. req[h].ref = r /\ held[h].kind = "live"
      BY <1>3, <2>3 DEF Store, TypeOK, VariableTypes
    <3>2. Decides(h, r)'
      BY <2>1, <3>1 DEF Decides, TypeOK, VariableTypes
    <3>3. QED
      BY <3>2 DEF LegalOrDecided
  <2>4. QED
    BY <2>2, <2>3
<1>4. ASSUME NEW h \in Handlers, Reread(h)
      PROVE  LegalOrDecided(r)'
  <2>1. /\ image'[r] = image[r]
        /\ \A g \in Handlers \ {h} :
             /\ pc'[g] = pc[g] /\ req'[g] = req[g] /\ turn'[g] = turn[g] /\ got'[g] = got[g]
             /\ held'[g].kind = held[g].kind
    BY <1>4 DEF TypeOK, VariableTypes, Reread, Goto, Free
  <2>2. image[r] \notin Legal(r) /\ Decides(h, r) => Decides(h, r)'
    BY <1>4 DEF Decides, Legal, TypeOK, VariableTypes, HandlerOK, Reread, Goto, Free
  <2>3. QED
    BY <1>a, <2>1, <2>2, OthersDecide
<1>5. ASSUME NEW h \in Handlers, Fire(h)
      PROVE  LegalOrDecided(r)'
  <2>1. /\ image'[r] = image[r]
        /\ \A g \in Handlers \ {h} :
             /\ pc'[g] = pc[g] /\ req'[g] = req[g] /\ turn'[g] = turn[g] /\ got'[g] = got[g]
             /\ held'[g].kind = held[g].kind
    BY <1>5 DEF TypeOK, VariableTypes, Fire, Goto
  <2>2. image[r] \notin Legal(r) /\ Decides(h, r) => Decides(h, r)'
    BY <1>5 DEF Decides, Legal, TypeOK, VariableTypes, HandlerOK, Fire, Goto
  <2>3. QED
    BY <1>a, <2>1, <2>2, OthersDecide
<1>6. ASSUME NEW h \in Handlers, Respond(h)
      PROVE  LegalOrDecided(r)'
  <2>1. /\ image'[r] = image[r]
        /\ \A g \in Handlers \ {h} :
             /\ pc'[g] = pc[g] /\ req'[g] = req[g] /\ turn'[g] = turn[g] /\ got'[g] = got[g]
             /\ held'[g].kind = held[g].kind
    BY <1>6 DEF TypeOK, VariableTypes, Respond, Goto
  <2>2. image[r] \notin Legal(r) /\ Decides(h, r) => Decides(h, r)'
    BY <1>6 DEF Decides, Legal, TypeOK, VariableTypes, HandlerOK, Respond, Goto
  <2>3. QED
    BY <1>a, <2>1, <2>2, OthersDecide
<1>7. ASSUME NEW h \in Handlers, Reconnect(h)
      PROVE  LegalOrDecided(r)'
  <2>1. /\ image'[r] = image[r]
        /\ \A g \in Handlers \ {h} :
             /\ pc'[g] = pc[g] /\ req'[g] = req[g] /\ turn'[g] = turn[g] /\ got'[g] = got[g]
             /\ held'[g].kind = held[g].kind
    BY <1>7 DEF TypeOK, VariableTypes, Reconnect, Goto
  <2>2. image[r] \notin Legal(r) /\ Decides(h, r) => Decides(h, r)'
    BY <1>7 DEF Decides, Legal, TypeOK, VariableTypes, HandlerOK, Reconnect, Goto
  <2>3. QED
    BY <1>a, <2>1, <2>2, OthersDecide
<1>8. ASSUME NEW h \in Handlers, TestOff(h)
      PROVE  LegalOrDecided(r)'
  <2>1. /\ image'[r] = image[r]
        /\ \A g \in Handlers \ {h} :
             /\ pc'[g] = pc[g] /\ req'[g] = req[g] /\ turn'[g] = turn[g] /\ got'[g] = got[g]
             /\ held'[g].kind = held[g].kind
    BY <1>8 DEF TypeOK, VariableTypes, TestOff, Goto
  <2>2. image[r] \notin Legal(r) /\ Decides(h, r) => Decides(h, r)'
    BY <1>8 DEF Decides, Legal, TypeOK, VariableTypes, HandlerOK, TestOff, Goto
  <2>3. QED
    BY <1>a, <2>1, <2>2, OthersDecide
<1>9. ASSUME NEW h \in Handlers, Raise(h)
      PROVE  LegalOrDecided(r)'
  <2>1. /\ image'[r] = image[r]
        /\ \A g \in Handlers \ {h} :
             /\ pc'[g] = pc[g] /\ req'[g] = req[g] /\ turn'[g] = turn[g] /\ got'[g] = got[g]
             /\ held'[g].kind = held[g].kind
    BY <1>9 DEF TypeOK, VariableTypes, Raise, Goto, Close
  <2>2. image[r] \notin Legal(r) /\ Decides(h, r) => Decides(h, r)'
    BY <1>9 DEF Decides, Legal, TypeOK, VariableTypes, HandlerOK, Raise, Goto, Close
  <2>3. QED
    BY <1>a, <2>1, <2>2, OthersDecide
<1>9a. ASSUME NEW h \in Handlers, TellOff(h)
      PROVE  LegalOrDecided(r)'
  <2>1. /\ image'[r] = image[r]
        /\ \A g \in Handlers \ {h} :
             /\ pc'[g] = pc[g] /\ req'[g] = req[g] /\ turn'[g] = turn[g] /\ got'[g] = got[g]
             /\ held'[g].kind = held[g].kind
    BY <1>9a DEF TypeOK, VariableTypes, TellOff, Goto
  <2>2. image[r] \notin Legal(r) /\ Decides(h, r) => Decides(h, r)'
    BY <1>9a DEF Decides, Legal, TypeOK, VariableTypes, HandlerOK, TellOff, Goto
  <2>3. QED
    BY <1>a, <2>1, <2>2, OthersDecide
<1>10. ASSUME NEW h \in Handlers, TestOn(h)
      PROVE  LegalOrDecided(r)'
  <2>1. /\ image'[r] = image[r]
        /\ \A g \in Handlers \ {h} :
             /\ pc'[g] = pc[g] /\ req'[g] = req[g] /\ turn'[g] = turn[g] /\ got'[g] = got[g]
             /\ held'[g].kind = held[g].kind
    BY <1>10 DEF TypeOK, VariableTypes, TestOn, Goto
  <2>2. image[r] \notin Legal(r) /\ Decides(h, r) => Decides(h, r)'
    BY <1>10 DEF Decides, Legal, TypeOK, VariableTypes, HandlerOK, TestOn, Goto
  <2>3. QED
    BY <1>a, <2>1, <2>2, OthersDecide
<1>10a. ASSUME NEW h \in Handlers, TellOn(h)
      PROVE  LegalOrDecided(r)'
  <2>1. /\ image'[r] = image[r]
        /\ \A g \in Handlers \ {h} :
             /\ pc'[g] = pc[g] /\ req'[g] = req[g] /\ turn'[g] = turn[g] /\ got'[g] = got[g]
             /\ held'[g].kind = held[g].kind
    BY <1>10a DEF TypeOK, VariableTypes, TellOn, Goto
  <2>2. image[r] \notin Legal(r) /\ Decides(h, r) => Decides(h, r)'
    BY <1>10a DEF Decides, Legal, TypeOK, VariableTypes, HandlerOK, TellOn, Goto
  <2>3. QED
    BY <1>a, <2>1, <2>2, OthersDecide
<1>11. ASSUME NEW h \in Handlers, Lower(h)
      PROVE  LegalOrDecided(r)'
  <2>1. /\ image'[r] = image[r]
        /\ \A g \in Handlers \ {h} :
             /\ pc'[g] = pc[g] /\ req'[g] = req[g] /\ turn'[g] = turn[g] /\ got'[g] = got[g]
             /\ held'[g].kind = held[g].kind
    BY <1>11 DEF TypeOK, VariableTypes, Lower, Goto, Close
  <2>2. image[r] \notin Legal(r) /\ Decides(h, r) => Decides(h, r)'
    BY <1>11 DEF Decides, Legal, TypeOK, VariableTypes, HandlerOK, Lower, Goto, Close
  <2>3. QED
    BY <1>a, <2>1, <2>2, OthersDecide
<1>12. ASSUME NEW h \in Handlers, PulseStart(h)
      PROVE  LegalOrDecided(r)'
  <2>1. /\ image'[r] = image[r]
        /\ \A g \in Handlers \ {h} :
             /\ pc'[g] = pc[g] /\ req'[g] = req[g] /\ turn'[g] = turn[g] /\ got'[g] = got[g]
             /\ held'[g].kind = held[g].kind
    BY <1>12 DEF TypeOK, VariableTypes, PulseStart, Goto
  <2>2. image[r] \notin Legal(r) /\ Decides(h, r) => Decides(h, r)'
    BY <1>12 DEF Decides, Legal, TypeOK, VariableTypes, HandlerOK, PulseStart, Goto
  <2>3. QED
    BY <1>a, <2>1, <2>2, OthersDecide
<1>13. ASSUME NEW h \in Handlers, PulseOn(h)
      PROVE  LegalOrDecided(r)'
  <2>1. SetRegister(req[h].ref, OUT_ON)
    BY <1>13 DEF PulseOn
  <2>2. CASE req[h].ref = r
    <3>1. Decides(h, r)'
      BY <1>13, <2>2 DEF PulseOn, Goto, Decides, TypeOK, VariableTypes
    <3>2. QED
      BY <3>1 DEF LegalOrDecided
  <2>3. CASE req[h].ref # r
    <3>1. /\ image'[r] = image[r]
          /\ \A g \in Handlers : req[g].ref = r => held'[g] = held[g]
      BY <2>1, <2>3, SetElsewhere
    <3>2. \A g \in Handlers \ {h} :
            pc'[g] = pc[g] /\ req'[g] = req[g] /\ turn'[g] = turn[g] /\ got'[g] = got[g]
      BY <1>13 DEF PulseOn, Goto, TypeOK, VariableTypes
    <3>3. ~Decides(h, r)
      BY <2>3 DEF Decides
    <3>4. QED
      BY <1>a, <3>1, <3>2, <3>3, OthersDecide
  <2>4. QED
    BY <2>2, <2>3
<1>14. ASSUME NEW h \in Handlers, PulseOff(h)
      PROVE  LegalOrDecided(r)'
  <2>1. SetRegister(req[h].ref, OUT_OFF)
    BY <1>14 DEF PulseOff
  <2>2. CASE req[h].ref = r
    BY <2>1, <2>2, SetLegal DEF Legal
  <2>3. CASE req[h].ref # r
    <3>1. /\ image'[r] = image[r]
          /\ \A g \in Handlers : req[g].ref = r => held'[g] = held[g]
      BY <2>1, <2>3, SetElsewhere
    <3>2. \A g \in Handlers \ {h} :
            pc'[g] = pc[g] /\ req'[g] = req[g] /\ turn'[g] = turn[g] /\ got'[g] = got[g]
      BY <1>14 DEF PulseOff, Goto, TypeOK, VariableTypes
    <3>3. ~Decides(h, r)
      BY <2>3 DEF Decides
    <3>4. QED
      BY <1>a, <3>1, <3>2, <3>3, OthersDecide
  <2>4. QED
    BY <2>2, <2>3
<1>15. ASSUME NEW h \in Handlers, ResetOff(h)
      PROVE  LegalOrDecided(r)'
  <2>1. SetRegister(req[h].ref, OUT_OFF)
    BY <1>15 DEF ResetOff
  <2>2. CASE req[h].ref = r
    BY <2>1, <2>2, SetLegal DEF Legal
  <2>3. CASE req[h].ref # r
    <3>1. /\ image'[r] = image[r]
          /\ \A g \in Handlers : req[g].ref = r => held'[g] = held[g]
      BY <2>1, <2>3, SetElsewhere
    <3>2. \A g \in Handlers \ {h} :
            pc'[g] = pc[g] /\ req'[g] = req[g] /\ turn'[g] = turn[g] /\ got'[g] = got[g]
      BY <1>15 DEF ResetOff, Goto, TypeOK, VariableTypes
    <3>3. ~Decides(h, r)
      BY <2>3 DEF Decides
    <3>4. QED
      BY <1>a, <3>1, <3>2, <3>3, OthersDecide
  <2>4. QED
    BY <2>2, <2>3
<1>16. ASSUME NEW h \in Handlers, Reset(h)
      PROVE  LegalOrDecided(r)'
  <2>1. /\ \E l \in {"resetoff", "closed", "respond"} : pc' = [pc EXCEPT ![h] = l]
        /\ UNCHANGED <<req, turn, got>>
    BY <1>16 DEF Reset, Goto, Close
  <2>2. CASE req[h].ref = r
    <3>1. UNCHANGED <<image, held>> /\ pc' = [pc EXCEPT ![h] = "resetoff"]
      BY <1>16, <2>2 DEF Reset, Goto
    <3>2. Decides(h, r)'
      BY <1>16, <2>1, <2>2, <3>1 DEF Decides, TypeOK, VariableTypes
    <3>3. QED
      BY <3>2 DEF LegalOrDecided
  <2>3. CASE req[h].ref # r
    <3>1. UNCHANGED <<image, held>> \/ SetRegister(req[h].ref, IN_OK)
      BY <1>16 DEF Reset
    <3>2. /\ image'[r] = image[r]
          /\ \A g \in Handlers : req[g].ref = r => held'[g] = held[g]
      BY <2>3, <3>1, SetElsewhere
    <3>3. \A g \in Handlers \ {h} :
            pc'[g] = pc[g] /\ req'[g] = req[g] /\ turn'[g] = turn[g] /\ got'[g] = got[g]
      BY <2>1 DEF TypeOK, VariableTypes
    <3>4. ~Decides(h, r)
      BY <2>3 DEF Decides
    <3>5. QED
      BY <1>a, <3>2, <3>3, <3>4, OthersDecide
  <2>4. QED
    BY <2>2, <2>3
<1>17. ASSUME NEW h \in Handlers, Forward(h)
      PROVE  LegalOrDecided(r)'
  <2>1. /\ image'[r] = image[r]
        /\ \A g \in Handlers \ {h} :
             /\ pc'[g] = pc[g] /\ req'[g] = req[g] /\ turn'[g] = turn[g] /\ got'[g] = got[g]
             /\ held'[g].kind = held[g].kind
    BY <1>17 DEF TypeOK, VariableTypes, Forward, Goto, Close
  <2>2. image[r] \notin Legal(r) /\ Decides(h, r) => Decides(h, r)'
    BY <1>17 DEF Decides, Legal, TypeOK, VariableTypes, HandlerOK, Forward, Goto, Close
  <2>3. QED
    BY <1>a, <2>1, <2>2, OthersDecide
<1>17a. ASSUME NEW h \in Handlers, Answer(h)
      PROVE  LegalOrDecided(r)'
  <2>1. /\ image'[r] = image[r]
        /\ \A g \in Handlers \ {h} :
             /\ pc'[g] = pc[g] /\ req'[g] = req[g] /\ turn'[g] = turn[g] /\ got'[g] = got[g]
             /\ held'[g].kind = held[g].kind
    BY <1>17a DEF TypeOK, VariableTypes, Answer, Goto
  <2>2. image[r] \notin Legal(r) /\ Decides(h, r) => Decides(h, r)'
    BY <1>17a DEF Decides, Legal, TypeOK, VariableTypes, HandlerOK, Answer, Goto
  <2>3. QED
    BY <1>a, <2>1, <2>2, OthersDecide
<1>18. ASSUME NEW s \in Sleepers, SleeperLow(s)
      PROVE  LegalOrDecided(r)'
  BY <1>18, <1>a DEF LegalOrDecided, Decides, Legal, Delayed, SleeperLow
<1>19. ASSUME NEW s \in Sleepers, SleeperHigh(s)
      PROVE  LegalOrDecided(r)'
  BY <1>19, <1>a DEF LegalOrDecided, Decides, Legal, Delayed, SleeperHigh
<1>20. ASSUME NEW k \in DOMAIN Conf.pins, Sense(k)
      PROVE  LegalOrDecided(r)'
  <2>1. SetRegister(SensePosition(k), IN_ALARM) /\ UNCHANGED <<pc, req, turn, got>>
    BY <1>20 DEF Sense
  <2>2. SensePosition(k) # r
    BY <1>20, SenseElsewhere
  <2>3. /\ image'[r] = image[r]
        /\ \A g \in Handlers : req[g].ref = r => held'[g] = held[g]
    BY <2>1, <2>2, SetElsewhere
  <2>4. QED
    BY <1>a, <2>1, <2>3 DEF LegalOrDecided, Decides, Legal, Delayed
<1>21. ASSUME NEW d \in DeviceKeys, PollRead(d)
      PROVE  LegalOrDecided(r)'
  BY <1>21, <1>a DEF LegalOrDecided, Decides, Legal, Delayed, PollRead
<1>22. ASSUME NEW d \in DeviceKeys, PollStore(d)
      PROVE  LegalOrDecided(r)'
  <2>1. SetRegister(PollPosition(Conf, d[1], d[2]), polled[d]) /\ UNCHANGED <<pc, req, turn, got>>
    BY <1>22 DEF PollStore
  <2>2. PollPosition(Conf, d[1], d[2]) # r
    BY <1>22, PollElsewhere
  <2>3. /\ image'[r] = image[r]
        /\ \A g \in Handlers : req[g].ref = r => held'[g] = held[g]
    BY <2>1, <2>2, SetElsewhere
  <2>4. QED
    BY <1>a, <2>1, <2>3 DEF LegalOrDecided, Decides, Legal, Delayed
<1>23. CASE UNCHANGED vars
  BY <1>23, <1>a DEF vars, LegalOrDecided, Decides, Legal, Delayed
<1>24. QED
  BY <1>1, <1>2, <1>3, <1>4, <1>5, <1>6, <1>7, <1>8, <1>9, <1>9a, <1>10, <1>10a, <1>11, <1>12, <1>13, <1>14, <1>15, <1>16, <1>17, <1>17a, <1>18, <1>19, <1>20, <1>21, <1>22, <1>23
  DEF Next, Handle, Pulse, Poll

\* A value that is not legal is always still to be looked at, unless the listener takes
\* the output for an input, which the property excepts: then nobody puts it right.
THEOREM IllegalDecided == Spec => []IllegalIsDecided
<1>1. Init => IllegalIsDecided
  BY InitDecided
<1>2. TypeOK /\ IllegalIsDecided /\ [Next]_vars => IllegalIsDecided'
  BY NextDecided
<1>3. QED
  BY <1>1, <1>2, TypeCorrect, PTL DEF Spec

\* So an output's register nobody works on holds a legal value, with the same exception.
THEOREM QuietLegal == Spec => []QuietRegistersLegal
<1>1. IllegalIsDecided => QuietRegistersLegal
  BY DEF IllegalIsDecided, LegalOrDecided, QuietRegistersLegal, Quiet, Decides
<1>2. QED
  BY <1>1, IllegalDecided, PTL

(***************************************************************************)
(* The pulsed relays.  PulseHeld needs only one more fact: a handler on    *)
(* its way to switch a relay on and leave it on has seen that its register *)
(* is not pulsed.                                                          *)
(***************************************************************************)
LowerIsUndelayed == \A h \in Handlers : pc[h] = "lower" => ~Delayed(req[h].ref)

PulseInv == PulseHeld /\ LowerIsUndelayed

LEMMA InitPulse == Init => PulseInv
  BY DEF Init, PulseInv, PulseHeld, LowerIsUndelayed, Outputs

LEMMA NextLower ==
  ASSUME TypeOK, LowerIsUndelayed, [Next]_vars
  PROVE  LowerIsUndelayed'
<1> SUFFICES ASSUME NEW g \in Handlers, pc'[g] = "lower"
             PROVE  ~Delayed(req'[g].ref)
  BY DEF LowerIsUndelayed, Delayed
<1> USE DEF TypeOK, VariableTypes
<1>1. ASSUME NEW h \in Handlers, Receive(h) \/ (Handle(h) /\ ~TellOn(h))
      PROVE  /\ pc[g] = "lower"
             /\ req'[g] = req[g]
  <2>1. \E l \in {"fetch", "store", "reread", "fire", "testoff", "raise", "teston",
                  "telloff", "tellon", "pulsestart", "pulseoff", "reset", "resetoff", "forward", "await",
                  "respond", "idle", "closed"} : pc' = [pc EXCEPT ![h] = l]
    BY <1>1 DEF Receive, Handle, Fetch, Store, Reread, Fire, Respond, Reconnect,
                TestOff, Raise, TellOff, TestOn, Lower, PulseOn, PulseStart, PulseOff,
                Reset, ResetOff, Forward, Answer, Goto, Close
  <2>2. g # h /\ pc'[g] = pc[g]
    BY <2>1
  <2>3. req'[g] = req[g]
    BY <1>1, <2>2 DEF Receive, Handle, Fetch, Store, Reread, Fire, Respond, Reconnect,
                TestOff, Raise, TellOff, TestOn, Lower, PulseOn, PulseStart, PulseOff,
                Reset, ResetOff, Forward, Answer
  <2>4. QED
    BY <2>2, <2>3
<1>2. ASSUME NEW h \in Handlers, TellOn(h)
      PROVE  ~Delayed(req'[g].ref)
  <2>1. CASE g = h
    BY <1>2, <2>1 DEF TellOn, Goto
  <2>2. CASE g # h
    BY <1>2, <2>2 DEF TellOn, Goto, LowerIsUndelayed
  <2>3. QED
    BY <2>1, <2>2
<1>3. ASSUME UNCHANGED <<pc, req>>
      PROVE  ~Delayed(req'[g].ref)
  BY <1>3 DEF LowerIsUndelayed
<1>4. CASE \E s \in Sleepers : Pulse(s)
  BY <1>3, <1>4 DEF Pulse, SleeperLow, SleeperHigh
<1>5. CASE \E k \in DOMAIN Conf.pins : Sense(k)
  BY <1>3, <1>5 DEF Sense
<1>6. CASE \E d \in DeviceKeys : Poll(d)
  BY <1>3, <1>6 DEF Poll, PollRead, PollStore
<1>7. CASE UNCHANGED vars
  BY <1>3, <1>7 DEF vars
<1>8. QED
  BY <1>1, <1>2, <1>4, <1>5, <1>6, <1>7 DEF Next, LowerIsUndelayed

LEMMA NextHeld ==
  ASSUME TypeOK, PulseInv, [Next]_vars
  PROVE  PulseHeld'
<1> DEFINE Witness(r, s) == sleeper[s] = [pin |-> r, phase |-> "low"]
<1> SUFFICES ASSUME NEW r \in Outputs, Delayed(r), level'[r] = "low"
             PROVE  \E s \in Sleepers : sleeper'[s] = [pin |-> r, phase |-> "low"]
  BY DEF PulseHeld, Delayed
<1> USE DEF TypeOK, VariableTypes
<1>0. r \in PinRegisters
  BY DEF Outputs
<1>1. level[r] = "low" => \E s \in Sleepers : Witness(r, s)
  BY DEF PulseInv, PulseHeld
<1>2. ASSUME UNCHANGED sleeper, level'[r] = level[r]
      PROVE  \E s \in Sleepers : sleeper'[s] = [pin |-> r, phase |-> "low"]
  BY <1>1, <1>2
<1>3. ASSUME NEW h \in Handlers, Raise(h)
      PROVE  UNCHANGED sleeper /\ level'[r] = level[r]
  BY <1>0, <1>3 DEF Raise
<1>4. ASSUME NEW h \in Handlers, Lower(h)
      PROVE  UNCHANGED sleeper /\ level'[r] = level[r]
  BY <1>0, <1>4 DEF Lower, PulseInv, LowerIsUndelayed
<1>5. ASSUME NEW h \in Handlers, Reset(h)
      PROVE  UNCHANGED sleeper /\ level'[r] = level[r]
  BY <1>0, <1>5 DEF Reset
<1>6. ASSUME NEW h \in Handlers, PulseStart(h)
      PROVE  \E s \in Sleepers : sleeper'[s] = [pin |-> r, phase |-> "low"]
  <2>1. PICK s \in Sleepers : Witness(r, s)
    BY <1>1, <1>6 DEF PulseStart
  <2>2. sleeper'[s] = sleeper[s]
    BY <1>6, <2>1 DEF PulseStart
  <2>3. QED
    BY <2>1, <2>2
<1>7. ASSUME NEW h \in Handlers,
             Receive(h) \/ Fetch(h) \/ Store(h) \/ Reread(h) \/ Fire(h) \/ Respond(h)
             \/ Reconnect(h) \/ TestOff(h) \/ TellOff(h) \/ TestOn(h) \/ TellOn(h) \/ PulseOn(h) \/ PulseOff(h)
             \/ ResetOff(h) \/ Forward(h) \/ Answer(h)
      PROVE  UNCHANGED <<sleeper, level>>
  BY <1>7 DEF Receive, Fetch, Store, Reread, Fire, Respond, Reconnect, TestOff,
              TellOff, TestOn, TellOn, PulseOn, PulseOff, ResetOff, Forward, Answer
<1>8. ASSUME NEW t \in Sleepers, SleeperLow(t)
      PROVE  \E s \in Sleepers : sleeper'[s] = [pin |-> r, phase |-> "low"]
  <2>1. CASE sleeper[t].pin = r
    <3>1. sleeper'[t] = [pin |-> r, phase |-> "low"]
      BY <1>8, <2>1 DEF SleeperLow
    <3>2. QED
      BY <3>1
  <2>2. CASE sleeper[t].pin # r
    <3>1. PICK s \in Sleepers : Witness(r, s)
      BY <1>0, <1>1, <1>8, <2>2 DEF SleeperLow
    <3>2. sleeper'[s] = sleeper[s]
      BY <1>8, <2>2, <3>1 DEF SleeperLow
    <3>3. QED
      BY <3>1, <3>2
  <2>3. QED
    BY <2>1, <2>2
<1>9. ASSUME NEW t \in Sleepers, SleeperHigh(t)
      PROVE  \E s \in Sleepers : sleeper'[s] = [pin |-> r, phase |-> "low"]
  <2>1. sleeper[t].pin # r /\ level[r] = "low"
    BY <1>0, <1>9 DEF SleeperHigh
  <2>2. PICK s \in Sleepers : Witness(r, s)
    BY <1>1, <2>1
  <2>3. sleeper'[s] = sleeper[s]
    BY <1>9, <2>1, <2>2 DEF SleeperHigh
  <2>4. QED
    BY <2>2, <2>3
<1>10. CASE \E k \in DOMAIN Conf.pins : Sense(k)
  BY <1>2, <1>10 DEF Sense
<1>11. CASE \E d \in DeviceKeys : Poll(d)
  BY <1>2, <1>11 DEF Poll, PollRead, PollStore
<1>12. CASE UNCHANGED vars
  BY <1>2, <1>12 DEF vars
<1>13. QED
  BY <1>2, <1>3, <1>4, <1>5, <1>6, <1>7, <1>8, <1>9, <1>10, <1>11, <1>12
  DEF Next, Handle, Pulse

\* No pulsed relay is ever left on without a pulse thread to switch it off.
THEOREM PulseAlwaysHeld == Spec => []PulseHeld
<1>1. Init => PulseInv
  BY InitPulse
<1>2. TypeOK /\ PulseInv /\ [Next]_vars => PulseInv'
  BY NextLower, NextHeld DEF PulseInv
<1>3. PulseInv => PulseHeld
  BY DEF PulseInv
<1>4. QED
  BY <1>1, <1>2, <1>3, TypeCorrect, PTL DEF Spec

(***************************************************************************)
(* Where a handler's request has been.  Answering is inductive: only an    *)
(* address of the pins' branch is looked at as a pin, only an output gets  *)
(* as far as the reset of its register, and an address that is forwarded   *)
(* is found by the listener's search, which never turns without end.       *)
(***************************************************************************)
AtPin == {"testoff", "raise", "telloff", "teston", "tellon", "lower",
          "pulseon", "pulsestart", "pulseoff", "reset", "resetoff"}

Dropped(ref) ==
  \/ ref \notin Registers
  \/ ref \in PinRegisters \ Outputs
  \/ Lost(ref)

HandlerPlace(h) ==
  /\ pc[h] \in AtPin => req[h].ref \in PinRegisters
  /\ pc[h] = "resetoff" => req[h].ref \in Outputs
  /\ pc[h] \in {"forward", "await"} => req[h].ref \notin PinRegisters
  /\ pc[h] = "closed" => Dropped(req[h].ref)

Answering == \A h \in Handlers : HandlerPlace(h)

\* The search for an address of the image that is not a pin's ends: at a device, or at
\* the first one, which may be missing.
LEMMA ForwardRoute ==
  ASSUME NEW ref \in Registers, ref \notin PinRegisters
  PROVE  Route(Conf, ref).kind \in {"device", "none"}
<1>1. /\ Conf.slaves \in Seq(SlaveEntry) /\ GpioSize(Conf) \in Nat /\ Len(Conf.slaves) \in Nat
      /\ SizeUpTo(Conf, Len(Conf.slaves)) \in Nat
  <2>1. Len(Conf.slaves) \in 0..Len(Conf.slaves)
    BY ConfFacts
  <2>2. QED
    BY <2>1, ConfFacts
<1>2. ref \in Nat /\ ref < GpioSize(Conf) + SizeUpTo(Conf, Len(Conf.slaves))
  BY <1>1 DEF Registers
<1>3. ~IsPinRegister(Conf, ref)
  BY <1>2, PinFacts
<1>4. CASE ref - GpioSize(Conf) > 0
  <2>1. ref - GpioSize(Conf) \in 0..(SizeUpTo(Conf, Len(Conf.slaves)) - 1)
    BY <1>1, <1>2, <1>4
  <2>2. PICK s \in 1..Len(Conf.slaves) : \E g \in 0..(Conf.slaves[s].size - 1) :
          ref - GpioSize(Conf) = SizeUpTo(Conf, s - 1) + g
    BY <1>1, <2>1, OffsetOwned
  <2>3. PICK g \in 0..(Conf.slaves[s].size - 1) :
          ref - GpioSize(Conf) = SizeUpTo(Conf, s - 1) + g
    BY <2>2
  <2>4. DeviceRoute(Conf, ref - GpioSize(Conf)) =
          [kind |-> "device", slave |-> s, reg |-> g, via |-> Conf.slaves[s].protocol]
    BY <1>1, <2>3, SearchFindsOwner
  <2>5. QED
    BY <1>3, <1>4, <2>4 DEF Route
<1>5. CASE ~(ref - GpioSize(Conf) > 0)
  BY <1>3, <1>5 DEF Route, FirstRoute
<1>6. QED
  BY <1>4, <1>5

\* What one handler does leaves the others where they are.
LEMMA OthersStay ==
  ASSUME TypeOK, NEW h \in Handlers, Receive(h) \/ Handle(h), NEW g \in Handlers, g # h
  PROVE  pc'[g] = pc[g] /\ req'[g] = req[g]
<1>1. \E l : pc' = [pc EXCEPT ![h] = l]
  BY DEF Receive, Handle, Fetch, Store, Reread, Fire, Respond, Reconnect, TestOff, Raise,
         TellOff, TestOn, TellOn, Lower, PulseOn, PulseStart, PulseOff, Reset, ResetOff,
         Forward, Answer, Goto, Close
<1>2. req' = req \/ \E q : req' = [req EXCEPT ![h] = q]
  BY DEF Receive, Handle, Fetch, Store, Reread, Fire, Respond, Reconnect, TestOff, Raise,
         TellOff, TestOn, TellOn, Lower, PulseOn, PulseStart, PulseOff, Reset, ResetOff,
         Forward, Answer
<1>3. QED
  BY <1>1, <1>2 DEF TypeOK, VariableTypes

LEMMA PlaceStep ==
  ASSUME TypeOK, NEW h \in Handlers, HandlerPlace(h), Receive(h) \/ Handle(h)
  PROVE  HandlerPlace(h)'
<1> USE DEF TypeOK, VariableTypes, AtPin
<1> DEFINE ref == req[h].ref
<1>1. pc[h] \in Creating \cup Deciding => ref \in Nat
  BY RequestsAssumption DEF HandlerOK
<1>2. CASE Receive(h)
  BY <1>2 DEF Receive, Goto, HandlerPlace
<1>3. CASE Fetch(h)
  BY <1>3 DEF Fetch, Goto, Close, HandlerPlace, Dropped, Lost
<1>4. CASE Store(h)
  BY <1>4 DEF Store, Goto, HandlerPlace
<1>5. CASE Reread(h)
  BY <1>5 DEF Reread, Goto, HandlerPlace
<1>6. CASE Fire(h)
  <2>1. IsPinRegister(Conf, ref) <=> ref \in PinRegisters
    BY <1>1, <1>6, PinFacts DEF Fire
  <2>2. QED
    BY <1>6, <2>1 DEF Fire, Goto, HandlerPlace
<1>7. CASE Respond(h) \/ Reconnect(h)
  BY <1>7 DEF Respond, Reconnect, Goto, HandlerPlace
<1>8. CASE TestOff(h) \/ TestOn(h) \/ TellOff(h) \/ TellOn(h) \/ PulseOn(h) \/ PulseStart(h)
           \/ PulseOff(h) \/ ResetOff(h)
  <2>1. /\ \E l \in (AtPin \ {"resetoff"}) \cup {"respond"} : pc' = [pc EXCEPT ![h] = l]
        /\ pc[h] \in AtPin /\ req' = req
    BY <1>8 DEF TestOff, TestOn, TellOff, TellOn, PulseOn, PulseStart, PulseOff, ResetOff,
                Goto
  <2>2. QED
    BY <2>1 DEF HandlerPlace
<1>9. CASE Raise(h) \/ Lower(h)
  <2>1. /\ pc[h] \in AtPin /\ req' = req
        /\ \/ pc' = [pc EXCEPT ![h] = "telloff"]
           \/ pc' = [pc EXCEPT ![h] = "respond"]
           \/ pc' = [pc EXCEPT ![h] = "closed"] /\ ~Output(ref)
    BY <1>9 DEF Raise, Lower, Goto, Close
  <2>2. QED
    BY <2>1 DEF HandlerPlace, Dropped, Outputs
<1>10. CASE Reset(h)
  <2>1. /\ pc[h] \in AtPin /\ req' = req
        /\ \/ pc' = [pc EXCEPT ![h] = "resetoff"] /\ Output(ref)
           \/ pc' = [pc EXCEPT ![h] = "closed"] /\ ~Output(ref)
           \/ pc' = [pc EXCEPT ![h] = "respond"]
    BY <1>10 DEF Reset, Goto, Close
  <2>2. QED
    BY <2>1 DEF HandlerPlace, Dropped, Outputs
<1>11. CASE Forward(h)
  <2>1. pc[h] = "forward" /\ ref \in Registers /\ ref \notin PinRegisters /\ req' = req
    BY <1>11 DEF Forward, HandlerOK, HandlerPlace
  <2>2. Route(Conf, ref).kind \in {"device", "none"}
    BY <2>1, ForwardRoute
  <2>3. \/ \E l \in {"await", "respond"} : pc' = [pc EXCEPT ![h] = l]
        \/ pc' = [pc EXCEPT ![h] = "closed"] /\ Lost(ref)
    BY <1>11, <2>2 DEF Forward, Goto, Close, Lost
  <2>4. QED
    BY <2>1, <2>3 DEF HandlerPlace, Dropped
<1>12. CASE Answer(h)
  BY <1>12 DEF Answer, Goto, HandlerPlace
<1>13. QED
  BY <1>2, <1>3, <1>4, <1>5, <1>6, <1>7, <1>8, <1>9, <1>10, <1>11, <1>12 DEF Handle

LEMMA AnsweringInv == TypeOK /\ Answering /\ [Next]_vars => Answering'
<1> SUFFICES ASSUME TypeOK, Answering, [Next]_vars, NEW g \in Handlers
             PROVE  HandlerPlace(g)'
  BY DEF Answering
<1>1. HandlerPlace(g)
  BY DEF Answering
<1>2. ASSUME NEW h \in Handlers, Receive(h) \/ Handle(h) PROVE HandlerPlace(g)'
  <2>1. CASE g = h
    BY <1>1, <1>2, <2>1, PlaceStep
  <2>2. CASE g # h
    <3>1. pc'[g] = pc[g] /\ req'[g] = req[g]
      BY <1>2, <2>2, OthersStay
    <3>2. QED
      BY <1>1, <3>1 DEF HandlerPlace, Dropped
  <2>3. QED
    BY <2>1, <2>2
<1>3. ASSUME UNCHANGED <<pc, req>> PROVE HandlerPlace(g)'
  BY <1>1, <1>3 DEF HandlerPlace, Dropped
<1>4. CASE \E s \in Sleepers : Pulse(s)
  BY <1>3, <1>4 DEF Pulse, SleeperLow, SleeperHigh
<1>5. CASE \E k \in DOMAIN Conf.pins : Sense(k)
  BY <1>3, <1>5 DEF Sense
<1>6. CASE \E d \in DeviceKeys : Poll(d)
  BY <1>3, <1>6 DEF Poll, PollRead, PollStore
<1>7. CASE UNCHANGED vars
  BY <1>3, <1>7 DEF vars
<1>8. QED
  BY <1>2, <1>4, <1>5, <1>6, <1>7 DEF Next

LEMMA AnsweringAlways == Spec => []Answering
<1>1. Init => Answering
  BY DEF Init, Answering, HandlerPlace, AtPin
<1>2. QED
  BY <1>1, AnsweringInv, TypeCorrect, PTL DEF Spec

\* A client is dropped only for an address outside the image, an input, or a device
\* that is missing or that the list of serial ports cannot serve.
THEOREM LegalAnswered == Spec => []LegalWritesAnswered
<1>1. Answering => LegalWritesAnswered
  BY DEF Answering, HandlerPlace, Dropped, LegalWritesAnswered
<1>2. QED
  BY <1>1, AnsweringAlways, PTL

\* Only a write of that very register takes the alarm of an input out of the image.
THEOREM AlarmsStay == Spec => AlarmStays
<1>1. ASSUME TypeOK, Answering, [Next]_vars,
             NEW r \in PinRegisters \ Outputs, image[r] = IN_ALARM, image'[r] # IN_ALARM
      PROVE  \E h \in Handlers : pc[h] \in {"store", "reset", "pulseon", "pulseoff"}
                                 /\ req[h].ref = r
  <2> USE DEF TypeOK, VariableTypes
  <2>1. r \in Registers
    BY PinFacts
  <2>2. image' # image
    BY <1>1
  <2>3. ASSUME NEW q, NEW v, SetRegister(q, v), v # IN_ALARM \/ q # r PROVE q = r
    BY <1>1, <2>1, <2>3, SetElsewhere
  <2>4. ASSUME NEW h \in Handlers, Store(h) PROVE pc[h] = "store" /\ req[h].ref = r
    BY <1>1, <2>1, <2>4 DEF Store
  <2>5. ASSUME NEW h \in Handlers, PulseOn(h) \/ PulseOff(h) \/ Reset(h)
        PROVE  pc[h] \in {"reset", "pulseon", "pulseoff"} /\ req[h].ref = r
    <3>1. \E v \in {OUT_ON, OUT_OFF, IN_OK} : SetRegister(req[h].ref, v)
      BY <2>2, <2>5 DEF PulseOn, PulseOff, Reset
    <3>2. OUT_ON # IN_ALARM /\ OUT_OFF # IN_ALARM /\ IN_OK # IN_ALARM
      BY DEF OUT_ON, OUT_OFF, IN_OK, IN_ALARM
    <3>3. QED
      BY <2>3, <2>5, <3>1, <3>2 DEF PulseOn, PulseOff, Reset
  <2>6. ASSUME NEW h \in Handlers, ResetOff(h) PROVE FALSE
    <3>1. SetRegister(req[h].ref, OUT_OFF) /\ OUT_OFF # IN_ALARM
      BY <2>6 DEF ResetOff, OUT_OFF, IN_ALARM
    <3>2. req[h].ref \in Outputs
      BY <1>1, <2>6 DEF Answering, HandlerPlace, ResetOff
    <3>3. QED
      BY <2>3, <3>1, <3>2
  <2>7. ASSUME NEW k \in DOMAIN Conf.pins, Sense(k) PROVE FALSE
    <3>1. SetRegister(SensePosition(k), IN_ALARM)
      BY <2>7 DEF Sense
    <3>2. SensePosition(k) = r
      BY <1>1, <2>1, <3>1, SetElsewhere
    <3>3. image'[r] = IN_ALARM
      BY <1>1, <2>1, <3>1, <3>2 DEF SetRegister
    <3>4. QED
      BY <1>1, <3>3
  <2>8. ASSUME NEW d \in DeviceKeys, Poll(d) PROVE FALSE
    <3>1. PollStore(d)
      BY <2>2, <2>8 DEF Poll, PollRead
    <3>2. SetRegister(PollPosition(Conf, d[1], d[2]), polled[d])
      BY <3>1 DEF PollStore
    <3>3. QED
      BY <1>1, <2>1, <3>2, PollElsewhere, SetElsewhere
  <2>9. ASSUME NEW h \in Handlers,
               Receive(h) \/ Fetch(h) \/ Reread(h) \/ Fire(h) \/ Respond(h) \/ Reconnect(h)
               \/ TestOff(h) \/ Raise(h) \/ TellOff(h) \/ TestOn(h) \/ TellOn(h)
               \/ Lower(h) \/ PulseStart(h) \/ Forward(h) \/ Answer(h)
        PROVE  FALSE
    BY <2>2, <2>9 DEF Receive, Fetch, Reread, Fire, Respond, Reconnect, TestOff, Raise,
                      TellOff, TestOn, TellOn, Lower, PulseStart, Forward, Answer
  <2>10. ASSUME NEW s \in Sleepers, Pulse(s) PROVE FALSE
    BY <2>2, <2>10 DEF Pulse, SleeperLow, SleeperHigh
  <2>11. CASE UNCHANGED vars
    BY <2>2, <2>11 DEF vars
  <2>12. QED
    BY <1>1, <2>4, <2>5, <2>6, <2>7, <2>8, <2>9, <2>10, <2>11 DEF Next, Handle
<1>2. TypeOK /\ Answering /\ [Next]_vars =>
        [\A r \in PinRegisters \ Outputs :
           image[r] = IN_ALARM /\ image'[r] # IN_ALARM
             => \E h \in Handlers : pc[h] \in {"store", "reset", "pulseon", "pulseoff"}
                                    /\ req[h].ref = r]_vars
  BY <1>1
<1>3. QED
  BY <1>2, TypeCorrect, AnsweringAlways, PTL DEF Spec, AlarmStays

(***************************************************************************)
(* One client.  With a single handler h the relay r and its register meet  *)
(* again whenever h is not at work on r: Following says what h knows of    *)
(* them at each point of its way, Announced what has been told.            *)
(***************************************************************************)
Works(h, r) == pc[h] \in Creating \cup Deciding /\ req[h].ref = r

Matched(r) == (level[r] = "low" <=> image[r] = OUT_ON) \/ image[r] = r

Following(h, r) ==
  /\ Works(h, r) \/ Matched(r)
  /\ Works(h, r) =>
       /\ pc[h] \in {"store", "reread"} => held[h].kind = "live"
       /\ pc[h] = "fire" => got[h] = image[r]
       /\ pc[h] = "raise" => image[r] = OUT_OFF
       /\ pc[h] \in {"tellon", "lower"} => image[r] = OUT_ON
       /\ pc[h] = "reset" => image[r] # OUT_ON
       /\ pc[h] = "resetoff" => level[r] = "high"
       /\ pc[h] \in {"telloff", "respond"} => Matched(r)

Announced(h, r) ==
  /\ level[r] = "low" => told[r] = "on"
  /\ pc[h] = "telloff" /\ req[h].ref = r => level[r] = "high"
  /\ pc[h] = "lower" /\ req[h].ref = r => told[r] = "on"

Plain == {r \in KnownOutputs : ~Delayed(r)}

\* Whom a relay is told under is looked up at its place in the file.
OneClient(h) ==
  \A r \in Plain : Following(h, r) /\ (Aligned /\ Used[r].alarm => Announced(h, r))

\* Only pulsed relays are pulsed.
PulsesDelayed ==
  /\ \A h \in Handlers : pc[h] \in {"pulseon", "pulsestart", "pulseoff"}
                           => Delayed(req[h].ref)
  /\ \A s \in Sleepers : sleeper[s].phase # "free" => Delayed(sleeper[s].pin)

LEMMA PulsesInv == TypeOK /\ PulsesDelayed /\ [Next]_vars => PulsesDelayed'
<1> SUFFICES ASSUME TypeOK, PulsesDelayed, [Next]_vars PROVE PulsesDelayed'
  OBVIOUS
<1> USE DEF TypeOK, VariableTypes
<1> DEFINE HandlerPart == \A g \in Handlers :
             pc[g] \in {"pulseon", "pulsestart", "pulseoff"} => Delayed(req[g].ref)
           SleeperPart == \A s \in Sleepers :
             sleeper[s].phase # "free" => Delayed(sleeper[s].pin)
<1>1. HandlerPart /\ SleeperPart
  BY DEF PulsesDelayed
<1>2. ASSUME UNCHANGED <<pc, req>> PROVE HandlerPart'
  BY <1>1, <1>2 DEF Delayed
<1>3. ASSUME UNCHANGED sleeper PROVE SleeperPart'
  BY <1>1, <1>3 DEF Delayed
<1>4. ASSUME NEW h \in Handlers, Receive(h) \/ Handle(h) PROVE PulsesDelayed'
  <2>1. ASSUME NEW g \in Handlers, pc'[g] \in {"pulseon", "pulsestart", "pulseoff"}
        PROVE  Delayed(req'[g].ref)
    <3>1. CASE g # h
      BY <1>1, <1>4, <2>1, <3>1, OthersStay
    <3>2. CASE g = h
      <4>1. TellOn(h) \/ PulseOn(h) \/ PulseStart(h)
        <5>1. ~(Receive(h) \/ Fetch(h) \/ Store(h) \/ Reread(h) \/ Fire(h))
          BY <2>1, <3>2 DEF Receive, Fetch, Store, Reread, Fire, Goto, Close
        <5>2. ~(Respond(h) \/ Reconnect(h) \/ TestOff(h) \/ Raise(h) \/ TellOff(h))
          BY <2>1, <3>2 DEF Respond, Reconnect, TestOff, Raise, TellOff, Goto, Close
        <5>3. ~(TestOn(h) \/ Lower(h) \/ PulseOff(h))
          BY <2>1, <3>2 DEF TestOn, Lower, PulseOff, Goto, Close
        <5>4. ~(Reset(h) \/ ResetOff(h) \/ Forward(h) \/ Answer(h))
          BY <2>1, <3>2 DEF Reset, ResetOff, Forward, Answer, Goto, Close
        <5>5. QED
          BY <1>4, <5>1, <5>2, <5>3, <5>4 DEF Handle
      <4>2. req'[h] = req[h] /\ (pc[h] = "tellon" => Delayed(req[h].ref))
        BY <2>1, <3>2, <4>1 DEF TellOn, PulseOn, PulseStart, Goto
      <4>3. QED
        BY <1>1, <3>2, <4>1, <4>2 DEF TellOn, PulseOn, PulseStart
    <3>3. QED
      BY <3>1, <3>2
  <2>2. SleeperPart'
    <3>1. CASE PulseStart(h)
      <4>1. Delayed(req[h].ref)
        BY <1>1, <3>1 DEF PulseStart
      <4>2. sleeper' = sleeper \/ \E s \in Sleepers :
              sleeper' = [sleeper EXCEPT ![s] = [pin |-> req[h].ref, phase |-> "start"]]
        BY <3>1 DEF PulseStart
      <4>3. \A s \in Sleepers : \/ sleeper'[s] = sleeper[s]
                               \/ sleeper'[s] = [pin |-> req[h].ref, phase |-> "start"]
        BY <4>2
      <4>4. QED
        BY <1>1, <4>1, <4>3 DEF Delayed
    <3>2. CASE ~PulseStart(h)
      <4>1. UNCHANGED sleeper
        BY <1>4, <3>2
        DEF Receive, Handle, Fetch, Store, Reread, Fire, Respond, Reconnect, TestOff, Raise,
            TellOff, TestOn, TellOn, Lower, PulseOn, PulseOff, Reset, ResetOff, Forward,
            Answer
      <4>2. QED
        BY <1>3, <4>1
    <3>3. QED
      BY <3>1, <3>2
  <2>3. QED
    BY <2>1, <2>2 DEF PulsesDelayed, Delayed
<1>5. ASSUME NEW s \in Sleepers, Pulse(s) PROVE PulsesDelayed'
  <2>1. UNCHANGED <<pc, req>>
    BY <1>5 DEF Pulse, SleeperLow, SleeperHigh
  <2>2. SleeperPart'
    <3>1. \/ sleeper' = [sleeper EXCEPT ![s].phase = "low"] /\ sleeper[s].phase = "start"
          \/ sleeper' = [sleeper EXCEPT ![s] = Asleep]
      BY <1>5 DEF Pulse, SleeperLow, SleeperHigh
    <3>2. CASE sleeper' = [sleeper EXCEPT ![s].phase = "low"] /\ sleeper[s].phase = "start"
      <4>1. \A t \in Sleepers : sleeper'[t].pin = sleeper[t].pin
        BY <3>2
      <4>2. \A t \in Sleepers : sleeper'[t].phase # "free" => sleeper[t].phase # "free"
        BY <3>2
      <4>3. QED
        BY <1>1, <4>1, <4>2 DEF Delayed
    <3>3. CASE sleeper' = [sleeper EXCEPT ![s] = Asleep]
      BY <1>1, <3>3 DEF Delayed, Asleep
    <3>4. QED
      BY <3>1, <3>2, <3>3
  <2>3. QED
    BY <1>2, <2>1, <2>2 DEF PulsesDelayed, Delayed
<1>6. CASE UNCHANGED <<pc, req, sleeper>>
  BY <1>2, <1>3, <1>6 DEF PulsesDelayed, Delayed
<1>7. CASE \E k \in DOMAIN Conf.pins : Sense(k)
  BY <1>6, <1>7 DEF Sense
<1>8. CASE \E d \in DeviceKeys : Poll(d)
  BY <1>6, <1>8 DEF Poll, PollRead, PollStore
<1>9. CASE UNCHANGED vars
  BY <1>6, <1>9 DEF vars
<1>10. QED
  BY <1>4, <1>5, <1>7, <1>8, <1>9 DEF Next

LEMMA PulsesAlways == Spec => []PulsesDelayed
<1>1. Init => PulsesDelayed
  BY DEF Init, PulsesDelayed, Asleep
<1>2. QED
  BY <1>1, PulsesInv, TypeCorrect, PTL DEF Spec

LEMMA FollowingStep ==
  ASSUME TypeOK, Answering, PulsesDelayed, NEW h \in Handlers, NEW r \in Plain,
         Following(h, r), Receive(h) \/ Handle(h)
  PROVE  Following(h, r)'
<1> USE DEF TypeOK, VariableTypes
<1>1. /\ r \in PinRegisters /\ r \in Registers /\ r \in Outputs /\ Output(r) /\ ~Delayed(r)
      /\ Conf.pins[r].scope # "in"
  BY OutputFacts DEF Plain, KnownOutputs
<1>2. req[h].ref = r => /\ pc[h] \notin {"forward", "await"}
                        /\ pc[h] \notin {"pulseon", "pulsestart", "pulseoff"}
  BY <1>1 DEF Answering, HandlerPlace, PulsesDelayed
<1>3. CASE Receive(h)
  BY <1>3 DEF Receive, Goto, Following, Works, Matched
<1>4. CASE Fetch(h)
  BY <1>1, <1>4 DEF Fetch, Goto, Close, Following, Works, Matched, Live
<1>5. CASE Store(h)
  <2>1. pc' = [pc EXCEPT ![h] = "reread"] /\ req' = req /\ level' = level /\ pc[h] = "store"
    BY <1>5 DEF Store, Goto
  <2>2. CASE req[h].ref = r
    BY <1>5, <2>1, <2>2 DEF Store, Following, Works
  <2>3. CASE req[h].ref # r
    <3>1. image'[r] = image[r]
      BY <1>1, <1>5, <2>3 DEF Store
    <3>2. QED
      BY <2>1, <2>3, <3>1 DEF Following, Works, Matched
  <2>4. QED
    BY <2>2, <2>3
<1>6. CASE Reread(h)
  BY <1>1, <1>6 DEF Reread, Goto, Following, Works, Matched
<1>7. CASE Fire(h)
  BY <1>1, <1>7, OutputFacts DEF Fire, Goto, Following, Works, Matched
<1>8. CASE Respond(h) \/ Reconnect(h)
  BY <1>8 DEF Respond, Reconnect, Goto, Following, Works, Matched
<1>9. CASE TestOff(h) \/ TestOn(h)
  BY <1>1, <1>9 DEF TestOff, TestOn, Goto, Following, Works, Matched
<1>10. CASE Raise(h) \/ Lower(h)
  BY <1>1, <1>10 DEF Raise, Lower, Goto, Close, Following, Works, Matched, OUT_ON, OUT_OFF
<1>11. CASE TellOff(h) \/ TellOn(h)
  BY <1>1, <1>11 DEF TellOff, TellOn, Goto, Following, Works, Matched
<1>12. ASSUME NEW q, NEW v, SetRegister(q, v), q # r, q = req[h].ref,
              level' = level, req' = req, pc' = [pc EXCEPT ![h] = pc'[h]]
       PROVE  Following(h, r)'
  <2>1. image'[r] = image[r]
    BY <1>1, <1>12, SetElsewhere
  <2>2. QED
    BY <1>12, <2>1 DEF Following, Works, Matched
<1>13. CASE PulseOn(h) \/ PulseOff(h)
  <2>1. req[h].ref # r
    BY <1>2, <1>13 DEF PulseOn, PulseOff
  <2>2. QED
    BY <1>12, <1>13, <2>1 DEF PulseOn, PulseOff, Goto
<1>14. CASE PulseStart(h)
  BY <1>2, <1>14 DEF PulseStart, Goto, Following, Works, Matched
<1>15. CASE Reset(h)
  <2>1. CASE req[h].ref = r
    <3>1. /\ level' = [level EXCEPT ![r] = "high"] /\ pc' = [pc EXCEPT ![h] = "resetoff"]
          /\ UNCHANGED <<image, req>>
      BY <1>1, <1>15, <2>1 DEF Reset, Goto
    <3>2. QED
      BY <1>1, <2>1, <3>1 DEF Following, Works
  <2>2. CASE req[h].ref # r
    <3>1. UNCHANGED image \/ SetRegister(req[h].ref, IN_OK)
      BY <1>15 DEF Reset
    <3>2. image'[r] = image[r]
      BY <1>1, <2>2, <3>1, SetElsewhere
    <3>3. level'[r] = level[r] /\ req' = req /\ \E l : pc' = [pc EXCEPT ![h] = l]
      BY <1>1, <1>15, <2>2 DEF Reset, Goto, Close
    <3>4. QED
      BY <2>2, <3>2, <3>3 DEF Following, Works, Matched
  <2>3. QED
    BY <2>1, <2>2
<1>16. CASE ResetOff(h)
  <2>1. CASE req[h].ref = r
    <3>1. /\ image'[r] = OUT_OFF /\ level' = level /\ req' = req
          /\ pc' = [pc EXCEPT ![h] = "respond"] /\ pc[h] = "resetoff"
      BY <1>1, <1>16, <2>1 DEF ResetOff, Goto, SetRegister
    <3>2. OUT_OFF # OUT_ON
      BY DEF OUT_OFF, OUT_ON
    <3>3. QED
      BY <1>1, <2>1, <3>1, <3>2 DEF Following, Works, Matched
  <2>2. CASE req[h].ref # r
    BY <1>12, <1>16, <2>2 DEF ResetOff, Goto
  <2>3. QED
    BY <2>1, <2>2
<1>17. CASE Forward(h) \/ Answer(h)
  BY <1>2, <1>17 DEF Forward, Answer, Goto, Close, Following, Works, Matched
<1>18. QED
  BY <1>3, <1>4, <1>5, <1>6, <1>7, <1>8, <1>9, <1>10, <1>11, <1>13, <1>14, <1>15, <1>16,
     <1>17 DEF Handle

\* What a handler tells about r, and when it drives r.
LEMMA AnnouncedStep ==
  ASSUME Aligned, TypeOK, Answering, PulsesDelayed, NEW h \in Handlers, NEW r \in Plain,
         Used[r].alarm, Following(h, r), Announced(h, r), Receive(h) \/ Handle(h)
  PROVE  Announced(h, r)'
<1> USE DEF TypeOK, VariableTypes
<1>1. /\ r \in PinRegisters /\ r \in Outputs /\ Output(r) /\ ~Delayed(r)
      /\ r \in DOMAIN Conf.pins /\ Conf.pins[r].alarm
  <2>1. r \in PinRegisters /\ r \in Outputs /\ Output(r) /\ ~Delayed(r)
    BY OutputFacts DEF Plain, KnownOutputs
  <2>2. r \in DOMAIN Used
    BY <2>1 DEF PinRegisters
  <2>3. QED
    BY <2>1, <2>2 DEF Aligned
<1>2. CASE Raise(h)
  BY <1>1, <1>2 DEF Raise, Goto, Close, Announced
<1>3. CASE TellOff(h)
  <2>1. \/ told' = told /\ req[h].ref # r
        \/ told' = [told EXCEPT ![req[h].ref] = "off"]
    BY <1>1, <1>3 DEF TellOff, Tell
  <2>2. pc' = [pc EXCEPT ![h] = "respond"] /\ UNCHANGED <<level, req>> /\ pc[h] = "telloff"
    BY <1>3 DEF TellOff, Goto
  <2>3. QED
    BY <1>1, <2>1, <2>2 DEF Announced
<1>4. CASE TellOn(h)
  <2>1. \/ told' = told /\ req[h].ref # r
        \/ told' = [told EXCEPT ![req[h].ref] = "on"]
    BY <1>1, <1>4 DEF TellOn, Tell
  <2>2. /\ \E l \in {"pulseon", "lower"} : pc' = [pc EXCEPT ![h] = l]
        /\ UNCHANGED <<level, req>>
    BY <1>4 DEF TellOn, Goto
  <2>3. QED
    BY <1>1, <2>1, <2>2 DEF Announced
<1>5. CASE Lower(h)
  BY <1>1, <1>5 DEF Lower, Goto, Close, Announced
<1>6. CASE Reset(h)
  <2>1. /\ \E l \in {"resetoff", "closed", "respond"} : pc' = [pc EXCEPT ![h] = l]
        /\ UNCHANGED <<told, req>>
        /\ level' = level \/ level' = [level EXCEPT ![req[h].ref] = "high"]
    BY <1>6 DEF Reset, Goto, Close
  <2>2. QED
    BY <1>1, <2>1 DEF Announced
<1>7. CASE Receive(h) \/ Fetch(h) \/ Store(h) \/ Reread(h) \/ Fire(h) \/ Respond(h)
           \/ Reconnect(h) \/ TestOff(h) \/ TestOn(h) \/ PulseOn(h) \/ PulseStart(h)
           \/ PulseOff(h) \/ ResetOff(h) \/ Forward(h) \/ Answer(h)
  <2>1. /\ UNCHANGED <<level, told>>
        /\ \E l \in {"fetch", "store", "reread", "fire", "testoff", "raise", "teston", "tellon",
                     "pulsestart", "pulseoff", "reset", "forward", "await", "respond",
                     "idle", "closed"} : pc' = [pc EXCEPT ![h] = l]
    BY <1>7 DEF Receive, Fetch, Store, Reread, Fire, Respond, Reconnect, TestOff, TestOn,
                PulseOn, PulseStart, PulseOff, ResetOff, Forward, Answer, Goto, Close
  <2>2. QED
    BY <2>1 DEF Announced
<1>8. QED
  BY <1>2, <1>3, <1>4, <1>5, <1>6, <1>7 DEF Handle

\* Steps of the sensors, the poller and the pulses do not touch a plain relay.
LEMMA ElsewhereStep ==
  ASSUME TypeOK, PulsesDelayed, NEW h \in Handlers, NEW r \in Plain,
         \/ \E s \in Sleepers : Pulse(s)
         \/ \E k \in DOMAIN Conf.pins : Sense(k)
         \/ \E d \in DeviceKeys : Poll(d)
         \/ UNCHANGED vars
  PROVE  /\ pc' = pc /\ req' = req /\ got' = got
         /\ image'[r] = image[r] /\ level'[r] = level[r]
         /\ Aligned => told'[r] = told[r]
         /\ req[h].ref = r => held'[h] = held[h]
<1> USE DEF TypeOK, VariableTypes
<1>1. /\ r \in PinRegisters /\ r \in Registers /\ ~Delayed(r)
      /\ Conf.pins[r].scope # "in"
      /\ Aligned => r \in DOMAIN Conf.pins
  <2>1. r \in PinRegisters /\ r \in Registers /\ ~Delayed(r) /\ Conf.pins[r].scope # "in"
    BY OutputFacts DEF Plain
  <2>2. r \in DOMAIN Used
    BY <2>1 DEF PinRegisters
  <2>3. QED
    BY <2>1, <2>2 DEF Aligned
<1>2. ASSUME NEW s \in Sleepers, Pulse(s)
      PROVE  /\ UNCHANGED <<pc, req, got, image, told, held>>
             /\ level'[r] = level[r]
  <2>1. /\ sleeper[s].phase # "free"
        /\ \E v : level' = [level EXCEPT ![sleeper[s].pin] = v]
        /\ UNCHANGED <<pc, req, got, image, told, held>>
    BY <1>2 DEF Pulse, SleeperLow, SleeperHigh
  <2>2. sleeper[s].pin # r
    BY <1>1, <2>1 DEF PulsesDelayed
  <2>3. QED
    BY <1>1, <2>1, <2>2
<1>3. ASSUME NEW k \in DOMAIN Conf.pins, Sense(k)
      PROVE  /\ UNCHANGED <<pc, req, got, level>>
             /\ image'[r] = image[r] /\ (Aligned => told'[r] = told[r])
             /\ req[h].ref = r => held'[h] = held[h]
  <2>1. /\ SetRegister(SensePosition(k), IN_ALARM) /\ Conf.pins[k].scope = "in"
        /\ told' = told \/ told' = [told EXCEPT ![k] = "changed"]
        /\ UNCHANGED <<pc, req, got, level>>
    BY <1>3 DEF Sense, Tell
  <2>2. k # r /\ SensePosition(k) # r
    BY <1>1, <2>1 DEF SensePosition
  <2>3. QED
    BY <1>1, <2>1, <2>2, SetElsewhere
<1>4. ASSUME NEW d \in DeviceKeys, Poll(d)
      PROVE  /\ UNCHANGED <<pc, req, got, level, told>>
             /\ image'[r] = image[r]
             /\ req[h].ref = r => held'[h] = held[h]
  <2>1. CASE PollRead(d)
    BY <2>1 DEF PollRead
  <2>2. CASE PollStore(d)
    <3>1. /\ SetRegister(PollPosition(Conf, d[1], d[2]), polled[d])
          /\ UNCHANGED <<pc, req, got, level, told>>
      BY <2>2 DEF PollStore
    <3>2. PollPosition(Conf, d[1], d[2]) # r
      BY <1>1, PollElsewhere
    <3>3. QED
      BY <1>1, <3>1, <3>2, SetElsewhere
  <2>3. QED
    BY <1>4, <2>1, <2>2 DEF Poll
<1>5. CASE UNCHANGED vars
  BY <1>5 DEF vars
<1>6. QED
  BY <1>2, <1>3, <1>4, <1>5

LEMMA OneClientInv ==
  ASSUME NEW h \in Handlers, Handlers = {h}
  PROVE  Spec => []OneClient(h)
<1>1. Init => OneClient(h)
  <2>1. SUFFICES ASSUME Init, NEW r \in Plain
                 PROVE  Following(h, r) /\ Announced(h, r)
    BY DEF OneClient
  <2>2. r \in Registers /\ r \in PinRegisters /\ Output(r) /\ r # 0
    BY OutputFacts, PinFacts, ConfFacts DEF Plain
  <2>3. image[r] = OUT_OFF /\ level[r] = "high" /\ pc[h] = "idle" /\ OUT_OFF # OUT_ON
    BY <2>1, <2>2 DEF Init, InitialValue, OUT_OFF, OUT_ON
  <2>4. QED
    BY <2>3 DEF Following, Announced, Works, Matched
<1>2. TypeOK /\ Answering /\ PulsesDelayed /\ OneClient(h) /\ [Next]_vars => OneClient(h)'
  <2> SUFFICES ASSUME TypeOK, Answering, PulsesDelayed, OneClient(h), [Next]_vars,
                      NEW r \in Plain
               PROVE  /\ Following(h, r)'
                      /\ Aligned /\ Used[r].alarm => Announced(h, r)'
    BY DEF OneClient, Plain, KnownOutputs, Delayed, Outputs, Output, Aligned
  <2>1. Following(h, r) /\ (Aligned /\ Used[r].alarm => Announced(h, r))
    BY DEF OneClient
  <2>2. CASE Receive(h) \/ Handle(h)
    BY <2>1, <2>2, FollowingStep, AnnouncedStep
  <2>3. CASE ~(Receive(h) \/ Handle(h))
    <3>1. /\ pc' = pc /\ req' = req /\ got' = got
          /\ image'[r] = image[r] /\ level'[r] = level[r]
          /\ Aligned => told'[r] = told[r]
          /\ req[h].ref = r => held'[h] = held[h]
      BY <2>3, ElsewhereStep DEF Next
    <3>2. QED
      BY <2>1, <3>1 DEF Following, Announced, Works, Matched
  <2>4. QED
    BY <2>2, <2>3
<1>3. QED
  BY <1>1, <1>2, TypeCorrect, AnsweringAlways, PulsesAlways, PTL DEF Spec

\* With one client (Handlers is a singleton), a relay that is not pulsed is on exactly
\* while its register says so, whenever nobody works on it.  Any configuration, unused
\* pins in any place of the file: the property itself excepts the relays at whose place
\* in the file there is an input (KnownOutputs), for which it is false.
THEOREM RelayFollows ==
  ASSUME NEW h \in Handlers, Handlers = {h}
  PROVE  Spec => []RelayFollowsRegister
<1>1. OneClient(h) => RelayFollowsRegister
  BY DEF OneClient, Following, Works, Matched, Plain, RelayFollowsRegister, Quiet
<1>2. QED
  BY <1>1, OneClientInv, PTL

\* With one client, a relay that is left on was last announced as on, where unused pins
\* come last in the file, which is a premise of the property.
THEOREM LeftOnTold ==
  ASSUME NEW h \in Handlers, Handlers = {h}
  PROVE  Spec => []LeftOnIsTold
<1>1. CASE Aligned
  <2>1. OneClient(h) => LeftOnIsTold
    BY <1>1, AllKnown DEF OneClient, Announced, Plain, LeftOnIsTold
  <2>2. QED
    BY <1>1, <2>1, OneClientInv, PTL
<1>2. CASE ~Aligned
  <2>1. LeftOnIsTold
    BY <1>2 DEF LeftOnIsTold
  <2>2. QED
    BY <2>1, PTL
<1>3. QED
  BY <1>1, <1>2

=============================================================================
