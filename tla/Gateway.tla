------------------------------ MODULE Gateway -------------------------------
(***************************************************************************)
(* The gateway while it serves: the modbus handlers that apply a client's  *)
(* write and drive the relays, the relay pulses, the sensors and the       *)
(* poller, all sharing one process image without a lock.                   *)
(*                                                                         *)
(* A register of the image is an object: setValue changes it in place,     *)
(* SimpleProcessImage.setRegister puts ANOTHER object in its place.  A     *)
(* handler that fetched the old object goes on writing into that one, and  *)
(* its write is lost to the image.  image holds the value of the object    *)
(* that is in place; a handler's stale object is kept in held, with the    *)
(* handlers that lost the same object at the same time (mates).            *)
(*                                                                         *)
(* The configuration file does not change here, so the listener's          *)
(* conf.readFromFile() always yields Conf.  The image was built by Boot,   *)
(* with an output in gpioList for every used pin of scope "out".           *)
(***************************************************************************)
EXTENDS RegisterMap

CONSTANTS
  Conf,          \* the configuration
  Handlers,      \* pool threads, each serving one modbus client
  Sleepers,      \* bound on the relay pulses under way at once
  Requests,      \* the writes clients send: [ref, val]
  MaxRequests,   \* bound on the number of writes
  Field,         \* values the devices may hold at first
  DevicesFail,   \* whether a device may be out of reach
  None           \* model value: nothing here

(***************************************************************************)
(* What the configuration file holds, and what clients and devices send.   *)
(***************************************************************************)
PinEntry == [use : BOOLEAN, scope : {"in", "out"}, alarm : BOOLEAN, delay : BOOLEAN]

ASSUME ConfAssumption ==
  /\ Conf.gpioEnable \in BOOLEAN
  /\ Conf.pins \in Seq(PinEntry)
  /\ Conf.slaves \in Seq(SlaveEntry)

ASSUME RequestsAssumption ==
  /\ Requests \subseteq [ref : Nat, val : Nat]
  /\ MaxRequests \in Nat
  /\ Field \subseteq Nat

ASSUME NoneAssumption == None \notin Nat /\ None \notin Requests

VARIABLES
  image,     \* register -> value of the object in place
  level,     \* pin register -> "low" (relay on) or "high" (relay off)
  told,      \* position in conf.pins -> the last notification about that pin
  pc,        \* handler -> what it does next
  req,       \* handler -> the request it serves
  turn,      \* handler -> which of its three calls of createResponse
  held,      \* handler -> the register object it fetched
  got,       \* handler -> getRegisterValue() of the last response
  sleeper,   \* pulse thread -> [pin, phase]
  field,     \* device register -> the value in the device
  polled,    \* device register -> a reading not yet stored
  served     \* number of writes received

vars == <<image, level, told, pc, req, turn, held, got, sleeper, field,
          polled, served>>

-----------------------------------------------------------------------------
Used == PinsUsed(Conf)

PinRegisters == IF Conf.gpioEnable THEN DOMAIN Used ELSE {}

Registers == 0..(GpioSize(Conf) + SizeUpTo(Conf, Len(Conf.slaves)) - 1)

\* The registers of the slaves, as <<slave from 1, register from 0>>.
DeviceKeys ==
  UNION {{i} \X (0..(Conf.slaves[i].size - 1)) : i \in DOMAIN Conf.slaves}

\* gpioList.get(r - 1) is null unless r is an output.
Output(r)  == r \in PinRegisters /\ Used[r].scope = "out"
Delayed(r) == Used[r].delay

\* A reading of -1 is stored in 16 bits and read back unsigned.
Unreachable == 65535

Values == Nat

Free == [kind |-> "none", mates |-> {}, val |-> 0]
Live == [kind |-> "live", mates |-> {}, val |-> 0]

Asleep == [pin |-> None, phase |-> "free"]

Creating == {"fetch", "store", "reread"}
Deciding == {"fire", "testoff", "raise", "telloff", "teston", "tellon", "lower",
             "pulseon", "pulsestart", "pulseoff", "reset", "resetoff", "forward",
             "await", "respond"}

VariableTypes ==
  /\ image \in [Registers -> Values]
  /\ level \in [PinRegisters -> {"low", "high"}]
  /\ told \in [DOMAIN Conf.pins -> {"none", "on", "off", "changed"}]
  /\ pc \in [Handlers -> Creating \cup Deciding \cup {"idle", "closed"}]
  /\ req \in [Handlers -> Requests \cup {None}]
  /\ turn \in [Handlers -> 1..3]
  /\ held \in [Handlers -> [kind  : {"none", "live", "stale"},
                            mates : SUBSET Handlers,
                            val   : Values]]
  /\ got \in [Handlers -> Values]
  /\ sleeper \in [Sleepers -> [pin   : PinRegisters \cup {None},
                               phase : {"free", "start", "low"}]]
  /\ field \in [DeviceKeys -> Values]
  /\ polled \in [DeviceKeys -> Values \cup {None}]
  /\ served \in 0..MaxRequests

\* What a handler's variables mean at each point of its run.
HandlerOK(h) ==
  /\ pc[h] \in Creating \cup Deciding => req[h] \in Requests
  /\ pc[h] \in {"store", "reread"} \cup Deciding => req[h].ref \in Registers
  /\ held[h].kind # "none" => pc[h] \in {"store", "reread"}

(***************************************************************************)
(* Every variable keeps its type; a handler that works has a request, an   *)
(* address the image knows once it has fetched the register, and an object *)
(* only between fetching it and reading it back.                           *)
(***************************************************************************)
TypeOK == VariableTypes /\ \A h \in Handlers : HandlerOK(h)

-----------------------------------------------------------------------------
InitialValue(r) ==
  IF r = 0 THEN STATUS_OK
  ELSE IF r \in PinRegisters THEN IF Output(r) THEN OUT_OFF ELSE IN_OK
  ELSE 0

Init ==
  /\ image = [r \in Registers |-> InitialValue(r)]
  /\ level = [r \in PinRegisters |-> "high"]
  /\ told = [i \in DOMAIN Conf.pins |-> "none"]
  /\ pc = [h \in Handlers |-> "idle"]
  /\ req = [h \in Handlers |-> None]
  /\ turn = [h \in Handlers |-> 1]
  /\ held = [h \in Handlers |-> Free]
  /\ got = [h \in Handlers |-> 0]
  /\ sleeper = [s \in Sleepers |-> Asleep]
  /\ field \in [DeviceKeys -> Field]
  /\ polled = [d \in DeviceKeys |-> None]
  /\ served = 0

(***************************************************************************)
(* SimpleProcessImage.setRegister: a new object in place of the old one,   *)
(* which those who had fetched it keep.                                    *)
(***************************************************************************)
Holders(r) == {g \in Handlers : held[g].kind = "live" /\ req[g].ref = r}

SetRegister(r, v) ==
  /\ image' = [image EXCEPT ![r] = v]
  /\ held' = [g \in Handlers |->
                IF g \in Holders(r)
                THEN [kind |-> "stale", mates |-> Holders(r), val |-> image[r]]
                ELSE held[g]]

Goto(h, l) == pc' = [pc EXCEPT ![h] = l]

\* An exception in the handler: TCPConnectionHandler's finally closes the connection.
Close(h) == Goto(h, "closed")

Tell(i, what) == told' = IF Conf.pins[i].alarm THEN [told EXCEPT ![i] = what] ELSE told

-----------------------------------------------------------------------------
(***************************************************************************)
(* TCPConnectionHandler.run and WriteSingleRegisterRequest.createResponse. *)
(* createResponse applies the write, and run calls it three times: for the *)
(* answer, for the event's old value (the register's address) and for its  *)
(* new value (the register, read back).                                    *)
(***************************************************************************)
Receive(h) ==
  /\ pc[h] = "idle"
  /\ served < MaxRequests
  /\ \E r \in Requests : req' = [req EXCEPT ![h] = r]
  /\ turn' = [turn EXCEPT ![h] = 1]
  /\ served' = served + 1
  /\ Goto(h, "fetch")
  /\ UNCHANGED <<image, level, told, held, got, sleeper, field, polled>>

\* getRegister; an ExceptionResponse fails the cast of the second call.
Fetch(h) ==
  /\ pc[h] = "fetch"
  /\ IF req[h].ref \in Registers
     THEN /\ held' = [held EXCEPT ![h] = Live]
          /\ Goto(h, "store")
     ELSE /\ UNCHANGED held
          /\ Close(h)
  /\ UNCHANGED <<image, level, told, req, turn, got, sleeper, field, polled, served>>

\* reg.setValue
Store(h) ==
  /\ pc[h] = "store"
  /\ IF held[h].kind = "live"
     THEN /\ image' = [image EXCEPT ![req[h].ref] = req[h].val]
          /\ UNCHANGED held
     ELSE /\ UNCHANGED image
          /\ held' = [g \in Handlers |->
                        IF held[g].kind = "stale" /\ held[g].mates = held[h].mates
                        THEN [held[g] EXCEPT !.val = req[h].val]
                        ELSE held[g]]
  /\ Goto(h, "reread")
  /\ UNCHANGED <<level, told, req, turn, got, sleeper, field, polled, served>>

\* reg.getValue, and the next call of createResponse
Reread(h) ==
  /\ pc[h] = "reread"
  /\ got' = [got EXCEPT ![h] = IF held[h].kind = "live" THEN image[req[h].ref]
                                                       ELSE held[h].val]
  /\ held' = [held EXCEPT ![h] = Free]
  /\ IF turn[h] < 3
     THEN /\ turn' = [turn EXCEPT ![h] = turn[h] + 1]
          /\ Goto(h, "fetch")
     ELSE /\ UNCHANGED turn
          /\ Goto(h, "fire")
  /\ UNCHANGED <<image, level, told, req, sleeper, field, polled, served>>

(***************************************************************************)
(* PropertyChangeSupport fires nothing when the old value equals the new   *)
(* one, and here "old" is the address and "new" the value written.         *)
(***************************************************************************)
Fire(h) ==
  /\ pc[h] = "fire"
  /\ Goto(h, IF got[h] = req[h].ref THEN "respond"
             ELSE IF IsPinRegister(Conf, req[h].ref) THEN "testoff"
             ELSE "forward")
  /\ UNCHANGED <<image, level, told, req, turn, held, got, sleeper, field, polled, served>>

Respond(h) ==
  /\ pc[h] = "respond"
  /\ Goto(h, "idle")
  /\ req' = [req EXCEPT ![h] = None]
  /\ got' = [got EXCEPT ![h] = 0]
  /\ UNCHANGED <<image, level, told, turn, held, sleeper, field, polled, served>>

\* The pool thread takes the next connection.
Reconnect(h) ==
  /\ pc[h] = "closed"
  /\ Goto(h, "idle")
  /\ req' = [req EXCEPT ![h] = None]
  /\ got' = [got EXCEPT ![h] = 0]
  /\ UNCHANGED <<image, level, told, turn, held, sleeper, field, polled, served>>

-----------------------------------------------------------------------------
(***************************************************************************)
(* Listener.propertyChange, a register of a pin.  It acts on what the      *)
(* register holds NOW, and reads it once for each comparison.              *)
(***************************************************************************)
TestOff(h) ==
  /\ pc[h] = "testoff"
  /\ Goto(h, IF image[req[h].ref] = OUT_OFF THEN "raise" ELSE "teston")
  /\ UNCHANGED <<image, level, told, req, turn, held, got, sleeper, field, polled, served>>

\* Mutant of Raise: gpioList.get(register), not register - 1.
NextPinRaise(h) ==
  /\ pc[h] = "raise"
  /\ IF Output(req[h].ref + 1)
     THEN /\ level' = [level EXCEPT ![req[h].ref + 1] = "high"]
          /\ Goto(h, "telloff")
     ELSE /\ UNCHANGED level
          /\ Close(h)
  /\ UNCHANGED <<image, told, req, turn, held, got, sleeper, field, polled, served>>

Raise(h) ==
  /\ pc[h] = "raise"
  /\ IF Output(req[h].ref)
     THEN /\ level' = [level EXCEPT ![req[h].ref] = "high"]
          /\ Goto(h, "telloff")
     ELSE /\ UNCHANGED level
          /\ Close(h)
  /\ UNCHANGED <<image, told, req, turn, held, got, sleeper, field, polled, served>>

\* The notification of "off" is started after the relay is switched.
TellOff(h) ==
  /\ pc[h] = "telloff"
  /\ Tell(req[h].ref, "off")
  /\ Goto(h, "respond")
  /\ UNCHANGED <<image, level, req, turn, held, got, sleeper, field, polled, served>>

\* Mutant of TestOn: a wrong value is left alone.
LenientTestOn(h) ==
  /\ pc[h] = "teston"
  /\ Goto(h, IF image[req[h].ref] # OUT_ON THEN "respond" ELSE "tellon")
  /\ UNCHANGED <<image, level, told, req, turn, held, got, sleeper, field, polled, served>>

TestOn(h) ==
  /\ pc[h] = "teston"
  /\ Goto(h, IF image[req[h].ref] # OUT_ON THEN "reset" ELSE "tellon")
  /\ UNCHANGED <<image, level, told, req, turn, held, got, sleeper, field, polled, served>>

\* Mutants of TellOn: the delay is looked up in conf.pins, as the scope is; nobody
\* is told.
FilePlaceTellOn(h) ==
  /\ pc[h] = "tellon"
  /\ Tell(req[h].ref, "on")
  /\ Goto(h, IF Conf.pins[req[h].ref].delay THEN "pulseon" ELSE "lower")
  /\ UNCHANGED <<image, level, req, turn, held, got, sleeper, field, polled, served>>

UntoldTellOn(h) ==
  /\ pc[h] = "tellon"
  /\ Goto(h, IF Delayed(req[h].ref) THEN "pulseon" ELSE "lower")
  /\ UNCHANGED <<image, level, told, req, turn, held, got, sleeper, field, polled, served>>

\* The notification of "on" is started before, even for an input, whose null output
\* throws then.
TellOn(h) ==
  /\ pc[h] = "tellon"
  /\ Tell(req[h].ref, "on")
  /\ Goto(h, IF Delayed(req[h].ref) THEN "pulseon" ELSE "lower")
  /\ UNCHANGED <<image, level, req, turn, held, got, sleeper, field, polled, served>>

Lower(h) ==
  /\ pc[h] = "lower"
  /\ IF Output(req[h].ref)
     THEN /\ level' = [level EXCEPT ![req[h].ref] = "low"]
          /\ Goto(h, "respond")
     ELSE /\ UNCHANGED level
          /\ Close(h)
  /\ UNCHANGED <<image, told, req, turn, held, got, sleeper, field, polled, served>>

PulseOn(h) ==
  /\ pc[h] = "pulseon"
  /\ SetRegister(req[h].ref, OUT_ON)
  /\ Goto(h, "pulsestart")
  /\ UNCHANGED <<level, told, req, turn, got, sleeper, field, polled, served>>

\* A thread started for an input dies on its null pin.
PulseStart(h) ==
  /\ pc[h] = "pulsestart"
  /\ IF Output(req[h].ref)
     THEN \E s \in Sleepers :
            /\ sleeper[s].phase = "free"
            /\ sleeper' = [sleeper EXCEPT ![s] = [pin |-> req[h].ref, phase |-> "start"]]
     ELSE UNCHANGED sleeper
  /\ Goto(h, "pulseoff")
  /\ UNCHANGED <<image, level, told, req, turn, held, got, field, polled, served>>

\* Mutant of PulseOff: the register is left on.
StuckPulseOff(h) ==
  /\ pc[h] = "pulseoff"
  /\ Goto(h, "respond")
  /\ UNCHANGED <<image, held, level, told, req, turn, got, sleeper, field, polled, served>>

PulseOff(h) ==
  /\ pc[h] = "pulseoff"
  /\ SetRegister(req[h].ref, OUT_OFF)
  /\ Goto(h, "respond")
  /\ UNCHANGED <<level, told, req, turn, got, sleeper, field, polled, served>>

(***************************************************************************)
(* Any other value: the output is switched off and its register put back,  *)
(* or the alarm of an input is acknowledged.  The scope is looked up in    *)
(* conf.pins, the alarm flag in conf.pinsUsed.                             *)
(***************************************************************************)
Reset(h) ==
  /\ pc[h] = "reset"
  /\ LET r == req[h].ref IN
       CASE Conf.pins[r].scope # "in" /\ Output(r) ->
              /\ level' = [level EXCEPT ![r] = "high"]
              /\ Goto(h, "resetoff")
              /\ UNCHANGED <<image, held>>
         [] Conf.pins[r].scope # "in" /\ ~Output(r) ->
              /\ Close(h)
              /\ UNCHANGED <<image, level, held>>
         [] Conf.pins[r].scope = "in" ->
              /\ IF Used[r].alarm THEN SetRegister(r, IN_OK)
                                  ELSE UNCHANGED <<image, held>>
              /\ Goto(h, "respond")
              /\ UNCHANGED level
  /\ UNCHANGED <<told, req, turn, got, sleeper, field, polled, served>>

ResetOff(h) ==
  /\ pc[h] = "resetoff"
  /\ SetRegister(req[h].ref, OUT_OFF)
  /\ Goto(h, "respond")
  /\ UNCHANGED <<level, told, req, turn, got, sleeper, field, polled, served>>

(***************************************************************************)
(* Listener.propertyChange, any other register: the event's new value goes *)
(* to the device the search finds.  A failing write is swallowed, and so   *)
(* is a tcp write to the serial port of an rtu slave.  For an rtu slave    *)
(* the listener looks through the ports of ALL slaves, and a slave that is *)
(* not rtu has a null in that list: NullPort.                              *)
(*                                                                         *)
(* An access over the serial line ends by its timeouts.  One over tcp has  *)
(* none: the handler awaits the device, which may have taken the write and *)
(* then keep silent for ever.                                              *)
(***************************************************************************)
NullPort == \E i \in DOMAIN Conf.slaves : Conf.slaves[i].protocol # "rtu"

Deliver(h, slave, reg, via) ==
  \/ /\ via = Conf.slaves[slave].protocol
     /\ field' = [field EXCEPT ![<<slave, reg>>] = got[h]]
  \/ /\ DevicesFail \/ via # Conf.slaves[slave].protocol
     /\ UNCHANGED field

OverTcp(slave) == Conf.slaves[slave].protocol = "tcp"

Forward(h) ==
  /\ pc[h] = "forward"
  /\ LET route == Route(Conf, req[h].ref) IN
       IF route.kind = "device" /\ (route.via = "rtu" => ~NullPort)
       THEN /\ Deliver(h, route.slave, route.reg, route.via)
            /\ Goto(h, IF OverTcp(route.slave) THEN "await" ELSE "respond")
       ELSE /\ Close(h)
            /\ UNCHANGED field
  /\ UNCHANGED <<image, level, told, req, turn, held, got, sleeper, polled, served>>

\* The device answers, refuses, closes the connection or could not be connected.
Answer(h) ==
  /\ pc[h] = "await"
  /\ Goto(h, "respond")
  /\ UNCHANGED <<image, level, told, req, turn, held, got, sleeper, field, polled, served>>

-----------------------------------------------------------------------------
(* ThreadSleeping.run *)
SleeperLow(s) ==
  /\ sleeper[s].phase = "start"
  /\ level' = [level EXCEPT ![sleeper[s].pin] = "low"]
  /\ sleeper' = [sleeper EXCEPT ![s].phase = "low"]
  /\ UNCHANGED <<image, told, pc, req, turn, held, got, field, polled, served>>

\* Mutant of SleeperHigh: the pulse ends without releasing the relay.
StuckSleeperHigh(s) ==
  /\ sleeper[s].phase = "low"
  /\ sleeper' = [sleeper EXCEPT ![s] = Asleep]
  /\ UNCHANGED <<image, level, told, pc, req, turn, held, got, field, polled, served>>

SleeperHigh(s) ==
  /\ sleeper[s].phase = "low"
  /\ level' = [level EXCEPT ![sleeper[s].pin] = "high"]
  /\ sleeper' = [sleeper EXCEPT ![s] = Asleep]
  /\ UNCHANGED <<image, told, pc, req, turn, held, got, field, polled, served>>

(* ThreadListenGpio: any edge of an input in use, k its place in conf.pins *)
Sense(k) ==
  /\ Conf.gpioEnable /\ Conf.pins[k].use /\ Conf.pins[k].scope = "in"
  /\ SensePosition(k) \in Registers
  /\ SetRegister(SensePosition(k), IN_ALARM)
  /\ Tell(k, "changed")
  /\ UNCHANGED <<level, pc, req, turn, got, sleeper, field, polled, served>>

(* ReadDevices: the value is fetched over the wire, later put in the image.  A
   thread that waits for a silent device for ever does nothing more; the next round
   has threads of its own. *)
PollRead(d) ==
  /\ polled[d] = None
  /\ \/ polled' = [polled EXCEPT ![d] = field[d]]
     \/ DevicesFail /\ polled' = [polled EXCEPT ![d] = Unreachable]
  /\ UNCHANGED <<image, level, told, pc, req, turn, held, got, sleeper, field, served>>

\* Mutant of PollStore: only the first reading is stored.
FirstPollStore(d) ==
  /\ polled[d] # None
  /\ IF image[PollPosition(Conf, d[1], d[2])] = 0
     THEN SetRegister(PollPosition(Conf, d[1], d[2]), polled[d])
     ELSE UNCHANGED <<image, held>>
  /\ polled' = [polled EXCEPT ![d] = None]
  /\ UNCHANGED <<level, told, pc, req, turn, got, sleeper, field, served>>

PollStore(d) ==
  /\ polled[d] # None
  /\ SetRegister(PollPosition(Conf, d[1], d[2]), polled[d])
  /\ polled' = [polled EXCEPT ![d] = None]
  /\ UNCHANGED <<level, told, pc, req, turn, got, sleeper, field, served>>

-----------------------------------------------------------------------------
Handle(h) ==
  \/ Fetch(h) \/ Store(h) \/ Reread(h) \/ Fire(h) \/ Respond(h) \/ Reconnect(h)
  \/ TestOff(h) \/ Raise(h) \/ TellOff(h) \/ TestOn(h) \/ TellOn(h) \/ Lower(h)
  \/ PulseOn(h) \/ PulseStart(h) \/ PulseOff(h) \/ Reset(h) \/ ResetOff(h)
  \/ Forward(h) \/ Answer(h)

Pulse(s) == SleeperLow(s) \/ SleeperHigh(s)

Poll(d) == PollRead(d) \/ PollStore(d)

Next ==
  \/ \E h \in Handlers : Receive(h) \/ Handle(h)
  \/ \E s \in Sleepers : Pulse(s)
  \/ \E k \in DOMAIN Conf.pins : Sense(k)
  \/ \E d \in DeviceKeys : Poll(d)

Spec == Init /\ [][Next]_vars

(***************************************************************************)
(* Threads that can run do run: handlers, pulses and the poller never wait *)
(* for one another.  Clients and sensors owe nothing, nor do tcp devices:  *)
(* neither a handler's Answer nor a reading of theirs need ever come.      *)
(***************************************************************************)
FairSpec ==
  /\ Spec
  /\ \A h \in Handlers : WF_vars(pc[h] # "await" /\ Handle(h))
  /\ \A s \in Sleepers : WF_vars(Pulse(s))
  /\ \A d \in DeviceKeys : WF_vars(PollStore(d))
  /\ \A d \in DeviceKeys : ~OverTcp(d[1]) => WF_vars(PollRead(d))

-----------------------------------------------------------------------------
(***************************************************************************)
(* Pin register r is also place r of the file: unused pins come last.      *)
(***************************************************************************)
Aligned ==
  /\ \A r \in DOMAIN Used : r \in DOMAIN Conf.pins /\ Conf.pins[r] = Used[r]
  /\ \A k \in DOMAIN Conf.pins : Conf.pins[k].use => k \in DOMAIN Used

Outputs == {r \in PinRegisters : Output(r)}

\* The outputs the listener knows to be outputs: it looks the scope of register r up
\* at place r of the file, where behind an unused pin there is another pin.
KnownOutputs == {r \in Outputs : Conf.pins[r].scope = "out"}

\* Nobody is working on register r.
Quiet(r) ==
  /\ \A h \in Handlers : pc[h] \in Creating \cup Deciding => req[h].ref # r
  /\ \A s \in Sleepers : sleeper[s].pin # r

(***************************************************************************)
(* What an output's register may show for good: on or off, off only when   *)
(* the relay is pulsed, and its own number, the write nobody is told of.   *)
(***************************************************************************)
Legal(r) == {OUT_OFF, r} \cup (IF Delayed(r) THEN {} ELSE {OUT_ON})

(***************************************************************************)
(* Whatever clients write, at once and over one another, the register of   *)
(* an output ends on a legal value once no handler works on it; unless an  *)
(* input has its place in the file, whose branch leaves the value alone.   *)
(***************************************************************************)
QuietRegistersLegal ==
  \A r \in KnownOutputs : Quiet(r) => image[r] \in Legal(r)

(***************************************************************************)
(* Why: as long as the value is not legal, some handler has still to look  *)
(* at the register, and will.  A handler on its last call with a stale     *)
(* object does not count, nor one whose event will not be fired.           *)
(***************************************************************************)
Decides(h, r) ==
  /\ pc[h] \in Creating \cup Deciding
  /\ req[h].ref = r
  /\ \/ pc[h] \in {"fetch", "testoff", "teston", "pulseon", "pulsestart",
                   "pulseoff", "reset", "resetoff"}
     \/ pc[h] = "tellon" /\ Delayed(r)
     \/ pc[h] \in {"store", "reread"} /\ (turn[h] < 3 \/ held[h].kind = "live")
     \/ pc[h] = "fire" /\ got[h] # r

LegalOrDecided(r) == image[r] \in Legal(r) \/ \E h \in Handlers : Decides(h, r)

IllegalIsDecided == \A r \in KnownOutputs : LegalOrDecided(r)

(***************************************************************************)
(* A pulsed relay is on only while a pulse thread holds it on: however     *)
(* pulses, resets and off commands overlap, none leaves it on for good.    *)
(***************************************************************************)
PulseHeld ==
  \A r \in Outputs : Delayed(r) /\ level[r] = "low"
     => \E s \in Sleepers : sleeper[s] = [pin |-> r, phase |-> "low"]

PulseEnds ==
  \A r \in Outputs : Delayed(r) => (level[r] = "low" ~> level[r] = "high")

(***************************************************************************)
(* A relay that is not pulsed does what its register says once nobody      *)
(* works on it (one client only: two race between reading the register     *)
(* and driving the pin), its own number excepted, and the relay of which   *)
(* an input has the place in the file: a wrong value leaves that one on.   *)
(***************************************************************************)
RelayFollowsRegister ==
  \A r \in KnownOutputs : Quiet(r) /\ ~Delayed(r) /\ image[r] # r
     => (level[r] = "low" <=> image[r] = OUT_ON)

(***************************************************************************)
(* A relay that is not pulsed and is left on was last announced as on (one *)
(* client only: two may be announced in one order and switch in the other; *)
(* unused pins last).  The converse fails: a wrong value switches it off   *)
(* and tells nobody.                                                       *)
(***************************************************************************)
LeftOnIsTold ==
  Aligned => \A r \in Outputs :
    Quiet(r) /\ ~Delayed(r) /\ Used[r].alarm /\ level[r] = "low" => told[r] = "on"

(***************************************************************************)
(* A handler drops its client only for an address outside the image, the   *)
(* register of an input, a device register when there is no first one, or  *)
(* one of an rtu slave that shares the file with a tcp slave.              *)
(***************************************************************************)
Lost(ref) ==
  LET route == Route(Conf, ref) IN
    \/ route.kind = "none"
    \/ route.kind = "device" /\ route.via = "rtu" /\ NullPort

LegalWritesAnswered ==
  \A h \in Handlers : pc[h] = "closed" =>
     \/ req[h].ref \notin Registers
     \/ req[h].ref \in PinRegisters \ Outputs
     \/ Lost(req[h].ref)

(***************************************************************************)
(* The alarm of an input stays in its register until a client writes that  *)
(* very register: no reading, pulse or other write wipes it out.           *)
(***************************************************************************)
AlarmStays ==
  [][\A r \in PinRegisters \ Outputs :
       image[r] = IN_ALARM /\ image'[r] # IN_ALARM
         => \E h \in Handlers : pc[h] \in {"store", "reset", "pulseon", "pulseoff"}
                                /\ req[h].ref = r]_vars

(***************************************************************************)
(* When the clients stop writing, the image shows what the devices hold,   *)
(* or that they are out of reach, whatever stale readings were on their    *)
(* way.  A silent tcp device is excepted, one whose readings do not end    *)
(* again and again; handlers and threads that wait for it keep no other    *)
(* device from being shown.                                                *)
(***************************************************************************)
Mirrored(d) ==
  LET r == PollPosition(Conf, d[1], d[2]) IN
  image[r] = field[d] \/ (DevicesFail /\ image[r] = Unreachable)

EventuallyMirrored ==
  \A d \in DeviceKeys :
    (OverTcp(d[1]) => []<><<PollRead(d)>>_vars) => <>[]Mirrored(d)

=============================================================================
