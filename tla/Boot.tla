-------------------------------- MODULE Boot --------------------------------
(***************************************************************************)
(* MainServer.createRegisters: the process image is built one register at  *)
(* a time while the GPIO pins are provisioned.  The layout that results is *)
(* the reference the arithmetic of RegisterMap is compared with.           *)
(*                                                                         *)
(* pins carry a fourth field here, number: the wiring number of the pin.   *)
(* pi4j, the GPIO library, is external: it keeps the pins in the order in  *)
(* which they were provisioned, names pin n "GPIO n", and its collection   *)
(* of provisioned pins is empty at first.                                  *)
(***************************************************************************)
EXTENDS RegisterMap, FiniteSets

CONSTANT Configs   \* the configurations the file may hold

VARIABLES
  conf,          \* MainServer.conf
  stage,         \* where createRegisters is
  k, f,          \* its loop counters, both from 1
  owners,        \* process image: owners[r + 1] is what register r was added for
  gpioList,      \* outputs by pin register: a pin number, or NoOutput
  provisioned,   \* pin numbers in the order pi4j was asked for them
  mode           \* direction of each provisioned pin

vars == <<conf, stage, k, f, owners, gpioList, provisioned, mode>>

NoOutput == -1
Numbers  == 0..14            \* GPIO_00 .. GPIO_14 (addGpio)

NumberedPin == [use : BOOLEAN, scope : {"in", "out"}, number : Numbers]

\* What the file holds; no two pins in use have the same number, which pi4j would
\* refuse to provision twice.  The app writes the scopes in and out only: a used pin of
\* another scope (toggleout in a sample of the file) would be counted but get no register.
ASSUME ConfigsAssumption ==
  \A c \in Configs :
    /\ c.gpioEnable \in BOOLEAN
    /\ c.pins \in Seq(NumberedPin)
    /\ c.slaves \in Seq(SlaveEntry)
    /\ \A i, j \in DOMAIN c.pins :
         c.pins[i].use /\ c.pins[j].use /\ i # j => c.pins[i].number # c.pins[j].number

Status == [kind |-> "status"]

PinOwner(pin, wired) == [kind |-> "pin", pin |-> pin, wired |-> wired]

DeviceOwner(slave, reg) == [kind |-> "device", slave |-> slave, reg |-> reg]

\* Mutant of NameContains: the first pin is taken whatever its name.
AnyName(n, number) == TRUE

(***************************************************************************)
(* c.getName().contains("GPIO " + number): a substring test, so that       *)
(* "GPIO 12" also contains "GPIO 1".                                       *)
(***************************************************************************)
NameContains(n, number) == n = number \/ (number = 1 /\ n >= 10)

Init ==
  /\ conf \in Configs
  /\ stage = "pins"
  /\ k = 1
  /\ f = 1
  /\ owners = <<Status>>
  /\ gpioList = <<>>
  /\ provisioned = <<>>
  /\ mode = [n \in Numbers |-> "none"]

AtPin == stage = "pins" /\ conf.gpioEnable /\ k \in DOMAIN conf.pins

SkipPin ==
  /\ AtPin
  /\ ~conf.pins[k].use
  /\ k' = k + 1
  /\ UNCHANGED <<conf, stage, f, owners, gpioList, provisioned, mode>>

AddOutput ==
  /\ AtPin
  /\ conf.pins[k].use /\ conf.pins[k].scope = "out"
  /\ LET number == conf.pins[k].number IN
       /\ owners' = Append(owners, PinOwner(k, number))
       /\ gpioList' = Append(gpioList, number)
       /\ provisioned' = Append(provisioned, number)
       /\ mode' = [mode EXCEPT ![number] = "out"]
  /\ k' = k + 1
  /\ UNCHANGED <<conf, stage, f>>

(***************************************************************************)
(* An input looks at the first provisioned pin only: if its name contains  *)
(* the wanted one it is turned into the input, otherwise the wanted pin is *)
(* provisioned.  With no pin provisioned yet, iterator().next() throws     *)
(* (FirstInputFails).                                                      *)
(***************************************************************************)
AddInput ==
  /\ AtPin
  /\ conf.pins[k].use /\ conf.pins[k].scope = "in"
  /\ provisioned # <<>>
  /\ LET number == conf.pins[k].number
         reuse  == NameContains(provisioned[1], number)
         wired  == IF reuse THEN provisioned[1] ELSE number
     IN  /\ owners' = Append(owners, PinOwner(k, wired))
         /\ mode' = [mode EXCEPT ![wired] = "in"]
         /\ provisioned' = IF reuse THEN provisioned ELSE Append(provisioned, number)
  /\ gpioList' = Append(gpioList, NoOutput)
  /\ k' = k + 1
  /\ UNCHANGED <<conf, stage, f>>

\* The exception ends the constructor of MainThread: no image, no poller.
FirstInputFails ==
  /\ AtPin
  /\ conf.pins[k].use /\ conf.pins[k].scope = "in"
  /\ provisioned = <<>>
  /\ stage' = "failed"
  /\ UNCHANGED <<conf, k, f, owners, gpioList, provisioned, mode>>

PinsDone ==
  /\ stage = "pins"
  /\ ~AtPin
  /\ stage' = "devices"
  /\ k' = 1
  /\ UNCHANGED <<conf, f, owners, gpioList, provisioned, mode>>

AddDevice ==
  /\ stage = "devices"
  /\ k \in DOMAIN conf.slaves
  /\ IF f <= conf.slaves[k].size
     THEN /\ owners' = Append(owners, DeviceOwner(k, f - 1))
          /\ f' = f + 1
          /\ k' = k
     ELSE /\ owners' = owners
          /\ f' = 1
          /\ k' = k + 1
  /\ UNCHANGED <<conf, stage, gpioList, provisioned, mode>>

Serve ==
  /\ stage = "devices"
  /\ k \notin DOMAIN conf.slaves
  /\ stage' = "served"
  /\ UNCHANGED <<conf, k, f, owners, gpioList, provisioned, mode>>

Next ==
  \/ SkipPin
  \/ AddOutput
  \/ AddInput
  \/ FirstInputFails
  \/ PinsDone
  \/ AddDevice
  \/ Serve

Spec == Init /\ [][Next]_vars

-----------------------------------------------------------------------------
Served == stage = "served"
Owner(r) == owners[r + 1]
Registers == 0..(Len(owners) - 1)
PinRegisters == {r \in Registers : Owner(r).kind = "pin"}
DeviceRegisters == {r \in Registers : Owner(r).kind = "device"}

\* A route reaches the owner of a register, over the protocol the slave speaks.
Reaches(route, owner) ==
  \/ /\ owner.kind = "pin" /\ route.kind = "pin"
     /\ gpioList[route.pin] = IF conf.pins[owner.pin].scope = "out"
                              THEN owner.wired ELSE NoOutput
  \/ /\ owner.kind = "device" /\ route.kind = "device"
     /\ route.slave = owner.slave /\ route.reg = owner.reg
     /\ route.via = conf.slaves[owner.slave].protocol

(***************************************************************************)
(* The listener's search finds the owner of every pin and device register, *)
(* for every mix of pins in use and slave sizes, but for the first device  *)
(* register, which it writes to register 0 of slave 1 over tcp whoever     *)
(* owns it.                                                                *)
(***************************************************************************)
FirstByTcp ==
  conf.slaves # <<>> /\ conf.slaves[1].size > 0 /\ conf.slaves[1].protocol = "tcp"

RoutesReachOwner ==
  Served => \A r \in PinRegisters \cup DeviceRegisters :
              Reaches(Route(conf, r), Owner(r)) <=> (r = GpioSize(conf) => FirstByTcp)

\* No address the image accepts sends the listener into its endless search.
NoEndlessSearch ==
  Served => \A r \in Registers : Route(conf, r).kind # "spin"

(***************************************************************************)
(* The poller stores each reading in the register that was added for that  *)
(* device register, and the poller's numbering hits every device register. *)
(***************************************************************************)
PollerReachesOwner ==
  Served =>
    /\ \A i \in DOMAIN conf.slaves : \A g \in 0..(conf.slaves[i].size - 1) :
         /\ PollPosition(conf, i, g) \in DeviceRegisters
         /\ Owner(PollPosition(conf, i, g)) = DeviceOwner(i, g)
    /\ Cardinality(DeviceRegisters) = SizeUpTo(conf, Len(conf.slaves))

(***************************************************************************)
(* A sensor's alarm lands in the register of its own pin if, and only if,  *)
(* every pin before it in the file is in use.                              *)
(***************************************************************************)
SensorReachesOwner ==
  Served => \A r \in PinRegisters :
              SensePosition(Owner(r).pin) = r
                <=> \A j \in 1..Owner(r).pin : conf.pins[j].use

(***************************************************************************)
(* Every register drives or listens to the pin of its entry's number, and  *)
(* no output is turned into an input by a later entry, unless the pin      *)
(* provisioned first is one of GPIO 10 .. 14 (whose name contains          *)
(* "GPIO 1").                                                              *)
(***************************************************************************)
PinsKeepTheirNumbers ==
  Served /\ (provisioned # <<>> => provisioned[1] < 10) =>
    \A r \in PinRegisters :
      LET pin == conf.pins[Owner(r).pin] IN
        Owner(r).wired = pin.number /\ mode[pin.number] = pin.scope

=============================================================================
