----------------------------- MODULE ConfReload -----------------------------
(***************************************************************************)
(* The configuration under the listeners.  Listener.propertyChange begins  *)
(* with conf.readFromFile(), and conf is ONE object for all pool threads:  *)
(* the reload empties its counter and lists and fills them entry by entry, *)
(* without a lock, while other listeners reload or route by them.  Module  *)
(* Gateway takes the reload for a step that always yields the file; here   *)
(* that is what has to be shown, and it holds for a listener only while no *)
(* other one reloads (AloneRoutesRight).                                   *)
(*                                                                         *)
(* The file does not change, except that an upload may truncate it (file = *)
(* "torn"): the parser then throws after the reset, the exception is       *)
(* swallowed, and the listener goes on with what is left.  The upload ends *)
(* with the exit of the process, which ends the behaviour.                 *)
(***************************************************************************)
EXTENDS RegisterMap

CONSTANTS
  Conf,          \* what the file says
  Handlers,      \* pool threads
  Refs,          \* registers the clients switch on
  MaxRequests    \* bound on their writes

ASSUME ReloadAssumption ==
  /\ Conf.gpioEnable \in BOOLEAN
  /\ Conf.pins \in Seq([use : BOOLEAN, delay : BOOLEAN])
  /\ Conf.slaves \in Seq(SlaveEntry)
  /\ Refs \subseteq Nat
  /\ MaxRequests \in Nat

VARIABLES
  shared,        \* MainServer.conf: [number, used, pins, slaves]
  file,          \* the file on disk
  pc,            \* handler -> what it does next
  step,          \* handler -> place in the reload
  count,         \* handler -> the gpioNumber it read for gpioNumber += 1
  ref,           \* handler -> the register written
  size,          \* handler -> its local gpioSize
  result,        \* handler -> where the write went
  alone,         \* handler -> nobody touched shared or the file meanwhile (history)
  served         \* number of writes

reloadVars == <<shared, file, pc, step, count, ref, size, result, alone, served>>

-----------------------------------------------------------------------------
(***************************************************************************)
(* readFromFile as the sequence of its accesses to the shared object.      *)
(***************************************************************************)
Clear(list)     == [do |-> "clear", list |-> list]
Add(list, item) == [do |-> "add", list |-> list, item |-> item]
ReadNumber      == [do |-> "read"]
WriteNumber     == [do |-> "write"]

\* Mutant of Resets: the counter is not reset.
KeptResets == <<[do |-> "read"], Clear("used"), Clear("slaves"), Clear("pins")>>

Resets == <<[do |-> "zero"], Clear("used"), Clear("slaves"), Clear("pins")>>

PinSteps(pin) ==
  IF pin.use
  THEN <<ReadNumber, WriteNumber, Add("used", pin), Add("pins", pin)>>
  ELSE <<Add("pins", pin)>>

\* The accesses for the first n pins.
PinsUpTo(n) ==
  LET steps[i \in 0..Len(Conf.pins)] ==
        IF i = 0 THEN <<>> ELSE steps[i - 1] \o PinSteps(Conf.pins[i])
  IN  steps[n]

\* Mutant of Parsed: the slaves are taken for disabled.
PinsParsed == PinsUpTo(Len(Conf.pins))

Parsed ==
  PinsUpTo(Len(Conf.pins))
    \o [i \in DOMAIN Conf.slaves |-> Add("slaves", Conf.slaves[i])]

Steps == Resets \o Parsed

Loaded == [number |-> GpioNumber(Conf), used |-> PinsUsed(Conf),
           pins |-> Conf.pins, slaves |-> Conf.slaves]

None == [kind |-> "none"]

ReloadInit ==
  /\ shared = Loaded
  /\ file = "whole"
  /\ pc = [h \in Handlers |-> "idle"]
  /\ step = [h \in Handlers |-> 1]
  /\ count = [h \in Handlers |-> 0]
  /\ ref = [h \in Handlers |-> 0]
  /\ size = [h \in Handlers |-> 0]
  /\ result = [h \in Handlers |-> None]
  /\ alone = [h \in Handlers |-> TRUE]
  /\ served = 0

Goto(h, l) == pc' = [pc EXCEPT ![h] = l]

\* An event for a register reaches the listener.
Start(h) ==
  /\ pc[h] = "idle"
  /\ served < MaxRequests
  /\ served' = served + 1
  /\ \E r \in Refs : ref' = [ref EXCEPT ![h] = r]
  /\ alone' = [alone EXCEPT ![h] = file = "whole"]
  /\ Goto(h, "reload")
  /\ UNCHANGED <<shared, file, step, count, size, result>>

-----------------------------------------------------------------------------
Reload(h) ==
  /\ pc[h] = "reload" /\ step[h] \in DOMAIN Steps
  /\ step[h] > Len(Resets) => file = "whole"
  /\ LET s == Steps[step[h]] IN
       /\ shared' = CASE s.do = "zero"  -> [shared EXCEPT !.number = 0]
                    [] s.do = "clear" -> [shared EXCEPT ![s.list] = <<>>]
                    [] s.do = "add"   -> [shared EXCEPT ![s.list] = Append(@, s.item)]
                    [] s.do = "read"  -> shared
                    [] s.do = "write" -> [shared EXCEPT !.number = count[h] + 1]
       /\ count' = IF s.do = "read" THEN [count EXCEPT ![h] = shared.number] ELSE count
  /\ step' = [step EXCEPT ![h] = step[h] + 1]
  /\ alone' = [g \in Handlers |-> alone[g] /\ g = h]
  /\ UNCHANGED <<file, pc, ref, size, result, served>>

\* The parser throws on a torn file, before it has added anything.
ParseFails(h) ==
  /\ pc[h] = "reload" /\ step[h] = Len(Resets) + 1
  /\ file = "torn"
  /\ step' = [step EXCEPT ![h] = Len(Steps) + 1]
  /\ UNCHANGED <<shared, file, pc, count, ref, size, result, alone, served>>

\* gpioSize, and the branch it decides
Size(h) ==
  /\ pc[h] = "reload" /\ step[h] = Len(Steps) + 1
  /\ size' = [size EXCEPT ![h] = IF Conf.gpioEnable THEN shared.number + STATUS_OK ELSE 1]
  /\ Goto(h, IF Conf.gpioEnable /\ 0 < ref[h] /\ ref[h] < size'[h] THEN "alarm"
             ELSE IF ref[h] - size'[h] > 0 THEN "search"
             ELSE "first")
  /\ UNCHANGED <<shared, file, step, count, ref, result, alone, served>>

Finish(h, r) ==
  /\ result' = [result EXCEPT ![h] = r]
  /\ Goto(h, "done")

Closed == [kind |-> "closed"]

\* shared.pins.get(register - 1).isAlarm() throws when the list is short.
ReadAlarm(h) ==
  /\ pc[h] = "alarm"
  /\ IF ref[h] \in DOMAIN shared.pins
     THEN Goto(h, "delay") /\ UNCHANGED result
     ELSE Finish(h, Closed)
  /\ UNCHANGED <<shared, file, step, count, ref, size, alone, served>>

\* shared.pinsUsed.get(register - 1).getDelay(), then gpioList.get(register - 1)
ReadDelay(h) ==
  /\ pc[h] = "delay"
  /\ Finish(h, IF ref[h] \in DOMAIN shared.used /\ ref[h] \in DOMAIN PinsUsed(Conf)
               THEN [kind |-> "pin", pin |-> ref[h], entry |-> shared.used[ref[h]]]
               ELSE Closed)
  /\ UNCHANGED <<shared, file, step, count, ref, size, alone, served>>

\* One turn of the search that finds an owner; the others change nothing.
Search(h) ==
  /\ pc[h] = "search"
  /\ LET route == DeviceRoute(shared, ref[h] - size[h]) IN
       /\ route.kind # "spin"
       /\ Finish(h, route)
  /\ UNCHANGED <<shared, file, step, count, ref, size, alone, served>>

First(h) ==
  /\ pc[h] = "first"
  /\ Finish(h, IF FirstRoute(shared).kind = "none" THEN Closed ELSE FirstRoute(shared))
  /\ UNCHANGED <<shared, file, step, count, ref, size, alone, served>>

Done(h) ==
  /\ pc[h] = "done"
  /\ Goto(h, "idle")
  /\ step' = [step EXCEPT ![h] = 1]
  /\ count' = [count EXCEPT ![h] = 0]
  /\ ref' = [ref EXCEPT ![h] = 0]
  /\ size' = [size EXCEPT ![h] = 0]
  /\ result' = [result EXCEPT ![h] = None]
  /\ UNCHANGED <<shared, file, alone, served>>

\* ExecutorThread.writeFile opens the file for writing.
Truncate ==
  /\ file = "whole"
  /\ file' = "torn"
  /\ alone' = [h \in Handlers |-> FALSE]
  /\ UNCHANGED <<shared, pc, step, count, ref, size, result, served>>

Listen(h) ==
  \/ Reload(h) \/ ParseFails(h) \/ Size(h) \/ ReadAlarm(h) \/ ReadDelay(h)
  \/ Search(h) \/ First(h) \/ Done(h)

ReloadNext ==
  \/ \E h \in Handlers : Start(h) \/ Listen(h)
  \/ Truncate

ReloadSpec == ReloadInit /\ [][ReloadNext]_reloadVars

\* A listener runs on; nothing makes a client write or upload.
FairSpec == ReloadSpec /\ \A h \in Handlers : WF_reloadVars(Listen(h))

-----------------------------------------------------------------------------
Stages == {"idle", "reload", "alarm", "delay", "search", "first", "done"}

(***************************************************************************)
(* A listener that has the configuration to itself sends the write where   *)
(* the file says, with the file's entry for the pin, whatever other        *)
(* listeners left behind in conf before, half-filled or doubled.           *)
(***************************************************************************)
Expected(r) ==
  LET route == Route(Conf, r) IN
    CASE route.kind = "pin"    -> [kind |-> "pin", pin |-> r, entry |-> PinsUsed(Conf)[r]]
      [] route.kind = "device" -> route
      [] route.kind = "none"   -> Closed

AloneRoutesRight ==
  \A h \in Handlers : alone[h] /\ pc[h] = "done" => result[h] = Expected(ref[h])

(***************************************************************************)
(* Such a listener ends: the search that has no exit of its own is left.   *)
(***************************************************************************)
AloneEnds ==
  \A h \in Handlers : alone[h] /\ pc[h] \in Stages \ {"idle"}
     ~> pc[h] = "idle" \/ ~alone[h]

=============================================================================
