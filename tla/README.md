# Domotic-Modbus: a formal model

Domotic-Modbus is a home-automation gateway. A Java server (`src/newRaspiServer`)
runs on a Raspberry Pi, drives the relays and sensors on its GPIO pins, polls
modbus slaves over serial line (rtu) and tcp, and offers all of it to its clients
as ONE bank of holding registers on a modbus/tcp port of its own. An Android
application (`src/raspiManager`) reads and writes those registers, edits the
configuration file and exchanges it with the server over a second port.

The application also shows the pictures of web cameras, decoded by native code
(`src/raspiManager/jni`).

This directory holds TLA+ modules translated from those sources, TLC
configurations that check them on small instances, and TLAPS proofs for every
value of the constants. `PROJECT.json` maps each definition to the lines it
stands for; abbreviations used below: `MainServer`, `Configuratore`,
`ReadDevices`, ... are files of `src/newRaspiServer/src/newRaspiServer/`, and the
modified jamod library is `src/newRaspiServer/src/net/wimpi/modbus/`.

## 1. Inventory

| Component | State | Operations | Talks to |
|---|---|---|---|
| Register layout (`MainServer.createRegisters`, `Listener.propertyChange`, `ReadDevices.calculatePosition`, `ThreadListenGpio`) | the order of registers in the image, `gpioList`, the provisioned pins | build once; recompute the position of a register in three other places | pi4j, every other part |
| Write path (`TCPConnectionHandler`, `WriteSingleRegisterRequest`, `Listener`, `SimpleProcessImage`) | the image: one register OBJECT per address | apply a write (three times), fire the event, drive relay, pulse or device | one thread per client, all on one image, no lock |
| Relay pulses (`MainServer.ThreadSleeping`), sensors (`ThreadListenGpio`) | level of the relays | low, wait, high; alarm on any edge | image, GCM notifications |
| Poller (`ReadDevices`) | connections, the last readings | every period, one thread per slave: read, judge, store | slaves, image |
| Device alarms (`ReadDevices` 88-115, `Register`) | `connected`, `notificated` | decide whether the user is told | the poller's threads |
| Configuration (`Configuratore`) | `pins`, `pinsUsed`, `slaves`, `gpioNumber`, `counter` | `readFromFile`, at the start of EVERY write event | one object shared by all handlers |
| Modbus port (`ModbusTCPListener`, `ThreadPool`, `LinkedQueue`) | accept loop, task queue, three threads | accept, queue, serve until the client leaves | MainThread's startup |
| File port (`ConnectionManager`, `ExecutorThread`, `starter.sh`) | the configuration file | read counter, download, upload + exit(5) + restart, read a database | the app |
| Serial bus (`SerialSlave`, `SerialConnection`, `ModbusSerialTransaction`, `ModbusRTUTransport`) | static connection, transaction, request, response; the port and the flag that it is open | connect, read, write (which closes the port) | poller, listener, devices on one line |
| Access over tcp (`HoldingRegisterTCPMaster`, `ModbusTCPTransaction`, `ModbusTCPTransport`) | a connection and a retry counter per access | connect, send, wait, retry | device |
| Data logger (`DBConnection`) | a sqlite table, named by the month of the start | write all registers as a row, with the energy since the last | image, layout |
| Camera decoder (`ImageProc.c`, `jpeg8d/jd*.c`) | a decompressor per call; one picture buffer and its size for the whole app | decode a frame, copy the buffer to a bitmap | a thread per `MjpegView` |
| Android app (`MonitorResource`, `Configuratore`, `ConnectionManager`, fragments) | last values, own copy of the configuration with its counter | poll, write, edit, upload or download | both ports |

### What is hard here

* Nothing is locked. A register is an object that `setRegister` replaces while a
  handler may hold the old one; the listener reads the register anew for each
  comparison; `readFromFile` empties and refills an object others are reading.
* The event that drives the relays is built from three applications of the same
  request, and `PropertyChangeSupport` suppresses it when the register's ADDRESS
  equals the value written.
* The layout of the image is computed in five places, by different loops, from
  lists that count different things (all pins, pins in use).
* The poller's threads can overlap; one flag latches three kinds of alarm.
* Put and take of the task queue share a counter across two locks; the accept
  thread is started before the flag it tests is set.
* The configuration file is overwritten in place and the server restarts on it.
* All accesses to the serial bus share static objects, and an answer is not compared
  with the request it is taken for.
* The decoder is fed frames that may be cut off anywhere; the app looks at none of its
  return values, and keeps one picture buffer for all views and all frames.

The complete list, line by line, is under "hazards" in `PROJECT.json`, each with
the properties that would catch it going wrong or why none does yet.

### What makes each part correct

* Layout: every address the image accepts is routed to what it was added for; no
  address sends the listener into its endless search; a reading lands where the
  listener would write; a sensor reports in its own register.
* Write path: the relay does what its register says; an illegal value does not
  stay; an alarm is not wiped out by anything but a write to it; no client is
  dropped for a legal write; the image ends up showing the devices.
* Pulses: a pulsed relay is on only while a pulse thread holds it, and goes off.
* Configuration: a listener routes by what the file says; the server runs on what
  its file says; an upload brings a newer file, and no edit is lost.
* Alarms: losing and regaining a device alternate, an alarm is told once, and the
  messages end.
* Port: clients are served in order, nobody is forgotten, each is listened to once.
* Serial bus and tcp: a reading is the device's own answer to it, a write that reports
  success was carried out, once, and every access ends.
* Logger: the energy is the integral of the logged power, whatever is interrupted.
* Camera: a loss does not shift the rest of the picture, a bitmap shows one picture, and
  the call for a frame returns.

## 2. The modules

```
RegisterMap  ------  Boot  ------------------ MCBoot
   |   \              |
   |    ConfReload  --|---------------------- MCConfReload
   |            \     |
 Gateway  -------\----|---------------------- MCGateway
   |              \   |
   |               LayoutProofs
   |              /
 GatewayProofs   /
         \      /
     RegisterMapProofs   (lemmas, extended by all three)
             |
       ReadingsProofs
        /          \
 AlarmLatch     DataLogger                    (their cfgs name them directly)

 ConfigSync  -------------------------------- MCConfigSync
   |
 ConfigSyncProofs

 ConnectionService <== implemented by == ConnectionPool
                                              |
                                       ConnectionPoolProofs

 SerialBus  --------------------------------- MCSerialBus
   |
 SerialBusProofs

 TcpAccess  --------------------------------- MCTcpAccess
   |
 TcpAccessProofs

 FrameDecoder  ------------------------------ MCFrameDecoder
```

LayoutProofs and ReadingsProofs each extend two components, of which one has prefixed names
for its specification (`ReloadSpec`, `LogSpec`), so that both fit into one proof module.

**RegisterMap** has no state: the arithmetic on addresses. `Route` is the
listener's branch and search (`MainServer` 254-337), `PollPosition` the poller's
numbering, `SensePosition` the sensors'. The search's nested loops are given as
the entry they stop at, or `spin` when they have no exit.

**Boot** is `createRegisters`, one action per register, with the pins pi4j has
provisioned. It is the reference for RegisterMap: the owner of each register is
recorded when it is added, and the invariants compare.

**Gateway** is the server at work. Actions are the steps between which another
thread can come: fetching the register object, `setValue`, `getValue` (three
times), the event, each comparison in the listener, the notification (`TellOff`,
`TellOn`), the relay, each `setRegister`. `image` is the value of the object in place, `held` a handler's
possibly replaced object. `Sense` and `Poll` are the sensors' and the poller's
threads, `Pulse` a relay pulse. A handler whose code throws closes its client
(`TCPConnectionHandler` 126-131), its thread takes the next one (`Reconnect`). A write
for a device behind tcp is sent (`Forward`) and then awaited (`Answer`), which need never
end: no read timeout is set on these connections (`TCPMasterConnection` 68, commented out).
The same goes for a reading of the poller over tcp (`PollRead`).

**ConfReload** takes apart what Gateway assumes: that the reload at the head of
`propertyChange` yields the file. `Steps` is the list of accesses `readFromFile`
makes to the shared object, `gpioNumber += 1` being two. Gateway's assumption is
therefore: the reloads of different listeners do not overlap, and no upload is in
progress. `AloneRoutesRight` justifies it for a listener that is not disturbed;
for listeners that overlap the same property fails (see the departures below).

**AlarmLatch** is the poller's decision about one register, statement by
statement, with a set of pollers that may be at it at once.

**ConnectionService** is the abstract promise of the modbus port: first come, first
served, by as many threads as there are. **ConnectionPool** is the code: startup,
accept loop, `LinkedQueue` with its two locks (extracting and linking are atomic:
they lock the node they change), pool threads. Java's spurious wakeups are included, and
so is the end of the accept loop by an exception of the socket, at any time, or of the
close of a client that came before the flag (`AcceptFails`, `Accept`; listener "failed").
`stop()` and `close()` are never called in the running server and are left out.

**ConfigSync** is the exchange of the configuration file: the server's file as two
halves that an upload truncates and fills one after the other, its `ExecutorThread`s,
the exit with status 5 and `starter.sh`, and on each phone the file, the static
`MainActivity.conf` it was last read into and the dialog that waits for an answer.
An edit is a name, each made once; a file is the set of edits it holds and its
counter, or `Broken`. The first configuration uses the app's older client
(`raspimanager/ServerRequest.ReadFileFirst`), which takes the file whole; every later
download the newer one (`raspimanager/server/ConnectionManager.ReadFile` 670), which
takes the first four bytes for a length the server does not send and leaves a file
that does not parse. `EditPins` goes through a `Configuratore` of the screen's own, so
that the counter the phone compares is not that of the file it would send; `EditKey`
goes through `MainActivity.conf`. A dialog keeps its user from the pages behind it
(`Delete`, `EditKey`), not from a screen opened before it came (`EditPins`). History
variables record what the properties except: `mishap` (an upload cut off or
overlapped), `stale` (an upload whose comparison no longer held), `forked` (an edit on
a copy that lacked an earlier one), `abandoned` (a thread that threw after truncating).

**SerialBus** takes apart what Gateway calls one device access, for rtu slaves. Each
access of a thread is the steps between which another thread can come: the look at the
flag, the two halves of opening, each static variable that is set or read, each attempt,
the three parts of a close. Transactions and transports are objects out of a bounded
pool, an object being free again when nobody refers to it. A request and its answer are
an `Item`: whose access it is of, and whether that access is still under way; answers
come in late, on a closed port, or not at all. History variables name what the
properties need: `apart` (nobody else was at the bus during the access), `clean` (the
access sent only while no device owed an older answer), `served`.

**TcpAccess** is the same for a tcp slave: every access has a connection of its own, so
that accesses meet only in the device and in the image. The device refuses requests,
closes connections at any time, and sends an answer whole, cut inside its header or cut
behind it: `readResponse` takes what `read` returns for all there is. `Retry` is the loop
of `ModbusTCPTransaction.execute`, which tries again over the connection that failed.

**DataLogger** is `getEnergy` and `writeValues` over the rows of the monthly table, with
kills and starts in between. Hours stand for milliseconds: `IntSpan` hours are the 2^32
of the cast to int.

**FrameDecoder** is `processimage` with the part of libjpeg it runs through. A frame is a
sequence of tokens (a marker with its parameters, the data of an MCU), of which any part
may have arrived. Each view's decompressor is the fields of `jpeg_decompress_struct` that
decide what happens next: the state (`GetSoi` refuses a second SOI), the marker not yet consumed, the number of the next
restart, the countdown to it, the counters of the coefficient, main and upsampling
buffers. The actions are the handling of a marker, of an MCU, of a line. The source never
has more data than it was given (`memory_fill_input_buffer`), so a call of the library
that runs out suspends, and the app goes on with the next call (`Resumes`). Rows of the
shared buffer carry which frame and line they are of. Two views meet in that buffer.

### Abstractions

* In Gateway, device accesses are one step that succeeds or fails (`DevicesFail`); a
  failed reading is -1, which the 16-bit register shows as 65535. SerialBus and TcpAccess
  look inside that step. A register has one reading on its way at a time, although each
  period of the poller starts threads of its own.
* SerialBus: the file has one serial port, `/dev/ttyAMA...`; with a second one the static
  connection would be that of the slave made last for all of them. Exception responses of
  devices are left out. The open of a port that is in use fails after 30 s, or earlier.
* TcpAccess: one register of one device; a device that got a request answers it or closes
  the connection.
* DataLogger: the rounding to six decimals and to floats is left out. The clock only goes
  on: `getEnergy` takes the difference of local times, and a clock that is set back, or the
  end of the summer time, is outside the model and of its two properties.
* FrameDecoder: Huffman-coded sequential frames. An MCU is right, gray (no data) or
  garbage (the wrong tables, which may use any number of tokens); of the tables it only
  matters whether they are the standard ones. When the data end, whether the bits at the
  very end make one more MCU is a choice, as the number of bits is not modelled. The test
  of the buffer and the allocation are steps of their own, the size and the pointer are
  set in one; what is stored behind the picture by a frame larger than the first is not
  followed. `freeCameraMemory` (`ImageProc.c` 312-317), which frees the shared buffer, is
  left out: nobody in the app calls its wrapper in `MjpegView`.
* Notifications are recorded as what was last told (`told`), not sent.
* Register values are natural numbers; only equality with the protocol's constants
  (`PROTOCOL.java`) and with the register's own address matters.
* rtu slaves have an address `/dev/ttyAMA...`, as in the sample file, so that the
  port of an rtu slave is found; pins have distinct numbers and the scope "in" or "out", the
  two the app writes (`createRegisters` adds no register for a used pin of any other).
* Clients write single registers, the only request the app sends. The other
  writing functions are applied and then fail a cast (`TCPConnectionHandler` 97),
  which closes the connection.
* XML is abstracted to the entries it yields; a torn file to a parser that throws
  before the first entry. In ConfigSync, half of one upload and half of another do not
  parse, and every whole file names a GCM key, without which the app asks for the first
  configuration again.
* The server is started by hand only when it is stopped, not in the moment between its
  exit and its restart, which would give two of them.

## 3. The runs

| Run | Instance | Shows |
|---|---|---|
| `boot` | 14534 configurations: up to 3 pins x use x scope, two number rows, up to 2 slaves of 0-2 registers, rtu or tcp | the three recomputed layouts against the one built; `RoutesReachOwner` and `SensorReachesOwner` are equivalences, so the exceptions they name are exactly the cases that go wrong |
| `gateway_one` | 1 client, 2 writes, relay, pulsed relay, sensor, a tcp and an rtu device, failing, the poller | `RelayFollowsRegister`, `LeftOnIsTold`, `LegalWritesAnswered`, `AlarmStays`; under fairness `EventuallyMirrored`: the image ends up showing each device, a tcp device as long as its readings do not stop for good |
| `gateway_two` | 2 clients, 3 writes, 2 pulses, a relay and a pulsed relay with an unused pin between them | `QuietRegistersLegal` with its inductive form `IllegalIsDecided`, `PulseHeld`; under fairness `PulseEnds` |
| `conf_reload` | 2 listeners, 2 writes, 3 pins (one unused), a tcp and an rtu slave, an upload | `AloneRoutesRight`, `AloneEnds` |
| `alarm_latch` | 2 pollers; values gone, 0, below, between, at and above the limits | `LinkMessagesAlternate`, `HighOnce` (unless readings overlap), `Settles` (even if they do) |
| `connection_pool` | 4 clients, 2 threads, the startup | `ServesInOrder` and `NoneForgotten` (the two halves of the abstract specification), `WaitersCounted`, `HeardOnce`, `DiesUnborn` |
| `config_sync` | 2 phones, 2 edits, 2 uploads; phones that close, delete, refetch; a server that is killed and started | `RunsWhatFileSays`, `FreshUploadsAreNewer`, `BrokenHasCause`, `LinearEditsSurvive` |
| `serial_bus` | 2 readers, 1 writer with 2 attempts, 3 accesses, 4 transactions and 5 transports, one answer under way besides the one that has come in | `AloneReadsOwn`, `AloneWritesReach`; under fairness `AccessesEnd` |
| `tcp_access` | a reader with 3 attempts, a writer with 2, 4 accesses, 2 values | `WrittenOnce`, `FreshReading`; under fairness `AccessesEnd` |
| `data_logger` | 10 hours of days of 3, a month of 9 and an int of 7; powers 0, 3 and the limit 40 | `EnergyAddsUp`, `EnergyNeverFalls` |
| `frame_decoder` | 2 frames of up to 6 MCUs in two rows, with a restart marker before each MCU, before every other one or none, in one scan or two, in the standard or other tables: whole, cut off at each token, or without any run of up to six tokens; a second view with a frame of another size or a stump | `KeepsPlace`, `PictureIsWhole`; under fairness `CallsReturn` |
| `alarm_loss` | 1 poller | violated: `LossTold` |

Bounds. `MaxRequests` bounds the writes, `Sleepers` the pulses under way at once,
`Threads` the pool (three in the code, two here, so that two clients wait). Two
clients and two or three writes are enough for every race named above: each needs
one handler between two of its steps while another completes. In `gateway_one` the
races are those of one client with the poller, the sensor and a pulse: one write and a
second one that finds what the first has left; its four safety properties were also
checked once, without fairness, for three writes. Three pins and two
slaves give every order of used and unused, input and output, empty and
non-empty, rtu and tcp. `MaxUploads` and the set `Edits` bound `config_sync`: a stale
offer needs one phone to compare, another to edit, upload and restart the server, and
the first to answer, that is two phones, two uploads and an edit each. The `stale` in
`BrokenHasCause` is for larger instances: only a third phone can take the server's
counter below that of a phone whose file is broken. In `serial_bus`
a foreign or late answer needs a second access, a port closed under a reader a third; a
transaction per thread and the static one, and a transport for each of these and the
connection, are all that can be in use at once, so the pool is never exhausted. In
`tcp_access` four accesses let both threads come back to a connection that an earlier
access has left open; a second reader would only meet the first in the device and in the
image, which the writer's values stand for. In `data_logger` the horizon is longer than a
day, than the int and than a month, so that each of them is crossed while the server is
down, and the sum passes the limit. In `frame_decoder` six restart intervals and losses
of six tokens make a restart marker come early by one, two and three; with two frames a
picture meets the remains of the one before. Deadlock is not checked where the bound on writes or uploads, or the
end of the boot, stops the model, nor in the four last-named runs, whose accesses, time
and frames end; it is checked in `alarm_latch` and
`connection_pool`.

Fairness. Every thread of the server that can take a step eventually takes one (weak
fairness per thread). Clients, sensors and uploads owe nothing, and sockets need not fail.
Device accesses differ. Over the serial line each ends by its timeout, which SerialBus has
in its actions, so that Gateway's rtu readings are fair. Over tcp no read timeout is set,
and Gateway has no fairness for what waits for a tcp device: the step `Answer` of a handler,
the reading of a poller. What `EventuallyMirrored` promises of a tcp device is therefore
conditional on its readings going on; that a silent one holds a handler or a reading thread
for ever must not keep the image from showing the others. In TcpAccess `AccessesEnd` needs
a device that answers each request or closes the connection (its fairness says so).
`CallsReturn` needs only that the thread of a view goes on.

### Where the code departs from its documentation

The violation run is recorded as a finding: a device lost while its value alarm is
latched is never announced. Other departures the passing properties name as
exceptions, each seen as a counterexample while modelling:

* `MainServer` 262: the listener reads the register and drives the relay in separate
  steps, so that two clients can leave the relay in the state the register does not show
  (`RelayFollowsRegister` is checked and proved with one client; with two TLC finds it
  violated).
* `MainServer` 264-280: off is told after the relay is driven, on before, in steps of their
  own, so that two clients can leave a relay on that was last announced as off
  (`LeftOnIsTold`, likewise).
* `MainServer` 284: the listener looks up the scope of a pin register in the list of all
  pins. Behind an unused pin an output can so have an input's place: a value other than on
  and off then stays in its register, and its relay stays as it was
  (`QuietRegistersLegal`, `IllegalIsDecided` and `RelayFollowsRegister` speak of
  `KnownOutputs`, those that have an output's place; `LeftOnIsTold` requires `Aligned`,
  unused pins last).
* `MainServer` 321: in a file with a tcp slave before an rtu slave, the search for the
  rtu slave's port meets a null and the client that wrote the register is dropped
  (`LegalWritesAnswered` excepts it as `NullPort`).
* `Configuratore` 76: two listeners that reload at once can compute the size of the pins'
  part from a half-read file and send a relay's command to a device
  (`AloneRoutesRight` is about the listener that was alone).
* `Configuratore` 75: a listener that meets a torn file swallows the parser's exception and
  routes its write by the lists it has just emptied (excepted likewise).
* `MainServer` 334: a write to the FIRST device register goes over tcp to slave 0,
  register 0, whoever owns it (`RoutesReachOwner`).
* `ThreadListenGpio` 56: behind an unused pin, a sensor raises its alarm in the
  next pin's register (`SensorReachesOwner`).
* `MainServer` 203: a file whose first used pin is an input ends the constructor
  (`Boot`'s action `FirstInputFails`); 205: an input "GPIO 1" takes over GPIO 12 when that
  was provisioned first (`PinsKeepTheirNumbers`).
* `TCPConnectionHandler` 100: on pin register 10 the command off (10), and on 11 the
  command on (11), equals the register's address and fires no event: the relay does
  not follow (`RelayFollowsRegister` excepts the own number). In every register
  the own number is stored and nobody acts on it: illegal in a relay's register it
  stays, in a device's it is never sent.
* `MainServer` 452: the end of a pulse constructs a notification and does not start
  it (`LeftOnIsTold` speaks of relays that are not pulsed, and one direction only).
* `ReadDevices` 113: a value between 0 and the low limit is announced at every
  other reading (`Settles` excepts it).
* `server/ConnectionManager` 670: every download but the first leaves the phone with a
  file that does not parse; it can no longer edit, and only deleting the file and
  configuring the app anew helps (`BrokenHasCause` says that such files stay on the
  phones).
* `server/ConnectionManager` 416: an upload sends what the phone has when its user
  answers. An edit between question and answer goes along, and the phone, whose
  `MainActivity.conf` still has the old counter, is then offered its own file as a new
  one (`FreshUploadsAreNewer` holds all the same).
* `ExecutorThread` 161: a phone that compares while another one's upload is under way
  is told the counter 0 and offers to upload over it (`fresh` excepts it).
* `Configuratore` 122 of the app: two phones that edit one version get equal counters
  and different files, and the edits of one are lost; so are those of a single phone that
  deletes and refetches the file while its own upload is still to come
  (`LinearEditsSurvive` excepts both as `forked`).
* `SerialSlave` 24-27: two accesses to the serial bus that overlap can send one another's
  request, take one another's answer and store it in the wrong register, store 0 for a
  missing response, or end a poller's thread by a failed cast (`apart`).
* `ModbusRTUTransport` 110: an answer that comes after its reading has given up is taken
  for the answer to the next request, of whatever device (`clean`).
* `SerialConnection` 244: a thread that waits for the port gets it inside another one's
  close, and the close then resets the flag: `isOpen` says false of the open port from
  then on. No property forbids it; those about the bus hold in spite of it.
* `ModbusTCPTransport` 177: an answer that comes in two pieces is completed with zeros,
  or shifts all later ones (`broken`).
* `ModbusTCPTransaction` 198: the exception after the last try is never thrown; the loop
  is left without an answer and the caller fails over the null instead.
* `DBConnection` 148, 154: days are added to hours that already contain them, so that
  after a day without rows the energy counts them double, and the cast to 32 bits makes
  the number of days wrong, even negative, beyond 24 of them (`EnergyAddsUp` excepts gaps
  of a day; `EnergyNeverFalls` says that the sum does not fall for it).
* `DBConnection` 145: a clock that is set back makes the elapsed time negative and the
  energy fall (outside the model, see the abstractions).
* `DBConnection` 136, 185: a power of 0, or a sum of 65535, starts the energy again from
  0. 205: the column of a pin is read from the register before its own. 23: the comment
  promises a new table after a month, the name is chosen at the start only.
* `ModbusTCPListener` 154-162: a failing accept ends the port for good, whatever it has
  accepted before; its own comment calls it a "major failure". `ServesInOrder` and
  `NoneForgotten` hold of the clients that were accepted. The flag `listening`, set after
  the thread that tests it has started, ends it too, but only before the first client
  (`DiesUnborn`).
* `ImageProc.c` 232: a frame cut off inside its scan suspends the decoder for ever and
  the loop does not end: the thread stores line after line, beyond the buffer, and
  `MjpegView.stopPlayback` cannot join it (`CallsReturn` excepts frames with a SOS and
  without EOI).
* `ImageProc.c` 219: the buffer has the size of the first frame, all views share it, and
  a frame that fails is followed by a copy of what it holds (`PictureIsWhole` excepts
  other sizes and simultaneous views); 210: a frame's own Huffman tables are overwritten
  by the standard ones (`Whole` are the frames made for these).
* `jdmarker.c` 1237: when three or more restart markers in a row are missing, what
  follows is discarded or waits (`FewMissing`).

## 4. The proofs

All are checked by tlapm with the SMT, Zenon and LS4 backends.

**RegisterMapProofs** holds what the others need of the arithmetic, for every
configuration. The list of used pins and the sums of slave sizes are recursive functions
on the numbers up to the length of a list. What holds of all their values is shown with
`SetInduction`: a set of numbers that has 0, and with each number the next one, has all of
them; it comes from `Least`, that every set of naturals has a least member, and that from
the library's theorem that < is well-founded. Applied to the set of numbers for which a
formula holds, it gives the types, the counts and the monotonicity of the sums, that every
offset below a sum has an owner (`OffsetOwned`), and that the listener's search stops at it
(`SearchFindsOwner`).

**LayoutProofs**, about Boot, for every set of configurations that `ConfigsAssumption` allows (pins in use
have distinct numbers). The invariant `BootInv` says where `createRegisters` is (`Place`),
the types, and the layout so far: as many registers as pins in use and device registers
so far, the status first, each pin register for the pin that is the last of that many in
use (`PinPlace`), each device register at the sum of the sizes before it (`DevicePlace`).
The properties speak of the end of the boot only, and nothing about the end is inductive
without the layout of every prefix.

* `LayoutBuilt`: `Spec => []BootInv`.
* `RoutesRight`, `SearchEnds`, `PollerRight`, `SensorRight`: the listener's, the poller's
  and the sensors' arithmetic agree with that layout, with the exceptions the properties
  name. The first and the last are equivalences: the exceptions are exactly the cases
  that go wrong, whatever the configuration.
* `PinsWired`: each pin is provisioned under its own number and direction, unless one of
  GPIO 10 to 14 came first. It needs a second invariant (`Wiring`) about the pins
  provisioned so far and the names an input's search could hit.

**LayoutProofs**, about ConfReload, for any file, handlers, registers and number of writes,
from `ReloadAssumption` (the types of what the file holds). `AloneRoutesRight` speaks of the
end of a write; what leads there is that `shared` is a known part of the file at each access.
The invariant `ReloadInv` says so of every listener that nobody has disturbed (`AloneIn`): in
the resets, that what has been reset is empty (`Emptied`); between two accesses for the pins,
that the lists hold the first `i` pins of the file, those of them in use and their number, and
how far the next pin has got (`AtEntry`); behind the pins, the first `j` slaves (`AtSlave`);
after the reload, that the branch taken is the one the file asks for (`Branched`). That the
access at each place is the one for that entry is shown of `PinsUpTo` with `SetInduction`.
Whatever another listener does takes `alone` away from the first, which is why nothing has to
be said of reloads that overlap.

* `ReloadAlways`: `ReloadSpec => []ReloadInv`.
* `AloneRight`: `ReloadSpec => []AloneRoutesRight`.

**GatewayProofs**, for every configuration, set of handlers and pulses, and number of
writes, from `ConfAssumption` (the types of what the file holds), `RequestsAssumption` and
`NoneAssumption`:

* `TypeCorrect`: `Spec => []TypeOK`, where TypeOK says for each handler what its
  variables mean at each point of its run.
* `IllegalDecided`: while the register of an output shows an illegal value, some
  handler will still look at it. This is the inductive form: whoever stores an
  illegal value through an object in place is itself still to decide; who stores
  through a replaced object changes nothing; whoever decides and leaves has put a
  legal value. Unused pins may be anywhere; the one output it says nothing about is
  that with an input's place in the file, for which the input's branch is taken.
* `QuietLegal`: hence a register nobody works on is legal.
* `PulseAlwaysHeld`: a pulsed relay is on only while a pulse holds it.
* `LegalAnswered`: `Spec => []LegalWritesAnswered`. The invariant `Answering` says which
  kind of register a handler has at each point; that the search for the address of a device
  ends is `SearchFindsOwner`.
* `AlarmsStay`: `Spec => AlarmStays`, an action property. With `Answering`, no step but
  a write of that register sets it: a handler in the listener has an output or a device,
  a pulse an output, a poller a device.
* `RelayFollows` and `LeftOnTold`, for a single handler (`Handlers = {h}`), as in the run,
  and any configuration; the first with the same exception, the second with the condition
  `Aligned`, a premise of the property itself. The invariant `OneClient` follows the handler
  through the listener: what the relay shows, and what was last told, compared with the
  register before and after each comparison, each notification and each drive. That pulses
  only touch delayed outputs (`PulsesDelayed`) keeps them out of it.

**ConnectionPoolProofs**, for any finite set of threads and any connections, from
`PoolAssumption` (names are distinct). The inductive invariant `PoolInv` says that a
thread serves exactly while it has a task (`Busy`), what the listener carries is
not yet accepted (`Carried`), nobody passes Accept before the flag is set, though the
loop may have failed by then (`Unset`),
queued and served connections have been accepted (`Known`), MainThread chooses only
handlers made during the startup (`Chosen`), and how often each is listened to
(`Counted`). From it:

* `PoolServesInOrder`: `Spec => Service!Safety`, every step of the queue and pool is
  a step of the service or none.
* `WaitersExact`, `EveryConnectionHeard`.
* `ListenerDiesUnborn`: the flag ends the loop only for a client that came before it was
  set. It is no promise that the port lives: an exception of the socket may end it at any
  time, which is the state "failed" and disturbs none of the other theorems.

**ReadingsProofs**, about AlarmLatch, for any limits, any values the device shows and any set of
pollers, from `ReadingsAssumption` (the limits are integers, the values naturals).
The invariant `LatchInv` adds to the types that, as long as no two readings
have overlapped, only one poller is at work (`Alone`); that between readings the
loss told last is latched, a return told last still holds and a high value told is
latched (`Calm`); and, within a reading, how much of that holds at each statement
of each branch (`Acting`): the statements of a branch break `Calm` one after the
other and restore it, which is why the properties alone are not inductive.

* `LinkAlternates`: `Spec => []LinkMessagesAlternate`.
* `HighToldOnce`: `Spec => []HighOnce`.
* `LatchTyped`: `Spec => []TypeOK`, overlapping readings included.

**ReadingsProofs**, about DataLogger, for any powers, length of a month and of a day, width of
the cast, limit and horizon, from `LoggerAssumption` (they are positive naturals). The
invariant `LoggerInv` says of every table, whichever month and however many kills it has seen,
that its rows follow one another: each is later than the one before and, unless that one had
no power, adds to its energy the power times the hours `getEnergy` counted, which are those
between the two rows if they are less than a day apart, and from 0 to twice as many else
(`Continues`). The last is the point of `ElapsedBounds`: with the cast to 32 bits the number of
days can be wrong or negative; but the cast makes no number larger than it was
(`CastBounds`), so that the days never outweigh the hours.

* `LoggerAlways`: `LogSpec => []LoggerInv`.
* `EnergyRises`: `LogSpec => []EnergyNeverFalls`.
* `EnergyIsRight`: `LogSpec => []EnergyAddsUp`, by `SetInduction` over the rows since the
  last one without power (`LastOff`).

**ConfigSyncProofs**, for any phones, edits and number of uploads, from
`SyncAssumption` (the markers are no contents). The invariant `Typed` adds to TypeOK
that a phone in the app's main page has a file, that dialogs are shown there only, and
that an upload under way sends a file: without them an edit or an upload could store
no file at all.

* `SyncTyped`: `Spec => []TypeOK`.
* `AlwaysRunsItsFile`: `Spec => []RunsWhatFileSays`; the property is inductive
  together with `Typed`, because the file only changes under an upload, and an upload
  ends in the end of the process or is recorded as given up.
* `FreshIsNewer`: `Spec => []FreshUploadsAreNewer`; earlier uploads may have been cut off or
  overlapped, as long as none was given up since the start. The invariant `Compared` adds that
  uploads end with the process (`EndedWithServer`), that the counter the phone compares is
  never above that of the file it would send (`PhoneKeepsUp`), and that what the comparison
  found lasts while it is fresh: until the answer (`FreshOffers`), until the upload opens
  the file (`FreshAsked`), and then as the only writer (`FreshAlone`).
* `OnlyMishapsBreak`: `Spec => []BrokenHasCause`. The invariant `Steady` says, as long as
  nothing was cut off, overlapped or offered on a comparison that no longer held: one
  phone at most writes the file, and writes a newer one (`OneWriter`); the file is whole when
  nobody writes it (`WholeFile`); and a phone with a broken file, or one that is about to
  download one, compares a counter that is not above the server's (`BrokenBehind`), so that
  it is never asked to send that file (`FreshWhole`).
* `EditsSurvive`: `Spec => []LinearEditsSurvive`. The invariant `Linear` says that, as
  long as edits are made one on the other, all copies there are (files, payloads, what the
  screens hold) are ordered by the counter as by their edits. With `Steady`,
  a restart runs on a file whose counter is not below that of the last run, which
  therefore lacks none of its edits.

**SerialBusProofs**, for any pollers and writers, retries, numbers of objects and of
answers under way, from `SerialAssumption` (pollers and writers are distinct, the marker
is none of the values). The invariant `BusInv` has three parts besides the types:
`Ready` says that what a thread refers to at each of its steps is there; `Others`, that
while a thread is alone at the bus all the others rest; and the last, for a thread that
is alone and clean, says step by step whose the static request and transaction are,
whose the request and the response inside that transaction, and that whatever is owed or
has come in is its own. Each step of the thread moves one of these facts one place
further; every other step takes `apart` away.

* `BusTyped`: `Spec => []TypeOK`.
* `AloneReads`: `Spec => []AloneReadsOwn`.
* `AloneWrites`: `Spec => []AloneWritesReach`.

**TcpAccessProofs**, for any readers and writers, retries, values and accesses, from
`TcpAssumption`. The invariant `Sound` says of each thread: at most one request or answer is
on its connection, and none but while it waits for it (`OneOnTheWay`), as each access makes
its own connection and one that failed carries nothing more; what is cut, or read out of
step, comes of an answer recorded as broken (`CutIsBroken`); what is on the way or was
received is a value the device had since the access began (`ReadSince`); and a write that is
about to be sent over an open connection has not reached the device yet (`AppliedOnce`).

* `WritesOnce`: `Spec => []WrittenOnce`.
* `ReadsFresh`: `Spec => []FreshReading`.

The inductive invariants were checked by TLC on the instance of the component's run before
they were proved.

Only model-checked: all liveness properties (`PulseEnds`, `EventuallyMirrored`, `AloneEnds`, `Settles`, `NoneForgotten`, `AccessesEnd`,
`CallsReturn`), which need fairness and ENABLED; and `KeepsPlace` and `PictureIsWhole`
(FrameDecoder). The type invariants of Gateway, AlarmLatch, ConfigSync
and SerialBus are proved, not run.

## 5. What is left, and what is not modelled

Done, in this order, the write path being what the system is for: RegisterMap, Boot,
Gateway, ConfReload, AlarmLatch, ConnectionService, ConnectionPool, ConfigSync,
SerialBus, TcpAccess, FrameDecoder, DataLogger.

Theorems still worth proving: `KeepsPlace` and `PictureIsWhole`. Both need assumptions about
how cameras make frames, and the first an invariant that relates the restart counters of the
decompressor to the tokens that were lost. As numbers of restart markers wrap at 8, it holds
of frames that lose fewer than eight of them in a row, as those of the run.

Not modelled, and why:

* **Most of libjpeg.** By far the most lines of the repository are the copy of libjpeg
  in `jni/jpeg8d`. The app decompresses only. The encoder (`jc*.c`), the transcoder and
  `transupp.c`, the quantizers, the command-line programs and their readers and writers
  (`rd*.c`, `wr*.c`, `cdjpeg.c`) are never called. The transforms (`jidct*.c`), colour
  conversion and sample arithmetic have no control to go wrong: they are functions of
  the numbers in a block, for which an MCU stands as a whole. Progressive and arithmetic
  decoding (`jdarith.c`, the other half of `jdhuff.c`) run only for frames a camera of
  this kind does not send. What the model translates is the rest: markers, input control,
  coefficient, main and upsampling control, restarts, suspension.
* **The rest of jamod**: codecs, UDP, serial and ascii listeners, other function codes and
  master facades: encoding, or not started by the gateway.
* **Android**: the monitor's screens, voice and graphs poll the image and send single
  writes, which is what Gateway's clients do; they keep no state of the protocol.
* **A second writing function on the serial bus, the reading of several registers**: never
  called.
* Vendored GCM client and wheel widget, compiled classes, the manual tester.
