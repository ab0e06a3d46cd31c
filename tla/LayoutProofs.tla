---------------------------- MODULE LayoutProofs ----------------------------
(***************************************************************************)
(* Proofs about the configuration and what is made of it.                  *)
(*                                                                         *)
(* Boot: the layout that createRegisters builds is the one that the others *)
(* recompute, for every configuration: any number of pins in use or not,   *)
(* any number of slaves of any size.                                       *)
(*                                                                         *)
(* ConfReload: a listener that reloads the configuration while no other    *)
(* does, and while no upload has truncated the file, routes by it, for     *)
(* every configuration and whatever the object held before.                *)
(***************************************************************************)
EXTENDS Boot, ConfReload, RegisterMapProofs, FiniteSetTheorems

\* Where createRegisters is.
Place ==
  /\ conf \in Configs
  /\ stage \in {"pins", "failed", "devices", "served"}
  /\ stage = "pins" =>
       /\ k \in 1..(Len(conf.pins) + 1) /\ f = 1
       /\ ~conf.gpioEnable => k = 1
  /\ stage = "devices" =>
       /\ k \in 1..(Len(conf.slaves) + 1)
       /\ IF k <= Len(conf.slaves) THEN f \in 1..(conf.slaves[k].size + 1) ELSE f = 1
  /\ stage = "served" => k = Len(conf.slaves) + 1 /\ f = 1

OwnerTypes ==
  {Status} \cup [kind : {"pin"}, pin : Nat, wired : Numbers]
           \cup [kind : {"device"}, slave : Nat, reg : Nat]

BootTyped ==
  /\ owners \in Seq(OwnerTypes)
  /\ gpioList \in Seq(Int)
  /\ provisioned \in Seq(Numbers)
  /\ mode \in [Numbers -> {"none", "in", "out"}]

\* Pins looked at, those of them in use, and device registers added.
Pins  == IF stage = "pins" THEN k - 1 ELSE IF conf.gpioEnable THEN Len(conf.pins) ELSE 0
Used  == Len(UsedUpTo(conf, Pins))
Added == IF stage = "pins" THEN 0 ELSE SizeUpTo(conf, k - 1) + f - 1

\* Register r was added for a pin in use, and is as many as are in use up to it.
PinPlace(r) ==
  \E i \in 1..Pins : \E w \in Numbers :
    /\ Owner(r) = PinOwner(i, w)
    /\ conf.pins[i].use /\ Len(UsedUpTo(conf, i)) = r
    /\ gpioList[r] = IF conf.pins[i].scope = "out" THEN w ELSE NoOutput

\* Register r is where the sums of the sizes say.
DevicePlace(r) ==
  \E s \in 1..Len(conf.slaves) : \E g \in 0..(conf.slaves[s].size - 1) :
    /\ Owner(r) = DeviceOwner(s, g)
    /\ r = 1 + Used + SizeUpTo(conf, s - 1) + g

Layout ==
  stage # "failed" =>
    /\ Len(owners) = 1 + Used + Added /\ Len(gpioList) = Used
    /\ Owner(0) = Status
    /\ \A r \in 1..Used : PinPlace(r)
    /\ \A r \in (1 + Used)..(Len(owners) - 1) : DevicePlace(r)

BootInv == Place /\ BootTyped /\ Layout

-----------------------------------------------------------------------------
(***************************************************************************)
(* What is known of a configuration.                                       *)
(***************************************************************************)
LEMMA ConfigFacts ==
  ASSUME NEW c \in Configs
  PROVE  /\ c.gpioEnable \in BOOLEAN
         /\ c.pins \in Seq(NumberedPin) /\ Len(c.pins) \in Nat
         /\ DOMAIN c.pins = 1..Len(c.pins)
         /\ \A i \in 1..Len(c.pins) :
              /\ c.pins[i] \in NumberedPin
              /\ c.pins[i].use \in BOOLEAN /\ c.pins[i].scope \in {"in", "out"}
              /\ c.pins[i].number \in Numbers
         /\ c.slaves \in Seq(SlaveEntry) /\ Len(c.slaves) \in Nat
         /\ DOMAIN c.slaves = 1..Len(c.slaves)
<1>1. c.gpioEnable \in BOOLEAN /\ c.pins \in Seq(NumberedPin) /\ c.slaves \in Seq(SlaveEntry)
  BY ConfigsAssumption
<1>2. \A i \in 1..Len(c.pins) : c.pins[i] \in NumberedPin
  BY <1>1
<1>3. ASSUME NEW p \in NumberedPin
      PROVE  p.use \in BOOLEAN /\ p.scope \in {"in", "out"} /\ p.number \in Numbers
  BY DEF NumberedPin
<1>4. QED
  BY <1>1, <1>2, <1>3

\* The counts and sums that the layout rests on are numbers.
LEMMA Counts ==
  ASSUME Place, stage # "failed"
  PROVE  /\ Pins \in 0..Len(conf.pins) /\ Used \in Nat
         /\ Added \in Nat
         /\ ~conf.gpioEnable => Pins = 0 /\ Used = 0
<1>1. conf \in Configs /\ stage \in {"pins", "devices", "served"}
  BY DEF Place
<1>2. /\ conf.gpioEnable \in BOOLEAN /\ conf.pins \in Seq(NumberedPin)
      /\ Len(conf.pins) \in Nat /\ conf.slaves \in Seq(SlaveEntry) /\ Len(conf.slaves) \in Nat
  BY <1>1, ConfigFacts
<1>3. Pins \in 0..Len(conf.pins) /\ (~conf.gpioEnable => Pins = 0)
  BY <1>1, <1>2 DEF Pins, Place
<1>4. Used \in Nat /\ (Pins = 0 => Used = 0)
  BY <1>2, <1>3, UsedCount DEF Used
<1>5. Added \in Nat
  <2>1. CASE stage = "pins"
    BY <2>1 DEF Added
  <2>2. CASE stage # "pins"
    <3>1. k - 1 \in 0..Len(conf.slaves) /\ f \in Nat /\ f >= 1
      <4>1. CASE stage = "served"
        BY <1>2, <4>1 DEF Place
      <4>2. CASE stage = "devices" /\ k <= Len(conf.slaves)
        <5>1. k \in 1..Len(conf.slaves)
          BY <1>2, <4>2 DEF Place
        <5>2. conf.slaves[k].size \in Nat
          BY <1>2, <5>1, SizeNext
        <5>3. QED
          BY <1>2, <4>2, <5>1, <5>2 DEF Place
      <4>3. CASE stage = "devices" /\ ~(k <= Len(conf.slaves))
        BY <1>2, <4>3 DEF Place
      <4>4. QED
        BY <1>1, <2>2, <4>1, <4>2, <4>3
    <3>2. SizeUpTo(conf, k - 1) \in Nat
      BY <1>2, <3>1, SizeNext
    <3>3. QED
      BY <2>2, <3>1, <3>2 DEF Added
  <2>3. QED
    BY <2>1, <2>2
<1>6. QED
  BY <1>3, <1>4, <1>5

\* What was added stays where it is when the lists grow.
LEMMA PinPlaceStays ==
  ASSUME BootTyped, NEW r \in Nat, r < Len(owners), r <= Len(gpioList), r >= 1, PinPlace(r),
         conf' = conf, Pins' \in Nat, Pins <= Pins', Pins \in Nat,
         owners'[r + 1] = owners[r + 1], gpioList'[r] = gpioList[r]
  PROVE  PinPlace(r)'
<1>1. PICK i \in 1..Pins, w \in Numbers :
        /\ Owner(r) = PinOwner(i, w)
        /\ conf.pins[i].use /\ Len(UsedUpTo(conf, i)) = r
        /\ gpioList[r] = IF conf.pins[i].scope = "out" THEN w ELSE NoOutput
  BY DEF PinPlace
<1>2. i \in 1..Pins'
  OBVIOUS
<1>3. Owner(r)' = PinOwner(i, w)
  BY <1>1 DEF Owner
<1>4. QED
  BY <1>1, <1>2, <1>3 DEF PinPlace

LEMMA DevicePlaceStays ==
  ASSUME NEW r \in Nat, DevicePlace(r), conf' = conf, Used' = Used,
         owners'[r + 1] = owners[r + 1]
  PROVE  DevicePlace(r)'
<1>1. Owner(r)' = Owner(r)
  BY DEF Owner
<1>2. QED
  BY <1>1 DEF DevicePlace

-----------------------------------------------------------------------------
LEMMA InitInv == Init => BootInv
<1> SUFFICES ASSUME Init PROVE BootInv
  OBVIOUS
<1>1. conf \in Configs /\ conf.slaves \in Seq(SlaveEntry) /\ Len(conf.pins) \in Nat
  BY ConfigFacts DEF Init
<1>2. Place
  BY <1>1 DEF Init, Place
<1>3. BootTyped
  BY DEF Init, BootTyped, OwnerTypes
<1>4. Pins = 0 /\ Used = 0 /\ Added = 0
  BY <1>1, ConfigFacts, UsedCount DEF Init, Pins, Used, Added
<1>5. Layout
  BY <1>4 DEF Init, Layout, Owner
<1>6. QED
  BY <1>2, <1>3, <1>5 DEF BootInv

\* The pin looked at, and what counting it does.
LEMMA AtPinFacts ==
  ASSUME Place, AtPin, conf' = conf, stage' = stage, k' = k + 1
  PROVE  /\ k \in 1..Len(conf.pins) /\ Pins = k - 1 /\ Pins' = k
         /\ conf.pins[k] \in NumberedPin
         /\ conf.pins[k].use \in BOOLEAN /\ conf.pins[k].scope \in {"in", "out"}
         /\ conf.pins[k].number \in Numbers
         /\ Used \in Nat /\ Used' = Used + (IF conf.pins[k].use THEN 1 ELSE 0)
         /\ Added = 0 /\ Added' = 0 /\ stage = "pins"
         /\ Used' = Len(UsedUpTo(conf, k))
<1>1. conf \in Configs /\ stage = "pins" /\ k \in DOMAIN conf.pins
  BY DEF Place, AtPin
<1>2. k \in 1..Len(conf.pins) /\ Len(conf.pins) \in Nat /\ conf.pins \in Seq(NumberedPin)
  BY <1>1, ConfigFacts
<1>3. Pins = k - 1 /\ Pins' = k
  BY <1>1, <1>2 DEF Pins
<1>4. Added = 0 /\ Added' = 0
  BY <1>1 DEF Added
<1>5. k - 1 \in 0..Len(conf.pins)
  BY <1>2
<1>6. Used \in Nat /\ Used' = Used + (IF conf.pins[k].use THEN 1 ELSE 0)
  BY <1>2, <1>3, <1>5, UsedCount DEF Used
<1>7. Used' = Len(UsedUpTo(conf, k))
  BY <1>3 DEF Used
<1>8. QED
  BY <1>1, <1>2, <1>3, <1>4, <1>6, <1>7, ConfigFacts

LEMMA SkipPinInv == BootInv /\ SkipPin => BootInv'
<1> SUFFICES ASSUME BootInv, SkipPin PROVE BootInv'
  OBVIOUS
<1>1. Place /\ BootTyped /\ Layout /\ AtPin
  BY DEF BootInv, SkipPin
<1>2. /\ conf' = conf /\ stage' = stage /\ k' = k + 1 /\ f' = f /\ ~conf.pins[k].use
      /\ UNCHANGED <<owners, gpioList, provisioned, mode>>
  BY DEF SkipPin
<1>3. /\ k \in 1..Len(conf.pins) /\ Pins = k - 1 /\ Pins' = k /\ stage = "pins"
      /\ Used \in Nat /\ Used' = Used /\ Added = 0 /\ Added' = 0
  BY <1>1, <1>2, AtPinFacts
<1>4. Place'
  BY <1>1, <1>2, <1>3 DEF Place, AtPin
<1>5. BootTyped'
  BY <1>1, <1>2 DEF BootTyped
<1>6. /\ Len(owners) = 1 + Used /\ Len(gpioList) = Used /\ Owner(0) = Status
      /\ \A r \in 1..Used : PinPlace(r)
      /\ \A r \in (1 + Used)..(Len(owners) - 1) : DevicePlace(r)
  BY <1>1, <1>3 DEF Layout
<1>7. \A r \in 1..Used : PinPlace(r)'
  BY <1>1, <1>2, <1>3, <1>6, PinPlaceStays
<1>8. Layout'
  BY <1>2, <1>3, <1>6, <1>7 DEF Layout, Owner
<1>9. QED
  BY <1>4, <1>5, <1>8 DEF BootInv

\* Inputs and outputs alike: one register and one place of gpioList more.
LEMMA AddPinInv ==
  ASSUME BootInv, AtPin, conf.pins[k].use, NEW w \in Numbers,
         conf' = conf, stage' = stage, k' = k + 1, f' = f,
         owners' = Append(owners, PinOwner(k, w)),
         gpioList' = Append(gpioList, IF conf.pins[k].scope = "out" THEN w ELSE NoOutput),
         provisioned' \in Seq(Numbers), mode' \in [Numbers -> {"none", "in", "out"}]
  PROVE  BootInv'
<1>1. Place /\ BootTyped /\ Layout
  BY DEF BootInv
<1>2. /\ k \in 1..Len(conf.pins) /\ Pins = k - 1 /\ Pins' = k /\ stage = "pins"
      /\ conf.pins[k].scope \in {"in", "out"}
      /\ Used \in Nat /\ Used' = Used + 1 /\ Added = 0 /\ Added' = 0
      /\ Used' = Len(UsedUpTo(conf, k))
  BY <1>1, AtPinFacts
<1>3. Place'
  BY <1>1, <1>2 DEF Place, AtPin
<1>4. BootTyped'
  <2>1. PinOwner(k, w) \in OwnerTypes /\ k \in Nat
    BY <1>2 DEF PinOwner, OwnerTypes
  <2>2. (IF conf.pins[k].scope = "out" THEN w ELSE NoOutput) \in Int
    BY DEF Numbers, NoOutput
  <2>3. QED
    BY <1>1, <2>1, <2>2 DEF BootTyped
<1>5. /\ Len(owners) = 1 + Used /\ Len(gpioList) = Used /\ Owner(0) = Status
      /\ \A r \in 1..Used : PinPlace(r)
  BY <1>1, <1>2 DEF Layout
<1>6. /\ Len(owners') = 2 + Used /\ Len(gpioList') = Used + 1
      /\ owners'[Used + 2] = PinOwner(k, w)
      /\ gpioList'[Used + 1] = IF conf.pins[k].scope = "out" THEN w ELSE NoOutput
      /\ \A r \in 0..Used : owners'[r + 1] = owners[r + 1]
      /\ \A r \in 1..Used : gpioList'[r] = gpioList[r]
  BY <1>1, <1>2, <1>5 DEF BootTyped
<1>7. \A r \in 1..Used : PinPlace(r)'
  BY <1>1, <1>2, <1>5, <1>6, PinPlaceStays
<1>8. ASSUME NEW r \in Nat, r = Used + 1 PROVE PinPlace(r)'
  <2>1. Owner(r)' = PinOwner(k, w)
    BY <1>2, <1>6, <1>8 DEF Owner
  <2>2. k \in 1..Pins' /\ Len(UsedUpTo(conf', k)) = r
    BY <1>2, <1>8
  <2>3. QED
    BY <1>2, <1>6, <1>8, <2>1, <2>2 DEF PinPlace
<1>9. \A r \in 1..Used' : PinPlace(r)'
  BY <1>2, <1>7, <1>8
<1>10. Owner(0)' = Status
  BY <1>2, <1>5, <1>6 DEF Owner
<1>11. Layout'
  BY <1>2, <1>6, <1>9, <1>10 DEF Layout
<1>12. QED
  BY <1>3, <1>4, <1>11 DEF BootInv

LEMMA AddOutputInv == BootInv /\ AddOutput => BootInv'
<1> SUFFICES ASSUME BootInv, AddOutput PROVE BootInv'
  OBVIOUS
<1>1. AtPin /\ Place /\ BootTyped /\ conf.pins[k].scope = "out"
  BY DEF BootInv, AddOutput
<1>2. conf.pins[k].number \in Numbers
  BY <1>1, ConfigFacts DEF Place, AtPin
<1>3. /\ provisioned' = Append(provisioned, conf.pins[k].number)
      /\ mode' = [mode EXCEPT ![conf.pins[k].number] = "out"]
  BY DEF AddOutput
<1>4. provisioned' \in Seq(Numbers) /\ mode' \in [Numbers -> {"none", "in", "out"}]
  BY <1>1, <1>2, <1>3 DEF BootTyped
<1>5. /\ conf.pins[k].use /\ conf' = conf /\ stage' = stage /\ k' = k + 1 /\ f' = f
      /\ owners' = Append(owners, PinOwner(k, conf.pins[k].number))
      /\ gpioList' = Append(gpioList, conf.pins[k].number)
  BY DEF AddOutput
<1>6. QED
  BY <1>1, <1>2, <1>4, <1>5, AddPinInv

LEMMA AddInputInv == BootInv /\ AddInput => BootInv'
<1> SUFFICES ASSUME BootInv, AddInput PROVE BootInv'
  OBVIOUS
<1> DEFINE number == conf.pins[k].number
           reuse  == NameContains(provisioned[1], number)
           wired  == IF reuse THEN provisioned[1] ELSE number
<1>1. AtPin /\ Place /\ BootTyped /\ conf.pins[k].scope = "in" /\ provisioned # <<>>
  BY DEF BootInv, AddInput
<1>2. number \in Numbers /\ provisioned[1] \in Numbers
  BY <1>1, ConfigFacts DEF Place, AtPin, BootTyped
<1>3. wired \in Numbers
  BY <1>2
<1>4. /\ conf.pins[k].use /\ conf' = conf /\ stage' = stage /\ k' = k + 1 /\ f' = f
      /\ owners' = Append(owners, PinOwner(k, wired))
      /\ gpioList' = Append(gpioList, NoOutput)
      /\ mode' = [mode EXCEPT ![wired] = "in"]
      /\ provisioned' = IF reuse THEN provisioned ELSE Append(provisioned, number)
  BY DEF AddInput
<1> HIDE DEF wired, reuse, number
<1>5. provisioned' \in Seq(Numbers) /\ mode' \in [Numbers -> {"none", "in", "out"}]
  BY <1>1, <1>2, <1>3, <1>4 DEF BootTyped
<1>6. gpioList' = Append(gpioList, IF conf.pins[k].scope = "out" THEN wired ELSE NoOutput)
  BY <1>1, <1>4
<1>7. QED
  BY <1>1, <1>3, <1>4, <1>5, <1>6, AddPinInv

LEMMA PinsDoneInv == BootInv /\ PinsDone => BootInv'
<1> SUFFICES ASSUME BootInv, PinsDone PROVE BootInv'
  OBVIOUS
<1>1. /\ Place /\ BootTyped /\ Layout /\ stage = "pins" /\ ~AtPin /\ conf \in Configs
      /\ stage' = "devices" /\ k' = 1 /\ f = 1
      /\ UNCHANGED <<conf, f, owners, gpioList, provisioned, mode>>
  BY DEF BootInv, PinsDone, Place
<1>2. /\ conf.gpioEnable \in BOOLEAN /\ Len(conf.pins) \in Nat /\ Len(conf.slaves) \in Nat
      /\ DOMAIN conf.pins = 1..Len(conf.pins) /\ conf.slaves \in Seq(SlaveEntry)
  BY <1>1, ConfigFacts
<1>3. Pins' = Pins
  <2>1. CASE conf.gpioEnable
    BY <1>1, <1>2, <2>1 DEF Pins, AtPin, Place
  <2>2. CASE ~conf.gpioEnable
    BY <1>1, <2>2 DEF Pins, Place
  <2>3. QED
    BY <2>1, <2>2
<1>4. Used' = Used /\ Added = 0 /\ Added' = 0 /\ Pins \in Nat /\ Used \in Nat
  <2>1. SizeUpTo(conf, 0) = 0
    BY <1>2, SizeNext
  <2>2. QED
    BY <1>1, <1>2, <1>3, <2>1, Counts DEF Used, Added
<1>5. Place'
  <2>1. 1 \in 1..(Len(conf.slaves) + 1)
    BY <1>2
  <2>2. 1 <= Len(conf.slaves) => 1 \in 1..(conf.slaves[1].size + 1)
    BY <1>2, SizeNext
  <2>3. QED
    BY <1>1, <2>1, <2>2 DEF Place
<1>6. BootTyped'
  BY <1>1 DEF BootTyped
<1>7. /\ Len(owners) = 1 + Used /\ Len(gpioList) = Used /\ Owner(0) = Status
      /\ \A r \in 1..Used : PinPlace(r)
  BY <1>1, <1>4 DEF Layout
<1>8. \A r \in 1..Used : PinPlace(r)'
  BY <1>1, <1>3, <1>4, <1>7, PinPlaceStays
<1>9. Layout'
  BY <1>1, <1>4, <1>7, <1>8 DEF Layout, Owner
<1>10. QED
  BY <1>5, <1>6, <1>9 DEF BootInv

LEMMA AddDeviceInv == BootInv /\ AddDevice => BootInv'
<1> SUFFICES ASSUME BootInv, AddDevice PROVE BootInv'
  OBVIOUS
<1>1. /\ Place /\ BootTyped /\ Layout /\ stage = "devices" /\ conf \in Configs
      /\ k \in DOMAIN conf.slaves
      /\ UNCHANGED <<conf, stage, gpioList, provisioned, mode>>
  BY DEF BootInv, AddDevice, Place
<1>2. /\ k \in 1..Len(conf.slaves) /\ Len(conf.slaves) \in Nat
      /\ conf.slaves \in Seq(SlaveEntry)
  BY <1>1, ConfigFacts
<1>3. /\ conf.slaves[k].size \in Nat
      /\ SizeUpTo(conf, k) = SizeUpTo(conf, k - 1) + conf.slaves[k].size
      /\ SizeUpTo(conf, k - 1) \in Nat /\ SizeUpTo(conf, k) \in Nat
      /\ k < Len(conf.slaves) => conf.slaves[k + 1].size \in Nat
  <2>1. k - 1 \in 0..Len(conf.slaves) /\ k \in 0..Len(conf.slaves)
    BY <1>2
  <2>2. k < Len(conf.slaves) => k + 1 \in 1..Len(conf.slaves)
    BY <1>2
  <2>3. QED
    BY <1>2, <2>1, <2>2, SizeNext
<1>4. f \in 1..(conf.slaves[k].size + 1)
  BY <1>1, <1>2 DEF Place
<1>5. Pins' = Pins /\ Used' = Used /\ Used \in Nat /\ Pins \in Nat
  BY <1>1, Counts DEF Pins, Used
<1>6. /\ Len(owners) = 1 + Used + Added /\ Len(gpioList) = Used /\ Owner(0) = Status
      /\ \A r \in 1..Used : PinPlace(r)
      /\ \A r \in (1 + Used)..(Len(owners) - 1) : DevicePlace(r)
      /\ Added = SizeUpTo(conf, k - 1) + f - 1
  BY <1>1 DEF Layout, Added
<1>7. CASE f <= conf.slaves[k].size
  <2>1. owners' = Append(owners, DeviceOwner(k, f - 1)) /\ f' = f + 1 /\ k' = k
    BY <1>7 DEF AddDevice
  <2>2. Place'
    BY <1>1, <1>2, <1>3, <1>4, <1>7, <2>1 DEF Place
  <2>3. BootTyped'
    <3>1. DeviceOwner(k, f - 1) \in OwnerTypes
      BY <1>2, <1>4 DEF DeviceOwner, OwnerTypes
    <3>2. QED
      BY <1>1, <2>1, <3>1 DEF BootTyped
  <2>4. /\ Len(owners') = Len(owners) + 1 /\ owners'[Len(owners) + 1] = DeviceOwner(k, f - 1)
        /\ \A r \in 0..(Len(owners) - 1) : owners'[r + 1] = owners[r + 1]
        /\ Len(owners) \in Nat
    BY <1>1, <2>1 DEF BootTyped
  <2>5. Added' = Added + 1 /\ Added \in Nat
    <3>1. Added' = SizeUpTo(conf, k - 1) + (f + 1) - 1
      BY <1>1, <2>1 DEF Added
    <3>2. Added = SizeUpTo(conf, k - 1) + f - 1
      BY <1>1 DEF Added
    <3>3. f \in Nat /\ f >= 1 /\ SizeUpTo(conf, k - 1) \in Nat
      BY <1>3, <1>4
    <3>4. QED
      BY <3>1, <3>2, <3>3
  <2>6. ASSUME NEW r \in 1..Used PROVE PinPlace(r)'
    <3>1. Len(owners) = 1 + Used + Added /\ Added \in Nat /\ Used \in Nat
      BY <1>5, <1>6, <2>5
    <3>2. r \in Nat /\ r >= 1 /\ r <= Used /\ r < Len(owners) /\ r \in 0..(Len(owners) - 1)
      BY <3>1
    <3>3. owners'[r + 1] = owners[r + 1] /\ gpioList'[r] = gpioList[r] /\ conf' = conf
      BY <1>1, <2>4, <3>2
    <3>4. PinPlace(r) /\ r <= Len(gpioList) /\ Pins \in Nat /\ Pins' = Pins /\ BootTyped
      BY <1>1, <1>5, <1>6, <3>2
    <3>5. QED
      BY <3>2, <3>3, <3>4, PinPlaceStays
  <2>7. \A r \in (1 + Used)..(Len(owners) - 1) : DevicePlace(r)'
    BY <1>1, <1>5, <1>6, <2>4, DevicePlaceStays
  <2>8. ASSUME NEW r \in Nat, r = Len(owners) PROVE DevicePlace(r)'
    <3>1. Owner(r)' = DeviceOwner(k, f - 1)
      BY <2>4, <2>8 DEF Owner
    <3>2. f - 1 \in 0..(conf.slaves[k].size - 1)
      BY <1>3, <1>4, <1>7
    <3>3. r = 1 + Used + SizeUpTo(conf, k - 1) + (f - 1)
      BY <1>3, <1>4, <1>5, <1>6, <2>8
    <3>4. QED
      BY <1>1, <1>2, <1>5, <3>1, <3>2, <3>3 DEF DevicePlace
  <2>9. \A r \in (1 + Used)..(Len(owners') - 1) : DevicePlace(r)'
    BY <1>5, <2>4, <2>7, <2>8
  <2>10. Owner(0)' = Status
    BY <1>5, <1>6, <2>4, <2>5 DEF Owner
  <2>11. Layout'
    <3>1. Len(owners') = 1 + Used' + Added'
      <4>1. Len(owners) = 1 + Used + Added
        BY <1>6
      <4>2. QED
        BY <1>5, <2>4, <2>5, <4>1
    <3>2. Len(gpioList') = Used'
      BY <1>1, <1>5, <1>6
    <3>3. /\ \A r \in 1..Used' : PinPlace(r)'
          /\ \A r \in (1 + Used')..(Len(owners') - 1) : DevicePlace(r)'
      BY <1>5, <2>6, <2>9, Zenon
    <3>4. QED
      BY <2>10, <3>1, <3>2, <3>3, Zenon DEF Layout
  <2>12. QED
    BY <2>2, <2>3, <2>11 DEF BootInv
<1>8. CASE ~(f <= conf.slaves[k].size)
  <2>1. owners' = owners /\ f' = 1 /\ k' = k + 1
    BY <1>8 DEF AddDevice
  <2>2. Place'
    <3>1. k' \in 1..(Len(conf.slaves) + 1)
      BY <1>2, <2>1
    <3>2. k' <= Len(conf.slaves) => f' \in 1..(conf.slaves[k'].size + 1)
      BY <1>2, <1>3, <2>1
    <3>3. QED
      BY <1>1, <2>1, <3>1, <3>2 DEF Place
  <2>3. BootTyped'
    BY <1>1, <2>1 DEF BootTyped
  <2>4. Added' = Added
    <3>1. (k + 1) - 1 = k /\ f = conf.slaves[k].size + 1
      BY <1>2, <1>3, <1>4, <1>8
    <3>2. Added' = SizeUpTo(conf, k) + 1 - 1
      BY <1>1, <2>1, <3>1 DEF Added
    <3>3. Added = SizeUpTo(conf, k - 1) + f - 1
      BY <1>6
    <3>4. QED
      BY <1>3, <3>1, <3>2, <3>3
  <2>5. \A r \in 1..Used : PinPlace(r)'
    <3>1. Used <= Len(owners) - 1
      BY <1>1, <1>5, <1>6, Counts
    <3>2. QED
      BY <1>1, <1>5, <1>6, <2>1, <3>1, PinPlaceStays
  <2>6. \A r \in (1 + Used)..(Len(owners) - 1) : DevicePlace(r)'
    BY <1>1, <1>5, <1>6, <2>1, DevicePlaceStays
  <2>7. Layout'
    BY <1>1, <1>5, <1>6, <2>1, <2>4, <2>5, <2>6 DEF Layout, Owner
  <2>8. QED
    BY <2>2, <2>3, <2>7 DEF BootInv
<1>9. QED
  BY <1>7, <1>8

LEMMA ServeInv == BootInv /\ Serve => BootInv'
<1> SUFFICES ASSUME BootInv, Serve PROVE BootInv'
  OBVIOUS
<1>1. /\ Place /\ BootTyped /\ Layout /\ stage = "devices" /\ conf \in Configs
      /\ k \notin DOMAIN conf.slaves /\ stage' = "served"
      /\ UNCHANGED <<conf, k, f, owners, gpioList, provisioned, mode>>
  BY DEF BootInv, Serve, Place
<1>2. Len(conf.slaves) \in Nat /\ DOMAIN conf.slaves = 1..Len(conf.slaves)
  BY <1>1, ConfigFacts
<1>3. k = Len(conf.slaves) + 1 /\ f = 1
  BY <1>1, <1>2 DEF Place
<1>4. Pins' = Pins /\ Used' = Used /\ Added' = Added /\ Used \in Nat /\ Pins \in Nat
      /\ Added \in Nat
  BY <1>1, Counts DEF Pins, Used, Added
<1>5. Place' /\ BootTyped'
  BY <1>1, <1>3 DEF Place, BootTyped
<1>6. /\ Len(owners) = 1 + Used + Added /\ Len(gpioList) = Used /\ Owner(0) = Status
      /\ \A r \in 1..Used : PinPlace(r)
      /\ \A r \in (1 + Used)..(Len(owners) - 1) : DevicePlace(r)
  BY <1>1 DEF Layout
<1>7. \A r \in 1..Used : PinPlace(r)'
  BY <1>1, <1>4, <1>6, PinPlaceStays
<1>8. \A r \in (1 + Used)..(Len(owners) - 1) : DevicePlace(r)'
  BY <1>1, <1>4, <1>6, DevicePlaceStays
<1>9. Layout'
  BY <1>1, <1>4, <1>6, <1>7, <1>8 DEF Layout, Owner
<1>10. QED
  BY <1>5, <1>9 DEF BootInv

LEMMA NextInv == BootInv /\ [Next]_vars => BootInv'
<1> SUFFICES ASSUME BootInv, [Next]_vars PROVE BootInv'
  OBVIOUS
<1>1. CASE FirstInputFails
  BY <1>1 DEF FirstInputFails, BootInv, Place, BootTyped, Layout
<1>2. CASE UNCHANGED vars
  <2>1. Place' /\ BootTyped'
    BY <1>2 DEF vars, BootInv, Place, BootTyped
  <2>2. Layout'
    BY <1>2 DEF vars, BootInv, Layout, Owner, PinPlace, DevicePlace, Pins, Used, Added
  <2>3. QED
    BY <2>1, <2>2 DEF BootInv
<1>3. QED
  BY <1>1, <1>2, SkipPinInv, AddOutputInv, AddInputInv, PinsDoneInv, AddDeviceInv,
     ServeInv DEF Next

\* At every point of createRegisters the image is the status register, then one
\* register for each pin in use so far, then one for each register of a device so far,
\* and gpioList has the outputs among those pins.
THEOREM LayoutBuilt == Spec => []BootInv
BY InitInv, NextInv, PTL DEF Spec

-----------------------------------------------------------------------------
(***************************************************************************)
(* The layout once the image is served.                                    *)
(***************************************************************************)
Total == SizeUpTo(conf, Len(conf.slaves))

LEMMA ServedFacts ==
  ASSUME BootInv, Served
  PROVE  /\ conf.gpioEnable \in BOOLEAN /\ conf.pins \in Seq(NumberedPin)
         /\ Len(conf.pins) \in Nat
         /\ conf.slaves \in Seq(SlaveEntry) /\ Len(conf.slaves) \in Nat
         /\ DOMAIN conf.slaves = 1..Len(conf.slaves)
         /\ Used \in Nat /\ Total \in Nat
         /\ GpioSize(conf) = Used + 1
         /\ conf.gpioEnable => GpioNumber(conf) = Used
         /\ ~conf.gpioEnable => Used = 0
         /\ Pins = IF conf.gpioEnable THEN Len(conf.pins) ELSE 0
         /\ Registers = 0..(Used + Total)
         /\ PinRegisters = 1..Used
         /\ DeviceRegisters = (1 + Used)..(Used + Total)
         /\ Owner(0) = Status
         /\ \A r \in PinRegisters : PinPlace(r)
         /\ \A r \in DeviceRegisters : DevicePlace(r)
<1>1. Place /\ BootTyped /\ Layout /\ stage = "served" /\ conf \in Configs
      /\ k = Len(conf.slaves) + 1 /\ f = 1
  BY DEF BootInv, Served, Place
<1>2. /\ conf.gpioEnable \in BOOLEAN /\ conf.pins \in Seq(NumberedPin)
      /\ Len(conf.pins) \in Nat /\ conf.slaves \in Seq(SlaveEntry) /\ Len(conf.slaves) \in Nat
      /\ DOMAIN conf.slaves = 1..Len(conf.slaves)
  BY <1>1, ConfigFacts
<1>3. Pins = IF conf.gpioEnable THEN Len(conf.pins) ELSE 0
  BY <1>1 DEF Pins
<1>4. Used \in Nat /\ (~conf.gpioEnable => Used = 0) /\ Total \in Nat
  <2>1. Len(conf.slaves) \in 0..Len(conf.slaves)
    BY <1>2
  <2>2. QED
    BY <1>1, <1>2, <2>1, Counts, SizeNext DEF Total
<1>5. (conf.gpioEnable => GpioNumber(conf) = Used) /\ GpioSize(conf) = Used + 1
  BY <1>2, <1>3, <1>4 DEF GpioNumber, PinsUsed, Used, GpioSize, STATUS_OK
<1>6. Added = Total
  BY <1>1, <1>2, <1>4 DEF Added, Total
<1>7. /\ Len(owners) = 1 + Used + Total /\ Owner(0) = Status
      /\ \A r \in 1..Used : PinPlace(r)
      /\ \A r \in (1 + Used)..(Len(owners) - 1) : DevicePlace(r)
  BY <1>1, <1>6 DEF Layout
<1>8. Registers = 0..(Used + Total)
  BY <1>4, <1>7 DEF Registers
<1>9. ASSUME NEW r \in 1..Used PROVE Owner(r).kind = "pin"
  BY <1>7 DEF PinPlace, PinOwner
<1>10. ASSUME NEW r \in (1 + Used)..(Used + Total) PROVE Owner(r).kind = "device"
  <2>1. DevicePlace(r)
    BY <1>4, <1>7
  <2>2. QED
    BY <2>1 DEF DevicePlace, DeviceOwner
<1>11. Owner(0).kind = "status"
  BY <1>7 DEF Status
<1>12. Registers = {0} \cup (1..Used) \cup ((1 + Used)..(Used + Total))
  BY <1>4, <1>8
<1>13. PinRegisters = 1..Used /\ DeviceRegisters = (1 + Used)..(Used + Total)
  BY <1>9, <1>10, <1>11, <1>12 DEF PinRegisters, DeviceRegisters
<1>14. /\ \A r \in PinRegisters : PinPlace(r)
       /\ \A r \in DeviceRegisters : DevicePlace(r)
  <2>1. Len(owners) - 1 = Used + Total
    BY <1>4, <1>7
  <2>2. QED
    BY <1>7, <1>13, <2>1, Zenon
<1>15. QED
  BY <1>2, <1>3, <1>4, <1>5, <1>7, <1>8, <1>13, <1>14, Zenon

\* A write of a pin's register reaches that pin.
LEMMA PinRouted ==
  ASSUME BootInv, Served, NEW r \in PinRegisters
  PROVE  Reaches(Route(conf, r), Owner(r)) /\ r # GpioSize(conf) /\ Route(conf, r).kind = "pin"
<1>1. /\ PinPlace(r) /\ Used \in Nat /\ r \in 1..Used /\ GpioSize(conf) = Used + 1
      /\ conf.gpioEnable \in BOOLEAN /\ (~conf.gpioEnable => Used = 0)
  BY ServedFacts
<1>2. Route(conf, r) = [kind |-> "pin", pin |-> r]
  BY <1>1 DEF Route, IsPinRegister
<1>3. Reaches(Route(conf, r), Owner(r))
  BY <1>1, <1>2 DEF PinPlace, PinOwner, Reaches
<1>4. QED
  BY <1>1, <1>2, <1>3

\* The offset of an address past the status register and the pins in use.
LEMMA OffsetOf ==
  ASSUME NEW used \in Nat, NEW before \in Nat, NEW g \in Nat, NEW gpios, gpios = used + 1,
         NEW r, r = 1 + used + before + g
  PROVE  r - gpios = before + g /\ r - gpios \in Nat /\ r \in Nat /\ gpios \in Nat
  OBVIOUS

\* A device's register but the first is routed by its offset.
LEMMA DeviceRouted ==
  ASSUME BootInv, Served, NEW r \in DeviceRegisters
  PROVE  \E s \in 1..Len(conf.slaves) : \E g \in 0..(conf.slaves[s].size - 1) :
           /\ Owner(r) = DeviceOwner(s, g)
           /\ r - GpioSize(conf) = SizeUpTo(conf, s - 1) + g
           /\ r - GpioSize(conf) \in Nat
           /\ Route(conf, r) =
                IF r = GpioSize(conf) THEN FirstRoute(conf)
                ELSE [kind |-> "device", slave |-> s, reg |-> g,
                      via |-> conf.slaves[s].protocol]
<1>1. /\ DevicePlace(r) /\ Used \in Nat /\ Total \in Nat /\ GpioSize(conf) = Used + 1
      /\ r \in (1 + Used)..(Used + Total) /\ conf.slaves \in Seq(SlaveEntry)
      /\ Len(conf.slaves) \in Nat
  BY ServedFacts
<1>2. PICK s \in 1..Len(conf.slaves) : \E g \in 0..(conf.slaves[s].size - 1) :
         Owner(r) = DeviceOwner(s, g) /\ r = 1 + Used + SizeUpTo(conf, s - 1) + g
  BY <1>1 DEF DevicePlace
<1>3. PICK g \in 0..(conf.slaves[s].size - 1) :
         Owner(r) = DeviceOwner(s, g) /\ r = 1 + Used + SizeUpTo(conf, s - 1) + g
  BY <1>2
<1>4. SizeUpTo(conf, s - 1) \in Nat /\ conf.slaves[s].size \in Nat
  <2>1. s - 1 \in 0..Len(conf.slaves)
    BY <1>1
  <2>2. QED
    BY <1>1, <2>1, SizeNext
<1>5. /\ r - GpioSize(conf) = SizeUpTo(conf, s - 1) + g /\ r - GpioSize(conf) \in Nat
      /\ r \in Nat /\ GpioSize(conf) \in Nat
  <2> DEFINE before == SizeUpTo(conf, s - 1)
             gpios == GpioSize(conf)
  <2>1. before \in Nat /\ g \in Nat
    BY <1>4
  <2>2. r = 1 + Used + before + g
    BY <1>3
  <2>3. Used \in Nat /\ gpios = Used + 1
    BY <1>1
  <2> HIDE DEF before, gpios
  <2>4. r - gpios = before + g /\ r - gpios \in Nat /\ r \in Nat /\ gpios \in Nat
    BY <2>1, <2>2, <2>3, OffsetOf
  <2>5. QED
    BY <2>4 DEF before, gpios
<1>6. ~IsPinRegister(conf, r)
  BY <1>1 DEF IsPinRegister
<1>7. CASE r = GpioSize(conf)
  <2>1. Route(conf, r) = FirstRoute(conf)
    BY <1>1, <1>6, <1>7 DEF Route
  <2>2. QED
    BY <1>3, <1>5, <1>7, <2>1
<1>8. CASE r # GpioSize(conf)
  <2>1. r - GpioSize(conf) > 0
    BY <1>5, <1>8
  <2>2. Route(conf, r) = DeviceRoute(conf, SizeUpTo(conf, s - 1) + g)
    BY <1>5, <1>6, <2>1 DEF Route
  <2>3. Route(conf, r) = [kind |-> "device", slave |-> s, reg |-> g,
                          via |-> conf.slaves[s].protocol]
    BY <1>1, <2>2, SearchFindsOwner
  <2>4. QED
    BY <1>3, <1>5, <1>8, <2>3
<1>9. QED
  BY <1>7, <1>8

\* The first device register: by tcp to the first slave, whoever owns it.
LEMMA FirstRouted ==
  ASSUME BootInv, Served, NEW r \in DeviceRegisters, r = GpioSize(conf)
  PROVE  Reaches(Route(conf, r), Owner(r)) <=> FirstByTcp
<1> DEFINE Routed(s, g) == /\ Owner(r) = DeviceOwner(s, g)
                           /\ r - GpioSize(conf) = SizeUpTo(conf, s - 1) + g
                           /\ r - GpioSize(conf) \in Nat
                           /\ Route(conf, r) = FirstRoute(conf)
<1>0. PICK s \in 1..Len(conf.slaves) : \E g \in 0..(conf.slaves[s].size - 1) : Routed(s, g)
  BY DeviceRouted
<1>1. PICK g \in 0..(conf.slaves[s].size - 1) : Routed(s, g)
  BY <1>0
<1>2. /\ conf.slaves \in Seq(SlaveEntry) /\ Len(conf.slaves) \in Nat
      /\ GpioSize(conf) \in Nat
  BY ServedFacts
<1>3. 1 \in 1..Len(conf.slaves) /\ conf.slaves # <<>>
  BY <1>2
<1>4. /\ SizeUpTo(conf, 1) = conf.slaves[1].size /\ conf.slaves[1].size \in Nat
      /\ SizeUpTo(conf, s - 1) \in Nat /\ SizeUpTo(conf, 1) \in Nat
      /\ conf.slaves[1].protocol \in {"tcp", "rtu"}
  <2>1. SizeUpTo(conf, 0) = 0 /\ conf.slaves[1] \in SlaveEntry
    BY <1>2, <1>3, SizeNext
  <2>2. s - 1 \in 0..Len(conf.slaves) /\ 1 \in 0..Len(conf.slaves) /\ 1 - 1 = 0
    BY <1>2, <1>3
  <2>3. SizeUpTo(conf, 1) = SizeUpTo(conf, 0) + conf.slaves[1].size
        /\ conf.slaves[1].size \in Nat
    BY <1>2, <1>3, <2>2, SizeNext
  <2>4. SizeUpTo(conf, s - 1) \in Nat /\ SizeUpTo(conf, 1) \in Nat
    BY <1>2, <2>2, SizeNext
  <2>5. conf.slaves[1].protocol \in {"tcp", "rtu"}
    BY <2>1 DEF SlaveEntry
  <2>6. QED
    BY <2>1, <2>3, <2>4, <2>5
<1>5. SizeUpTo(conf, s - 1) = 0 /\ g = 0
  BY <1>1, <1>2, <1>4
<1>6. CASE conf.slaves[1].size = 0
  <2>1. FirstRoute(conf) = [kind |-> "none"] /\ ~FirstByTcp
    BY <1>6 DEF FirstRoute, FirstByTcp
  <2>2. QED
    BY <1>1, <2>1 DEF Reaches, DeviceOwner
<1>7. CASE conf.slaves[1].size # 0
  <2>1. s = 1
    <3>1. SUFFICES ASSUME s > 1 PROVE FALSE
      OBVIOUS
    <3>2. 1 \in 0..Len(conf.slaves) /\ s - 1 \in 1..Len(conf.slaves)
      BY <1>2, <1>3, <3>1
    <3>3. SizeUpTo(conf, 1) <= SizeUpTo(conf, s - 1)
      BY <1>2, <3>2, SizeMonotone
    <3>4. QED
      BY <1>4, <1>5, <1>7, <3>3
  <2>2. FirstRoute(conf) = [kind |-> "device", slave |-> 1, reg |-> 0, via |-> "tcp"]
    BY <1>3, <1>7 DEF FirstRoute
  <2>3. Owner(r) = DeviceOwner(1, 0)
    BY <1>1, <1>5, <2>1
  <2>4. Reaches(Route(conf, r), Owner(r)) <=> conf.slaves[1].protocol = "tcp"
    BY <1>1, <2>2, <2>3 DEF Reaches, DeviceOwner
  <2>5. FirstByTcp <=> conf.slaves[1].protocol = "tcp"
    BY <1>3, <1>4, <1>7 DEF FirstByTcp
  <2>6. QED
    BY <2>4, <2>5
<1>8. QED
  BY <1>6, <1>7

\* The listener's search finds the owner of every register, but for the first
\* device register of a configuration that does not begin with a tcp slave.
THEOREM RoutesRight == Spec => []RoutesReachOwner
<1>1. BootInv => RoutesReachOwner
  <2>1. SUFFICES ASSUME BootInv, Served, NEW r \in PinRegisters \cup DeviceRegisters
                 PROVE  Reaches(Route(conf, r), Owner(r))
                          <=> (r = GpioSize(conf) => FirstByTcp)
    BY DEF RoutesReachOwner
  <2>2. CASE r \in PinRegisters
    BY <2>1, <2>2, PinRouted
  <2>3. CASE r \in DeviceRegisters /\ r = GpioSize(conf)
    BY <2>1, <2>3, FirstRouted
  <2>4. CASE r \in DeviceRegisters /\ r # GpioSize(conf)
    <3>1. PICK s \in 1..Len(conf.slaves) : \E g \in 0..(conf.slaves[s].size - 1) :
            /\ Owner(r) = DeviceOwner(s, g)
            /\ Route(conf, r) = [kind |-> "device", slave |-> s, reg |-> g,
                                 via |-> conf.slaves[s].protocol]
      BY <2>1, <2>4, DeviceRouted
    <3>2. Reaches(Route(conf, r), Owner(r))
      BY <3>1 DEF Reaches, DeviceOwner
    <3>3. QED
      BY <2>4, <3>2
  <2>5. QED
    BY <2>1, <2>2, <2>3, <2>4
<1>2. QED
  BY <1>1, LayoutBuilt, PTL

\* No address of the image sends the listener into its search without end: the sum of
\* the sizes it walks is the number of device registers that were added.
THEOREM SearchEnds == Spec => []NoEndlessSearch
<1>1. BootInv => NoEndlessSearch
  <2>1. SUFFICES ASSUME BootInv, Served, NEW r \in Registers
                 PROVE  Route(conf, r).kind # "spin"
    BY DEF NoEndlessSearch
  <2>2. /\ Registers = {0} \cup PinRegisters \cup DeviceRegisters
        /\ GpioSize(conf) \in Nat /\ GpioSize(conf) > 0
    BY <2>1, ServedFacts
  <2>3. FirstRoute(conf).kind # "spin"
    BY DEF FirstRoute
  <2>4. CASE r = 0
    BY <2>2, <2>3, <2>4 DEF Route, IsPinRegister
  <2>5. CASE r \in PinRegisters
    BY <2>1, <2>5, PinRouted
  <2>6. CASE r \in DeviceRegisters
    BY <2>1, <2>3, <2>6, DeviceRouted
  <2>7. QED
    BY <2>1, <2>2, <2>4, <2>5, <2>6
<1>2. QED
  BY <1>1, LayoutBuilt, PTL

\* The poller's number of register g of slave i is the one it was added at.
LEMMA PollOwned ==
  ASSUME BootInv, Served, NEW i \in 1..Len(conf.slaves), NEW g \in 0..(conf.slaves[i].size - 1)
  PROVE  /\ PollPosition(conf, i, g) \in DeviceRegisters
         /\ Owner(PollPosition(conf, i, g)) = DeviceOwner(i, g)
<1> DEFINE r == PollPosition(conf, i, g)
<1>1. /\ conf.slaves \in Seq(SlaveEntry) /\ Len(conf.slaves) \in Nat
      /\ Used \in Nat /\ Total \in Nat /\ conf.gpioEnable \in BOOLEAN
      /\ conf.gpioEnable => GpioNumber(conf) = Used
      /\ ~conf.gpioEnable => Used = 0
      /\ GpioSize(conf) = Used + 1
      /\ DeviceRegisters = (1 + Used)..(Used + Total)
  BY ServedFacts
<1>2. /\ i - 1 \in 0..Len(conf.slaves) /\ i \in 0..Len(conf.slaves)
      /\ Len(conf.slaves) \in i..Len(conf.slaves)
  BY <1>1
<1>3. /\ SizeUpTo(conf, i) = SizeUpTo(conf, i - 1) + conf.slaves[i].size
      /\ conf.slaves[i].size \in Nat /\ SizeUpTo(conf, i - 1) \in Nat
      /\ SizeUpTo(conf, i) \in Nat
  BY <1>1, <1>2, SizeNext
<1>4. SizeUpTo(conf, i) <= Total
  BY <1>1, <1>2, SizeMonotone DEF Total
<1>5. g \in Nat /\ g < conf.slaves[i].size
  BY <1>3
<1>6. r = 1 + Used + SizeUpTo(conf, i - 1) + g
  BY <1>1, <1>3, <1>5 DEF PollPosition
<1> HIDE DEF r
<1>7. r \in DeviceRegisters
  <2>1. r \in Int /\ 1 + Used <= r
    <3>1. Used \in Nat /\ SizeUpTo(conf, i - 1) \in Nat /\ g \in Nat
      BY <1>1, <1>3, <1>5
    <3>2. QED
      BY <1>6, <3>1
  <2>2. SizeUpTo(conf, i - 1) + g < SizeUpTo(conf, i)
    BY <1>3, <1>5
  <2>3. r <= Used + Total
    BY <1>1, <1>3, <1>4, <1>5, <1>6, <2>2
  <2>4. QED
    BY <1>1, <2>1, <2>3
<1>8. PICK s \in 1..Len(conf.slaves) : \E h \in 0..(conf.slaves[s].size - 1) :
        Owner(r) = DeviceOwner(s, h) /\ r - GpioSize(conf) = SizeUpTo(conf, s - 1) + h
  BY <1>7, DeviceRouted
<1>9. PICK h \in 0..(conf.slaves[s].size - 1) :
        Owner(r) = DeviceOwner(s, h) /\ r - GpioSize(conf) = SizeUpTo(conf, s - 1) + h
  BY <1>8
<1>10. r - GpioSize(conf) = SizeUpTo(conf, i - 1) + g
  BY <1>1, <1>3, <1>5, <1>6
<1>11. s = i /\ h = g
  <2> DEFINE route(a, b) == [kind |-> "device", slave |-> a, reg |-> b,
                             via |-> conf.slaves[a].protocol]
  <2>1. DeviceRoute(conf, r - GpioSize(conf)) = route(i, g)
    BY <1>1, <1>10, SearchFindsOwner
  <2>2. DeviceRoute(conf, r - GpioSize(conf)) = route(s, h)
    BY <1>1, <1>9, SearchFindsOwner
  <2>3. route(i, g).slave = route(s, h).slave /\ route(i, g).reg = route(s, h).reg
    BY <2>1, <2>2
  <2>4. QED
    BY <2>3
<1>12. QED
  BY <1>7, <1>9, <1>11 DEF r

\* The poller stores every reading in the register that was added for it, and there is
\* no device register that it does not reach.
THEOREM PollerRight == Spec => []PollerReachesOwner
<1>1. BootInv => PollerReachesOwner
  <2>1. SUFFICES ASSUME BootInv, Served PROVE PollerReachesOwner
    BY DEF PollerReachesOwner
  <2>2. /\ DOMAIN conf.slaves = 1..Len(conf.slaves) /\ Used \in Nat /\ Total \in Nat
        /\ DeviceRegisters = (1 + Used)..(Used + Total)
    BY <2>1, ServedFacts
  <2>3. Cardinality(DeviceRegisters) = Total
    BY <2>2, FS_Interval
  <2>4. QED
    BY <2>1, <2>2, <2>3, PollOwned DEF PollerReachesOwner, Total
<1>2. QED
  BY <1>1, LayoutBuilt, PTL

\* A sensor's alarm lands in its own register exactly when no pin before it is unused.
THEOREM SensorRight == Spec => []SensorReachesOwner
<1>1. BootInv => SensorReachesOwner
  <2>1. SUFFICES ASSUME BootInv, Served, NEW r \in PinRegisters
                 PROVE  SensePosition(Owner(r).pin) = r
                          <=> \A j \in 1..Owner(r).pin : conf.pins[j].use
    BY DEF SensorReachesOwner
  <2>2. /\ PinPlace(r) /\ conf.pins \in Seq(NumberedPin) /\ Len(conf.pins) \in Nat
        /\ Pins = IF conf.gpioEnable THEN Len(conf.pins) ELSE 0
    BY <2>1, ServedFacts
  <2>3. PICK i \in 1..Pins, w \in Numbers :
          Owner(r) = PinOwner(i, w) /\ Len(UsedUpTo(conf, i)) = r
    BY <2>2 DEF PinPlace
  <2>4. Owner(r).pin = i /\ i \in 0..Len(conf.pins)
    BY <2>2, <2>3 DEF PinOwner
  <2>5. Len(UsedUpTo(conf, i)) = i <=> \A j \in 1..i : conf.pins[j].use
    BY <2>2, <2>4, UsedAll
  <2>6. QED
    BY <2>3, <2>4, <2>5 DEF SensePosition
<1>2. QED
  BY <1>1, LayoutBuilt, PTL

-----------------------------------------------------------------------------
(***************************************************************************)
(* The wiring.  Pins in use have numbers of their own, so an input finds   *)
(* its name in the pin provisioned first only if that is one of GPIO 10    *)
(* .. 14; otherwise each entry gets the pin of its number, and no entry    *)
(* turns the pin of another round.                                         *)
(***************************************************************************)
Ordinary == provisioned # <<>> => provisioned[1] < 10

Wiring ==
  stage # "failed" =>
    /\ provisioned # <<>> =>
         \E i \in 1..Pins : conf.pins[i].use /\ conf.pins[i].number = provisioned[1]
    /\ Ordinary =>
         /\ \A i \in 1..Pins : conf.pins[i].use => mode[conf.pins[i].number] = conf.pins[i].scope
         /\ \A r \in 1..Used : Owner(r).wired = conf.pins[Owner(r).pin].number

\* Of two pins in use the numbers differ.
LEMMA OwnNumber ==
  ASSUME conf \in Configs, NEW i \in 1..Len(conf.pins), NEW j \in 1..Len(conf.pins), i # j,
         conf.pins[i].use, conf.pins[j].use
  PROVE  conf.pins[i].number # conf.pins[j].number
<1>1. DOMAIN conf.pins = 1..Len(conf.pins)
  BY ConfigFacts
<1>2. QED
  BY <1>1, ConfigsAssumption

\* A pin that is given its own number and direction, unless an unordinary one is first.
LEMMA AddPinWiring ==
  ASSUME BootInv, Wiring, AtPin, conf.pins[k].use, NEW w \in Numbers,
         conf' = conf, stage' = stage, k' = k + 1,
         owners' = Append(owners, PinOwner(k, w)),
         provisioned' # <<>>,
         provisioned'[1] =
           IF provisioned = <<>> THEN conf.pins[k].number ELSE provisioned[1],
         Ordinary' => /\ w = conf.pins[k].number
                      /\ mode' = [mode EXCEPT ![w] = conf.pins[k].scope]
  PROVE  Wiring'
<1>1. Place /\ BootTyped /\ Layout /\ conf \in Configs
  BY DEF BootInv, Place
<1>2. /\ k \in 1..Len(conf.pins) /\ Pins = k - 1 /\ Pins' = k /\ stage = "pins"
      /\ Used \in Nat /\ Used' = Used + 1 /\ Added = 0 /\ Len(conf.pins) \in Nat
  BY <1>1, AtPinFacts, ConfigFacts
<1>3. /\ Len(owners) = 1 + Used /\ \A r \in 1..Used : PinPlace(r)
  BY <1>1, <1>2 DEF Layout
<1>4. /\ provisioned # <<>> =>
           \E i \in 1..(k - 1) : conf.pins[i].use /\ conf.pins[i].number = provisioned[1]
      /\ Ordinary =>
           /\ \A i \in 1..(k - 1) :
                conf.pins[i].use => mode[conf.pins[i].number] = conf.pins[i].scope
           /\ \A r \in 1..Used : Owner(r).wired = conf.pins[Owner(r).pin].number
  BY <1>2 DEF Wiring
<1>5. \E i \in 1..k : conf.pins[i].use /\ conf.pins[i].number = provisioned'[1]
  BY <1>2, <1>4
<1>6. ASSUME Ordinary'
      PROVE  /\ \A i \in 1..k :
                  conf.pins[i].use => mode'[conf.pins[i].number] = conf.pins[i].scope
             /\ \A r \in 1..(Used + 1) : Owner(r)'.wired = conf.pins[Owner(r)'.pin].number
  <2>1. Ordinary
    BY <1>6 DEF Ordinary
  <2>2. w = conf.pins[k].number /\ mode' = [mode EXCEPT ![w] = conf.pins[k].scope]
    BY <1>6
  <2>3. ASSUME NEW i \in 1..k, conf.pins[i].use
        PROVE  mode'[conf.pins[i].number] = conf.pins[i].scope
    <3>1. CASE i = k
      BY <1>1, <2>2, <3>1 DEF BootTyped
    <3>2. CASE i # k
      <4>1. i \in 1..(k - 1) /\ i \in 1..Len(conf.pins)
        BY <1>2, <3>2
      <4>2. conf.pins[i].number # w
        BY <1>1, <1>2, <2>2, <2>3, <3>2, <4>1, OwnNumber
      <4>3. mode[conf.pins[i].number] = conf.pins[i].scope /\ conf.pins[i].number \in Numbers
        BY <1>1, <1>4, <2>1, <2>3, <4>1, ConfigFacts
      <4>4. QED
        BY <1>1, <2>2, <4>2, <4>3 DEF BootTyped
    <3>3. QED
      BY <3>1, <3>2
  <2>4. ASSUME NEW r \in 1..(Used + 1)
        PROVE  Owner(r)'.wired = conf.pins[Owner(r)'.pin].number
    <3>1. CASE r = Used + 1
      <4>1. Owner(r)' = PinOwner(k, w)
        BY <1>1, <1>2, <1>3, <3>1 DEF Owner, BootTyped
      <4>2. QED
        BY <2>2, <4>1 DEF PinOwner
    <3>2. CASE r \in 1..Used
      <4>1. Owner(r)' = Owner(r)
        <5>1. r + 1 \in 1..Len(owners) /\ owners \in Seq(OwnerTypes)
          BY <1>1, <1>2, <1>3, <3>2 DEF BootTyped
        <5>2. owners'[r + 1] = owners[r + 1]
          BY <5>1
        <5>3. QED
          BY <5>2 DEF Owner
      <4>2. QED
        BY <1>4, <2>1, <3>2, <4>1
    <3>3. QED
      BY <1>2, <3>1, <3>2
  <2>5. QED
    BY <2>3, <2>4
<1>7. QED
  BY <1>2, <1>5, <1>6 DEF Wiring

LEMMA AddOutputWiring == BootInv /\ Wiring /\ AddOutput => Wiring'
<1> SUFFICES ASSUME BootInv, Wiring, AddOutput PROVE Wiring'
  OBVIOUS
<1>1. AtPin /\ Place /\ BootTyped
  BY DEF BootInv, AddOutput
<1>2. conf.pins[k].number \in Numbers
  BY <1>1, ConfigFacts DEF Place, AtPin
<1>3. /\ conf.pins[k].use /\ conf.pins[k].scope = "out"
      /\ conf' = conf /\ stage' = stage /\ k' = k + 1
      /\ owners' = Append(owners, PinOwner(k, conf.pins[k].number))
      /\ provisioned' = Append(provisioned, conf.pins[k].number)
      /\ mode' = [mode EXCEPT ![conf.pins[k].number] = conf.pins[k].scope]
  BY DEF AddOutput
<1>4. /\ provisioned' # <<>>
      /\ provisioned'[1] = IF provisioned = <<>> THEN conf.pins[k].number ELSE provisioned[1]
  BY <1>1, <1>2, <1>3 DEF BootTyped
<1>5. QED
  BY <1>1, <1>2, <1>3, <1>4, AddPinWiring

LEMMA AddInputWiring == BootInv /\ Wiring /\ AddInput => Wiring'
<1> SUFFICES ASSUME BootInv, Wiring, AddInput PROVE Wiring'
  OBVIOUS
<1> DEFINE number == conf.pins[k].number
           reuse  == NameContains(provisioned[1], number)
           wired  == IF reuse THEN provisioned[1] ELSE number
<1>1. /\ AtPin /\ Place /\ BootTyped /\ conf.pins[k].scope = "in" /\ provisioned # <<>>
      /\ conf.pins[k].use /\ conf \in Configs /\ stage = "pins" /\ k \in DOMAIN conf.pins
  BY DEF BootInv, AddInput, Place, AtPin
<1>2. number \in Numbers /\ provisioned[1] \in Numbers
  BY <1>1, ConfigFacts DEF Place, AtPin, BootTyped
<1>3. wired \in Numbers
  BY <1>2
<1>4. /\ conf' = conf /\ stage' = stage /\ k' = k + 1
      /\ owners' = Append(owners, PinOwner(k, wired))
      /\ mode' = [mode EXCEPT ![wired] = "in"]
      /\ provisioned' = IF reuse THEN provisioned ELSE Append(provisioned, number)
  BY DEF AddInput
<1>5. k \in 1..Len(conf.pins) /\ Len(conf.pins) \in Nat /\ Pins = k - 1
  BY <1>1, ConfigFacts DEF Pins
<1>6. PICK i \in 1..(k - 1) : conf.pins[i].use /\ conf.pins[i].number = provisioned[1]
  BY <1>1, <1>5 DEF Wiring
<1>7. number # provisioned[1]
  <2>1. i \in 1..Len(conf.pins) /\ i # k
    BY <1>5
  <2>2. QED
    BY <1>1, <1>5, <1>6, <2>1, OwnNumber
<1>8. reuse => provisioned[1] >= 10
  BY <1>7 DEF NameContains
<1>9. provisioned' # <<>> /\ provisioned'[1] = provisioned[1]
  <2>1. provisioned \in Seq(Numbers) /\ provisioned # <<>>
    BY <1>1 DEF BootTyped
  <2>2. \A n \in Numbers : Append(provisioned, n) # <<>> /\ Append(provisioned, n)[1] = provisioned[1]
    BY <2>1
  <2>3. provisioned' = provisioned \/ provisioned' = Append(provisioned, number)
    BY <1>4
  <2> HIDE DEF number
  <2>4. QED
    BY <1>2, <2>1, <2>2, <2>3
<1>10. Ordinary' => ~reuse
  BY <1>2, <1>8, <1>9 DEF Ordinary, Numbers
<1>11. Ordinary' => wired = number /\ mode' = [mode EXCEPT ![wired] = conf.pins[k].scope]
  BY <1>1, <1>4, <1>10
<1> HIDE DEF reuse, wired
<1>12. QED
  BY <1>1, <1>3, <1>4, <1>9, <1>11, AddPinWiring

LEMMA WiringNext == BootInv /\ Wiring /\ [Next]_vars => Wiring'
<1> SUFFICES ASSUME BootInv, Wiring, [Next]_vars PROVE Wiring'
  OBVIOUS
<1>1. /\ Place /\ conf \in Configs /\ stage \in {"pins", "failed", "devices", "served"}
      /\ conf.gpioEnable \in BOOLEAN /\ Len(conf.pins) \in Nat
      /\ DOMAIN conf.pins = 1..Len(conf.pins)
  BY ConfigFacts DEF BootInv, Place
<1>2. CASE SkipPin
  <2>1. /\ AtPin /\ ~conf.pins[k].use /\ conf' = conf /\ stage' = stage /\ k' = k + 1
        /\ UNCHANGED <<owners, provisioned, mode>>
    BY <1>2 DEF SkipPin
  <2>2. k \in 1..Len(conf.pins) /\ Pins = k - 1 /\ Pins' = k /\ Used' = Used
        /\ Used \in Nat /\ stage = "pins"
    BY <1>1, <2>1, AtPinFacts
  <2>3. Ordinary' = Ordinary
    BY <2>1 DEF Ordinary
  <2>4. \A i \in 1..k : conf.pins[i].use => i \in 1..(k - 1)
    BY <2>1, <2>2
  <2>5. /\ provisioned # <<>> =>
             \E i \in 1..(k - 1) : conf.pins[i].use /\ conf.pins[i].number = provisioned[1]
        /\ Ordinary =>
             /\ \A i \in 1..(k - 1) :
                  conf.pins[i].use => mode[conf.pins[i].number] = conf.pins[i].scope
             /\ \A r \in 1..Used : Owner(r).wired = conf.pins[Owner(r).pin].number
    BY <2>2 DEF Wiring
  <2>6. \A r \in 1..Used : Owner(r)' = Owner(r)
    BY <2>1 DEF Owner
  <2>7. 1..(k - 1) \subseteq 1..k
    BY <2>2
  <2>8. QED
    BY <2>1, <2>2, <2>3, <2>4, <2>5, <2>6, <2>7 DEF Wiring
<1>3. CASE FirstInputFails
  BY <1>3 DEF FirstInputFails, Wiring
<1>4. ASSUME UNCHANGED <<conf, owners, provisioned, mode>>, stage # "failed", Pins' = Pins
      PROVE  Wiring'
  BY <1>4 DEF Wiring, Ordinary, Owner, Used
<1>5. CASE PinsDone
  <2>1. /\ stage = "pins" /\ ~AtPin /\ stage' = "devices" /\ k' = 1
        /\ UNCHANGED <<conf, f, owners, gpioList, provisioned, mode>>
    BY <1>5 DEF PinsDone
  <2>2. Pins' = Pins
    <3>1. CASE conf.gpioEnable
      BY <1>1, <2>1, <3>1 DEF Pins, AtPin, Place
    <3>2. CASE ~conf.gpioEnable
      BY <1>1, <2>1, <3>2 DEF Pins, Place
    <3>3. QED
      BY <3>1, <3>2
  <2>3. QED
    BY <1>4, <2>1, <2>2
<1>6. CASE AddDevice
  <2>1. /\ stage = "devices" /\ UNCHANGED <<conf, stage, provisioned, mode>>
        /\ owners' = owners \/ \E d : owners' = Append(owners, d)
        /\ owners' \in Seq(OwnerTypes)
    BY <1>6, AddDeviceInv DEF AddDevice, BootInv, BootTyped
  <2>2. Pins' = Pins /\ Used' = Used /\ Ordinary' = Ordinary
    BY <2>1 DEF Pins, Used, Ordinary
  <2>3. Used \in Nat /\ Added \in Nat /\ Len(owners) = 1 + Used + Added /\ BootTyped
    BY <1>1, <2>1, Counts DEF BootInv, Layout
  <2>4. \A r \in 1..Used : Owner(r)' = Owner(r)
    <3>1. ASSUME NEW d, owners' = Append(owners, d), NEW r \in 1..Used
          PROVE  owners'[r + 1] = owners[r + 1]
      BY <2>3, <3>1 DEF BootTyped
    <3>2. QED
      BY <2>1, <3>1 DEF Owner
  <2>5. QED
    BY <2>1, <2>2, <2>4 DEF Wiring
<1>7. CASE Serve
  BY <1>4, <1>7 DEF Serve, Pins
<1>8. CASE UNCHANGED vars
  BY <1>8 DEF vars, Wiring, Ordinary, Owner, Used, Pins
<1>9. QED
  BY <1>2, <1>3, <1>5, <1>6, <1>7, <1>8, AddOutputWiring, AddInputWiring DEF Next

\* Every pin register drives or listens to the pin of its own entry, in the direction
\* of that entry, whatever pins came before it, unless one of GPIO 10 .. 14 came first.
THEOREM PinsWired == Spec => []PinsKeepTheirNumbers
<1>1. Init => Wiring
  <2>1. SUFFICES ASSUME Init PROVE Wiring
    OBVIOUS
  <2>2. Pins = 0 /\ Used = 0 /\ provisioned = <<>>
    BY <2>1, ConfigFacts, UsedCount DEF Init, Pins, Used
  <2>3. QED
    BY <2>2 DEF Wiring
<1>2. BootInv /\ Wiring /\ [Next]_vars => Wiring'
  BY WiringNext
<1>3. BootInv /\ Wiring => PinsKeepTheirNumbers
  <2>1. SUFFICES ASSUME BootInv, Wiring, Served, Ordinary, NEW r \in PinRegisters
                 PROVE  LET pin == conf.pins[Owner(r).pin] IN
                          Owner(r).wired = pin.number /\ mode[pin.number] = pin.scope
    BY DEF PinsKeepTheirNumbers, Ordinary
  <2>2. PinPlace(r) /\ r \in 1..Used /\ stage # "failed"
    BY <2>1, ServedFacts DEF Served
  <2>3. PICK i \in 1..Pins, w \in Numbers : Owner(r) = PinOwner(i, w) /\ conf.pins[i].use
    BY <2>2 DEF PinPlace
  <2>4. Owner(r).pin = i
    BY <2>3 DEF PinOwner
  <2>5. QED
    BY <2>1, <2>2, <2>3, <2>4 DEF Wiring
<1>4. QED
  BY <1>1, <1>2, <1>3, LayoutBuilt, PTL DEF Spec

-----------------------------------------------------------------------------
(***************************************************************************)
(* The reload.  readFromFile empties the shared object and fills it entry  *)
(* by entry; Partial says how far a listener that is alone has come.       *)
(***************************************************************************)
PinEntry == [use : BOOLEAN, delay : BOOLEAN]
PinCount == Len(Conf.pins)
UsedBefore(i) == UsedUpTo(Conf, i)

\* h has done m accesses for pin i + 1.
AtEntry(h, i, m) ==
  /\ step[h] = 5 + Len(PinsUpTo(i)) + m
  /\ IF i < PinCount THEN m < Len(PinSteps(Conf.pins[i + 1])) ELSE m = 0
  /\ shared.number = Len(UsedBefore(i)) + (IF m >= 2 THEN 1 ELSE 0)
  /\ shared.used = UsedBefore(IF m = 3 THEN i + 1 ELSE i)
  /\ shared.pins = SubSeq(Conf.pins, 1, i)
  /\ shared.slaves = <<>>
  /\ m = 1 => count[h] = Len(UsedBefore(i))

\* h has added all pins and j slaves.
AtSlave(h, j) ==
  /\ step[h] = 5 + Len(PinsUpTo(PinCount)) + j
  /\ shared.number = GpioNumber(Conf)
  /\ shared.used = PinsUsed(Conf)
  /\ shared.pins = Conf.pins
  /\ shared.slaves = SubSeq(Conf.slaves, 1, j)

Emptied(h) ==
  /\ step[h] \in 1..4
  /\ step[h] > 1 => shared.number = 0
  /\ step[h] > 2 => shared.used = <<>>
  /\ step[h] > 3 => shared.slaves = <<>>

Partial(h) ==
  \/ Emptied(h)
  \/ \E i \in 0..PinCount : \E m \in 0..3 : AtEntry(h, i, m)
  \/ \E j \in 0..Len(Conf.slaves) : AtSlave(h, j)

\* The branch Size took is the one the file asks for.
Branched(h) ==
  /\ shared = Loaded
  /\ size[h] = GpioSize(Conf)
  /\ pc[h] \in {"alarm", "delay"} => IsPinRegister(Conf, ref[h])
  /\ pc[h] = "search" => ~IsPinRegister(Conf, ref[h]) /\ ref[h] - size[h] > 0
  /\ pc[h] = "first" => ~IsPinRegister(Conf, ref[h]) /\ ~(ref[h] - size[h] > 0)

AloneIn(h) ==
  /\ file = "whole"
  /\ pc[h] = "reload" => Partial(h)
  /\ pc[h] \in {"alarm", "delay", "search", "first"} => Branched(h)
  /\ pc[h] = "done" => result[h] = Expected(ref[h])

ReloadTypeOK ==
  /\ shared \in [number : Nat, used : Seq(PinEntry), pins : Seq(PinEntry),
                 slaves : Seq(SlaveEntry)]
  /\ file \in {"whole", "torn"}
  /\ pc \in [Handlers -> Stages]
  /\ step \in [Handlers -> 1..(Len(Steps) + 1)]
  /\ count \in [Handlers -> Nat]
  /\ ref \in [Handlers -> Nat]
  /\ size \in [Handlers -> Nat]
  /\ result = [h \in Handlers |-> result[h]]
  /\ alone \in [Handlers -> BOOLEAN]
  /\ served \in Nat

ReloadInv ==
  /\ ReloadTypeOK
  /\ \A h \in Handlers : pc[h] = "idle" => step[h] = 1
  /\ \A h \in Handlers : alone[h] => AloneIn(h)

-----------------------------------------------------------------------------
(***************************************************************************)
(* The accesses of readFromFile.                                           *)
(***************************************************************************)
\* What is assumed of the file.
LEMMA ConfIs ==
  /\ Conf.pins \in Seq(PinEntry) /\ Conf.slaves \in Seq(SlaveEntry)
  /\ Len(Conf.pins) \in Nat /\ Len(Conf.slaves) \in Nat /\ PinCount = Len(Conf.pins)
  /\ \A i \in 1..PinCount : Conf.pins[i] \in PinEntry /\ Conf.pins[i].use \in BOOLEAN
  /\ \A j \in 1..Len(Conf.slaves) : Conf.slaves[j] \in SlaveEntry
<1>1. Conf.pins \in Seq(PinEntry) /\ Conf.slaves \in Seq(SlaveEntry)
  BY ReloadAssumption DEF PinEntry
<1>2. \A i \in 1..PinCount : Conf.pins[i] \in PinEntry
  BY <1>1 DEF PinCount
<1>3. \A i \in 1..PinCount : Conf.pins[i].use \in BOOLEAN
  BY <1>2 DEF PinEntry
<1>4. QED
  BY <1>1, <1>2, <1>3 DEF PinCount

\* The kinds of accesses.
Accesses ==
  {[do |-> "zero"], ReadNumber, WriteNumber}
    \cup {Clear(list) : list \in {"used", "pins", "slaves"}}
    \cup {Add(list, pin) : list \in {"used", "pins"}, pin \in PinEntry}
    \cup {Add("slaves", slave) : slave \in SlaveEntry}

LEMMA PinStepsAre ==
  ASSUME NEW pin \in PinEntry
  PROVE  /\ PinSteps(pin) \in Seq(Accesses)
         /\ IF pin.use
            THEN /\ Len(PinSteps(pin)) = 4
                 /\ PinSteps(pin)[1] = ReadNumber
                 /\ PinSteps(pin)[2] = WriteNumber
                 /\ PinSteps(pin)[3] = Add("used", pin)
                 /\ PinSteps(pin)[4] = Add("pins", pin)
            ELSE Len(PinSteps(pin)) = 1 /\ PinSteps(pin)[1] = Add("pins", pin)
<1>1. {ReadNumber, WriteNumber, Add("used", pin), Add("pins", pin)} \subseteq Accesses
  BY DEF Accesses
<1>2. QED
  BY <1>1 DEF PinSteps

LEMMA ResetsAre ==
  /\ Resets \in Seq(Accesses) /\ Len(Resets) = 4
  /\ Resets[1] = [do |-> "zero"] /\ Resets[2] = Clear("used")
  /\ Resets[3] = Clear("slaves") /\ Resets[4] = Clear("pins")
<1>1. {[do |-> "zero"], Clear("used"), Clear("slaves"), Clear("pins")} \subseteq Accesses
  BY DEF Accesses
<1>2. QED
  BY <1>1 DEF Resets

\* The equation of the recursive function PinsUpTo.
LEMMA PinsStep ==
  \A n \in 0..PinCount :
    PinsUpTo(n) = IF n = 0 THEN <<>> ELSE PinsUpTo(n - 1) \o PinSteps(Conf.pins[n])
<1> DEFINE N == PinCount
           More(n) == PinSteps(Conf.pins[n])
           Builds(g, n) == g = [i \in 0..n |-> IF i = 0 THEN <<>> ELSE g[i - 1] \o More(i)]
           T == {n \in Nat : \E g : Builds(g, n)}
<1> HIDE DEF More
<1>1. 0 \in T
  <2>1. Builds([i \in 0..0 |-> <<>>], 0)
    OBVIOUS
  <2>2. QED
    BY <2>1
<1>2. ASSUME NEW n \in 0..(N - 1), n \in T PROVE n + 1 \in T
  <2>1. PICK g : Builds(g, n)
    BY <1>2
  <2>0. n \in Nat
    BY ConfIs
  <2> DEFINE b == [i \in 0..(n + 1) |-> IF i <= n THEN g[i] ELSE g[n] \o More(n + 1)]
  <2>2. ASSUME NEW i \in 0..(n + 1)
        PROVE  b[i] = IF i = 0 THEN <<>> ELSE b[i - 1] \o More(i)
    <3>1. CASE i = 0
      BY <2>0, <2>1, <3>1
    <3>2. CASE i # 0 /\ i <= n
      <4>1. i \in 0..n /\ b[i] = g[i] /\ b[i - 1] = g[i - 1]
        BY <2>0, <3>2
      <4>2. g[i] = IF i = 0 THEN <<>> ELSE g[i - 1] \o More(i)
        BY <2>1, <4>1
      <4>3. QED
        BY <3>2, <4>1, <4>2, Zenon
    <3>3. CASE i = n + 1
      BY <2>0, <2>1, <3>3
    <3>4. QED
      BY <2>0, <3>1, <3>2, <3>3
  <2>3. Builds(b, n + 1)
    BY <2>2
  <2>4. n + 1 \in Nat
    BY <2>0
  <2> HIDE DEF b, Builds
  <2>5. QED
    BY <2>3, <2>4
<1>3. N \in T
  <2>1. N \in Nat /\ \A n \in 0..(N - 1) : n \in T => n + 1 \in T
    BY <1>2, ConfIs
  <2> HIDE DEF T, N
  <2>2. \A n \in 0..N : n \in T
    BY <1>1, <2>1, SetInduction, Zenon
  <2>3. QED
    BY <2>1, <2>2
<1> DEFINE total == CHOOSE g : Builds(g, N)
<1>4. Builds(total, N)
  BY <1>3
<1>5. \A n \in 0..N : PinsUpTo(n) = total[n]
  BY DEF PinsUpTo, More, PinCount
<1>6. QED
  <2> HIDE DEF total
  <2>1. \A n \in 0..N : total[n] = IF n = 0 THEN <<>> ELSE total[n - 1] \o More(n)
    BY <1>4
  <2>2. N \in Nat
    BY ConfIs
  <2>3. ASSUME NEW n \in 0..N
        PROVE  PinsUpTo(n) = IF n = 0 THEN <<>> ELSE PinsUpTo(n - 1) \o More(n)
    <3>1. CASE n = 0
      BY <1>5, <2>1, <3>1
    <3>2. CASE n # 0
      <4>1. n - 1 \in 0..N
        BY <2>2, <3>2
      <4>2. PinsUpTo(n) = total[n] /\ PinsUpTo(n - 1) = total[n - 1]
        BY <1>5, <4>1
      <4>3. total[n] = total[n - 1] \o More(n)
        BY <2>1, <3>2
      <4>4. QED
        BY <3>2, <4>2, <4>3, Zenon
    <3>3. QED
      BY <3>1, <3>2
  <2>4. QED
    BY <2>3 DEF More

\* Concatenation.
LEMMA JoinedType ==
  ASSUME NEW S, NEW left \in Seq(S), NEW right \in Seq(S)
  PROVE  left \o right \in Seq(S)
  OBVIOUS

LEMMA JoinedLength ==
  ASSUME NEW S, NEW left \in Seq(S), NEW right \in Seq(S)
  PROVE  Len(left \o right) = Len(left) + Len(right)
  OBVIOUS

LEMMA JoinedLeft ==
  ASSUME NEW S, NEW left \in Seq(S), NEW right \in Seq(S)
  PROVE  \A q \in 1..Len(left) : (left \o right)[q] = left[q]
  OBVIOUS

LEMMA JoinedRight ==
  ASSUME NEW S, NEW left \in Seq(S), NEW right \in Seq(S)
  PROVE  \A q \in 1..Len(right) : (left \o right)[Len(left) + q] = right[q]
  OBVIOUS

LEMMA PinsTyped ==
  \A n \in 0..PinCount : PinsUpTo(n) \in Seq(Accesses)
<1> DEFINE T == {n \in 0..PinCount : PinsUpTo(n) \in Seq(Accesses)}
<1>1. PinCount \in Nat
  BY ConfIs
<1>2. 0 \in T
  <2>1. PinsUpTo(0) = <<>> /\ 0 \in 0..PinCount
    BY <1>1, PinsStep
  <2>2. <<>> \in Seq(Accesses)
    OBVIOUS
  <2>3. QED
    BY <2>1, <2>2, Zenon
<1>3. ASSUME NEW n \in 0..(PinCount - 1), n \in T PROVE n + 1 \in T
  <2>1. n + 1 \in 1..PinCount /\ n + 1 \in 0..PinCount /\ n + 1 # 0 /\ (n + 1) - 1 = n
    BY <1>1
  <2>2. PinsUpTo(n + 1) = PinsUpTo(n) \o PinSteps(Conf.pins[n + 1])
    BY <2>1, PinsStep
  <2>3. PinSteps(Conf.pins[n + 1]) \in Seq(Accesses)
    BY <2>1, ConfIs, PinStepsAre
  <2>4. PinsUpTo(n) \in Seq(Accesses)
    BY <1>3
  <2>5. PinsUpTo(n + 1) \in Seq(Accesses)
    BY <2>2, <2>3, <2>4, JoinedType, Zenon
  <2>6. QED
    BY <2>1, <2>5
<1> HIDE DEF T
<1>4. \A n \in 0..PinCount : n \in T
  BY <1>1, <1>2, <1>3, SetInduction
<1>5. QED
  BY <1>4 DEF T

\* The accesses for n pins begin those for all pins.
LEMMA PinsBegin ==
  ASSUME NEW i \in 0..PinCount
  PROVE  \A n \in i..PinCount :
           /\ Len(PinsUpTo(i)) <= Len(PinsUpTo(n))
           /\ \A q \in 1..Len(PinsUpTo(i)) : PinsUpTo(n)[q] = PinsUpTo(i)[q]
<1> DEFINE Begins(n) ==
             /\ Len(PinsUpTo(i)) <= Len(PinsUpTo(n))
             /\ \A q \in 1..Len(PinsUpTo(i)) : PinsUpTo(n)[q] = PinsUpTo(i)[q]
           T == {n \in 0..PinCount : n >= i => Begins(n)}
<1>1. PinCount \in Nat /\ i \in Nat /\ PinsUpTo(i) \in Seq(Accesses)
  BY ConfIs, PinsTyped
<1>2. Begins(i)
  BY <1>1
<1>3. 0 \in T
  BY <1>1, <1>2
<1>4. ASSUME NEW n \in 0..(PinCount - 1), n \in T PROVE n + 1 \in T
  <2>1. n + 1 \in 1..PinCount /\ n \in 0..PinCount /\ n + 1 \in 0..PinCount
        /\ n + 1 # 0 /\ (n + 1) - 1 = n
    BY <1>1
  <2>2. PinsUpTo(n + 1) = PinsUpTo(n) \o PinSteps(Conf.pins[n + 1])
    BY <2>1, PinsStep
  <2>3. PinSteps(Conf.pins[n + 1]) \in Seq(Accesses) /\ PinsUpTo(n) \in Seq(Accesses)
    BY <2>1, ConfIs, PinStepsAre, PinsTyped
  <2>4. CASE n >= i
    <3>1. Begins(n)
      BY <1>4, <2>4
    <3>2. /\ Len(PinsUpTo(n + 1)) >= Len(PinsUpTo(n))
          /\ \A q \in 1..Len(PinsUpTo(n)) : PinsUpTo(n + 1)[q] = PinsUpTo(n)[q]
      <4>1. /\ Len(PinsUpTo(n + 1)) = Len(PinsUpTo(n)) + Len(PinSteps(Conf.pins[n + 1]))
            /\ \A q \in 1..Len(PinsUpTo(n)) : PinsUpTo(n + 1)[q] = PinsUpTo(n)[q]
        <5>1. Len(PinsUpTo(n + 1)) = Len(PinsUpTo(n)) + Len(PinSteps(Conf.pins[n + 1]))
          BY <2>2, <2>3, JoinedLength, Zenon
        <5>2. \A q \in 1..Len(PinsUpTo(n)) : PinsUpTo(n + 1)[q] = PinsUpTo(n)[q]
          <6> DEFINE its == PinSteps(Conf.pins[n + 1])
          <6> HIDE DEF its
          <6>1. its \in Seq(Accesses) /\ PinsUpTo(n + 1) = PinsUpTo(n) \o its
            BY <2>2, <2>3 DEF its
          <6>2. \A q \in 1..Len(PinsUpTo(n)) : (PinsUpTo(n) \o its)[q] = PinsUpTo(n)[q]
            BY <2>3, <6>1, JoinedLeft
          <6>3. QED
            BY <6>1, <6>2
        <5>3. QED
          BY <5>1, <5>2, Zenon
      <4>2. Len(PinsUpTo(n)) \in Nat /\ Len(PinSteps(Conf.pins[n + 1])) \in Nat
        BY <2>3
      <4>3. \A a, c \in Nat : a + c >= a
        OBVIOUS
      <4>4. Len(PinsUpTo(n + 1)) >= Len(PinsUpTo(n))
        BY <4>1, <4>2, <4>3, Zenon
      <4>5. QED
        BY <4>1, <4>4
    <3>3. Begins(n + 1)
      <4>1. Len(PinsUpTo(i)) \in Nat /\ Len(PinsUpTo(n)) \in Nat /\ Len(PinsUpTo(n + 1)) \in Nat
        BY <1>1, <2>2, <2>3
      <4>2. QED
        BY <3>1, <3>2, <4>1
    <3>4. QED
      BY <2>1, <3>3
  <2>5. CASE n < i
    <3>1. n + 1 >= i => n + 1 = i
      BY <1>1, <2>1, <2>5
    <3>2. QED
      BY <1>2, <2>1, <3>1
  <2>6. QED
    BY <1>1, <2>1, <2>4, <2>5
<1> HIDE DEF T
<1>5. \A n \in 0..PinCount : n \in T
  BY <1>1, <1>3, <1>4, SetInduction
<1>6. QED
  BY <1>1, <1>5 DEF T

\* All accesses in order: the resets, the pins, the slaves.
LEMMA StepsAre ==
  /\ Steps \in Seq(Accesses)
  /\ Len(PinsUpTo(PinCount)) \in Nat
  /\ Len(Steps) = 4 + Len(PinsUpTo(PinCount)) + Len(Conf.slaves)
  /\ \A q \in 1..4 : Steps[q] = Resets[q]
  /\ \A q \in 1..Len(PinsUpTo(PinCount)) : Steps[4 + q] = PinsUpTo(PinCount)[q]
  /\ \A j \in 1..Len(Conf.slaves) :
       Steps[4 + Len(PinsUpTo(PinCount)) + j] = Add("slaves", Conf.slaves[j])
<1> DEFINE pinned == PinsUpTo(PinCount)
           added  == [j \in DOMAIN Conf.slaves |-> Add("slaves", Conf.slaves[j])]
<1>1. PinCount \in Nat /\ Len(Conf.slaves) \in Nat
  BY ConfIs
<1>2. pinned \in Seq(Accesses)
  <2>1. PinCount \in 0..PinCount
    BY <1>1
  <2>2. QED
    BY <2>1, PinsTyped
<1>3. /\ added \in Seq(Accesses) /\ Len(added) = Len(Conf.slaves)
      /\ \A j \in 1..Len(Conf.slaves) : added[j] = Add("slaves", Conf.slaves[j])
  <2>1. DOMAIN Conf.slaves = 1..Len(Conf.slaves)
    BY ConfIs
  <2>2. \A j \in 1..Len(Conf.slaves) : Add("slaves", Conf.slaves[j]) \in Accesses
    BY ConfIs DEF Accesses
  <2>3. QED
    BY <1>1, <2>1, <2>2
<1> HIDE DEF added, pinned
<1>4. /\ pinned \o added \in Seq(Accesses)
      /\ Len(pinned \o added) = Len(pinned) + Len(added)
      /\ \A q \in 1..Len(pinned) : (pinned \o added)[q] = pinned[q]
      /\ \A j \in 1..Len(added) : (pinned \o added)[Len(pinned) + j] = added[j]
  <2>1. added \in Seq(Accesses)
    BY <1>3
  <2>2. pinned \o added \in Seq(Accesses) /\ Len(pinned \o added) = Len(pinned) + Len(added)
    BY <1>2, <2>1, JoinedType, JoinedLength, Zenon
  <2>3. \A q \in 1..Len(pinned) : (pinned \o added)[q] = pinned[q]
    BY <1>2, <2>1, JoinedLeft, Zenon
  <2>4. \A j \in 1..Len(added) : (pinned \o added)[Len(pinned) + j] = added[j]
    BY <1>2, <2>1, JoinedRight, Zenon
  <2>5. QED
    BY <2>2, <2>3, <2>4
<1>5. Parsed = pinned \o added
  BY DEF Parsed, PinCount, pinned, added
<1>6. /\ Steps \in Seq(Accesses) /\ Len(Steps) = 4 + Len(Parsed)
      /\ \A q \in 1..4 : Steps[q] = Resets[q]
      /\ \A q \in 1..Len(Parsed) : Steps[4 + q] = Parsed[q]
  <2>1. Resets \in Seq(Accesses) /\ Parsed \in Seq(Accesses)
    BY <1>4, <1>5, ResetsAre
  <2>2. Steps \in Seq(Accesses) /\ Len(Steps) = Len(Resets) + Len(Parsed)
    BY <2>1, JoinedType, JoinedLength, Zenon DEF Steps
  <2>3. \A q \in 1..Len(Resets) : Steps[q] = Resets[q]
    BY <2>1, JoinedLeft, Zenon DEF Steps
  <2>4. \A q \in 1..Len(Parsed) : Steps[Len(Resets) + q] = Parsed[q]
    BY <2>1, JoinedRight, Zenon DEF Steps
  <2>5. Len(Resets) = 4
    BY ResetsAre
  <2>6. QED
    BY <2>2, <2>3, <2>4, <2>5
<1>7. Len(pinned) \in Nat
  BY <1>2
<1>8. ASSUME NEW q \in 1..Len(pinned) PROVE Steps[4 + q] = pinned[q]
  BY <1>1, <1>3, <1>4, <1>5, <1>6, <1>7
<1>9. ASSUME NEW j \in 1..Len(Conf.slaves)
      PROVE  Steps[4 + Len(pinned) + j] = Add("slaves", Conf.slaves[j])
  <2>1. Len(pinned) + j \in 1..Len(Parsed) /\ 4 + (Len(pinned) + j) = 4 + Len(pinned) + j
    BY <1>1, <1>3, <1>4, <1>5, <1>7
  <2>2. Steps[4 + Len(pinned) + j] = Parsed[Len(pinned) + j]
    BY <1>6, <2>1
  <2>3. QED
    BY <1>3, <1>4, <1>5, <2>2
<1>10. Len(Steps) = 4 + Len(pinned) + Len(Conf.slaves)
  <2>1. /\ Len(Steps) = 4 + Len(Parsed) /\ Len(Parsed) = Len(pinned) + Len(Conf.slaves)
    BY <1>3, <1>4, <1>5, <1>6
  <2>2. \A a, b \in Nat : 4 + (a + b) = 4 + a + b
    OBVIOUS
  <2>3. 4 + (Len(pinned) + Len(Conf.slaves)) = 4 + Len(pinned) + Len(Conf.slaves)
    BY <1>1, <1>7, <2>2, Zenon
  <2>4. QED
    BY <2>1, <2>3, Zenon
<1>11. QED
  BY <1>6, <1>7, <1>8, <1>9, <1>10 DEF pinned

\* The accesses for pin i + 1 follow those for the first i.
LEMMA PinAccess ==
  ASSUME NEW i \in 0..(PinCount - 1)
  PROVE  LET its == PinSteps(Conf.pins[i + 1]) IN
         /\ Len(PinsUpTo(i)) \in Nat
         /\ Len(PinsUpTo(i + 1)) = Len(PinsUpTo(i)) + Len(its)
         /\ Len(PinsUpTo(i + 1)) <= Len(PinsUpTo(PinCount))
         /\ \A m \in 0..(Len(its) - 1) : Steps[5 + Len(PinsUpTo(i)) + m] = its[m + 1]
<1> DEFINE its == PinSteps(Conf.pins[i + 1])
           L == Len(PinsUpTo(i))
<1>1. /\ PinCount \in Nat /\ i \in 0..PinCount /\ i + 1 \in 1..PinCount /\ (i + 1) - 1 = i
      /\ i + 1 \in 0..PinCount /\ i + 1 # 0 /\ PinCount \in (i + 1)..PinCount
  BY ConfIs
<1>2. PinsUpTo(i) \in Seq(Accesses) /\ its \in Seq(Accesses)
  BY <1>1, ConfIs, PinsTyped, PinStepsAre
<1>3. L \in Nat /\ Len(its) \in Nat
  BY <1>2
<1>4. PinsUpTo(i + 1) = PinsUpTo(i) \o its
  BY <1>1, PinsStep
<1>5. Len(PinsUpTo(i + 1)) = L + Len(its)
  BY <1>2, <1>4, JoinedLength
<1>6. /\ L + Len(its) <= Len(PinsUpTo(PinCount))
      /\ \A q \in 1..(L + Len(its)) : PinsUpTo(PinCount)[q] = PinsUpTo(i + 1)[q]
  BY <1>1, <1>5, PinsBegin
<1> HIDE DEF its, L
<1>7. ASSUME NEW m \in 0..(Len(its) - 1) PROVE Steps[5 + L + m] = its[m + 1]
  <2>1. m + 1 \in 1..Len(its) /\ L + (m + 1) \in 1..(L + Len(its)) /\ 4 + (L + (m + 1)) = 5 + L + m
    BY <1>3
  <2>2. L + (m + 1) \in 1..Len(PinsUpTo(PinCount))
    BY <1>3, <1>6, <2>1, StepsAre
  <2>3. Steps[5 + L + m] = PinsUpTo(PinCount)[L + (m + 1)]
    BY <2>1, <2>2, StepsAre
  <2>4. PinsUpTo(PinCount)[L + (m + 1)] = PinsUpTo(i + 1)[L + (m + 1)]
    BY <1>6, <2>1
  <2>5. PinsUpTo(i + 1)[L + (m + 1)] = its[m + 1]
    BY <1>2, <1>4, <2>1, JoinedRight DEF L
  <2>6. QED
    BY <2>3, <2>4, <2>5
<1>8. QED
  BY <1>3, <1>5, <1>6, <1>7 DEF its, L

\* What one access does.
LEMMA Effects ==
  ASSUME NEW h \in Handlers, Reload(h), ReloadTypeOK
  PROVE  LET s == Steps[step[h]] IN
         /\ s \in Accesses
         /\ s = [do |-> "zero"] => shared' = [shared EXCEPT !.number = 0] /\ count' = count
         /\ \A list : s = Clear(list) => shared' = [shared EXCEPT ![list] = <<>>] /\ count' = count
         /\ s = ReadNumber =>
              shared' = shared /\ count' = [count EXCEPT ![h] = shared.number]
         /\ s = WriteNumber =>
              shared' = [shared EXCEPT !.number = count[h] + 1] /\ count' = count
         /\ \A list, item : s = Add(list, item) =>
              shared' = [shared EXCEPT ![list] = Append(shared[list], item)] /\ count' = count
<1> DEFINE s == Steps[step[h]]
<1>1. /\ shared' = CASE s.do = "zero"  -> [shared EXCEPT !.number = 0]
                     [] s.do = "clear" -> [shared EXCEPT ![s.list] = <<>>]
                     [] s.do = "add"   -> [shared EXCEPT ![s.list] = Append(shared[s.list], s.item)]
                     [] s.do = "read"  -> shared
                     [] s.do = "write" -> [shared EXCEPT !.number = count[h] + 1]
      /\ count' = IF s.do = "read" THEN [count EXCEPT ![h] = shared.number] ELSE count
  BY DEF Reload
<1>2. s \in Accesses
  <2>1. Steps \in Seq(Accesses)
    BY StepsAre
  <2>2. step[h] \in DOMAIN Steps
    BY DEF Reload
  <2>3. QED
    BY <2>1, <2>2
<1> HIDE DEF s
<1>3. ASSUME s = [do |-> "zero"]
      PROVE  shared' = [shared EXCEPT !.number = 0] /\ count' = count
  <2>1. s.do = "zero"
    BY <1>3
  <2>2. QED
    BY <1>1, <2>1
<1>4. ASSUME NEW list, s = Clear(list)
      PROVE  shared' = [shared EXCEPT ![list] = <<>>] /\ count' = count
  <2>1. s.do = "clear" /\ s.list = list
    BY <1>4 DEF Clear
  <2>2. QED
    BY <1>1, <2>1
<1>5. ASSUME s = ReadNumber
      PROVE  shared' = shared /\ count' = [count EXCEPT ![h] = shared.number]
  <2>1. s.do = "read"
    BY <1>5 DEF ReadNumber
  <2>2. QED
    BY <1>1, <2>1
<1>6. ASSUME s = WriteNumber
      PROVE  shared' = [shared EXCEPT !.number = count[h] + 1] /\ count' = count
  <2>1. s.do = "write"
    BY <1>6 DEF WriteNumber
  <2>2. QED
    BY <1>1, <2>1
<1>7. ASSUME NEW list, NEW item, s = Add(list, item)
      PROVE  shared' = [shared EXCEPT ![list] = Append(shared[list], item)] /\ count' = count
  <2>1. s.do = "add" /\ s.list = list /\ s.item = item
    BY <1>7 DEF Add
  <2>2. QED
    BY <1>1, <2>1
<1>8. QED
  BY <1>2, <1>3, <1>4, <1>5, <1>6, <1>7 DEF s

LEMMA AccessKinds ==
  ASSUME NEW s \in Accesses
  PROVE  \/ s = [do |-> "zero"] \/ s = ReadNumber \/ s = WriteNumber
         \/ \E list \in {"used", "pins", "slaves"} : s = Clear(list)
         \/ \E list \in {"used", "pins"} : \E pin \in PinEntry : s = Add(list, pin)
         \/ \E slave \in SlaveEntry : s = Add("slaves", slave)
  BY DEF Accesses

-----------------------------------------------------------------------------
(***************************************************************************)
(* Types.                                                                  *)
(***************************************************************************)
Shared == [number : Nat, used : Seq(PinEntry), pins : Seq(PinEntry), slaves : Seq(SlaveEntry)]

LEMMA LoadedTyped == Loaded \in Shared
<1>1. PinsUsed(Conf) \in Seq(PinEntry)
  <2>1. PinCount \in 0..PinCount
    BY ConfIs
  <2>2. QED
    BY <2>1, ConfIs, UsedType DEF PinsUsed, PinCount
<1>2. GpioNumber(Conf) \in Nat
  BY <1>1 DEF GpioNumber
<1>3. QED
  BY <1>1, <1>2, ConfIs DEF Loaded, Shared

\* No access leaves anything in the object that the file could not say.
LEMMA EffectTyped ==
  ASSUME NEW h \in Handlers, Reload(h), ReloadTypeOK
  PROVE  shared' \in Shared /\ count' \in [Handlers -> Nat]
<1> DEFINE s == Steps[step[h]]
<1>1. shared \in Shared /\ count \in [Handlers -> Nat]
  BY DEF ReloadTypeOK, Shared
<1>2. s \in Accesses
  BY Effects
<1>3. CASE s = [do |-> "zero"]
  <2>1. shared' = [shared EXCEPT !.number = 0] /\ count' = count
    BY <1>3, Effects, Zenon
  <2>2. QED
    BY <1>1, <2>1 DEF Shared
<1>4. CASE s = ReadNumber
  <2>1. shared' = shared /\ count' = [count EXCEPT ![h] = shared.number]
    BY <1>4, Effects
  <2>2. QED
    BY <1>1, <2>1 DEF Shared
<1>5. CASE s = WriteNumber
  <2>1. shared' = [shared EXCEPT !.number = count[h] + 1] /\ count' = count
    BY <1>5, Effects
  <2>2. count[h] + 1 \in Nat
    BY <1>1
  <2>3. QED
    BY <1>1, <2>1, <2>2 DEF Shared
<1>6. ASSUME NEW list \in {"used", "pins", "slaves"}, s = Clear(list)
      PROVE  shared' \in Shared /\ count' \in [Handlers -> Nat]
  <2>1. shared' = [shared EXCEPT ![list] = <<>>] /\ count' = count
    BY <1>6, Effects
  <2>2. <<>> \in Seq(PinEntry) /\ <<>> \in Seq(SlaveEntry)
    OBVIOUS
  <2>3. QED
    BY <1>1, <1>6, <2>1, <2>2 DEF Shared
<1>7. ASSUME NEW list \in {"used", "pins"}, NEW pin \in PinEntry, s = Add(list, pin)
      PROVE  shared' \in Shared /\ count' \in [Handlers -> Nat]
  <2>1. shared' = [shared EXCEPT ![list] = Append(shared[list], pin)] /\ count' = count
    BY <1>7, Effects
  <2>2. shared[list] \in Seq(PinEntry)
    BY <1>1, <1>7 DEF Shared
  <2>3. Append(shared[list], pin) \in Seq(PinEntry)
    BY <2>2
  <2>4. QED
    BY <1>1, <1>7, <2>1, <2>3 DEF Shared
<1>8. ASSUME NEW slave \in SlaveEntry, s = Add("slaves", slave)
      PROVE  shared' \in Shared /\ count' \in [Handlers -> Nat]
  <2>1. shared' = [shared EXCEPT !["slaves"] = Append(shared["slaves"], slave)] /\ count' = count
    BY <1>8, Effects
  <2>2. Append(shared["slaves"], slave) \in Seq(SlaveEntry)
    BY <1>1 DEF Shared
  <2>3. QED
    BY <1>1, <2>1, <2>2 DEF Shared
<1>9. QED
  BY <1>2, <1>3, <1>4, <1>5, <1>6, <1>7, <1>8, AccessKinds

LEMMA LengthsAre ==
  /\ Len(Steps) \in Nat /\ Len(Resets) = 4 /\ Len(Steps) >= 4
  /\ DOMAIN Steps = 1..Len(Steps)
<1>1. Steps \in Seq(Accesses)
  BY StepsAre
<1>2. Len(Steps) \in Nat /\ DOMAIN Steps = 1..Len(Steps)
  BY <1>1
<1>3. Len(Steps) = 4 + Len(PinsUpTo(PinCount)) + Len(Conf.slaves)
      /\ Len(PinsUpTo(PinCount)) \in Nat /\ Len(Conf.slaves) \in Nat
  BY StepsAre, ConfIs
<1>4. \A n \in Nat : \A a, b \in Nat : n = 4 + a + b => n >= 4
  OBVIOUS
<1>5. Len(Steps) >= 4
  BY <1>2, <1>3, <1>4, Zenon
<1>6. QED
  BY <1>2, <1>5, ResetsAre

LEMMA ReloadTyped == ReloadTypeOK /\ [ReloadNext]_reloadVars => ReloadTypeOK'
<1> SUFFICES ASSUME ReloadTypeOK, [ReloadNext]_reloadVars PROVE ReloadTypeOK'
  OBVIOUS
<1> USE DEF Stages
<1>1. ASSUME NEW h \in Handlers, Start(h) PROVE ReloadTypeOK'
  BY <1>1, ReloadAssumption DEF Start, Goto, ReloadTypeOK
<1>2. ASSUME NEW h \in Handlers, Reload(h) PROVE ReloadTypeOK'
  <2>1. shared' \in Shared /\ count' \in [Handlers -> Nat]
    BY <1>2, EffectTyped
  <2>2. step' \in [Handlers -> 1..(Len(Steps) + 1)]
    <3>1. step[h] + 1 \in 1..(Len(Steps) + 1)
      BY <1>2, LengthsAre DEF Reload
    <3>2. step' = [step EXCEPT ![h] = step[h] + 1] /\ step \in [Handlers -> 1..(Len(Steps) + 1)]
      BY <1>2 DEF Reload, ReloadTypeOK
    <3> HIDE DEF Steps
    <3>3. QED
      BY <3>1, <3>2
  <2>3. alone' \in [Handlers -> BOOLEAN]
    BY <1>2 DEF Reload, ReloadTypeOK
  <2>4. UNCHANGED <<file, pc, ref, size, result, served>>
    BY <1>2 DEF Reload
  <2>5. QED
    BY <2>1, <2>2, <2>3, <2>4 DEF ReloadTypeOK, Shared
<1>3. ASSUME NEW h \in Handlers, ParseFails(h) PROVE ReloadTypeOK'
  <2>1. Len(Steps) + 1 \in 1..(Len(Steps) + 1)
    BY LengthsAre
  <2>2. QED
    BY <1>3, <2>1 DEF ParseFails, ReloadTypeOK
<1>4. ASSUME NEW h \in Handlers, Size(h) PROVE ReloadTypeOK'
  <2>1. shared.number + STATUS_OK \in Nat /\ 1 \in Nat
    BY DEF ReloadTypeOK, STATUS_OK
  <2>2. size' \in [Handlers -> Nat]
    BY <1>4, <2>1 DEF Size, ReloadTypeOK
  <2>3. pc' \in [Handlers -> Stages]
    BY <1>4 DEF Size, Goto, ReloadTypeOK
  <2>4. QED
    BY <1>4, <2>2, <2>3 DEF Size, ReloadTypeOK
<1>5. ASSUME NEW h \in Handlers, ReadAlarm(h) PROVE ReloadTypeOK'
  BY <1>5 DEF ReadAlarm, Finish, Goto, ReloadTypeOK
<1>6. ASSUME NEW h \in Handlers, ReadDelay(h) PROVE ReloadTypeOK'
  BY <1>6 DEF ReadDelay, Finish, Goto, ReloadTypeOK
<1>7. ASSUME NEW h \in Handlers, Search(h) PROVE ReloadTypeOK'
  BY <1>7 DEF Search, Finish, Goto, ReloadTypeOK
<1>8. ASSUME NEW h \in Handlers, First(h) PROVE ReloadTypeOK'
  BY <1>8 DEF First, Finish, Goto, ReloadTypeOK
<1>9. ASSUME NEW h \in Handlers, Done(h) PROVE ReloadTypeOK'
  <2>1. 1 \in 1..(Len(Steps) + 1)
    BY LengthsAre
  <2>2. QED
    BY <1>9, <2>1 DEF Done, Goto, ReloadTypeOK
<1>10. CASE Truncate
  BY <1>10 DEF Truncate, ReloadTypeOK
<1>11. CASE UNCHANGED reloadVars
  BY <1>11 DEF reloadVars, ReloadTypeOK
<1>12. QED
  BY <1>1, <1>2, <1>3, <1>4, <1>5, <1>6, <1>7, <1>8, <1>9, <1>10, <1>11
  DEF ReloadNext, Listen

-----------------------------------------------------------------------------
(***************************************************************************)
(* One access of a listener that is alone.                                 *)
(***************************************************************************)
\* The list of the pins in use as it grows, pin by pin.
LEMMA UsedIs ==
  /\ UsedBefore(0) = <<>>
  /\ \A i \in 0..PinCount : UsedBefore(i) \in Seq(PinEntry) /\ Len(UsedBefore(i)) \in 0..i
  /\ \A i \in 0..(PinCount - 1) :
       UsedBefore(i + 1) = IF Conf.pins[i + 1].use
                           THEN Append(UsedBefore(i), Conf.pins[i + 1]) ELSE UsedBefore(i)
  /\ UsedBefore(PinCount) = PinsUsed(Conf)
<1>1. PinCount \in Nat /\ Conf.pins \in Seq(PinEntry)
  BY ConfIs
<1>2. \A n \in 0..PinCount :
        UsedUpTo(Conf, n) =
          IF n = 0 THEN <<>>
          ELSE IF Conf.pins[n].use THEN Append(UsedUpTo(Conf, n - 1), Conf.pins[n])
          ELSE UsedUpTo(Conf, n - 1)
  BY <1>1, UsedStep DEF PinCount
<1>3. UsedBefore(0) = <<>>
  BY <1>1, <1>2 DEF UsedBefore
<1>4. ASSUME NEW i \in 0..PinCount
      PROVE  UsedBefore(i) \in Seq(PinEntry) /\ Len(UsedBefore(i)) \in 0..i
  <2>1. UsedBefore(i) \in Seq(PinEntry)
    BY <1>1, UsedType DEF UsedBefore, PinCount
  <2>2. Len(UsedBefore(i)) <= i
    BY <1>1, UsedAll DEF UsedBefore, PinCount
  <2>3. Len(UsedBefore(i)) \in Nat
    BY <2>1
  <2>4. QED
    BY <1>1, <2>1, <2>2, <2>3
<1>5. ASSUME NEW i \in 0..(PinCount - 1)
      PROVE  UsedBefore(i + 1) = IF Conf.pins[i + 1].use
                                 THEN Append(UsedBefore(i), Conf.pins[i + 1]) ELSE UsedBefore(i)
  <2>1. i + 1 \in 0..PinCount /\ i + 1 # 0 /\ (i + 1) - 1 = i
    BY <1>1
  <2>2. UsedUpTo(Conf, i + 1) =
          IF Conf.pins[i + 1].use THEN Append(UsedUpTo(Conf, (i + 1) - 1), Conf.pins[i + 1])
          ELSE UsedUpTo(Conf, (i + 1) - 1)
    BY <1>2, <2>1
  <2>3. QED
    BY <2>1, <2>2 DEF UsedBefore
<1>6. UsedBefore(PinCount) = PinsUsed(Conf)
  BY DEF UsedBefore, PinsUsed, PinCount
<1>7. QED
  BY <1>3, <1>4, <1>5, <1>6

\* Appending the next entry of a list to those before it.
LEMMA FirstEntries ==
  ASSUME NEW S, NEW list \in Seq(S)
  PROVE  /\ SubSeq(list, 1, 0) = <<>>
         /\ SubSeq(list, 1, Len(list)) = list
         /\ \A n \in 0..(Len(list) - 1) :
              SubSeq(list, 1, n + 1) = Append(SubSeq(list, 1, n), list[n + 1])
<1>1. Len(list) \in Nat /\ \A n \in 1..Len(list) : list[n] \in S
  OBVIOUS
<1>2. \A n \in 0..Len(list) :
        /\ SubSeq(list, 1, n) \in Seq(S) /\ Len(SubSeq(list, 1, n)) = n
        /\ \A q \in 1..n : SubSeq(list, 1, n)[q] = list[q]
  OBVIOUS
<1>3. SubSeq(list, 1, 0) = <<>>
  BY <1>1, <1>2
<1>4. SubSeq(list, 1, Len(list)) = list
  BY <1>1, <1>2
<1>5. ASSUME NEW n \in 0..(Len(list) - 1)
      PROVE  SubSeq(list, 1, n + 1) = Append(SubSeq(list, 1, n), list[n + 1])
  <2> DEFINE more == Append(SubSeq(list, 1, n), list[n + 1])
  <2>1. n \in 0..Len(list) /\ n + 1 \in 0..Len(list) /\ n + 1 \in 1..Len(list)
    BY <1>1
  <2>2. SubSeq(list, 1, n) \in Seq(S) /\ Len(SubSeq(list, 1, n)) = n /\ list[n + 1] \in S
    BY <1>1, <1>2, <2>1
  <2>3. more \in Seq(S) /\ Len(more) = n + 1
    BY <2>2
  <2>4. ASSUME NEW q \in 1..(n + 1) PROVE more[q] = list[q]
    <3>1. CASE q = n + 1
      BY <2>2, <3>1
    <3>2. CASE q # n + 1
      <4>1. q \in 1..n
        BY <2>1, <3>2
      <4>2. more[q] = SubSeq(list, 1, n)[q]
        BY <2>2, <4>1
      <4>3. QED
        BY <1>2, <2>1, <4>1, <4>2
    <3>3. QED
      BY <3>1, <3>2
  <2>5. /\ SubSeq(list, 1, n + 1) \in Seq(S) /\ Len(SubSeq(list, 1, n + 1)) = n + 1
        /\ \A q \in 1..(n + 1) : SubSeq(list, 1, n + 1)[q] = list[q]
    BY <1>2, <2>1
  <2> HIDE DEF more
  <2>6. SubSeq(list, 1, n + 1) = more
    BY <2>1, <2>3, <2>4, <2>5
  <2>7. QED
    BY <2>6 DEF more
<1>6. QED
  BY <1>3, <1>4, <1>5

\* The resets, one after the other.
LEMMA ResetMoves ==
  ASSUME ReloadTypeOK, NEW h \in Handlers, Reload(h), Emptied(h)
  PROVE  Partial(h)'
<1>1. step[h] \in 1..4 /\ step'[h] = step[h] + 1
  BY DEF Emptied, Reload, ReloadTypeOK
<1>2. Steps[step[h]] = Resets[step[h]]
  BY <1>1, StepsAre
<1>3. shared \in Shared
  BY DEF ReloadTypeOK, Shared
<1>4. CASE step[h] = 1
  <2>1. shared' = [shared EXCEPT !.number = 0]
    BY <1>2, <1>4, ResetsAre, Effects
  <2>2. Emptied(h)'
    BY <1>1, <1>3, <1>4, <2>1 DEF Emptied, Shared
  <2>3. QED
    BY <2>2 DEF Partial
<1>5. CASE step[h] = 2
  <2>1. shared' = [shared EXCEPT !["used"] = <<>>]
    BY <1>2, <1>5, ResetsAre, Effects
  <2>2. Emptied(h)'
    BY <1>1, <1>3, <1>5, <2>1 DEF Emptied, Shared
  <2>3. QED
    BY <2>2 DEF Partial
<1>6. CASE step[h] = 3
  <2>1. shared' = [shared EXCEPT !["slaves"] = <<>>]
    BY <1>2, <1>6, ResetsAre, Effects
  <2>2. Emptied(h)'
    BY <1>1, <1>3, <1>6, <2>1 DEF Emptied, Shared
  <2>3. QED
    BY <2>2 DEF Partial
<1>7. CASE step[h] = 4
  <2>1. shared' = [shared EXCEPT !["pins"] = <<>>]
    BY <1>2, <1>7, ResetsAre, Effects
  <2>2. shared'.number = 0 /\ shared'.used = <<>> /\ shared'.slaves = <<>> /\ shared'.pins = <<>>
    BY <1>3, <1>7, <2>1 DEF Emptied, Shared
  <2>3. PinsUpTo(0) = <<>> /\ Len(PinsUpTo(0)) = 0 /\ PinCount \in Nat
    BY ConfIs, PinsStep
  <2>4. 0 < PinCount => 0 < Len(PinSteps(Conf.pins[0 + 1]))
    <3>1. ASSUME 0 < PinCount PROVE Conf.pins[1] \in PinEntry /\ Conf.pins[1].use \in BOOLEAN
      BY <2>3, <3>1, ConfIs
    <3>2. QED
      BY <3>1, PinStepsAre
  <2>5. UsedBefore(0) = <<>> /\ SubSeq(Conf.pins, 1, 0) = <<>>
    BY UsedIs, FirstEntries, ConfIs
  <2>6. step'[h] = 5 + Len(PinsUpTo(0)) + 0
    BY <1>1, <1>7, <2>3
  <2>7. AtEntry(h, 0, 0)'
    BY <2>2, <2>3, <2>4, <2>5, <2>6 DEF AtEntry
  <2>8. 0 \in 0..PinCount /\ 0 \in 0..3
    BY <2>3
  <2>9. QED
    BY <2>7, <2>8 DEF Partial
<1>8. QED
  BY <1>1, <1>4, <1>5, <1>6, <1>7

\* The accesses for one pin, the last of which leads to the next pin.
LEMMA EntryMoves ==
  ASSUME ReloadTypeOK, NEW h \in Handlers, Reload(h),
         NEW i \in 0..(PinCount - 1), NEW m \in 0..3, AtEntry(h, i, m)
  PROVE  Partial(h)'
<1> DEFINE pin == Conf.pins[i + 1]
           its == PinSteps(pin)
           L == Len(PinsUpTo(i))
           u == Len(UsedBefore(i))
           len == Len(its)
<1>1. /\ PinCount \in Nat /\ i \in 0..PinCount /\ i + 1 \in 1..PinCount
      /\ i + 1 \in 0..PinCount /\ i < PinCount
  BY ConfIs
<1>2. pin \in PinEntry /\ pin.use \in BOOLEAN
  BY <1>1, ConfIs
<1>3. L \in Nat /\ Len(PinsUpTo(i + 1)) = L + len /\ len \in {1, 4}
  BY <1>2, PinAccess, PinStepsAre
<1>4. m < len /\ step[h] = 5 + L + m
  BY <1>1 DEF AtEntry
<1>5. Steps[step[h]] = its[m + 1]
  <2> HIDE DEF len
  <2>1. m \in 0..(len - 1)
    BY <1>3, <1>4
  <2>2. QED
    BY <1>4, <2>1, PinAccess DEF len
<1>6. /\ step'[h] = step[h] + 1 /\ step[h] \in Nat
      /\ shared \in Shared /\ count \in [Handlers -> Nat]
  <2>1. step \in [Handlers -> 1..(Len(Steps) + 1)] /\ Len(Steps) \in Nat
    BY LengthsAre DEF ReloadTypeOK
  <2>2. QED
    BY <2>1 DEF Reload, ReloadTypeOK, Shared
<1>7. /\ shared.number = u + (IF m >= 2 THEN 1 ELSE 0)
      /\ shared.used = UsedBefore(IF m = 3 THEN i + 1 ELSE i)
      /\ shared.pins = SubSeq(Conf.pins, 1, i) /\ shared.slaves = <<>>
      /\ m = 1 => count[h] = u
  BY DEF AtEntry
<1>8. /\ UsedBefore(i) \in Seq(PinEntry) /\ u \in Nat
      /\ UsedBefore(i + 1) = IF pin.use THEN Append(UsedBefore(i), pin) ELSE UsedBefore(i)
  BY <1>1, UsedIs
<1>9. SubSeq(Conf.pins, 1, i + 1) = Append(SubSeq(Conf.pins, 1, i), pin)
  BY <1>1, ConfIs, FirstEntries
<1>10. Len(PinsUpTo(i + 1)) \in Nat
  BY <1>1, PinsTyped
<1> DEFINE next == Len(PinsUpTo(i + 1))
<1> HIDE DEF L, u, len, next
\* what the next access finds
<1>11. ASSUME m + 1 < len,
              shared'.number = u + (IF m + 1 >= 2 THEN 1 ELSE 0),
              shared'.used = UsedBefore(IF m + 1 = 3 THEN i + 1 ELSE i),
              shared'.pins = SubSeq(Conf.pins, 1, i), shared'.slaves = <<>>,
              m + 1 = 1 => count'[h] = u
       PROVE  Partial(h)'
  <2>1. m + 1 \in 0..3 /\ step'[h] = 5 + L + (m + 1)
    BY <1>3, <1>4, <1>6, <1>11
  <2>2. AtEntry(h, i, m + 1)'
    BY <1>1, <1>11, <2>1 DEF AtEntry, L, u, len
  <2>3. QED
    BY <1>1, <2>1, <2>2 DEF Partial
\* and after the last one
<1>12. ASSUME m + 1 = len,
              shared'.number = Len(UsedBefore(i + 1)), shared'.used = UsedBefore(i + 1),
              shared'.pins = SubSeq(Conf.pins, 1, i + 1), shared'.slaves = <<>>
       PROVE  Partial(h)'
  <2>1. step'[h] = 5 + next + 0
    <3>1. next = L + len /\ next \in Nat
      BY <1>3, <1>10 DEF next
    <3>2. /\ m + 1 = len /\ m \in Nat /\ step[h] = 5 + L + m /\ step'[h] = step[h] + 1
          /\ L \in Nat /\ len \in Nat
      BY <1>3, <1>4, <1>6, <1>12
    <3>3. QED
      BY <3>1, <3>2
  <2>2. i + 1 < PinCount => 0 < Len(PinSteps(Conf.pins[i + 1 + 1]))
    <3>1. ASSUME i + 1 < PinCount
          PROVE  Conf.pins[i + 1 + 1] \in PinEntry /\ Conf.pins[i + 1 + 1].use \in BOOLEAN
      <4>1. i + 1 + 1 \in 1..PinCount
        BY <1>1, <3>1
      <4>2. QED
        BY <4>1, ConfIs
    <3>2. QED
      BY <3>1, PinStepsAre
  <2>3. Len(UsedBefore(i + 1)) \in Nat
    BY <1>1, UsedIs
  <2>4. Len(UsedBefore(i + 1)) + 0 = Len(UsedBefore(i + 1))
    BY <2>3
  <2>5. AtEntry(h, i + 1, 0)'
    BY <1>12, <2>1, <2>2, <2>4 DEF AtEntry, next
  <2>6. QED
    BY <1>1, <2>5 DEF Partial
<1>13. /\ its[1] = IF pin.use THEN ReadNumber ELSE Add("pins", pin)
       /\ pin.use => /\ len = 4 /\ its[2] = WriteNumber
                     /\ its[3] = Add("used", pin) /\ its[4] = Add("pins", pin)
       /\ ~pin.use => len = 1
  BY <1>2, PinStepsAre DEF len
<1> HIDE DEF pin, its
<1>14. CASE pin.use /\ m = 0
  <2>1. Steps[step[h]] = ReadNumber
    BY <1>5, <1>13, <1>14
  <2>2. shared' = shared /\ count' = [count EXCEPT ![h] = shared.number]
    BY <2>1, Effects
  <2>3. shared.number = u /\ shared.used = UsedBefore(i)
    BY <1>7, <1>8, <1>14
  <2>4. count'[h] = u
    BY <1>6, <2>2, <2>3
  <2>5. m + 1 < len /\ m + 1 = 1
    BY <1>13, <1>14
  <2>6. u + 0 = u
    BY <1>8
  <2>7. QED
    BY <1>7, <1>11, <2>2, <2>3, <2>4, <2>5, <2>6
<1>15. CASE pin.use /\ m = 1
  <2>1. Steps[step[h]] = WriteNumber
    BY <1>5, <1>13, <1>15
  <2>2. shared' = [shared EXCEPT !.number = count[h] + 1]
    BY <2>1, Effects
  <2>3. /\ shared'.number = count[h] + 1 /\ shared'.used = shared.used
        /\ shared'.pins = shared.pins /\ shared'.slaves = shared.slaves
    BY <1>6, <2>2 DEF Shared
  <2>4. count[h] = u /\ shared.used = UsedBefore(i)
    BY <1>7, <1>15
  <2>5. m + 1 < len /\ m + 1 = 2
    BY <1>13, <1>15
  <2>6. QED
    BY <1>7, <1>11, <2>3, <2>4, <2>5
<1>16. CASE pin.use /\ m = 2
  <2>1. Steps[step[h]] = Add("used", pin)
    BY <1>5, <1>13, <1>16
  <2>2. shared' = [shared EXCEPT !["used"] = Append(shared["used"], pin)]
    BY <2>1, Effects
  <2>3. /\ shared'.number = shared.number /\ shared'.used = Append(shared.used, pin)
        /\ shared'.pins = shared.pins /\ shared'.slaves = shared.slaves
    BY <1>6, <2>2 DEF Shared
  <2>4. shared.number = u + 1 /\ shared'.used = UsedBefore(i + 1)
    BY <1>7, <1>8, <1>16, <2>3
  <2>5. m + 1 < len /\ m + 1 = 3
    BY <1>13, <1>16
  <2>6. QED
    BY <1>7, <1>11, <2>3, <2>4, <2>5
<1>17. CASE m + 1 = len
  <2>1. Steps[step[h]] = Add("pins", pin)
    BY <1>2, <1>5, <1>13, <1>17
  <2>2. shared' = [shared EXCEPT !["pins"] = Append(shared["pins"], pin)]
    BY <2>1, Effects
  <2>3. /\ shared'.number = shared.number /\ shared'.used = shared.used
        /\ shared'.pins = Append(shared.pins, pin) /\ shared'.slaves = shared.slaves
    BY <1>6, <2>2 DEF Shared
  <2>4. shared.number = Len(UsedBefore(i + 1)) /\ shared.used = UsedBefore(i + 1)
    <3>1. CASE pin.use
      <4>1. m = 3
        BY <1>13, <1>17, <3>1
      <4>2. Len(Append(UsedBefore(i), pin)) = u + 1
        BY <1>8 DEF u
      <4>3. shared.number = u + 1 /\ shared.used = UsedBefore(i + 1)
        BY <1>7, <4>1
      <4>4. QED
        BY <1>8, <3>1, <4>2, <4>3
    <3>2. CASE ~pin.use
      <4>1. m = 0
        BY <1>13, <1>17, <3>2
      <4>2. shared.number = u
        BY <1>7, <1>8, <4>1
      <4>3. shared.used = UsedBefore(i)
        BY <1>7, <4>1
      <4>4. QED
        BY <1>8, <3>2, <4>2, <4>3 DEF u
    <3>3. QED
      BY <1>2, <3>1, <3>2
  <2>5. shared'.pins = SubSeq(Conf.pins, 1, i + 1)
    BY <1>7, <1>9, <2>3
  <2>6. QED
    BY <1>7, <1>12, <1>17, <2>3, <2>4, <2>5
<1>18. m = 0 \/ m = 1 \/ m = 2 \/ m = 3
  OBVIOUS
<1>19. QED
  <2>1. CASE pin.use
    <3>1. len = 4
      BY <1>13, <2>1
    <3>2. m = 3 => m + 1 = len
      BY <3>1
    <3>3. QED
      BY <1>14, <1>15, <1>16, <1>17, <1>18, <2>1, <3>2
  <2>2. CASE ~pin.use
    <3>1. len = 1
      BY <1>13, <2>2
    <3>2. m + 1 = len
      BY <1>4, <3>1
    <3>3. QED
      BY <1>17, <3>2
  <2>3. QED
    BY <2>1, <2>2

\* When the pins are done the slaves begin.
LEMMA EntriesDone ==
  ASSUME NEW h \in Handlers, NEW m \in 0..3, AtEntry(h, PinCount, m)
  PROVE  AtSlave(h, 0)
<1>1. /\ PinCount \in Nat /\ Conf.pins \in Seq(PinEntry) /\ Len(Conf.pins) = PinCount
      /\ Conf.slaves \in Seq(SlaveEntry)
  BY ConfIs
<1>2. m = 0
  BY <1>1 DEF AtEntry
<1>3. UsedBefore(PinCount) = PinsUsed(Conf) /\ Len(UsedBefore(PinCount)) \in Nat
  <2>1. PinCount \in 0..PinCount
    BY <1>1
  <2>2. QED
    BY <2>1, UsedIs
<1>4. shared.number = GpioNumber(Conf) /\ shared.used = PinsUsed(Conf)
  BY <1>2, <1>3 DEF AtEntry, GpioNumber
<1>5. shared.pins = Conf.pins /\ shared.slaves = SubSeq(Conf.slaves, 1, 0)
  BY <1>1, FirstEntries DEF AtEntry
<1>6. QED
  BY <1>2, <1>4, <1>5 DEF AtEntry, AtSlave

\* One more slave.
LEMMA SlaveMoves ==
  ASSUME ReloadTypeOK, NEW h \in Handlers, Reload(h),
         NEW j \in 0..Len(Conf.slaves), AtSlave(h, j)
  PROVE  Partial(h)'
<1> DEFINE L == Len(PinsUpTo(PinCount))
           all == Len(Steps)
           S == Len(Conf.slaves)
<1>1. L \in Nat /\ S \in Nat /\ all = 4 + L + S /\ j \in 0..S
  BY StepsAre, ConfIs
<1>2. /\ step[h] = 5 + L + j /\ shared.number = GpioNumber(Conf) /\ shared.used = PinsUsed(Conf)
      /\ shared.pins = Conf.pins /\ shared.slaves = SubSeq(Conf.slaves, 1, j)
  BY DEF AtSlave
<1>3. /\ step[h] \in 1..all /\ step'[h] = step[h] + 1 /\ shared \in Shared
  BY LengthsAre DEF Reload, ReloadTypeOK, Shared
<1> HIDE DEF L, all, S
<1>4. j + 1 \in 1..S /\ j \in 0..(S - 1) /\ 5 + L + j = 4 + L + (j + 1)
  <2>1. step[h] = 5 + L + j /\ step[h] \in 1..all
    BY <1>2, <1>3
  <2>2. 5 + L + j = 4 + L + (j + 1)
    BY <1>1
  <2>3. j + 1 <= S
    BY <1>1, <2>1
  <2>4. QED
    BY <1>1, <2>2, <2>3
<1>5. Steps[step[h]] = Add("slaves", Conf.slaves[j + 1])
  <2>1. Steps[4 + L + (j + 1)] = Add("slaves", Conf.slaves[j + 1])
    BY <1>4, StepsAre, Zenon DEF L, S
  <2>2. QED
    BY <1>2, <1>4, <2>1, Zenon
<1>6. shared' = [shared EXCEPT !["slaves"] = Append(shared["slaves"], Conf.slaves[j + 1])]
  BY <1>5, Effects
<1>7. /\ shared'.number = shared.number /\ shared'.used = shared.used
      /\ shared'.pins = shared.pins
      /\ shared'.slaves = Append(shared.slaves, Conf.slaves[j + 1])
  BY <1>3, <1>6 DEF Shared
<1>8. SubSeq(Conf.slaves, 1, j + 1) = Append(SubSeq(Conf.slaves, 1, j), Conf.slaves[j + 1])
  BY <1>4, ConfIs, FirstEntries DEF S
<1>9. step'[h] = 5 + L + (j + 1)
  BY <1>1, <1>2, <1>3
<1>10. AtSlave(h, j + 1)'
  BY <1>2, <1>7, <1>8, <1>9 DEF AtSlave, L
<1>11. j + 1 \in 0..Len(Conf.slaves)
  BY <1>1, <1>4 DEF S
<1>12. QED
  BY <1>10, <1>11 DEF Partial

\* Any access.
LEMMA ReloadMoves ==
  ASSUME ReloadTypeOK, NEW h \in Handlers, Reload(h), Partial(h)
  PROVE  Partial(h)'
<1>1. PinCount \in Nat /\ Len(Conf.slaves) \in Nat
  BY ConfIs
<1>2. CASE Emptied(h)
  BY <1>2, ResetMoves
<1>3. ASSUME NEW i \in 0..PinCount, NEW m \in 0..3, AtEntry(h, i, m) PROVE Partial(h)'
  <2>1. CASE i < PinCount
    <3>1. i \in 0..(PinCount - 1)
      BY <1>1, <2>1
    <3>2. QED
      BY <1>3, <3>1, EntryMoves
  <2>2. CASE i = PinCount
    <3>1. AtSlave(h, 0) /\ 0 \in 0..Len(Conf.slaves)
      BY <1>1, <1>3, <2>2, EntriesDone
    <3>2. QED
      BY <3>1, SlaveMoves
  <2>3. QED
    BY <1>1, <2>1, <2>2
<1>4. ASSUME NEW j \in 0..Len(Conf.slaves), AtSlave(h, j) PROVE Partial(h)'
  BY <1>4, SlaveMoves
<1>5. QED
  BY <1>2, <1>3, <1>4 DEF Partial

\* At the end the object says what the file says.
LEMMA ReloadEnds ==
  ASSUME ReloadTypeOK, NEW h \in Handlers, Partial(h), step[h] = Len(Steps) + 1
  PROVE  shared = Loaded
<1> DEFINE L == Len(PinsUpTo(PinCount))
           all == Len(Steps)
           S == Len(Conf.slaves)
<1>0. PinCount \in Nat /\ Conf.slaves \in Seq(SlaveEntry)
  BY ConfIs
<1>1. L \in Nat /\ S \in Nat /\ all = 4 + L + S /\ step[h] = all + 1
  BY StepsAre, ConfIs
<1> HIDE DEF L, all, S
<1>2. PICK j \in 0..Len(Conf.slaves) : AtSlave(h, j)
  <2>1. ~Emptied(h)
    BY <1>1 DEF Emptied
  <2>2. ASSUME NEW i \in 0..PinCount, NEW m \in 0..3, AtEntry(h, i, m)
        PROVE  \E j \in 0..Len(Conf.slaves) : AtSlave(h, j)
    <3>1. CASE i < PinCount
      <4> DEFINE its == PinSteps(Conf.pins[i + 1])
      <4>1. i \in 0..(PinCount - 1) /\ i + 1 \in 1..PinCount
        BY <1>0, <3>1
      <4>2. its \in Seq(Accesses)
        BY <4>1, ConfIs, PinStepsAre
      <4>3. Len(its) \in Nat
        BY <4>2
      <4>4. Len(PinsUpTo(i)) \in Nat /\ Len(PinsUpTo(i)) + Len(its) <= L
        BY <4>1, PinAccess DEF L
      <4>5. m < Len(its) /\ step[h] = 5 + Len(PinsUpTo(i)) + m
        BY <2>2, <3>1 DEF AtEntry
      <4> DEFINE len == Len(its)
                 before == Len(PinsUpTo(i))
      <4>6. FALSE
        <5>1. /\ len \in Nat /\ before \in Nat /\ before + len <= L
              /\ m < len /\ step[h] = 5 + before + m
          BY <4>3, <4>4, <4>5
        <5> HIDE DEF len, before
        <5>2. QED
          BY <1>1, <5>1
      <4>7. QED
        BY <4>6
    <3>2. CASE i = PinCount
      BY <1>0, <2>2, <3>2, EntriesDone, ConfIs
    <3>3. QED
      BY <1>0, <3>1, <3>2
  <2>3. QED
    BY <2>1, <2>2 DEF Partial
<1>3. j = Len(Conf.slaves)
  <2>1. step[h] = 5 + L + j /\ j \in 0..S
    BY <1>2 DEF AtSlave, L, S
  <2>2. j = S
    BY <1>1, <2>1
  <2>3. QED
    BY <2>2 DEF S
<1>4. shared.slaves = Conf.slaves
  BY <1>0, <1>2, <1>3, FirstEntries DEF AtSlave
<1>5. shared \in Shared
  BY DEF ReloadTypeOK, Shared
<1>6. shared = [number |-> shared.number, used |-> shared.used, pins |-> shared.pins,
                slaves |-> shared.slaves]
  BY <1>5 DEF Shared
<1>7. QED
  BY <1>2, <1>4, <1>6 DEF AtSlave, Loaded

-----------------------------------------------------------------------------
(***************************************************************************)
(* Where the write goes, once the object says what the file says.          *)
(***************************************************************************)
\* Expected, by the branches of Route.
LEMMA ExpectedIs ==
  ASSUME NEW r
  PROVE  /\ IsPinRegister(Conf, r) =>
              Expected(r) = [kind |-> "pin", pin |-> r, entry |-> PinsUsed(Conf)[r]]
         /\ ~IsPinRegister(Conf, r) =>
              LET route == IF r - GpioSize(Conf) > 0 THEN DeviceRoute(Conf, r - GpioSize(Conf))
                           ELSE FirstRoute(Conf)
              IN /\ route.kind = "device" => Expected(r) = route
                 /\ route.kind = "none" => Expected(r) = Closed
<1>1. ASSUME IsPinRegister(Conf, r)
      PROVE  Expected(r) = [kind |-> "pin", pin |-> r, entry |-> PinsUsed(Conf)[r]]
  <2>1. Route(Conf, r).kind = "pin"
    BY <1>1 DEF Route
  <2>2. QED
    BY <2>1 DEF Expected
<1>2. ASSUME ~IsPinRegister(Conf, r)
      PROVE  Route(Conf, r) =
               IF r - GpioSize(Conf) > 0 THEN DeviceRoute(Conf, r - GpioSize(Conf))
               ELSE FirstRoute(Conf)
  BY <1>2 DEF Route
<1>3. ASSUME Route(Conf, r).kind = "device" PROVE Expected(r) = Route(Conf, r)
  BY <1>3 DEF Expected
<1>4. ASSUME Route(Conf, r).kind = "none" PROVE Expected(r) = Closed
  BY <1>4 DEF Expected
<1>5. QED
  BY <1>1, <1>2, <1>3, <1>4

\* The search only looks at the slaves.
LEMMA SameSlavesSameRoute ==
  ASSUME NEW offset
  PROVE  DeviceRoute(Loaded, offset) = DeviceRoute(Conf, offset)
<1>1. Loaded.slaves = Conf.slaves
  BY DEF Loaded
<1>2. \A n : SizeUpTo(Loaded, n) = SizeUpTo(Conf, n)
  BY <1>1 DEF SizeUpTo
<1>3. LongEnough(Loaded, offset) = LongEnough(Conf, offset)
  BY <1>1, <1>2 DEF LongEnough
<1>4. QED
  BY <1>1, <1>2, <1>3 DEF DeviceRoute

LEMMA DeviceRouteKind ==
  ASSUME NEW offset
  PROVE  DeviceRoute(Conf, offset).kind \in {"spin", "device"}
  BY DEF DeviceRoute

LEMMA FirstRouteIs ==
  FirstRoute(Loaded) = FirstRoute(Conf) /\ FirstRoute(Conf).kind \in {"none", "device"}
  BY DEF FirstRoute, Loaded

\* A pin register is a position of the pins in use, and so of all pins.
LEMMA PinRegisterListed ==
  ASSUME NEW r \in Nat, IsPinRegister(Conf, r)
  PROVE  r \in DOMAIN Conf.pins /\ r \in DOMAIN PinsUsed(Conf)
<1>1. PinCount \in Nat /\ Conf.pins \in Seq(PinEntry) /\ Len(Conf.pins) = PinCount
  BY ConfIs
<1>2. PinsUsed(Conf) \in Seq(PinEntry) /\ Len(PinsUsed(Conf)) \in 0..PinCount
  <2>1. PinCount \in 0..PinCount
    BY <1>1
  <2>2. QED
    BY <2>1, UsedIs
<1>3. r > 0 /\ r < Len(PinsUsed(Conf)) + 1
  BY DEF IsPinRegister, GpioSize, GpioNumber, STATUS_OK
<1>4. r \in 1..Len(PinsUsed(Conf)) /\ r \in 1..PinCount
  BY <1>1, <1>2, <1>3
<1>5. QED
  BY <1>1, <1>2, <1>4

-----------------------------------------------------------------------------
(***************************************************************************)
(* The invariant.                                                          *)
(***************************************************************************)
LEMMA InitReload == ReloadInit => ReloadInv
<1> SUFFICES ASSUME ReloadInit PROVE ReloadInv
  OBVIOUS
<1>1. shared \in Shared
  BY LoadedTyped DEF ReloadInit
<1>2. 1 \in 1..(Len(Steps) + 1)
  BY LengthsAre
<1>3. ReloadTypeOK
  BY <1>1, <1>2 DEF ReloadInit, ReloadTypeOK, Shared, Stages
<1>4. ASSUME NEW h \in Handlers PROVE (pc[h] = "idle" => step[h] = 1) /\ AloneIn(h)
  BY DEF ReloadInit, AloneIn
<1>5. QED
  BY <1>3, <1>4 DEF ReloadInv

\* A step that leaves conf, the file and the state of a listener alone.
LEMMA LeftAlone ==
  ASSUME NEW h \in Handlers, AloneIn(h), shared' = shared, file' = file,
         pc'[h] = pc[h], step'[h] = step[h], count'[h] = count[h], ref'[h] = ref[h],
         size'[h] = size[h], result'[h] = result[h]
  PROVE  AloneIn(h)'
<1>1. Partial(h) => Partial(h)'
  BY DEF Partial, Emptied, AtEntry, AtSlave
<1>2. Branched(h) => Branched(h)'
  BY DEF Branched
<1>3. QED
  BY <1>1, <1>2 DEF AloneIn

\* Another listener's step that is no access to conf.
LEMMA OthersGoOn ==
  ASSUME ReloadInv, NEW h \in Handlers,
         shared' = shared, file' = file,
         \A g \in Handlers \ {h} :
           /\ pc'[g] = pc[g] /\ step'[g] = step[g] /\ count'[g] = count[g] /\ ref'[g] = ref[g]
           /\ size'[g] = size[g] /\ result'[g] = result[g] /\ (alone'[g] => alone[g]),
         pc'[h] = "idle" => step'[h] = 1,
         alone'[h] => AloneIn(h)',
         ReloadTypeOK'
  PROVE  ReloadInv'
<1>1. ASSUME NEW g \in Handlers, alone'[g] PROVE AloneIn(g)'
  <2>1. CASE g = h
    BY <1>1, <2>1
  <2>2. CASE g # h
    <3>1. AloneIn(g)
      BY <1>1, <2>2 DEF ReloadInv
    <3>2. QED
      BY <2>2, <3>1, LeftAlone
  <2>3. QED
    BY <2>1, <2>2
<1>2. ASSUME NEW g \in Handlers, pc'[g] = "idle" PROVE step'[g] = 1
  BY <1>2 DEF ReloadInv
<1>3. QED
  BY <1>1, <1>2 DEF ReloadInv

LEMMA NextReload == ReloadInv /\ [ReloadNext]_reloadVars => ReloadInv'
<1> SUFFICES ASSUME ReloadInv, [ReloadNext]_reloadVars PROVE ReloadInv'
  OBVIOUS
<1>1. ReloadTypeOK /\ ReloadTypeOK'
  BY ReloadTyped DEF ReloadInv
<1>2. /\ pc \in [Handlers -> Stages] /\ step \in [Handlers -> 1..(Len(Steps) + 1)]
      /\ count \in [Handlers -> Nat] /\ ref \in [Handlers -> Nat] /\ size \in [Handlers -> Nat]
      /\ result = [h \in Handlers |-> result[h]] /\ alone \in [Handlers -> BOOLEAN]
  BY <1>1 DEF ReloadTypeOK
<1> HIDE DEF Steps
<1>3. ASSUME NEW h \in Handlers, Start(h) PROVE ReloadInv'
  <2>1. /\ pc' = [pc EXCEPT ![h] = "reload"] /\ alone' = [alone EXCEPT ![h] = (file = "whole")]
        /\ UNCHANGED <<shared, file, step, count, size, result>>
        /\ \E r \in Refs : ref' = [ref EXCEPT ![h] = r]
        /\ pc[h] = "idle"
    BY <1>3 DEF Start, Goto
  <2>2. step[h] = 1
    BY <2>1 DEF ReloadInv
  <2>3. Partial(h)'
    BY <2>1, <2>2 DEF Partial, Emptied
  <2>4. alone'[h] => AloneIn(h)'
    BY <1>2, <2>1, <2>3 DEF AloneIn
  <2>5. QED
    BY <1>1, <1>2, <2>1, <2>4, OthersGoOn
<1>4. ASSUME NEW h \in Handlers, Reload(h) PROVE ReloadInv'
  <2>1. /\ pc[h] = "reload" /\ UNCHANGED <<file, pc, ref, size, result>>
        /\ alone' = [g \in Handlers |-> alone[g] /\ g = h]
        /\ step' = [step EXCEPT ![h] = step[h] + 1]
    BY <1>4 DEF Reload
  <2>2. ASSUME NEW g \in Handlers, alone'[g] PROVE AloneIn(g)'
    <3>1. g = h /\ alone[h]
      BY <2>1, <2>2
    <3>2. AloneIn(h)
      BY <3>1 DEF ReloadInv
    <3>3. Partial(h)'
      BY <1>1, <1>4, <2>1, <3>2, ReloadMoves DEF AloneIn
    <3>4. QED
      BY <2>1, <3>1, <3>2, <3>3 DEF AloneIn
  <2>3. ASSUME NEW g \in Handlers, pc'[g] = "idle" PROVE step'[g] = 1
    BY <1>2, <2>1, <2>3 DEF ReloadInv
  <2>4. QED
    BY <1>1, <2>2, <2>3 DEF ReloadInv
<1>5. ASSUME NEW h \in Handlers, ParseFails(h) PROVE ReloadInv'
  <2>1. /\ file = "torn" /\ pc[h] = "reload"
        /\ UNCHANGED <<shared, file, pc, count, ref, size, result, alone>>
        /\ step' = [step EXCEPT ![h] = Len(Steps) + 1]
    BY <1>5 DEF ParseFails
  <2>2. ~alone[h]
    BY <2>1 DEF ReloadInv, AloneIn
  <2>3. QED
    BY <1>1, <1>2, <2>1, <2>2, OthersGoOn
<1>6. ASSUME NEW h \in Handlers, Size(h) PROVE ReloadInv'
  <2> DEFINE s == IF Conf.gpioEnable THEN shared.number + STATUS_OK ELSE 1
             place == IF Conf.gpioEnable /\ 0 < ref[h] /\ ref[h] < s THEN "alarm"
                      ELSE IF ref[h] - s > 0 THEN "search" ELSE "first"
  <2>1. /\ pc[h] = "reload" /\ step[h] = Len(Steps) + 1
        /\ size' = [size EXCEPT ![h] = s]
        /\ UNCHANGED <<shared, file, step, count, ref, result, alone>>
    BY <1>6 DEF Size
  <2>2. size'[h] = s
    BY <1>2, <2>1
  <2>3. pc' = [pc EXCEPT ![h] = place]
    BY <1>6, <2>2 DEF Size, Goto
  <2>4. ASSUME alone'[h] PROVE AloneIn(h)'
    <3>1. AloneIn(h)
      BY <2>1, <2>4 DEF ReloadInv
    <3>2. shared = Loaded
      BY <1>1, <2>1, <3>1, ReloadEnds DEF AloneIn
    <3>3. s = GpioSize(Conf)
      BY <3>2 DEF Loaded, GpioSize
    <3> HIDE DEF s
    <3>4. /\ place = "alarm" => IsPinRegister(Conf, ref[h])
          /\ place = "search" => ~IsPinRegister(Conf, ref[h]) /\ ref[h] - s > 0
          /\ place = "first" => ~IsPinRegister(Conf, ref[h]) /\ ~(ref[h] - s > 0)
          /\ place \in {"alarm", "search", "first"}
      BY <3>3 DEF IsPinRegister
    <3> HIDE DEF place
    <3>5. pc'[h] = place /\ ref'[h] = ref[h]
      BY <1>2, <2>1, <2>3
    <3>6. Branched(h)'
      BY <2>1, <2>2, <3>2, <3>3, <3>4, <3>5 DEF Branched
    <3>7. QED
      BY <2>1, <3>1, <3>4, <3>5, <3>6 DEF AloneIn
  <2>5. place # "idle"
    OBVIOUS
  <2> HIDE DEF s, place
  <2>6. pc'[h] # "idle"
    BY <1>2, <2>3, <2>5
  <2>7. QED
    BY <1>1, <1>2, <2>1, <2>3, <2>4, <2>6, OthersGoOn
<1>7. ASSUME NEW h \in Handlers, ReadAlarm(h) PROVE ReloadInv'
  <2>1. pc[h] = "alarm" /\ UNCHANGED <<shared, file, step, count, ref, size, alone>>
    BY <1>7 DEF ReadAlarm
  <2>2. \/ pc' = [pc EXCEPT ![h] = "delay"] /\ result' = result
        \/ /\ ref[h] \notin DOMAIN shared.pins
           /\ pc' = [pc EXCEPT ![h] = "done"] /\ result' = [result EXCEPT ![h] = Closed]
    BY <1>7 DEF ReadAlarm, Goto, Finish
  <2>3. ASSUME alone'[h] PROVE AloneIn(h)'
    <3>1. AloneIn(h) /\ Branched(h) /\ IsPinRegister(Conf, ref[h]) /\ shared.pins = Conf.pins
      BY <2>1, <2>3 DEF ReloadInv, AloneIn, Branched, Loaded
    <3>2. ref[h] \in DOMAIN shared.pins
      BY <1>2, <3>1, PinRegisterListed
    <3>3. pc'[h] = "delay"
      BY <1>2, <2>2, <3>2
    <3>4. Branched(h)'
      BY <2>1, <3>1, <3>3 DEF Branched
    <3>5. QED
      BY <2>1, <3>1, <3>3, <3>4 DEF AloneIn
  <2>4. pc'[h] # "idle"
    BY <1>2, <2>2
  <2>5. \A g \in Handlers \ {h} : pc'[g] = pc[g] /\ result'[g] = result[g]
    BY <1>2, <2>2
  <2>6. QED
    BY <1>1, <2>1, <2>3, <2>4, <2>5, OthersGoOn
<1>8. ASSUME NEW h \in Handlers, NEW r, Finish(h, r), pc[h] \in {"delay", "search", "first"},
             UNCHANGED <<shared, file, step, count, ref, size, alone>>,
             alone[h] => r = Expected(ref[h])
      PROVE  ReloadInv'
  <2>1. pc' = [pc EXCEPT ![h] = "done"] /\ result' = [result EXCEPT ![h] = r]
    BY <1>8 DEF Finish, Goto
  <2>2. pc'[h] = "done" /\ result'[h] = r
    BY <1>2, <2>1
  <2>3. ASSUME alone'[h] PROVE AloneIn(h)'
    BY <1>8, <2>2, <2>3 DEF ReloadInv, AloneIn, Expected
  <2>4. \A g \in Handlers \ {h} : pc'[g] = pc[g] /\ result'[g] = result[g]
    BY <1>2, <2>1
  <2>5. QED
    BY <1>1, <1>8, <2>2, <2>3, <2>4, OthersGoOn
<1>9. ASSUME NEW h \in Handlers, ReadDelay(h) PROVE ReloadInv'
  <2> DEFINE r == IF ref[h] \in DOMAIN shared.used /\ ref[h] \in DOMAIN PinsUsed(Conf)
                  THEN [kind |-> "pin", pin |-> ref[h], entry |-> shared.used[ref[h]]]
                  ELSE Closed
  <2>1. /\ pc[h] = "delay" /\ Finish(h, r)
        /\ UNCHANGED <<shared, file, step, count, ref, size, alone>>
    BY <1>9 DEF ReadDelay
  <2>2. ASSUME alone[h] PROVE r = Expected(ref[h])
    <3>1. IsPinRegister(Conf, ref[h]) /\ shared.used = PinsUsed(Conf)
      BY <2>1, <2>2 DEF ReloadInv, AloneIn, Branched, Loaded
    <3>2. ref[h] \in DOMAIN PinsUsed(Conf)
      BY <1>2, <3>1, PinRegisterListed
    <3>3. QED
      BY <3>1, <3>2, ExpectedIs
  <2> HIDE DEF r
  <2>3. QED
    BY <1>8, <2>1, <2>2
<1>10. ASSUME NEW h \in Handlers, Search(h) PROVE ReloadInv'
  <2> DEFINE r == DeviceRoute(shared, ref[h] - size[h])
  <2>1. /\ pc[h] = "search" /\ r.kind # "spin" /\ Finish(h, r)
        /\ UNCHANGED <<shared, file, step, count, ref, size, alone>>
    BY <1>10 DEF Search
  <2>2. ASSUME alone[h] PROVE r = Expected(ref[h])
    <3>1. /\ ~IsPinRegister(Conf, ref[h]) /\ ref[h] - size[h] > 0
          /\ shared = Loaded /\ size[h] = GpioSize(Conf)
      BY <2>1, <2>2 DEF ReloadInv, AloneIn, Branched
    <3>2. r = DeviceRoute(Conf, ref[h] - GpioSize(Conf))
      BY <3>1, SameSlavesSameRoute
    <3>3. r.kind = "device"
      BY <2>1, <3>2, DeviceRouteKind
    <3>4. QED
      BY <3>1, <3>2, <3>3, ExpectedIs
  <2> HIDE DEF r
  <2>3. QED
    BY <1>8, <2>1, <2>2
<1>11. ASSUME NEW h \in Handlers, First(h) PROVE ReloadInv'
  <2> DEFINE r == IF FirstRoute(shared).kind = "none" THEN Closed ELSE FirstRoute(shared)
  <2>1. /\ pc[h] = "first" /\ Finish(h, r)
        /\ UNCHANGED <<shared, file, step, count, ref, size, alone>>
    BY <1>11 DEF First
  <2>2. ASSUME alone[h] PROVE r = Expected(ref[h])
    <3>1. /\ ~IsPinRegister(Conf, ref[h]) /\ ~(ref[h] - GpioSize(Conf) > 0)
          /\ shared = Loaded
      BY <2>1, <2>2 DEF ReloadInv, AloneIn, Branched
    <3>2. QED
      BY <3>1, FirstRouteIs, ExpectedIs
  <2> HIDE DEF r
  <2>3. QED
    BY <1>8, <2>1, <2>2
<1>12. ASSUME NEW h \in Handlers, Done(h) PROVE ReloadInv'
  <2>1. /\ UNCHANGED <<shared, file, alone>> /\ pc' = [pc EXCEPT ![h] = "idle"]
        /\ step' = [step EXCEPT ![h] = 1] /\ count' = [count EXCEPT ![h] = 0]
        /\ ref' = [ref EXCEPT ![h] = 0] /\ size' = [size EXCEPT ![h] = 0]
        /\ result' = [result EXCEPT ![h] = None]
    BY <1>12 DEF Done, Goto
  <2>2. pc'[h] = "idle" /\ step'[h] = 1
    BY <1>2, <2>1
  <2>3. alone'[h] => AloneIn(h)'
    BY <2>1, <2>2 DEF ReloadInv, AloneIn
  <2>4. QED
    BY <1>1, <1>2, <2>1, <2>2, <2>3, OthersGoOn
<1>13. CASE Truncate
  <2>1. alone' = [h \in Handlers |-> FALSE] /\ pc' = pc /\ step' = step
    BY <1>13 DEF Truncate
  <2>2. QED
    BY <1>1, <2>1 DEF ReloadInv
<1>14. CASE UNCHANGED reloadVars
  <2>1. ASSUME NEW h \in Handlers, alone'[h] PROVE AloneIn(h)'
    <3>1. AloneIn(h)
      BY <1>14, <2>1 DEF reloadVars, ReloadInv
    <3>2. QED
      BY <1>14, <3>1, LeftAlone DEF reloadVars
  <2>2. QED
    BY <1>1, <1>14, <2>1 DEF ReloadInv, reloadVars
<1>15. QED
  BY <1>3, <1>4, <1>5, <1>6, <1>7, <1>9, <1>10, <1>11, <1>12, <1>13, <1>14
  DEF ReloadNext, Listen

\* A listener that is alone with conf has, at every access of its reload, exactly
\* the part of the file in conf that it has parsed, whatever others left there.
THEOREM ReloadAlways == ReloadSpec => []ReloadInv
<1>1. QED
  BY InitReload, NextReload, PTL DEF ReloadSpec

\* For every configuration, every number of listeners and all registers: a listener
\* that has the configuration to itself sends the write where the file says.
THEOREM AloneRight == ReloadSpec => []AloneRoutesRight
<1>1. ReloadInv => AloneRoutesRight
  BY DEF ReloadInv, AloneIn, AloneRoutesRight
<1>2. QED
  BY <1>1, ReloadAlways, PTL

=============================================================================
