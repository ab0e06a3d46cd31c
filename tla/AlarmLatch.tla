----------------------------- MODULE AlarmLatch -----------------------------
(***************************************************************************)
(* ReadDevices: the alarms of one device register.  Every polling period a *)
(* thread reads the register and decides from two flags of the Register    *)
(* object, connected and notificated, whether the user is told that the    *)
(* device is gone or back, or that its value is too high or too low.       *)
(*                                                                         *)
(* A reading that waits for its timeouts outlasts the period, and then two *)
(* threads work on the same flags: overlapped remembers whether that has   *)
(* happened.  The rtu and the tcp thread have the same text.               *)
(***************************************************************************)
EXTENDS Integers, Sequences

CONSTANTS
  Low, High,     \* lowAlarm and highAlarm of the register
  Readings,      \* values the device may show
  Pollers        \* threads that may read it at once

ASSUME ReadingsAssumption == Low \in Int /\ High \in Int /\ Readings \subseteq Nat

VARIABLES
  device,        \* the value in the device, or Gone
  connected,     \* Register.connected
  notificated,   \* Register.notificated
  pc,            \* poller -> what it does next
  value,         \* poller -> its reading
  branch,        \* poller -> the branch it took
  lastLink,      \* the last message about the connection (history)
  cleared,       \* no "high" since the last good reading or return (history)
  overlapped     \* two pollers have been at work at once (history)

vars == <<device, connected, notificated, pc, value, branch, lastLink, cleared, overlapped>>

Gone == -1     \* readHoldingRegister's answer to any failure

Branches == {"disconnected", "high", "low", "reconnected", "clear", "none"}

TypeOK ==
  /\ device \in Readings \cup {Gone}
  /\ connected \in BOOLEAN /\ notificated \in BOOLEAN
  /\ pc \in [Pollers -> {"idle", "judge", "link", "act1", "act2", "act3", "store"}]
  /\ value \in [Pollers -> Readings \cup {Gone}]
  /\ branch \in [Pollers -> Branches]
  /\ lastLink \in {"none", "disconnected", "reconnected"}
  /\ cleared \in BOOLEAN /\ overlapped \in BOOLEAN

Init ==
  /\ device \in Readings \cup {Gone}
  /\ connected = FALSE
  /\ notificated = FALSE
  /\ pc = [p \in Pollers |-> "idle"]
  /\ value = [p \in Pollers |-> Gone]
  /\ branch = [p \in Pollers |-> "none"]
  /\ lastLink = "none"
  /\ cleared = TRUE
  /\ overlapped = FALSE

\* The world: the device takes another value, is lost or comes back.
Change ==
  /\ device' \in (Readings \cup {Gone}) \ {device}
  /\ UNCHANGED <<connected, notificated, pc, value, branch, lastLink, cleared, overlapped>>

Goto(p, l) == pc' = [pc EXCEPT ![p] = l]

Take(p, b) ==
  /\ branch' = [branch EXCEPT ![p] = b]
  /\ Goto(p, IF b = "none" THEN "store" ELSE "act1")

-----------------------------------------------------------------------------
Read(p) ==
  /\ pc[p] = "idle"
  /\ value' = [value EXCEPT ![p] = device]
  /\ overlapped' = (overlapped \/ \E q \in Pollers \ {p} : pc[q] # "idle")
  /\ Goto(p, "judge")
  /\ UNCHANGED <<device, connected, notificated, branch, lastLink, cleared>>

\* The three branches that need an open latch.
AlarmOf(v) ==
  CASE v = Gone                -> "disconnected"
    [] v # Gone /\ v > High    -> "high"
    [] v # Gone /\ v <= High /\ v < Low -> "low"
    [] OTHER                   -> "none"

\* Mutant of Judge: the latch is not asked.
UnlatchedJudge(p) ==
  /\ pc[p] = "judge"
  /\ IF AlarmOf(value[p]) # "none"
     THEN Take(p, AlarmOf(value[p]))
     ELSE Goto(p, "link") /\ UNCHANGED branch
  /\ UNCHANGED <<device, connected, notificated, value, lastLink, cleared, overlapped>>

Judge(p) ==
  /\ pc[p] = "judge"
  /\ IF ~notificated /\ AlarmOf(value[p]) # "none"
     THEN Take(p, AlarmOf(value[p]))
     ELSE Goto(p, "link") /\ UNCHANGED branch
  /\ UNCHANGED <<device, connected, notificated, value, lastLink, cleared, overlapped>>

\* The last else: is the device back, or the value good again?
Link(p) ==
  /\ pc[p] = "link"
  /\ Take(p, IF ~connected /\ value[p] > 0 THEN "reconnected"
             ELSE IF value[p] > 0 /\ value[p] < High THEN "clear"
             ELSE "none")
  /\ UNCHANGED <<device, connected, notificated, value, lastLink, cleared, overlapped>>

\* Mutant of Statements: the alarm for a high value does not latch.
UnlatchedStatements ==
  [disconnected |-> <<"setDisconnected", "latch", "tell">>,
   high         |-> <<"tell">>,
   low          |-> <<"tell", "latch">>,
   reconnected  |-> <<"setConnected", "release", "tell">>,
   clear        |-> <<"release">>]

(***************************************************************************)
(* The statements of each branch in their order.  The message comes last   *)
(* when the connection is at stake, first when the value is.               *)
(***************************************************************************)
Statements ==
  [disconnected |-> <<"setDisconnected", "latch", "tell">>,
   high         |-> <<"tell", "latch">>,
   low          |-> <<"tell", "latch">>,
   reconnected  |-> <<"setConnected", "release", "tell">>,
   clear        |-> <<"release">>]

Places == <<"act1", "act2", "act3", "store">>

Act(p, n) ==
  /\ pc[p] = Places[n]
  /\ n \in DOMAIN Statements[branch[p]]
  /\ LET s == Statements[branch[p]][n] IN
       /\ connected' = IF s = "setConnected" THEN TRUE
                       ELSE IF s = "setDisconnected" THEN FALSE ELSE connected
       /\ notificated' = IF s = "latch" THEN TRUE
                         ELSE IF s = "release" THEN FALSE ELSE notificated
       /\ lastLink' = IF s = "tell" /\ branch[p] \in {"disconnected", "reconnected"}
                      THEN branch[p] ELSE lastLink
       /\ cleared' = IF s = "tell" /\ branch[p] = "high" THEN FALSE
                     ELSE IF branch[p] \in {"clear", "reconnected"} THEN TRUE ELSE cleared
       /\ Goto(p, IF n = Len(Statements[branch[p]]) THEN "store" ELSE Places[n + 1])
  /\ UNCHANGED <<device, value, branch, overlapped>>

\* spi.setRegister (module Gateway), and the thread ends.
Store(p) ==
  /\ pc[p] = "store"
  /\ value' = [value EXCEPT ![p] = Gone]
  /\ branch' = [branch EXCEPT ![p] = "none"]
  /\ Goto(p, "idle")
  /\ UNCHANGED <<device, connected, notificated, lastLink, cleared, overlapped>>

Poll(p) == Read(p) \/ Judge(p) \/ Link(p) \/ (\E n \in 1..3 : Act(p, n)) \/ Store(p)

Next == Change \/ \E p \in Pollers : Poll(p)

Spec == Init /\ [][Next]_vars

\* The polling threads run; the device owes nothing.
FairSpec == Spec /\ \A p \in Pollers : WF_vars(Poll(p))

-----------------------------------------------------------------------------
\* p is about to send message b.
Tells(p, b) ==
  /\ branch[p] = b
  /\ \E n \in 1..3 : /\ pc[p] = Places[n]
                     /\ n \in DOMAIN Statements[b] /\ Statements[b][n] = "tell"

(***************************************************************************)
(* "Disconnected" and "Reconnected" alternate, whatever alarms come        *)
(* between them, unless readings overlap.                                  *)
(***************************************************************************)
LinkMessagesAlternate ==
  ~overlapped => \A p \in Pollers : \A b \in {"disconnected", "reconnected"} :
                   Tells(p, b) => lastLink # b

(***************************************************************************)
(* A value that stays too high is not announced again before the device    *)
(* has shown a good value or come back, unless readings overlap.           *)
(***************************************************************************)
HighOnce ==
  ~overlapped => \A p \in Pollers : Tells(p, "high") => cleared

(***************************************************************************)
(* Once the device stands still the messages end, overlapping readings or  *)
(* not; but not for a value between 0 and the low limit, which also counts *)
(* as good and is announced at every other reading.                        *)
(***************************************************************************)
Settles ==
  \A v \in Readings \cup {Gone} :
    <>[](device = v) /\ ~(0 < v /\ v < Low /\ v < High)
      => <>[](\A p \in Pollers, b \in Branches \ {"clear", "none"} : ~Tells(p, b))

(***************************************************************************)
(* The documentation: the user is told of alarms and events.  A device     *)
(* that is lost for good is announced.                                     *)
(***************************************************************************)
LossTold == <>[](device = Gone) => <>[](lastLink = "disconnected")
=============================================================================
