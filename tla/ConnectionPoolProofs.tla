------------------------ MODULE ConnectionPoolProofs ------------------------
(***************************************************************************)
(* Proofs about ConnectionPool, for any number of connections and threads: *)
(* it implements the safety part of ConnectionService, the count the queue *)
(* keeps of its waiters is exact, and the two races of the startup do no   *)
(* more than ConnectionPool says.                                          *)
(***************************************************************************)
EXTENDS ConnectionPool, FiniteSetTheorems, TLAPS

USE PoolAssumption

-----------------------------------------------------------------------------
(* The inductive invariant, by what each part is for. *)

\* A thread is at its connection exactly while it has one.
Busy == \A t \in Threads : pc[t] = "serve" <=> task[t] # None

\* What the listener carries to the queue has been opened, not yet accepted.
Carried ==
  listener \in {"make", "hear", "put"} =>
    incoming \in Connections /\ incoming \in opened /\ incoming \notin accepted

\* Until the flag is set nobody gets past Accept.
Unset ==
  /\ main = "begin" => listener = "none"
  /\ main \in {"begin", "started"} => ~listening
  /\ ~listening => accepted = {} /\ listener \in {"none", "accept", "loop", "dead", "failed"}
  /\ listener = "dead" => accepted = {}

\* Queued and served connections have been accepted.
Known ==
  /\ \A i \in 1..Len(queue) : queue[i] \in accepted
  /\ \A t \in Threads : task[t] # None => task[t] \in accepted

\* MainThread only ever chooses a handler made while it was starting.
Chosen ==
  /\ newest # None /\ main # "up" => newest \in early
  /\ main = "choose" => newest # None
  /\ main \in {"begin", "started", "attach", "choose"} => chosen = None
  /\ main = "listen" => chosen # None
  /\ chosen # None => chosen \in early

Passed(c) == c \in accepted \/ (listener = "put" /\ incoming = c)

\* One listener from the accept loop, one more from MainThread.
Counted ==
  \A c \in Connections :
    heard[c] = (IF Passed(c) THEN 1 ELSE 0) + (IF main = "up" /\ chosen = c THEN 1 ELSE 0)

Waiters == {t \in Threads : pc[t] \in {"retry", "wait", "woken"}}

PoolInv ==
  /\ TypeOK /\ Busy /\ Carried /\ Unset /\ Known /\ Chosen /\ Counted
  /\ WaitersCounted

LEMMA WaitersFinite == IsFiniteSet(Waiters) /\ IsFiniteSet(Waiters')
  BY FS_Subset DEF Waiters

LEMMA InitPool == Init => PoolInv
<1> SUFFICES ASSUME Init PROVE PoolInv
  OBVIOUS
<1>1. TypeOK
  <2>1. heard \in [Connections -> 0..2]
    BY DEF Init
  <2>2. /\ pc \in [Threads -> {"take", "lock", "retry", "wait", "woken", "serve"}]
        /\ task \in [Threads -> Connections \cup {None}]
    BY DEF Init
  <2>3. queue \in Seq(Connections)
    BY DEF Init
  <2>4. QED
    BY <2>1, <2>2, <2>3 DEF Init, TypeOK
<1>2. Busy /\ Carried /\ Unset /\ Known /\ Chosen
  BY DEF Init, Busy, Carried, Unset, Known, Chosen
<1>3. Counted
  BY DEF Init, Counted, Passed
<1>4. WaitersCounted
  <2>1. {t \in Threads : pc[t] \in {"retry", "wait", "woken"}} = {}
    BY DEF Init
  <2>2. QED
    BY <2>1, FS_EmptySet DEF Init, WaitersCounted
<1>5. QED
  BY <1>1, <1>2, <1>3, <1>4 DEF PoolInv

-----------------------------------------------------------------------------
(* What each process leaves alone. *)

LEMMA StartupKeeps ==
  ASSUME PoolInv, Startup
  PROVE  PoolInv'
<1> USE DEF PoolInv
<1>1. UNCHANGED <<queue, task, pc, waiting, accepted, incoming, newest, opened, early, lock>>
  BY DEF Startup, StartThread, SetListening, TestHandler, ChooseHandler, ListenAgain
<1>2. Busy' /\ Known' /\ WaitersCounted'
  BY <1>1 DEF Busy, Known, WaitersCounted
<1>3. CASE StartThread
  BY <1>2, <1>3 DEF StartThread, TypeOK, Carried, Unset, Chosen, Counted, Passed
<1>4. CASE SetListening
  BY <1>2, <1>4 DEF SetListening, TypeOK, Carried, Unset, Chosen, Counted, Passed
<1>5. CASE TestHandler
  BY <1>2, <1>5 DEF TestHandler, TypeOK, Carried, Unset, Chosen, Counted, Passed
<1>6. CASE ChooseHandler
  BY <1>2, <1>6 DEF ChooseHandler, TypeOK, Carried, Unset, Chosen, Counted, Passed
<1>7. CASE ListenAgain
  <2>1. chosen \in Connections
    BY <1>7 DEF ListenAgain, TypeOK, Chosen
  <2>2. heard[chosen] \in 0..1
    BY <1>7, <2>1 DEF ListenAgain, Counted
  <2>3. TypeOK'
    BY <1>7, <2>1, <2>2 DEF ListenAgain, TypeOK
  <2>4. Counted'
    BY <1>7, <2>1 DEF ListenAgain, TypeOK, Counted, Passed
  <2>5. Carried' /\ Unset' /\ Chosen'
    BY <1>7 DEF ListenAgain, Carried, Unset, Chosen
  <2>6. QED
    BY <1>2, <2>3, <2>4, <2>5
<1>8. QED
  BY <1>3, <1>4, <1>5, <1>6, <1>7 DEF Startup

LEMMA AcceptKeeps ==
  ASSUME PoolInv, NEW c \in Connections, Accept(c)
  PROVE  PoolInv'
<1> USE DEF PoolInv
<1>1. Busy' /\ Known' /\ WaitersCounted' /\ Chosen'
  BY DEF Accept, Busy, Known, WaitersCounted, Chosen
<1>2. TypeOK' /\ Carried' /\ Unset'
  BY DEF Accept, TypeOK, Carried, Unset
<1>3. Counted'
  BY DEF Accept, Counted, Passed
<1>4. QED
  BY <1>1, <1>2, <1>3

LEMMA AcceptFailsKeeps ==
  ASSUME PoolInv, AcceptFails
  PROVE  PoolInv'
<1> USE DEF PoolInv
<1>1. Busy' /\ Known' /\ WaitersCounted' /\ Chosen'
  BY DEF AcceptFails, Busy, Known, WaitersCounted, Chosen
<1>2. TypeOK' /\ Carried' /\ Unset'
  BY DEF AcceptFails, TypeOK, Carried, Unset
<1>3. Counted'
  BY DEF AcceptFails, Counted, Passed
<1>4. QED
  BY <1>1, <1>2, <1>3

LEMMA ListenKeeps ==
  ASSUME PoolInv, Listen
  PROVE  PoolInv'
<1> USE DEF PoolInv
<1>1. CASE MakeHandler
  <2>1. Busy' /\ Known' /\ WaitersCounted'
    BY <1>1 DEF MakeHandler, Busy, Known, WaitersCounted
  <2>2. TypeOK' /\ Carried' /\ Unset' /\ Chosen'
    BY <1>1 DEF MakeHandler, TypeOK, Carried, Unset, Chosen
  <2>3. Counted'
    BY <1>1 DEF MakeHandler, Counted, Passed
  <2>4. QED
    BY <2>1, <2>2, <2>3
<1>2. CASE Hear
  <2>1. Busy' /\ Known' /\ WaitersCounted' /\ Chosen'
    BY <1>2 DEF Hear, Busy, Known, WaitersCounted, Chosen
  <2>2. incoming \in Connections /\ heard[incoming] \in 0..1 /\ ~Passed(incoming)
    BY <1>2 DEF Hear, Carried, Counted, Passed
  <2>3. TypeOK' /\ Carried' /\ Unset'
    BY <1>2, <2>2 DEF Hear, TypeOK, Carried, Unset
  <2>4. Counted'
    BY <1>2, <2>2 DEF Hear, TypeOK, Counted, Passed
  <2>5. QED
    BY <2>1, <2>3, <2>4
<1>3. CASE Link
  <2>1. incoming \in Connections /\ incoming \in opened
    BY <1>3 DEF Link, Carried
  <2>2. queue' = Append(queue, incoming) /\ queue \in Seq(Connections)
    BY <1>3 DEF Link, TypeOK
  <2>3. \A i \in 1..Len(queue') : queue'[i] \in accepted'
    BY <1>3, <2>1, <2>2 DEF Link, Known
  <2>4. Busy' /\ Known' /\ WaitersCounted' /\ Chosen'
    BY <1>3, <2>3 DEF Link, Busy, Known, WaitersCounted, Chosen
  <2>5. TypeOK' /\ Carried' /\ Unset'
    BY <1>3, <2>1, <2>2 DEF Link, TypeOK, Carried, Unset
  <2>6. Counted'
    BY <1>3 DEF Link, Counted, Passed
  <2>7. QED
    BY <2>4, <2>5, <2>6
<1>4. CASE Notify
  <2>1. \/ UNCHANGED pc
        \/ \E t \in Threads : pc[t] = "wait" /\ pc' = [pc EXCEPT ![t] = "woken"]
    BY <1>4 DEF Notify
  <2>2. /\ pc' \in [Threads -> {"take", "lock", "retry", "wait", "woken", "serve"}]
        /\ \A t \in Threads : /\ pc'[t] = "serve" <=> pc[t] = "serve"
                              /\ pc'[t] \in {"retry", "wait", "woken"}
                                   <=> pc[t] \in {"retry", "wait", "woken"}
    BY <2>1 DEF TypeOK
  <2>3. Busy' /\ Known' /\ Chosen'
    BY <1>4, <2>2 DEF Notify, Busy, Known, Chosen
  <2>4. {t \in Threads : pc'[t] \in {"retry", "wait", "woken"}}
          = {t \in Threads : pc[t] \in {"retry", "wait", "woken"}}
    BY <2>2
  <2>5. WaitersCounted'
    BY <1>4, <2>4 DEF Notify, WaitersCounted
  <2>6. TypeOK' /\ Carried' /\ Unset'
    BY <1>4, <2>2 DEF Notify, TypeOK, Carried, Unset
  <2>7. Counted'
    BY <1>4 DEF Notify, Counted, Passed
  <2>8. QED
    BY <2>3, <2>5, <2>6, <2>7
<1>5. CASE Loop
  <2>1. Busy' /\ Known' /\ WaitersCounted' /\ Chosen'
    BY <1>5 DEF Loop, Busy, Known, WaitersCounted, Chosen
  <2>2. TypeOK' /\ Carried' /\ Unset'
    BY <1>5 DEF Loop, TypeOK, Carried, Unset
  <2>3. Counted'
    BY <1>5 DEF Loop, Counted, Passed
  <2>4. QED
    BY <2>1, <2>2, <2>3
<1>6. QED
  BY <1>1, <1>2, <1>3, <1>4, <1>5 DEF Listen

-----------------------------------------------------------------------------
\* The pool threads touch nothing of the startup and the accept loop.
LEMMA PortStays ==
  ASSUME PoolInv, UNCHANGED port
  PROVE  Carried' /\ Unset' /\ Chosen' /\ Counted'
  BY DEF PoolInv, port, Carried, Unset, Chosen, Counted, Passed

\* Taking the first task keeps the queue and the tasks in order.
LEMMA ExtractedKeeps ==
  ASSUME PoolInv, NEW t \in Threads, Extracted(t), UNCHANGED accepted
  PROVE  /\ queue' \in Seq(Connections)
         /\ task' \in [Threads -> Connections \cup {None}]
         /\ task'[t] # None
         /\ Known'
<1> USE DEF PoolInv
<1>1. queue \in Seq(Connections) /\ queue # <<>> /\ queue' = Tail(queue)
  BY DEF Extracted, TypeOK
<1>2. Head(queue) \in Connections /\ Head(queue) = queue[1] /\ 1 \in 1..Len(queue)
  BY <1>1
<1>3. /\ queue' \in Seq(Connections)
      /\ \A i \in 1..Len(queue') : i + 1 \in 1..Len(queue) /\ queue'[i] = queue[i + 1]
  BY <1>1
<1>4. task' = [task EXCEPT ![t] = Head(queue)]
  BY DEF Extracted
<1>5. task' \in [Threads -> Connections \cup {None}] /\ task'[t] # None
  BY <1>2, <1>4 DEF TypeOK
<1>6. Known'
  <2>1. \A i \in 1..Len(queue') : queue'[i] \in accepted'
    BY <1>3 DEF Known
  <2>2. Head(queue) \in accepted
    BY <1>2 DEF Known
  <2>3. \A s \in Threads : task'[s] # None => task'[s] \in accepted'
    BY <1>4, <2>2 DEF Known, TypeOK
  <2>4. QED
    BY <2>1, <2>3 DEF Known
<1>7. QED
  BY <1>3, <1>5, <1>6

\* The set of waiters after one thread has moved.
LEMMA WaitersMove ==
  ASSUME TypeOK, WaitersCounted, NEW t \in Threads,
         NEW l \in {"take", "lock", "retry", "wait", "woken", "serve"},
         pc' = [pc EXCEPT ![t] = l],
         waiting' = IF t \in Waiters /\ t \notin Waiters' THEN waiting - 1
                    ELSE IF t \notin Waiters /\ t \in Waiters' THEN waiting + 1
                    ELSE waiting
  PROVE  WaitersCounted' /\ waiting' \in Nat
<1>1. waiting = Cardinality(Waiters) /\ IsFiniteSet(Waiters)
  BY WaitersFinite DEF WaitersCounted, Waiters
<1>2. CASE t \in Waiters /\ t \notin Waiters'
  <2>1. Waiters' = Waiters \ {t}
    BY <1>2 DEF Waiters, TypeOK
  <2>2. Cardinality(Waiters') = Cardinality(Waiters) - 1
    BY <1>1, <1>2, <2>1, FS_RemoveElement
  <2>3. QED
    BY <1>1, <1>2, <2>2, WaitersFinite, FS_CardinalityType DEF WaitersCounted, Waiters
<1>3. CASE t \notin Waiters /\ t \in Waiters'
  <2>1. Waiters' = Waiters \cup {t}
    BY <1>3 DEF Waiters, TypeOK
  <2>2. Cardinality(Waiters') = Cardinality(Waiters) + 1
    BY <1>1, <1>3, <2>1, FS_AddElement
  <2>3. QED
    BY <1>1, <1>3, <2>2, WaitersFinite, FS_CardinalityType DEF WaitersCounted, Waiters
<1>4. CASE t \in Waiters <=> t \in Waiters'
  <2>1. Waiters' = Waiters
    BY <1>4 DEF Waiters, TypeOK
  <2>2. QED
    BY <1>1, <1>4, <2>1, FS_CardinalityType DEF WaitersCounted, Waiters
<1>5. QED
  BY <1>2, <1>3, <1>4

LEMMA ThreadKeeps ==
  ASSUME PoolInv, NEW t \in Threads, Take(t) \/ Spurious(t) \/ Leave(t)
  PROVE  PoolInv'
<1> USE DEF PoolInv
<1>0. UNCHANGED port
  BY DEF Take, FirstTry, LockPut, Retry, Relock, Spurious, Leave
<1>1. Carried' /\ Unset' /\ Chosen' /\ Counted'
  BY <1>0, PortStays
<1>2. UNCHANGED <<main, listening, listener, incoming, newest, chosen, heard, opened,
                  accepted, early>>
  BY <1>0 DEF port
<1>3. CASE Leave(t)
  <2>1. Known' /\ Busy'
    BY <1>2, <1>3 DEF Leave, Known, Busy, TypeOK
  <2>2. WaitersCounted'
    BY <1>3, WaitersMove DEF Leave, Waiters, TypeOK
  <2>3. TypeOK'
    BY <1>2, <1>3 DEF Leave, TypeOK
  <2>4. QED
    BY <1>1, <2>1, <2>2, <2>3
<1>4. CASE Spurious(t)
  <2>1. Known' /\ Busy'
    BY <1>2, <1>4 DEF Spurious, Known, Busy, TypeOK
  <2>2. WaitersCounted'
    BY <1>4, WaitersMove DEF Spurious, Waiters, TypeOK
  <2>3. TypeOK'
    BY <1>2, <1>4 DEF Spurious, TypeOK
  <2>4. QED
    BY <1>1, <2>1, <2>2, <2>3
<1>5. CASE Relock(t)
  <2>1. Known' /\ Busy'
    BY <1>2, <1>5 DEF Relock, Known, Busy, TypeOK
  <2>2. WaitersCounted'
    BY <1>5, WaitersMove DEF Relock, Waiters, TypeOK
  <2>3. TypeOK'
    BY <1>2, <1>5 DEF Relock, TypeOK
  <2>4. QED
    BY <1>1, <2>1, <2>2, <2>3
<1>6. CASE LockPut(t)
  <2>1. Known' /\ Busy'
    BY <1>2, <1>6 DEF LockPut, Known, Busy, TypeOK
  <2>2. WaitersCounted' /\ waiting' \in Nat
    BY <1>6, WaitersMove DEF LockPut, Waiters, TypeOK
  <2>3. TypeOK'
    BY <1>2, <1>6, <2>2 DEF LockPut, TypeOK
  <2>4. QED
    BY <1>1, <2>1, <2>2, <2>3
<1>7. CASE FirstTry(t)
  <2>1. CASE Extracted(t) /\ pc' = [pc EXCEPT ![t] = "serve"]
    <3>1. /\ queue' \in Seq(Connections)
          /\ task' \in [Threads -> Connections \cup {None}]
          /\ task'[t] # None
          /\ Known'
      BY <1>2, <2>1, ExtractedKeeps
    <3>2. Busy'
      BY <2>1, <3>1 DEF Busy, Extracted, TypeOK
    <3>3. WaitersCounted'
      BY <1>7, <2>1, WaitersMove DEF FirstTry, Waiters, TypeOK
    <3>4. TypeOK'
      BY <1>2, <1>7, <2>1, <3>1 DEF FirstTry, TypeOK
    <3>5. QED
      BY <1>1, <3>1, <3>2, <3>3, <3>4
  <2>2. CASE pc' = [pc EXCEPT ![t] = "lock"] /\ UNCHANGED <<queue, task>>
    <3>1. Known' /\ Busy'
      BY <1>2, <1>7, <2>2 DEF FirstTry, Known, Busy, TypeOK
    <3>2. WaitersCounted'
      BY <1>7, <2>2, WaitersMove DEF FirstTry, Waiters, TypeOK
    <3>3. TypeOK'
      BY <1>2, <1>7, <2>2 DEF FirstTry, TypeOK
    <3>4. QED
      BY <1>1, <3>1, <3>2, <3>3
  <2>3. QED
    BY <1>7, <2>1, <2>2 DEF FirstTry
<1>8. CASE Retry(t)
  <2>1. CASE Extracted(t) /\ waiting' = waiting - 1 /\ pc' = [pc EXCEPT ![t] = "serve"]
    <3>1. /\ queue' \in Seq(Connections)
          /\ task' \in [Threads -> Connections \cup {None}]
          /\ task'[t] # None
          /\ Known'
      BY <1>2, <2>1, ExtractedKeeps
    <3>2. Busy'
      BY <2>1, <3>1 DEF Busy, Extracted, TypeOK
    <3>3. WaitersCounted' /\ waiting' \in Nat
      BY <1>8, <2>1, WaitersMove DEF Retry, Waiters, TypeOK
    <3>4. TypeOK'
      BY <1>2, <1>8, <2>1, <3>1, <3>3 DEF Retry, TypeOK
    <3>5. QED
      BY <1>1, <3>1, <3>2, <3>3, <3>4
  <2>2. CASE pc' = [pc EXCEPT ![t] = "wait"] /\ UNCHANGED <<queue, task, waiting>>
    <3>1. Known' /\ Busy'
      BY <1>2, <1>8, <2>2 DEF Retry, Known, Busy, TypeOK
    <3>2. WaitersCounted'
      BY <1>8, <2>2, WaitersMove DEF Retry, Waiters, TypeOK
    <3>3. TypeOK'
      BY <1>2, <1>8, <2>2 DEF Retry, TypeOK
    <3>4. QED
      BY <1>1, <3>1, <3>2, <3>3
  <2>3. QED
    BY <1>8, <2>1, <2>2 DEF Retry
<1>9. QED
  BY <1>3, <1>4, <1>5, <1>6, <1>7, <1>8 DEF Take

LEMMA NextPool == PoolInv /\ [Next]_vars => PoolInv'
<1> SUFFICES ASSUME PoolInv, [Next]_vars PROVE PoolInv'
  OBVIOUS
<1>1. CASE UNCHANGED vars
  BY <1>1 DEF vars, PoolInv, TypeOK, Busy, Carried, Unset, Known, Chosen, Counted, Passed,
              WaitersCounted
<1>2. CASE Next
  BY <1>2, StartupKeeps, AcceptKeeps, AcceptFailsKeeps, ListenKeeps, ThreadKeeps DEF Next
<1>3. QED
  BY <1>1, <1>2

LEMMA PoolInvariant == Spec => []PoolInv
  BY InitPool, NextPool, PTL DEF Spec

-----------------------------------------------------------------------------
(***************************************************************************)
(* m_WaitingForTake is the number of threads between their second try and  *)
(* their task: LinkedQueue.insert never skips a notify it owes.            *)
(***************************************************************************)
THEOREM WaitersExact == Spec => []WaitersCounted
<1>1. PoolInv => WaitersCounted
  BY DEF PoolInv
<1>2. QED
  BY <1>1, PoolInvariant, PTL

(***************************************************************************)
(* ModbusTCPListener gives every connection its listener before a thread   *)
(* serves it, and MainThread adds a second one only to a handler made      *)
(* during the startup.                                                     *)
(***************************************************************************)
THEOREM EveryConnectionHeard == Spec => []HeardOnce
<1>1. PoolInv => HeardOnce
  <2> SUFFICES ASSUME PoolInv, NEW t \in Threads, task[t] # None
               PROVE  heard[task[t]] = 1 \/ (heard[task[t]] = 2 /\ task[t] \in early)
    BY DEF HeardOnce
  <2>1. task[t] \in Connections /\ Passed(task[t])
    BY DEF PoolInv, TypeOK, Known, Passed
  <2>2. QED
    BY <2>1 DEF PoolInv, Counted, Chosen
<1>2. QED
  BY <1>1, PoolInvariant, PTL

(***************************************************************************)
(* The listening flag never ends the accept loop once a client has been    *)
(* accepted: what else ends it is an exception of the socket, which may    *)
(* come at any time (AcceptFails) and is not counted as this end.          *)
(***************************************************************************)
THEOREM ListenerDiesUnborn == Spec => []DiesUnborn
<1>1. PoolInv => DiesUnborn
  BY DEF PoolInv, Unset, DiesUnborn
<1>2. QED
  BY <1>1, PoolInvariant, PTL

-----------------------------------------------------------------------------
(* Every step of the pool is a step of the service, or none. *)

LEMMA ExtractedServes ==
  ASSUME NEW t \in Threads, Extracted(t), task[t] = None, UNCHANGED accepted
  PROVE  Service!Serve(t)
  BY DEF Extracted, Service!Serve

LEMMA StepServes == PoolInv /\ [Next]_vars => [Service!Next]_(Service!vars)
<1> SUFFICES ASSUME PoolInv, [Next]_vars
             PROVE  Service!Next \/ UNCHANGED <<queue, task, accepted>>
  BY DEF Service!vars
<1>1. CASE UNCHANGED vars \/ Startup \/ AcceptFails \/ \E c \in Connections : Accept(c)
  BY <1>1 DEF vars, Startup, StartThread, SetListening, TestHandler, ChooseHandler,
              ListenAgain, Accept, AcceptFails
<1>2. CASE MakeHandler \/ Hear \/ Notify \/ Loop
  BY <1>2 DEF MakeHandler, Hear, Notify, Loop
<1>3. CASE Link
  <2>1. incoming \in Connections /\ incoming \notin accepted
    BY <1>3 DEF Link, PoolInv, Carried
  <2>2. Service!Accept(incoming)
    BY <1>3, <2>1 DEF Link, Service!Accept
  <2>3. QED
    BY <2>1, <2>2 DEF Service!Next
<1>4. ASSUME NEW t \in Threads, FirstTry(t) \/ Retry(t)
      PROVE  Service!Next \/ UNCHANGED <<queue, task, accepted>>
  <2>1. UNCHANGED accepted /\ (Extracted(t) \/ UNCHANGED <<queue, task>>)
    BY <1>4 DEF FirstTry, Retry, port
  <2>2. task[t] = None
    BY <1>4 DEF FirstTry, Retry, PoolInv, Busy
  <2>3. QED
    BY <2>1, <2>2, ExtractedServes DEF Service!Next
<1>5. ASSUME NEW t \in Threads, Leave(t)
      PROVE  Service!Next
  <2>1. task[t] # None
    BY <1>5 DEF Leave, PoolInv, Busy
  <2>2. Service!Leave(t)
    BY <1>5, <2>1 DEF Leave, port, Service!Leave
  <2>3. QED
    BY <2>2 DEF Service!Next
<1>6. ASSUME NEW t \in Threads, LockPut(t) \/ Relock(t) \/ Spurious(t)
      PROVE  UNCHANGED <<queue, task, accepted>>
  BY <1>6 DEF LockPut, Relock, Spurious, port
<1>7. QED
  BY <1>1, <1>2, <1>3, <1>4, <1>5, <1>6 DEF Next, Listen, Take

(***************************************************************************)
(* LinkedQueue and ThreadPool implement the service: connections are       *)
(* served in the order they were accepted, each by one thread.             *)
(***************************************************************************)
THEOREM PoolServesInOrder == Spec => ServesInOrder
<1>1. Init => Service!Init
  BY DEF Init, Service!Init
<1>2. QED
  BY <1>1, StepServes, PoolInvariant, PTL DEF Spec, ServesInOrder, Service!Safety
=============================================================================
