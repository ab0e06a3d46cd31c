--------------------------- MODULE ConnectionPool ---------------------------
(***************************************************************************)
(* The modbus port: MainServer's startup, ModbusTCPListener, its           *)
(* ThreadPool and the LinkedQueue between them.  A pool thread serves one  *)
(* connection for as long as it lasts and then takes the next one.         *)
(*                                                                         *)
(* The queue has two locks.  Putting links the connection and notifies     *)
(* under the put lock; taking tries without that lock first and only then  *)
(* goes to wait under it.  Linking and extracting are atomic: they lock    *)
(* the node they change, which is the same one when the queue is empty.    *)
(***************************************************************************)
EXTENDS Integers, Sequences, FiniteSets

CONSTANTS
  Connections,   \* sockets clients open, each once
  Threads,       \* the pool
  None           \* model value

ASSUME PoolAssumption ==
  /\ IsFiniteSet(Threads)
  /\ None \notin Connections
  /\ "listener" \notin Threads /\ None \notin Threads /\ None # "listener"

VARIABLES
  main,          \* MainThread: "begin", "started", "attach", "up"
  listening,     \* m_Listening
  listener,      \* the accept loop: what it does next
  incoming,      \* the socket it has accepted
  newest,        \* connectionHandler, the last handler made
  chosen,        \* the handler MainThread is about to listen to again
  heard,         \* connection -> how many listeners its events reach
  queue,         \* the tasks in LinkedQueue
  lock,          \* owner of m_PutLock
  waiting,       \* m_WaitingForTake
  pc,            \* thread -> what it does next
  task,          \* thread -> the connection it serves
  opened,        \* sockets used up (history)
  accepted,      \* sockets handed to the pool (history)
  early          \* handlers made before MainThread was up (history)

vars == <<main, listening, listener, incoming, newest, chosen, heard, queue, lock,
          waiting, pc, task, opened, accepted, early>>

port  == <<main, listening, listener, incoming, newest, chosen, heard, opened,
           accepted, early>>

Init ==
  /\ main = "begin"
  /\ listening = FALSE
  /\ listener = "none"
  /\ incoming = None
  /\ newest = None
  /\ chosen = None
  /\ heard = [c \in Connections |-> 0]
  /\ queue = <<>>
  /\ lock = None
  /\ waiting = 0
  /\ pc = [t \in Threads |-> "take"]
  /\ task = [t \in Threads |-> None]
  /\ opened = {}
  /\ accepted = {}
  /\ early = {}

-----------------------------------------------------------------------------
(***************************************************************************)
(* MainThread: listener.start() starts the thread and only then sets the   *)
(* flag that thread reads; at the end of the startup the handler of a      *)
(* client already connected gets the listener a second time.               *)
(***************************************************************************)
StartThread ==
  /\ main = "begin"
  /\ main' = "started"
  /\ listener' = "accept"
  /\ UNCHANGED <<listening, incoming, newest, chosen, heard, queue, lock, waiting, pc,
                 task, opened, accepted, early>>

SetListening ==
  /\ main = "started"
  /\ main' = "attach"
  /\ listening' = TRUE
  /\ UNCHANGED <<listener, incoming, newest, chosen, heard, queue, lock, waiting, pc,
                 task, opened, accepted, early>>

\* The test for null and the call read connectionHandler separately.
TestHandler ==
  /\ main = "attach"
  /\ main' = IF newest = None THEN "up" ELSE "choose"
  /\ UNCHANGED <<listening, listener, incoming, newest, chosen, heard, queue, lock,
                 waiting, pc, task, opened, accepted, early>>

ChooseHandler ==
  /\ main = "choose"
  /\ main' = "listen"
  /\ chosen' = newest
  /\ UNCHANGED <<listening, listener, incoming, newest, heard, queue, lock, waiting, pc,
                 task, opened, accepted, early>>

ListenAgain ==
  /\ main = "listen"
  /\ main' = "up"
  /\ heard' = [heard EXCEPT ![chosen] = @ + 1]
  /\ UNCHANGED <<listening, listener, incoming, newest, chosen, queue, lock, waiting, pc,
                 task, opened, accepted, early>>

Startup == StartThread \/ SetListening \/ TestHandler \/ ChooseHandler \/ ListenAgain

-----------------------------------------------------------------------------
(* ModbusTCPListener.run *)

\* Mutant of Accept: the flag is only looked at between connections.
UncheckedAccept(c) ==
  /\ listener = "accept"
  /\ c \notin opened
  /\ opened' = opened \cup {c}
  /\ incoming' = c
  /\ listener' = "make"
  /\ UNCHANGED <<main, listening, newest, chosen, heard, queue, lock, waiting, pc, task,
                 accepted, early>>

\* Before the flag is set the socket is closed at once, which may fail too.
Accept(c) ==
  /\ listener = "accept"
  /\ c \notin opened
  /\ opened' = opened \cup {c}
  /\ incoming' = c
  /\ listener' \in IF listening THEN {"make"} ELSE {"loop", "failed"}
  /\ UNCHANGED <<main, listening, newest, chosen, heard, queue, lock, waiting, pc, task,
                 accepted, early>>

\* The catch clauses around the loop: a SocketException or IOException of the server
\* socket, or a socket too broken to make a connection of, ends the thread, whatever it
\* has accepted before.  The pool threads go on.
AcceptFails ==
  /\ listener \in {"accept", "make"}
  /\ listener' = "failed"
  /\ UNCHANGED <<main, listening, incoming, newest, chosen, heard, queue, lock, waiting, pc,
                 task, opened, accepted, early>>

MakeHandler ==
  /\ listener = "make"
  /\ newest' = incoming
  /\ early' = IF main # "up" THEN early \cup {incoming} ELSE early
  /\ listener' = "hear"
  /\ UNCHANGED <<main, listening, incoming, chosen, heard, queue, lock, waiting, pc, task,
                 opened, accepted>>

\* Mutant of Hear: the handler is passed on before anybody listens to it.
DeafHear ==
  /\ listener = "hear"
  /\ listener' = "put"
  /\ UNCHANGED <<main, listening, incoming, newest, chosen, heard, queue, lock, waiting,
                 pc, task, opened, accepted, early>>

Hear ==
  /\ listener = "hear"
  /\ heard' = [heard EXCEPT ![incoming] = @ + 1]
  /\ listener' = "put"
  /\ UNCHANGED <<main, listening, incoming, newest, chosen, queue, lock, waiting, pc, task,
                 opened, accepted, early>>

\* LinkedQueue.insert, under the put lock
Link ==
  /\ listener = "put"
  /\ lock = None
  /\ lock' = "listener"
  /\ queue' = Append(queue, incoming)
  /\ accepted' = accepted \cup {incoming}
  /\ listener' = "notify"
  /\ UNCHANGED <<main, listening, incoming, newest, chosen, heard, waiting, pc, task,
                 opened, early>>

\* Mutant of Notify: nobody is notified.
SilentNotify ==
  /\ listener = "notify"
  /\ lock' = None
  /\ listener' = "loop"
  /\ UNCHANGED <<main, listening, incoming, newest, chosen, heard, queue, waiting, task,
                 opened, accepted, early, pc>>

Notify ==
  /\ listener = "notify"
  /\ IF waiting > 0 /\ \E t \in Threads : pc[t] = "wait"
     THEN \E t \in Threads : pc[t] = "wait" /\ pc' = [pc EXCEPT ![t] = "woken"]
     ELSE UNCHANGED pc
  /\ lock' = None
  /\ listener' = "loop"
  /\ UNCHANGED <<main, listening, incoming, newest, chosen, heard, queue, waiting, task,
                 opened, accepted, early>>

\* while (m_Listening)
Loop ==
  /\ listener = "loop"
  /\ listener' = IF listening THEN "accept" ELSE "dead"
  /\ incoming' = None
  /\ UNCHANGED <<main, listening, newest, chosen, heard, queue, lock, waiting, pc, task,
                 opened, accepted, early>>

Listen == MakeHandler \/ Hear \/ Link \/ Notify \/ Loop

-----------------------------------------------------------------------------
(* LinkedQueue.take by a pool thread *)
\* Mutant of Extracted: the newest connection is taken.
LastExtracted(t) ==
  /\ queue # <<>>
  /\ queue' = SubSeq(queue, 1, Len(queue) - 1)
  /\ task' = [task EXCEPT ![t] = queue[Len(queue)]]

Extracted(t) ==
  /\ queue # <<>>
  /\ queue' = Tail(queue)
  /\ task' = [task EXCEPT ![t] = Head(queue)]

FirstTry(t) ==
  /\ pc[t] = "take"
  /\ \/ Extracted(t) /\ pc' = [pc EXCEPT ![t] = "serve"]
     \/ queue = <<>> /\ pc' = [pc EXCEPT ![t] = "lock"] /\ UNCHANGED <<queue, task>>
  /\ UNCHANGED <<port, lock, waiting>>

LockPut(t) ==
  /\ pc[t] = "lock"
  /\ lock = None
  /\ lock' = t
  /\ waiting' = waiting + 1
  /\ pc' = [pc EXCEPT ![t] = "retry"]
  /\ UNCHANGED <<port, queue, task>>

\* Mutant of Retry: a thread that gets its task is still counted as waiting.
LeakyRetry(t) ==
  /\ pc[t] = "retry"
  /\ \/ Extracted(t) /\ pc' = [pc EXCEPT ![t] = "serve"]
     \/ queue = <<>> /\ pc' = [pc EXCEPT ![t] = "wait"] /\ UNCHANGED <<queue, task>>
  /\ lock' = None
  /\ UNCHANGED <<port, waiting>>

Retry(t) ==
  /\ pc[t] = "retry"
  /\ \/ /\ Extracted(t)
        /\ waiting' = waiting - 1
        /\ pc' = [pc EXCEPT ![t] = "serve"]
     \/ /\ queue = <<>>
        /\ pc' = [pc EXCEPT ![t] = "wait"]
        /\ UNCHANGED <<queue, task, waiting>>
  /\ lock' = None
  /\ UNCHANGED port

\* Java lets a waiting thread wake without a notify.
Spurious(t) ==
  /\ pc[t] = "wait"
  /\ pc' = [pc EXCEPT ![t] = "woken"]
  /\ UNCHANGED <<port, queue, lock, waiting, task>>

Relock(t) ==
  /\ pc[t] = "woken"
  /\ lock = None
  /\ lock' = t
  /\ pc' = [pc EXCEPT ![t] = "retry"]
  /\ UNCHANGED <<port, queue, waiting, task>>

\* The connection ends, by its client or by an exception in the handler.
Leave(t) ==
  /\ pc[t] = "serve"
  /\ pc' = [pc EXCEPT ![t] = "take"]
  /\ task' = [task EXCEPT ![t] = None]
  /\ UNCHANGED <<port, queue, lock, waiting>>

Take(t) == FirstTry(t) \/ LockPut(t) \/ Retry(t) \/ Relock(t)

Next ==
  \/ Startup
  \/ \E c \in Connections : Accept(c)
  \/ Listen \/ AcceptFails
  \/ \E t \in Threads : Take(t) \/ Spurious(t) \/ Leave(t)

Spec == Init /\ [][Next]_vars

\* The threads run; clients need neither come nor leave, sockets need not fail.
FairSpec ==
  /\ Spec
  /\ WF_vars(Startup)
  /\ WF_vars(Listen)
  /\ \A t \in Threads : WF_vars(Take(t))

-----------------------------------------------------------------------------
TypeOK ==
  /\ main \in {"begin", "started", "attach", "choose", "listen", "up"}
  /\ listening \in BOOLEAN
  /\ listener \in {"none", "accept", "make", "hear", "put", "notify", "loop", "dead",
                  "failed"}
  /\ {incoming, newest, chosen} \subseteq Connections \cup {None}
  /\ heard \in [Connections -> 0..2]
  /\ queue \in Seq(Connections)
  /\ lock \in Threads \cup {"listener", None}
  /\ waiting \in Nat
  /\ pc \in [Threads -> {"take", "lock", "retry", "wait", "woken", "serve"}]
  /\ task \in [Threads -> Connections \cup {None}]
  /\ accepted \subseteq opened /\ early \subseteq opened /\ opened \subseteq Connections

Service == INSTANCE ConnectionService WITH line <- queue, serving <- task

(***************************************************************************)
(* The pool keeps the order of the modbus port and gives each connection   *)
(* one thread, however puts, takes and wakeups interleave.                 *)
(***************************************************************************)
ServesInOrder == Service!Safety

(***************************************************************************)
(* No connection waits for a thread that waits for it: a put that finds    *)
(* the takers between their two tries, or asleep, is not lost on them.     *)
(***************************************************************************)
NoneForgotten == Service!NoneForgotten

(***************************************************************************)
(* m_WaitingForTake, which put consults to decide whether to notify,       *)
(* counts the threads between their second try and their task.             *)
(***************************************************************************)
WaitersCounted ==
  waiting = Cardinality({t \in Threads : pc[t] \in {"retry", "wait", "woken"}})

(***************************************************************************)
(* A connection that is served has somebody listening to its writes, and   *)
(* only one, unless its handler was made while MainThread was starting.    *)
(***************************************************************************)
HeardOnce ==
  \A t \in Threads : LET c == task[t] IN
    c # None => heard[c] = 1 \/ (heard[c] = 2 /\ c \in early)

(***************************************************************************)
(* The flag, which is set only after the thread that tests it was started, *)
(* ends the accept loop for a client that came in between, and for no      *)
(* other: then no client was ever accepted.  (What else ends the loop is   *)
(* an exception, listener = "failed", and that it may do at any time.)     *)
(***************************************************************************)
DiesUnborn == listener = "dead" => accepted = {}
=============================================================================
