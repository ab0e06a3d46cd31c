------------------------- MODULE ConnectionService --------------------------
(***************************************************************************)
(* What the modbus port promises its clients: connections are served in    *)
(* the order in which they were accepted, each by one thread of its own    *)
(* until it leaves, and none waits while a thread is idle.  At most as     *)
(* many clients as there are threads are served at once.                   *)
(***************************************************************************)
EXTENDS Sequences

CONSTANTS Connections, Threads, None

VARIABLES
  line,      \* accepted connections nobody serves yet
  serving,   \* thread -> its connection, or None
  accepted   \* every connection accepted so far

vars == <<line, serving, accepted>>

Init ==
  /\ line = <<>>
  /\ serving = [t \in Threads |-> None]
  /\ accepted = {}

Accept(c) ==
  /\ c \notin accepted
  /\ accepted' = accepted \cup {c}
  /\ line' = Append(line, c)
  /\ UNCHANGED serving

Serve(t) ==
  /\ serving[t] = None
  /\ line # <<>>
  /\ serving' = [serving EXCEPT ![t] = Head(line)]
  /\ line' = Tail(line)
  /\ UNCHANGED accepted

Leave(t) ==
  /\ serving[t] # None
  /\ serving' = [serving EXCEPT ![t] = None]
  /\ UNCHANGED <<line, accepted>>

Next ==
  \/ \E c \in Connections : Accept(c)
  \/ \E t \in Threads : Serve(t) \/ Leave(t)

Safety == Init /\ [][Next]_vars

NoneForgotten == WF_vars(\E t \in Threads : Serve(t))

Spec == Safety /\ NoneForgotten
=============================================================================
