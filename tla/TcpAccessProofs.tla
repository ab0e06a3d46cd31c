-------------------------- MODULE TcpAccessProofs --------------------------
(***************************************************************************)
(* Proofs about TcpAccess, for any number of reading and writing threads,  *)
(* retries, values and accesses: a write reaches the device at most once,  *)
(* and a polling round stores only what the device had since it began.     *)
(***************************************************************************)
EXTENDS TcpAccess, SequenceTheorems, TLAPS

-----------------------------------------------------------------------------
(* The types *)

Kinds   == {"whole", "body", "head", "exception"}
Results == Values \cup {Unreachable, Garbage}
Answers == [kind : Kinds, val : Results]

Typed ==
  /\ pc \in [Threads -> {"idle", "connect", "send", "receive", "sleep", "store"}]
  /\ value \in [Threads -> Results]
  /\ sock \in [Threads -> {"none", "open", "gone"}]
  /\ wire \in [Threads -> Nat]
  /\ answers \in [Threads -> Seq(Answers)]
  /\ astray \in [Threads -> BOOLEAN]
  /\ tries \in [Threads -> Nat]
  /\ field \in Results
  /\ image \in Results
  /\ applied \in [Threads -> Nat]
  /\ broken \in [Threads -> BOOLEAN]
  /\ seen \in [Threads -> SUBSET Results]

LEMMA InitTyped == Init => Typed
  BY DEF Init, Typed, Results

\* The thread goes on, or the loop of the transaction ends without an answer.
LEMMA FailsStep ==
  ASSUME Typed, NEW t \in Threads, Fails(t)
  PROVE  /\ pc' \in [Threads -> {"idle", "connect", "send", "receive", "sleep", "store"}]
         /\ value' \in [Threads -> Results]
         /\ \A u \in Threads : u # t => pc'[u] = pc[u] /\ value'[u] = value[u]
         /\ \/ t \in Readers /\ pc'[t] = "store" /\ value'[t] = Unreachable
            \/ t \in Writers /\ pc'[t] = "idle" /\ value'[t] = value[t]
  BY DEF Fails, Goto, Typed, Results, Threads

LEMMA RetryStep ==
  ASSUME Typed, NEW t \in Threads, Retry(t)
  PROVE  /\ pc' \in [Threads -> {"idle", "connect", "send", "receive", "sleep", "store"}]
         /\ value' \in [Threads -> Results]
         /\ tries' \in [Threads -> Nat]
         /\ \A u \in Threads : u # t => pc'[u] = pc[u] /\ value'[u] = value[u]
         /\ \/ pc'[t] = "send" /\ value'[t] = value[t]
            \/ t \in Readers /\ pc'[t] = "store" /\ value'[t] = Unreachable
            \/ t \in Writers /\ pc'[t] = "idle" /\ value'[t] = value[t]
  <1>1. tries' \in [Threads -> Nat]
    BY DEF Retry, Typed
  <1>2. CASE Fails(t)
    BY <1>1, <1>2, FailsStep
  <1>3. CASE Goto(t, "send") /\ UNCHANGED value
    BY <1>1, <1>3 DEF Goto, Typed
  <1>4. QED  BY <1>2, <1>3 DEF Retry

LEMMA TailType ==
  ASSUME NEW s \in Seq(Answers), s # <<>>
  PROVE  Head(s) \in Answers /\ Tail(s) \in Seq(Answers)
  OBVIOUS

LEMMA ThreadTyped ==
  ASSUME Typed, NEW t \in Threads, Begin(t) \/ Step(t)
  PROVE  Typed'
  <1> USE DEF conn, hist, Goto
  <1>1. CASE Begin(t)
    <2>1. \A x \in Values \cup {Unreachable} : x \in Results
      BY DEF Results
    <2>2. value' \in [Threads -> Results]
      BY <1>1, <2>1 DEF Begin, Typed
    <2>3. seen' \in [Threads -> SUBSET Results]
      BY <1>1 DEF Begin, Typed
    <2>4. QED  BY <1>1, <2>2, <2>3 DEF Begin, Typed
  <1>2. CASE Connect(t) \/ Send(t) \/ Finish(t)
    <2>1. CASE Connect(t)
      <3>1. <<>> \in Seq(Answers)
        OBVIOUS
      <3>2. QED  BY <1>2, <2>1, <3>1 DEF Connect, Typed
    <2>2. CASE Send(t)
      BY <2>2 DEF Send, Typed
    <2>3. CASE Finish(t)
      BY <2>3 DEF Finish, Typed
    <2>4. QED  BY <1>2, <2>1, <2>2, <2>3
  <1>3. CASE ConnectFails(t)
    BY <1>3, FailsStep DEF ConnectFails, Typed
  <1>4. CASE SendFails(t)
    <2>1. CASE Retry(t)
      BY <1>4, <2>1, RetryStep DEF SendFails, Typed
    <2>2. CASE ~Retry(t)
      BY <1>4, <2>2 DEF SendFails, Typed
    <2>3. QED  BY <2>1, <2>2
  <1>5. CASE Receive(t)
    <2>1. answers[t] # <<>> /\ answers[t] \in Seq(Answers)
      BY <1>5 DEF Receive, Typed
    <2>2. answers' \in [Threads -> Seq(Answers)]
      BY <1>5, <2>1, TailType DEF Receive, Typed
    <2>3. Head(answers[t]).val \in Results /\ Garbage \in Results
      BY <2>1, TailType DEF Answers, Results
    <2>4. CASE Fails(t)
      BY <1>5, <2>2, <2>4, FailsStep DEF Receive, Typed
    <2>5. ASSUME NEW x \in {Head(answers[t]).val, Garbage},
                 value' = [value EXCEPT ![t] = x], Goto(t, "sleep")
          PROVE  Typed'
      <3>1. value' \in [Threads -> Results]
        BY <2>3, <2>5 DEF Typed
      <3>2. pc' \in [Threads -> {"idle", "connect", "send", "receive", "sleep", "store"}]
        BY <2>5 DEF Typed
      <3>3. QED  BY <1>5, <2>2, <3>1, <3>2 DEF Receive, Typed
    <2>6. QED  BY <1>5, <2>4, <2>5 DEF Receive
  <1>6. CASE ReceiveAstray(t)
    <2>1. answers' \in [Threads -> Seq(Answers)] /\ astray' \in [Threads -> BOOLEAN]
      BY <1>6, TailType DEF ReceiveAstray, Typed
    <2>2. CASE Retry(t)
      BY <1>6, <2>1, <2>2, RetryStep DEF ReceiveAstray, Typed
    <2>3. CASE Fails(t) /\ UNCHANGED tries
      BY <1>6, <2>1, <2>3, FailsStep DEF ReceiveAstray, Typed
    <2>4. CASE value' = [value EXCEPT ![t] = Garbage] /\ Goto(t, "sleep") /\ UNCHANGED tries
      BY <1>6, <2>1, <2>4 DEF ReceiveAstray, Typed, Results
    <2>5. QED  BY <1>6, <2>2, <2>3, <2>4 DEF ReceiveAstray
  <1>7. CASE Refused(t)
    <2>1. answers' \in [Threads -> Seq(Answers)]
      BY <1>7, TailType DEF Refused, Typed
    <2>2. QED  BY <1>7, <2>1, FailsStep DEF Refused, Typed
  <1>8. CASE ReceiveEnd(t)
    BY <1>8, RetryStep DEF ReceiveEnd, Typed
  <1>9. CASE Store(t)
    BY <1>9 DEF Store, Typed
  <1>10. QED
    BY <1>1, <1>2, <1>3, <1>4, <1>5, <1>6, <1>7, <1>8, <1>9 DEF Step

LEMMA DeviceTyped ==
  ASSUME Typed, NEW t \in Threads, Device(t)
  PROVE  Typed'
  <1>1. CASE Serve(t)
    <2>1. field' \in Results
      BY <1>1 DEF Serve, Typed
    <2>2. PICK k \in {"whole", "body", "head"} :
             /\ answers' = [answers EXCEPT ![t] = Append(@, [kind |-> k, val |-> field'])]
             /\ broken' = [broken EXCEPT ![t] = @ \/ k # "whole"]
      BY <1>1 DEF Serve
    <2>3. [kind |-> k, val |-> field'] \in Answers
      BY <2>1 DEF Answers, Kinds
    <2>4. answers' \in [Threads -> Seq(Answers)] /\ broken' \in [Threads -> BOOLEAN]
      BY <2>2, <2>3 DEF Typed
    <2>5. wire' \in [Threads -> Nat] /\ applied' \in [Threads -> Nat]
      BY <1>1 DEF Serve, Typed
    <2>6. seen' \in [Threads -> SUBSET Results]
      BY <1>1, <2>1 DEF Serve, Typed
    <2>7. QED  BY <1>1, <2>1, <2>4, <2>5, <2>6 DEF Serve, Typed
  <1>2. CASE Refuse(t)
    <2>1. [kind |-> "exception", val |-> Unreachable] \in Answers
      BY DEF Answers, Kinds, Results
    <2>2. answers' \in [Threads -> Seq(Answers)] /\ wire' \in [Threads -> Nat]
      BY <1>2, <2>1 DEF Refuse, Typed
    <2>3. QED  BY <1>2, <2>2 DEF Refuse, Typed, hist
  <1>3. CASE Drop(t)
    <2>1. <<>> \in Seq(Answers)
      OBVIOUS
    <2>2. answers' \in [Threads -> Seq(Answers)]
      BY <1>3, <2>1 DEF Drop, Typed
    <2>3. QED  BY <1>3, <2>2 DEF Drop, Typed, hist
  <1>4. QED  BY <1>1, <1>2, <1>3 DEF Device

LEMMA NextTyped == Typed /\ [Next]_vars => Typed'
  <1>1. ASSUME Typed, Next PROVE Typed'
    BY <1>1, ThreadTyped, DeviceTyped DEF Next
  <1>2. ASSUME Typed, UNCHANGED vars PROVE Typed'
    BY <1>2 DEF Typed, vars, conn, hist
  <1>3. QED  BY <1>1, <1>2

-----------------------------------------------------------------------------
(* One thread and its connection.  At most one request or answer is on the *)
(* way, and only while the thread waits for it: so a new connection begins *)
(* with nothing on the way, a second try means that nothing came, and what *)
(* comes answers this access.                                              *)

OneOnTheWay(t) ==
  /\ wire[t] + Len(answers[t]) <= 1
  /\ pc[t] # "receive" => wire[t] = 0 /\ answers[t] = <<>>
  /\ sock[t] = "gone" => wire[t] = 0

\* What is cut, or read out of step, comes of an answer in pieces.
CutIsBroken(t) ==
  /\ astray[t] /\ pc[t] \in {"send", "receive", "sleep"} => broken[t]
  /\ answers[t] # <<>> /\ Head(answers[t]).kind \in {"body", "head"} => broken[t]

\* The answer was given, and what was read was so, since the access began.
ReadSince(t) ==
  ~broken[t] =>
    /\ answers[t] # <<>> /\ Head(answers[t]).kind = "whole" => Head(answers[t]).val \in seen[t]
    /\ pc[t] \in {"sleep", "store"} => value[t] \in seen[t] \cup {Unreachable}

\* A write that is tried over an open connection has not reached the device.
AppliedOnce(t) ==
  ~broken[t] =>
    /\ applied[t] <= 1
    /\ wire[t] > 0 => applied[t] = 0
    /\ pc[t] = "connect" \/ (pc[t] = "send" /\ sock[t] = "open") => applied[t] = 0
    /\ answers[t] # <<>> /\ Head(answers[t]).kind = "whole" => applied[t] = 1
    /\ pc[t] = "sleep" => applied[t] = 1

Sound(t) ==
  /\ OneOnTheWay(t)
  /\ CutIsBroken(t)
  /\ t \in Readers => ReadSince(t)
  /\ t \in Writers => AppliedOnce(t)

AllSound == \A t \in Threads : Sound(t)

LEMMA InitSound == Init => AllSound
  BY DEF Init, AllSound, Sound, OneOnTheWay, CutIsBroken, ReadSince, AppliedOnce

\* What one thread does, or the device for it, only adds to what the others see.
LEMMA OtherThreads ==
  ASSUME Typed, NEW t \in Threads, Begin(t) \/ Step(t) \/ Device(t),
         NEW u \in Threads, u # t
  PROVE  /\ pc'[u] = pc[u] /\ value'[u] = value[u] /\ sock'[u] = sock[u]
         /\ wire'[u] = wire[u] /\ answers'[u] = answers[u] /\ astray'[u] = astray[u]
         /\ applied'[u] = applied[u] /\ broken'[u] = broken[u]
         /\ seen[u] \subseteq seen'[u]
  <1> USE DEF conn, hist, Goto
  <1>1. CASE Begin(t)
    BY <1>1 DEF Begin, Typed
  <1>2. CASE Connect(t) \/ Send(t) \/ Finish(t) \/ Store(t)
    BY <1>2 DEF Connect, Send, Finish, Store, Typed
  <1>3. CASE ConnectFails(t) \/ Refused(t)
    BY <1>3, FailsStep DEF ConnectFails, Refused, Typed
  <1>4. CASE SendFails(t) \/ ReceiveEnd(t)
    BY <1>4, RetryStep DEF SendFails, ReceiveEnd, Typed
  <1>5. CASE Receive(t)
    BY <1>5, FailsStep DEF Receive, Typed
  <1>6. CASE ReceiveAstray(t)
    BY <1>6, FailsStep, RetryStep DEF ReceiveAstray, Typed
  <1>7. CASE Serve(t)
    BY <1>7 DEF Serve, Typed
  <1>8. CASE Refuse(t) \/ Drop(t)
    BY <1>8 DEF Refuse, Drop, Typed
  <1>9. QED
    BY <1>1, <1>2, <1>3, <1>4, <1>5, <1>6, <1>7, <1>8 DEF Step, Device

LEMMA OtherSound ==
  ASSUME Typed, NEW t \in Threads, Begin(t) \/ Step(t) \/ Device(t),
         NEW u \in Threads, u # t, Sound(u)
  PROVE  Sound(u)'
  <1>1. OneOnTheWay(u)' /\ CutIsBroken(u)'
    BY OtherThreads DEF Sound, OneOnTheWay, CutIsBroken
  <1>2. u \in Readers => ReadSince(u)'
    BY OtherThreads DEF Sound, ReadSince
  <1>3. u \in Writers => AppliedOnce(u)'
    BY OtherThreads DEF Sound, AppliedOnce
  <1>4. QED  BY <1>1, <1>2, <1>3 DEF Sound

LEMMA NoneLeft == ASSUME NEW S, NEW s \in Seq(S), Len(s) = 0 PROVE s = <<>>
  OBVIOUS

\* The one answer on the way is consumed.
LEMMA Consumed ==
  ASSUME Typed, NEW t \in Threads, OneOnTheWay(t), answers[t] # <<>>
  PROVE  wire[t] = 0 /\ Tail(answers[t]) = <<>>
  <1>1. answers[t] \in Seq(Answers) /\ wire[t] \in Nat
    BY DEF Typed
  <1>2. wire[t] + Len(answers[t]) <= 1
    BY DEF OneOnTheWay
  <1>3. ASSUME NEW s \in Seq(Answers), NEW n \in Nat, n + Len(s) <= 1, s # <<>>
        PROVE  n = 0 /\ Tail(s) = <<>>
    <2>1. Len(s) \in Nat /\ Len(s) # 0
      BY <1>3, EmptySeq
    <2>2. \A a, b \in Nat : a + b <= 1 /\ b # 0 => a = 0 /\ b = 1
      OBVIOUS
    <2>3. n = 0 /\ Len(s) = 1
      BY <1>3, <2>1, <2>2
    <2>4. Tail(s) \in Seq(Answers) /\ Len(Tail(s)) = 1 - 1
      BY <1>3, <2>3, HeadTailProperties
    <2>5. Tail(s) = <<>>
      <3>1. Len(Tail(s)) = 0
        BY <2>4
      <3>2. QED  BY <2>4, <3>1, NoneLeft
    <2>6. QED  BY <2>3, <2>5
  <1>4. QED  BY <1>1, <1>2, <1>3

LEMMA AppliedType ==
  ASSUME Typed, NEW t \in Writers, Sound(t), ~broken[t]
  PROVE  applied[t] \in {0, 1}
  <1>1. applied[t] \in Nat
    BY DEF Typed, Threads
  <1>2. applied[t] <= 1
    BY DEF Sound, AppliedOnce
  <1>3. QED  BY <1>1, <1>2

\* Nothing is on the way, and the thread is where no answer has come to.
LEMMA QuietSound ==
  ASSUME Typed, NEW t \in Threads,
         wire'[t] = 0, answers'[t] = <<>>,
         astray'[t] /\ pc'[t] \in {"send", "receive", "sleep"} => broken'[t],
         ~broken'[t] =>
           /\ t \in Readers /\ pc'[t] \in {"sleep", "store"} =>
                value'[t] \in seen'[t] \cup {Unreachable}
           /\ t \in Writers =>
                /\ applied'[t] \in {0, 1}
                /\ pc'[t] = "connect" \/ (pc'[t] = "send" /\ sock'[t] = "open") =>
                     applied'[t] = 0
                /\ pc'[t] = "sleep" => applied'[t] = 1
  PROVE  Sound(t)'
  BY DEF Sound, OneOnTheWay, CutIsBroken, ReadSince, AppliedOnce

LEMMA BeginSound ==
  ASSUME Typed, NEW t \in Threads, Sound(t), Begin(t)
  PROVE  Sound(t)'
  <1>1. /\ wire'[t] = 0 /\ answers'[t] = <<>>
        /\ pc'[t] = "connect" /\ applied'[t] = 0
    BY DEF Begin, Goto, conn, Typed, Sound, OneOnTheWay
  <1>2. QED  BY <1>1, QuietSound

LEMMA ConnectSound ==
  ASSUME Typed, NEW t \in Threads, Sound(t), Connect(t) \/ ConnectFails(t)
  PROVE  Sound(t)'
  <1>1. CASE Connect(t)
    <2>1. /\ wire'[t] = 0 /\ answers'[t] = <<>> /\ astray'[t] = FALSE
          /\ pc[t] = "connect" /\ pc'[t] = "send"
          /\ broken'[t] = broken[t] /\ applied'[t] = applied[t]
      BY <1>1 DEF Connect, Goto, hist, Typed
    <2>2. ~broken[t] /\ t \in Writers => applied[t] = 0
      BY <2>1 DEF Sound, AppliedOnce
    <2>3. QED  BY <2>1, <2>2, QuietSound
  <1>2. CASE ConnectFails(t)
    <2>1. /\ pc[t] = "connect" /\ wire'[t] = 0 /\ answers'[t] = <<>>
          /\ UNCHANGED <<broken, applied>>
      BY <1>2 DEF ConnectFails, conn, hist, Sound, OneOnTheWay
    <2>2. /\ pc'[t] \in {"idle", "store"}
          /\ t \in Readers => value'[t] = Unreachable
      BY <1>2, FailsStep, TcpAssumption DEF ConnectFails
    <2>3. ~broken[t] /\ t \in Writers => applied[t] = 0
      BY <2>1 DEF Sound, AppliedOnce
    <2>4. QED  BY <2>1, <2>2, <2>3, QuietSound
  <1>3. QED  BY <1>1, <1>2

LEMMA SendSound ==
  ASSUME Typed, NEW t \in Threads, Sound(t), Send(t)
  PROVE  Sound(t)'
  <1>1. /\ pc[t] = "send" /\ sock[t] = "open" /\ pc'[t] = "receive" /\ wire'[t] = wire[t] + 1
        /\ UNCHANGED <<value, sock, answers, astray, applied, broken, seen>>
    BY DEF Send, Goto, hist, Typed
  <1>2. wire[t] = 0 /\ answers[t] = <<>>
    BY <1>1 DEF Sound, OneOnTheWay
  <1>3. QED
    BY <1>1, <1>2 DEF Sound, OneOnTheWay, CutIsBroken, ReadSince, AppliedOnce

\* After an exception, a thread that tries again does so over the connection that
\* has failed, or has had an answer in pieces.
LEMMA TryAgainSound ==
  ASSUME Typed, NEW t \in Threads, Sound(t),
         wire'[t] = 0, answers'[t] = <<>>, UNCHANGED <<sock, applied, broken, seen>>,
         sock[t] # "open" \/ broken[t], pc[t] \in {"send", "receive"},
         astray'[t] => broken[t],
         Retry(t) \/ Fails(t) \/ (Goto(t, "receive") /\ UNCHANGED value)
  PROVE  Sound(t)'
  <1>1. /\ pc'[t] \in {"send", "receive", "store", "idle"}
        /\ t \in Readers /\ pc'[t] = "store" => value'[t] = Unreachable
    BY FailsStep, RetryStep DEF Goto, Typed
  <1>2. ~broken[t] /\ t \in Writers => applied[t] \in {0, 1}
    BY AppliedType
  <1>3. QED  BY <1>1, <1>2, QuietSound

LEMMA SendFailsSound ==
  ASSUME Typed, NEW t \in Threads, Sound(t), SendFails(t)
  PROVE  Sound(t)'
  <1>1. /\ pc[t] = "send" /\ sock[t] = "gone"
        /\ UNCHANGED <<sock, applied, broken, seen>>
        /\ wire'[t] = 0 /\ answers'[t] = <<>> /\ (astray'[t] => broken[t])
    BY DEF SendFails, conn, hist, Sound, OneOnTheWay, CutIsBroken
  <1>2. Retry(t) \/ (Goto(t, "receive") /\ UNCHANGED value)
    BY DEF SendFails
  <1>3. QED  BY <1>1, <1>2, TryAgainSound

LEMMA ReceiveSound ==
  ASSUME Typed, NEW t \in Threads, Sound(t), Receive(t)
  PROVE  Sound(t)'
  <1> DEFINE a == Head(answers[t])
  <1>1. /\ pc[t] = "receive" /\ answers[t] # <<>> /\ a.kind \in {"whole", "body"} /\ ~astray[t]
        /\ UNCHANGED <<sock, wire, astray, applied, broken, seen>>
        /\ answers'[t] = Tail(answers[t])
    BY DEF Receive, hist, Typed
  <1>2. wire'[t] = 0 /\ answers'[t] = <<>>
    BY <1>1, Consumed DEF Sound
  <1>3. CASE Fails(t) /\ a.kind = "body"
    <2>1. broken[t]
      BY <1>1, <1>3 DEF Sound, CutIsBroken
    <2>2. QED  BY <1>1, <1>2, <1>3, <2>1, TryAgainSound
  <1>4. CASE /\ value' = [value EXCEPT ![t] = IF a.kind = "whole" THEN a.val ELSE Garbage]
             /\ Goto(t, "sleep")
    <2>1. pc'[t] = "sleep" /\ (~broken[t] => a.kind = "whole" /\ value'[t] = a.val)
      BY <1>1, <1>4 DEF Goto, Typed, Sound, CutIsBroken
    <2>2. ~broken[t] /\ t \in Readers => value'[t] \in seen[t]
      BY <1>1, <2>1 DEF Sound, ReadSince
    <2>3. ~broken[t] /\ t \in Writers => applied[t] = 1
      BY <1>1, <2>1 DEF Sound, AppliedOnce
    <2>4. QED  BY <1>1, <1>2, <2>1, <2>2, <2>3, QuietSound
  <1>5. QED  BY <1>3, <1>4 DEF Receive

LEMMA AstraySound ==
  ASSUME Typed, NEW t \in Threads, Sound(t), ReceiveAstray(t)
  PROVE  Sound(t)'
  <1>1. /\ pc[t] = "receive" /\ answers[t] # <<>>
        /\ UNCHANGED <<sock, wire, applied, broken, seen>>
        /\ answers'[t] = Tail(answers[t])
        /\ Head(answers[t]).kind = "head" \/ astray[t]
    BY DEF ReceiveAstray, hist, Typed
  <1>2. wire'[t] = 0 /\ answers'[t] = <<>>
    BY <1>1, Consumed DEF Sound
  <1>3. broken[t]
    BY <1>1 DEF Sound, CutIsBroken
  <1>4. QED  BY <1>1, <1>2, <1>3, QuietSound

LEMMA RefusedSound ==
  ASSUME Typed, NEW t \in Threads, Sound(t), Refused(t)
  PROVE  Sound(t)'
  <1>1. /\ pc[t] = "receive" /\ answers[t] # <<>> /\ ~astray[t]
        /\ UNCHANGED <<sock, wire, astray, applied, broken, seen>>
        /\ answers'[t] = Tail(answers[t])
    BY DEF Refused, hist, Typed
  <1>2. wire'[t] = 0 /\ answers'[t] = <<>>
    BY <1>1, Consumed DEF Sound
  <1>3. /\ pc'[t] \in {"idle", "store"}
        /\ t \in Readers => value'[t] = Unreachable
    BY FailsStep, TcpAssumption DEF Refused
  <1>4. ~broken[t] /\ t \in Writers => applied[t] \in {0, 1}
    BY AppliedType
  <1>5. QED  BY <1>1, <1>2, <1>3, <1>4, QuietSound

LEMMA ReceiveEndSound ==
  ASSUME Typed, NEW t \in Threads, Sound(t), ReceiveEnd(t)
  PROVE  Sound(t)'
  <1>1. /\ pc[t] = "receive" /\ sock[t] = "gone" /\ answers[t] = <<>>
        /\ UNCHANGED <<sock, wire, answers, applied, broken, seen>>
        /\ wire[t] = 0 /\ (astray'[t] => broken[t])
    BY DEF ReceiveEnd, conn, hist, Sound, OneOnTheWay, CutIsBroken
  <1>2. QED  BY <1>1, TryAgainSound DEF ReceiveEnd

\* An answer that nobody pays attention to stays where it is.
LEMMA CloseSound ==
  ASSUME Typed, NEW t \in Threads, Sound(t), Finish(t) \/ Store(t)
  PROVE  Sound(t)'
  <1>1. /\ pc[t] \in {"sleep", "store"} /\ pc'[t] \in {"store", "idle"}
        /\ pc'[t] = "store" => pc[t] = "sleep"
        /\ UNCHANGED <<value, wire, answers, astray, applied, broken, seen>>
    BY DEF Finish, Store, Goto, conn, hist, Typed
  <1>2. wire[t] = 0 /\ answers[t] = <<>>
    BY <1>1 DEF Sound, OneOnTheWay
  <1>3. ~broken[t] /\ t \in Readers /\ pc'[t] = "store" => value[t] \in seen[t] \cup {Unreachable}
    BY <1>1 DEF Sound, ReadSince
  <1>4. ~broken[t] /\ t \in Writers => applied[t] \in {0, 1}
    BY AppliedType
  <1>5. QED  BY <1>1, <1>2, <1>3, <1>4, QuietSound

\* A request is on the way only while its thread waits, and then nothing else is.
LEMMA RequestAlone ==
  ASSUME Typed, NEW t \in Threads, OneOnTheWay(t), wire[t] > 0
  PROVE  pc[t] = "receive" /\ wire[t] = 1 /\ answers[t] = <<>>
  <1>1. answers[t] \in Seq(Answers) /\ wire[t] \in Nat
    BY DEF Typed
  <1>2. Len(answers[t]) \in Nat
    BY <1>1, EmptySeq
  <1>3. \A a, b \in Nat : a + b <= 1 /\ a > 0 => a = 1 /\ b = 0
    OBVIOUS
  <1>4. wire[t] = 1 /\ Len(answers[t]) = 0
    BY <1>1, <1>2, <1>3 DEF OneOnTheWay
  <1>5. answers[t] = <<>>
    BY <1>1, <1>4, NoneLeft
  <1>6. pc[t] = "receive"
    BY <1>4 DEF OneOnTheWay
  <1>7. QED  BY <1>4, <1>5, <1>6

\* The one answer that comes, and what the thread makes of it.
LEMMA AnswerSound ==
  ASSUME Typed, NEW t \in Threads, pc'[t] = "receive", wire'[t] = 0,
         sock'[t] = "open", NEW a \in Answers, answers'[t] = <<a>>,
         astray'[t] => broken'[t], a.kind \in {"body", "head"} => broken'[t],
         ~broken'[t] =>
           /\ t \in Readers /\ a.kind = "whole" => a.val \in seen'[t]
           /\ t \in Writers => applied'[t] \in {0, 1} /\ (a.kind = "whole" => applied'[t] = 1)
  PROVE  Sound(t)'
  <1>1. Len(<<a>>) = 1 /\ Head(<<a>>) = a
    OBVIOUS
  <1>2. QED
    BY <1>1 DEF Sound, OneOnTheWay, CutIsBroken, ReadSince, AppliedOnce

LEMMA ServeSound ==
  ASSUME Typed, NEW t \in Threads, Sound(t), Serve(t)
  PROVE  Sound(t)'
  <1>1. pc[t] = "receive" /\ wire[t] = 1 /\ answers[t] = <<>>
    BY RequestAlone DEF Serve, Sound
  <1>2. PICK k \in {"whole", "body", "head"} :
           /\ answers' = [answers EXCEPT ![t] = Append(@, [kind |-> k, val |-> field'])]
           /\ broken' = [broken EXCEPT ![t] = @ \/ k # "whole"]
    BY DEF Serve
  <1> DEFINE a == [kind |-> k, val |-> field']
  <1>3. answers'[t] = <<a>> /\ a.kind = k /\ a.val = field'
    BY <1>1, <1>2 DEF Typed
  <1>4. (broken[t] => broken'[t]) /\ (k # "whole" => broken'[t])
    BY <1>2 DEF Typed
  <1>5. /\ pc'[t] = "receive" /\ wire'[t] = 0 /\ sock'[t] = "open"
        /\ astray'[t] = astray[t] /\ applied'[t] = applied[t] + 1
        /\ field' \in seen'[t]
    BY <1>1 DEF Serve, Typed
  <1>6. astray[t] => broken[t]
    BY <1>1 DEF Sound, CutIsBroken
  <1>7. ~broken[t] /\ t \in Writers => applied[t] = 0
    BY <1>1 DEF Sound, AppliedOnce
  <1>8. a \in Answers
    <2>1. field' \in Results
      BY DEF Serve, Typed
    <2>2. QED  BY <2>1 DEF Answers, Kinds
  <1> HIDE DEF a
  <1>9. (astray'[t] => broken'[t]) /\ (a.kind \in {"body", "head"} => broken'[t])
    BY <1>3, <1>4, <1>5, <1>6
  <1>10. ~broken'[t] /\ t \in Writers => applied'[t] = 1
    <2>1. ~broken'[t] /\ t \in Writers => applied[t] = 0
      BY <1>4, <1>7
    <2>2. QED  BY <1>5, <2>1
  <1>11. a.val \in seen'[t]
    BY <1>3, <1>5
  <1>12. QED  BY <1>3, <1>5, <1>8, <1>9, <1>10, <1>11, AnswerSound

LEMMA RefuseSound ==
  ASSUME Typed, NEW t \in Threads, Sound(t), Refuse(t)
  PROVE  Sound(t)'
  <1> DEFINE a == [kind |-> "exception", val |-> Unreachable]
  <1>1. pc[t] = "receive" /\ wire[t] = 1 /\ answers[t] = <<>>
    BY RequestAlone DEF Refuse, Sound
  <1>2. answers'[t] = <<a>> /\ a.kind = "exception"
    BY <1>1 DEF Refuse, Typed
  <1>3. /\ pc'[t] = "receive" /\ wire'[t] = 0 /\ sock'[t] = "open"
        /\ UNCHANGED <<astray, applied, broken, seen>>
    BY <1>1 DEF Refuse, Typed, hist
  <1>4. astray'[t] => broken'[t]
    BY <1>1, <1>3 DEF Sound, CutIsBroken
  <1>5. ~broken'[t] /\ t \in Writers => applied'[t] \in {0, 1}
    BY <1>3, AppliedType
  <1>6. a \in Answers
    BY DEF Answers, Kinds, Results
  <1> HIDE DEF a
  <1>7. ~(a.kind \in {"body", "head"}) /\ a.kind # "whole"
    BY <1>2
  <1>8. QED  BY <1>2, <1>3, <1>4, <1>5, <1>6, <1>7, AnswerSound

LEMMA DropSound ==
  ASSUME Typed, NEW t \in Threads, Sound(t), Drop(t)
  PROVE  Sound(t)'
  <1>1. /\ pc[t] \in {"send", "receive"} /\ sock'[t] = "gone" /\ wire'[t] = 0
        /\ answers'[t] \in {answers[t], <<>>}
        /\ UNCHANGED <<pc, value, astray, applied, broken, seen>>
    BY DEF Drop, hist, Typed
  <1>2. CASE answers'[t] = <<>>
    <2>1. astray[t] => broken[t]
      BY <1>1 DEF Sound, CutIsBroken
    <2>2. ~broken[t] /\ t \in Writers => applied[t] \in {0, 1}
      BY AppliedType
    <2>3. QED  BY <1>1, <1>2, <2>1, <2>2, QuietSound
  <1>3. CASE answers'[t] = answers[t]
    <2>1. wire[t] \in Nat /\ Len(answers[t]) \in Nat /\ wire[t] + Len(answers[t]) <= 1
      <3>1. answers[t] \in Seq(Answers)
        BY DEF Typed
      <3>2. QED  BY <3>1, EmptySeq DEF Typed, Sound, OneOnTheWay
    <2>2. \A a, b \in Nat : a + b <= 1 => 0 + b <= 1
      OBVIOUS
    <2>3. OneOnTheWay(t)'
      <3>1. wire'[t] + Len(answers'[t]) <= 1
        BY <1>1, <1>3, <2>1, <2>2
      <3>2. QED  BY <1>1, <1>3, <3>1 DEF Sound, OneOnTheWay
    <2>4. CutIsBroken(t)' /\ (t \in Readers => ReadSince(t)')
      BY <1>1, <1>3 DEF Sound, CutIsBroken, ReadSince
    <2>5. t \in Writers => AppliedOnce(t)'
      BY <1>1, <1>3 DEF Sound, AppliedOnce
    <2>6. QED  BY <2>3, <2>4, <2>5 DEF Sound
  <1>4. QED  BY <1>1, <1>2, <1>3

LEMMA NextSound == Typed /\ AllSound /\ [Next]_vars => AllSound'
  <1>1. ASSUME Typed, AllSound, NEW t \in Threads, Begin(t) \/ Step(t) \/ Device(t)
        PROVE  AllSound'
    <2>1. Sound(t)
      BY <1>1 DEF AllSound
    <2>2. Sound(t)'
      BY <1>1, <2>1, BeginSound, ConnectSound, SendSound, SendFailsSound, ReceiveSound,
         AstraySound, RefusedSound, ReceiveEndSound, CloseSound, ServeSound, RefuseSound,
         DropSound
      DEF Step, Device
    <2>3. ASSUME NEW u \in Threads, u # t PROVE Sound(u)'
      BY <1>1, <2>3, OtherSound DEF AllSound
    <2>4. QED  BY <2>2, <2>3 DEF AllSound
  <1>2. ASSUME AllSound, UNCHANGED vars PROVE AllSound'
    BY <1>2
    DEF vars, conn, hist, AllSound, Sound, OneOnTheWay, CutIsBroken, ReadSince, AppliedOnce
  <1>3. QED  BY <1>1, <1>2 DEF Next

\* However often it is tried, and however the device refuses, drops and delays: a
\* write whose answer does not come in pieces reaches the device at most once,
\* and exactly once if the client is answered.
THEOREM WritesOnce == Spec => []WrittenOnce
  <1>1. AllSound => WrittenOnce
    BY DEF AllSound, Sound, AppliedOnce, WrittenOnce, Answered, Threads
  <1>2. QED  BY <1>1, InitTyped, NextTyped, InitSound, NextSound, PTL DEF Spec

\* What a polling round is about to store is -1 or a value the device had since
\* the round began, unless this answer came in pieces: nothing of an earlier
\* access is left on the way.
THEOREM ReadsFresh == Spec => []FreshReading
  <1>1. AllSound => FreshReading
    BY DEF AllSound, Sound, ReadSince, FreshReading, Threads
  <1>2. QED  BY <1>1, InitTyped, NextTyped, InitSound, NextSound, PTL DEF Spec
=============================================================================
