----------------------------- MODULE ConfigSync -----------------------------
(***************************************************************************)
(* The exchange of the configuration file.  The server keeps it and runs   *)
(* on what it said at the start; each phone has a copy that it edits.      *)
(* Every edit adds one to the counter in the file.  A phone compares the   *)
(* counter in its memory (MainActivity.conf) with the server's and offers  *)
(* its user to download or to upload; the answer may come any time later.  *)
(* An upload overwrites the server's file in place and the server exits    *)
(* with status 5, upon which starter.sh starts it again.                   *)
(*                                                                         *)
(* A file is whole or Broken: truncated, mixed from two uploads or without *)
(* its first bytes.  The parser throws on it, the exception is swallowed,  *)
(* and the counter stays 0 and the GCM key null.  Whole files name a key.  *)
(***************************************************************************)
EXTENDS Integers, FiniteSets

CONSTANTS
  Phones,
  Edits,         \* the edits users make, each once; bounds the counter
  Absent,        \* model value: the phone has no file
  Broken,        \* model value: a file that does not parse
  None,          \* model value: MainActivity.conf is null
  MaxUploads     \* bound on the uploads

VARIABLES
  file,          \* the server's file, as its two halves
  server,        \* "up", "exiting" with status 5, or "stopped"
  running,       \* what the process found in the file when it started
  upload,        \* phone -> its ExecutorThread in writeFile
  payload,       \* phone -> the bytes it uploads
  phone,         \* phone -> its copy of the file
  app,           \* phone -> "closed", "first" (configuration), "main"
  conf,          \* phone -> MainActivity.conf: the file it was read from
  offer,         \* phone -> the dialog it shows
  fresh,         \* phone -> when it last compared, no upload was under way, and no
                 \* other phone has begun one since (history)
  made,          \* the edits made (history)
  forked,        \* an edit was made on a copy that lacked an earlier one (history)
  stale,         \* an upload began that was not fresh (history)
  ran,           \* the edits the server has run with (history)
  begun,         \* number of uploads begun
  mishap,        \* an upload was cut off or overlapped with another (history)
  abandoned      \* an upload was given up since the server started (history)

disk   == <<file, server, running, begun, ran, abandoned>>
phones == <<phone, app, conf, made, forked>>
vars   == <<file, server, running, upload, payload, phone, app, conf, offer, fresh,
            made, forked, stale, ran, begun, mishap,
            abandoned>>

-----------------------------------------------------------------------------
Contents == [version : Nat, edits : SUBSET Edits]

ASSUME SyncAssumption ==
  /\ MaxUploads \in Nat
  /\ Absent \notin Contents /\ Broken \notin Contents /\ None \notin Contents
  /\ Absent # Broken /\ Absent # None /\ Broken # None

Original == [version |-> 0, edits |-> {}]

\* Half of one upload and half of another do not parse.
Parse(f) == IF f[1] = f[2] THEN f[1] ELSE Broken

VersionOf(f) == IF f \in {Broken, None} THEN 0 ELSE f.version

EditsOf(f) == IF f \in {Broken, None} THEN {} ELSE f.edits

Writing == {p \in Phones : upload[p] \in {"open", "half", "full"}}

Init ==
  /\ file = <<Original, Original>>
  /\ server = "up"
  /\ running = Original
  /\ upload = [p \in Phones |-> "none"]
  /\ payload = [p \in Phones |-> None]
  /\ phone = [p \in Phones |-> Absent]
  /\ app = [p \in Phones |-> "closed"]
  /\ conf = [p \in Phones |-> None]
  /\ offer = [p \in Phones |-> "none"]
  /\ fresh = [p \in Phones |-> FALSE]
  /\ made = {}
  /\ forked = FALSE
  /\ stale = FALSE
  /\ ran = {}
  /\ begun = 0
  /\ mishap = FALSE
  /\ abandoned = FALSE

-----------------------------------------------------------------------------
(***************************************************************************)
(* The app.                                                                *)
(***************************************************************************)

\* MainActivity.onCreate with the file f: whether there is a key is asked of
\* the static conf, which is read from the file only if it is null.
OnCreate(p, f) ==
  LET cached == IF conf[p] = None THEN f ELSE conf[p]
  IN \/ /\ f = Absent
        /\ app' = [app EXCEPT ![p] = "first"]
        /\ UNCHANGED conf
     \/ /\ f # Absent /\ cached = Broken
        /\ app' = [app EXCEPT ![p] = "first"]
        /\ conf' = [conf EXCEPT ![p] = cached]
     \/ /\ f # Absent /\ cached # Broken
        /\ app' = [app EXCEPT ![p] = "main"]
        /\ conf' = [conf EXCEPT ![p] = f]

Launch(p) ==
  /\ app[p] = "closed"
  /\ OnCreate(p, phone[p])
  /\ UNCHANGED <<disk, upload, payload, phone, offer, fresh, made, forked, stale, mishap>>

\* The user leaves the app, with or without the end of its process.
Close(p) ==
  /\ app[p] # "closed"
  /\ app' = [app EXCEPT ![p] = "closed"]
  /\ \E c \in {conf[p], None} : conf' = [conf EXCEPT ![p] = c]
  /\ offer' = [offer EXCEPT ![p] = "none"]
  /\ UNCHANGED <<disk, upload, payload, phone, fresh, made, forked, stale, mishap>>

\* The first configuration takes the file as the server sends it.  Without a
\* server, or when the connection ends, it has written what came until then.
FetchFirst(p) ==
  /\ app[p] = "first"
  /\ \E got \in {Broken} \cup (IF server = "up" THEN {Parse(file)} ELSE {}) :
        /\ phone' = [phone EXCEPT ![p] = got]
        /\ \/ OnCreate(p, got)
           \/ got = Broken /\ UNCHANGED <<app, conf>>
  /\ UNCHANGED <<disk, upload, payload, offer, fresh, made, forked, stale, mishap>>

\* The app's page deletes the file and starts the app anew.
Delete(p) ==
  /\ app[p] = "main" /\ offer[p] = "none"
  /\ phone' = [phone EXCEPT ![p] = Absent]
  /\ OnCreate(p, Absent)
  /\ UNCHANGED <<disk, upload, payload, offer, fresh, made, forked, stale, mishap>>

\* Mutant of Edited: what the file said before is not kept.
ReplacingEdited(p, n, e) == [version |-> phone[p].version + n, edits |-> {e}]

\* An edit reads the file, adds n to its counter and writes it back; on a
\* broken file it does nothing.
Edited(p, n, e) == [version |-> phone[p].version + n, edits |-> phone[p].edits \cup {e}]

Change(p, n) ==
  /\ app[p] = "main" /\ phone[p] # Broken
  /\ \E e \in Edits \ made :
        /\ phone' = [phone EXCEPT ![p] = Edited(p, n, e)]
        /\ made' = made \cup {e}
  /\ forked' = (forked \/ ~(made \subseteq phone[p].edits))
  /\ UNCHANGED <<disk, upload, payload, app, offer, fresh, stale, mishap>>

\* Pins and switches are edited through a Configuratore of the screen's own.
EditPins(p) == Change(p, 1) /\ UNCHANGED conf

\* The key is reset through such a one and then set through MainActivity.conf,
\* on a page that an open dialog covers.
EditKey(p) ==
  /\ offer[p] = "none"
  /\ Change(p, 2)
  /\ conf' = [conf EXCEPT ![p] = phone'[p]]

\* Mutant of Check: equal counters are offered for upload.
EagerCheck(p) ==
  /\ app[p] = "main" /\ offer[p] = "none" /\ server = "up"
  /\ LET theirs == VersionOf(Parse(file))
         ours   == VersionOf(conf[p])
     IN \/ ours < theirs /\ offer' = [offer EXCEPT ![p] = "download"]
        \/ ours >= theirs /\ offer' = [offer EXCEPT ![p] = "upload"]
  /\ fresh' = [fresh EXCEPT ![p] = upload[p] = "none" /\ Writing = {}]
  /\ UNCHANGED <<disk, upload, payload, phones, stale, mishap>>

\* The server reads its file anew for each answer.
Check(p) ==
  /\ app[p] = "main" /\ offer[p] = "none" /\ server = "up"
  /\ LET theirs == VersionOf(Parse(file))
         ours   == VersionOf(conf[p])
     IN \/ ours < theirs /\ offer' = [offer EXCEPT ![p] = "download"]
        \/ ours > theirs /\ offer' = [offer EXCEPT ![p] = "upload"]
        \/ ours = theirs /\ UNCHANGED offer
  /\ fresh' = [fresh EXCEPT ![p] = upload[p] = "none" /\ Writing = {}]
  /\ UNCHANGED <<disk, upload, payload, phones, stale, mishap>>

Refuse(p) ==
  /\ offer[p] # "none"
  /\ offer' = [offer EXCEPT ![p] = "none"]
  /\ UNCHANGED <<disk, upload, payload, phones, fresh, stale, mishap>>

\* The app takes the first four bytes for a length the server does not send,
\* and opens its own file only after it has got them.
Download(p) ==
  /\ offer[p] = "download"
  /\ offer' = [offer EXCEPT ![p] = "none"]
  /\ \/ UNCHANGED phone
     \/ server = "up" /\ phone' = [phone EXCEPT ![p] = Broken]
  /\ UNCHANGED <<disk, upload, payload, app, conf, fresh, made, forked, stale, mishap>>

\* The app sends the file it has by now.
Upload(p) ==
  /\ offer[p] = "upload" /\ upload[p] = "none" /\ server = "up"
  /\ begun < MaxUploads
  /\ begun' = begun + 1
  /\ offer' = [offer EXCEPT ![p] = "none"]
  /\ upload' = [upload EXCEPT ![p] = "asked"]
  /\ payload' = [payload EXCEPT ![p] = phone[p]]
  /\ UNCHANGED <<file, server, running, ran, abandoned, phones, fresh, stale, mishap>>

-----------------------------------------------------------------------------
(***************************************************************************)
(* The server.                                                             *)
(***************************************************************************)

\* FileOutputStream truncates the file.
Open(p) ==
  /\ upload[p] = "asked"
  /\ mishap' = (mishap \/ Writing # {})
  /\ file' = <<Broken, Broken>>
  /\ upload' = [upload EXCEPT ![p] = "open"]
  /\ fresh' = [q \in Phones |-> q = p /\ fresh[p]]
  /\ stale' = (stale \/ ~fresh[p])
  /\ UNCHANGED <<server, running, payload, phones, offer, begun, ran, abandoned>>

Write(p, half, from, to) ==
  /\ upload[p] = from
  /\ file' = [file EXCEPT ![half] = payload[p]]
  /\ upload' = [upload EXCEPT ![p] = to]
  /\ UNCHANGED <<server, running, payload, phones, offer, fresh, stale, begun, ran,
                 mishap, abandoned>>

WriteFirst(p) == Write(p, 1, "open", "half")
WriteRest(p)  == Write(p, 2, "half", "full")

\* The process ends, and every thread with it.
EndProcess(to) ==
  /\ server' = to
  /\ upload' = [p \in Phones |-> "none"]
  /\ payload' = [p \in Phones |-> None]
  /\ UNCHANGED <<file, running, phones, offer, fresh, stale, begun, ran, abandoned>>

\* Mutant of Finish: the thread ends, and the process goes on.
StayFinish(p) ==
  /\ p \in Writing
  /\ mishap' = (mishap \/ upload[p] # "full")
  /\ upload' = [upload EXCEPT ![p] = "none"]
  /\ payload' = [payload EXCEPT ![p] = None]
  /\ UNCHANGED <<file, server, running, phones, offer, fresh, stale, begun, ran, abandoned>>

\* The end of the stream, wherever it comes, is taken for the end of the file.
Finish(p) ==
  /\ p \in Writing
  /\ mishap' = (mishap \/ \E q \in Writing : upload[q] # "full")
  /\ EndProcess("exiting")

\* An exception ends the thread only.
GiveUp(p) ==
  /\ upload[p] # "none"
  /\ upload' = [upload EXCEPT ![p] = "none"]
  /\ payload' = [payload EXCEPT ![p] = None]
  /\ mishap' = (mishap \/ p \in Writing)
  /\ abandoned' = (abandoned \/ p \in Writing)
  /\ UNCHANGED <<file, server, running, phones, offer, fresh, stale, begun, ran>>

\* The app's commands over ssh: kill -9, and kill -9 with a new starter.sh.
Stop ==
  /\ server = "up"
  /\ mishap' = (mishap \/ \E q \in Writing : upload[q] # "full")
  /\ EndProcess("stopped")

Start ==
  /\ server' = "up"
  /\ running' = Parse(file)
  /\ ran' = ran \cup EditsOf(running')
  /\ abandoned' = FALSE
  /\ UNCHANGED <<file, upload, payload, phones, offer, fresh, stale, begun, mishap>>

StartStopped == server = "stopped" /\ Start
Restart      == server = "exiting" /\ Start

Next ==
  \/ \E p \in Phones :
        \/ Launch(p) \/ Close(p) \/ FetchFirst(p) \/ Delete(p)
        \/ EditPins(p) \/ EditKey(p)
        \/ Check(p) \/ Refuse(p) \/ Download(p) \/ Upload(p)
        \/ Open(p) \/ WriteFirst(p) \/ WriteRest(p) \/ Finish(p) \/ GiveUp(p)
  \/ Stop \/ StartStopped \/ Restart

Spec == Init /\ [][Next]_vars

-----------------------------------------------------------------------------
TypeOK ==
  /\ file \in [1..2 -> Contents \cup {Broken}]
  /\ server \in {"up", "exiting", "stopped"}
  /\ running \in Contents \cup {Broken}
  /\ upload \in [Phones -> {"none", "asked", "open", "half", "full"}]
  /\ payload \in [Phones -> Contents \cup {Broken, None}]
  /\ phone \in [Phones -> Contents \cup {Absent, Broken}]
  /\ app \in [Phones -> {"closed", "first", "main"}]
  /\ conf \in [Phones -> Contents \cup {Broken, None}]
  /\ offer \in [Phones -> {"none", "download", "upload"}]
  /\ fresh \in [Phones -> BOOLEAN]
  /\ made \subseteq Edits
  /\ forked \in BOOLEAN
  /\ stale \in BOOLEAN
  /\ ran \subseteq Edits
  /\ begun \in 0..MaxUploads
  /\ mishap \in BOOLEAN
  /\ abandoned \in BOOLEAN

\* The core restarts itself to take over changes: whenever the server runs and
\* no upload is under way, it runs on what its file says, whatever was cut off,
\* stopped or overlapped before; unless a thread gave an upload up, since then
\* nobody exits (ExecutorThread.writeFile, MainServer.exit, starter.sh).
RunsWhatFileSays ==
  server = "up" /\ Writing = {} /\ ~abandoned => running = Parse(file)

\* The comparison of counters serves its purpose: an upload that was offered
\* with no other one under way, and before which no other one began, replaces
\* the configuration the server runs on by a newer one, though the file it sends
\* is not the one whose counter was compared; unless it sends a broken file, or
\* an upload was given up (ServerRequest.ReadCounter, config, WriteFile).
FreshUploadsAreNewer ==
  \A p \in Phones :
    upload[p] # "none" /\ fresh[p] /\ ~abandoned /\ payload[p] # Broken =>
      payload[p].version > VersionOf(running)

\* The files that downloads break on the phones do not come back to the server:
\* its file is broken only after an upload was cut off, overlapped or was
\* offered on a comparison that no longer held.
BrokenHasCause ==
  Writing = {} /\ Parse(file) = Broken => mishap \/ stale

\* No edit the server has run with is lost, as long as each edit is made on a
\* copy with all earlier ones and uploads are fresh and complete, however many
\* phones take part and whichever offers they leave open or refuse.
LinearEditsSurvive ==
  ~forked /\ ~stale /\ ~mishap => ran \subseteq EditsOf(running)
=============================================================================
