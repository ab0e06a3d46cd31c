-------------------------- MODULE ConfigSyncProofs --------------------------
(***************************************************************************)
(* Proofs about ConfigSync, for any number of phones, edits and uploads:   *)
(* its types, that the server runs on what its file says, that fresh       *)
(* uploads bring newer files, that its file stays whole without a mishap,  *)
(* and that the counter tells which of two files has the other's edits.    *)
(***************************************************************************)
EXTENDS ConfigSync, TLAPS

USE SyncAssumption

-----------------------------------------------------------------------------
(* The types.  Only a phone in the main page shows an offer, a phone in    *)
(* the main page has a file, and an upload sends one.                      *)

MainHasFile == \A p \in Phones : app[p] = "main" => phone[p] # Absent
OffersInMain == \A p \in Phones : offer[p] # "none" => app[p] = "main"
UploadsSend == \A p \in Phones : upload[p] # "none" => payload[p] # None

Typed == TypeOK /\ MainHasFile /\ OffersInMain /\ UploadsSend

LEMMA OriginalIsContent == Original \in Contents
  BY DEF Original, Contents

LEMMA ParseType ==
  ASSUME NEW f \in [1..2 -> Contents \cup {Broken}]
  PROVE  Parse(f) \in Contents \cup {Broken}
  BY DEF Parse

LEMMA EditsType ==
  ASSUME NEW f \in Contents \cup {Broken}
  PROVE  EditsOf(f) \subseteq Edits
  BY DEF EditsOf, Contents

\* What onCreate leaves of a file f that is there or not.
LEMMA OnCreateType ==
  ASSUME Typed, NEW p \in Phones, NEW f \in Contents \cup {Absent, Broken}, OnCreate(p, f)
  PROVE  /\ app' \in [Phones -> {"closed", "first", "main"}]
         /\ conf' \in [Phones -> Contents \cup {Broken, None}]
         /\ \A q \in Phones : q # p => app'[q] = app[q]
         /\ app'[p] = "main" => f # Absent
  <1>1. CASE f = Absent
    BY <1>1 DEF OnCreate, Typed, TypeOK
  <1>2. CASE f # Absent
    <2>1. f \in Contents \cup {Broken}
      BY <1>2
    <2>2. CASE conf[p] = None
      BY <1>2, <2>1, <2>2 DEF OnCreate, Typed, TypeOK
    <2>3. CASE conf[p] # None
      BY <1>2, <2>1, <2>3 DEF OnCreate, Typed, TypeOK
    <2>4. QED  BY <2>2, <2>3
  <1>3. QED  BY <1>1, <1>2

LEMMA InitTyped == Init => Typed
  <1> SUFFICES ASSUME Init PROVE Typed
    OBVIOUS
  <1>1. <<Original, Original>> \in [1..2 -> Contents \cup {Broken}]
    BY OriginalIsContent
  <1>2. TypeOK
    <2>1. file \in [1..2 -> Contents \cup {Broken}]
      BY <1>1 DEF Init
    <2>2. /\ server \in {"up", "exiting", "stopped"}
          /\ running \in Contents \cup {Broken}
          /\ upload \in [Phones -> {"none", "asked", "open", "half", "full"}]
          /\ payload \in [Phones -> Contents \cup {Broken, None}]
          /\ phone \in [Phones -> Contents \cup {Absent, Broken}]
          /\ app \in [Phones -> {"closed", "first", "main"}]
          /\ conf \in [Phones -> Contents \cup {Broken, None}]
          /\ offer \in [Phones -> {"none", "download", "upload"}]
      BY OriginalIsContent DEF Init
    <2>3. /\ fresh \in [Phones -> BOOLEAN]
          /\ made \subseteq Edits /\ ran \subseteq Edits
          /\ forked \in BOOLEAN /\ stale \in BOOLEAN
          /\ mishap \in BOOLEAN /\ abandoned \in BOOLEAN
      BY DEF Init
    <2>4. begun \in 0..MaxUploads
      BY DEF Init
    <2>5. QED  BY <2>1, <2>2, <2>3, <2>4 DEF TypeOK
  <1>3. MainHasFile /\ OffersInMain /\ UploadsSend
    BY DEF Init, MainHasFile, OffersInMain, UploadsSend
  <1>4. QED  BY <1>2, <1>3 DEF Typed

LEMMA EditedType ==
  ASSUME Typed, NEW p \in Phones, app[p] = "main", phone[p] # Broken,
         NEW n \in Nat, NEW e \in Edits
  PROVE  Edited(p, n, e) \in Contents
  <1>1. phone[p] \in Contents
    BY DEF Typed, TypeOK, MainHasFile
  <1>2. phone[p].version + n \in Nat
    BY <1>1 DEF Contents
  <1>3. phone[p].edits \cup {e} \in SUBSET Edits
    BY <1>1 DEF Contents
  <1>4. QED  BY <1>2, <1>3 DEF Edited, Contents

\* What the actions leave alone keeps its type.
LEMMA LaunchTyped ==
  ASSUME Typed, NEW p \in Phones, Launch(p) PROVE Typed'
  <1>1. phone[p] \in Contents \cup {Absent, Broken}
    BY DEF Typed, TypeOK
  <1>2. OnCreate(p, phone[p])
    BY DEF Launch
  <1>3. TypeOK'
    BY <1>1, <1>2, OnCreateType DEF Launch, Typed, TypeOK, disk
  <1>4. MainHasFile'
    BY <1>1, <1>2, OnCreateType DEF Launch, Typed, MainHasFile
  <1>5. OffersInMain'
    BY <1>1, <1>2, OnCreateType DEF Launch, Typed, OffersInMain
  <1>6. UploadsSend'
    BY DEF Launch, Typed, UploadsSend
  <1>7. QED  BY <1>3, <1>4, <1>5, <1>6 DEF Typed

LEMMA CloseTyped ==
  ASSUME Typed, NEW p \in Phones, Close(p) PROVE Typed'
  BY DEF Close, Typed, TypeOK, MainHasFile, OffersInMain, UploadsSend, disk

LEMMA FetchTyped ==
  ASSUME Typed, NEW p \in Phones, FetchFirst(p) PROVE Typed'
  <1>1. PICK got \in {Broken} \cup (IF server = "up" THEN {Parse(file)} ELSE {}) :
           /\ phone' = [phone EXCEPT ![p] = got]
           /\ \/ OnCreate(p, got)
              \/ got = Broken /\ UNCHANGED <<app, conf>>
    BY DEF FetchFirst
  <1>2. got \in Contents \cup {Broken} /\ got # Absent
    BY <1>1, ParseType DEF Typed, TypeOK
  <1>3. /\ app' \in [Phones -> {"closed", "first", "main"}]
        /\ conf' \in [Phones -> Contents \cup {Broken, None}]
        /\ \A q \in Phones : q # p => app'[q] = app[q]
    BY <1>1, <1>2, OnCreateType DEF Typed, TypeOK
  <1>4. TypeOK'
    BY <1>1, <1>2, <1>3 DEF FetchFirst, Typed, TypeOK, disk
  <1>5. MainHasFile'
    BY <1>1, <1>2, <1>3 DEF Typed, TypeOK, MainHasFile
  <1>6. OffersInMain'
    BY <1>3 DEF FetchFirst, Typed, TypeOK, OffersInMain
  <1>7. UploadsSend'
    BY DEF FetchFirst, Typed, UploadsSend
  <1>8. QED  BY <1>4, <1>5, <1>6, <1>7 DEF Typed

LEMMA DeleteTyped ==
  ASSUME Typed, NEW p \in Phones, Delete(p) PROVE Typed'
  BY DEF Delete, OnCreate, Typed, TypeOK, MainHasFile, OffersInMain, UploadsSend, disk

LEMMA ChangeTyped ==
  ASSUME Typed, NEW p \in Phones, NEW n \in Nat, Change(p, n),
         conf' = conf \/ conf' = [conf EXCEPT ![p] = phone'[p]]
  PROVE  Typed'
  <1>1. PICK e \in Edits \ made : /\ phone' = [phone EXCEPT ![p] = Edited(p, n, e)]
                                 /\ made' = made \cup {e}
    BY DEF Change
  <1>2. Edited(p, n, e) \in Contents
    BY <1>1, EditedType DEF Change
  <1>3. phone' \in [Phones -> Contents \cup {Absent, Broken}] /\ phone'[p] \in Contents
    BY <1>1, <1>2 DEF Typed, TypeOK
  <1>4. conf' \in [Phones -> Contents \cup {Broken, None}]
    BY <1>3 DEF Typed, TypeOK
  <1>5. forked' \in BOOLEAN
    BY DEF Change
  <1>6. TypeOK'
    BY <1>1, <1>3, <1>4, <1>5 DEF Change, Typed, TypeOK, disk
  <1>7. MainHasFile' /\ OffersInMain' /\ UploadsSend'
    BY <1>1, <1>2 DEF Change, Typed, TypeOK, MainHasFile, OffersInMain, UploadsSend
  <1>8. QED  BY <1>6, <1>7 DEF Typed

LEMMA DialogTyped ==
  ASSUME Typed, NEW p \in Phones, Check(p) \/ Refuse(p) \/ Download(p) \/ Upload(p)
  PROVE  Typed'
  <1>1. CASE Check(p)
    <2>1. offer' \in [Phones -> {"none", "download", "upload"}]
      BY <1>1 DEF Check, Typed, TypeOK
    <2>2. fresh' \in [Phones -> BOOLEAN]
      BY <1>1 DEF Check, Typed, TypeOK
    <2>3. TypeOK'
      BY <1>1, <2>1, <2>2 DEF Check, Typed, TypeOK, disk, phones
    <2>4. MainHasFile' /\ OffersInMain' /\ UploadsSend'
      BY <1>1 DEF Check, Typed, TypeOK, MainHasFile, OffersInMain, UploadsSend, phones
    <2>5. QED  BY <2>3, <2>4 DEF Typed
  <1>2. CASE Refuse(p)
    BY <1>2 DEF Refuse, Typed, TypeOK, MainHasFile, OffersInMain, UploadsSend, disk, phones
  <1>3. CASE Download(p)
    BY <1>3 DEF Download, Typed, TypeOK, MainHasFile, OffersInMain, UploadsSend, disk
  <1>4. CASE Upload(p)
    <2>1. phone[p] \in Contents \cup {Broken}
      BY <1>4 DEF Upload, Typed, TypeOK, MainHasFile, OffersInMain, UploadsSend
    <2>2. begun' \in 0..MaxUploads
      BY <1>4 DEF Upload, Typed, TypeOK
    <2>3. TypeOK'
      BY <1>4, <2>1, <2>2 DEF Upload, Typed, TypeOK, phones
    <2>4. MainHasFile' /\ OffersInMain' /\ UploadsSend'
      BY <1>4 DEF Upload, Typed, TypeOK, MainHasFile, OffersInMain, UploadsSend, phones
    <2>5. QED  BY <2>3, <2>4 DEF Typed
  <1>5. QED  BY <1>1, <1>2, <1>3, <1>4

LEMMA OpenTyped ==
  ASSUME Typed, NEW p \in Phones, Open(p) PROVE Typed'
  <1>1. file' \in [1..2 -> Contents \cup {Broken}]
    BY DEF Open
  <1>2. mishap' \in BOOLEAN /\ stale' \in BOOLEAN /\ fresh' \in [Phones -> BOOLEAN]
    BY DEF Open, Typed, TypeOK
  <1>3. TypeOK'
    BY <1>1, <1>2 DEF Open, Typed, TypeOK, phones
  <1>4. MainHasFile' /\ OffersInMain' /\ UploadsSend'
    BY DEF Open, Typed, MainHasFile, OffersInMain, UploadsSend, phones
  <1>5. QED  BY <1>3, <1>4 DEF Typed

LEMMA WriteTyped ==
  ASSUME Typed, NEW p \in Phones, NEW half \in 1..2, NEW from, from # "none",
         NEW to \in {"half", "full"}, Write(p, half, from, to)
  PROVE  Typed'
  <1>1. payload[p] \in Contents \cup {Broken}
    BY DEF Write, Typed, TypeOK, UploadsSend
  <1>2. file' \in [1..2 -> Contents \cup {Broken}]
    BY <1>1 DEF Write, Typed, TypeOK
  <1>3. TypeOK'
    BY <1>2 DEF Write, Typed, TypeOK, phones
  <1>4. MainHasFile' /\ OffersInMain' /\ UploadsSend'
    BY DEF Write, Typed, TypeOK, MainHasFile, OffersInMain, UploadsSend, phones
  <1>5. QED  BY <1>3, <1>4 DEF Typed

LEMMA EndTyped ==
  ASSUME Typed, NEW to \in {"exiting", "stopped"}, EndProcess(to),
         mishap' \in BOOLEAN, UNCHANGED <<begun, made, forked>>
  PROVE  Typed'
  BY DEF EndProcess, Typed, TypeOK, MainHasFile, OffersInMain, UploadsSend, phones

LEMMA GiveUpTyped ==
  ASSUME Typed, NEW p \in Phones, GiveUp(p) PROVE Typed'
  <1>1. mishap' \in BOOLEAN /\ abandoned' \in BOOLEAN
    BY DEF GiveUp, Typed, TypeOK
  <1>2. TypeOK'
    BY <1>1 DEF GiveUp, Typed, TypeOK, phones
  <1>3. MainHasFile' /\ OffersInMain' /\ UploadsSend'
    BY DEF GiveUp, Typed, TypeOK, MainHasFile, OffersInMain, UploadsSend, phones
  <1>4. QED  BY <1>2, <1>3 DEF Typed

LEMMA StartTyped ==
  ASSUME Typed, Start PROVE Typed'
  <1>1. running' \in Contents \cup {Broken}
    BY ParseType DEF Start, Typed, TypeOK
  <1>2. ran' \subseteq Edits
    BY <1>1, EditsType DEF Start, Typed, TypeOK
  <1>3. TypeOK'
    BY <1>1, <1>2 DEF Start, Typed, TypeOK, phones
  <1>4. MainHasFile' /\ OffersInMain' /\ UploadsSend'
    BY DEF Start, Typed, MainHasFile, OffersInMain, UploadsSend, phones
  <1>5. QED  BY <1>3, <1>4 DEF Typed

LEMMA NextTyped == Typed /\ [Next]_vars => Typed'
  <1> SUFFICES ASSUME Typed, [Next]_vars PROVE Typed'
    OBVIOUS
  <1>1. ASSUME NEW p \in Phones,
               Launch(p) \/ Close(p) \/ FetchFirst(p) \/ Delete(p)
        PROVE  Typed'
    BY <1>1, LaunchTyped, CloseTyped, FetchTyped, DeleteTyped
  <1>2. ASSUME NEW p \in Phones, EditPins(p) PROVE Typed'
    BY <1>2, ChangeTyped DEF EditPins
  <1>3. ASSUME NEW p \in Phones, EditKey(p) PROVE Typed'
    BY <1>3, ChangeTyped DEF EditKey
  <1>4. ASSUME NEW p \in Phones, Check(p) \/ Refuse(p) \/ Download(p) \/ Upload(p)
        PROVE  Typed'
    BY <1>4, DialogTyped
  <1>5. ASSUME NEW p \in Phones, Open(p) PROVE Typed'
    BY <1>5, OpenTyped
  <1>6. ASSUME NEW p \in Phones, WriteFirst(p) \/ WriteRest(p) PROVE Typed'
    BY <1>6, WriteTyped DEF WriteFirst, WriteRest
  <1>7. ASSUME NEW p \in Phones, Finish(p) PROVE Typed'
    <2>1. mishap' \in BOOLEAN
      BY <1>7 DEF Finish, Typed, TypeOK
    <2>2. QED  BY <1>7, <2>1, EndTyped DEF Finish, EndProcess, phones
  <1>8. ASSUME NEW p \in Phones, GiveUp(p) PROVE Typed'
    BY <1>8, GiveUpTyped
  <1>9. CASE Stop
    <2>1. mishap' \in BOOLEAN
      BY <1>9 DEF Stop, Typed, TypeOK
    <2>2. QED  BY <1>9, <2>1, EndTyped DEF Stop, EndProcess, phones
  <1>10. CASE StartStopped \/ Restart
    BY <1>10, StartTyped DEF StartStopped, Restart
  <1>11. CASE UNCHANGED vars
    BY <1>11 DEF vars, Typed, TypeOK, MainHasFile, OffersInMain, UploadsSend
  <1>12. QED
    BY <1>1, <1>2, <1>3, <1>4, <1>5, <1>6, <1>7, <1>8, <1>9, <1>10, <1>11 DEF Next

\* Every variable of ConfigSync keeps its type; no phone uploads a file it does
\* not have.
THEOREM SyncTyped == Spec => []TypeOK
  <1>1. Typed => TypeOK
    BY DEF Typed
  <1>2. QED  BY <1>1, InitTyped, NextTyped, PTL DEF Spec

-----------------------------------------------------------------------------
\* The server runs on what its file says: nobody writes without being counted
\* as writing, and whoever stops writing ends the process or is remembered.
LEMMA NextRuns == Typed /\ RunsWhatFileSays /\ [Next]_vars => RunsWhatFileSays'
  <1> SUFFICES ASSUME Typed, RunsWhatFileSays, [Next]_vars PROVE RunsWhatFileSays'
    OBVIOUS
  <1> USE DEF RunsWhatFileSays, Writing
  <1>1. ASSUME UNCHANGED <<file, server, running, upload, abandoned>>
        PROVE  RunsWhatFileSays'
    BY <1>1
  <1>2. ASSUME NEW p \in Phones, Upload(p) PROVE RunsWhatFileSays'
    <2>1. Writing' = Writing
      BY <1>2 DEF Upload, Typed, TypeOK
    <2>2. QED  BY <1>2, <2>1 DEF Upload
  <1>3. ASSUME NEW p \in Phones, Open(p) PROVE RunsWhatFileSays'
    BY <1>3 DEF Open, Typed, TypeOK
  <1>4. ASSUME NEW p \in Phones, WriteFirst(p) \/ WriteRest(p) PROVE RunsWhatFileSays'
    BY <1>4 DEF WriteFirst, WriteRest, Write, Typed, TypeOK
  <1>5. ASSUME NEW p \in Phones, Finish(p) PROVE RunsWhatFileSays'
    BY <1>5 DEF Finish, EndProcess
  <1>6. ASSUME NEW p \in Phones, GiveUp(p) PROVE RunsWhatFileSays'
    <2>1. CASE p \in Writing
      BY <1>6, <2>1 DEF GiveUp
    <2>2. CASE p \notin Writing
      <3>1. Writing' = Writing
        BY <1>6, <2>2 DEF GiveUp, Typed, TypeOK
      <3>2. QED  BY <1>6, <2>2, <3>1 DEF GiveUp
    <2>3. QED  BY <2>1, <2>2
  <1>7. CASE Stop
    BY <1>7 DEF Stop, EndProcess
  <1>8. CASE StartStopped \/ Restart
    BY <1>8 DEF StartStopped, Restart, Start
  <1>9. ASSUME NEW p \in Phones,
               \/ Launch(p) \/ Close(p) \/ FetchFirst(p) \/ Delete(p)
               \/ EditPins(p) \/ EditKey(p) \/ Check(p) \/ Refuse(p) \/ Download(p)
        PROVE  RunsWhatFileSays'
    BY <1>1, <1>9
    DEF Launch, Close, FetchFirst, Delete, EditPins, EditKey, Change, Check, Refuse,
        Download, disk
  <1>10. CASE UNCHANGED vars
    BY <1>1, <1>10 DEF vars
  <1>11. QED
    BY <1>2, <1>3, <1>4, <1>5, <1>6, <1>7, <1>8, <1>9, <1>10 DEF Next

\* Whatever uploads are cut off, stopped or overlap: unless one was given up, a
\* running server to which nobody uploads runs on what its file says.
THEOREM AlwaysRunsItsFile == Spec => []RunsWhatFileSays
  <1>1. Init => RunsWhatFileSays
    BY DEF Init, RunsWhatFileSays, Parse
  <1>2. QED  BY <1>1, InitTyped, NextTyped, NextRuns, PTL DEF Spec

-----------------------------------------------------------------------------
(* What the actions of the app do to one phone and leave of the others.    *)

\* The actions that open a page or fetch the first file: whoever enters the main
\* page has read the file the phone has.
LEMMA PageStep ==
  ASSUME Typed, NEW p \in Phones, Launch(p) \/ FetchFirst(p) \/ Delete(p)
  PROVE  /\ UNCHANGED <<disk, upload, payload, offer, fresh, made, forked, stale, mishap>>
         /\ offer[p] = "none"
         /\ \A q \in Phones : q # p => /\ app'[q] = app[q] /\ conf'[q] = conf[q]
                                       /\ phone'[q] = phone[q]
         /\ app'[p] = "main" => conf'[p] = phone'[p]
         /\ phone'[p] \in {phone[p], Absent, Broken, Parse(file)}
         /\ conf'[p] \in {conf[p], phone'[p]}
  <1> USE DEF Typed, TypeOK, OffersInMain, OnCreate
  <1>1. CASE Launch(p)
    BY <1>1 DEF Launch, disk
  <1>2. CASE FetchFirst(p)
    <2>1. PICK got \in {Broken, Parse(file)} :
             /\ phone' = [phone EXCEPT ![p] = got]
             /\ \/ OnCreate(p, got)
                \/ got = Broken /\ UNCHANGED <<app, conf>>
      BY <1>2 DEF FetchFirst
    <2>2. app[p] = "first" /\ offer[p] = "none"
      BY <1>2 DEF FetchFirst
    <2>3. /\ UNCHANGED <<disk, upload, payload, offer, fresh, made, forked, stale, mishap>>
      BY <1>2 DEF FetchFirst, disk
    <2>4. phone'[p] = got /\ \A q \in Phones : q # p => phone'[q] = phone[q]
      BY <2>1
    <2>5. CASE OnCreate(p, got)
      BY <2>2, <2>3, <2>4, <2>5
    <2>6. CASE UNCHANGED <<app, conf>>
      BY <2>2, <2>3, <2>4, <2>6
    <2>7. QED  BY <2>1, <2>5, <2>6
  <1>3. CASE Delete(p)
    BY <1>3 DEF Delete, disk
  <1>4. QED  BY <1>1, <1>2, <1>3

\* An edit makes the phone's file newer; only an edit with no dialog open is read
\* into MainActivity.conf.
LEMMA ChangeStep ==
  ASSUME Typed, NEW p \in Phones, EditPins(p) \/ EditKey(p)
  PROVE  /\ UNCHANGED <<disk, upload, payload, app, offer, fresh, stale, mishap>>
         /\ \A q \in Phones : q # p => conf'[q] = conf[q] /\ phone'[q] = phone[q]
         /\ phone[p] \in Contents /\ phone'[p] \in Contents
         /\ phone'[p].version > phone[p].version
         /\ \E e \in Edits \ made : /\ phone'[p].edits = phone[p].edits \cup {e}
                                    /\ made' = made \cup {e}
         /\ forked' = (forked \/ ~(made \subseteq phone[p].edits))
         /\ conf'[p] = conf[p] \/ (offer[p] = "none" /\ conf'[p] = phone'[p])
  <1>1. PICK n \in {1, 2} : Change(p, n)
    BY DEF EditPins, EditKey
  <1>2. PICK e \in Edits \ made : /\ phone' = [phone EXCEPT ![p] = Edited(p, n, e)]
                                 /\ made' = made \cup {e}
    BY <1>1 DEF Change
  <1>3. phone[p] \in Contents /\ Edited(p, n, e) \in Contents
    BY <1>1, EditedType DEF Change, Typed, TypeOK, MainHasFile
  <1>4. phone'[p] = Edited(p, n, e) /\ \A q \in Phones : q # p => phone'[q] = phone[q]
    BY <1>2 DEF Typed, TypeOK
  <1>5. phone[p].version \in Nat
    BY <1>3 DEF Contents
  <1>6. phone'[p].version > phone[p].version /\ phone'[p].edits = phone[p].edits \cup {e}
    BY <1>4, <1>5 DEF Edited
  <1>7. /\ \A q \in Phones : q # p => conf'[q] = conf[q]
        /\ conf'[p] = conf[p] \/ (offer[p] = "none" /\ conf'[p] = phone'[p])
    BY DEF EditPins, EditKey, Typed, TypeOK
  <1>8. /\ UNCHANGED <<disk, upload, payload, app, offer, fresh, stale, mishap>>
        /\ forked' = (forked \/ ~(made \subseteq phone[p].edits))
    BY <1>1 DEF Change, disk
  <1>9. QED  BY <1>2, <1>3, <1>4, <1>6, <1>7, <1>8

-----------------------------------------------------------------------------
(* A fresh upload replaces the configuration by a newer one.  While the    *)
(* offer is fresh nobody writes, so that the file on the server is the one *)
(* whose counter was compared; and the phone's file may have been edited   *)
(* since, never set back: a page is entered with the file just read.       *)

\* The process ends with all its threads.
EndedWithServer == server # "up" => \A p \in Phones : upload[p] = "none"

\* The file of an open page is no older than what is in memory, unless broken.
PhoneKeepsUp ==
  \A p \in Phones : app[p] = "main" /\ conf[p] \in Contents /\ phone[p] \in Contents =>
    conf[p].version <= phone[p].version

\* The comparison behind a fresh offer still holds.
FreshOffers ==
  \A p \in Phones : offer[p] = "upload" /\ fresh[p] =>
    Writing = {} /\ upload[p] = "none" /\ VersionOf(conf[p]) > VersionOf(Parse(file))

\* And so it does until the upload opens the file.
FreshAsked ==
  \A p \in Phones : upload[p] = "asked" /\ fresh[p] =>
    /\ Writing = {}
    /\ payload[p] # Broken => payload[p].version > VersionOf(Parse(file))

FreshAlone == \A p \in Writing : fresh[p] => Writing = {p}

Compared == /\ EndedWithServer /\ PhoneKeepsUp /\ FreshOffers /\ FreshAsked /\ FreshAlone
            /\ RunsWhatFileSays /\ FreshUploadsAreNewer

LEMMA VersionType ==
  ASSUME NEW f \in Contents \cup {Broken, None}
  PROVE  VersionOf(f) \in Nat /\ (f \in Contents => VersionOf(f) = f.version)
  BY DEF VersionOf, Contents

LEMMA InitCompared == Init => Compared
  BY DEF Init, Compared, EndedWithServer, PhoneKeepsUp, FreshOffers, FreshAsked, FreshAlone,
         RunsWhatFileSays, FreshUploadsAreNewer, Writing, Parse

LEMMA PageCompared ==
  ASSUME Typed, Compared, NEW p \in Phones,
         Launch(p) \/ FetchFirst(p) \/ Delete(p)
  PROVE  Compared'
  <1> USE DEF Compared, disk
  <1>1. EndedWithServer' /\ RunsWhatFileSays' /\ FreshUploadsAreNewer'
    BY PageStep DEF EndedWithServer, RunsWhatFileSays, FreshUploadsAreNewer, Writing
  <1>2. FreshAsked' /\ FreshAlone'
    BY PageStep DEF FreshAsked, FreshAlone, Writing
  <1>3. FreshOffers'
    BY PageStep DEF FreshOffers, Writing
  <1>4. ASSUME NEW q \in Phones, app'[q] = "main", conf'[q] \in Contents, phone'[q] \in Contents
        PROVE  conf'[q].version <= phone'[q].version
    <2>1. CASE q = p
      <3>1. conf'[q] = phone'[q]
        BY <1>4, <2>1, PageStep
      <3>2. QED  BY <1>4, <3>1 DEF Contents
    <2>2. CASE q # p
      BY <1>4, <2>2, PageStep DEF PhoneKeepsUp
    <2>3. QED  BY <2>1, <2>2
  <1>5. QED  BY <1>1, <1>2, <1>3, <1>4 DEF PhoneKeepsUp

LEMMA ChangeCompared ==
  ASSUME Typed, Compared, NEW p \in Phones, EditPins(p) \/ EditKey(p)
  PROVE  Compared'
  <1> USE DEF Compared, disk
  <1>1. EndedWithServer' /\ RunsWhatFileSays' /\ FreshUploadsAreNewer'
    BY ChangeStep DEF EndedWithServer, RunsWhatFileSays, FreshUploadsAreNewer, Writing
  <1>2. FreshAsked' /\ FreshAlone'
    BY ChangeStep DEF FreshAsked, FreshAlone, Writing
  <1>3. FreshOffers'
    BY ChangeStep DEF FreshOffers, Writing
  <1>4. ASSUME NEW q \in Phones, app'[q] = "main", conf'[q] \in Contents, phone'[q] \in Contents
        PROVE  conf'[q].version <= phone'[q].version
    <2>1. CASE q = p
      <3>1. CASE conf'[q] = phone'[q]
        BY <1>4, <3>1 DEF Contents
      <3>2. CASE conf'[q] = conf[q]
        <4>1. conf[q].version <= phone[q].version
          BY <1>4, <2>1, <3>2, ChangeStep DEF PhoneKeepsUp
        <4>2. phone[q].version < phone'[q].version
          BY <2>1, ChangeStep
        <4>3. conf[q].version \in Nat /\ phone[q].version \in Nat /\ phone'[q].version \in Nat
          BY <1>4, <2>1, <3>2, ChangeStep DEF Contents
        <4>4. QED  BY <3>2, <4>1, <4>2, <4>3
      <3>3. QED  BY <2>1, <3>1, <3>2, ChangeStep
    <2>2. CASE q # p
      BY <1>4, <2>2, ChangeStep DEF PhoneKeepsUp
    <2>3. QED  BY <2>1, <2>2
  <1>5. QED  BY <1>1, <1>2, <1>3, <1>4 DEF PhoneKeepsUp

LEMMA CloseCompared ==
  ASSUME Typed, Compared, NEW p \in Phones, Close(p)
  PROVE  Compared'
  <1> USE DEF Compared, disk, Close, Typed, TypeOK
  <1>1. EndedWithServer' /\ RunsWhatFileSays' /\ FreshUploadsAreNewer'
    BY DEF EndedWithServer, RunsWhatFileSays, FreshUploadsAreNewer, Writing
  <1>2. FreshAsked' /\ FreshAlone'
    BY DEF FreshAsked, FreshAlone, Writing
  <1>3. FreshOffers'
    BY DEF FreshOffers, Writing
  <1>4. PhoneKeepsUp'
    BY DEF PhoneKeepsUp
  <1>5. QED  BY <1>1, <1>2, <1>3, <1>4

LEMMA CheckCompared ==
  ASSUME Typed, Compared, NEW p \in Phones, Check(p)
  PROVE  Compared'
  <1> USE DEF Compared, disk, phones
  <1>0. /\ UNCHANGED <<disk, upload, payload, phones, stale, mishap>>
        /\ \A q \in Phones : q # p => offer'[q] = offer[q] /\ fresh'[q] = fresh[q]
        /\ fresh'[p] <=> upload[p] = "none" /\ Writing = {}
        /\ offer'[p] = "upload" => VersionOf(conf[p]) > VersionOf(Parse(file))
    BY DEF Check, Typed, TypeOK
  <1>1. EndedWithServer' /\ RunsWhatFileSays' /\ PhoneKeepsUp'
    BY <1>0 DEF EndedWithServer, RunsWhatFileSays, PhoneKeepsUp, Writing
  <1>2. FreshUploadsAreNewer'
    BY <1>0 DEF FreshUploadsAreNewer
  <1>3. FreshAsked' /\ FreshAlone'
    BY <1>0 DEF FreshAsked, FreshAlone, Writing
  <1>4. FreshOffers'
    BY <1>0 DEF FreshOffers, Writing
  <1>5. QED  BY <1>1, <1>2, <1>3, <1>4

LEMMA AnswerCompared ==
  ASSUME Typed, Compared, NEW p \in Phones, Refuse(p) \/ Download(p)
  PROVE  Compared'
  <1> USE DEF Compared, disk, phones
  <1>0. /\ UNCHANGED <<disk, upload, payload, app, conf, fresh, stale, mishap>>
        /\ \A q \in Phones : q # p => offer'[q] = offer[q] /\ phone'[q] = phone[q]
        /\ offer'[p] = "none" /\ phone'[p] \in {phone[p], Broken}
    BY DEF Refuse, Download, Typed, TypeOK
  <1>1. EndedWithServer' /\ RunsWhatFileSays' /\ FreshUploadsAreNewer'
    BY <1>0 DEF EndedWithServer, RunsWhatFileSays, FreshUploadsAreNewer, Writing
  <1>2. FreshAsked' /\ FreshAlone'
    BY <1>0 DEF FreshAsked, FreshAlone, Writing
  <1>3. FreshOffers'
    BY <1>0 DEF FreshOffers, Writing
  <1>4. PhoneKeepsUp'
    BY <1>0 DEF PhoneKeepsUp
  <1>5. QED  BY <1>1, <1>2, <1>3, <1>4

\* What a fresh upload sends is newer than the file it was compared with.
LEMMA UploadIsNewer ==
  ASSUME Typed, Compared, NEW p \in Phones, Upload(p), fresh[p], phone[p] # Broken
  PROVE  /\ phone[p] \in Contents /\ conf[p] \in Contents
         /\ conf[p].version <= phone[p].version
         /\ phone[p].version > VersionOf(Parse(file))
  <1>1. app[p] = "main" /\ VersionOf(conf[p]) > VersionOf(Parse(file))
    BY DEF Upload, Compared, FreshOffers, Typed, OffersInMain
  <1>2. phone[p] \in Contents
    BY <1>1 DEF Typed, TypeOK, MainHasFile
  <1>3. VersionOf(Parse(file)) \in Nat
    BY ParseType, VersionType DEF Typed, TypeOK
  <1>4. conf[p] \in Contents
    <2>1. CASE conf[p] \in {Broken, None}
      BY <1>1, <1>3, <2>1 DEF VersionOf
    <2>2. QED  BY <2>1 DEF Typed, TypeOK
  <1>5. conf[p].version <= phone[p].version
    BY <1>1, <1>2, <1>4 DEF Compared, PhoneKeepsUp
  <1>6. conf[p].version > VersionOf(Parse(file))
    BY <1>1, <1>4, VersionType
  <1>7. conf[p].version \in Nat /\ phone[p].version \in Nat
    BY <1>2, <1>4 DEF Contents
  <1>8. QED  BY <1>2, <1>3, <1>4, <1>5, <1>6, <1>7

LEMMA UploadCompared ==
  ASSUME Typed, Compared, NEW p \in Phones, Upload(p)
  PROVE  Compared'
  <1> USE DEF Compared, disk, phones
  <1>0. /\ UNCHANGED <<file, server, running, abandoned, phones, fresh>>
        /\ \A q \in Phones : q # p => /\ offer'[q] = offer[q] /\ upload'[q] = upload[q]
                                      /\ payload'[q] = payload[q]
        /\ offer'[p] = "none" /\ upload'[p] = "asked" /\ payload'[p] = phone[p]
        /\ offer[p] = "upload" /\ upload[p] = "none" /\ server = "up"
    BY DEF Upload, Typed, TypeOK
  <1>1. Writing' = Writing
    BY <1>0 DEF Writing
  <1>2. EndedWithServer' /\ PhoneKeepsUp' /\ RunsWhatFileSays'
    BY <1>0, <1>1 DEF EndedWithServer, RunsWhatFileSays, PhoneKeepsUp
  <1>3. FreshOffers' /\ FreshAlone'
    BY <1>0, <1>1 DEF FreshOffers, FreshAlone
  <1>4. ASSUME fresh[p] PROVE Writing = {}
    BY <1>0, <1>4 DEF FreshOffers
  <1>5. FreshAsked'
    BY <1>0, <1>1, <1>4, UploadIsNewer DEF FreshAsked
  <1>6. ASSUME fresh[p], ~abandoned PROVE running = Parse(file)
    BY <1>0, <1>4, <1>6 DEF RunsWhatFileSays
  <1>7. FreshUploadsAreNewer'
    BY <1>0, <1>6, UploadIsNewer DEF FreshUploadsAreNewer
  <1>8. QED  BY <1>2, <1>3, <1>5, <1>7

LEMMA OpenCompared ==
  ASSUME Typed, Compared, NEW p \in Phones, Open(p)
  PROVE  Compared'
  <1> USE DEF Compared, phones
  <1>0. /\ UNCHANGED <<server, running, payload, phones, offer, abandoned>>
        /\ upload[p] = "asked" /\ upload' = [upload EXCEPT ![p] = "open"]
        /\ fresh' = [q \in Phones |-> q = p /\ fresh[p]]
    BY DEF Open
  <1>1. Writing' = Writing \cup {p}
    BY <1>0 DEF Writing, Typed, TypeOK
  <1>2. EndedWithServer' /\ PhoneKeepsUp' /\ RunsWhatFileSays'
    BY <1>0, <1>1 DEF EndedWithServer, RunsWhatFileSays, PhoneKeepsUp, Typed, TypeOK
  <1>3. FreshOffers' /\ FreshAsked'
    BY <1>0 DEF FreshOffers, FreshAsked, Typed, TypeOK
  <1>4. ASSUME NEW q \in Writing', fresh'[q] PROVE Writing' = {q}
    <2>1. q \in Phones
      BY <1>4 DEF Writing
    <2>2. q = p /\ fresh[p]
      BY <1>0, <1>4, <2>1
    <2>3. QED  BY <1>0, <1>1, <2>2 DEF FreshAsked
  <1>5. FreshUploadsAreNewer'
    BY <1>0 DEF FreshUploadsAreNewer, Typed, TypeOK
  <1>6. QED  BY <1>2, <1>3, <1>4, <1>5 DEF FreshAlone

LEMMA WriteCompared ==
  ASSUME Typed, Compared, NEW p \in Phones, WriteFirst(p) \/ WriteRest(p)
  PROVE  Compared'
  <1> USE DEF Compared, phones
  <1>0. /\ UNCHANGED <<server, running, payload, phones, offer, fresh, abandoned>>
        /\ p \in Writing /\ upload'[p] \in {"half", "full"}
        /\ \A q \in Phones : q # p => upload'[q] = upload[q]
    BY DEF WriteFirst, WriteRest, Write, Writing, Typed, TypeOK
  <1>1. Writing' = Writing
    BY <1>0 DEF Writing
  <1>2. EndedWithServer' /\ PhoneKeepsUp' /\ RunsWhatFileSays'
    BY <1>0, <1>1 DEF EndedWithServer, RunsWhatFileSays, PhoneKeepsUp, Writing
  <1>3. FreshOffers' /\ FreshAlone'
    BY <1>0, <1>1 DEF FreshOffers, FreshAlone
  <1>4. FreshAsked'
    BY <1>0, <1>1 DEF FreshAsked
  <1>5. FreshUploadsAreNewer'
    BY <1>0 DEF FreshUploadsAreNewer, Writing
  <1>6. QED  BY <1>2, <1>3, <1>4, <1>5

\* Nobody writes any more when the process ends; a fresh offer was made when
\* nobody did.
LEMMA EndCompared ==
  ASSUME Typed, Compared, NEW to \in {"exiting", "stopped"}, EndProcess(to)
  PROVE  Compared'
  <1> USE DEF Compared, phones, EndProcess
  <1>1. Writing' = {}
    BY DEF Writing
  <1>2. EndedWithServer' /\ PhoneKeepsUp' /\ RunsWhatFileSays'
    BY DEF EndedWithServer, RunsWhatFileSays, PhoneKeepsUp
  <1>3. FreshOffers' /\ FreshAlone' /\ FreshAsked' /\ FreshUploadsAreNewer'
    BY <1>1 DEF FreshOffers, FreshAlone, FreshAsked, FreshUploadsAreNewer
  <1>4. QED  BY <1>2, <1>3

LEMMA GiveUpCompared ==
  ASSUME Typed, Compared, RunsWhatFileSays', NEW p \in Phones, GiveUp(p)
  PROVE  Compared'
  <1> USE DEF Compared, phones
  <1>0. /\ UNCHANGED <<file, server, running, phones, offer, fresh>>
        /\ upload'[p] = "none" /\ (abandoned => abandoned')
        /\ \A q \in Phones : q # p => upload'[q] = upload[q] /\ payload'[q] = payload[q]
    BY DEF GiveUp, Typed, TypeOK
  <1>1. Writing' = Writing \ {p}
    BY <1>0 DEF Writing
  <1>2. EndedWithServer' /\ PhoneKeepsUp'
    BY <1>0 DEF EndedWithServer, PhoneKeepsUp
  <1>3. FreshOffers' /\ FreshAlone' /\ FreshAsked'
    BY <1>0, <1>1 DEF FreshOffers, FreshAlone, FreshAsked
  <1>4. FreshUploadsAreNewer'
    BY <1>0 DEF FreshUploadsAreNewer
  <1>5. QED  BY <1>2, <1>3, <1>4

LEMMA StartCompared ==
  ASSUME Typed, Compared, StartStopped \/ Restart
  PROVE  Compared'
  <1> USE DEF Compared, phones, StartStopped, Restart, Start
  <1>1. \A p \in Phones : upload'[p] = "none"
    BY DEF EndedWithServer
  <1>2. EndedWithServer' /\ PhoneKeepsUp' /\ RunsWhatFileSays' /\ FreshUploadsAreNewer'
    BY <1>1 DEF EndedWithServer, RunsWhatFileSays, PhoneKeepsUp, FreshUploadsAreNewer
  <1>3. FreshOffers' /\ FreshAlone' /\ FreshAsked'
    BY DEF FreshOffers, FreshAlone, FreshAsked, Writing
  <1>4. QED  BY <1>2, <1>3

LEMMA NextCompared == Typed /\ Compared /\ [Next]_vars => Compared'
  <1> SUFFICES ASSUME Typed, Compared, [Next]_vars PROVE Compared'
    OBVIOUS
  <1>1. ASSUME NEW p \in Phones, Launch(p) \/ FetchFirst(p) \/ Delete(p) PROVE Compared'
    BY <1>1, PageCompared
  <1>2. ASSUME NEW p \in Phones, EditPins(p) \/ EditKey(p) PROVE Compared'
    BY <1>2, ChangeCompared
  <1>3. ASSUME NEW p \in Phones, Close(p) \/ Check(p) \/ Upload(p) PROVE Compared'
    BY <1>3, CloseCompared, CheckCompared, UploadCompared
  <1>4. ASSUME NEW p \in Phones, Refuse(p) \/ Download(p) PROVE Compared'
    BY <1>4, AnswerCompared
  <1>5. ASSUME NEW p \in Phones, Open(p) PROVE Compared'
    BY <1>5, OpenCompared
  <1>6. ASSUME NEW p \in Phones, WriteFirst(p) \/ WriteRest(p) PROVE Compared'
    BY <1>6, WriteCompared
  <1>7. ASSUME NEW p \in Phones, Finish(p) \/ Stop PROVE Compared'
    BY <1>7, EndCompared DEF Finish, Stop
  <1>8. ASSUME NEW p \in Phones, GiveUp(p) PROVE Compared'
    BY <1>8, NextRuns, GiveUpCompared DEF Compared
  <1>9. CASE Stop \/ StartStopped \/ Restart
    BY <1>9, EndCompared, StartCompared DEF Stop
  <1>10. CASE UNCHANGED vars
    BY <1>10
    DEF vars, Compared, EndedWithServer, PhoneKeepsUp, FreshOffers, FreshAsked, FreshAlone,
        RunsWhatFileSays, FreshUploadsAreNewer, Writing
  <1>11. QED
    BY <1>1, <1>2, <1>3, <1>4, <1>5, <1>6, <1>7, <1>8, <1>9, <1>10 DEF Next

\* Whatever the other phones do between the comparison and the user's answer, an
\* upload that was offered while nobody wrote, and before which no other one
\* opened the file, sends a configuration newer than the one the server runs on.
THEOREM FreshIsNewer == Spec => []FreshUploadsAreNewer
  <1>1. Compared => FreshUploadsAreNewer
    BY DEF Compared
  <1>2. QED  BY <1>1, InitTyped, NextTyped, InitCompared, NextCompared, PTL DEF Spec

-----------------------------------------------------------------------------
(* While no upload was cut off, overlapped or stale, the server's file is  *)
(* whole and its counter only grows.  The files that downloads broke on a  *)
(* phone have counters in memory which that growth has passed, so that no  *)
(* comparison offers to upload them.                                       *)

Calm == ~mishap /\ ~stale

\* The one who writes sends a newer file, and has written so much of it.
OneWriter ==
  \A p \in Writing :
    /\ Writing = {p}
    /\ payload[p] \in Contents /\ payload[p].version > running.version
    /\ upload[p] = "open" => file = <<Broken, Broken>>
    /\ upload[p] = "half" => file = <<payload[p], Broken>>
    /\ upload[p] = "full" => file = <<payload[p], payload[p]>>

WholeFile ==
  Writing = {} => Parse(file) \in Contents /\ Parse(file).version >= running.version

\* The counter n is not above the server's, or the one that is being uploaded.
Reached(n) ==
  IF Writing = {} THEN n <= VersionOf(Parse(file))
                  ELSE \A w \in Writing : n <= payload[w].version

\* A broken file, and one that may be replaced by one, is no candidate for upload.
BrokenBehind ==
  \A p \in Phones :
    (app[p] = "main" /\ phone[p] = Broken) \/ offer[p] = "download" =>
      Reached(VersionOf(conf[p]))

FreshWhole == \A p \in Phones : upload[p] = "asked" /\ fresh[p] => payload[p] # Broken

Steady ==
  Calm => running \in Contents /\ OneWriter /\ WholeFile /\ BrokenBehind /\ FreshWhole

LEMMA InitSteady == Init => Steady
  <1> SUFFICES ASSUME Init PROVE Steady
    OBVIOUS
  <1>1. Writing = {} /\ Parse(file) = Original /\ Original.version = 0
    BY DEF Init, Writing, Parse, Original
  <1>2. running \in Contents /\ OneWriter /\ WholeFile /\ FreshWhole
    BY <1>1, OriginalIsContent DEF Init, OneWriter, WholeFile, FreshWhole
  <1>3. BrokenBehind
    BY DEF Init, BrokenBehind
  <1>4. QED  BY <1>2, <1>3 DEF Steady

\* A counter below the server's is below what is being uploaded.
LEMMA BelowReached ==
  ASSUME Typed, OneWriter, NEW n \in Nat, n <= VersionOf(Parse(file))
  PROVE  Reached(n)
  <1>1. ASSUME NEW w \in Writing PROVE n <= payload[w].version
    <2>1. payload[w] \in Contents /\ payload[w].version \in Nat
      BY <1>1 DEF OneWriter, Contents
    <2>2. Parse(file) \in {Broken, payload[w]}
      BY <1>1 DEF OneWriter, Parse, Writing
    <2>3. VersionOf(Parse(file)) <= payload[w].version
      BY <2>1, <2>2, VersionType DEF VersionOf
    <2>4. VersionOf(Parse(file)) \in Nat
      BY <2>1, <2>2, VersionType
    <2>5. QED  BY <2>1, <2>3, <2>4
  <1>2. QED  BY <1>1 DEF Reached

LEMMA NoneReached == ASSUME Typed, OneWriter PROVE Reached(0)
  <1>1. 0 <= VersionOf(Parse(file))
    BY ParseType, VersionType DEF Typed, TypeOK
  <1>2. QED  BY <1>1, BelowReached

\* What the app does on its pages changes neither the file nor the uploads.
LEMMA AppSteady ==
  ASSUME Typed, Steady, NEW p \in Phones,
         UNCHANGED <<file, running, upload, payload, fresh, stale, mishap>>,
         \A q \in Phones : q # p => /\ app'[q] = app[q] /\ phone'[q] = phone[q]
                                    /\ conf'[q] = conf[q] /\ offer'[q] = offer[q],
         (app'[p] = "main" /\ phone'[p] = Broken) \/ offer'[p] = "download" =>
           \/ conf'[p] = Broken
           \/ /\ (app[p] = "main" /\ phone[p] = Broken) \/ offer[p] = "download"
              /\ conf'[p] = conf[p]
  PROVE  Steady'
  <1> SUFFICES ASSUME Calm'
               PROVE  (running \in Contents /\ OneWriter /\ WholeFile /\ BrokenBehind /\ FreshWhole)'
    BY DEF Steady
  <1>1. running \in Contents /\ OneWriter /\ WholeFile /\ BrokenBehind /\ FreshWhole
    BY DEF Steady, Calm
  <1>2. Writing' = Writing
    BY DEF Writing
  <1>3. (running \in Contents)' /\ OneWriter' /\ WholeFile' /\ FreshWhole'
    BY <1>1, <1>2 DEF OneWriter, WholeFile, FreshWhole
  <1>4. \A n : Reached(n)' = Reached(n)
    BY <1>2 DEF Reached
  <1>5. ASSUME NEW q \in Phones, (app'[q] = "main" /\ phone'[q] = Broken) \/ offer'[q] = "download"
        PROVE  Reached(VersionOf(conf'[q]))
    <2>1. CASE conf'[q] = Broken
      BY <1>1, <2>1, NoneReached DEF VersionOf
    <2>2. CASE conf'[q] # Broken
      BY <1>1, <1>5, <2>2 DEF BrokenBehind
    <2>3. QED  BY <2>1, <2>2
  <1>6. BrokenBehind'
    BY <1>4, <1>5 DEF BrokenBehind, VersionOf
  <1>7. QED  BY <1>3, <1>6

LEMMA PageSteady ==
  ASSUME Typed, Steady, NEW p \in Phones,
         Launch(p) \/ FetchFirst(p) \/ Delete(p) \/ EditPins(p) \/ EditKey(p) \/ Refuse(p)
         \/ Close(p) \/ Download(p)
  PROVE  Steady'
  <1> USE DEF disk, phones
  <1>1. CASE Launch(p) \/ FetchFirst(p) \/ Delete(p)
    BY <1>1, PageStep, AppSteady
  <1>2. CASE EditPins(p) \/ EditKey(p)
    BY <1>2, ChangeStep, AppSteady DEF Contents
  <1>3. CASE Refuse(p)
    <2>1. /\ UNCHANGED <<file, running, upload, payload, fresh, stale, mishap, phone, conf, app>>
          /\ offer'[p] = "none" /\ \A q \in Phones : q # p => offer'[q] = offer[q]
      BY <1>3 DEF Refuse, Typed, TypeOK
    <2>2. QED  BY <2>1, AppSteady
  <1>4. CASE Close(p)
    <2>1. /\ UNCHANGED <<file, running, upload, payload, fresh, stale, mishap, phone>>
          /\ offer'[p] = "none" /\ app'[p] = "closed"
          /\ \A q \in Phones : q # p => /\ offer'[q] = offer[q] /\ conf'[q] = conf[q]
                                        /\ app'[q] = app[q]
      BY <1>4 DEF Close, Typed, TypeOK
    <2>2. QED  BY <2>1, AppSteady
  <1>5. CASE Download(p)
    <2>1. /\ UNCHANGED <<file, running, upload, payload, fresh, stale, mishap, conf, app>>
          /\ offer[p] = "download"
          /\ \A q \in Phones : q # p => offer'[q] = offer[q] /\ phone'[q] = phone[q]
      BY <1>5 DEF Download, Typed, TypeOK
    <2>2. QED  BY <2>1, AppSteady
  <1>6. QED  BY <1>1, <1>2, <1>3, <1>4, <1>5

LEMMA CheckSteady ==
  ASSUME Typed, Steady, NEW p \in Phones, Check(p)
  PROVE  Steady'
  <1> USE DEF disk, phones
  <1> SUFFICES ASSUME Calm'
               PROVE  (running \in Contents /\ OneWriter /\ WholeFile /\ BrokenBehind /\ FreshWhole)'
    BY DEF Steady
  <1>1. /\ UNCHANGED <<disk, upload, payload, phones, stale, mishap>>
        /\ \A q \in Phones : q # p => offer'[q] = offer[q] /\ fresh'[q] = fresh[q]
        /\ fresh'[p] => upload[p] = "none"
        /\ offer'[p] = "download" => VersionOf(conf[p]) < VersionOf(Parse(file))
    BY DEF Check, Typed, TypeOK
  <1>2. running \in Contents /\ OneWriter /\ WholeFile /\ BrokenBehind /\ FreshWhole
    BY <1>1 DEF Steady, Calm
  <1>3. Writing' = Writing
    BY <1>1 DEF Writing
  <1>4. (running \in Contents)' /\ OneWriter' /\ WholeFile' /\ FreshWhole'
    BY <1>1, <1>2, <1>3 DEF OneWriter, WholeFile, FreshWhole
  <1>5. \A n : Reached(n)' = Reached(n)
    BY <1>1, <1>3 DEF Reached
  <1>6. ASSUME offer'[p] = "download" PROVE Reached(VersionOf(conf[p]))
    <2>1. VersionOf(conf[p]) \in Nat /\ VersionOf(Parse(file)) \in Nat
      BY ParseType, VersionType DEF Typed, TypeOK
    <2>2. QED  BY <1>1, <1>2, <1>6, <2>1, BelowReached
  <1>7. BrokenBehind'
    BY <1>1, <1>2, <1>5, <1>6 DEF BrokenBehind, VersionOf
  <1>8. QED  BY <1>4, <1>7

\* A phone whose file is broken has no offer to upload it that is fresh.
LEMMA UploadSteady ==
  ASSUME Typed, Compared, Steady, NEW p \in Phones, Upload(p)
  PROVE  Steady'
  <1> USE DEF disk, phones
  <1> SUFFICES ASSUME Calm'
               PROVE  (running \in Contents /\ OneWriter /\ WholeFile /\ BrokenBehind /\ FreshWhole)'
    BY DEF Steady
  <1>1. /\ UNCHANGED <<file, running, phones, fresh, stale, mishap>>
        /\ \A q \in Phones : q # p => /\ offer'[q] = offer[q] /\ upload'[q] = upload[q]
                                      /\ payload'[q] = payload[q]
        /\ offer'[p] = "none" /\ upload'[p] = "asked" /\ payload'[p] = phone[p]
        /\ offer[p] = "upload" /\ upload[p] = "none"
    BY DEF Upload, Typed, TypeOK
  <1>2. running \in Contents /\ OneWriter /\ WholeFile /\ BrokenBehind /\ FreshWhole
    BY <1>1 DEF Steady, Calm
  <1>3. Writing' = Writing /\ p \notin Writing
    BY <1>1 DEF Writing
  <1>4. (running \in Contents)' /\ WholeFile'
    BY <1>1, <1>2, <1>3 DEF WholeFile
  <1>5. OneWriter'
    BY <1>1, <1>2, <1>3 DEF OneWriter, Writing
  <1>6. \A n : Reached(n)' = Reached(n)
    BY <1>1, <1>3 DEF Reached, Writing
  <1>7. BrokenBehind'
    BY <1>1, <1>2, <1>6 DEF BrokenBehind, VersionOf
  <1>8. ASSUME fresh[p] PROVE phone[p] # Broken
    <2>1. app[p] = "main" /\ Writing = {} /\ VersionOf(conf[p]) > VersionOf(Parse(file))
      BY <1>1, <1>8 DEF Compared, FreshOffers, Typed, OffersInMain
    <2>2. VersionOf(conf[p]) \in Nat /\ VersionOf(Parse(file)) \in Nat
      BY ParseType, VersionType DEF Typed, TypeOK
    <2>3. ~Reached(VersionOf(conf[p]))
      BY <2>1, <2>2 DEF Reached
    <2>4. QED  BY <1>2, <2>1, <2>3 DEF BrokenBehind
  <1>9. FreshWhole'
    BY <1>1, <1>2, <1>8 DEF FreshWhole
  <1>10. QED  BY <1>4, <1>5, <1>7, <1>9

LEMMA OpenSteady ==
  ASSUME Typed, Compared, Steady, NEW p \in Phones, Open(p)
  PROVE  Steady'
  <1> USE DEF phones
  <1> SUFFICES ASSUME Calm'
               PROVE  (running \in Contents /\ OneWriter /\ WholeFile /\ BrokenBehind /\ FreshWhole)'
    BY DEF Steady
  <1>1. /\ UNCHANGED <<running, payload, phones, offer>>
        /\ file' = <<Broken, Broken>> /\ Writing = {}
        /\ upload[p] = "asked" /\ upload'[p] = "open"
        /\ \A q \in Phones : q # p => upload'[q] = upload[q] /\ ~fresh'[q]
        /\ fresh[p] /\ Calm
    BY DEF Open, Calm, Typed, TypeOK
  <1>2. running \in Contents /\ OneWriter /\ WholeFile /\ BrokenBehind /\ FreshWhole
    BY <1>1 DEF Steady
  <1>3. Writing' = {p}
    BY <1>1 DEF Writing
  <1>4. payload[p] \in Contents /\ payload[p].version > VersionOf(Parse(file))
    BY <1>1, <1>2 DEF FreshWhole, Compared, FreshAsked, Typed, TypeOK, UploadsSend
  <1>5. Parse(file) \in Contents /\ VersionOf(Parse(file)) >= running.version
    BY <1>1, <1>2, VersionType DEF WholeFile
  <1>6. payload[p].version \in Nat /\ running.version \in Nat /\ VersionOf(Parse(file)) \in Nat
    BY <1>2, <1>4, <1>5, VersionType DEF Contents
  <1>7. payload[p].version > running.version
    BY <1>4, <1>5, <1>6
  <1>8. (running \in Contents)' /\ WholeFile' /\ FreshWhole'
    BY <1>1, <1>2, <1>3 DEF WholeFile, FreshWhole
  <1>9. OneWriter'
    BY <1>1, <1>3, <1>4, <1>7 DEF OneWriter
  <1>10. ASSUME NEW q \in Phones, Reached(VersionOf(conf[q])) PROVE Reached(VersionOf(conf[q]))'
    <2>1. VersionOf(conf[q]) \in Nat /\ VersionOf(conf[q])' = VersionOf(conf[q])
      BY <1>1, VersionType DEF Typed, TypeOK, VersionOf
    <2>2. VersionOf(conf[q]) <= payload[p].version
      BY <1>1, <1>4, <1>6, <1>10, <2>1 DEF Reached
    <2>3. QED  BY <1>1, <1>3, <2>1, <2>2 DEF Reached
  <1>11. BrokenBehind'
    BY <1>1, <1>2, <1>10 DEF BrokenBehind
  <1>12. QED  BY <1>8, <1>9, <1>11

LEMMA WriteSteady ==
  ASSUME Typed, Steady, NEW p \in Phones, WriteFirst(p) \/ WriteRest(p)
  PROVE  Steady'
  <1> USE DEF phones
  <1> SUFFICES ASSUME Calm'
               PROVE  (running \in Contents /\ OneWriter /\ WholeFile /\ BrokenBehind /\ FreshWhole)'
    BY DEF Steady
  <1>1. /\ UNCHANGED <<running, payload, phones, offer, fresh, stale, mishap>>
        /\ p \in Writing
        /\ \A q \in Phones : q # p => upload'[q] = upload[q]
        /\ \/ /\ upload[p] = "open" /\ upload'[p] = "half"
              /\ file' = [file EXCEPT ![1] = payload[p]]
           \/ /\ upload[p] = "half" /\ upload'[p] = "full"
              /\ file' = [file EXCEPT ![2] = payload[p]]
    BY DEF WriteFirst, WriteRest, Write, Writing, Typed, TypeOK
  <1>2. running \in Contents /\ OneWriter /\ WholeFile /\ BrokenBehind /\ FreshWhole
    BY <1>1 DEF Steady, Calm
  <1>3. Writing' = Writing /\ Writing = {p}
    BY <1>1, <1>2 DEF Writing, OneWriter
  <1>4. (running \in Contents)' /\ WholeFile' /\ FreshWhole'
    BY <1>1, <1>2, <1>3 DEF WholeFile, FreshWhole
  <1>5. \/ upload'[p] = "half" /\ file' = <<payload[p], Broken>>
        \/ upload'[p] = "full" /\ file' = <<payload[p], payload[p]>>
    <2>1. CASE upload[p] = "open"
      <3>1. file = <<Broken, Broken>>
        BY <1>2, <1>3, <2>1 DEF OneWriter
      <3>2. QED  BY <1>1, <2>1, <3>1
    <2>2. CASE upload[p] = "half"
      <3>1. file = <<payload[p], Broken>>
        BY <1>2, <1>3, <2>2 DEF OneWriter
      <3>2. QED  BY <1>1, <2>2, <3>1
    <2>3. QED  BY <1>1, <2>1, <2>2
  <1>6. OneWriter'
    BY <1>1, <1>2, <1>3, <1>5 DEF OneWriter
  <1>7. \A n : Reached(n)' = Reached(n)
    BY <1>1, <1>3 DEF Reached
  <1>8. BrokenBehind'
    BY <1>1, <1>2, <1>7 DEF BrokenBehind, VersionOf
  <1>9. QED  BY <1>4, <1>6, <1>8

\* A process that ends with its one upload complete leaves that upload's file.
LEMMA EndSteady ==
  ASSUME Typed, Steady, NEW to, EndProcess(to), UNCHANGED stale,
         mishap' = (mishap \/ \E q \in Writing : upload[q] # "full")
  PROVE  Steady'
  <1> USE DEF phones
  <1> SUFFICES ASSUME Calm'
               PROVE  (running \in Contents /\ OneWriter /\ WholeFile /\ BrokenBehind /\ FreshWhole)'
    BY DEF Steady
  <1>1. /\ UNCHANGED <<file, running, phones, offer, fresh>>
        /\ \A q \in Phones : upload'[q] = "none"
        /\ \A q \in Writing : upload[q] = "full"
        /\ Calm
    <2>1. ~mishap' /\ ~stale'
      BY DEF Calm
    <2>2. Calm /\ \A q \in Writing : upload[q] = "full"
      BY <2>1 DEF Calm
    <2>3. QED  BY <2>2 DEF EndProcess
  <1>2. running \in Contents /\ OneWriter /\ WholeFile /\ BrokenBehind /\ FreshWhole
    BY <1>1 DEF Steady
  <1>3. Writing' = {}
    BY <1>1 DEF Writing
  <1>4. (running \in Contents)' /\ OneWriter' /\ FreshWhole'
    BY <1>1, <1>2, <1>3 DEF OneWriter, FreshWhole
  <1>5. ASSUME NEW w \in Writing
        PROVE  Parse(file) = payload[w] /\ payload[w] \in Contents /\ Writing = {w}
               /\ payload[w].version > running.version
    BY <1>1, <1>2 DEF OneWriter, Parse
  <1>6. WholeFile'
    <2>1. CASE Writing = {}
      BY <1>1, <1>2, <2>1 DEF WholeFile, Parse
    <2>2. CASE Writing # {}
      <3>1. Parse(file) \in Contents /\ Parse(file).version > running.version
        BY <1>5, <2>2
      <3>2. Parse(file)' = Parse(file)
        BY <1>1 DEF Parse
      <3>3. Parse(file).version \in Nat /\ running.version \in Nat
        BY <1>2, <3>1 DEF Contents
      <3>4. QED  BY <1>1, <3>1, <3>2, <3>3 DEF WholeFile
    <2>3. QED  BY <2>1, <2>2
  <1>7. ASSUME NEW n, Reached(n) PROVE n <= VersionOf(Parse(file))
    <2>1. CASE Writing = {}
      BY <1>7, <2>1 DEF Reached
    <2>2. CASE Writing # {}
      <3>1. PICK w \in Writing : TRUE
        BY <2>2
      <3>2. n <= payload[w].version
        BY <1>7, <2>2, <3>1 DEF Reached
      <3>3. VersionOf(Parse(file)) = payload[w].version
        BY <1>5, <3>1, VersionType
      <3>4. QED  BY <3>2, <3>3
    <2>3. QED  BY <2>1, <2>2
  <1>8. BrokenBehind'
    BY <1>1, <1>2, <1>3, <1>7 DEF BrokenBehind, Reached, VersionOf, Parse
  <1>9. QED  BY <1>4, <1>6, <1>8

LEMMA GiveUpSteady ==
  ASSUME Typed, Steady, NEW p \in Phones, GiveUp(p)
  PROVE  Steady'
  <1> USE DEF phones
  <1> SUFFICES ASSUME Calm'
               PROVE  (running \in Contents /\ OneWriter /\ WholeFile /\ BrokenBehind /\ FreshWhole)'
    BY DEF Steady
  <1>1. /\ UNCHANGED <<file, running, phones, offer, fresh, stale, mishap>>
        /\ p \notin Writing /\ upload'[p] = "none"
        /\ \A q \in Phones : q # p => upload'[q] = upload[q] /\ payload'[q] = payload[q]
    BY DEF GiveUp, Calm, Typed, TypeOK
  <1>2. running \in Contents /\ OneWriter /\ WholeFile /\ BrokenBehind /\ FreshWhole
    BY <1>1 DEF Steady, Calm
  <1>3. Writing' = Writing
    BY <1>1 DEF Writing
  <1>4. (running \in Contents)' /\ WholeFile' /\ FreshWhole'
    BY <1>1, <1>2, <1>3 DEF WholeFile, FreshWhole
  <1>5. OneWriter'
    BY <1>1, <1>2, <1>3 DEF OneWriter, Writing
  <1>6. \A n : Reached(n)' = Reached(n)
    BY <1>1, <1>3 DEF Reached, Writing
  <1>7. BrokenBehind'
    BY <1>1, <1>2, <1>6 DEF BrokenBehind, VersionOf
  <1>8. QED  BY <1>4, <1>5, <1>7

LEMMA StartSteady ==
  ASSUME Typed, Compared, Steady, StartStopped \/ Restart
  PROVE  Steady'
  <1> USE DEF phones
  <1> SUFFICES ASSUME Calm'
               PROVE  (running \in Contents /\ OneWriter /\ WholeFile /\ BrokenBehind /\ FreshWhole)'
    BY DEF Steady
  <1>1. /\ UNCHANGED <<file, upload, payload, phones, offer, fresh, stale, mishap>>
        /\ server # "up" /\ running' = Parse(file)
    BY DEF StartStopped, Restart, Start
  <1>2. running \in Contents /\ OneWriter /\ WholeFile /\ BrokenBehind /\ FreshWhole
    BY <1>1 DEF Steady, Calm
  <1>3. Writing = {} /\ Writing' = {}
    BY <1>1 DEF Writing, Compared, EndedWithServer
  <1>4. Parse(file) \in Contents /\ Parse(file)' = Parse(file)
    BY <1>1, <1>2, <1>3 DEF WholeFile, Parse
  <1>5. (running \in Contents)' /\ OneWriter' /\ FreshWhole' /\ WholeFile'
    BY <1>1, <1>2, <1>3, <1>4 DEF OneWriter, FreshWhole, WholeFile, Contents
  <1>6. BrokenBehind'
    BY <1>1, <1>2, <1>3, <1>4 DEF BrokenBehind, Reached, VersionOf
  <1>7. QED  BY <1>5, <1>6

LEMMA NextSteady == Typed /\ Compared /\ Steady /\ [Next]_vars => Steady'
  <1> SUFFICES ASSUME Typed, Compared, Steady, [Next]_vars PROVE Steady'
    OBVIOUS
  <1>1. ASSUME NEW p \in Phones,
               \/ Launch(p) \/ FetchFirst(p) \/ Delete(p) \/ EditPins(p) \/ EditKey(p)
               \/ Refuse(p) \/ Close(p) \/ Download(p)
        PROVE  Steady'
    BY <1>1, PageSteady
  <1>2. ASSUME NEW p \in Phones, Check(p) \/ Upload(p) PROVE Steady'
    BY <1>2, CheckSteady, UploadSteady
  <1>3. ASSUME NEW p \in Phones, Open(p) PROVE Steady'
    BY <1>3, OpenSteady
  <1>4. ASSUME NEW p \in Phones, WriteFirst(p) \/ WriteRest(p) PROVE Steady'
    BY <1>4, WriteSteady
  <1>5. ASSUME NEW p \in Phones, Finish(p) PROVE Steady'
    BY <1>5, EndSteady DEF Finish, EndProcess
  <1>6. ASSUME NEW p \in Phones, GiveUp(p) PROVE Steady'
    BY <1>6, GiveUpSteady
  <1>7. CASE Stop
    BY <1>7, EndSteady DEF Stop, EndProcess
  <1>8. CASE StartStopped \/ Restart
    BY <1>8, StartSteady
  <1>9. CASE UNCHANGED vars
    BY <1>9
    DEF vars, Steady, Calm, OneWriter, WholeFile, BrokenBehind, FreshWhole, Writing,
        Reached, Parse, VersionOf
  <1>10. QED
    BY <1>1, <1>2, <1>3, <1>4, <1>5, <1>6, <1>7, <1>8, <1>9 DEF Next

\* However many phones have broken files from their downloads: the server's file
\* is whole whenever nobody writes it, unless an upload was cut off, overlapped
\* with another or was offered on a comparison that no longer held.
THEOREM OnlyMishapsBreak == Spec => []BrokenHasCause
  <1>1. Steady => BrokenHasCause
    BY DEF Steady, Calm, WholeFile, BrokenHasCause, Contents
  <1>2. QED
    BY <1>1, InitTyped, NextTyped, InitCompared, NextCompared, InitSteady, NextSteady, PTL
    DEF Spec

-----------------------------------------------------------------------------
(* As long as every edit is made on a copy with all earlier ones, the      *)
(* copies that are about, on the server, on the phones, in memory and on   *)
(* the way, form a chain, and the counters order it: the higher counter    *)
(* has the more edits.  So a file that is newer loses nothing.             *)

Held ==
  {running, file[1], file[2]} \cup {payload[p] : p \in Phones}
    \cup {phone[p] : p \in Phones} \cup {conf[p] : p \in Phones}

Copies == Held \cap Contents

Linear ==
  ~forked =>
    /\ \A c \in Copies : c.edits \subseteq made
    /\ \A c, d \in Copies : c.version <= d.version <=> c.edits \subseteq d.edits

Others == {Absent, Broken, None}

LEMMA HeldType == ASSUME Typed PROVE Held \subseteq Copies \cup Others
  BY DEF Typed, TypeOK, Held, Copies, Others

LEMMA ParseHeld == ASSUME Typed PROVE Parse(file) \in Copies \cup Others
  <1>1. Parse(file) \in Held \cup {Broken}
    BY DEF Parse, Held
  <1>2. QED  BY <1>1, HeldType DEF Others

\* Copies that are only passed on stay in order.
LEMMA PassedOn ==
  ASSUME Linear, UNCHANGED <<made, forked>>, Held' \subseteq Copies \cup Others
  PROVE  Linear'
  <1>1. Copies' \subseteq Copies
    BY DEF Copies, Others
  <1>2. QED  BY <1>1 DEF Linear

LEMMA InitLinear == Init => Linear
  <1> SUFFICES ASSUME Init PROVE Linear
    OBVIOUS
  <1>1. Held \subseteq {Original, None, Absent}
    BY DEF Init, Held
  <1>2. Copies \subseteq {Original}
    BY <1>1 DEF Copies
  <1>3. QED  BY <1>2 DEF Linear, Original

LEMMA PagesLinear ==
  ASSUME Typed, Linear, NEW p \in Phones,
         \/ Launch(p) \/ FetchFirst(p) \/ Delete(p) \/ Close(p)
         \/ Check(p) \/ Refuse(p) \/ Download(p) \/ Upload(p)
  PROVE  Linear'
  <1>1. /\ UNCHANGED <<file, running, made, forked>>
        /\ \A q \in Phones : /\ payload'[q] \in Held
                             /\ phone'[q] \in Held \cup Others \cup {Parse(file)}
                             /\ conf'[q] \in Held \cup Others \cup {Parse(file)}
    <2> USE DEF Held, Others, disk, phones
    <2>1. CASE Launch(p) \/ FetchFirst(p) \/ Delete(p)
      <3>1. UNCHANGED <<file, running, made, forked, payload>>
        BY <2>1, PageStep
      <3>2. \A q \in Phones : phone'[q] \in {phone[q], Absent, Broken, Parse(file)}
        BY <2>1, PageStep
      <3>3. \A q \in Phones : conf'[q] \in {conf[q], phone'[q]}
        BY <2>1, PageStep
      <3>4. QED  BY <3>1, <3>2, <3>3
    <2>2. CASE Close(p)
      BY <2>2 DEF Close, Typed, TypeOK
    <2>3. CASE Check(p) \/ Refuse(p)
      BY <2>3 DEF Check, Refuse
    <2>4. CASE Download(p)
      BY <2>4 DEF Download, Typed, TypeOK
    <2>5. CASE Upload(p)
      BY <2>5 DEF Upload, Typed, TypeOK
    <2>6. QED  BY <2>1, <2>2, <2>3, <2>4, <2>5
  <1>2. Held' \subseteq Held \cup Others \cup {Parse(file)}
    BY <1>1 DEF Held
  <1>3. Held' \subseteq Copies \cup Others
    BY <1>2, HeldType, ParseHeld
  <1>4. QED  BY <1>1, <1>3, PassedOn

LEMMA ServerLinear ==
  ASSUME Typed, Linear,
         \/ \E p \in Phones :
              Open(p) \/ WriteFirst(p) \/ WriteRest(p) \/ Finish(p) \/ GiveUp(p)
         \/ Stop \/ StartStopped \/ Restart
  PROVE  Linear'
  <1>1. /\ UNCHANGED <<made, forked, phone, conf>>
        /\ running' \in {running, Parse(file)}
        /\ file'[1] \in Held \cup Others /\ file'[2] \in Held \cup Others
        /\ \A q \in Phones : payload'[q] \in {payload[q], None}
    <2> USE DEF Held, Others, phones
    <2>1. CASE \E p \in Phones : Open(p)
      BY <2>1 DEF Open
    <2>2. CASE \E p \in Phones : WriteFirst(p) \/ WriteRest(p)
      BY <2>2 DEF WriteFirst, WriteRest, Write, Typed, TypeOK
    <2>3. CASE (\E p \in Phones : Finish(p)) \/ Stop
      BY <2>3 DEF Finish, Stop, EndProcess
    <2>4. CASE \E p \in Phones : GiveUp(p)
      BY <2>4 DEF GiveUp, Typed, TypeOK
    <2>5. CASE StartStopped \/ Restart
      BY <2>5 DEF StartStopped, Restart, Start
    <2>6. QED  BY <2>1, <2>2, <2>3, <2>4, <2>5
  <1>2. Held' \subseteq Held \cup Others \cup {Parse(file)}
    BY <1>1 DEF Held, Others
  <1>3. Held' \subseteq Copies \cup Others
    BY <1>2, HeldType, ParseHeld
  <1>4. QED  BY <1>1, <1>3, PassedOn

\* The edited copy has every edit there is, and a counter above all others.
LEMMA ChangeLinear ==
  ASSUME Typed, Linear, NEW p \in Phones, EditPins(p) \/ EditKey(p)
  PROVE  Linear'
  <1>1. Held' \subseteq Held \cup {phone'[p]}
    BY ChangeStep DEF Held, disk
  <1>2. Copies' \subseteq Copies \cup {phone'[p]}
    BY <1>1, HeldType DEF Copies
  <1>3. phone[p] \in Copies /\ phone'[p] \in Contents
    BY ChangeStep DEF Copies, Held
  <1>4. phone'[p].version > phone[p].version
    BY ChangeStep
  <1>5. PICK e \in Edits \ made : /\ phone'[p].edits = phone[p].edits \cup {e}
                                 /\ made' = made \cup {e}
    BY ChangeStep
  <1> SUFFICES ASSUME ~forked'
               PROVE  /\ \A c \in Copies' : c.edits \subseteq made'
                      /\ \A c, d \in Copies' : c.version <= d.version <=> c.edits \subseteq d.edits
    BY DEF Linear
  <1>6. ~forked /\ made \subseteq phone[p].edits
    BY ChangeStep
  <1>7. /\ \A c \in Copies : c.edits \subseteq made
        /\ \A c, d \in Copies : c.version <= d.version <=> c.edits \subseteq d.edits
    BY <1>6 DEF Linear
  <1>8. phone[p].edits = made /\ phone'[p].edits = made'
    BY <1>3, <1>5, <1>6, <1>7
  <1>9. ASSUME NEW c \in Copies
        PROVE  /\ c.version < phone'[p].version
               /\ c.edits \subseteq made' /\ ~(made' \subseteq c.edits)
    <2>1. c.version <= phone[p].version
      BY <1>3, <1>7, <1>8
    <2>2. c.version \in Nat /\ phone[p].version \in Nat /\ phone'[p].version \in Nat
      BY <1>3 DEF Copies, Contents
    <2>3. c.edits \subseteq made /\ e \notin made
      BY <1>7
    <2>4. QED  BY <1>4, <1>5, <2>1, <2>2, <2>3
  <1>10. phone'[p].version \in Nat /\ \A c \in Copies : c.version \in Nat
    BY <1>3 DEF Copies, Contents
  <1>11. \A c \in Copies' : c.edits \subseteq made'
    BY <1>2, <1>8, <1>9
  <1>12. ASSUME NEW c \in Copies', NEW d \in Copies'
         PROVE  c.version <= d.version <=> c.edits \subseteq d.edits
    <2>1. CASE c = phone'[p] /\ d = phone'[p]
      BY <1>10, <2>1
    <2>2. CASE c = phone'[p] /\ d \in Copies
      BY <1>8, <1>9, <1>10, <2>2
    <2>3. CASE c \in Copies /\ d = phone'[p]
      BY <1>8, <1>9, <1>10, <2>3
    <2>4. CASE c \in Copies /\ d \in Copies
      BY <1>7, <2>4
    <2>5. QED  BY <1>2, <2>1, <2>2, <2>3, <2>4
  <1>13. QED  BY <1>11, <1>12

LEMMA NextLinear == Typed /\ Linear /\ [Next]_vars => Linear'
  <1> SUFFICES ASSUME Typed, Linear, [Next]_vars PROVE Linear'
    OBVIOUS
  <1>1. ASSUME NEW p \in Phones, EditPins(p) \/ EditKey(p) PROVE Linear'
    BY <1>1, ChangeLinear
  <1>2. ASSUME NEW p \in Phones,
               \/ Launch(p) \/ FetchFirst(p) \/ Delete(p) \/ Close(p)
               \/ Check(p) \/ Refuse(p) \/ Download(p) \/ Upload(p)
        PROVE  Linear'
    BY <1>2, PagesLinear
  <1>3. ASSUME \/ \E p \in Phones :
                     Open(p) \/ WriteFirst(p) \/ WriteRest(p) \/ Finish(p) \/ GiveUp(p)
               \/ Stop \/ StartStopped \/ Restart
        PROVE  Linear'
    BY <1>3, ServerLinear
  <1>4. CASE UNCHANGED vars
    BY <1>4 DEF vars, Linear, Copies, Held
  <1>5. QED  BY <1>1, <1>2, <1>3, <1>4 DEF Next

\* The server only ever starts on a file with at least the edits it ran with.
LEMMA NextSurvive ==
  Typed /\ Compared /\ Steady /\ Linear /\ LinearEditsSurvive /\ [Next]_vars
    => LinearEditsSurvive'
  <1> SUFFICES ASSUME Typed, Compared, Steady, Linear, LinearEditsSurvive, [Next]_vars
               PROVE  LinearEditsSurvive'
    OBVIOUS
  <1>1. ASSUME UNCHANGED <<running, ran>>,
               ~forked' => ~forked, ~stale' => ~stale, ~mishap' => ~mishap
        PROVE  LinearEditsSurvive'
    BY <1>1 DEF LinearEditsSurvive, EditsOf
  <1>2. ASSUME NEW p \in Phones, Launch(p) \/ FetchFirst(p) \/ Delete(p)
        PROVE  LinearEditsSurvive'
    BY <1>1, <1>2, PageStep DEF disk
  <1>3. ASSUME NEW p \in Phones, EditPins(p) \/ EditKey(p) PROVE LinearEditsSurvive'
    BY <1>1, <1>3, ChangeStep DEF disk
  <1>4. ASSUME NEW p \in Phones,
               Close(p) \/ Check(p) \/ Refuse(p) \/ Download(p) \/ Upload(p)
        PROVE  LinearEditsSurvive'
    BY <1>1, <1>4 DEF Close, Check, Refuse, Download, Upload, disk, phones
  <1>5. ASSUME NEW p \in Phones, Open(p) \/ GiveUp(p) \/ WriteFirst(p) \/ WriteRest(p)
        PROVE  LinearEditsSurvive'
    BY <1>1, <1>5 DEF Open, GiveUp, WriteFirst, WriteRest, Write, phones
  <1>6. ASSUME NEW p \in Phones, Finish(p) \/ Stop PROVE LinearEditsSurvive'
    BY <1>1, <1>6 DEF Finish, Stop, EndProcess, phones
  <1>7. CASE StartStopped \/ Restart
    <2> SUFFICES ASSUME ~forked', ~stale', ~mishap' PROVE ran' \subseteq EditsOf(running')
      BY DEF LinearEditsSurvive, EditsOf
    <2>1. /\ UNCHANGED <<upload, forked, stale, mishap>>
          /\ running' = Parse(file) /\ ran' = ran \cup EditsOf(running') /\ server # "up"
      BY <1>7 DEF StartStopped, Restart, Start, phones
    <2>2. Writing = {}
      BY <2>1 DEF Writing, Compared, EndedWithServer
    <2>3. /\ running \in Contents /\ Parse(file) \in Contents
          /\ Parse(file).version >= running.version
      BY <2>1, <2>2 DEF Steady, Calm, WholeFile
    <2>4. running \in Copies /\ Parse(file) \in Copies
      BY <2>3 DEF Copies, Held, Parse
    <2>5. running.version \in Nat /\ Parse(file).version \in Nat
      BY <2>3 DEF Contents
    <2>6. running.edits \subseteq Parse(file).edits
      BY <2>1, <2>3, <2>4, <2>5 DEF Linear
    <2>7. EditsOf(running) = running.edits /\ EditsOf(running') = Parse(file).edits
      BY <2>1, <2>3 DEF EditsOf
    <2>8. ran \subseteq running.edits
      BY <2>1, <2>7 DEF LinearEditsSurvive
    <2>9. QED  BY <2>1, <2>6, <2>7, <2>8
  <1>8. CASE Stop
    BY <1>1, <1>8 DEF Stop, EndProcess, phones
  <1>9. CASE UNCHANGED vars
    BY <1>1, <1>9 DEF vars
  <1>10. QED  BY <1>2, <1>3, <1>4, <1>5, <1>6, <1>7, <1>8, <1>9 DEF Next

\* No edit the server has run with is lost, whatever the number of phones and of
\* edits, as long as edits are made one on the other and uploads are fresh and
\* complete: the counter, compared, tells which file has the other's edits.
THEOREM EditsSurvive == Spec => []LinearEditsSurvive
  <1>1. Init => LinearEditsSurvive
    BY DEF Init, LinearEditsSurvive
  <1>2. QED
    BY <1>1, InitTyped, NextTyped, InitCompared, NextCompared, InitSteady, NextSteady,
       InitLinear, NextLinear, NextSurvive, PTL DEF Spec
=============================================================================
