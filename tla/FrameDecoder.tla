---------------------------- MODULE FrameDecoder ----------------------------
(***************************************************************************)
(* The camera pictures of the app: ImageProc.c decodes a frame with the    *)
(* libjpeg beside it into the buffer rgb, which all the views share, and   *)
(* copies that to the bitmap of the view that called.                      *)
(*                                                                         *)
(* A frame is what has arrived of a sequence of tokens: markers with their *)
(* parameters, and the data of an MCU each.  The source never gets more    *)
(* than it was given: memory_fill_input_buffer suspends the decoder.       *)
(***************************************************************************)
EXTENDS Integers, Sequences, FiniteSets

CONSTANTS
  Views,       \* the threads of the MjpegViews
  Streams,     \* view -> what may arrive of the frames of its camera
  Whole,       \* those that arrive as a camera made them, for the standard tables
  RowGroups,   \* lines of a block (8 in the code)
  Bitmap,      \* [width, height] of the views' bitmaps; widths are in MCUs
  MaxFrames,   \* frames begun
  None,        \* model value: null, no marker
  Gray,        \* model value: what an MCU without data shows
  Garbage,     \* model value: an MCU decoded by the wrong tables
  Unset        \* model value: a row nobody has written yet

DataToken  == [k : {"mcu"}, scan : Nat, pos : Nat, tables : {"std", "own"}]

ASSUME FrameAssumption ==
  /\ RowGroups \in Nat \ {0} /\ MaxFrames \in Nat
  /\ Bitmap \in [width : Nat \ {0}, height : Nat \ {0}]
  /\ DOMAIN Streams = Views

VARIABLES
  pc,          \* view -> the call it is in
  stream,      \* view -> its frame
  cinfo,       \* view -> its decompress struct
  coefs,       \* view -> what was decoded: scan -> MCUs
  out,         \* view -> outp, the buffer it writes to
  y,           \* view -> the row it writes next
  rgb,         \* the shared buffer
  size,        \* IMG_WIDTH and IMG_HEIGHT
  rows,        \* buffer -> its rows
  shown,       \* view -> the rows copied to its bitmap last
  frame,       \* view -> the number of its frame
  frames,      \* frames begun (bounded by MaxFrames)
  odd,         \* a frame of another size has been decoded (history)
  overlapped   \* two views have been decoding at once (history)

app  == <<out, y, rgb, size, rows, shown>>
hist == <<frame, frames, odd, overlapped>>
vars == <<pc, stream, cinfo, coefs, app, hist>>

Least(S) == CHOOSE i \in S : \A j \in S : i <= j

Goto(v, l) == pc' = [pc EXCEPT ![v] = l]

\* jpeg_create_decompress, reset_input_controller, reset_marker_reader
Fresh ==
  [global_state |-> "START", next |-> 1, unread_marker |-> None, consume |-> "markers",
   saw_SOI |-> FALSE, sof |-> None, inheaders |-> TRUE, eoi_reached |-> FALSE,
   has_multiple_scans |-> FALSE, input_scan_number |-> 0,
   quant |-> FALSE, tables |-> "none", cur_tables |-> "none",
   restart_interval |-> 0, restarts_to_go |-> 0, next_restart_num |-> 0,
   insufficient_data |-> FALSE, suspended |-> FALSE,
   output_iMCU_row |-> 0, buffer_full |-> FALSE, rowgroup_ctr |-> 0,
   next_row_out |-> 0, output_scanline |-> 0, jpegbuffer |-> Unset]

Init ==
  /\ pc = [v \in Views |-> "idle"]
  /\ stream = [v \in Views |-> <<>>]
  /\ cinfo = [v \in Views |-> Fresh]
  /\ coefs = [v \in Views |-> <<>>]
  /\ out = [v \in Views |-> None] /\ y = [v \in Views |-> 0]
  /\ rgb = None /\ size = None
  /\ rows = [b \in Views |-> <<>>]
  /\ shown = [v \in Views |-> None]
  /\ frame = [v \in Views |-> 0] /\ frames = 0
  /\ odd = FALSE /\ overlapped = FALSE

-----------------------------------------------------------------------------
(* Errors and suspension *)

\* error_exit jumps back into processimage, which destroys the decompressor.
Fail(v) == Goto(v, "destroy") /\ UNCHANGED <<cinfo, app>>

\* What the app goes on with when a call of the library has run out of data:
\* it looks at no return value.
Resumes == [header |-> "tables", start |-> "test", rows |-> "rows", finish |-> "destroy"]

HasMore(v) == cinfo[v].next <= Len(stream[v])
Token(v)   == stream[v][cinfo[v].next]

MarkersFrom(v, i) == {j \in i..Len(stream[v]) : stream[v][j].k # "mcu"}

-----------------------------------------------------------------------------
(* The markers *)

\* A frame has come; processimage creates a decompressor.
Begin(v) ==
  /\ pc[v] = "idle" /\ frames < MaxFrames
  /\ \E s \in Streams[v] : stream' = [stream EXCEPT ![v] = s]
  /\ frames' = frames + 1
  /\ frame' = [frame EXCEPT ![v] = frames']
  /\ overlapped' = (overlapped \/ \E u \in Views \ {v} : pc[u] \notin {"idle", "dead"})
  /\ shown' = [shown EXCEPT ![v] = None]
  /\ y' = [y EXCEPT ![v] = 0]
  /\ out' = [out EXCEPT ![v] = None]
  /\ Goto(v, "header")
  /\ UNCHANGED <<cinfo, coefs, rgb, size, rows, odd>>

InMarkers(v) ==
  /\ pc[v] \in {"header", "start", "finish"}
  /\ cinfo[v].consume = "markers" /\ ~cinfo[v].eoi_reached

\* first_marker wants SOI; next_marker skips what is no marker.
FindMarker(v) ==
  LET c     == cinfo[v]
      ahead == MarkersFrom(v, c.next)
      taken == [c EXCEPT !.unread_marker = stream[v][Least(ahead)],
                         !.next = Least(ahead) + 1, !.global_state = IF c.inheaders THEN "INHEADER" ELSE @]
  IN /\ InMarkers(v) /\ c.unread_marker = None /\ HasMore(v)
     /\ c.saw_SOI => ahead # {}
     /\ IF ~c.saw_SOI /\ Token(v).k # "SOI"
        THEN Fail(v)
        ELSE cinfo' = [cinfo EXCEPT ![v] = taken] /\ UNCHANGED <<pc, app>>
     /\ UNCHANGED <<stream, coefs, hist>>

NoMarker(v) ==
  /\ InMarkers(v) /\ cinfo[v].unread_marker = None
  /\ MarkersFrom(v, cinfo[v].next) = {}
  /\ cinfo' = [cinfo EXCEPT ![v].next = Len(stream[v]) + 1,
                            ![v].global_state = IF cinfo[v].inheaders THEN "INHEADER" ELSE @]
  /\ Goto(v, Resumes[pc[v]])
  /\ UNCHANGED <<stream, coefs, app, hist>>

Reads(v, kinds) ==
  InMarkers(v) /\ cinfo[v].unread_marker # None /\ cinfo[v].unread_marker.k \in kinds

\* SOI may come only once.
GetSoi(v) ==
  /\ Reads(v, {"SOI"})
  /\ IF cinfo[v].saw_SOI
     THEN Fail(v)
     ELSE /\ cinfo' = [cinfo EXCEPT ![v].saw_SOI = TRUE, ![v].unread_marker = None,
                                    ![v].restart_interval = 0]
          /\ UNCHANGED <<pc, app>>
  /\ UNCHANGED <<stream, coefs, hist>>

\* DQT, DHT, DRI and a restart marker between the scans.
GetParameters(v) ==
  LET m == cinfo[v].unread_marker IN
  /\ Reads(v, {"DQT", "DHT", "DRI", "RST"})
  /\ cinfo' = [cinfo EXCEPT
       ![v].unread_marker = None,
       ![v].quant = @ \/ m.k = "DQT",
       ![v].tables = IF m.k = "DHT" THEN m.tables ELSE @,
       ![v].restart_interval = IF m.k = "DRI" THEN m.interval ELSE @]
  /\ UNCHANGED <<pc, stream, coefs, app, hist>>

GetSof(v) ==
  /\ Reads(v, {"SOF"})
  /\ IF cinfo[v].sof # None
     THEN Fail(v)
     ELSE /\ cinfo' = [cinfo EXCEPT ![v].sof = cinfo[v].unread_marker, ![v].unread_marker = None]
          /\ UNCHANGED <<pc, app>>
  /\ UNCHANGED <<stream, coefs, hist>>

\* start_input_pass of the entropy decoder
StartedPass(c) ==
  [c EXCEPT !.consume = "data", !.cur_tables = c.tables,
            !.restarts_to_go = c.restart_interval, !.insufficient_data = FALSE]

\* The first SOS ends the header; another is expected if the first had not all
\* components.
GetSos(v) ==
  LET c    == cinfo[v]
      scan == [c EXCEPT !.unread_marker = None, !.next_restart_num = 0, !.input_scan_number = @ + 1]
  IN /\ Reads(v, {"SOS"})
     /\ IF c.sof = None \/ (~c.inheaders /\ ~c.has_multiple_scans)
        THEN Fail(v) /\ UNCHANGED coefs
        ELSE /\ coefs' = [coefs EXCEPT ![v] = Append(@, <<>>)]
             /\ IF c.inheaders
                THEN /\ cinfo' = [cinfo EXCEPT ![v] =
                          [scan EXCEPT !.inheaders = FALSE, !.global_state = "READY",
                             !.has_multiple_scans = c.unread_marker.comps # c.sof.comps]]
                     /\ Goto(v, "tables")
                ELSE cinfo' = [cinfo EXCEPT ![v] = StartedPass(scan)] /\ UNCHANGED pc
             /\ UNCHANGED app
     /\ UNCHANGED <<stream, hist>>

\* EOI without an image is an error; it ends the absorbing of several scans, and
\* the whole call.
GetEoi(v) ==
  /\ Reads(v, {"EOI"})
  /\ IF cinfo[v].inheaders
     THEN Fail(v)
     ELSE /\ cinfo' = [cinfo EXCEPT ![v].eoi_reached = TRUE, ![v].unread_marker = None,
                         ![v].global_state = IF pc[v] = "start" THEN "SCANNING" ELSE @]
          /\ Goto(v, Resumes[pc[v]])
          /\ UNCHANGED app
  /\ UNCHANGED <<stream, coefs, hist>>

-----------------------------------------------------------------------------
(* jpeg_start_decompress and the buffer *)

\* Mutant of LoadTables: the tables of the frame are kept.
KeepTables(v) ==
  /\ pc[v] = "tables"
  /\ Goto(v, "master")
  /\ UNCHANGED <<stream, cinfo, coefs, app, hist>>

\* my_jpeg_load_dht: the frame's own tables are overwritten.
LoadTables(v) ==
  /\ pc[v] = "tables"
  /\ cinfo' = [cinfo EXCEPT ![v].tables = "std"]
  /\ Goto(v, "master")
  /\ UNCHANGED <<stream, coefs, app, hist>>

\* Single scans are decoded as the rows are read, several are absorbed first.
StartDecompress(v) ==
  LET c == cinfo[v] IN
  /\ pc[v] = "master"
  /\ IF c.global_state # "READY" \/ ~c.quant \/ c.tables = "none"
     THEN Fail(v)
     ELSE /\ cinfo' = [cinfo EXCEPT ![v] = [StartedPass(c) EXCEPT
                         !.global_state = IF c.has_multiple_scans THEN "PRELOAD" ELSE "SCANNING",
                         !.next_row_out = c.sof.vsamp]]
          /\ Goto(v, IF c.has_multiple_scans THEN "start" ELSE "test")
          /\ UNCHANGED app
  /\ UNCHANGED <<stream, coefs, hist>>

TestBuffer(v) ==
  /\ pc[v] = "test"
  /\ Goto(v, IF rgb = None THEN "alloc" ELSE "point")
  /\ odd' = (odd \/ \E f \in {cinfo[v].sof} : f.width # Bitmap.width \/ f.height # Bitmap.height)
  /\ UNCHANGED <<stream, cinfo, coefs, app, frame, frames, overlapped>>

\* The first frame sets the size; the buffer of a view stands for what it allocates.
AllocBuffer(v) ==
  /\ pc[v] = "alloc"
  /\ rgb' = v
  /\ size' = [width |-> cinfo[v].sof.width, height |-> cinfo[v].sof.height]
  /\ rows' = [rows EXCEPT ![v] = [i \in 1..cinfo[v].sof.height |-> Unset]]
  /\ Goto(v, "point")
  /\ UNCHANGED <<stream, cinfo, coefs, out, y, shown, hist>>

PointOut(v) ==
  /\ pc[v] = "point"
  /\ out' = [out EXCEPT ![v] = rgb]
  /\ Goto(v, "rows")
  /\ UNCHANGED <<stream, cinfo, coefs, y, rgb, size, rows, shown, hist>>

-----------------------------------------------------------------------------
(* The MCUs *)

Mcus(v)   == Len(coefs[v][cinfo[v].input_scan_number])
IMCURows(v) == (cinfo[v].sof.height + RowGroups * cinfo[v].sof.vsamp - 1)
                 \div (RowGroups * cinfo[v].sof.vsamp)

\* The next thing to do is to fetch an MCU.
Fetching(v) ==
  LET c == cinfo[v] IN
  /\ c.consume = "data"
  /\ \/ pc[v] = "start"
     \/ /\ pc[v] = "rows" /\ c.global_state = "SCANNING" /\ ~c.buffer_full
        /\ c.output_scanline < c.sof.height

AtRestart(v) == cinfo[v].restart_interval > 0 /\ cinfo[v].restarts_to_go = 0

\* The row goes to outp[y]; what is stored behind the picture is not followed.
Store(v, line) ==
  /\ y' = [y EXCEPT ![v] = IF @ > size.height THEN @ ELSE @ + 1]
  /\ rows' = IF y[v] + 1 \in DOMAIN rows[out[v]]
             THEN [rows EXCEPT ![out[v]][y[v] + 1] = line]
             ELSE rows

\* The decoder has run out of data, and no more will come: whether the bits at
\* the very end are enough for one more MCU is decided once.  The row the app
\* asked for is not delivered, and it stores the one before again.
Starve(v) ==
  /\ Fetching(v)
  /\ \/ AtRestart(v) /\ cinfo[v].unread_marker = None /\ MarkersFrom(v, cinfo[v].next) = {}
     \/ /\ ~AtRestart(v) /\ ~cinfo[v].insufficient_data /\ cinfo[v].unread_marker = None
        /\ cinfo[v].next >= Len(stream[v])      \* it fetches bits beyond those it needs
        /\ HasMore(v) => Token(v).k = "mcu"
  /\ cinfo' = [cinfo EXCEPT ![v].suspended = TRUE]
  /\ Goto(v, Resumes[pc[v]])
  /\ IF pc[v] = "rows" THEN Store(v, cinfo[v].jpegbuffer) ELSE UNCHANGED <<y, rows>>
  /\ UNCHANGED <<stream, coefs, out, rgb, size, shown, hist>>

Restarted(c) ==
  [c EXCEPT !.next_restart_num = (@ + 1) % 8, !.restarts_to_go = c.restart_interval,
            !.insufficient_data = @ /\ c.unread_marker # None]

\* Mutant of Ahead: only the next marker but one is known to be ahead.
NearAhead(c) == c.unread_marker.k # "RST" \/ (c.unread_marker.n - c.next_restart_num) % 8 = 1

\* Mutant of Ahead: the end of the image is taken for a stray marker.
StrayEnd(c) == c.unread_marker.k = "RST" /\ (c.unread_marker.n - c.next_restart_num) % 8 \in {1, 2}

\* jpeg_resync_to_restart: leave a marker that ends the scan or is one or two
\* restarts ahead, ...
Ahead(c) == c.unread_marker.k # "RST" \/ (c.unread_marker.n - c.next_restart_num) % 8 \in {1, 2}

\* ... and go on to the next one behind a marker one or two restarts back.
Behind(c) ==
  /\ c.unread_marker # None /\ c.unread_marker.k = "RST"
  /\ (c.unread_marker.n - c.next_restart_num) % 8 \in {6, 7}

FetchMarker(v) ==
  LET ahead == MarkersFrom(v, cinfo[v].next) IN
  /\ Fetching(v) /\ AtRestart(v) /\ ahead # {}
  /\ cinfo[v].unread_marker = None \/ Behind(cinfo[v])
  /\ cinfo' = [cinfo EXCEPT ![v].unread_marker = stream[v][Least(ahead)],
                            ![v].next = Least(ahead) + 1]
  /\ UNCHANGED <<pc, stream, coefs, app, hist>>

\* read_restart_marker with the marker expected, one to leave, or one to discard.
Restart(v) ==
  LET c == cinfo[v] IN
  /\ Fetching(v) /\ AtRestart(v) /\ c.unread_marker # None /\ ~Behind(c)
  /\ cinfo' = [cinfo EXCEPT ![v] =
                 Restarted(IF Ahead(c) THEN c ELSE [c EXCEPT !.unread_marker = None])]
  /\ UNCHANGED <<pc, stream, coefs, app, hist>>

\* An MCU is complete: at the end of a row the app gets lines, at the end of the
\* scan the markers go on.
Decoded(v, c, x) ==
  LET scan == c.input_scan_number
      done == Mcus(v) + 1
  IN /\ coefs' = [coefs EXCEPT ![v][scan] = Append(@, x)]
     /\ cinfo' = [cinfo EXCEPT ![v] = [c EXCEPT
          !.restarts_to_go = IF c.restart_interval > 0 THEN @ - 1 ELSE @,
          !.consume = IF done = c.sof.width * IMCURows(v) THEN "markers" ELSE @,
          !.buffer_full = pc[v] = "rows" /\ done % c.sof.width = 0,
          !.output_iMCU_row = IF pc[v] = "rows" THEN done \div c.sof.width ELSE @]]
     /\ UNCHANGED <<pc, stream, app, hist>>

\* decode_mcu with data at hand.  With the wrong tables any number of bits is
\* taken for the MCU.
DecodeMcu(v) ==
  LET c == cinfo[v] IN
  /\ Fetching(v) /\ ~AtRestart(v) /\ ~c.insufficient_data /\ c.unread_marker = None
  /\ ~c.suspended /\ HasMore(v) /\ Token(v).k = "mcu"
  /\ IF Token(v).tables = c.cur_tables
     THEN Decoded(v, [c EXCEPT !.next = @ + 1], Token(v))
     ELSE \E n \in {0, 1} : Decoded(v, [c EXCEPT !.next = @ + n], Garbage)

\* At a marker the rest of the interval is gray.
GrayMcu(v) ==
  LET c == cinfo[v] IN
  /\ Fetching(v) /\ ~AtRestart(v)
  /\ \/ c.insufficient_data \/ c.unread_marker # None
     \/ HasMore(v) /\ Token(v).k # "mcu"
  /\ Decoded(v, IF c.insufficient_data \/ c.unread_marker # None
                THEN [c EXCEPT !.insufficient_data = TRUE]
                ELSE [c EXCEPT !.insufficient_data = TRUE, !.unread_marker = Token(v),
                               !.next = @ + 1], Gray)

-----------------------------------------------------------------------------
(* The lines *)

\* decompress_data: a row of a frame that was absorbed.
AbsorbedRow(v) ==
  LET c == cinfo[v] IN
  /\ pc[v] = "rows" /\ c.global_state = "SCANNING" /\ c.has_multiple_scans
  /\ ~c.buffer_full /\ c.output_scanline < c.sof.height
  /\ cinfo' = [cinfo EXCEPT ![v].buffer_full = TRUE, ![v].output_iMCU_row = @ + 1]
  /\ UNCHANGED <<pc, stream, coefs, app, hist>>

\* The MCUs of row r of the picture are what the camera sent for it.
Right(v, r) ==
  \A s \in DOMAIN coefs[v] : \A p \in (r * cinfo[v].sof.width)..((r + 1) * cinfo[v].sof.width - 1) :
    /\ p < Len(coefs[v][s])
    /\ coefs[v][s][p + 1] \in DataToken
    /\ coefs[v][s][p + 1].scan = s /\ coefs[v][s][p + 1].pos = p

\* jpeg_read_scanlines delivers a line, which processimage stores at outp[y].
EmitLine(v) ==
  LET c    == cinfo[v]
      sub  == IF c.next_row_out >= c.sof.vsamp THEN 0 ELSE c.next_row_out
      row  == [of |-> frame[v], right |-> Right(v, c.output_iMCU_row - 1),
               line |-> ((c.output_iMCU_row - 1) * RowGroups + c.rowgroup_ctr) * c.sof.vsamp + sub]
      last == sub + 1 = c.sof.vsamp
      full == ~last \/ c.rowgroup_ctr + 1 < RowGroups
  IN /\ pc[v] = "rows" /\ c.global_state = "SCANNING"
     /\ c.buffer_full /\ c.output_scanline < c.sof.height
     /\ cinfo' = [cinfo EXCEPT ![v] = [c EXCEPT
          !.next_row_out = sub + 1,
          !.rowgroup_ctr = IF ~full THEN 0 ELSE IF last THEN @ + 1 ELSE @,
          !.buffer_full = full, !.output_scanline = @ + 1, !.jpegbuffer = row]]
     /\ Store(v, row)
     /\ UNCHANGED <<pc, stream, coefs, out, rgb, size, shown, hist>>

\* jpeg_read_scanlines of a frame whose scans were not all absorbed.
BadState(v) ==
  /\ pc[v] = "rows" /\ cinfo[v].global_state # "SCANNING"
  /\ Fail(v)
  /\ UNCHANGED <<stream, coefs, hist>>

\* jpeg_finish_decompress reads until EOI.
Finish(v) ==
  /\ pc[v] = "rows" /\ cinfo[v].global_state = "SCANNING"
  /\ cinfo[v].output_scanline >= cinfo[v].sof.height
  /\ Goto(v, IF cinfo[v].eoi_reached THEN "destroy" ELSE "finish")
  /\ UNCHANGED <<stream, cinfo, coefs, app, hist>>

Destroy(v) ==
  /\ pc[v] = "destroy"
  /\ cinfo' = [cinfo EXCEPT ![v] = Fresh]
  /\ coefs' = [coefs EXCEPT ![v] = <<>>]
  /\ Goto(v, "copy")
  /\ UNCHANGED <<stream, app, hist>>

\* pixeltobmp copies the buffer there is, whatever became of the frame; if the
\* sizes differ the thread of the view ends.
Copy(v) ==
  /\ pc[v] = "copy"
  /\ IF size = Bitmap
     THEN shown' = [shown EXCEPT ![v] = rows[rgb]] /\ Goto(v, "idle")
     ELSE Goto(v, "dead") /\ UNCHANGED shown
  /\ UNCHANGED <<stream, cinfo, coefs, out, y, rgb, size, rows, hist>>

Step(v) ==
  \/ FindMarker(v) \/ NoMarker(v) \/ GetSoi(v) \/ GetParameters(v) \/ GetSof(v)
  \/ GetSos(v) \/ GetEoi(v)
  \/ LoadTables(v) \/ StartDecompress(v) \/ TestBuffer(v) \/ AllocBuffer(v) \/ PointOut(v)
  \/ Starve(v) \/ FetchMarker(v) \/ Restart(v) \/ DecodeMcu(v) \/ GrayMcu(v)
  \/ AbsorbedRow(v) \/ EmitLine(v) \/ BadState(v) \/ Finish(v) \/ Destroy(v) \/ Copy(v)

Next == \E v \in Views : Begin(v) \/ Step(v)

Spec == Init /\ [][Next]_vars

\* The thread of a view goes on; cameras owe nothing.
FairSpec == Spec /\ \A v \in Views : WF_vars(Step(v))

-----------------------------------------------------------------------------
(* Properties *)

\* The token i of v's frame is in an interval that has come up to it: behind its
\* SOS or its restart marker there are the MCUs before it and nothing else.
Anchored(v, i) ==
  LET f == stream[v]
      I == cinfo[v].restart_interval
  IN \E j \in 1..(i - 1) :
       LET first == f[j + 1].pos IN
       /\ \A m \in (j + 1)..i : f[m] \in DataToken /\ f[m].scan = f[i].scan
                                /\ f[m].pos = f[i].pos - (i - m) /\ f[m].tables = "std"
       /\ I = 0 \/ i - j <= I
       /\ \/ /\ f[j].k = "SOS" /\ first = 0
             /\ f[i].scan = Cardinality({m \in 1..j : f[m].k = "SOS"})
          \/ /\ f[j].k = "RST" /\ I > 0
             /\ first % I = 0 /\ f[j].n = (first \div I - 1) % 8

\* Nowhere in v's frame are more than two restart markers missing in a row.  Their
\* numbers wrap at 8: eight lost in a row would look like none.
FewMissing(v) ==
  LET f    == stream[v]
      rsts == {i \in DOMAIN f : f[i].k = "RST"}
      Follows(n, last) == \E d \in 1..3 : (n - d) % 8 = last
  IN \A k \in rsts :
       \/ Follows(f[k].n, 7) /\ \A i \in rsts : i >= k
       \/ \E i \in rsts : /\ i < k /\ \A j \in rsts : j <= i \/ j >= k
                         /\ Follows(f[k].n, f[i].n)

\* Data lost on the way does not shift the rest of the picture: as long as no
\* more than two restart markers are missing in a row, an interval that came with
\* its marker is decoded in its own place (jpeg_resync_to_restart, process_restart).
KeepsPlace ==
  \A v \in Views : FewMissing(v) =>
    \A i \in DOMAIN stream[v] :
      (stream[v][i].k = "mcu" /\ Anchored(v, i)) =>
        LET m == stream[v][i] IN
        m.scan \in DOMAIN coefs[v] /\ m.pos < Len(coefs[v][m.scan])
          => coefs[v][m.scan][m.pos + 1] = m

\* What processimage and pixeltobmp leave in the bitmap of a view is one picture,
\* as long as the views do not decode at the same time and all frames have the
\* size of the bitmap: every row is the row of that place of one and the same
\* frame, and if the frame was whole it is this frame.  Before the first picture
\* the buffer may be shown as malloc left it.
PictureIsWhole ==
  \A v \in Views : (shown[v] # None /\ ~odd /\ ~overlapped) =>
    \/ /\ stream[v] \notin Whole
       /\ \A i \in DOMAIN shown[v] : shown[v][i] = Unset
    \/ \E f \in 1..frame[v] : \A i \in DOMAIN shown[v] :
         /\ shown[v][i] # Unset
         /\ shown[v][i].of = f /\ shown[v][i].line = i - 1
         /\ stream[v] \in Whole => f = frame[v] /\ shown[v][i].right

\* The call for a frame whose EOI has arrived, or not even its SOS, comes to an
\* end, whatever is missing of it: only then can MjpegView.stopPlayback join the
\* thread.
CallsReturn ==
  \A v \in Views :
    LET kinds == {stream[v][i].k : i \in DOMAIN stream[v]} IN
    (pc[v] # "idle" /\ ("EOI" \in kinds \/ "SOS" \notin kinds)) ~> pc[v] \in {"idle", "dead"}
=============================================================================
