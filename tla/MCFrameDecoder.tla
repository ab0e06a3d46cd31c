--------------------------- MODULE MCFrameDecoder ---------------------------
(***************************************************************************)
(* Instances of FrameDecoder: frames of two rows of three MCUs, whole, cut  *)
(* off or with a run of tokens missing from the middle, with and without   *)
(* restart markers, in one scan and in two.                                *)
(***************************************************************************)
EXTENDS FrameDecoder, SequencesExt

CONSTANTS v1, v2

MCViews  == {v1, v2}
MCBitmap == [width |-> 3, height |-> 3]

SOI == [k |-> "SOI"]
DQT == [k |-> "DQT"]
EOI == [k |-> "EOI"]
DHT(t) == [k |-> "DHT", tables |-> t]
DRI(i) == [k |-> "DRI", interval |-> i]
SOS(n) == [k |-> "SOS", comps |-> n]
SOF(w, h, n) == [k |-> "SOF", width |-> w, height |-> h, vsamp |-> 2, comps |-> n]

\* The data of a scan of n MCUs, a restart marker before every i-th of them.
Data(s, n, i, t) ==
  FlattenSeq([p \in 1..n |->
    (IF i > 0 /\ p > 1 /\ (p - 1) % i = 0
     THEN <<[k |-> "RST", n |-> ((p - 1) \div i - 1) % 8]>> ELSE <<>>)
    \o <<[k |-> "mcu", scan |-> s, pos |-> p - 1, tables |-> t]>>])

Header == <<SOI, DQT, SOF(3, 3, 1)>>

Every   == Header \o <<DRI(1), SOS(1)>> \o Data(1, 6, 1, "std") \o <<EOI>>
Second  == Header \o <<DRI(2), SOS(1)>> \o Data(1, 6, 2, "std") \o <<EOI>>
Plain   == Header \o <<SOS(1)>> \o Data(1, 6, 0, "std") \o <<EOI>>
Tabled  == Header \o <<DHT("std"), SOS(1)>> \o Data(1, 6, 0, "std") \o <<EOI>>
Foreign == Header \o <<DHT("own"), SOS(1)>> \o Data(1, 6, 0, "own") \o <<EOI>>
Scans   == <<SOI, DQT, SOF(3, 3, 2), SOS(1)>> \o Data(1, 6, 0, "std")
             \o <<SOS(1)>> \o Data(2, 6, 0, "std") \o <<EOI>>
Small   == <<SOI, DQT, SOF(1, 1, 1), SOS(1)>> \o Data(1, 1, 0, "std") \o <<EOI>>
Double  == Header \o <<SOF(3, 3, 1), SOS(1), EOI>>
Twice   == <<SOI>> \o Plain

\* f cut off, or with a run of up to n of its tokens missing behind the first h
Losses(f, h, n) ==
  {SubSeq(f, 1, i) : i \in 0..Len(f)}
    \cup {SubSeq(f, 1, i) \o SubSeq(f, i + l + 1, Len(f)) : i \in h..Len(f), l \in 1..n}

MCWhole == {Every, Second, Plain, Tabled, Scans}

MCStreams ==
  (v1 :> (Losses(Every, 5, 6) \cup Losses(Second, 5, 2) \cup Losses(Scans, 0, 1)
            \cup {Plain, Tabled, Foreign, Double, Twice}))
    @@ (v2 :> {<<SOI>>, Small})
=============================================================================
