----------------------------- MODULE JpegStrip -----------------------------
(***************************************************************************)
(* walkJpeg and stripJpeg of server/lib/photos.js: one action per turn of  *)
(* either loop.  A JPEG is walked by its markers; scan data carries no     *)
(* length, so its end is found by looking for a marker that is neither a   *)
(* stuffed zero nor a restart.                                             *)
(***************************************************************************)
EXTENDS ImageBytes

FF   == 255
SOI  == 216
EOI  == 217
SOS  == 218
TEM  == 1
COM  == 254
APP0 == 224
APP1 == 225
RST  == 208..215
SOF  == (192..207) \ {196, 200, 204}

\* DHT, DAC, DQT, DNL, DRI, SOS, EOI.
KeptMarkers == {196, 204, 219, 220, 221, SOS, EOI}

ExifId == 1001
XmpId  == 1002
JfifId == 1003

\* Precision, height, width and component count: the six bytes of a frame
\* header the walk insists on.
FrameHeader == 4

\* The first byte from `from` on that is not an FF fill byte.
MarkerAt(from) ==
    CHOOSE i \in from..Len(file) :
        /\ i < Len(file) => Byte(i) # FF
        /\ \A j \in from..(i - 1) : Byte(j) = FF

\* Mutant: a restart marker ends the scan.
EndsScan_AtRestart(i) ==
    \/ i = Len(file)
    \/ i + 1 < Len(file) /\ Byte(i) = FF /\ Byte(i + 1) \notin {FF, 0}

\* An FF that introduces a real marker, or the end of the file.
EndsScan(i) ==
    \/ i = Len(file)
    \/ i + 1 < Len(file) /\ Byte(i) = FF /\ Byte(i + 1) \notin {FF, 0} \cup RST

FindScanEnd(from) ==
    CHOOSE i \in from..Len(file) :
        /\ EndsScan(i)
        /\ \A j \in from..(i - 1) : ~EndsScan(j)

-----------------------------------------------------------------------------
(* One turn of walkJpeg, at the marker the walk stands on.                 *)

Bare(marker) == marker \in {EOI, TEM} \cup RST

LengthAt(at) == Byte(at + 1) * 256 + Byte(at + 2)

\* The frame header is looked at once, in the first SOF.
FirstFrame(marker) == marker \in SOF /\ dims = NoDims

\* What a turn demands, in the order the code tests it; it throws otherwise.
MarkerSound(at) == at > offset /\ at < Len(file) /\ Byte(at) # 0
LengthSound(at) ==
    /\ at + 3 <= Len(file)
    /\ LengthAt(at) >= 2
    /\ at + 1 + LengthAt(at) <= Len(file)
    /\ FirstFrame(Byte(at)) => LengthAt(at) - 2 >= FrameHeader
TurnSound(at) ==
    /\ Len(segments) < MaxSegments
    /\ MarkerSound(at)
    /\ ~Bare(Byte(at)) => LengthSound(at)

JpegWalking ==
    /\ phase = "walk" /\ format = "jpeg"
    /\ offset < Len(file)

Part(kind, at, to) ==
    [marker |-> Byte(at), kind |-> kind, start |-> at - 1, end |-> to,
     payload |-> at + 3]

JpegMalformed ==
    /\ JpegWalking
    /\ ~TurnSound(MarkerAt(offset))
    /\ Refuse("MALFORMED")

JpegTurn(at) == JpegWalking /\ TurnSound(at)

JpegEoi ==
    LET at == MarkerAt(offset) IN
    /\ JpegTurn(at) /\ Byte(at) = EOI
    /\ Walked(Part("eoi", at, at + 1), Len(file))   \* break: the rest is not read
    /\ UNCHANGED <<phase, dims>>

JpegStandalone ==
    LET at == MarkerAt(offset) IN
    /\ JpegTurn(at) /\ Byte(at) \in {TEM} \cup RST
    /\ Walked(Part("standalone", at, at + 1), at + 1)
    /\ UNCHANGED <<phase, dims>>

JpegSos ==
    LET at == MarkerAt(offset) IN
    /\ JpegTurn(at) /\ Byte(at) = SOS
    /\ LET scanEnd == FindScanEnd(at + 1 + LengthAt(at))
       IN  Walked(Part("sos", at, scanEnd), scanEnd)
    /\ UNCHANGED <<phase, dims>>

\* Mutant: the walk goes on at the segment's last byte.
JpegSegment_OneBack ==
    LET at  == MarkerAt(offset)
        end == at + 1 + LengthAt(at)
    IN
    /\ JpegTurn(at) /\ ~Bare(Byte(at)) /\ Byte(at) # SOS
    /\ Walked(Part("segment", at, end), end - 1)
    /\ dims' = IF FirstFrame(Byte(at))
               THEN <<Byte(at + 5), Byte(at + 4)>> ELSE dims
    /\ UNCHANGED phase

JpegSegment ==
    LET at  == MarkerAt(offset)
        end == at + 1 + LengthAt(at)
    IN
    /\ JpegTurn(at) /\ ~Bare(Byte(at)) /\ Byte(at) # SOS
    /\ Walked(Part("segment", at, end), end)
    /\ dims' = IF FirstFrame(Byte(at))
               THEN <<Byte(at + 5), Byte(at + 4)>> ELSE dims
    /\ UNCHANGED phase

SawKind(kind) == \E i \in 1..Len(segments) : segments[i].kind = kind

\* The end of the loop: no frame or no scan means there is no picture.
JpegWalked ==
    /\ phase = "walk" /\ format = "jpeg" /\ offset >= Len(file)
    /\ IF dims = NoDims \/ ~SawKind("sos")
       THEN Refuse("MALFORMED")
       ELSE /\ phase' = "budget"
            /\ UNCHANGED <<file, format, refusal, offset, segments, dims, next,
                           out, exif, removed>>

-----------------------------------------------------------------------------
(* stripJpeg: the parts in file order, between a new SOI and a new EOI.    *)

IsExif(seg) == seg.marker = APP1 /\ Has(seg.payload, ExifId)
IsJfif(seg) == seg.marker = APP0 /\ Has(seg.payload, JfifId)

JpegKept(seg) ==
    \/ seg.kind = "sos"
    \/ /\ seg.kind = "segment" /\ ~IsExif(seg)
       /\ IsJfif(seg) \/ seg.marker \in SOF \cup KeptMarkers

\* jpegSegmentLabel: the marker, with the identifier when it is a known one.
JpegLabel(seg) ==
    <<seg.marker,
      IF seg.marker = APP1 /\ (Has(seg.payload, ExifId) \/ Has(seg.payload, XmpId))
      THEN Byte(seg.payload) ELSE 0>>

JpegStripping == phase = "strip" /\ format = "jpeg" /\ next <= Len(segments)

JpegCopy ==
    /\ JpegStripping /\ JpegKept(segments[next])
    /\ Wrote(Cut(segments[next].start, segments[next].end))
    /\ next' = next + 1 /\ UNCHANGED <<phase, offset>>

JpegSkip ==
    /\ JpegStripping /\ segments[next].kind \in {"eoi", "standalone"}
    /\ next' = next + 1
    /\ UNCHANGED <<file, format, phase, refusal, offset, segments, dims, out,
                   exif, removed>>

JpegDrop ==
    LET seg == segments[next] IN
    /\ JpegStripping /\ seg.kind = "segment" /\ ~JpegKept(seg)
    /\ LeftOut(JpegLabel(seg), IsExif(seg), <<seg.payload, seg.end>>)
    /\ next' = next + 1 /\ UNCHANGED <<phase, offset>>

JpegFinish ==
    /\ phase = "strip" /\ format = "jpeg" /\ next > Len(segments)
    /\ out' = out \o <<FF, EOI>>
    /\ removed' = removed \cup (IF SawKind("eoi") THEN {} ELSE {<<EOI, 0>>})
    /\ phase' = "extract"
    /\ UNCHANGED <<file, format, refusal, offset, segments, dims, next, exif>>

JpegStep ==
    \/ JpegMalformed \/ JpegEoi \/ JpegStandalone \/ JpegSos \/ JpegSegment
    \/ JpegWalked \/ JpegCopy \/ JpegSkip \/ JpegDrop \/ JpegFinish
=============================================================================
