----------------------------- MODULE PhotoFiles -----------------------------
(***************************************************************************)
(* What a photo file is, told by its parts and apart from any program: how *)
(* a part of a JPEG, PNG or WebP lies in the file, which parts draw the    *)
(* picture, which size the file gives itself, and so what should become of *)
(* it.  photos.js finds all this by walking; here it is a description of   *)
(* the file as a whole, which says nothing of walks, turns or offsets.     *)
(*                                                                         *)
(* A part lies behind its first `at` elements and up to its `to`-th; `from`*)
(* is where it may start, which is earlier when FF bytes fill the gap.     *)
(***************************************************************************)
EXTENDS PhotoStrip, SequencesExt

Kind(f) ==
    IF Len(f) < 2 THEN "none"
    ELSE IF f[1] = FF /\ f[2] = SOI THEN "jpeg"
    ELSE IF f[1] = PngSig THEN "png"
    ELSE IF Len(f) >= 3 /\ f[1] = RIFF /\ f[3] = WEBP THEN "webp" ELSE "none"

\* Behind the SOI, the signature, the RIFF header.
Preamble(fmt) == CASE fmt = "jpeg" -> 2 [] fmt = "png" -> 1 [] fmt = "webp" -> 3 [] OTHER -> 0

-----------------------------------------------------------------------------
(* One part.                                                               *)

\* Length, type, data, checksum; a type is text, and a chunk that is drawn
\* has its checksum.
IsPngChunk(f, p) ==
    /\ p.at + 2 <= Len(f)
    /\ p.to = p.at + 3 + f[p.at + 1] /\ p.to <= Len(f)
    /\ f[p.at + 1] <= MaxChunkLength /\ f[p.at + 2] >= Symbols
    /\ f[p.at + 2] \in PngKeptChunks => f[p.to] = Crc32(SubSeq(f, p.at + 2, p.to - 1))

\* Type, length, data, within what the RIFF header announces.
IsWebpChunk(f, p) ==
    /\ 2 + f[2] <= Len(f)
    /\ p.at + 2 <= 2 + f[2]
    /\ p.to = p.at + 2 + f[p.at + 2] /\ p.to <= 2 + f[2]
    /\ f[p.at + 1] >= Symbols /\ f[p.at + 2] <= MaxRiffSize

\* FF and a marker, a two-byte length that counts itself.
JpegHeader(f, a) == 2 + f[a + 3] * 256 + f[a + 4]

\* The bytes of a scan, which is any number of them and holds no marker.
ScanBytes(f, a, from, m) ==
    \A j \in (from + 1)..(m - 1) : f[a + j] = FF => f[a + j + 1] \in {FF, 0} \cup RST

AtMarker(f, i) == i + 2 <= Len(f) /\ f[i + 1] = FF /\ f[i + 2] \notin {FF, 0} \cup RST

\* A marker by itself, a segment, or a header with its scan.
IsJpegPart(f, p) ==
    /\ p.at + 2 <= p.to /\ p.to <= Len(f)
    /\ f[p.at + 1] = FF /\ f[p.at + 2] \notin {FF, 0}
    /\ IF Bare(f[p.at + 2]) THEN p.to = p.at + 2
       ELSE /\ p.at + 4 <= p.to
            /\ JpegHeader(f, p.at) >= 4 /\ p.at + JpegHeader(f, p.at) <= p.to
            /\ IF f[p.at + 2] = SOS
               THEN /\ ScanBytes(f, p.at, JpegHeader(f, p.at), p.to - p.at)
                    /\ p.to = Len(f) \/ AtMarker(f, p.to)
               ELSE p.to = p.at + JpegHeader(f, p.at)

\* In front of a marker there may be FF fill; chunks follow without a gap.
Opens(fmt, f, from, at) ==
    /\ from <= at
    /\ IF fmt = "jpeg" THEN \A j \in (from + 1)..at : f[j] = FF ELSE at = from

IsPart(fmt, f, p) ==
    /\ Opens(fmt, f, p.from, p.at)
    /\ CASE fmt = "jpeg" -> IsJpegPart(f, p) [] fmt = "png" -> IsPngChunk(f, p)
         [] fmt = "webp" -> IsWebpChunk(f, p) [] OTHER -> FALSE

\* Where the next one starts: a WebP chunk is padded to an even length, and
\* behind an EOI or an IEND nothing belongs to the photo.
Behind(fmt, f, p) ==
    CASE fmt = "jpeg" -> IF f[p.at + 2] = EOI THEN Len(f) ELSE p.to
      [] fmt = "png"  -> IF f[p.at + 2] = IEND THEN Len(f) ELSE p.to
      [] OTHER        -> p.to + (f[p.at + 2] % 2)

-----------------------------------------------------------------------------
(* The row of parts.                                                       *)

Places == [from : Nat, at : Nat, to : Nat]

Reached(fmt, f, l, n) == IF n = 0 THEN Preamble(fmt) ELSE Behind(fmt, f, l[n])

\* The first frame header tells the size, and must be long enough to.
NoFrame(f, l, n) == \A i \in 1..n : f[l[i].at + 2] \notin SOF

\* p comes next behind the first n parts of l.
Continues(fmt, f, l, n, p) ==
    /\ p.from = Reached(fmt, f, l, n) /\ IsPart(fmt, f, p)
    /\ fmt = "jpeg" /\ f[p.at + 2] \in SOF /\ NoFrame(f, l, n) => p.to >= p.at + 8

Complete(fmt, f, l) ==
    LET from == Reached(fmt, f, l, Len(l)) IN
    \A at \in from..Len(f) : Opens(fmt, f, from, at) =>
        \A to \in at..Len(f) :
            ~Continues(fmt, f, l, Len(l), [from |-> from, at |-> at, to |-> to])

\* l is the parts of f, as many as there are or as are looked at.
Laid(fmt, f, l) ==
    /\ l \in Seq(Places) /\ Len(l) <= MaxSegments
    /\ \A k \in 1..Len(l) : Continues(fmt, f, l, k - 1, l[k])
    /\ Len(l) = MaxSegments \/ Complete(fmt, f, l)

-----------------------------------------------------------------------------
(* The size of the picture, <<width, height>>, or NoDims.                  *)

JpegSize(f, l) ==
    LET frames == {i \in 1..Len(l) : f[l[i].at + 2] \in SOF}
    IN  IF frames = {} THEN NoDims
        ELSE LET a == l[CHOOSE i \in frames : \A j \in frames : i <= j].at
             IN  <<f[a + 7], f[a + 6]>>

\* The i-th chunk is the first of its kind.
Leads(f, s, m, X, i) ==
    i \in 1..m /\ f[s[i] + 1] = X /\ \A j \in 1..(i - 1) : f[s[j] + 1] # X

Wide(f, s, m, X, size) ==
    \E i \in 1..m : Leads(f, s, m, X, i) /\ f[s[i] + 2] >= size
Datum(f, s, m, X, t) == f[s[CHOOSE i \in 1..m : Leads(f, s, m, X, i)] + 2 + t]

\* The size told by the m chunks of f that start at s.
Measured(f, s, m) ==
    IF Wide(f, s, m, VP8X, Vp8xHeader)
    THEN <<Datum(f, s, m, VP8X, 3) + 1, Datum(f, s, m, VP8X, 4) + 1>>
    ELSE IF Wide(f, s, m, VP8, Vp8Header)
    THEN IF Datum(f, s, m, VP8, 2) = StartCode
         THEN <<Datum(f, s, m, VP8, 3), Datum(f, s, m, VP8, 4)>> ELSE NoDims
    ELSE IF Wide(f, s, m, VP8L, Vp8lHeader) /\ Datum(f, s, m, VP8L, 1) = Vp8lSignature
    THEN <<Datum(f, s, m, VP8L, 2) + 1, Datum(f, s, m, VP8L, 3) + 1>> ELSE NoDims

PngSize(f) ==
    IF Len(f) >= 6 /\ f[2] = IhdrLength /\ f[3] = IHDR THEN <<f[4], f[5]>> ELSE NoDims

\* A PNG tells it in its first chunk, the others somewhere in a whole file; a
\* JPEG without a scan has no picture.
SizeTold(fmt, f, l) ==
    LET end == Reached(fmt, f, l, Len(l)) IN
    CASE fmt = "png"  -> PngSize(f)
      [] fmt = "jpeg" -> IF end >= Len(f) /\ \E i \in 1..Len(l) : f[l[i].at + 2] = SOS
                         THEN JpegSize(f, l) ELSE NoDims
      [] fmt = "webp" -> IF f[2] >= 1 /\ 2 + f[2] <= Len(f) /\ end + 2 > 2 + f[2]
                         THEN Measured(f, [i \in 1..Len(l) |-> l[i].at], Len(l)) ELSE NoDims
      [] OTHER        -> NoDims

-----------------------------------------------------------------------------
(* What becomes of it.                                                     *)

\* The parts that draw the picture.
Draws(fmt, f, p) ==
    LET type == IF fmt = "webp" THEN f[p.at + 1] ELSE f[p.at + 2] IN
    CASE fmt = "jpeg" -> \/ type \in (SOF \cup KeptMarkers) \ {EOI}
                         \/ type = APP0 /\ p.at + 5 <= p.to /\ f[p.at + 5] = JfifId
      [] fmt = "png"  -> type \in PngKeptChunks
      [] OTHER        -> type \in WebpKeptChunks

\* A drawing part as it is stored: a VP8X announces no more than there is, and
\* the pad byte of a chunk is a zero.
Stored(fmt, f, p) ==
    LET bytes == SubSeq(f, p.at + 1, p.to)
        size  == f[p.at + 2]
        flags == IF f[p.at + 1] = VP8X /\ size >= 1
                 THEN [bytes EXCEPT ![3] = ClearedFlags(@)] ELSE bytes
    IN  IF ~Draws(fmt, f, p) THEN <<>>
        ELSE IF fmt # "webp" THEN bytes
        ELSE IF size % 2 = 1 THEN flags \o <<0>> ELSE flags

PictureOf(fmt, f, l) ==
    LET drawn == FlattenSeq([k \in 1..Len(l) |-> Stored(fmt, f, l[k])]) IN
    CASE fmt = "jpeg" -> <<FF, SOI>> \o drawn \o <<FF, EOI>>
      [] fmt = "png"  -> <<PngSig>> \o drawn
      [] OTHER        -> <<RIFF, 1 + Len(drawn), WEBP>> \o drawn

\* The fate of a photo: kept, or the code it is refused with.
Verdict(fmt, f, l) ==
    LET size == SizeTold(fmt, f, l) IN
    IF Len(f) = 0 THEN "EMPTY"
    ELSE IF Len(f) > MaxBytes THEN "TOO_LARGE"
    ELSE IF fmt = "none"
    THEN IF Len(f) >= 3 /\ f[2] = FtypTag /\ f[3] = HeifBrand
         THEN "HEIC_UNSUPPORTED" ELSE "UNSUPPORTED_FORMAT"
    ELSE IF size = NoDims THEN "MALFORMED"
    ELSE IF size[1] <= 0 \/ size[2] <= 0 THEN "MALFORMED"
    ELSE IF size[1] > MaxDimension \/ size[2] > MaxDimension \/ size[1] * size[2] > MaxPixels
    THEN "TOO_MANY_PIXELS"
    ELSE IF fmt = "png" /\ \A k \in 1..Len(l) : f[l[k].at + 2] # IEND THEN "MALFORMED"
    ELSE "kept"

\* What its maker tells of a file is so, of the fate and of the picture.
TellsTheTruth(s) ==
    LET f == s.bytes IN
    \E l : /\ Laid(Kind(f), f, l)
           /\ s.fate \in {Verdict(Kind(f), f, l), "any"}
           /\ s.picture \in {Unknown, {PictureOf(Kind(f), f, l)}}
=============================================================================
