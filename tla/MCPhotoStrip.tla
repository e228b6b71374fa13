---------------------------- MODULE MCPhotoStrip ----------------------------
(***************************************************************************)
(* The files TLC sends: sound photos of each format put together from      *)
(* parts, one fault at a time in an otherwise sound file, one damaged      *)
(* field at a time in an otherwise sound Exif block, and every short       *)
(* concatenation of JPEG fragments, sound or not.                          *)
(***************************************************************************)
EXTENDS PhotoFiles

Sent(bytes, picture) ==
    [bytes |-> bytes, fate |-> "kept", picture |-> {picture}, size |-> Unknown,
     meta |-> Unknown]
Faulty(bytes, fate) ==
    [bytes |-> bytes, fate |-> fate, picture |-> Unknown, size |-> Unknown,
     meta |-> Unknown]

\* A part as it is in the file and as it should be in the stored picture.
Keep(bytes) == [sent |-> bytes, kept |-> bytes]
Lose(bytes) == [sent |-> bytes, kept |-> <<>>]
Bytes(parts)   == FlattenSeq([i \in 1..Len(parts) |-> parts[i].sent])
Picture(parts) == FlattenSeq([i \in 1..Len(parts) |-> parts[i].kept])

-----------------------------------------------------------------------------
(* An Exif block with everything in it: IFD0 at 3, GPS at 20, Exif at 45,  *)
(* data from 50.                                                           *)

GoodBlock == <<
    II, 42, 3,
    4, TagMake, 2, 4, MakerName,      TagOrient, 3, 1, 6,
       TagGpsIfd, 4, 1, 20,           TagExifIfd, 4, 1, 45,
    6, GpsLatRef, 2, 2, North,        GpsLat, 5, 3, 50,
       GpsLonRef, 2, 2, West,         GpsLon, 5, 3, 56,
       GpsAltRef, 1, 1, 0,            GpsAlt, 5, 1, 62,
    1, TagOriginal, 2, 20, 64,
    45, 1, 30, 1, 0, 1,   90, 1, 15, 1, 30, 1,   12, 1,   GoodTime, 0, 0, 0, 0 >>

GoodMeta ==
    [gps |-> [lat |-> 45 * 3600 + 1800, lon |-> -(90 * 3600 + 930), alt |-> 12,
              hadGps |-> TRUE],
     make |-> MakerName, model |-> Null, orientation |-> 6,
     capturedAt |-> GoodTime, capturedAtRaw |-> GoodTime]

NoPlace == [GoodMeta EXCEPT !.gps.lat = Null, !.gps.lon = Null]
NoTime  == [GoodMeta EXCEPT !.capturedAt = Null, !.capturedAtRaw = Null]
NoAlt   == [GoodMeta EXCEPT !.gps.alt = Null]
NoMaker == [GoodMeta EXCEPT !.make = Null]
NoOrientation == [GoodMeta EXCEPT !.orientation = Null]

\* One field changed (counted from 0), and what can still be read.
Damages == {
    <<0, MM, GoodMeta>>,        <<0, 7, NoMetadata>>,      <<1, 43, NoMetadata>>,
    <<2, 0, NoMetadata>>,       <<2, 2, NoMetadata>>,      <<2, 500, NoMetadata>>,
    <<3, 0, NoMetadata>>,       <<3, 99, NoMetadata>>,
    <<5, 13, NoMaker>>,         <<5, 3, NoMaker>>,         <<6, 0, NoMaker>>,
    <<6, 900, NoMaker>>,        <<7, 0, NoMaker>>,
    <<9, 5, NoOrientation>>,    <<11, 9, NoOrientation>>,  <<11, 8, [GoodMeta EXCEPT !.orientation = 8]>>,
    <<8, TagModel, NoOrientation>>,
    <<15, 2, [GoodMeta EXCEPT !.gps = NoGps]>>,
    <<15, 500, [GoodMeta EXCEPT !.gps = NoGps]>>,
    <<15, 3, [GoodMeta EXCEPT !.gps.lat = Null, !.gps.lon = Null, !.gps.alt = Null]>>,
    <<19, 0, NoTime>>,          <<19, 500, NoTime>>,       <<19, 20, NoTime>>,
    <<20, 0, [GoodMeta EXCEPT !.gps = NoGps]>>,
    <<20, 99, [GoodMeta EXCEPT !.gps = NoGps]>>,
    <<22, 13, NoPlace>>,        <<24, South, [GoodMeta EXCEPT !.gps.lat = -163800]>>,
    <<24, MakerName, NoPlace>>, <<26, 10, NoPlace>>,       <<27, 2, NoPlace>>,
    <<28, 500, NoPlace>>,       <<28, 66, NoPlace>>,       <<29, 99, NoPlace>>,
    <<32, East, [GoodMeta EXCEPT !.gps.lon = 324930]>>,
    <<38, 5, GoodMeta>>,        <<40, 1, [GoodMeta EXCEPT !.gps.alt = -12]>>,
    <<43, 3, NoAlt>>,           <<44, 500, NoAlt>>,        <<47, 13, NoTime>>,
    <<49, 65, NoTime>>,
    <<50, 90, NoPlace>>,        <<51, 0, NoPlace>>,        <<57, 0, NoPlace>>,
    <<56, 180, NoPlace>>,       <<62, 10001, NoAlt>>,      <<62, 10000, [GoodMeta EXCEPT !.gps.alt = 10000]>>,
    <<63, 0, NoAlt>>,
    <<64, BadTime, [GoodMeta EXCEPT !.capturedAt = Null, !.capturedAtRaw = BadTime]>>,
    <<64, 0, NoTime>> }

\* A block that ends early loses what lies behind the cut.
Cuts == { <<2, NoMetadata>>, <<19, NoMetadata>>,
          <<44, [NoTime EXCEPT !.gps = NoGps]>>,
          <<49, [NoPlace EXCEPT !.gps.alt = Null, !.capturedAt = Null, !.capturedAtRaw = Null]>>,
          <<60, [NoPlace EXCEPT !.gps.alt = Null, !.capturedAt = Null, !.capturedAtRaw = Null]>>,
          <<63, [NoAlt EXCEPT !.capturedAt = Null, !.capturedAtRaw = Null]>>,
          <<66, NoTime>> }

Blocks ==
    {<<GoodBlock, GoodMeta>>}
    \cup {<<[GoodBlock EXCEPT ![d[1] + 1] = d[2]], d[3]>> : d \in Damages}
    \cup {<<SubSeq(GoodBlock, 1, c[1]), c[2]>> : c \in Cuts}

-----------------------------------------------------------------------------
(* JPEG.                                                                   *)

Seg(marker, payload) == <<FF, marker, 0, Len(payload) + 2>> \o payload
Frame(w, h) == Seg(192, <<8, h, w, 1>>)
Scan(data)  == Seg(SOS, <<1>>) \o data
ExifSeg(block) == Seg(APP1, <<ExifId>> \o block)

JpegFile(parts, end) == <<FF, SOI>> \o Bytes(parts) \o end
JpegPicture(parts)   == <<FF, SOI>> \o Picture(parts) \o <<FF, EOI>>

JpegMeta == {
    Lose(<<>>), Lose(Seg(APP1, <<XmpId, 9>>)), Lose(ExifSeg(<<II, 42>>)),
    Lose(Seg(APP0, <<5>>)), Keep(Seg(APP0, <<JfifId>>)),
    Lose(<<FF, FF>> \o Seg(COM, <<FF, EOI>>)), Lose(<<FF, TEM>>) }
JpegTables == {
    Keep(Seg(219, <<7, FF, 0>>)), [sent |-> <<FF>> \o Seg(196, <<>>), kept |-> Seg(196, <<>>)],
    Lose(Seg(226, <<3>>)) }
Scans == { Keep(Scan(<<>>)), Keep(Scan(<<7, FF, 0, FF, 208, 7>>)), Keep(Scan(<<FF, FF, 0, 9, FF>>)) }
Between == { Lose(<<>>), Lose(Seg(COM, <<3>>)), Keep(Seg(220, <<4>>)), Lose(<<FF, TEM>>) }
JpegEnds == { <<FF, EOI>>, <<>>, <<FF, EOI, 9, FF, SOI>>, <<FF, FF, EOI>> \o ExifSeg(GoodBlock) }

\* FF fill before the final EOI belongs to the scan before it.
KeptFill(end) == IF Len(end) > 2 /\ end[2] = FF THEN <<FF>> ELSE <<>>

Jpegs ==
    {Sent(JpegFile(<<a, Keep(Frame(2, 3)), b, c, d, e>>, end),
          <<FF, SOI>> \o Picture(<<a, Keep(Frame(2, 3)), b, c, d, e>>)
              \o KeptFill(end) \o <<FF, EOI>>) :
        a \in JpegMeta, b \in JpegTables, c \in Scans, d \in Between,
        e \in {Keep(Scan(<<>>)), Keep(Scan(<<5, FF, 0>>))}, end \in JpegEnds}

SomeScan == Scan(<<7>>)
SmallJpeg(parts) == <<FF, SOI>> \o Frame(1, 1) \o parts \o SomeScan \o <<FF, EOI>>

FaultyJpegs == {
    Faulty(<<FF, SOI>>, "MALFORMED"),
    Faulty(SmallJpeg(<<7>>), "MALFORMED"),
    Faulty(SmallJpeg(<<FF, 0>>), "MALFORMED"),
    Faulty(SmallJpeg(<<FF, COM, 0, 1>>), "MALFORMED"),
    Faulty(SmallJpeg(<<FF, COM, 0, 0>>), "MALFORMED"),
    Faulty(SmallJpeg(<<FF, COM, 9, 9>>), "MALFORMED"),
    Faulty(SmallJpeg(<<>>) \o <<FF>>, "kept"),
    Faulty(<<FF, SOI>> \o Frame(1, 1) \o <<FF, EOI>> \o SomeScan, "MALFORMED"),
    Faulty(<<FF, SOI>> \o Frame(1, 1) \o <<FF, COM, 0>>, "MALFORMED"),
    Faulty(<<FF, SOI>> \o Frame(1, 1) \o <<FF, FF>>, "MALFORMED"),
    Faulty(<<FF, SOI>> \o SomeScan \o <<FF, EOI>>, "MALFORMED"),
    Faulty(<<FF, SOI>> \o Seg(192, <<8, 1>>) \o SomeScan, "MALFORMED"),
    Faulty(<<FF, SOI>> \o Frame(1, 1) \o Seg(194, <<8>>) \o SomeScan, "kept"),
    Faulty(<<FF, SOI>> \o Seg(196, <<8>>) \o SomeScan, "MALFORMED"),
    Faulty(<<FF, SOI>> \o Frame(0, 1) \o SomeScan, "MALFORMED"),
    Faulty(<<FF, SOI>> \o Frame(10, 1) \o SomeScan, "TOO_MANY_PIXELS"),
    Faulty(<<FF, SOI>> \o Frame(5, 7) \o SomeScan, "TOO_MANY_PIXELS"),
    Faulty(<<FF, SOI>> \o Frame(9, 3) \o SomeScan, "kept"),
    Faulty(<<FF, SOI>> \o Frame(1, 1) \o FlattenSeq([i \in 1..(MaxSegments - 2) |-> <<FF, TEM>>])
               \o SomeScan \o <<FF, EOI>>, "MALFORMED"),
    \* as many parts as a walk takes, with and without an EOI to write
    Faulty(<<FF, SOI>> \o Frame(1, 1) \o FlattenSeq([i \in 1..(MaxSegments - 3) |-> Seg(219, <<7>>)])
               \o SomeScan \o <<FF, EOI>>, "kept"),
    Faulty(<<FF, SOI>> \o Frame(1, 1) \o FlattenSeq([i \in 1..(MaxSegments - 2) |-> Seg(219, <<7>>)])
               \o SomeScan, "kept"),
    \* exactly at the byte ceiling, with and without an EOI to write
    Faulty(<<FF, SOI>> \o Frame(1, 1) \o SomeScan \o [i \in 1..(MaxBytes - 16) |-> 7], "kept"),
    Faulty(<<FF, SOI>> \o Frame(1, 1) \o SomeScan \o [i \in 1..(MaxBytes - 15) |-> 7], "TOO_LARGE") }

\* Every file of up to three fragments after a frame, sound or not.
Fragments == {
    <<>>, <<FF>>, <<0>>, <<7>>, <<FF, 0>>, <<FF, 208>>, <<FF, TEM>>, <<FF, EOI>>,
    <<FF, COM, 0, 3>>, <<FF, 219, 0, 4>>, Scan(<<>>), <<FF, SOS, 0, 2>>, Seg(APP1, <<ExifId>>) }
AnyJpegs ==
    {Faulty(<<FF, SOI>> \o Frame(2, 2) \o a \o b \o c \o d, "any") :
        a \in Fragments, b \in Fragments, c \in Fragments, d \in {SomeScan, <<>>}}

-----------------------------------------------------------------------------
(* PNG and WebP.                                                           *)

Chunk(type, data) == <<Len(data), type>> \o data \o <<Crc32(<<type>> \o data)>>
BadCrc(type, data) == <<Len(data), type>> \o data \o <<Crc32(<<type>> \o data) + 1>>
PngStart == <<PngSig>> \o Chunk(IHDR, <<3, 2>>)
TextChunk == 2010

PngMiddles == {
    Lose(<<>>), Lose(Chunk(TextChunk, <<7>>)), Lose(BadCrc(TextChunk, <<7, 8>>)),
    Lose(Chunk(EXIFc, <<II>>)), Keep(Chunk(2004, <<7, 7>>)), Keep(Chunk(2005, <<>>)) }
Pngs ==
    {Sent(PngStart \o Bytes(<<a, Keep(Chunk(IDAT, <<4, 5>>)), b>>) \o Chunk(IEND, <<>>) \o tail,
          PngStart \o Picture(<<a, Keep(Chunk(IDAT, <<4, 5>>)), b>>) \o Chunk(IEND, <<>>)) :
        a \in PngMiddles, b \in PngMiddles, tail \in {<<>>, <<9>>, Chunk(TextChunk, <<1>>)}}
FaultyPngs == {
    Faulty(PngStart \o Chunk(IDAT, <<1>>), "MALFORMED"),
    Faulty(PngStart \o BadCrc(IDAT, <<1>>) \o Chunk(IEND, <<>>), "MALFORMED"),
    Faulty(PngStart \o <<60, IDAT, 1, 1>>, "MALFORMED"),
    Faulty(PngStart \o <<4, TextChunk, 1, 1>>, "MALFORMED"),
    Faulty(PngStart \o Chunk(TextChunk, [i \in 1..91 |-> 7]) \o Chunk(IEND, <<>>), "MALFORMED"),
    Faulty(PngStart \o <<0>>, "MALFORMED"),
    Faulty(PngStart \o <<0, 7, 7>>, "MALFORMED"),
    Faulty(<<PngSig>> \o Chunk(IDAT, <<1, 1>>) \o Chunk(IEND, <<>>), "MALFORMED"),
    Faulty(<<PngSig, 1, IHDR, 3, 2, 5>>, "MALFORMED"),
    Faulty(<<PngSig, 2, IHDR, 3>>, "MALFORMED"),
    Faulty(<<PngSig>> \o BadCrc(IHDR, <<3, 2>>) \o Chunk(IEND, <<>>), "MALFORMED"),
    Faulty(<<PngSig>> \o Chunk(IHDR, <<3, 0>>) \o Chunk(IEND, <<>>), "MALFORMED"),
    Faulty(<<PngSig>> \o Chunk(IHDR, <<6, 6>>) \o Chunk(IEND, <<>>), "TOO_MANY_PIXELS") }

Riff(fourcc, data) == <<fourcc, Len(data)>> \o data \o (IF Len(data) % 2 = 1 THEN <<0>> ELSE <<>>)
Webp(body) == <<RIFF, 1 + Len(body), WEBP>> \o body
Extended(flags) == Riff(VP8X, <<flags, 0, 2, 1>>)
Lossy    == Riff(VP8, <<1, StartCode, 3, 2>>)
Lossless == Riff(VP8L, <<Vp8lSignature, 2, 1>>)

WebpMiddles == {
    Lose(<<>>), Lose(Riff(EXIFw, <<II, 1, 1>>)), Lose(Riff(3011, <<7>>)), Lose(Riff(3012, <<7, 7>>)),
    Keep(Riff(3005, <<7>>)) }
WebpHeads == {
    [sent |-> Extended(f), kept |-> Extended(16 * (f \div 16 % 2) + (f % 4))] : f \in {0, 12, 18, 44, 62} }
    \cup {Lose(<<>>), Keep(Riff(VP8X, <<2>>))}
Webps ==
    {Sent(Webp(Bytes(<<h, a, c, b>>)) \o tail, Webp(Picture(<<h, a, c, b>>))) :
        h \in WebpHeads, a \in WebpMiddles, b \in WebpMiddles,
        c \in {Keep(Lossy), Keep(Lossless)}, tail \in {<<>>, <<9, 9>>}}
FaultyWebps == {
    Faulty(<<RIFF, 0, WEBP>>, "MALFORMED"),
    Faulty(<<RIFF, 1, WEBP>>, "MALFORMED"),
    Faulty(<<RIFF, 9, WEBP>> \o Lossy, "MALFORMED"),
    Faulty(<<RIFF, 5, WEBP>> \o Lossy, "MALFORMED"),
    Faulty(Webp(<<7, 0>>), "MALFORMED"),
    Faulty(Webp(Lossy \o Riff(3012, [i \in 1..91 |-> 7])), "MALFORMED"),
    Faulty(Webp(<<VP8, 60, 1, 1>>), "MALFORMED"),
    Faulty(Webp(Riff(VP8, <<1, 7, 3, 2>>)), "MALFORMED"),
    Faulty(Webp(Riff(VP8L, <<7, 2, 1>>)), "MALFORMED"),
    Faulty(Webp(Riff(3012, <<7>>)), "MALFORMED"),
    Faulty(Webp(Riff(VP8X, <<0, 0, 20, 1>>)), "TOO_MANY_PIXELS"),
    \* the last chunk lacks its pad byte; trailing bytes too few for a chunk
    [Sent(<<RIFF, 6, WEBP, VP8L, 3, Vp8lSignature, 2, 1>>, Webp(Lossless)) EXCEPT !.meta = {NoMetadata}],
    Sent(Webp(Lossy \o <<7>>), Webp(Lossy)) }

-----------------------------------------------------------------------------
(* Each Exif block in each container, and files that are no photo.         *)

InContainers(b) ==
    LET file1 == SmallJpeg(ExifSeg(b[1]))
        file2 == SmallJpeg(ExifSeg(b[1]) \o ExifSeg(GoodBlock))
        file3 == PngStart \o Chunk(EXIFc, b[1]) \o Chunk(IEND, <<>>)
        file4 == PngStart \o Chunk(EXIFc, <<ExifId>> \o b[1]) \o Chunk(IEND, <<>>)
        file5 == Webp(Lossy \o Riff(EXIFw, b[1]))
    IN  {[Faulty(f, "kept") EXCEPT !.meta = {b[2]}] : f \in {file1, file2, file3, file4, file5}}

NotPhotos == {
    Faulty(<<>>, "EMPTY"), Faulty(<<FF>>, "UNSUPPORTED_FORMAT"),
    Faulty(<<0, FtypTag, HeifBrand, 0>>, "HEIC_UNSUPPORTED"),
    Faulty(<<0, FtypTag, 4002, 0>>, "UNSUPPORTED_FORMAT"),
    Faulty(<<RIFF, 1, 3002>>, "UNSUPPORTED_FORMAT"),
    Faulty(<<FF, 217, FF, SOI>>, "UNSUPPORTED_FORMAT"),
    Faulty([i \in 1..(MaxBytes + 1) |-> FF], "TOO_LARGE") }

MCMinAltitude == -500

AllSendings ==
    Jpegs \cup FaultyJpegs \cup AnyJpegs \cup Pngs \cup FaultyPngs \cup Webps
    \cup FaultyWebps \cup NotPhotos \cup UNION {InContainers(b) : b \in Blocks}

-----------------------------------------------------------------------------
(* What these makers tell of their files is what the parts say.            *)

RECURSIVE LaidBehind(_, _, _)
LaidBehind(fmt, f, l) ==
    LET from  == Reached(fmt, f, l, Len(l))
        ats   == {at \in from..Len(f) : Opens(fmt, f, from, at)}
        parts == {p \in [from : {from}, at : ats, to : from..Len(f)] :
                     Continues(fmt, f, l, Len(l), p)}
    IN  IF Len(l) = MaxSegments \/ parts = {} THEN l
        ELSE LaidBehind(fmt, f, Append(l, CHOOSE p \in parts : TRUE))

\* TellsTheTruth of each, by the row that LaidBehind finds.
ASSUME MakersTellTheTruth ==
    \A s \in AllSendings :
        LET f == s.bytes
            l == LaidBehind(Kind(f), f, <<>>)
        IN  /\ Laid(Kind(f), f, l)
            /\ s.fate \in {Verdict(Kind(f), f, l), "any"}
            /\ s.picture \in {Unknown, {PictureOf(Kind(f), f, l)}}
=============================================================================
