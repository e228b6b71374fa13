----------------------------- MODULE WebpStrip -----------------------------
(***************************************************************************)
(* readRiffChunks, readWebpDimensions and stripWebp of                     *)
(* server/lib/photos.js.  A WebP is a RIFF container: a size field that    *)
(* must be rewritten, chunks padded to an even length with a byte their    *)
(* own size leaves out, and a VP8X chunk whose flags announce the others.  *)
(***************************************************************************)
EXTENDS ImageBytes

RIFF  == 3000
WEBP  == 3001
VP8   == 3002
VP8L  == 3003
VP8X  == 3004
EXIFw == 3010       \* EXIF
StartCode == 3020   \* 9d 01 2a

\* 3005 stands for ANIM, ANMF and ALPH; XMP, ICCP and the rest are dropped.
WebpKeptChunks == {VP8, VP8L, VP8X, 3005}

FlagIcc  == 32
FlagExif == 8
FlagXmp  == 4

\* The least data a chunk needs to carry dimensions: 10, 10 and 5 bytes.
Vp8xHeader == 4     \* flags, reserved, width - 1, height - 1
Vp8Header  == 4     \* frame tag, start code, width, height
Vp8lHeader == 3     \* signature, width - 1, height - 1
Vp8lSignature == 47

MaxRiffSize == 90   \* 2^31 - 1

Declared == Byte(1)
RiffEnd  == 2 + Declared        \* the size field counts what follows it

RiffSound == Declared >= 1 /\ RiffEnd <= Len(file)

-----------------------------------------------------------------------------
(* readRiffChunks, one chunk a turn.                                       *)

WebpWalking == phase = "walk" /\ format = "webp"
InRiff      == WebpWalking /\ RiffSound /\ offset + 2 <= RiffEnd

ChunkEnd == offset + 2 + Byte(offset + 1)

RiffChunkSound ==
    /\ Len(segments) < MaxSegments
    /\ Printable(offset)
    /\ Byte(offset + 1) <= MaxRiffSize
    /\ ChunkEnd <= RiffEnd

WebpMalformed ==
    /\ \/ WebpWalking /\ ~RiffSound
       \/ InRiff /\ ~RiffChunkSound
    /\ Refuse("MALFORMED")

\* The pad byte is in the stream but not in the chunk's size.
WebpChunk ==
    /\ InRiff /\ RiffChunkSound
    /\ Walked([marker |-> Byte(offset), kind |-> "segment", start |-> offset,
               end |-> ChunkEnd, payload |-> offset + 2],
              ChunkEnd + (Byte(offset + 1) % 2))
    /\ UNCHANGED <<phase, dims>>

Size(chunk) == chunk.end - chunk.payload

\* The first chunk of a kind, as chunks.find returns it, if it is big enough.
First(fourcc) ==
    {i \in 1..Len(segments) :
        /\ segments[i].marker = fourcc
        /\ \A j \in 1..(i - 1) : segments[j].marker # fourcc}

BigEnough(fourcc, size) == \E i \in First(fourcc) : Size(segments[i]) >= size
DataOf(fourcc) == segments[CHOOSE i \in First(fourcc) : TRUE].payload

\* readWebpDimensions: VP8X, then VP8, then VP8L.
WebpDimensions ==
    IF BigEnough(VP8X, Vp8xHeader)
    THEN <<Byte(DataOf(VP8X) + 2) + 1, Byte(DataOf(VP8X) + 3) + 1>>
    ELSE IF BigEnough(VP8, Vp8Header)
    THEN IF Byte(DataOf(VP8) + 1) = StartCode
         THEN <<Byte(DataOf(VP8) + 2), Byte(DataOf(VP8) + 3)>> ELSE NoDims
    ELSE IF BigEnough(VP8L, Vp8lHeader) /\ Byte(DataOf(VP8L)) = Vp8lSignature
    THEN <<Byte(DataOf(VP8L) + 1) + 1, Byte(DataOf(VP8L) + 2) + 1>> ELSE NoDims

WebpWalked ==
    /\ WebpWalking /\ RiffSound /\ offset + 2 > RiffEnd
    /\ IF WebpDimensions = NoDims
       THEN Refuse("MALFORMED")
       ELSE /\ dims' = WebpDimensions
            /\ phase' = "budget"
            /\ UNCHANGED <<file, format, refusal, offset, segments, next, out,
                           exif, removed>>

-----------------------------------------------------------------------------
(* stripWebp: the rebuild of the chunks, then of the header.               *)

ClearFlag(flags, bit) == IF (flags \div bit) % 2 = 1 THEN flags - bit ELSE flags

\* VP8X loses the flags of what is dropped.
ClearedFlags(flags) ==
    ClearFlag(ClearFlag(ClearFlag(flags, FlagExif), FlagXmp), FlagIcc)

Rebuilt(chunk) ==
    IF chunk.marker = VP8X /\ Size(chunk) >= 1
    THEN Cut(chunk.start, chunk.payload) \o <<ClearedFlags(Byte(chunk.payload))>>
           \o Cut(chunk.payload + 1, chunk.end)
    ELSE Cut(chunk.start, chunk.end)

Pad(chunk) == IF Size(chunk) % 2 = 1 THEN <<0>> ELSE <<>>

WebpStripping == phase = "strip" /\ format = "webp" /\ next <= Len(segments)

WebpCopy ==
    /\ WebpStripping /\ segments[next].marker \in WebpKeptChunks
    /\ Wrote(Rebuilt(segments[next]) \o Pad(segments[next]))
    /\ next' = next + 1 /\ UNCHANGED <<phase, offset>>

WebpDrop ==
    LET chunk == segments[next] IN
    /\ WebpStripping /\ chunk.marker \notin WebpKeptChunks
    /\ LeftOut(<<chunk.marker, 0>>, chunk.marker = EXIFw, <<chunk.payload, chunk.end>>)
    /\ next' = next + 1 /\ UNCHANGED <<phase, offset>>

\* Mutant: the size field of the received file is kept.
WebpFinish_OldSize ==
    /\ phase = "strip" /\ format = "webp" /\ next > Len(segments)
    /\ out' = <<RIFF, Declared, WEBP>> \o out
    /\ phase' = "extract"
    /\ UNCHANGED <<file, format, refusal, offset, segments, dims, next, exif,
                   removed>>

WebpFinish ==
    /\ phase = "strip" /\ format = "webp" /\ next > Len(segments)
    /\ out' = <<RIFF, 1 + Len(out), WEBP>> \o out
    /\ phase' = "extract"
    /\ UNCHANGED <<file, format, refusal, offset, segments, dims, next, exif,
                   removed>>

WebpStep ==
    WebpMalformed \/ WebpChunk \/ WebpWalked \/ WebpCopy \/ WebpDrop \/ WebpFinish
=============================================================================
