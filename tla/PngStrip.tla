------------------------------ MODULE PngStrip ------------------------------
(***************************************************************************)
(* readPngDimensions and stripPng of server/lib/photos.js.  A PNG is a     *)
(* signature and a row of chunks: length, type, data, checksum.  The walk  *)
(* only looks at IHDR; the rebuild reads the chunks one by one and ends at *)
(* IEND.                                                                   *)
(***************************************************************************)
EXTENDS ImageBytes

PngSig == 2000
IHDR   == 2001
IDAT   == 2002
IEND   == 2003
EXIFc  == 2011      \* eXIf

\* The chunk types kept; 2004 stands for PLTE, tRNS, gAMA, cHRM, sRGB, bKGD
\* and pHYs, 2005 for the animation chunks.  Every other type is dropped.
PngKeptChunks == {IHDR, IDAT, IEND, 2004, 2005}

IhdrLength     == 2     \* width and height: the 13 bytes of a real IHDR
MaxChunkLength == 90    \* 2^31 - 1

\* The checksum of type and data, as a sum: what matters is that it covers
\* both and that a changed element is noticed.
Crc32(bytes) == LET sum[n \in 0..Len(bytes)] ==
                        IF n = 0 THEN 0 ELSE (sum[n - 1] * 3 + bytes[n]) % 1009
                IN  sum[Len(bytes)]

\* readPngDimensions: signature, length, type, data and checksum of IHDR.
PngHeaderBad ==
    \/ Len(file) < 1 + 2 + IhdrLength + 1
    \/ Byte(1) # IhdrLength
    \/ Byte(2) # IHDR

PngDimensions ==
    /\ phase = "walk" /\ format = "png"
    /\ IF PngHeaderBad
       THEN Refuse("MALFORMED")
       ELSE /\ dims' = <<Byte(3), Byte(4)>>
            /\ phase' = "budget"
            /\ UNCHANGED <<file, format, refusal, offset, segments, next, out,
                           exif, removed>>

-----------------------------------------------------------------------------
(* One turn of stripPng's loop; next counts the turns, as guard does.      *)

PngStripping == phase = "strip" /\ format = "png"
InChunks     == PngStripping /\ offset < Len(file)

PngType    == Byte(offset + 1)
PngData    == offset + 2
PngDataEnd == PngData + Byte(offset)

ChunkSound ==
    /\ next <= MaxSegments
    /\ offset + 2 <= Len(file)
    /\ Byte(offset) <= MaxChunkLength
    /\ Printable(offset + 1)
    /\ PngDataEnd + 1 <= Len(file)

\* Only a chunk that is kept has its checksum verified.
ChecksumSound ==
    PngType \in PngKeptChunks => Byte(PngDataEnd) = Crc32(Cut(offset + 1, PngDataEnd))

PngMalformed ==
    /\ InChunks
    /\ ~(ChunkSound /\ ChecksumSound)
    /\ Refuse("MALFORMED")

PngCopy ==
    /\ InChunks /\ ChunkSound /\ ChecksumSound
    /\ PngType \in PngKeptChunks
    /\ Wrote(Cut(offset, PngDataEnd + 1))
    /\ next' = next + 1
    /\ IF PngType = IEND
       THEN phase' = "extract" /\ offset' = offset     \* break
       ELSE phase' = phase /\ offset' = PngDataEnd + 1

PngDrop ==
    /\ InChunks /\ ChunkSound
    /\ PngType \notin PngKeptChunks
    /\ LeftOut(<<PngType, 0>>, PngType = EXIFc, <<PngData, PngDataEnd>>)
    /\ next' = next + 1 /\ offset' = PngDataEnd + 1
    /\ UNCHANGED phase

PngNoIend ==
    /\ PngStripping /\ offset >= Len(file)
    /\ Refuse("MALFORMED")

PngStep == PngDimensions \/ PngMalformed \/ PngCopy \/ PngDrop \/ PngNoIend
=============================================================================
