----------------------------- MODULE PhotoStrip -----------------------------
(***************************************************************************)
(* inspectImage, stripImageMetadata and what storePhoto decides before it  *)
(* writes, put together from the three container formats and the Exif      *)
(* reader.  The same photo then comes back: the file a collector saved     *)
(* from a survey is uploaded once more.                                    *)
(*                                                                         *)
(* A sender's file is more than its bytes: who made it knows the picture   *)
(* in it, where the camera was, and whether it is sound.  Sendings pairs   *)
(* the bytes with that knowledge, which no step reads.                     *)
(***************************************************************************)
EXTENDS JpegStrip, PngStrip, WebpStrip, ExifRead

CONSTANTS
    Sendings    \* records: bytes, fate, picture, size, meta

ASSUME SendingsAssumption == \A s \in Sendings : s.bytes \in Seq(Nat)

FtypTag   == 4000
HeifBrand == 4001       \* any member of HEIF_BRANDS

VARIABLES
    sent,       \* the sending being handled
    metadata,   \* what storePhoto returns about the photo
    pass        \* 1 for the camera's file, 2 for our own file sent again

vars == <<imageVars, sent, metadata, pass>>

\* A sending gives picture, size and meta as the set of the one right answer,
\* or as Unknown.
Unknown == {}

Init ==
    /\ sent \in Sendings /\ pass = 1
    /\ file = sent.bytes /\ format = "none" /\ phase = "received" /\ refusal = "NONE"
    /\ offset = 0 /\ segments = <<>> /\ dims = NoDims /\ next = 1 /\ out = <<>>
    /\ exif = NoRange /\ removed = {} /\ metadata = NoMetadata

-----------------------------------------------------------------------------
(* storePhoto's own checks, then identifyOrThrow.                          *)

\* identifyImage; bytes 4 to 7 of a WebP are its size and not looked at.
Identified ==
    IF Len(file) < 2 THEN "none"
    ELSE IF Has(0, FF) /\ Has(1, SOI) THEN "jpeg"
    ELSE IF Has(0, PngSig) THEN "png"
    ELSE IF Has(0, RIFF) /\ Has(2, WEBP) THEN "webp" ELSE "none"

IsHeifLike == Has(1, FtypTag) /\ Has(2, HeifBrand)

Reject ==
    /\ phase = "received"
    /\ Len(file) = 0 \/ Len(file) > MaxBytes \/ Identified = "none"
    /\ Refuse(IF Len(file) = 0 THEN "EMPTY"
              ELSE IF Len(file) > MaxBytes THEN "TOO_LARGE"
              ELSE IF IsHeifLike THEN "HEIC_UNSUPPORTED" ELSE "UNSUPPORTED_FORMAT")
    /\ UNCHANGED <<sent, metadata, pass>>

\* The walks start after the SOI, the signature or the RIFF header.
Identify ==
    /\ phase = "received"
    /\ Len(file) \in 1..MaxBytes /\ Identified # "none"
    /\ format' = Identified
    /\ phase' = "walk"
    /\ offset' = CASE Identified = "jpeg" -> 2 [] Identified = "png" -> 1
                   [] Identified = "webp" -> 3
    /\ UNCHANGED <<file, refusal, segments, dims, next, out, exif, removed, sent,
                   metadata, pass>>

Walk ==
    /\ JpegStep \/ PngStep \/ WebpStep
    /\ UNCHANGED <<sent, metadata, pass>>

\* checkPixelBudget stands between reading the header and copying the file.
Budget ==
    /\ phase = "budget"
    /\ IF NonsensicalSize(dims) \/ TooManyPixels(dims)
       THEN Refuse(IF NonsensicalSize(dims) THEN "MALFORMED" ELSE "TOO_MANY_PIXELS")
       ELSE /\ phase' = "strip"
            /\ out' = IF format = "jpeg" THEN <<FF, SOI>>
                      ELSE IF format = "png" THEN <<PngSig>> ELSE <<>>
            /\ UNCHANGED <<file, format, refusal, offset, segments, dims, next,
                           exif, removed>>
    /\ UNCHANGED <<sent, metadata, pass>>

\* Mutant: the prefix is read as the header.
TiffStart_Prefixed == exif[1]

\* tiffRange: 'Exif\0\0' in front of the TIFF header is stepped over.
TiffStart == IF Has(exif[1], ExifId) THEN exif[1] + 1 ELSE exif[1]

\* The metadata comes from the file as it was received, not from the rebuilt one.
Extract ==
    /\ phase = "extract"
    /\ metadata' = IF exif = NoRange THEN NoMetadata
                   ELSE ExtractExif(TiffStart, exif[2])
    /\ phase' = "stored"
    /\ UNCHANGED <<file, format, refusal, offset, segments, dims, next, out, exif,
                   removed, sent, pass>>

\* The stored file is fetched from a survey and uploaded again.
SentAgain ==
    /\ phase = "stored" /\ pass = 1
    /\ pass' = 2
    /\ sent' = [bytes |-> out, fate |-> "any", picture |-> {out}, size |-> {dims},
               meta |-> {NoMetadata}]
    /\ file' = out /\ format' = "none" /\ phase' = "received"
    /\ offset' = 0 /\ segments' = <<>> /\ dims' = NoDims /\ next' = 1 /\ out' = <<>>
    /\ exif' = NoRange /\ removed' = {} /\ metadata' = NoMetadata
    /\ UNCHANGED refusal

\* Nothing is left to do; a photo that stops anywhere else is a deadlock.
Done ==
    /\ phase = "refused" \/ (phase = "stored" /\ pass = 2)
    /\ UNCHANGED vars

Next == Reject \/ Identify \/ Walk \/ Budget \/ Extract \/ SentAgain \/ Done

Spec == Init /\ [][Next]_vars

-----------------------------------------------------------------------------
(* Properties.                                                             *)

\* A sound photo is never refused and what is stored is its picture: every
\* part that draws it, each scan with its stuffed bytes and restart markers,
\* in order and unchanged, and no other part (stripJpeg, stripPng, stripWebp).
\* A file that is not sound is refused for its own fault.
FateIsTheFilesOwn ==
    /\ phase = "stored" =>
           /\ sent.fate \in {"kept", "any"}
           /\ sent.picture # Unknown => out \in sent.picture
    /\ phase = "refused" => sent.fate \in {refusal, "any"}

\* Whatever was accepted, a stored file sent again (SentAgain) is accepted, has
\* the same size, holds nothing to remove or to read, and is stored as it is.
\* Two exceptions: a file at the byte ceiling that lacked its EOI or its last
\* pad byte has grown by it, and is too large the second time; a JPEG with as
\* many parts as a walk takes that lacked its EOI has one part too many.
StoredFileIsSettled ==
    pass = 2 =>
        /\ removed = {} /\ exif = NoRange /\ metadata = NoMetadata
        /\ dims # NoDims => dims \in sent.size
        /\ phase = "stored" => out = file
        /\ phase = "refused" =>
             \/ refusal = "TOO_LARGE" /\ Len(file) <= MaxBytes + 2
             \/ /\ refusal = "MALFORMED" /\ format = "jpeg"
                /\ Len(segments) = MaxSegments /\ offset = Len(file) - 2

\* The parts a walk finds lie in the file one after the other and do not
\* overlap, and the walk stands behind the last: nothing is copied twice and
\* no length field moves it back (walkJpeg, readRiffChunks).
PartsFollowOneAnother ==
    /\ \A i \in 1..Len(segments) :
           segments[i].start < segments[i].end /\ segments[i].end <= Len(file)
    /\ \A i, j \in 1..Len(segments) : i < j => segments[i].end <= segments[j].start
    /\ phase = "walk" => \A i \in 1..Len(segments) : segments[i].end <= offset

\* What storePhoto reports is what the camera wrote in the first Exif block,
\* less what is damaged and no more: a broken coordinate costs the location
\* but not the time, a broken pointer only what it points to.
MetadataAsTaken ==
    phase = "stored" /\ sent.meta # Unknown => metadata \in sent.meta
=============================================================================
