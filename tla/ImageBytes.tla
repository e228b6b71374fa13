----------------------------- MODULE ImageBytes -----------------------------
(***************************************************************************)
(* The state one photo goes through in server/lib/photos.js, and the byte  *)
(* helpers the three container formats share.                              *)
(*                                                                         *)
(* A file is a sequence of numbers.  Below Symbols a number is one byte,   *)
(* or one numeric field; from Symbols on it stands for an identifier that  *)
(* takes several bytes in a real file (a chunk type, 'Exif\0\0', the PNG   *)
(* signature) or for a text.  Lengths and offsets inside a file count      *)
(* these elements, and offsets start at 0 as they do in the code.          *)
(***************************************************************************)
EXTENDS Integers, Sequences, FiniteSets, FiniteSetsExt

CONSTANTS
    MaxBytes,       \* the size ceiling of storePhoto
    MaxDimension,   \* the longest side checkPixelBudget lets through
    MaxPixels,      \* and the largest area
    MaxSegments     \* the ceiling on the parts of one container

ASSUME BoundsAssumption ==
    /\ MaxBytes \in Nat /\ MaxDimension \in Nat /\ MaxPixels \in Nat
    /\ MaxSegments \in Nat

VARIABLES
    file,       \* the bytes being worked on; never changed by a step
    format,     \* what identifyImage made of them
    phase,      \* where stripImageMetadata is
    refusal,    \* the code of the PhotoError, when phase is "refused"
    offset,     \* the walk's position
    segments,   \* the parts found so far, in file order
    dims,       \* <<width, height>>, or NoDims
    next,       \* the part the rebuild looks at
    out,        \* the bytes written to the rebuilt file so far
    exif,       \* where the first Exif block lies in file, or NoRange
    removed     \* the labels of what the rebuild left out

imageVars == <<file, format, phase, refusal, offset, segments, dims, next, out,
               exif, removed>>

Symbols == 1000
NoDims  == <<>>
NoRange == <<>>

Formats == {"none", "jpeg", "png", "webp"}
Phases  == {"received", "walk", "budget", "strip", "extract", "stored", "refused"}

Byte(i)    == file[i + 1]
Cut(a, b)  == SubSeq(file, a + 1, b)

\* bytesAt and startsWithAscii for a one-element signature, with their bound.
Has(i, symbol) == i < Len(file) /\ Byte(i) = symbol

\* asciiTag: a tag that is not printable ASCII reads as null.
Printable(i) == Byte(i) >= Symbols

\* throw malformed(...), and the other rejections of the file.
Refuse(code) ==
    /\ phase' = "refused"
    /\ refusal' = code
    /\ UNCHANGED <<file, format, offset, segments, dims, next, out, exif, removed>>

\* One part found by a walk that goes on at `to`.
Walked(part, to) ==
    /\ segments' = Append(segments, part)
    /\ offset' = to
    /\ UNCHANGED <<file, format, refusal, next, out, exif, removed>>

\* The rebuild writes `bytes` for a part.
Wrote(bytes) ==
    /\ out' = out \o bytes
    /\ UNCHANGED <<file, format, refusal, segments, dims, exif, removed>>

\* The rebuild leaves a part out; only the first Exif block is remembered.
LeftOut(label, isExif, range) ==
    /\ removed' = removed \cup {label}
    /\ exif' = IF isExif /\ exif = NoRange THEN range ELSE exif
    /\ UNCHANGED <<file, format, refusal, segments, dims, out>>

\* checkPixelBudget.
NonsensicalSize(d) == d[1] <= 0 \/ d[2] <= 0
TooManyPixels(d) ==
    d[1] > MaxDimension \/ d[2] > MaxDimension \/ d[1] * d[2] > MaxPixels
=============================================================================
