------------------------------ MODULE ExifRead ------------------------------
(***************************************************************************)
(* extractExifMetadata of server/lib/photos.js and all it calls: the       *)
(* reader of one TIFF block.  A field of up to four bytes is one element   *)
(* of the file here, so the header is three elements (byte order, 42,      *)
(* offset of IFD0), an entry four (tag, type, count, value or pointer) and *)
(* a rational two; a value of n bytes fills Cells(n) elements.  Offsets    *)
(* stored in the block count from its header.                              *)
(*                                                                         *)
(* Nothing here changes state: the operators say what is read, out of      *)
(* range bounds give Null, and damage costs what it damaged and no more.   *)
(***************************************************************************)
EXTENDS ImageBytes

CONSTANTS
    MaxIfdEntries,      \* entries readIfd accepts in one directory
    MaxValueCount,      \* values in one entry, 0x00ffffff in the code
    MinAltitude, MaxAltitude

Null == -100000     \* no coordinate, code or number is this one

II == 5000
MM == 5001
HeaderCells == 3    \* the 8 bytes of a TIFF header
EntryCells  == 4    \* the 12 bytes of an entry

\* TIFF_TYPE_SIZES, in bytes.
TypeSizes == <<1, 1, 2, 4, 8, 1, 1, 2, 4, 8, 4, 8>>
Cells(bytes) == (bytes + 3) \div 4

TagMake     == 271
TagModel    == 272
TagOrient   == 274
TagExifIfd  == 34665
TagGpsIfd   == 34853
TagOriginal == 36867

GpsLatRef == 1   GpsLat == 2   GpsLonRef == 3   GpsLon == 4
GpsAltRef == 5   GpsAlt == 6

\* Texts: hemisphere letters, times the reader can and cannot parse, a name.
North == 6001   South == 6002   East == 6003   West == 6004
GoodTime == 6010   BadTime == 6011   MakerName == 6020
Texts == {North, South, East, West, GoodTime, BadTime, MakerName}

\* A block is [start, limit): where the header lies and where reading stops.
TiffBlock(start, end) ==
    [start |-> start, limit |-> IF end < Len(file) THEN end ELSE Len(file)]

\* u8, u16 and u32: null outside the block.
Read(block, at) ==
    IF at < block.start \/ at + 1 > block.limit THEN Null ELSE Byte(at)

\* createTiffReader's conditions; ifd0 is the offset it leaves behind.
ReaderOpens(block) ==
    /\ block.start + HeaderCells <= block.limit
    /\ Byte(block.start) \in {II, MM}
    /\ Read(block, block.start + 1) = 42
Ifd0Offset(block) == Read(block, block.start + 2)

-----------------------------------------------------------------------------
(* readIfd.                                                                *)

IfdReadable(block, relative) ==
    LET base  == block.start + relative
        count == Read(block, base)
    IN  /\ relative >= HeaderCells
        /\ count # Null /\ count > 0 /\ count <= MaxIfdEntries
        /\ base + 1 + count * EntryCells <= block.limit

\* Where the value of the entry at `at` lies: in the entry, or where it points.
EntryData(block, at, bytes) ==
    IF bytes <= 4 THEN at + 3 ELSE block.start + Read(block, at + 3)

Entry(block, at) ==
    LET unit  == TypeSizes[Read(block, at + 1)]
        count == Read(block, at + 2)
    IN  [type |-> Read(block, at + 1), count |-> count,
         offset |-> EntryData(block, at, unit * count),
         cells |-> Cells(unit * count)]

\* An entry of unknown type, absurd count or out-of-block value is skipped.
EntryUsable(block, at) ==
    /\ Read(block, at + 1) \in 1..12
    /\ Read(block, at + 2) \in 1..MaxValueCount
    /\ Entry(block, at).offset >= block.start
    /\ Entry(block, at).offset + Entry(block, at).cells <= block.limit

\* The entries of the directory at `relative`; none if it cannot be read.
Entries(block, relative) ==
    LET base == block.start + relative
    IN  IF ~IfdReadable(block, relative) THEN {}
        ELSE {at \in {base + 1 + i * EntryCells : i \in 0..(Read(block, base) - 1)} :
                  EntryUsable(block, at)}

\* Of two entries with one tag the later wins, as Map.set has it.
Tagged(block, relative, tag) ==
    {at \in Entries(block, relative) : Read(block, at) = tag}

HasEntry(block, relative, tag) == Tagged(block, relative, tag) # {}
Get(block, relative, tag)  == Entry(block, Max(Tagged(block, relative, tag)))

-----------------------------------------------------------------------------
(* The typed readers: Null when the entry is absent or of another type.    *)

EntryInt(block, relative, tag) ==
    IF HasEntry(block, relative, tag) /\ Get(block, relative, tag).type \in {1, 3, 4, 7}
    THEN Read(block, Get(block, relative, tag).offset) ELSE Null

\* Text up to its NUL; nothing printable left is no text.
EntryAscii(block, relative, tag) ==
    IF /\ HasEntry(block, relative, tag)
       /\ Get(block, relative, tag).type \in {2, 7}
       /\ Read(block, Get(block, relative, tag).offset) \in Texts
    THEN Read(block, Get(block, relative, tag).offset) ELSE Null

\* Exactly `expected` rationals, as whole numbers; no zero denominators.
RationalsUsable(block, relative, tag, expected) ==
    /\ HasEntry(block, relative, tag)
    /\ Get(block, relative, tag).type = 5
    /\ Get(block, relative, tag).count = expected
    /\ \A i \in 0..(expected - 1) :
           Read(block, Get(block, relative, tag).offset + 2 * i + 1) # 0

Rational(block, relative, tag, i) ==
    LET at == Get(block, relative, tag).offset + 2 * i
    IN  Read(block, at) \div Read(block, at + 1)

\* dmsToDegrees, in seconds of arc: the reference decides the sign, so there
\* is no coordinate without it, nor one beyond the limit.
Coordinate(block, relative, tag, refTag, negative, positive, limit) ==
    LET ref == EntryAscii(block, relative, refTag)
        seconds == Rational(block, relative, tag, 0) * 3600
                   + Rational(block, relative, tag, 1) * 60
                   + Rational(block, relative, tag, 2)
    IN  IF ~RationalsUsable(block, relative, tag, 3) \/ ref \notin {negative, positive}
        THEN Null
        ELSE IF seconds > limit * 3600 THEN Null
        ELSE IF ref = negative THEN -seconds ELSE seconds

Altitude(block, relative) ==
    LET metres == IF EntryInt(block, relative, GpsAltRef) = 1
                  THEN -Rational(block, relative, GpsAlt, 0)
                  ELSE Rational(block, relative, GpsAlt, 0)
    IN  IF ~RationalsUsable(block, relative, GpsAlt, 1) THEN Null
        ELSE IF metres \in MinAltitude..MaxAltitude THEN metres ELSE Null

-----------------------------------------------------------------------------
(* readGpsIfd and extractExifMetadata.                                     *)

NoGps == [lat |-> Null, lon |-> Null, alt |-> Null, hadGps |-> FALSE]

\* Half a pair of coordinates is not a location.
Gps(block, ifd0) ==
    LET gps == EntryInt(block, ifd0, TagGpsIfd)
        lat == Coordinate(block, gps, GpsLat, GpsLatRef, South, North, 90)
        lon == Coordinate(block, gps, GpsLon, GpsLonRef, West, East, 180)
        both == lat # Null /\ lon # Null
    IN  IF gps = Null \/ Entries(block, gps) = {} THEN NoGps
        ELSE [lat |-> IF both THEN lat ELSE Null, lon |-> IF both THEN lon ELSE Null,
              alt |-> Altitude(block, gps), hadGps |-> TRUE]

\* parseExifDateTime keeps the raw text whether or not it can read it.
CapturedRaw(block, ifd0) ==
    LET sub == EntryInt(block, ifd0, TagExifIfd)
    IN  IF sub = Null THEN Null ELSE EntryAscii(block, sub, TagOriginal)

NoMetadata == [gps |-> NoGps, make |-> Null, model |-> Null, orientation |-> Null,
               capturedAt |-> Null, capturedAtRaw |-> Null]

ExtractExif(start, end) ==
    LET block == TiffBlock(start, end)
        ifd0  == Ifd0Offset(block)
        turn  == EntryInt(block, ifd0, TagOrient)
        time  == CapturedRaw(block, ifd0)
    IN  IF ~ReaderOpens(block) THEN NoMetadata
        ELSE IF ~IfdReadable(block, ifd0) THEN NoMetadata
        ELSE [gps |-> Gps(block, ifd0),
              make |-> EntryAscii(block, ifd0, TagMake),
              model |-> EntryAscii(block, ifd0, TagModel),
              orientation |-> IF turn \in 1..8 THEN turn ELSE Null,
              capturedAt |-> IF time = GoodTime THEN time ELSE Null,
              capturedAtRaw |-> time]
=============================================================================
