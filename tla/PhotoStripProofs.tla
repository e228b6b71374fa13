-------------------------- MODULE PhotoStripProofs --------------------------
(***************************************************************************)
(* Proofs about PhotoStrip, for files of any bytes and any limits: the     *)
(* parts a walk finds follow one another inside the file, so that the      *)
(* rebuild copies nothing twice and reads nothing past the end; what the   *)
(* rebuild stores is a clean file, which a second rebuild copies; and a    *)
(* walk and its rebuild do with a file what PhotoFiles says of its parts.  *)
(***************************************************************************)
EXTENDS PhotoFiles, SequenceTheorems, WellFoundedInduction, TLAPS

-----------------------------------------------------------------------------
(* The two searches of walkJpeg stop inside the file.                      *)

Below == {ss \in Nat \X Nat : ss[1] < ss[2]}

LEMMA BelowIsWellFounded == IsWellFoundedOn(Below, Nat)
BY NatLessThanWellFounded, Zenon DEF OpToRel, Below

\* What stands in a file is a number.
LEMMA ElementOf ==
    ASSUME NEW f \in Seq(Nat), NEW i \in 1..Len(f)
    PROVE  f[i] \in Nat
OBVIOUS

LEMMA ByteOf ==
    ASSUME file \in Seq(Nat), NEW i \in Nat, i < Len(file)
    PROVE  Byte(i) \in Nat
<1> DEFINE j == i + 1
<1>1. j \in 1..Len(file)
  BY LenProperties
<1> HIDE DEF j
<1>2. file[j] \in Nat
  BY <1>1, ElementOf
<1> QED
  BY <1>2 DEF j, Byte

\* A set of numbers has a smallest one.
LEMMA Smallest ==
    ASSUME NEW T \in SUBSET Nat, T # {}
    PROVE  \E x \in T : \A y \in T : ~(y < x)
<1>1. PICK x \in T : \A y \in T : <<y, x>> \notin Below
  BY BelowIsWellFounded, WFMin, Zenon
<1>2. \A y \in T : ~(y < x)
  BY <1>1 DEF Below
<1> QED
  BY <1>2

\* The first place of a stretch at which a search stops.
LEMMA FirstStop ==
    ASSUME NEW from \in Nat, NEW to \in Nat,
           NEW T \in SUBSET (from..to), T # {}
    PROVE  \E i \in T : \A j \in from..(i - 1) : j \notin T
<1>1. T \in SUBSET Nat
  OBVIOUS
<1>2. PICK i \in T : \A y \in T : ~(y < i)
  BY <1>1, Smallest
<1> QED
  BY <1>2

\* MarkerAt stops at the first byte that is no fill byte, or at the end.
LEMMA MarkerIs ==
    ASSUME file \in Seq(Nat), NEW from \in Nat, from <= Len(file),
           NEW at, at = MarkerAt(from)
    PROVE  /\ at \in from..Len(file)
           /\ at < Len(file) => Byte(at) # FF
           /\ \A j \in from..(at - 1) : Byte(j) = FF
<1> DEFINE Stops == {i \in from..Len(file) : i < Len(file) => Byte(i) # FF}
<1>1. Len(file) \in Nat /\ Len(file) \in Stops
  OBVIOUS
<1>2. PICK i \in Stops : \A j \in from..(i - 1) : j \notin Stops
  BY <1>1, FirstStop
<1>3. /\ i \in from..Len(file)
      /\ i < Len(file) => Byte(i) # FF
      /\ \A j \in from..(i - 1) : Byte(j) = FF
  BY <1>1, <1>2
<1> QED
  BY <1>3 DEF MarkerAt

\* FindScanEnd stops at the first real marker, or at the end.
LEMMA ScanEndIs ==
    ASSUME file \in Seq(Nat), NEW from \in Nat, from <= Len(file),
           NEW to, to = FindScanEnd(from)
    PROVE  /\ to \in from..Len(file)
           /\ EndsScan(to) /\ \A j \in from..(to - 1) : ~EndsScan(j)
<1> DEFINE Stops == {i \in from..Len(file) : EndsScan(i)}
<1>1. Len(file) \in Nat /\ Len(file) \in Stops
  BY DEF EndsScan
<1>2. PICK i \in Stops : \A j \in from..(i - 1) : j \notin Stops
  BY <1>1, FirstStop
<1>3. /\ i \in from..Len(file)
      /\ EndsScan(i) /\ \A j \in from..(i - 1) : ~EndsScan(j)
  BY <1>1, <1>2
<1> QED
  BY <1>3 DEF FindScanEnd

\* There is one such place.
LEMMA MarkerIsHere ==
    ASSUME file \in Seq(Nat), NEW from \in Nat, NEW at \in from..Len(file),
           at < Len(file), Byte(at) # FF, \A j \in from..(at - 1) : Byte(j) = FF
    PROVE  MarkerAt(from) = at
<1> DEFINE i == MarkerAt(from)
<1>1. Len(file) \in Nat /\ from <= Len(file)
  BY LenProperties
<1>2. i = MarkerAt(from)
  OBVIOUS
<1> HIDE DEF i
<1>3. /\ i \in from..Len(file) /\ (i < Len(file) => Byte(i) # FF)
      /\ \A j \in from..(i - 1) : Byte(j) = FF
  BY <1>1, <1>2, MarkerIs
<1>4. ~(i < at) /\ ~(at < i)
  BY <1>1, <1>3
<1> QED
  BY <1>1, <1>2, <1>3, <1>4

LEMMA ScanEndIsHere ==
    ASSUME file \in Seq(Nat), NEW from \in Nat, NEW to \in from..Len(file),
           EndsScan(to), \A j \in from..(to - 1) : ~EndsScan(j)
    PROVE  FindScanEnd(from) = to
<1> DEFINE i == FindScanEnd(from)
<1>1. Len(file) \in Nat /\ from <= Len(file)
  BY LenProperties
<1>2. i = FindScanEnd(from)
  OBVIOUS
<1> HIDE DEF i
<1>3. /\ i \in from..Len(file) /\ EndsScan(i)
      /\ \A j \in from..(i - 1) : ~EndsScan(j)
  BY <1>1, <1>2, ScanEndIs
<1>4. ~(i < to) /\ ~(to < i)
  BY <1>1, <1>3
<1> QED
  BY <1>1, <1>2, <1>3, <1>4

LEMMA MarkerLiesInFile ==
    ASSUME file \in Seq(Nat), NEW from \in Nat, from <= Len(file)
    PROVE  MarkerAt(from) \in from..Len(file)
<1> DEFINE at == MarkerAt(from)
<1>1. at = MarkerAt(from)
  OBVIOUS
<1> HIDE DEF at
<1>2. at \in from..Len(file)
  BY <1>1, MarkerIs
<1> QED
  BY <1>1, <1>2

LEMMA ScanEndLiesInFile ==
    ASSUME file \in Seq(Nat), NEW from \in Nat, from <= Len(file)
    PROVE  FindScanEnd(from) \in from..Len(file)
<1> DEFINE to == FindScanEnd(from)
<1>1. to = FindScanEnd(from)
  OBVIOUS
<1> HIDE DEF to
<1>2. to \in from..Len(file)
  BY <1>1, ScanEndIs
<1> QED
  BY <1>1, <1>2

-----------------------------------------------------------------------------
(* Pieces of a file are bytes.                                             *)

LEMMA CutIsBytes ==
    ASSUME file \in Seq(Nat), NEW a \in Nat, NEW b \in Nat, b <= Len(file)
    PROVE  Cut(a, b) \in Seq(Nat)
<1>1. \A i \in (a + 1)..b : file[i] \in Nat
  OBVIOUS
<1> QED
  BY <1>1, SubSeqProperties DEF Cut
-----------------------------------------------------------------------------
(* The invariant: everything is made of bytes, parts are found by a walk,  *)
(* and they follow one another.                                            *)

Kinds == {"segment", "sos", "eoi", "standalone"}
Parts == [marker : Nat, kind : Kinds, start : Nat, end : Nat, payload : Nat]

MadeOfBytes ==
    /\ file \in Seq(Nat) /\ out \in Seq(Nat)
    /\ offset \in Nat /\ next \in Nat \ {0}

PartsTyped == segments \in Seq(Parts)

NothingFoundYet == phase = "received" => segments = <<>>

\* No walk starts in a file too short for a signature.
SignatureRead == phase = "walk" => Len(file) >= 2

WalkInv ==
    /\ MadeOfBytes /\ PartsTyped /\ NothingFoundYet /\ SignatureRead
    /\ PartsFollowOneAnother

\* A step that finds no part: the walk stands where it stood, or nothing was
\* found before it started.
LEMMA StandingParts ==
    ASSUME WalkInv, file' = file, segments' = segments,
           phase' # "received",
           phase' = "walk" => \/ phase = "walk" /\ offset' = offset
                              \/ phase = "received" /\ Len(file) >= 2
    PROVE  /\ PartsTyped' /\ NothingFoundYet' /\ SignatureRead'
           /\ PartsFollowOneAnother'
<1>1. PartsTyped' /\ NothingFoundYet' /\ SignatureRead'
  BY DEF WalkInv, PartsTyped, NothingFoundYet, SignatureRead
<1>2. CASE phase' = "walk" /\ phase = "received"
  <2>1. segments' = <<>>
    BY <1>2 DEF WalkInv, NothingFoundYet
  <2> QED
    BY <1>1, <2>1 DEF PartsFollowOneAnother
<1>3. CASE ~(phase' = "walk" /\ phase = "received")
  BY <1>1, <1>3 DEF WalkInv, PartsFollowOneAnother
<1> QED
  BY <1>2, <1>3

\* A part found at or behind the walk's position, that ends in the file and
\* where the walk goes on at the earliest.
LEMMA WalkedParts ==
    ASSUME WalkInv, phase = "walk", phase' = phase, next' = next,
           NEW part \in Parts, NEW to \in Nat, Walked(part, to),
           offset <= part.start, part.start < part.end,
           part.end <= Len(file), part.end <= to
    PROVE  WalkInv'
<1> DEFINE n == Len(segments)
<1>1. /\ file \in Seq(Nat) /\ n \in Nat /\ offset \in Nat
      /\ segments \in Seq(Parts)
  BY DEF WalkInv, MadeOfBytes, PartsTyped
<1>2. /\ segments' \in Seq(Parts) /\ Len(segments') = n + 1
      /\ \A i \in 1..n : segments'[i] = segments[i]
      /\ segments'[n + 1] = part
  BY <1>1, AppendProperties DEF Walked
<1>3. MadeOfBytes' /\ PartsTyped' /\ NothingFoundYet' /\ SignatureRead'
  BY <1>2 DEF WalkInv, MadeOfBytes, PartsTyped, NothingFoundYet, SignatureRead,
              Walked
<1>4. \A i \in 1..n : /\ segments[i].start < segments[i].end
                      /\ segments[i].end <= Len(file)
                      /\ segments[i].end <= offset
                      /\ segments[i].start \in Nat /\ segments[i].end \in Nat
  <2>1. \A i \in 1..n : segments[i].start \in Nat /\ segments[i].end \in Nat
    <3>1. \A i \in 1..n : segments[i] \in Parts
      BY <1>1
    <3> QED
      BY <3>1 DEF Parts
  <2> QED
    BY <2>1 DEF WalkInv, PartsFollowOneAnother
<1>5. \A i, j \in 1..n : i < j => segments[i].end <= segments[j].start
  BY DEF WalkInv, PartsFollowOneAnother
<1>6. part.start \in Nat /\ part.end \in Nat /\ file' = file /\ offset' = to
  BY DEF Parts, Walked
<1>7. \A i \in 1..(n + 1) : \/ i \in 1..n
                            \/ i = n + 1
  BY <1>1
<1>8. /\ part.start < part.end /\ part.end <= Len(file) /\ part.end <= to
      /\ offset <= part.start /\ to \in Nat
  OBVIOUS
<1> HIDE DEF n
<1>9. ASSUME NEW i \in 1..(n + 1)
      PROVE  /\ segments'[i].start < segments'[i].end
             /\ segments'[i].end <= Len(file')
             /\ segments'[i].end <= offset'
  <2>1. CASE i \in 1..n
    <3>1. /\ segments'[i] = segments[i] /\ segments[i].end <= offset
          /\ segments[i].start < segments[i].end
          /\ segments[i].end <= Len(file) /\ segments[i].end \in Nat
      BY <1>2, <1>4, <2>1
    <3>2. offset \in Nat
      BY <1>1
    <3>3. segments[i].end <= to
      BY <1>6, <1>8, <3>1, <3>2
    <3> QED
      BY <1>6, <3>1, <3>3
  <2>2. CASE i = n + 1
    BY <1>2, <1>6, <1>8, <2>2
  <2> QED
    BY <1>7, <2>1, <2>2
<1>10. ASSUME NEW i \in 1..(n + 1), NEW j \in 1..(n + 1), i < j
       PROVE  segments'[i].end <= segments'[j].start
  <2>1. i \in 1..n
    BY <1>1, <1>10
  <2>2. CASE j \in 1..n
    BY <1>2, <1>5, <1>10, <2>1, <2>2
  <2>3. CASE j = n + 1
    <3>1. /\ segments'[i].end = segments[i].end
          /\ segments[i].end <= offset /\ segments[i].end \in Nat
      BY <1>2, <1>4, <2>1
    <3>2. segments'[j].start = part.start
      BY <1>2, <2>3
    <3>3. segments[i].end <= part.start
      BY <1>1, <1>6, <1>8, <3>1
    <3> QED
      BY <3>1, <3>2, <3>3
  <2> QED
    BY <1>7, <2>2, <2>3
<1> QED
  BY <1>2, <1>3, <1>9, <1>10 DEF WalkInv, PartsFollowOneAnother

\* A part of the list has the fields of a part and lies in the file.
LEMMA PartAt ==
    ASSUME WalkInv, NEW i \in 1..Len(segments)
    PROVE  /\ segments[i] \in Parts
           /\ segments[i].start \in Nat /\ segments[i].end \in Nat
           /\ segments[i].payload \in Nat
           /\ segments[i].start < segments[i].end
           /\ segments[i].end <= Len(file)
<1>1. segments[i] \in Parts
  BY DEF WalkInv, PartsTyped
<1>2. /\ segments[i].start < segments[i].end
      /\ segments[i].end <= Len(file)
  BY DEF WalkInv, PartsFollowOneAnother
<1> QED
  BY <1>1, <1>2 DEF Parts

-----------------------------------------------------------------------------
(* The JPEG walk.                                                          *)

\* What a turn of the walk knows of the marker it stands on.
LEMMA TurnStandsOnAMarker ==
    ASSUME WalkInv, NEW at, at = MarkerAt(offset), JpegTurn(at)
    PROVE  /\ at \in Nat /\ at > offset /\ at < Len(file) /\ Byte(at) \in Nat
           /\ phase = "walk" /\ format = "jpeg" /\ offset \in Nat
           /\ Len(file) \in Nat /\ file \in Seq(Nat)
<1>1. file \in Seq(Nat) /\ offset \in Nat /\ offset < Len(file) /\ Len(file) \in Nat
  BY DEF WalkInv, MadeOfBytes, JpegTurn, JpegWalking
<1>2. at \in offset..Len(file)
  BY <1>1, MarkerLiesInFile
<1>3. at > offset /\ at < Len(file)
  BY DEF JpegTurn, TurnSound, MarkerSound
<1> QED
  BY <1>1, <1>2, <1>3 DEF JpegTurn, JpegWalking, Byte

\* A marker segment carries a length that ends in the file.
LEMMA LengthEndsInFile ==
    ASSUME WalkInv, NEW at, at = MarkerAt(offset), JpegTurn(at), ~Bare(Byte(at))
    PROVE  /\ LengthAt(at) \in Nat /\ LengthAt(at) >= 2
           /\ at + 1 + LengthAt(at) <= Len(file)
<1>1. at \in Nat /\ file \in Seq(Nat) /\ Len(file) \in Nat
  BY TurnStandsOnAMarker
<1>2. at + 3 <= Len(file) /\ LengthAt(at) >= 2 /\ at + 1 + LengthAt(at) <= Len(file)
  BY DEF JpegTurn, TurnSound, LengthSound
<1>3. Byte(at + 1) \in Nat /\ Byte(at + 2) \in Nat
  <2>1. /\ at + 1 \in Nat /\ at + 1 < Len(file)
        /\ at + 2 \in Nat /\ at + 2 < Len(file)
    BY <1>1, <1>2
  <2> QED
    BY <1>1, <2>1, ByteOf
<1> QED
  BY <1>2, <1>3 DEF LengthAt

LEMMA MarkerPart ==
    ASSUME NEW at \in Nat, at > 0, Byte(at) \in Nat, NEW kind \in Kinds,
           NEW to \in Nat
    PROVE  /\ Part(kind, at, to) \in Parts
           /\ Part(kind, at, to).start = at - 1
           /\ Part(kind, at, to).end = to
BY DEF Part, Parts

LEMMA EoiKeepsInv == ASSUME WalkInv, JpegEoi PROVE WalkInv'
<1> DEFINE at == MarkerAt(offset)
<1>1. JpegTurn(at) /\ Walked(Part("eoi", at, at + 1), Len(file))
      /\ phase' = phase
  BY DEF JpegEoi
<1>2. /\ at \in Nat /\ at > offset /\ at < Len(file) /\ Byte(at) \in Nat
      /\ phase = "walk" /\ offset \in Nat /\ Len(file) \in Nat
  BY <1>1, TurnStandsOnAMarker
<1> HIDE DEF at
<1>3. /\ Part("eoi", at, at + 1) \in Parts
      /\ Part("eoi", at, at + 1).start = at - 1
      /\ Part("eoi", at, at + 1).end = at + 1
  BY <1>2, MarkerPart DEF Kinds
<1> QED
  BY <1>1, <1>2, <1>3, WalkedParts DEF Walked

LEMMA StandaloneKeepsInv == ASSUME WalkInv, JpegStandalone PROVE WalkInv'
<1> DEFINE at == MarkerAt(offset)
<1>1. JpegTurn(at) /\ Walked(Part("standalone", at, at + 1), at + 1)
      /\ phase' = phase
  BY DEF JpegStandalone
<1>2. /\ at \in Nat /\ at > offset /\ at < Len(file) /\ Byte(at) \in Nat
      /\ phase = "walk" /\ offset \in Nat /\ Len(file) \in Nat
  BY <1>1, TurnStandsOnAMarker
<1> HIDE DEF at
<1>3. /\ Part("standalone", at, at + 1) \in Parts
      /\ Part("standalone", at, at + 1).start = at - 1
      /\ Part("standalone", at, at + 1).end = at + 1
  BY <1>2, MarkerPart DEF Kinds
<1> QED
  BY <1>1, <1>2, <1>3, WalkedParts DEF Walked

LEMMA SosKeepsInv == ASSUME WalkInv, JpegSos PROVE WalkInv'
<1> DEFINE at      == MarkerAt(offset)
           scanEnd == FindScanEnd(at + 1 + LengthAt(at))
<1>1. JpegTurn(at) /\ Byte(at) = SOS /\ Walked(Part("sos", at, scanEnd), scanEnd)
      /\ phase' = phase
  BY DEF JpegSos
<1>2. /\ at \in Nat /\ at > offset /\ at < Len(file) /\ Byte(at) \in Nat
      /\ phase = "walk" /\ offset \in Nat /\ Len(file) \in Nat
      /\ file \in Seq(Nat)
  BY <1>1, TurnStandsOnAMarker
<1>3. ~Bare(Byte(at))
  BY <1>1 DEF Bare, SOS, EOI, TEM, RST
<1>4. /\ LengthAt(at) \in Nat /\ LengthAt(at) >= 2
      /\ at + 1 + LengthAt(at) <= Len(file)
  BY <1>1, <1>3, LengthEndsInFile
<1>5. scanEnd \in (at + 1 + LengthAt(at))..Len(file)
  BY <1>2, <1>4, ScanEndLiesInFile
<1>6. scanEnd \in Nat /\ scanEnd > at /\ scanEnd <= Len(file)
  BY <1>2, <1>4, <1>5
<1> HIDE DEF at, scanEnd
<1>7. /\ Part("sos", at, scanEnd) \in Parts
      /\ Part("sos", at, scanEnd).start = at - 1
      /\ Part("sos", at, scanEnd).end = scanEnd
  BY <1>2, <1>6, MarkerPart DEF Kinds
<1> QED
  BY <1>1, <1>2, <1>6, <1>7, WalkedParts DEF Walked

LEMMA SegmentKeepsInv == ASSUME WalkInv, JpegSegment PROVE WalkInv'
<1> DEFINE at  == MarkerAt(offset)
           end == at + 1 + LengthAt(at)
<1>1. JpegTurn(at) /\ ~Bare(Byte(at)) /\ Walked(Part("segment", at, end), end)
      /\ phase' = phase
  BY DEF JpegSegment
<1>2. /\ at \in Nat /\ at > offset /\ at < Len(file) /\ Byte(at) \in Nat
      /\ phase = "walk" /\ offset \in Nat /\ Len(file) \in Nat
  BY <1>1, TurnStandsOnAMarker
<1>3. LengthAt(at) \in Nat /\ LengthAt(at) >= 2 /\ end <= Len(file)
  BY <1>1, LengthEndsInFile
<1>4. end \in Nat /\ end > at
  BY <1>2, <1>3
<1> HIDE DEF at, end
<1>5. /\ Part("segment", at, end) \in Parts
      /\ Part("segment", at, end).start = at - 1
      /\ Part("segment", at, end).end = end
  BY <1>2, <1>4, MarkerPart DEF Kinds
<1>6. end <= Len(file)
  BY <1>3
<1> QED
  BY <1>1, <1>2, <1>4, <1>5, <1>6, WalkedParts DEF Walked

-----------------------------------------------------------------------------
(* Steps that find no part.                                                *)

LEMMA RefusedKeepsInv ==
    ASSUME WalkInv, NEW code, Refuse(code)
    PROVE  WalkInv'
<1>1. MadeOfBytes'
  BY DEF WalkInv, MadeOfBytes, Refuse
<1>2. PartsTyped' /\ NothingFoundYet' /\ SignatureRead' /\ PartsFollowOneAnother'
  BY StandingParts DEF Refuse
<1> QED
  BY <1>1, <1>2 DEF WalkInv

\* A turn of a rebuild that writes bytes.
LEMMA WroteKeepsInv ==
    ASSUME WalkInv, phase = "strip", phase' \in {"strip", "extract"},
           NEW bytes \in Seq(Nat), Wrote(bytes),
           offset' \in Nat, next' \in Nat \ {0}
    PROVE  WalkInv'
<1>1. out' \in Seq(Nat)
  BY ConcatProperties DEF WalkInv, MadeOfBytes, Wrote
<1>2. MadeOfBytes'
  BY <1>1 DEF WalkInv, MadeOfBytes, Wrote
<1>3. PartsTyped' /\ NothingFoundYet' /\ SignatureRead' /\ PartsFollowOneAnother'
  BY StandingParts DEF Wrote
<1> QED
  BY <1>2, <1>3 DEF WalkInv

\* A turn of a rebuild that leaves a part out, or ends it.
LEMMA UnwrittenKeepsInv ==
    ASSUME WalkInv, phase = "strip", phase' \in {"strip", "extract"},
           file' = file, segments' = segments, out' \in Seq(Nat),
           offset' \in Nat, next' \in Nat \ {0}
    PROVE  WalkInv'
<1>1. MadeOfBytes'
  BY DEF WalkInv, MadeOfBytes
<1>2. PartsTyped' /\ NothingFoundYet' /\ SignatureRead' /\ PartsFollowOneAnother'
  BY StandingParts
<1> QED
  BY <1>1, <1>2 DEF WalkInv

LEMMA JpegKeepsInv == ASSUME WalkInv, JpegStep PROVE WalkInv'
<1> USE DEF WalkInv, MadeOfBytes
<1>1. CASE JpegMalformed
  BY <1>1, RefusedKeepsInv DEF JpegMalformed
<1>2. CASE JpegEoi
  BY <1>2, EoiKeepsInv
<1>3. CASE JpegStandalone
  BY <1>3, StandaloneKeepsInv
<1>4. CASE JpegSos
  BY <1>4, SosKeepsInv
<1>5. CASE JpegSegment
  BY <1>5, SegmentKeepsInv
<1>6. CASE JpegWalked
  <2>1. CASE Refuse("MALFORMED")
    BY <2>1, RefusedKeepsInv
  <2>2. CASE ~Refuse("MALFORMED")
    <3>1. /\ phase' = "budget"
          /\ UNCHANGED <<file, offset, segments, next, out>>
      BY <1>6, <2>2 DEF JpegWalked
    <3> QED
      BY <3>1, StandingParts
  <2> QED
    BY <2>1, <2>2
<1>7. CASE JpegCopy
  <2> DEFINE seg == segments[next]
  <2>1. /\ phase = "strip" /\ phase' = phase /\ next \in 1..Len(segments)
        /\ next' = next + 1 /\ offset' = offset
        /\ Wrote(Cut(seg.start, seg.end))
    BY <1>7 DEF JpegCopy, JpegStripping, PartsTyped
  <2>2. seg.start \in Nat /\ seg.end \in Nat /\ seg.end <= Len(file)
    BY <2>1, PartAt
  <2>3. Cut(seg.start, seg.end) \in Seq(Nat)
    BY <2>2, CutIsBytes
  <2> QED
    BY <2>1, <2>3, WroteKeepsInv
<1>8. CASE JpegSkip
  BY <1>8, UnwrittenKeepsInv DEF JpegSkip, JpegStripping
<1>9. CASE JpegDrop
  BY <1>9, UnwrittenKeepsInv DEF JpegDrop, JpegStripping, LeftOut
<1>10. CASE JpegFinish
  <2>1. <<FF, EOI>> \in Seq(Nat)
    BY DEF FF, EOI
  <2>2. out' \in Seq(Nat)
    BY <1>10, <2>1, ConcatProperties DEF JpegFinish
  <2> QED
    BY <1>10, <2>2, UnwrittenKeepsInv DEF JpegFinish
<1> QED
  BY <1>1, <1>2, <1>3, <1>4, <1>5, <1>6, <1>7, <1>8, <1>9, <1>10 DEF JpegStep

-----------------------------------------------------------------------------
(* The PNG rebuild, which walks and copies in one loop.                    *)

LEMMA PngKeepsInv == ASSUME WalkInv, PngStep PROVE WalkInv'
<1> USE DEF WalkInv, MadeOfBytes
<1>1. CASE PngDimensions
  <2>1. CASE Refuse("MALFORMED")
    BY <2>1, RefusedKeepsInv
  <2>2. CASE ~Refuse("MALFORMED")
    <3>1. /\ phase' = "budget"
          /\ UNCHANGED <<file, offset, segments, next, out>>
      BY <1>1, <2>2 DEF PngDimensions
    <3> QED
      BY <3>1, StandingParts
  <2> QED
    BY <2>1, <2>2
<1>2. CASE PngMalformed
  BY <1>2, RefusedKeepsInv DEF PngMalformed
<1>3. ASSUME InChunks, ChunkSound
      PROVE  /\ PngDataEnd \in Nat /\ PngDataEnd + 1 <= Len(file)
             /\ PngDataEnd >= offset
  <2>1. Byte(offset) \in Nat
    BY <1>3 DEF InChunks, ChunkSound, Byte
  <2> QED
    BY <1>3, <2>1 DEF ChunkSound, PngDataEnd, PngData
<1>4. CASE PngCopy
  <2> DEFINE to == PngDataEnd + 1
  <2>1. to \in Nat /\ to <= Len(file)
    BY <1>3, <1>4 DEF PngCopy
  <2>2. Cut(offset, to) \in Seq(Nat)
    BY <2>1, CutIsBytes
  <2>3. /\ phase = "strip" /\ phase' \in {"strip", "extract"}
        /\ next' = next + 1 /\ Wrote(Cut(offset, to))
        /\ offset' = offset \/ offset' = to
    BY <1>4 DEF PngCopy, InChunks, PngStripping
  <2> HIDE DEF to
  <2> QED
    BY <2>1, <2>2, <2>3, WroteKeepsInv
<1>5. CASE PngDrop
  <2>1. PngDataEnd \in Nat
    BY <1>3, <1>5 DEF PngDrop
  <2>2. /\ phase = "strip" /\ phase' = phase /\ next' = next + 1
        /\ offset' = PngDataEnd + 1 /\ UNCHANGED <<file, segments, out>>
    BY <1>5 DEF PngDrop, InChunks, PngStripping, LeftOut
  <2> QED
    BY <2>1, <2>2, UnwrittenKeepsInv
<1>6. CASE PngNoIend
  BY <1>6, RefusedKeepsInv DEF PngNoIend
<1> QED
  BY <1>1, <1>2, <1>4, <1>5, <1>6 DEF PngStep

-----------------------------------------------------------------------------
(* The WebP walk and rebuild.                                              *)

LEMMA ChunkKeepsInv == ASSUME WalkInv, WebpChunk PROVE WalkInv'
<1> DEFINE to   == ChunkEnd + (Byte(offset + 1) % 2)
           part == [marker |-> Byte(offset), kind |-> "segment",
                    start |-> offset, end |-> ChunkEnd, payload |-> offset + 2]
<1>1. /\ phase = "walk" /\ phase' = phase /\ Walked(part, to)
      /\ offset + 2 <= RiffEnd /\ RiffSound /\ ChunkEnd <= RiffEnd
  BY DEF WebpChunk, InRiff, WebpWalking, RiffChunkSound
<1>2. file \in Seq(Nat) /\ Len(file) \in Nat /\ offset \in Nat
  BY DEF WalkInv, MadeOfBytes
<1>3. RiffEnd \in Nat /\ RiffEnd <= Len(file)
  <2>1. Declared \in Nat
    BY <1>1, <1>2 DEF WalkInv, SignatureRead, Declared, Byte
  <2> QED
    BY <1>1, <2>1 DEF RiffSound, RiffEnd
<1>4. Byte(offset) \in Nat /\ Byte(offset + 1) \in Nat
  <2>1. offset < Len(file) /\ offset + 1 < Len(file) /\ offset + 1 \in Nat
    BY <1>1, <1>2, <1>3
  <2> QED
    BY <1>2, <2>1, ByteOf
<1>5. /\ ChunkEnd \in Nat /\ ChunkEnd > offset /\ ChunkEnd <= Len(file)
      /\ to \in Nat /\ ChunkEnd <= to
  <2>1. ChunkEnd \in Nat /\ ChunkEnd > offset /\ ChunkEnd <= Len(file)
    BY <1>1, <1>2, <1>3, <1>4 DEF ChunkEnd
  <2>2. Byte(offset + 1) % 2 \in 0..1
    BY <1>4
  <2> QED
    BY <2>1, <2>2
<1>6. part \in Parts /\ part.start = offset /\ part.end = ChunkEnd
  BY <1>2, <1>4, <1>5 DEF Parts, Kinds
<1> HIDE DEF part, to
<1> QED
  BY <1>1, <1>2, <1>5, <1>6, WalkedParts DEF Walked

LEMMA FlagsStayBytes ==
    ASSUME NEW flags \in Nat
    PROVE  ClearedFlags(flags) \in Nat
<1>1. \A f \in Nat : ClearFlag(f, 8) \in Nat
  BY DEF ClearFlag
<1>2. \A f \in Nat : ClearFlag(f, 4) \in Nat
  BY DEF ClearFlag
<1>3. \A f \in Nat : ClearFlag(f, 32) \in Nat
  BY DEF ClearFlag
<1> QED
  BY <1>1, <1>2, <1>3 DEF ClearedFlags, FlagExif, FlagXmp, FlagIcc

LEMMA RebuiltIsBytes ==
    ASSUME WalkInv, NEW i \in 1..Len(segments)
    PROVE  Rebuilt(segments[i]) \o Pad(segments[i]) \in Seq(Nat)
<1> DEFINE chunk == segments[i]
<1>1. /\ chunk.start \in Nat /\ chunk.end \in Nat /\ chunk.payload \in Nat
      /\ chunk.end <= Len(file)
  BY PartAt
<1>2. file \in Seq(Nat) /\ Len(file) \in Nat
  BY DEF WalkInv, MadeOfBytes
<1> HIDE DEF chunk
<1>3. Pad(chunk) \in Seq(Nat)
  BY DEF Pad
<1>4. CASE chunk.marker = VP8X /\ Size(chunk) >= 1
  <2>1. chunk.payload < chunk.end
    BY <1>1, <1>4 DEF Size
  <2>2. /\ Cut(chunk.start, chunk.payload) \in Seq(Nat)
        /\ Cut(chunk.payload + 1, chunk.end) \in Seq(Nat)
    <3>1. chunk.payload <= Len(file) /\ chunk.payload + 1 \in Nat
      BY <1>1, <1>2, <2>1
    <3>2. Cut(chunk.start, chunk.payload) \in Seq(Nat)
      BY <1>1, <1>2, <3>1, CutIsBytes
    <3>3. Cut(chunk.payload + 1, chunk.end) \in Seq(Nat)
      BY <1>1, <1>2, <3>1, CutIsBytes
    <3> QED
      BY <3>2, <3>3
  <2>3. Byte(chunk.payload) \in Nat
    BY <1>1, <1>2, <2>1 DEF Byte
  <2>4. <<ClearedFlags(Byte(chunk.payload))>> \in Seq(Nat)
    BY <2>3, FlagsStayBytes
  <2>5. Cut(chunk.start, chunk.payload)
          \o <<ClearedFlags(Byte(chunk.payload))>> \in Seq(Nat)
    BY <2>2, <2>4, ConcatProperties
  <2>6. Rebuilt(chunk) \in Seq(Nat)
    BY <1>4, <2>2, <2>5, ConcatProperties DEF Rebuilt
  <2> QED
    BY <1>3, <2>6, ConcatProperties DEF chunk
<1>5. CASE ~(chunk.marker = VP8X /\ Size(chunk) >= 1)
  <2>1. Rebuilt(chunk) \in Seq(Nat)
    BY <1>1, <1>2, <1>5, CutIsBytes DEF Rebuilt
  <2> QED
    BY <1>3, <2>1, ConcatProperties DEF chunk
<1> QED
  BY <1>4, <1>5

LEMMA WebpKeepsInv == ASSUME WalkInv, WebpStep PROVE WalkInv'
<1> USE DEF WalkInv, MadeOfBytes
<1>1. CASE WebpMalformed
  BY <1>1, RefusedKeepsInv DEF WebpMalformed
<1>2. CASE WebpChunk
  BY <1>2, ChunkKeepsInv
<1>3. CASE WebpWalked
  <2>1. CASE Refuse("MALFORMED")
    BY <2>1, RefusedKeepsInv
  <2>2. CASE ~Refuse("MALFORMED")
    <3>1. /\ phase' = "budget"
          /\ UNCHANGED <<file, offset, segments, next, out>>
      BY <1>3, <2>2 DEF WebpWalked
    <3> QED
      BY <3>1, StandingParts
  <2> QED
    BY <2>1, <2>2
<1>4. CASE WebpCopy
  <2> DEFINE bytes == Rebuilt(segments[next]) \o Pad(segments[next])
  <2>1. /\ phase = "strip" /\ phase' = phase /\ next \in 1..Len(segments)
        /\ next' = next + 1 /\ offset' = offset /\ Wrote(bytes)
    BY <1>4 DEF WebpCopy, WebpStripping, PartsTyped
  <2>2. bytes \in Seq(Nat)
    BY <2>1, RebuiltIsBytes
  <2> HIDE DEF bytes
  <2> QED
    BY <2>1, <2>2, WroteKeepsInv
<1>5. CASE WebpDrop
  BY <1>5, UnwrittenKeepsInv DEF WebpDrop, WebpStripping, LeftOut
<1>6. CASE WebpFinish
  <2> DEFINE head == <<RIFF, 1 + Len(out), WEBP>>
  <2>1. head \in Seq(Nat)
    BY DEF RIFF, WEBP
  <2>2. out' = head \o out
    BY <1>6 DEF WebpFinish
  <2> HIDE DEF head
  <2>3. out' \in Seq(Nat)
    BY <2>1, <2>2, ConcatProperties
  <2> QED
    BY <1>6, <2>3, UnwrittenKeepsInv DEF WebpFinish
<1> QED
  BY <1>1, <1>2, <1>3, <1>4, <1>5, <1>6 DEF WebpStep

-----------------------------------------------------------------------------
(* The photo as a whole.                                                   *)

LEMMA InitEstablishesInv == Init => WalkInv
<1> SUFFICES ASSUME Init PROVE WalkInv
  OBVIOUS
<1>1. MadeOfBytes
  BY SendingsAssumption DEF Init, MadeOfBytes
<1>2. segments = <<>> /\ PartsTyped
  BY DEF Init, PartsTyped
<1> QED
  BY <1>1, <1>2 DEF Init, WalkInv, NothingFoundYet, SignatureRead,
                    PartsFollowOneAnother

LEMMA NextKeepsInv == WalkInv /\ [Next]_vars => WalkInv'
<1> SUFFICES ASSUME WalkInv, [Next]_vars PROVE WalkInv'
  OBVIOUS
<1> USE DEF WalkInv, MadeOfBytes
<1>1. CASE Reject
  BY <1>1, RefusedKeepsInv DEF Reject
<1>2. CASE Identify
  <2>1. /\ phase = "received" /\ phase' = "walk"
        /\ UNCHANGED <<file, segments, next, out>>
    BY <1>2 DEF Identify
  <2>2. offset' \in Nat /\ Len(file) >= 2
    BY <1>2 DEF Identify, Identified
  <2> QED
    BY <2>1, <2>2, StandingParts
<1>3. CASE Walk
  BY <1>3, JpegKeepsInv, PngKeepsInv, WebpKeepsInv DEF Walk
<1>4. CASE Budget
  <2>1. CASE \E code : Refuse(code)
    BY <2>1, RefusedKeepsInv
  <2>2. CASE ~\E code : Refuse(code)
    <3>1. /\ phase' = "strip" /\ UNCHANGED <<file, offset, segments, next>>
          /\ out' = IF format = "jpeg" THEN <<FF, SOI>>
                    ELSE IF format = "png" THEN <<PngSig>> ELSE <<>>
      BY <1>4, <2>2 DEF Budget
    <3>2. out' \in Seq(Nat)
      BY <3>1 DEF FF, SOI, PngSig
    <3> QED
      BY <3>1, <3>2, StandingParts
  <2> QED
    BY <2>1, <2>2
<1>5. CASE Extract
  <2>1. phase' = "stored" /\ UNCHANGED <<file, offset, segments, next, out>>
    BY <1>5 DEF Extract
  <2> QED
    BY <2>1, StandingParts
<1>6. CASE SentAgain
  <2>1. /\ file' \in Seq(Nat) /\ out' = <<>> /\ offset' = 0 /\ next' = 1
        /\ segments' = <<>> /\ phase' = "received"
    BY <1>6 DEF SentAgain
  <2>2. MadeOfBytes' /\ PartsTyped'
    BY <2>1 DEF PartsTyped
  <2> QED
    BY <2>1, <2>2 DEF NothingFoundYet, SignatureRead, PartsFollowOneAnother
<1>7. CASE UNCHANGED vars
  BY <1>7 DEF vars, imageVars, PartsTyped, NothingFoundYet, SignatureRead,
              PartsFollowOneAnother
<1> QED
  BY <1>1, <1>2, <1>3, <1>4, <1>5, <1>6, <1>7 DEF Next, Done

\* Whatever bytes are sent and whatever the limits, the parts walkJpeg and
\* readRiffChunks find lie in the file, one behind the other, and the walk
\* never falls back behind one: nothing is copied twice or read past the end.
THEOREM PartsInOrder == Spec => []PartsFollowOneAnother
<1>1. WalkInv => PartsFollowOneAnother
  BY DEF WalkInv
<1> QED
  BY <1>1, InitEstablishesInv, NextKeepsInv, PTL DEF Spec

-----------------------------------------------------------------------------
(* A clean file is a row of pieces, each of which says by itself, from its *)
(* own bytes, that it is kept: it reads the same wherever it stands.       *)

\* A chunk of a kind that is kept, with its checksum.
PngPiece(f, a, b) ==
    /\ b = a + 3 + f[a + 1]
    /\ f[a + 1] <= MaxChunkLength /\ f[a + 2] \in PngKeptChunks
    /\ f[b] = Crc32(SubSeq(f, a + 2, b - 1))

\* A chunk of a kind that is kept, padded, with none of the flags of what is not.
WebpPiece(f, a, b) ==
    /\ a + 2 <= b /\ b = a + 2 + f[a + 2] + (f[a + 2] % 2)
    /\ f[a + 1] \in WebpKeptChunks /\ f[a + 2] <= MaxRiffSize
    /\ f[a + 2] % 2 = 1 => f[b] = 0
    /\ f[a + 1] = VP8X /\ f[a + 2] >= 1 => ClearedFlags(f[a + 3]) = f[a + 3]

PieceMarkers     == (SOF \cup KeptMarkers \cup {APP0}) \ {EOI}

\* A part that is kept: JFIF but no other APP0, the scan up to the next marker.
JpegPiece(f, a, b) ==
    /\ a + 4 <= b
    /\ f[a + 1] = FF /\ f[a + 2] \in PieceMarkers
    /\ JpegHeader(f, a) >= 4 /\ a + JpegHeader(f, a) <= b
    /\ f[a + 2] # SOS => b = a + JpegHeader(f, a)
    /\ f[a + 2] = APP0 => JpegHeader(f, a) >= 5 /\ f[a + 5] = JfifId
    /\ ScanBytes(f, a, JpegHeader(f, a), b - a)

Piece(fmt, f, a, b) ==
    /\ fmt = "png"  => PngPiece(f, a, b)
    /\ fmt = "webp" => WebpPiece(f, a, b)
    /\ fmt = "jpeg" => JpegPiece(f, a, b)

\* From `from` to `to`, f is n pieces, cut at c.
Row(fmt, f, from, to, c, n) ==
    /\ n \in Nat /\ c \in [1..(n + 1) -> Nat]
    /\ c[1] = from /\ c[n + 1] = to /\ to <= Len(f)
    /\ \A k \in 1..n : /\ c[k] < c[k + 1] /\ c[k + 1] <= to
                       /\ Piece(fmt, f, c[k], c[k + 1])

\* The m bytes of f behind a are those of g behind e.
Copied(f, a, g, e, m) == \A j \in 1..m : g[e + j] = f[a + j]

CutsAlike(f, a, g, e, p, q) == SubSeq(g, e + p, e + q) = SubSeq(f, a + p, a + q)

\* The elements of a cut.
LEMMA CutOf ==
    ASSUME NEW f \in Seq(Nat), NEW p \in Nat \ {0}, NEW q \in Nat,
           p <= q, q <= Len(f)
    PROVE  /\ SubSeq(f, p, q) \in Seq(Nat)
           /\ Len(SubSeq(f, p, q)) = q - p + 1
           /\ \A i \in 1..(q - p + 1) : SubSeq(f, p, q)[i] = f[p + i - 1]
<1>1. \A i \in p..q : f[i] \in Nat
  BY LenProperties
<1> QED
  BY <1>1, SubSeqProperties

\* Where bytes were copied, cuts at the same distance are the same.
LEMMA SameCut ==
    ASSUME NEW f \in Seq(Nat), NEW g \in Seq(Nat), NEW a \in Nat, NEW e \in Nat,
           NEW m \in Nat, a + m <= Len(f), e + m <= Len(g), Copied(f, a, g, e, m),
           NEW p \in Nat \ {0}, NEW q \in Nat, p <= q, q <= m
    PROVE  CutsAlike(f, a, g, e, p, q)
<1> DEFINE s == SubSeq(f, a + p, a + q)
           t == SubSeq(g, e + p, e + q)
           m1 == a + p  m2 == a + q  n1 == e + p  n2 == e + q
<1>0. Len(f) \in Nat /\ Len(g) \in Nat
  BY LenProperties
<1>1. /\ m1 \in Nat \ {0} /\ m2 \in Nat /\ m1 <= m2 /\ m2 <= Len(f)
      /\ n1 \in Nat \ {0} /\ n2 \in Nat /\ n1 <= n2 /\ n2 <= Len(g)
      /\ m2 - m1 = q - p /\ n2 - n1 = q - p
  BY <1>0
<1> HIDE DEF m1, m2, n1, n2
<1>2. /\ Len(s) = q - p + 1 /\ s \in Seq(Nat)
      /\ \A i \in 1..(q - p + 1) : s[i] = f[a + p + i - 1]
  <2>1. /\ SubSeq(f, m1, m2) \in Seq(Nat) /\ Len(SubSeq(f, m1, m2)) = m2 - m1 + 1
        /\ \A i \in 1..(m2 - m1 + 1) : SubSeq(f, m1, m2)[i] = f[m1 + i - 1]
    BY <1>1, CutOf, Zenon
  <2> QED
    BY <1>1, <2>1 DEF m1, m2
<1>3. /\ Len(t) = q - p + 1 /\ t \in Seq(Nat)
      /\ \A i \in 1..(q - p + 1) : t[i] = g[e + p + i - 1]
  <2>1. /\ SubSeq(g, n1, n2) \in Seq(Nat) /\ Len(SubSeq(g, n1, n2)) = n2 - n1 + 1
        /\ \A i \in 1..(n2 - n1 + 1) : SubSeq(g, n1, n2)[i] = g[n1 + i - 1]
    BY <1>1, CutOf, Zenon
  <2> QED
    BY <1>1, <2>1 DEF n1, n2
<1>4. ASSUME NEW i \in 1..(q - p + 1) PROVE s[i] = t[i]
  <2>1. p + i - 1 \in 1..m
    OBVIOUS
  <2>2. g[e + (p + i - 1)] = f[a + (p + i - 1)]
    BY <2>1 DEF Copied
  <2>3. e + (p + i - 1) = e + p + i - 1 /\ a + (p + i - 1) = a + p + i - 1
    OBVIOUS
  <2> QED
    BY <1>2, <1>3, <2>2, <2>3
<1> HIDE DEF s, t
<1>5. s = t
  BY <1>2, <1>3, <1>4, SeqEqual
<1> QED
  BY <1>5 DEF s, t, m1, m2, n1, n2, CutsAlike

\* A kept PNG chunk is one wherever it stands: its checksum goes with it.
LEMMA PngPieceMoves ==
    ASSUME NEW f \in Seq(Nat), NEW g \in Seq(Nat), NEW a \in Nat, NEW e \in Nat,
           NEW m \in Nat \ {0}, a + m <= Len(f), e + m <= Len(g), Copied(f, a, g, e, m),
           PngPiece(f, a, a + m)
    PROVE  PngPiece(g, e, e + m)
<1> DEFINE x == f[a + 1]
<1>1. x \in Nat
  BY LenProperties
<1>2. a + m = a + 3 + x
  BY DEF PngPiece
<1> HIDE DEF x
<1>3. m = 3 + x
  BY <1>1, <1>2
<1>4. 1 \in 1..m /\ 2 \in 1..m /\ m \in 1..m
  BY <1>1, <1>3
<1>5. g[e + 1] = x /\ g[e + 2] = f[a + 2] /\ g[e + m] = f[a + m]
  BY <1>4 DEF Copied, x
<1>6. SubSeq(g, e + 2, e + (m - 1)) = SubSeq(f, a + 2, a + (m - 1))
  <2> DEFINE two == 2
             q == m - 1
  <2>1. m \in Nat /\ two \in Nat \ {0} /\ q \in Nat /\ two <= q /\ q <= m
    BY <1>1, <1>3
  <2> HIDE DEF two, q
  <2>2. CutsAlike(f, a, g, e, two, q)
    BY <2>1, SameCut
  <2> QED
    BY <2>2 DEF two, q, CutsAlike
<1>7. e + (m - 1) = e + m - 1 /\ a + (m - 1) = a + m - 1
  OBVIOUS
<1>8. e + m = e + 3 + g[e + 1]
  BY <1>1, <1>3, <1>5
<1>9. /\ f[a + 1] <= MaxChunkLength /\ f[a + 2] \in PngKeptChunks
      /\ f[a + m] = Crc32(SubSeq(f, a + 2, a + m - 1))
  BY DEF PngPiece
<1>10. /\ g[e + 1] <= MaxChunkLength /\ g[e + 2] \in PngKeptChunks
       /\ g[e + m] = Crc32(SubSeq(g, e + 2, e + m - 1))
  BY <1>5, <1>6, <1>7, <1>9 DEF x
<1> QED
  BY <1>8, <1>10 DEF PngPiece

\* So is a kept WebP chunk, with its pad byte,
LEMMA WebpPieceMoves ==
    ASSUME NEW f \in Seq(Nat), NEW g \in Seq(Nat), NEW a \in Nat, NEW e \in Nat,
           NEW m \in Nat \ {0}, a + m <= Len(f), e + m <= Len(g), Copied(f, a, g, e, m),
           WebpPiece(f, a, a + m)
    PROVE  WebpPiece(g, e, e + m)
<1> DEFINE x == f[a + 2]
           r == f[a + 2] % 2
<1>1. m >= 2
  BY DEF WebpPiece
<1>2. x \in Nat /\ r \in Nat
  <2>1. x \in Nat
    <3>1. a + 2 \in 1..Len(f)
      BY <1>1, LenProperties
    <3> QED
      BY <3>1, ElementOf
  <2> HIDE DEF x
  <2>2. x % 2 \in Nat
    BY <2>1
  <2> QED
    BY <2>1, <2>2 DEF x
<1>3. a + m = a + 2 + x + r
  BY DEF WebpPiece, x, r
<1>4. 1 \in 1..m /\ 2 \in 1..m /\ m \in 1..m
  BY <1>1
<1>5. g[e + 1] = f[a + 1] /\ g[e + 2] = f[a + 2] /\ g[e + m] = f[a + m]
  BY <1>4 DEF Copied
<1> HIDE DEF x, r
<1>6. m = 2 + x + r
  BY <1>2, <1>3
<1>7. e + m = e + 2 + x + r
  BY <1>2, <1>6
<1>8. /\ f[a + 1] \in WebpKeptChunks /\ x <= MaxRiffSize
      /\ r = 1 => f[a + m] = 0
      /\ f[a + 1] = VP8X /\ x >= 1 => ClearedFlags(f[a + 3]) = f[a + 3]
  BY DEF WebpPiece, x, r
<1>9. x >= 1 => g[e + 3] = f[a + 3]
  <2>1. x >= 1 => 3 \in 1..m
    BY <1>2, <1>6
  <2> QED
    BY <2>1 DEF Copied
<1>10. e + 2 <= e + m
  BY <1>1
<1> QED
  BY <1>5, <1>7, <1>8, <1>9, <1>10 DEF WebpPiece, x, r

\* and a kept JPEG part, with the scan behind its header.
LEMMA JpegPieceMoves ==
    ASSUME NEW f \in Seq(Nat), NEW g \in Seq(Nat), NEW a \in Nat, NEW e \in Nat,
           NEW m \in Nat \ {0}, a + m <= Len(f), e + m <= Len(g), Copied(f, a, g, e, m),
           JpegPiece(f, a, a + m)
    PROVE  JpegPiece(g, e, e + m)
<1> DEFINE x == JpegHeader(f, a)
<1>1. m >= 4
  BY DEF JpegPiece
<1>2. 1 \in 1..m /\ 2 \in 1..m /\ 3 \in 1..m /\ 4 \in 1..m
  BY <1>1
<1>3. /\ g[e + 1] = f[a + 1] /\ g[e + 2] = f[a + 2]
      /\ g[e + 3] = f[a + 3] /\ g[e + 4] = f[a + 4]
  BY <1>2 DEF Copied
<1>4. x \in Nat /\ JpegHeader(g, e) = x
  <2>1. f[a + 3] \in Nat /\ f[a + 4] \in Nat
    <3>1. a + 3 \in 1..Len(f) /\ a + 4 \in 1..Len(f)
      BY <1>1, LenProperties
    <3> QED
      BY <3>1, ElementOf
  <2>2. x \in Nat
    <3>1. \A y, z \in Nat : 2 + y * 256 + z \in Nat
      OBVIOUS
    <3> QED
      BY <2>1, <3>1 DEF JpegHeader
  <2>3. JpegHeader(g, e) = x
    BY <1>3 DEF JpegHeader
  <2> QED
    BY <2>2, <2>3
<1>5. /\ f[a + 1] = FF /\ f[a + 2] \in PieceMarkers
      /\ x >= 4 /\ a + x <= a + m
      /\ f[a + 2] # SOS => a + m = a + x
      /\ f[a + 2] = APP0 => x >= 5 /\ f[a + 5] = JfifId
      /\ ScanBytes(f, a, x, a + m - a)
  BY DEF JpegPiece
<1> HIDE DEF x
<1>6. e + x <= e + m /\ (f[a + 2] # SOS => e + m = e + x) /\ x <= m
  BY <1>4, <1>5
<1>7. f[a + 2] = APP0 => g[e + 5] = JfifId
  <2>1. x >= 5 => 5 \in 1..m
    BY <1>4, <1>6
  <2> QED
    BY <1>5, <2>1 DEF Copied
<1>8. ScanBytes(g, e, x, e + m - e)
  <2>1. a + m - a = m /\ e + m - e = m
    OBVIOUS
  <2> SUFFICES ASSUME NEW j \in (x + 1)..(m - 1), g[e + j] = FF
               PROVE  g[e + j + 1] \in {FF, 0} \cup RST
    BY <2>1 DEF ScanBytes
  <2>2. j \in 1..m /\ j + 1 \in 1..m
    BY <1>4
  <2>3. g[e + j] = f[a + j] /\ g[e + (j + 1)] = f[a + (j + 1)]
    BY <2>2 DEF Copied
  <2>4. e + (j + 1) = e + j + 1 /\ a + (j + 1) = a + j + 1
    BY <2>2
  <2>5. f[a + j] = FF => f[a + j + 1] \in {FF, 0} \cup RST
    BY <1>5, <2>1 DEF ScanBytes
  <2> QED
    BY <2>3, <2>4, <2>5
<1>9. e + 4 <= e + m
  BY <1>1
<1> QED
  BY <1>3, <1>4, <1>5, <1>6, <1>7, <1>8, <1>9 DEF JpegPiece

\* In any format, a piece that was copied is a piece.
LEMMA PieceMoves ==
    ASSUME NEW fmt, NEW f \in Seq(Nat), NEW g \in Seq(Nat), NEW a \in Nat, NEW e \in Nat,
           NEW m \in Nat \ {0}, a + m <= Len(f), e + m <= Len(g), Copied(f, a, g, e, m),
           Piece(fmt, f, a, a + m)
    PROVE  Piece(fmt, g, e, e + m)
BY PngPieceMoves, WebpPieceMoves, JpegPieceMoves DEF Piece

\* What stands in a file stands there when more is written behind it.
LEMMA StillThere ==
    ASSUME NEW f \in Seq(Nat), NEW p \in Seq(Nat)
    PROVE  /\ f \o p \in Seq(Nat) /\ Len(f \o p) = Len(f) + Len(p)
           /\ \A i \in 1..Len(f) : (f \o p)[i] = f[i]
           /\ \A j \in 1..Len(p) : (f \o p)[Len(f) + j] = p[j]
<1>1. /\ f \o p \in Seq(Nat) /\ Len(f \o p) = Len(f) + Len(p)
      /\ \A i \in 1..Len(f) + Len(p) :
           (f \o p)[i] = IF i <= Len(f) THEN f[i] ELSE p[i - Len(f)]
  BY ConcatProperties
<1>2. Len(f) \in Nat /\ Len(p) \in Nat
  BY LenProperties
<1>3. ASSUME NEW i \in 1..Len(f) PROVE (f \o p)[i] = f[i]
  BY <1>1, <1>2
<1>4. ASSUME NEW j \in 1..Len(p) PROVE (f \o p)[Len(f) + j] = p[j]
  <2>1. /\ Len(f) + j \in 1..Len(f) + Len(p) /\ ~(Len(f) + j <= Len(f))
        /\ Len(f) + j - Len(f) = j
    BY <1>2
  <2> QED
    BY <1>1, <2>1
<1> QED
  BY <1>1, <1>3, <1>4

\* Writing behind a row leaves it a row.
LEMMA RowStays ==
    ASSUME NEW fmt, NEW f \in Seq(Nat), NEW p \in Seq(Nat), NEW from, NEW to \in Nat,
           NEW c, NEW n, Row(fmt, f, from, to, c, n)
    PROVE  Row(fmt, f \o p, from, to, c, n)
<1> DEFINE g == f \o p
<1>1. /\ g \in Seq(Nat) /\ Len(g) = Len(f) + Len(p)
      /\ \A i \in 1..Len(f) : g[i] = f[i]
      /\ Len(f) \in Nat /\ Len(p) \in Nat
  BY StillThere, LenProperties
<1> HIDE DEF g
<1>2. /\ n \in Nat /\ c \in [1..(n + 1) -> Nat]
      /\ c[1] = from /\ c[n + 1] = to /\ to <= Len(f)
  BY DEF Row
<1>3. ASSUME NEW k \in 1..n
      PROVE  /\ c[k] < c[k + 1] /\ c[k + 1] <= to
             /\ Piece(fmt, g, c[k], c[k + 1])
  <2>1. /\ c[k] < c[k + 1] /\ c[k + 1] <= to /\ Piece(fmt, f, c[k], c[k + 1])
    BY DEF Row
  <2>2. c[k] \in Nat /\ c[k + 1] \in Nat
    BY <1>2
  <2> DEFINE a == c[k]
             b == c[k + 1]
             m == b - a
  <2>3. /\ a \in Nat /\ b \in Nat /\ a < b /\ b <= Len(f) /\ Piece(fmt, f, a, b)
        /\ b <= to
    BY <1>1, <1>2, <2>1, <2>2
  <2> HIDE DEF a, b
  <2>4. /\ m \in Nat \ {0} /\ a + m = b /\ b <= Len(g)
    BY <1>1, <2>3
  <2> HIDE DEF m
  <2>5. Copied(f, a, g, a, m)
    <3> SUFFICES ASSUME NEW j \in 1..m PROVE g[a + j] = f[a + j]
      BY DEF Copied
    <3>1. j \in Nat /\ 1 <= j /\ j <= m /\ m \in Nat
      BY <2>4
    <3>2. a \in Nat /\ a + m = b /\ b <= Len(f) /\ Len(f) \in Nat
      BY <1>1, <2>3, <2>4
    <3>3. a + j \in 1..Len(f)
      BY <3>1, <3>2
    <3> QED
      BY <1>1, <3>3
  <2>6. Piece(fmt, f, a, a + m) /\ a + m <= Len(f) /\ a + m <= Len(g)
    BY <2>3, <2>4
  <2>7. Piece(fmt, g, a, a + m)
    BY <1>1, <2>3, <2>4, <2>5, <2>6, PieceMoves
  <2>8. Piece(fmt, g, a, b)
    BY <2>4, <2>7
  <2> QED
    BY <2>3, <2>8 DEF a, b
<1>4. to <= Len(g)
  BY <1>1, <1>2
<1> QED
  BY <1>2, <1>3, <1>4 DEF Row, g

\* The cuts of a row, and one more.
Longer(c, n, e) == [k \in 1..(n + 2) |-> IF k = n + 2 THEN e ELSE c[k]]

\* The cuts of a row with one more piece.
LEMMA LongerCuts ==
    ASSUME NEW c, NEW n \in Nat, NEW e
    PROVE  \A k \in 1..(n + 1) : Longer(c, n, e)[k] = c[k]
BY DEF Longer

\* A row and a piece behind it are a row.
LEMMA RowGrows ==
    ASSUME NEW fmt, NEW f \in Seq(Nat), NEW p \in Seq(Nat), NEW from, NEW c, NEW n,
           Row(fmt, f, from, Len(f), c, n), Len(p) > 0,
           Piece(fmt, f \o p, Len(f), Len(f) + Len(p))
    PROVE  /\ Row(fmt, f \o p, from, Len(f \o p), Longer(c, n, Len(f \o p)), n + 1)
           /\ \A k \in 1..(n + 1) : Longer(c, n, Len(f \o p))[k] = c[k]
<1> DEFINE g == f \o p
           to == Len(f)
           e  == Len(g)
           d  == Longer(c, n, e)
<1>1. /\ g \in Seq(Nat) /\ e = to + Len(p)
      /\ to \in Nat /\ Len(p) \in Nat /\ e \in Nat
  BY StillThere, LenProperties
<1>2. Row(fmt, g, from, to, c, n)
  BY <1>1, RowStays
<1>3. Piece(fmt, g, to, e)
  BY <1>1
<1> HIDE DEF g, to, e
<1>4. /\ n \in Nat /\ c \in [1..(n + 1) -> Nat] /\ c[1] = from /\ c[n + 1] = to
  BY <1>2 DEF Row
<1>5. /\ d \in [1..(n + 2) -> Nat] /\ d[n + 2] = e
      /\ \A k \in 1..(n + 1) : d[k] = c[k]
  BY <1>1, <1>4 DEF Longer
<1>6. d[1] = from
  BY <1>4, <1>5
<1> HIDE DEF d
<1>7. ASSUME NEW k \in 1..(n + 1)
      PROVE  /\ d[k] < d[k + 1] /\ d[k + 1] <= e
             /\ Piece(fmt, g, d[k], d[k + 1])
  <2>1. CASE k \in 1..n
    <3>1. d[k] = c[k] /\ d[k + 1] = c[k + 1]
      BY <1>4, <1>5, <2>1
    <3>2. c[k] < c[k + 1] /\ c[k + 1] <= to /\ Piece(fmt, g, c[k], c[k + 1])
      BY <1>2, <2>1 DEF Row
    <3>3. c[k + 1] \in Nat
      BY <1>4, <2>1
    <3> QED
      BY <1>1, <3>1, <3>2, <3>3
  <2>2. CASE k = n + 1
    <3>1. d[k] = to /\ d[k + 1] = e
      BY <1>4, <1>5, <2>2
    <3> QED
      BY <1>1, <1>3, <3>1
  <2> QED
    BY <1>4, <2>1, <2>2
<1>8. e <= Len(g) /\ n + 1 \in Nat /\ n + 1 + 1 = n + 2
  BY <1>1, <1>4 DEF e
<1>9. Row(fmt, g, from, e, d, n + 1)
  BY <1>5, <1>6, <1>7, <1>8 DEF Row
<1> QED
  BY <1>5, <1>9 DEF g, e, d

\* The part of f from behind a up to b.
Slice(f, a, b) == SubSeq(f, a + 1, b)

\* The elements of a stretch of bytes.
LEMMA SliceOf ==
    ASSUME NEW f \in Seq(Nat), NEW a \in Nat, NEW b \in Nat, a < b, b <= Len(f)
    PROVE  /\ Slice(f, a, b) \in Seq(Nat)
           /\ Len(Slice(f, a, b)) = b - a /\ Len(Slice(f, a, b)) > 0
           /\ \A j \in 1..(b - a) : Slice(f, a, b)[j] = f[a + j]
<1> DEFINE from == a + 1
           p == SubSeq(f, from, b)
<1>1. from \in Nat \ {0} /\ from <= b /\ b - from + 1 = b - a /\ b - a \in Nat \ {0}
  OBVIOUS
<1> HIDE DEF from
<1>2. /\ p \in Seq(Nat) /\ Len(p) = b - from + 1
      /\ \A i \in 1..(b - from + 1) : p[i] = f[from + i - 1]
  BY <1>1, CutOf
<1> HIDE DEF p
<1>3. Len(p) = b - a /\ Len(p) > 0
  BY <1>1, <1>2
<1>4. ASSUME NEW j \in 1..(b - a) PROVE p[j] = f[a + j]
  <2>1. p[j] = f[from + j - 1]
    BY <1>1, <1>2
  <2>2. from + j - 1 = a + j
    BY DEF from
  <2> QED
    BY <2>1, <2>2
<1>5. Slice(f, a, b) = p
  BY DEF Slice, p, from
<1> QED
  BY <1>2, <1>3, <1>4, <1>5

\* A part of f is written at the end of g.
LEMMA PartWritten ==
    ASSUME NEW f \in Seq(Nat), NEW g \in Seq(Nat), NEW a \in Nat, NEW b \in Nat,
           a < b, b <= Len(f)
    PROVE  /\ g \o Slice(f, a, b) \in Seq(Nat)
           /\ Len(g \o Slice(f, a, b)) = Len(g) + (b - a)
           /\ Copied(f, a, g \o Slice(f, a, b), Len(g), b - a)
           /\ \A i \in 1..Len(g) : (g \o Slice(f, a, b))[i] = g[i]
<1> DEFINE p == Slice(f, a, b)
           h == g \o p
<1>1. /\ p \in Seq(Nat) /\ Len(p) = b - a
      /\ \A j \in 1..(b - a) : p[j] = f[a + j]
  BY SliceOf
<1> HIDE DEF p
<1>2. /\ h \in Seq(Nat) /\ Len(h) = Len(g) + Len(p)
      /\ \A i \in 1..Len(g) : h[i] = g[i]
      /\ \A j \in 1..Len(p) : h[Len(g) + j] = p[j]
  BY <1>1, StillThere
<1>3. Copied(f, a, h, Len(g), b - a)
  BY <1>1, <1>2 DEF Copied
<1> QED
  BY <1>1, <1>2, <1>3 DEF p

\* What is written says by itself that it is kept, and the row is longer by it.
LEMMA PieceWritten ==
    ASSUME NEW fmt, NEW f \in Seq(Nat), NEW g \in Seq(Nat), NEW a \in Nat, NEW b \in Nat,
           a < b, b <= Len(f), Piece(fmt, f, a, b),
           NEW from, NEW c, NEW n, Row(fmt, g, from, Len(g), c, n),
           NEW h, h = g \o Slice(f, a, b)
    PROVE  /\ Row(fmt, h, from, Len(h), Longer(c, n, Len(h)), n + 1)
           /\ \A k \in 1..(n + 1) : Longer(c, n, Len(h))[k] = c[k]
<1> DEFINE p == Slice(f, a, b)
           m == b - a
<1>1. /\ p \in Seq(Nat) /\ Len(p) = m /\ Len(p) > 0
      /\ g \o p \in Seq(Nat) /\ Len(g \o p) = Len(g) + m
      /\ Copied(f, a, g \o p, Len(g), m)
  <2>1. p \in Seq(Nat) /\ Len(p) = m /\ Len(p) > 0
    BY SliceOf, Zenon
  <2>2. g \o p \in Seq(Nat) /\ Len(g \o p) = Len(g) + m
    BY PartWritten, Zenon
  <2>3. Copied(f, a, g \o p, Len(g), m)
    BY PartWritten, Zenon
  <2> QED
    BY <2>1, <2>2, <2>3
<1>2. m \in Nat \ {0} /\ a + m = b
  OBVIOUS
<1>3. Len(g) \in Nat /\ Len(f) \in Nat
  BY LenProperties
<1> HIDE DEF m, p
<1>4. h = g \o p
  BY DEF p
<1>5. a + m <= Len(f)
  BY <1>2
<1>6. Piece(fmt, f, a, a + m)
  BY <1>2
<1>7. Len(g) + m <= Len(h) /\ h \in Seq(Nat) /\ Copied(f, a, h, Len(g), m)
  BY <1>1, <1>2, <1>3, <1>4
<1>8. Piece(fmt, h, Len(g), Len(g) + m)
  BY <1>2, <1>3, <1>5, <1>6, <1>7, PieceMoves
<1>9. Piece(fmt, g \o p, Len(g), Len(g) + Len(p))
  BY <1>1, <1>4, <1>8
<1>10. /\ Row(fmt, g \o p, from, Len(g \o p), Longer(c, n, Len(g \o p)), n + 1)
       /\ \A k \in 1..(n + 1) : Longer(c, n, Len(g \o p))[k] = c[k]
  <2>1. Row(fmt, g \o p, from, Len(g \o p), Longer(c, n, Len(g \o p)), n + 1)
    BY <1>1, <1>9, RowGrows, Zenon
  <2>2. \A k \in 1..(n + 1) : Longer(c, n, Len(g \o p))[k] = c[k]
    BY LongerCuts DEF Row
  <2> QED
    BY <2>1, <2>2
<1> QED
  BY <1>4, <1>10

-----------------------------------------------------------------------------
(* PNG: what has been written is a row of kept chunks, IHDR first.         *)

Fits(d) == ~NonsensicalSize(d) /\ ~TooManyPixels(d)

\* The IHDR of f gives the size d.
PngHead(f, d) ==
    Len(f) >= 6 /\ f[2] = IhdrLength /\ f[3] = IHDR /\ d = <<f[4], f[5]>>

PngRow(f, c, n) ==
    /\ Row("png", f, 1, Len(f), c, n) /\ n <= MaxSegments
    /\ f[1] = PngSig

\* What stripPng stores: chunks that are kept up to IEND, IHDR first.
CleanPng(f, d, c, n) ==
    /\ PngRow(f, c, n) /\ n >= 1 /\ PngHead(f, d)
    /\ \A k \in 1..n : f[c[k] + 2] = IEND <=> k = n

\* The rebuild at turn nx and position at, with g written so far.
PngWritten(g, d, at, nx, c, n) ==
    /\ PngRow(g, c, n) /\ n < nx /\ Len(g) <= at
    /\ \A k \in 1..n : g[c[k] + 2] # IEND
    /\ IF n = 0 THEN at = 1 ELSE PngHead(g, d)

\* The chunk PngCopy writes lies in the file.
LEMMA PngChunk ==
    ASSUME WalkInv, PngCopy
    PROVE  LET b == PngDataEnd + 1
           IN  /\ b \in Nat /\ offset + 3 <= b /\ b <= Len(file) /\ offset \in Nat
               /\ out' = out \o Slice(file, offset, b)
               /\ Piece("png", file, offset, b)
               /\ next <= MaxSegments /\ next' = next + 1
               /\ UNCHANGED <<file, dims>>
               /\ IF file[offset + 2] = IEND
                  THEN phase' = "extract" /\ offset' = offset
                  ELSE phase' = "strip" /\ offset' = b
<1> DEFINE b == PngDataEnd + 1
           x == file[offset + 1]
<1>1. file \in Seq(Nat) /\ offset \in Nat /\ Len(file) \in Nat
  BY DEF WalkInv, MadeOfBytes
<1>2. /\ InChunks /\ ChunkSound /\ ChecksumSound /\ PngType \in PngKeptChunks
      /\ Wrote(Cut(offset, b)) /\ next' = next + 1
      /\ IF PngType = IEND THEN phase' = "extract" /\ offset' = offset
                           ELSE phase' = phase /\ offset' = b
  BY DEF PngCopy
<1>3. /\ offset < Len(file) /\ phase = "strip"
      /\ next <= MaxSegments /\ offset + 2 <= Len(file) /\ x <= MaxChunkLength
      /\ b <= Len(file) /\ b = offset + 2 + x + 1
  BY <1>2 DEF InChunks, PngStripping, ChunkSound, Byte, PngDataEnd, PngData
<1>4. PngType = file[offset + 2]
  <2>1. offset + 1 + 1 = offset + 2
    BY <1>1
  <2> QED
    BY <2>1 DEF PngType, Byte
<1>5. x \in Nat
  BY <1>1, <1>3
<1>6. b \in Nat /\ offset + 3 <= b /\ b = offset + 3 + x
  BY <1>1, <1>3, <1>5
<1>7. file[b] = Crc32(SubSeq(file, offset + 2, b - 1))
  <2>1. offset + 1 + 1 = offset + 2 /\ PngDataEnd = b - 1
    <3>1. PngDataEnd = offset + 2 + x
      BY DEF PngDataEnd, PngData, Byte
    <3> QED
      BY <1>1, <1>5, <1>6, <3>1
  <2>2. Byte(PngDataEnd) = Crc32(Cut(offset + 1, PngDataEnd))
    BY <1>2 DEF ChecksumSound
  <2> QED
    BY <2>1, <2>2 DEF Byte, Cut
<1>8. Piece("png", file, offset, b)
  BY <1>2, <1>3, <1>4, <1>6, <1>7 DEF Piece, PngPiece
<1>9. /\ out' = out \o Slice(file, offset, b)
      /\ UNCHANGED <<file, dims>>
  BY <1>2 DEF Wrote, Cut, Slice
<1> QED
  BY <1>1, <1>2, <1>3, <1>4, <1>6, <1>8, <1>9

\* What PngCopy has written is a row; with IEND it is a clean file.
LEMMA PngCopyWrites ==
    ASSUME WalkInv, PngCopy, PngHead(file, dims), NEW c, NEW n,
           PngWritten(out, dims, offset, next, c, n)
    PROVE  \E d :
             /\ phase' = "strip" => PngWritten(out', dims', offset', next', d, n + 1)
             /\ phase' = "extract" =>
                  CleanPng(out', dims', d, n + 1) /\ Len(out') <= Len(file')
<1> DEFINE b == PngDataEnd + 1
           g == out \o Slice(file, offset, b)
           d == Longer(c, n, Len(g))
<1>1. /\ b \in Nat /\ offset + 3 <= b /\ b <= Len(file) /\ offset \in Nat
      /\ out' = g /\ Piece("png", file, offset, b)
      /\ next <= MaxSegments /\ next' = next + 1
      /\ file' = file /\ dims' = dims
      /\ IF file[offset + 2] = IEND
         THEN phase' = "extract" /\ offset' = offset
         ELSE phase' = "strip" /\ offset' = b
  BY PngChunk
<1>2. file \in Seq(Nat) /\ out \in Seq(Nat) /\ next \in Nat
  BY DEF WalkInv, MadeOfBytes
<1>2a. Len(file) \in Nat /\ Len(out) \in Nat
  BY <1>2, LenProperties
<1> HIDE DEF b
<1>3. offset < b /\ b - offset \in Nat \ {0} /\ offset + (b - offset) = b
  BY <1>1
<1>4. /\ g \in Seq(Nat) /\ Len(g) = Len(out) + (b - offset)
      /\ Copied(file, offset, g, Len(out), b - offset)
      /\ \A i \in 1..Len(out) : g[i] = out[i]
  BY <1>1, <1>2, <1>3, PartWritten
<1>6. /\ Row("png", out, 1, Len(out), c, n) /\ n <= MaxSegments /\ out[1] = PngSig
      /\ n < next /\ Len(out) <= offset
      /\ \A k \in 1..n : out[c[k] + 2] # IEND
      /\ IF n = 0 THEN offset = 1 ELSE PngHead(out, dims)
  BY DEF PngWritten, PngRow
<1>7. /\ Row("png", g, 1, Len(g), d, n + 1)
      /\ \A k \in 1..(n + 1) : d[k] = c[k]
  <2> HIDE DEF d
  <2>1. g = out \o Slice(file, offset, b)
    OBVIOUS
  <2> HIDE DEF g
  <2>2. Row("png", g, 1, Len(g), Longer(c, n, Len(g)), n + 1)
    BY <1>1, <1>2, <1>3, <1>6, <2>1, PieceWritten, Zenon
  <2>3. \A k \in 1..(n + 1) : Longer(c, n, Len(g))[k] = c[k]
    BY <1>6, LongerCuts DEF Row
  <2> QED
    BY <2>2, <2>3 DEF d
<1>8. /\ n \in Nat /\ c \in [1..(n + 1) -> Nat] /\ c[1] = 1 /\ c[n + 1] = Len(out)
      /\ \A k \in 1..n : c[k] < c[k + 1] /\ c[k + 1] <= Len(out)
                         /\ Piece("png", out, c[k], c[k + 1])
  BY <1>6 DEF Row
<1> HIDE DEF g, d
<1>9. g[1] = PngSig /\ Len(g) <= b
  <2>1. 1 \in 1..Len(out)
    <3>1. CASE n = 0
      BY <1>2a, <1>8, <3>1
    <3>2. CASE n # 0
      BY <1>2a, <1>6, <3>2 DEF PngHead
    <3> QED
      BY <3>1, <3>2
  <2> QED
    BY <1>1, <1>2a, <1>4, <1>6, <2>1
<1>10. PngHead(g, dims)
  <2>1. CASE n = 0
    <3>1. offset = 1 /\ Len(out) = 1
      BY <1>6, <1>8, <2>1
    <3>2. Len(g) = b
      BY <1>1, <1>4, <3>1
    <3>3. b >= 6
      <4>1. b = 1 + 3 + file[2]
        BY <1>1, <3>1 DEF Piece, PngPiece
      <4> QED
        BY <4>1 DEF PngHead, IhdrLength
    <3>4. \A j \in 1..4 : g[1 + j] = file[1 + j]
      <4>1. \A j \in 1..4 : j \in 1..(b - 1)
        BY <1>1, <3>3
      <4> QED
        BY <1>4, <3>1, <4>1 DEF Copied
    <3> QED
      BY <3>2, <3>3, <3>4 DEF PngHead
  <2>2. CASE n # 0
    <3>1. PngHead(out, dims)
      BY <1>6, <2>2
    <3>2. \A i \in 1..6 : g[i] = out[i]
      <4>1. \A i \in 1..6 : i \in 1..Len(out)
        BY <1>2a, <3>1 DEF PngHead
      <4> QED
        BY <1>4, <4>1
    <3>3. Len(g) >= 6
      BY <1>2a, <1>3, <1>4, <3>1 DEF PngHead
    <3> QED
      BY <3>1, <3>2, <3>3 DEF PngHead
  <2> QED
    BY <2>1, <2>2
<1>11. ASSUME NEW k \in 1..n PROVE g[d[k] + 2] # IEND
  <2>1. c[k] + 2 \in 1..Len(out)
    <3>1. c[k] \in Nat /\ c[k + 1] \in Nat
      BY <1>8
    <3>2. PngPiece(out, c[k], c[k + 1]) /\ c[k] < c[k + 1] /\ c[k + 1] <= Len(out)
      BY <1>8 DEF Piece
    <3> DEFINE a == c[k]
               e == c[k + 1]
               x == out[a + 1]
    <3>3. a + 1 \in 1..Len(out)
      <4> HIDE DEF a, e, x
      <4>1. a \in Nat /\ e \in Nat /\ a < e /\ e <= Len(out)
        BY <3>1, <3>2 DEF a, e
      <4> QED
        BY <1>2a, <4>1
    <3>4. x \in Nat
      BY <1>2, <3>3, ElementOf
    <3>5. a \in Nat /\ e = a + 3 + x /\ e <= Len(out)
      BY <3>1, <3>2 DEF PngPiece
    <3> HIDE DEF a, e, x
    <3>6. a + 2 \in 1..Len(out)
      BY <1>2a, <3>4, <3>5
    <3> QED
      BY <3>6 DEF a
  <2>2. g[c[k] + 2] = out[c[k] + 2]
    BY <1>4, <2>1
  <2>3. d[k] = c[k]
    BY <1>7, <1>8
  <2> QED
    BY <1>6, <2>2, <2>3
<1>12. g[d[n + 1] + 2] = file[offset + 2]
  <2>1. d[n + 1] = Len(out)
    BY <1>7, <1>8
  <2>2. 2 \in 1..(b - offset)
    BY <1>1
  <2> QED
    BY <1>4, <2>1, <2>2 DEF Copied
<1>13. n + 1 \in Nat /\ n + 1 <= MaxSegments /\ n + 1 < next' /\ n + 1 >= 1 /\ n + 1 # 0
  BY <1>1, <1>2, <1>6, <1>8, BoundsAssumption
<1>14. PngRow(g, d, n + 1)
  BY <1>7, <1>9, <1>13 DEF PngRow
<1>15. ASSUME phase' = "strip" PROVE PngWritten(g, dims, offset', next', d, n + 1)
  <2>1. offset' = b /\ file[offset + 2] # IEND
    BY <1>1, <1>15
  <2>2. \A k \in 1..(n + 1) : g[d[k] + 2] # IEND
    BY <1>8, <1>11, <1>12, <2>1
  <2> QED
    BY <1>1, <1>9, <1>10, <1>13, <1>14, <2>1, <2>2 DEF PngWritten
<1>16. ASSUME phase' = "extract" PROVE CleanPng(g, dims, d, n + 1) /\ Len(g) <= Len(file)
  <2>1. file[offset + 2] = IEND
    BY <1>1, <1>16
  <2>2. \A k \in 1..(n + 1) : g[d[k] + 2] = IEND <=> k = n + 1
    BY <1>8, <1>11, <1>12, <2>1
  <2>3. Len(g) <= Len(file)
    BY <1>1, <1>2a, <1>3, <1>4, <1>9
  <2> QED
    BY <1>10, <1>13, <1>14, <2>2, <2>3 DEF CleanPng
<1> QED
  BY <1>1, <1>15, <1>16

\* The signature alone is a row of no chunks.
LEMMA PngBegins ==
    ASSUME NEW d
    PROVE  \E c : PngWritten(<<PngSig>>, d, 1, 1, c, 0)
<1> DEFINE g == <<PngSig>>
           c == [k \in 1..1 |-> 1]
<1>1. Len(g) = 1 /\ g[1] = PngSig
  OBVIOUS
<1>2. 0 \in Nat /\ 0 + 1 = 1 /\ c \in [1..1 -> Nat] /\ c[1] = 1
  OBVIOUS
<1> HIDE DEF g, c
<1>3. Row("png", g, 1, Len(g), c, 0)
  BY <1>1, <1>2 DEF Row
<1>4. PngRow(g, c, 0)
  BY <1>1, <1>3, BoundsAssumption DEF PngRow
<1>5. PngWritten(g, d, 1, 1, c, 0)
  BY <1>1, <1>4 DEF PngWritten
<1> QED
  BY <1>5 DEF g

\* The part of f up to b.
Upto(f, b) == Slice(f, 0, b)

\* The beginning of a file and the stretch that follows it.
LEMMA UptoLonger ==
    ASSUME NEW f \in Seq(Nat), NEW a \in Nat, NEW b \in Nat, 0 < a, a < b, b <= Len(f)
    PROVE  Upto(f, a) \o Slice(f, a, b) = Upto(f, b)
<1> DEFINE g == Upto(f, a)
           h == g \o Slice(f, a, b)
           u == Upto(f, b)
           zero == 0
<1>1. zero \in Nat /\ zero < a /\ zero < b /\ a <= Len(f) /\ Len(f) \in Nat
  BY LenProperties
<1> HIDE DEF zero
<1>2. /\ Slice(f, zero, a) \in Seq(Nat) /\ Len(Slice(f, zero, a)) = a - zero
      /\ \A j \in 1..(a - zero) : Slice(f, zero, a)[j] = f[zero + j]
  BY <1>1, SliceOf, Zenon
<1>3. /\ Slice(f, zero, b) \in Seq(Nat) /\ Len(Slice(f, zero, b)) = b - zero
      /\ \A j \in 1..(b - zero) : Slice(f, zero, b)[j] = f[zero + j]
  BY <1>1, SliceOf, Zenon
<1>4. /\ g \in Seq(Nat) /\ Len(g) = a
      /\ \A j \in 1..a : g[j] = f[j]
  BY <1>2 DEF zero, Upto
<1>5. /\ u \in Seq(Nat) /\ Len(u) = b
      /\ \A j \in 1..b : u[j] = f[j]
  BY <1>3 DEF zero, Upto
<1> HIDE DEF g, u
<1>6. /\ h \in Seq(Nat) /\ Len(h) = Len(g) + (b - a)
      /\ Copied(f, a, h, Len(g), b - a)
      /\ \A i \in 1..Len(g) : h[i] = g[i]
  <2>1. g \o Slice(f, a, b) \in Seq(Nat) /\ Len(g \o Slice(f, a, b)) = Len(g) + (b - a)
    BY <1>4, PartWritten, Zenon
  <2>2. Copied(f, a, g \o Slice(f, a, b), Len(g), b - a)
    BY <1>4, PartWritten, Zenon
  <2>3. Slice(f, a, b) \in Seq(Nat)
    BY SliceOf, Zenon
  <2>4. \A i \in 1..Len(g) : (g \o Slice(f, a, b))[i] = g[i]
    BY <1>4, <2>3, StillThere
  <2> QED
    BY <2>1, <2>2, <2>4
<1> HIDE DEF h
<1>7. Len(h) = b
  BY <1>4, <1>6
<1>8. ASSUME NEW i \in 1..b PROVE h[i] = f[i]
  <2>1. CASE i <= a
    BY <1>4, <1>6, <2>1
  <2>2. CASE ~(i <= a)
    <3>1. i - a \in 1..(b - a) /\ a + (i - a) = i
      BY <2>2
    <3> QED
      BY <1>4, <1>6, <3>1 DEF Copied
  <2> QED
    BY <2>1, <2>2
<1>9. h = u
  BY <1>5, <1>6, <1>7, <1>8, SeqEqual
<1> QED
  BY <1>9 DEF h, g, u

\* The whole of a file.
LEMMA UptoAll ==
    ASSUME NEW f \in Seq(Nat), Len(f) > 0
    PROVE  Upto(f, Len(f)) = f
<1> DEFINE n == Len(f)
           u == Upto(f, n)
           zero == 0
<1>1. zero \in Nat /\ zero < n /\ n <= Len(f) /\ n \in Nat
  BY LenProperties
<1> HIDE DEF zero, n
<1>2. /\ Slice(f, zero, n) \in Seq(Nat) /\ Len(Slice(f, zero, n)) = n - zero
      /\ \A j \in 1..(n - zero) : Slice(f, zero, n)[j] = f[zero + j]
  BY <1>1, SliceOf, Zenon
<1>3. /\ u \in Seq(Nat) /\ Len(u) = n
      /\ \A j \in 1..n : u[j] = f[j]
  BY <1>1, <1>2 DEF zero, Upto
<1> HIDE DEF u
<1>4. u = f
  BY <1>3, SeqEqual DEF n
<1> QED
  BY <1>4 DEF u, n

-----------------------------------------------------------------------------
(* A clean PNG is copied chunk by chunk.                                   *)

\* Every piece lies in its file.
LEMMA PieceAt ==
    ASSUME NEW fmt, NEW f \in Seq(Nat), NEW from, NEW to \in Nat, NEW c, NEW n,
           Row(fmt, f, from, to, c, n), NEW k \in 1..n
    PROVE  /\ c[k] \in Nat /\ c[k + 1] \in Nat /\ k \in Nat /\ n \in Nat
           /\ c[k] < c[k + 1] /\ c[k + 1] <= to /\ c[k + 1] <= Len(f)
           /\ Piece(fmt, f, c[k], c[k + 1])
<1>1. /\ n \in Nat /\ c \in [1..(n + 1) -> Nat] /\ to <= Len(f)
      /\ c[k] < c[k + 1] /\ c[k + 1] <= to /\ Piece(fmt, f, c[k], c[k + 1])
  BY DEF Row
<1>2. k \in 1..(n + 1) /\ k + 1 \in 1..(n + 1) /\ k \in Nat
  BY <1>1
<1>3. c[k] \in Nat /\ c[k + 1] \in Nat /\ Len(f) \in Nat
  BY <1>1, <1>2, LenProperties
<1> QED
  BY <1>1, <1>2, <1>3

\* At a cut of a clean PNG no other step than PngCopy is possible.
LEMMA PngPieceIsCopied ==
    ASSUME WalkInv, phase = "strip", format = "png", next <= MaxSegments,
           NEW b \in Nat, offset < b, b <= Len(file), Piece("png", file, offset, b),
           PngStep
    PROVE  PngCopy /\ PngDataEnd + 1 = b
<1> DEFINE x == file[offset + 1]
<1>1. file \in Seq(Nat) /\ offset \in Nat /\ Len(file) \in Nat
  BY DEF WalkInv, MadeOfBytes
<1>2. /\ b = offset + 3 + x /\ x <= MaxChunkLength /\ file[offset + 2] \in PngKeptChunks
      /\ file[b] = Crc32(SubSeq(file, offset + 2, b - 1))
  BY DEF Piece, PngPiece
<1>3. x \in Nat
  BY <1>1
<1>4. PngDataEnd + 1 = b /\ PngDataEnd = b - 1
  <2> DEFINE y == PngDataEnd
  <2>1. y = offset + 2 + x
    BY DEF PngDataEnd, PngData, Byte
  <2> HIDE DEF x, y
  <2>2. y + 1 = b /\ y = b - 1
    BY <1>1, <1>2, <1>3, <2>1
  <2> QED
    BY <2>2 DEF y
<1>5. PngType = file[offset + 2] /\ offset + 1 + 1 = offset + 2
  <2>1. offset + 1 + 1 = offset + 2
    BY <1>1
  <2> QED
    BY <2>1 DEF PngType, Byte
<1>6. ChunkSound
  <2>1. Printable(offset + 1)
    BY <1>2, <1>5 DEF PngKeptChunks, Printable, Byte, Symbols, IHDR, IDAT, IEND
  <2>2. offset + 2 <= Len(file) /\ PngDataEnd + 1 <= Len(file)
    BY <1>1, <1>2, <1>3, <1>4
  <2> QED
    BY <1>2, <2>1, <2>2 DEF ChunkSound, Byte
<1>7. ChecksumSound
  BY <1>2, <1>4, <1>5 DEF ChecksumSound, Byte, Cut
<1>8. ~PngDimensions /\ ~PngMalformed /\ ~PngDrop /\ ~PngNoIend
  <2>1. ~PngDimensions
    BY DEF PngDimensions
  <2>2. ~PngMalformed
    BY <1>6, <1>7 DEF PngMalformed
  <2>3. ~PngDrop
    BY <1>2, <1>5 DEF PngDrop
  <2>4. ~PngNoIend
    BY <1>1 DEF PngNoIend
  <2> QED
    BY <2>1, <2>2, <2>3, <2>4
<1> QED
  BY <1>4, <1>8 DEF PngStep

\* The rebuild of a clean PNG at chunk k.
PngReread(f, d, g, at, k, c, n) ==
    /\ CleanPng(f, d, c, n)
    /\ k \in 1..n /\ at = c[k] /\ g = Upto(f, at)

\* The rebuild of a clean PNG copies it.
LEMMA PngIsCopied ==
    ASSUME WalkInv, phase = "strip", format = "png", PngStep,
           NEW d, NEW c, NEW n, PngReread(file, d, out, offset, next, c, n)
    PROVE  /\ UNCHANGED <<file, format, refusal, segments, dims, exif, removed>>
           /\ \/ phase' = "strip" /\ PngReread(file, d, out', offset', next', c, n)
              \/ phase' = "extract" /\ out' = file
<1> DEFINE b == c[next + 1]
<1>1. /\ Row("png", file, 1, Len(file), c, n) /\ n <= MaxSegments
      /\ \A k \in 1..n : file[c[k] + 2] = IEND <=> k = n
      /\ next \in 1..n /\ offset = c[next] /\ out = Upto(file, offset)
  BY DEF PngReread, CleanPng, PngRow
<1>2. file \in Seq(Nat) /\ offset \in Nat /\ Len(file) \in Nat
  BY DEF WalkInv, MadeOfBytes
<1>3. /\ b \in Nat /\ next \in Nat /\ n \in Nat
      /\ offset < b /\ b <= Len(file) /\ Piece("png", file, offset, b)
  BY <1>1, <1>2, PieceAt
<1>4. next <= MaxSegments
  BY <1>1, <1>3, BoundsAssumption
<1>5. PngCopy /\ PngDataEnd + 1 = b
  BY <1>2, <1>3, <1>4, PngPieceIsCopied
<1>6. /\ UNCHANGED <<file, format, refusal, segments, dims, exif, removed>>
      /\ out' = out \o Slice(file, offset, b)
      /\ next' = next + 1
      /\ IF file[offset + 2] = IEND
         THEN phase' = "extract" /\ offset' = offset
         ELSE phase' = "strip" /\ offset' = b
  <2>1. UNCHANGED <<file, format, refusal, segments, dims, exif, removed>>
    BY <1>5 DEF PngCopy, Wrote
  <2> QED
    BY <1>5, <2>1, PngChunk
<1>7. 0 < offset
  <2>1. c[1] = 1 /\ \A k \in 1..n : k # 1 => c[k] > 0
    <3>1. c[1] = 1
      BY <1>1 DEF Row
    <3>2. ASSUME NEW k \in 1..n, k # 1 PROVE c[k] > 0
      <4> DEFINE j == k - 1
      <4>1. j \in 1..n /\ j + 1 = k
        BY <1>3, <3>2
      <4> HIDE DEF j
      <4>2. c[j] \in Nat /\ c[j + 1] \in Nat /\ c[j] < c[j + 1]
        BY <1>1, <1>2, <4>1, PieceAt
      <4> QED
        BY <4>1, <4>2
    <3> QED
      BY <3>1, <3>2
  <2> QED
    BY <1>1, <1>2, <2>1
<1> HIDE DEF b
<1>8. out' = Upto(file, b)
  BY <1>1, <1>2, <1>3, <1>6, <1>7, UptoLonger
<1>9. CASE next = n
  <2>1. phase' = "extract"
    BY <1>1, <1>6, <1>9
  <2>2. b = Len(file)
    BY <1>1, <1>9 DEF Row, b
  <2>3. out' = file
    BY <1>2, <1>3, <1>7, <1>8, <2>2, UptoAll
  <2> QED
    BY <1>6, <2>1, <2>3
<1>10. CASE next # n
  <2>1. phase' = "strip" /\ offset' = b
    BY <1>1, <1>6, <1>10
  <2>2. next' \in 1..n /\ b = c[next']
    BY <1>1, <1>3, <1>6, <1>10 DEF b
  <2>3. CleanPng(file, d, c, n)
    BY DEF PngReread
  <2> QED
    BY <1>6, <1>8, <2>1, <2>2, <2>3 DEF PngReread
<1> QED
  BY <1>9, <1>10

-----------------------------------------------------------------------------
(* WebP: clearing the flags twice clears them once.                        *)

\* ClearedFlags of its own result.
LEMMA FlagsStayCleared ==
    ASSUME NEW flags \in Nat
    PROVE  ClearedFlags(ClearedFlags(flags)) = ClearedFlags(flags)
<1> DEFINE a == ClearFlag(flags, 8)
           b == ClearFlag(a, 4)
           c == ClearFlag(b, 32)
<1>1. a \in Nat /\ (a \div 8) % 2 = 0
  BY DEF ClearFlag
<1> HIDE DEF a
<1>2. b \in Nat /\ (b \div 8) % 2 = 0 /\ (b \div 4) % 2 = 0
  BY <1>1 DEF ClearFlag
<1> HIDE DEF b
<1>3. /\ c \in Nat /\ (c \div 8) % 2 = 0 /\ (c \div 4) % 2 = 0
      /\ (c \div 32) % 2 = 0
  BY <1>2 DEF ClearFlag
<1> HIDE DEF c
<1>4. ClearFlag(c, 8) = c /\ ClearFlag(c, 4) = c /\ ClearFlag(c, 32) = c
  BY <1>3 DEF ClearFlag
<1>5. ClearedFlags(flags) = c
  BY DEF ClearedFlags, FlagExif, FlagXmp, FlagIcc, a, b, c
<1>6. ClearedFlags(c) = c
  BY <1>4 DEF ClearedFlags, FlagExif, FlagXmp, FlagIcc
<1> QED
  BY <1>5, <1>6

-----------------------------------------------------------------------------
(* The chunks a walk found, and what their rebuilt bytes are.              *)

\* A chunk as readRiffChunks notes it.
ChunkAt(f, seg) ==
    /\ seg.start \in Nat /\ f[seg.start + 2] \in Nat /\ f[seg.start + 2] <= MaxRiffSize
    /\ seg.marker = f[seg.start + 1] /\ seg.payload = seg.start + 2
    /\ seg.end = seg.start + 2 + f[seg.start + 2] /\ seg.end <= Len(f)

\* Where the chunk after the k-th starts.
Edge(f, s, k) == IF k = 0 THEN 3 ELSE s[k].end + (f[s[k].start + 2] % 2)

WebpFound(f, s, at) ==
    /\ Len(f) >= 3 /\ Len(s) <= MaxSegments /\ at = Edge(f, s, Len(s))
    /\ \A i \in 1..Len(s) : ChunkAt(f, s[i]) /\ Edge(f, s, i - 1) <= s[i].start

RebuiltBytes(f, seg, p) ==
    LET size == f[seg.start + 2] IN
    /\ p \in Seq(Nat) /\ Len(p) = 2 + size + (size % 2)
    /\ \A j \in 1..(2 + size) :
         p[j] = IF j = 3 /\ seg.marker = VP8X THEN ClearedFlags(f[seg.start + 3])
                ELSE f[seg.start + j]
    /\ size % 2 = 1 => p[3 + size] = 0

\* A stretch from a place to itself.
LEMMA EmptySlice ==
    ASSUME NEW f, NEW a \in Nat
    PROVE  Slice(f, a, a) = <<>>
BY SubSeqEmpty DEF Slice

\* The bytes stripWebp writes for a chunk: its own, less the flags, padded.
LEMMA RebuiltIs ==
    ASSUME file \in Seq(Nat), NEW seg, ChunkAt(file, seg)
    PROVE  RebuiltBytes(file, seg, Rebuilt(seg) \o Pad(seg))
<1> DEFINE a == seg.start
           size == file[a + 2]
           body == Rebuilt(seg)
           pad == Pad(seg)
<1>1. /\ a \in Nat /\ size \in Nat /\ seg.payload = a + 2
      /\ seg.end = a + 2 + size /\ a + 2 + size <= Len(file) /\ Len(file) \in Nat
  BY LenProperties DEF ChunkAt
<1>2. Size(seg) = size
  BY <1>1 DEF Size
<1>3. /\ body \in Seq(Nat) /\ Len(body) = 2 + size
      /\ \A j \in 1..(2 + size) :
           body[j] = IF j = 3 /\ seg.marker = VP8X THEN ClearedFlags(file[a + 3])
                     ELSE file[a + j]
  <2> HIDE DEF a, size
  <2>1. CASE seg.marker = VP8X /\ size >= 1
    <3> DEFINE head == Slice(file, a, a + 2)
               flags == ClearedFlags(file[a + 3])
               tail == Slice(file, a + 3, a + 2 + size)
               first == head \o <<flags>>
    <3>1. body = first \o tail
      <4>1. a + 2 + 1 = a + 3
        BY <1>1
      <4> QED
        BY <1>1, <1>2, <2>1, <4>1 DEF Rebuilt, Cut, Slice, Byte, a, size
    <3>2. /\ head \in Seq(Nat) /\ Len(head) = 2
          /\ \A j \in 1..2 : head[j] = file[a + j]
      <4> DEFINE b == a + 2
      <4>1. b \in Nat /\ a < b /\ b <= Len(file) /\ b - a = 2
        BY <1>1
      <4> HIDE DEF b
      <4>2. /\ Slice(file, a, b) \in Seq(Nat) /\ Len(Slice(file, a, b)) = b - a
            /\ \A j \in 1..(b - a) : Slice(file, a, b)[j] = file[a + j]
        BY <1>1, <4>1, SliceOf, Zenon
      <4> QED
        BY <4>1, <4>2 DEF b
    <3>3. flags \in Nat
      <4>1. file[a + 3] \in Nat
        BY <1>1, <2>1
      <4> QED
        BY <4>1, FlagsStayBytes
    <3>4. /\ tail \in Seq(Nat) /\ Len(tail) = size - 1
          /\ \A j \in 1..(size - 1) : tail[j] = file[a + 3 + j]
      <4>1. CASE size = 1
        <5>1. a + 2 + size = a + 3 /\ a + 3 \in Nat
          BY <1>1, <4>1
        <5>2. tail = <<>>
          BY <5>1, EmptySlice
        <5> HIDE DEF tail
        <5> QED
          BY <4>1, <5>2
      <4>2. CASE size # 1
        <5> DEFINE b == a + 3
                   e == a + 2 + size
        <5>1. b \in Nat /\ e \in Nat /\ b < e /\ e <= Len(file) /\ e - b = size - 1
          BY <1>1, <2>1, <4>2
        <5> HIDE DEF b, e
        <5>2. /\ Slice(file, b, e) \in Seq(Nat) /\ Len(Slice(file, b, e)) = e - b
              /\ \A j \in 1..(e - b) : Slice(file, b, e)[j] = file[b + j]
          BY <5>1, SliceOf, Zenon
        <5> QED
          BY <5>1, <5>2 DEF b, e
      <4> QED
        BY <4>1, <4>2
    <3> HIDE DEF head, tail, flags
    <3>5. /\ <<flags>> \in Seq(Nat) /\ Len(<<flags>>) = 1 /\ <<flags>>[1] = flags
      BY <3>3
    <3>6. /\ first \in Seq(Nat) /\ Len(first) = 3
          /\ first[1] = file[a + 1] /\ first[2] = file[a + 2] /\ first[3] = flags
      <4> DEFINE one == <<flags>>
      <4>0. one \in Seq(Nat) /\ Len(one) = 1 /\ one[1] = flags
        BY <3>5
      <4> HIDE DEF one
      <4>1. /\ head \o one \in Seq(Nat) /\ Len(head \o one) = Len(head) + Len(one)
            /\ \A i \in 1..Len(head) : (head \o one)[i] = head[i]
            /\ \A j \in 1..Len(one) : (head \o one)[Len(head) + j] = one[j]
        BY <3>2, <4>0, StillThere, Zenon
      <4>2. /\ first \in Seq(Nat) /\ Len(first) = 2 + 1
            /\ \A i \in 1..2 : first[i] = head[i]
            /\ first[2 + 1] = flags
        <5>1. first = head \o one
          BY DEF one
        <5> HIDE DEF first
        <5> QED
          BY <3>2, <4>0, <4>1, <5>1
      <4> HIDE DEF first
      <4> QED
        BY <3>2, <4>2
    <3> HIDE DEF first, body
    <3>7. /\ body \in Seq(Nat) /\ Len(body) = 3 + (size - 1)
          /\ \A i \in 1..3 : body[i] = first[i]
          /\ \A j \in 1..(size - 1) : body[3 + j] = tail[j]
      <4>1. /\ first \o tail \in Seq(Nat) /\ Len(first \o tail) = Len(first) + Len(tail)
            /\ \A i \in 1..Len(first) : (first \o tail)[i] = first[i]
            /\ \A j \in 1..Len(tail) : (first \o tail)[Len(first) + j] = tail[j]
        BY <3>4, <3>6, StillThere, Zenon
      <4> QED
        BY <3>1, <3>4, <3>6, <4>1
    <3>8. ASSUME NEW j \in 1..(2 + size)
          PROVE  body[j] = IF j = 3 THEN flags ELSE file[a + j]
      <4>1. CASE j \in 1..3
        BY <3>6, <3>7, <4>1
      <4>2. CASE j \notin 1..3
        <5>1. j - 3 \in 1..(size - 1) /\ 3 + (j - 3) = j /\ a + 3 + (j - 3) = a + j
          BY <1>1, <4>2
        <5>2. body[3 + (j - 3)] = file[a + 3 + (j - 3)]
          BY <3>4, <3>7, <5>1
        <5> QED
          BY <4>2, <5>1, <5>2
      <4> QED
        BY <4>1, <4>2
    <3>9. 3 + (size - 1) = 2 + size
      BY <1>1
    <3> QED
      BY <2>1, <3>7, <3>8, <3>9 DEF flags
  <2>2. CASE ~(seg.marker = VP8X /\ size >= 1)
    <3> DEFINE e == a + 2 + size
    <3>1. e \in Nat /\ a < e /\ e <= Len(file) /\ e - a = 2 + size
      BY <1>1
    <3>2. body = Slice(file, a, e)
      BY <1>1, <1>2, <2>2 DEF Rebuilt, Cut, Slice, a, size
    <3> HIDE DEF e, body
    <3>3. /\ Slice(file, a, e) \in Seq(Nat) /\ Len(Slice(file, a, e)) = e - a
          /\ \A j \in 1..(e - a) : Slice(file, a, e)[j] = file[a + j]
      BY <1>1, <3>1, SliceOf, Zenon
    <3>4. \A j \in 1..(2 + size) : ~(j = 3 /\ seg.marker = VP8X)
      BY <1>1, <2>2
    <3> QED
      BY <3>1, <3>2, <3>3, <3>4
  <2> QED
    BY <2>1, <2>2
<1>4. /\ pad \in Seq(Nat) /\ Len(pad) = size % 2 /\ size % 2 \in 0..1
      /\ size % 2 = 1 => pad[1] = 0
  <2> HIDE DEF size
  <2>1. size % 2 \in 0..1
    BY <1>1
  <2>2. pad = IF size % 2 = 1 THEN <<0>> ELSE <<>>
    BY <1>2 DEF Pad
  <2> HIDE DEF pad
  <2>3. CASE size % 2 = 1
    <3>1. pad = <<0>>
      BY <2>2, <2>3
    <3> QED
      BY <2>3, <3>1
  <2>4. CASE size % 2 = 0
    <3>1. pad = <<>>
      BY <2>2, <2>4
    <3> QED
      BY <2>4, <3>1
  <2> QED
    BY <2>1, <2>3, <2>4
<1> DEFINE p == body \o pad
<1> HIDE DEF body, pad, size, a
<1>5. /\ p \in Seq(Nat) /\ Len(p) = 2 + size + (size % 2)
      /\ \A i \in 1..(2 + size) : p[i] = body[i]
      /\ \A j \in 1..(size % 2) : p[2 + size + j] = pad[j]
  BY <1>3, <1>4, StillThere
<1> HIDE DEF p
<1>6. size % 2 = 1 => p[3 + size] = 0
  <2>1. 2 + size + 1 = 3 + size
    BY <1>1
  <2> QED
    BY <1>4, <1>5, <2>1
<1>7. \A j \in 1..(2 + size) :
         p[j] = IF j = 3 /\ seg.marker = VP8X THEN ClearedFlags(file[a + 3])
                ELSE file[a + j]
  BY <1>3, <1>5
<1>8. RebuiltBytes(file, seg, p)
  BY <1>5, <1>6, <1>7 DEF RebuiltBytes, a, size
<1> QED
  BY <1>8 DEF p, body, pad

-----------------------------------------------------------------------------
(* The chunks that give the dimensions, in the file and in what is written *)
(* of it: the first of each kind shows the same in both.                   *)

\* The i-th of m chunks is the first of its kind.
Without(f, s, m, X) == \A i \in 1..m : f[s[i] + 1] # X

\* The chunks at a and at b have the same size and data, up to the flags.
Shown(f, a, g, b, X) ==
    /\ g[b + 2] = f[a + 2]
    /\ \A t \in 1..f[a + 2] : (X = VP8X /\ t = 1) \/ g[b + 2 + t] = f[a + 2 + t]

\* The first X of f and of g show the same, or neither has one.
Alike(f, s, m, g, c, n, X) ==
    \/ Without(f, s, m, X) /\ Without(g, c, n, X)
    \/ \E i \in 1..m, k \in 1..n :
         Leads(f, s, m, X, i) /\ Leads(g, c, n, X, k) /\ Shown(f, s[i], g, c[k], X)

\* A chunk that is not written changes none of the leaders.
LEMMA AlikeSkips ==
    ASSUME NEW f, NEW s, NEW m \in Nat, NEW g, NEW c, NEW n \in Nat, NEW X,
           Alike(f, s, m, g, c, n, X), f[s[m + 1] + 1] # X
    PROVE  Alike(f, s, m + 1, g, c, n, X)
<1>1. CASE Without(f, s, m, X) /\ Without(g, c, n, X)
  <2>1. Without(f, s, m + 1, X)
    BY <1>1 DEF Without
  <2> QED
    BY <1>1, <2>1 DEF Alike
<1>2. ASSUME NEW i \in 1..m, NEW k \in 1..n,
             Leads(f, s, m, X, i), Leads(g, c, n, X, k), Shown(f, s[i], g, c[k], X)
      PROVE  Alike(f, s, m + 1, g, c, n, X)
  <2>1. i \in 1..(m + 1) /\ Leads(f, s, m + 1, X, i)
    BY <1>2 DEF Leads
  <2> QED
    BY <1>2, <2>1 DEF Alike
<1> QED
  BY <1>1, <1>2 DEF Alike

\* A chunk of a row lies in its file with all its data.
LEMMA ChunkIn ==
    ASSUME NEW f \in Seq(Nat), NEW from, NEW to \in Nat, NEW c, NEW n,
           Row("webp", f, from, to, c, n), NEW k \in 1..n
    PROVE  /\ c[k] \in Nat /\ f[c[k] + 2] \in Nat
           /\ c[k] + 2 + f[c[k] + 2] <= Len(f)
           /\ c[k] + 1 \in 1..Len(f) /\ c[k] + 2 \in 1..Len(f)
           /\ \A t \in 1..f[c[k] + 2] : c[k] + 2 + t \in 1..Len(f)
<1> DEFINE a == c[k]
           b == c[k + 1]
           x == f[a + 2]
<1>1. a \in Nat /\ b \in Nat /\ b <= Len(f) /\ Piece("webp", f, a, b) /\ Len(f) \in Nat
  BY PieceAt, LenProperties
<1> HIDE DEF a, b
<1>2. a + 2 <= b /\ b = a + 2 + x + (x % 2)
  BY <1>1 DEF Piece, WebpPiece
<1>3. x \in Nat
  BY <1>1, <1>2
<1> DEFINE r == x % 2
<1>4. r \in Nat /\ b = a + 2 + x + r
  BY <1>2, <1>3
<1> HIDE DEF x, r
<1>5. a + 2 + x <= Len(f)
  <2>1. a \in Nat /\ b <= Len(f) /\ Len(f) \in Nat
    BY <1>1
  <2> QED
    BY <1>3, <1>4, <2>1
<1>6. /\ a + 1 \in 1..Len(f) /\ a + 2 \in 1..Len(f)
      /\ \A t \in 1..x : a + 2 + t \in 1..Len(f)
  BY <1>1, <1>3, <1>5
<1> QED
  BY <1>1, <1>3, <1>5, <1>6 DEF a, x

\* A chunk that is written leads in what is written if it does in the file.
LEMMA AlikeGrows ==
    ASSUME NEW f, NEW s, NEW m \in Nat, NEW g \in Seq(Nat), NEW c, NEW n \in Nat, NEW X,
           NEW from, Row("webp", g, from, Len(g), c, n),
           NEW h, \A i \in 1..Len(g) : h[i] = g[i],
           NEW d, \A k \in 1..n : d[k] = c[k],
           h[d[n + 1] + 1] = f[s[m + 1] + 1],
           f[s[m + 1] + 1] = X => Shown(f, s[m + 1], h, d[n + 1], X),
           Alike(f, s, m, g, c, n, X)
    PROVE  Alike(f, s, m + 1, h, d, n + 1, X)
<1>1. \A k \in 1..n : /\ h[d[k] + 1] = g[c[k] + 1] /\ h[d[k] + 2] = g[c[k] + 2]
                      /\ \A t \in 1..g[c[k] + 2] : h[d[k] + 2 + t] = g[c[k] + 2 + t]
  <2> SUFFICES ASSUME NEW k \in 1..n
               PROVE  /\ h[d[k] + 1] = g[c[k] + 1] /\ h[d[k] + 2] = g[c[k] + 2]
                      /\ \A t \in 1..g[c[k] + 2] : h[d[k] + 2 + t] = g[c[k] + 2 + t]
    OBVIOUS
  <2>1. Len(g) \in Nat
    BY LenProperties
  <2>2. /\ c[k] + 1 \in 1..Len(g) /\ c[k] + 2 \in 1..Len(g)
        /\ \A t \in 1..g[c[k] + 2] : c[k] + 2 + t \in 1..Len(g)
    BY <2>1, ChunkIn
  <2>3. d[k] = c[k]
    OBVIOUS
  <2>4. h[c[k] + 1] = g[c[k] + 1] /\ h[c[k] + 2] = g[c[k] + 2]
    BY <2>2
  <2>5. \A t \in 1..g[c[k] + 2] : h[c[k] + 2 + t] = g[c[k] + 2 + t]
    BY <2>2
  <2> QED
    BY <2>3, <2>4, <2>5
<1>2. CASE Without(f, s, m, X) /\ Without(g, c, n, X)
  <2>1. Without(h, d, n, X)
    BY <1>1, <1>2 DEF Without
  <2>2. CASE f[s[m + 1] + 1] = X
    <3>1. Leads(f, s, m + 1, X, m + 1)
      BY <1>2, <2>2 DEF Leads, Without
    <3>2. Leads(h, d, n + 1, X, n + 1)
      BY <2>1, <2>2 DEF Leads, Without
    <3>3. m + 1 \in 1..(m + 1) /\ n + 1 \in 1..(n + 1)
      OBVIOUS
    <3> QED
      BY <2>2, <3>1, <3>2, <3>3 DEF Alike
  <2>3. CASE f[s[m + 1] + 1] # X
    <3>1. Without(f, s, m + 1, X)
      BY <1>2, <2>3 DEF Without
    <3>2. Without(h, d, n + 1, X)
      BY <2>1, <2>3 DEF Without
    <3> QED
      BY <3>1, <3>2 DEF Alike
  <2> QED
    BY <2>2, <2>3
<1>3. ASSUME NEW i \in 1..m, NEW k \in 1..n,
             Leads(f, s, m, X, i), Leads(g, c, n, X, k), Shown(f, s[i], g, c[k], X)
      PROVE  Alike(f, s, m + 1, h, d, n + 1, X)
  <2>1. i \in 1..(m + 1) /\ Leads(f, s, m + 1, X, i)
    BY <1>3 DEF Leads
  <2>2. k \in 1..(n + 1) /\ Leads(h, d, n + 1, X, k)
    <3>1. k \in 1..(n + 1) /\ h[d[k] + 1] = X
      BY <1>1, <1>3 DEF Leads
    <3>2. ASSUME NEW j \in 1..(k - 1) PROVE h[d[j] + 1] # X
      <4>1. j \in 1..n
        OBVIOUS
      <4> QED
        BY <1>1, <1>3, <4>1 DEF Leads
    <3> QED
      BY <3>1, <3>2 DEF Leads
  <2>3. Shown(f, s[i], h, d[k], X)
    <3>1. h[d[k] + 2] = f[s[i] + 2] /\ g[c[k] + 2] = f[s[i] + 2]
      BY <1>1, <1>3 DEF Shown
    <3>2. ASSUME NEW t \in 1..f[s[i] + 2]
          PROVE  (X = VP8X /\ t = 1) \/ h[d[k] + 2 + t] = f[s[i] + 2 + t]
      BY <1>1, <1>3, <3>1 DEF Shown
    <3> QED
      BY <3>1, <3>2 DEF Shown
  <2> QED
    BY <2>1, <2>2, <2>3 DEF Alike
<1> QED
  BY <1>2, <1>3 DEF Alike

\* There is one first chunk of a kind.
LEMMA TheLeader ==
    ASSUME NEW f, NEW s, NEW m \in Nat, NEW X, NEW i, Leads(f, s, m, X, i)
    PROVE  (CHOOSE j \in 1..m : Leads(f, s, m, X, j)) = i
<1>1. i \in 1..m
  BY DEF Leads
<1>2. ASSUME NEW j \in 1..m, Leads(f, s, m, X, j) PROVE j = i
  <2>1. CASE j < i
    BY <1>1, <1>2, <2>1 DEF Leads
  <2>2. CASE i < j
    BY <1>1, <1>2, <2>2 DEF Leads
  <2> QED
    BY <1>1, <2>1, <2>2
<1> DEFINE P(j) == Leads(f, s, m, X, j)
<1>3. \E j \in 1..m : P(j)
  BY <1>1
<1>4. \A j \in 1..m : P(j) => j = i
  BY <1>2
<1> HIDE DEF P
<1>5. (CHOOSE j \in 1..m : P(j)) \in 1..m /\ P(CHOOSE j \in 1..m : P(j))
  BY <1>3
<1>6. (CHOOSE j \in 1..m : P(j)) = i
  BY <1>4, <1>5
<1> QED
  BY <1>6 DEF P

ReadAlike(f, s, m, g, c, n, X, size) ==
    /\ Wide(f, s, m, X, size) <=> Wide(g, c, n, X, size)
    /\ Wide(f, s, m, X, size) =>
         \A t \in 1..size : (X = VP8X /\ t = 1)
                            \/ Datum(f, s, m, X, t) = Datum(g, c, n, X, t)

\* Where the leaders are alike, the same is read from them.
LEMMA AlikeReads ==
    ASSUME NEW f, NEW s, NEW m \in Nat, NEW g, NEW c, NEW n \in Nat, NEW X,
           Alike(f, s, m, g, c, n, X),
           \A i \in 1..m : f[s[i] + 2] \in Nat, NEW size \in Nat
    PROVE  ReadAlike(f, s, m, g, c, n, X, size)
<1>1. CASE Without(f, s, m, X) /\ Without(g, c, n, X)
  <2>1. ~Wide(f, s, m, X, size) /\ ~Wide(g, c, n, X, size)
    BY <1>1 DEF Wide, Without, Leads
  <2> QED
    BY <2>1 DEF ReadAlike
<1>2. ASSUME NEW i \in 1..m, NEW k \in 1..n,
             Leads(f, s, m, X, i), Leads(g, c, n, X, k), Shown(f, s[i], g, c[k], X)
      PROVE  ReadAlike(f, s, m, g, c, n, X, size)
  <2>1. \A j \in 1..m : Leads(f, s, m, X, j) => j = i
    <3> SUFFICES ASSUME NEW j \in 1..m, Leads(f, s, m, X, j) PROVE j = i
      OBVIOUS
    <3>1. (CHOOSE q \in 1..m : Leads(f, s, m, X, q)) = i
      BY <1>2, TheLeader, Zenon
    <3>2. (CHOOSE q \in 1..m : Leads(f, s, m, X, q)) = j
      BY TheLeader, Zenon
    <3> QED
      BY <3>1, <3>2
  <2>2. \A j \in 1..n : Leads(g, c, n, X, j) => j = k
    <3> SUFFICES ASSUME NEW j \in 1..n, Leads(g, c, n, X, j) PROVE j = k
      OBVIOUS
    <3>1. (CHOOSE q \in 1..n : Leads(g, c, n, X, q)) = k
      BY <1>2, TheLeader, Zenon
    <3>2. (CHOOSE q \in 1..n : Leads(g, c, n, X, q)) = j
      BY TheLeader, Zenon
    <3> QED
      BY <3>1, <3>2
  <2>3. Wide(f, s, m, X, size) <=> f[s[i] + 2] >= size
    BY <1>2, <2>1 DEF Wide
  <2>4. Wide(g, c, n, X, size) <=> g[c[k] + 2] >= size
    BY <1>2, <2>2 DEF Wide
  <2>5. g[c[k] + 2] = f[s[i] + 2]
    BY <1>2 DEF Shown
  <2>6. ASSUME Wide(f, s, m, X, size), NEW t \in 1..size, ~(X = VP8X /\ t = 1)
        PROVE  Datum(f, s, m, X, t) = Datum(g, c, n, X, t)
    <3>1. Datum(f, s, m, X, t) = f[s[i] + 2 + t]
      <4>1. (CHOOSE q \in 1..m : Leads(f, s, m, X, q)) = i
        BY <1>2, TheLeader, Zenon
      <4> QED
        BY <4>1 DEF Datum
    <3>2. Datum(g, c, n, X, t) = g[c[k] + 2 + t]
      <4>1. (CHOOSE q \in 1..n : Leads(g, c, n, X, q)) = k
        BY <1>2, TheLeader, Zenon
      <4> QED
        BY <4>1 DEF Datum
    <3>3. t \in 1..f[s[i] + 2]
      BY <2>3, <2>6
    <3>4. g[c[k] + 2 + t] = f[s[i] + 2 + t]
      BY <1>2, <2>6, <3>3 DEF Shown
    <3> QED
      BY <3>1, <3>2, <3>4
  <2> QED
    BY <2>3, <2>4, <2>5, <2>6 DEF ReadAlike
<1> QED
  BY <1>1, <1>2 DEF Alike

AllAlike(f, s, m, g, c, n) ==
    /\ Alike(f, s, m, g, c, n, VP8X) /\ Alike(f, s, m, g, c, n, VP8)
    /\ Alike(f, s, m, g, c, n, VP8L)

\* So both have the same dimensions.
LEMMA AlikeMeasured ==
    ASSUME NEW f, NEW s, NEW m \in Nat, NEW g, NEW c, NEW n \in Nat,
           AllAlike(f, s, m, g, c, n), \A i \in 1..m : f[s[i] + 2] \in Nat
    PROVE  Measured(g, c, n) = Measured(f, s, m)
<1>1. /\ Wide(f, s, m, VP8X, Vp8xHeader) <=> Wide(g, c, n, VP8X, Vp8xHeader)
      /\ Wide(f, s, m, VP8X, Vp8xHeader) =>
           /\ Datum(f, s, m, VP8X, 3) = Datum(g, c, n, VP8X, 3)
           /\ Datum(f, s, m, VP8X, 4) = Datum(g, c, n, VP8X, 4)
  <2> DEFINE X == VP8X
             size == 4
  <2>0. size \in Nat /\ X = VP8X
    OBVIOUS
  <2> HIDE DEF X, size
  <2>1. Alike(f, s, m, g, c, n, X)
    BY <2>0 DEF AllAlike
  <2>2. ReadAlike(f, s, m, g, c, n, X, size)
    BY <2>0, <2>1, AlikeReads, Zenon
  <2> QED
    BY <2>2 DEF ReadAlike, X, size, Vp8xHeader
<1>2. /\ Wide(f, s, m, VP8, Vp8Header) <=> Wide(g, c, n, VP8, Vp8Header)
      /\ Wide(f, s, m, VP8, Vp8Header) =>
           /\ Datum(f, s, m, VP8, 2) = Datum(g, c, n, VP8, 2)
           /\ Datum(f, s, m, VP8, 3) = Datum(g, c, n, VP8, 3)
           /\ Datum(f, s, m, VP8, 4) = Datum(g, c, n, VP8, 4)
  <2> DEFINE X == VP8
             size == 4
  <2>0. size \in Nat /\ X = VP8
    OBVIOUS
  <2> HIDE DEF X, size
  <2>1. Alike(f, s, m, g, c, n, X)
    BY <2>0 DEF AllAlike
  <2>2. ReadAlike(f, s, m, g, c, n, X, size)
    BY <2>0, <2>1, AlikeReads, Zenon
  <2> QED
    BY <2>2 DEF ReadAlike, X, size, Vp8Header, VP8, VP8X
<1>3. /\ Wide(f, s, m, VP8L, Vp8lHeader) <=> Wide(g, c, n, VP8L, Vp8lHeader)
      /\ Wide(f, s, m, VP8L, Vp8lHeader) =>
           /\ Datum(f, s, m, VP8L, 1) = Datum(g, c, n, VP8L, 1)
           /\ Datum(f, s, m, VP8L, 2) = Datum(g, c, n, VP8L, 2)
           /\ Datum(f, s, m, VP8L, 3) = Datum(g, c, n, VP8L, 3)
  <2> DEFINE X == VP8L
             size == 3
  <2>0. size \in Nat /\ X = VP8L
    OBVIOUS
  <2> HIDE DEF X, size
  <2>1. Alike(f, s, m, g, c, n, X)
    BY <2>0 DEF AllAlike
  <2>2. ReadAlike(f, s, m, g, c, n, X, size)
    BY <2>0, <2>1, AlikeReads, Zenon
  <2> QED
    BY <2>2 DEF ReadAlike, X, size, Vp8lHeader, VP8L, VP8X
<1> QED
  BY <1>1, <1>2, <1>3 DEF Measured

\* Measured is what the code computes from the chunks it found.
LEMMA MeasuredInFile ==
    ASSUME file \in Seq(Nat), Len(segments) \in Nat,
           \A i \in 1..Len(segments) : ChunkAt(file, segments[i]),
           NEW s, \A i \in 1..Len(segments) : s[i] = segments[i].start
    PROVE  WebpDimensions = Measured(file, s, Len(segments))
<1> DEFINE m == Len(segments)
<1>1. ASSUME NEW X PROVE First(X) = {i \in 1..m : Leads(file, s, m, X, i)}
  <2>1. \A i \in 1..m : segments[i].marker = file[s[i] + 1]
    BY DEF ChunkAt
  <2>2. \A i \in 1..m : \A j \in 1..(i - 1) : j \in 1..m
    OBVIOUS
  <2> QED
    BY <2>1, <2>2 DEF First, Leads
<1>2. ASSUME NEW X, NEW size PROVE BigEnough(X, size) <=> Wide(file, s, m, X, size)
  <2>1. \A i \in 1..m : Size(segments[i]) = file[s[i] + 2]
    BY DEF ChunkAt, Size
  <2>2. \A i \in First(X) : Leads(file, s, m, X, i) /\ i \in 1..m
    BY <1>1
  <2>3. \A i \in 1..m : Leads(file, s, m, X, i) => i \in First(X)
    BY <1>1
  <2> QED
    BY <2>1, <2>2, <2>3 DEF BigEnough, Wide
<1>3. ASSUME NEW X, NEW size, Wide(file, s, m, X, size)
      PROVE  /\ DataOf(X) \in Nat
             /\ \A t \in 0..9 : Byte(DataOf(X) + t) = Datum(file, s, m, X, t + 1)
  <2>1. PICK i \in 1..m : Leads(file, s, m, X, i)
    BY <1>3 DEF Wide
  <2>2. (CHOOSE j \in 1..m : Leads(file, s, m, X, j)) = i
    BY <2>1, TheLeader, Zenon
  <2>3. First(X) = {i}
    <3>1. \A j \in 1..m : Leads(file, s, m, X, j) => j = i
      <4> SUFFICES ASSUME NEW j \in 1..m, Leads(file, s, m, X, j) PROVE j = i
        OBVIOUS
      <4>1. (CHOOSE q \in 1..m : Leads(file, s, m, X, q)) = j
        BY TheLeader, Zenon
      <4> QED
        BY <2>2, <4>1
    <3> QED
      BY <1>1, <2>1, <3>1
  <2>4. DataOf(X) = segments[i].payload
    BY <2>3 DEF DataOf
  <2>5. DataOf(X) = s[i] + 2 /\ s[i] \in Nat
    BY <2>4 DEF ChunkAt
  <2>6. \A t \in 0..9 : DataOf(X) + t + 1 = s[i] + 2 + (t + 1)
    BY <2>5
  <2>7. ASSUME NEW t \in 0..9 PROVE Byte(DataOf(X) + t) = Datum(file, s, m, X, t + 1)
    <3>1. Byte(DataOf(X) + t) = file[s[i] + 2 + (t + 1)]
      BY <2>6 DEF Byte
    <3> QED
      BY <2>2, <3>1 DEF Datum
  <2>8. DataOf(X) \in Nat
    BY <2>5
  <2> QED
    BY <2>7, <2>8, Zenon
<1> HIDE DEF m
<1>4. CASE Wide(file, s, m, VP8X, Vp8xHeader)
  <2>1. DataOf(VP8X) \in Nat /\ Byte(DataOf(VP8X) + 2) = Datum(file, s, m, VP8X, 3)
                   /\ Byte(DataOf(VP8X) + 3) = Datum(file, s, m, VP8X, 4)
    BY <1>3, <1>4
  <2>2. BigEnough(VP8X, Vp8xHeader)
    BY <1>2, <1>4
  <2> QED
    BY <1>4, <2>1, <2>2 DEF WebpDimensions, Measured, m
<1>5. CASE ~Wide(file, s, m, VP8X, Vp8xHeader) /\ Wide(file, s, m, VP8, Vp8Header)
  <2>1. /\ Byte(DataOf(VP8) + 1) = Datum(file, s, m, VP8, 2)
        /\ Byte(DataOf(VP8) + 2) = Datum(file, s, m, VP8, 3)
        /\ Byte(DataOf(VP8) + 3) = Datum(file, s, m, VP8, 4)
    BY <1>3, <1>5
  <2>2. ~BigEnough(VP8X, Vp8xHeader) /\ BigEnough(VP8, Vp8Header)
    BY <1>2, <1>5
  <2> QED
    BY <1>5, <2>1, <2>2 DEF WebpDimensions, Measured, m
<1>6. CASE ~Wide(file, s, m, VP8X, Vp8xHeader) /\ ~Wide(file, s, m, VP8, Vp8Header)
  <2>1. ~BigEnough(VP8X, Vp8xHeader) /\ ~BigEnough(VP8, Vp8Header)
    BY <1>2, <1>6
  <2>2. CASE Wide(file, s, m, VP8L, Vp8lHeader)
    <3>1. /\ Byte(DataOf(VP8L)) = Datum(file, s, m, VP8L, 1)
          /\ Byte(DataOf(VP8L) + 1) = Datum(file, s, m, VP8L, 2)
          /\ Byte(DataOf(VP8L) + 2) = Datum(file, s, m, VP8L, 3)
      <4>1. DataOf(VP8L) \in Nat
            /\ \A t \in 0..9 : Byte(DataOf(VP8L) + t) = Datum(file, s, m, VP8L, t + 1)
        BY <1>3, <2>2
      <4>2. DataOf(VP8L) + 0 = DataOf(VP8L)
        BY <4>1
      <4> QED
        BY <4>1, <4>2
    <3>2. BigEnough(VP8L, Vp8lHeader)
      BY <1>2, <2>2
    <3> QED
      BY <1>6, <2>1, <2>2, <3>1, <3>2 DEF WebpDimensions, Measured, m
  <2>3. CASE ~Wide(file, s, m, VP8L, Vp8lHeader)
    <3>1. ~BigEnough(VP8L, Vp8lHeader)
      BY <1>2, <2>3
    <3> QED
      BY <1>6, <2>1, <2>3, <3>1 DEF WebpDimensions, Measured, m
  <2> QED
    BY <2>2, <2>3
<1> QED
  BY <1>4, <1>5, <1>6

Begins(s) == [i \in 1..Len(s) |-> s[i].start]

WrittenBehind(f, seg, g, p) ==
    /\ p \in Seq(Nat) /\ Len(p) > 0
    /\ Len(p) = 2 + f[seg.start + 2] + (f[seg.start + 2] % 2)
    /\ g \o p \in Seq(Nat) /\ Len(g \o p) = Len(g) + Len(p)
    /\ \A i \in 1..Len(g) : (g \o p)[i] = g[i]
    /\ Piece("webp", g \o p, Len(g), Len(g) + Len(p))
    /\ (g \o p)[Len(g) + 1] = f[seg.start + 1]
    /\ \A X : f[seg.start + 1] = X => Shown(f, seg.start, g \o p, Len(g), X)

\* A rebuilt chunk says of itself that it is kept, and shows what the chunk
\* in the file shows.
LEMMA ChunkWritten ==
    ASSUME NEW f \in Seq(Nat), NEW g \in Seq(Nat), NEW seg, ChunkAt(f, seg),
           seg.marker \in WebpKeptChunks, NEW p, RebuiltBytes(f, seg, p)
    PROVE  WrittenBehind(f, seg, g, p)
<1> DEFINE a == seg.start
           x == f[a + 2]
           r == x % 2
           e == Len(g)
           h == g \o p
<1>1. /\ a \in Nat /\ x \in Nat /\ x <= MaxRiffSize /\ seg.marker = f[a + 1]
      /\ a + 2 + x <= Len(f) /\ Len(f) \in Nat /\ e \in Nat
  BY LenProperties DEF ChunkAt
<1>2. /\ p \in Seq(Nat) /\ Len(p) = 2 + x + r
      /\ \A j \in 1..(2 + x) :
           p[j] = IF j = 3 /\ seg.marker = VP8X THEN ClearedFlags(f[a + 3])
                  ELSE f[a + j]
      /\ r = 1 => p[3 + x] = 0
  BY DEF RebuiltBytes
<1>3. r \in 0..1
  <2> HIDE DEF x
  <2> QED
    BY <1>1
<1>4. /\ h \in Seq(Nat) /\ Len(h) = e + Len(p)
      /\ \A i \in 1..e : h[i] = g[i]
      /\ \A j \in 1..Len(p) : h[e + j] = p[j]
  BY <1>2, StillThere
<1> HIDE DEF a, x, r, e, h
<1>5. Len(p) \in Nat /\ Len(p) > 0 /\ 1 \in 1..Len(p) /\ 2 \in 1..Len(p)
      /\ 1 \in 1..(2 + x) /\ 2 \in 1..(2 + x)
  BY <1>1, <1>2, <1>3
<1>6. h[e + 1] = f[a + 1] /\ h[e + 2] = x
  <2>1. p[1] = f[a + 1] /\ p[2] = f[a + 2]
    BY <1>2, <1>5
  <2> QED
    BY <1>4, <1>5, <2>1 DEF x
<1>7. ASSUME NEW t \in 1..x
      PROVE  h[e + 2 + t] = IF t = 1 /\ seg.marker = VP8X THEN ClearedFlags(f[a + 3])
                            ELSE f[a + 2 + t]
  <2> DEFINE j == 2 + t
  <2>1. j \in 1..(2 + x) /\ j \in 1..Len(p) /\ (j = 3 <=> t = 1)
    BY <1>1, <1>2, <1>3
  <2>2. e + j = e + 2 + t /\ a + j = a + 2 + t
    BY <1>1
  <2>3. h[e + j] = p[j]
    BY <1>4, <2>1
  <2>4. p[j] = IF j = 3 /\ seg.marker = VP8X THEN ClearedFlags(f[a + 3]) ELSE f[a + j]
    BY <1>2, <2>1
  <2> QED
    BY <2>1, <2>2, <2>3, <2>4
<1>8. r = 1 => h[e + Len(p)] = 0
  <2>1. r = 1 => Len(p) \in 1..Len(p) /\ Len(p) = 3 + x
    BY <1>1, <1>2, <1>5
  <2> QED
    BY <1>2, <1>4, <2>1
<1>9. h[e + 1] = VP8X /\ x >= 1 => ClearedFlags(h[e + 3]) = h[e + 3]
  <2> SUFFICES ASSUME h[e + 1] = VP8X, x >= 1
               PROVE  ClearedFlags(h[e + 3]) = h[e + 3]
    OBVIOUS
  <2>1. 1 \in 1..x /\ e + 2 + 1 = e + 3 /\ a + 3 \in 1..Len(f)
    BY <1>1
  <2>2. h[e + 3] = ClearedFlags(f[a + 3]) /\ f[a + 3] \in Nat
    <3>1. h[e + 2 + 1] = IF 1 = 1 /\ seg.marker = VP8X THEN ClearedFlags(f[a + 3])
                         ELSE f[a + 2 + 1]
      BY <1>7, <2>1
    <3>2. seg.marker = VP8X
      BY <1>1, <1>6
    <3> QED
      BY <2>1, <3>1, <3>2
  <2> QED
    BY <2>2, FlagsStayCleared
<1>10. Piece("webp", h, e, e + Len(p))
  <2>1. e + 2 <= e + Len(p) /\ e + Len(p) = e + 2 + x + r
    BY <1>1, <1>2, <1>3
  <2> QED
    BY <1>1, <1>6, <1>8, <1>9, <2>1 DEF Piece, WebpPiece, r
<1>11. ASSUME NEW X, f[a + 1] = X PROVE Shown(f, a, h, e, X)
  <2>1. \A t \in 1..x : (X = VP8X /\ t = 1) \/ h[e + 2 + t] = f[a + 2 + t]
    BY <1>1, <1>7, <1>11
  <2> QED
    BY <1>6, <2>1 DEF Shown, x
<1> QED
  BY <1>2, <1>4, <1>5, <1>6, <1>10, <1>11 DEF WrittenBehind, a, x, r, e, h

\* The rebuild at chunk k, with g written so far.
WebpWritten(g, f, s, k, c, n) ==
    /\ Row("webp", g, 0, Len(g), c, n)
    /\ n < k /\ k \in 1..(Len(s) + 1)
    /\ Len(g) + 3 <= Edge(f, s, k - 1)
    /\ AllAlike(f, Begins(s), k - 1, g, c, n)

\* The place behind a chunk.
LEMMA EdgeInside ==
    ASSUME NEW f, NEW s, Len(s) \in Nat, NEW at, WebpFound(f, s, at),
           NEW k \in 0..Len(s)
    PROVE  Edge(f, s, k) \in Nat
<1>1. CASE k = 0
  BY <1>1 DEF Edge
<1>2. CASE k # 0
  <2> DEFINE x == f[s[k].start + 2]
  <2>1. k \in 1..Len(s)
    BY <1>2
  <2>2. ChunkAt(f, s[k])
    BY <2>1 DEF WebpFound
  <2>3. s[k].start \in Nat /\ x \in Nat /\ s[k].end = s[k].start + 2 + x
    BY <2>2 DEF ChunkAt
  <2>4. Edge(f, s, k) = s[k].start + 2 + x + (x % 2)
    BY <1>2, <2>3 DEF Edge
  <2> HIDE DEF x
  <2>5. x % 2 \in Nat
    BY <2>3
  <2> QED
    BY <2>3, <2>4, <2>5
<1> QED
  BY <1>1, <1>2

\* Nothing written is a row of no chunks.
LEMMA WebpBegins ==
    ASSUME NEW f, NEW s, Len(s) \in Nat
    PROVE  \E c : WebpWritten(<<>>, f, s, 1, c, 0)
<1> DEFINE g == <<>>
           c == [k \in 1..1 |-> 0]
<1>1. Len(g) = 0 /\ 0 + 1 = 1 /\ c \in [1..1 -> Nat] /\ c[1] = 0
  OBVIOUS
<1> HIDE DEF g, c
<1>2. Row("webp", g, 0, Len(g), c, 0)
  BY <1>1 DEF Row
<1>3. \A X : Alike(f, Begins(s), 0, g, c, 0, X)
  BY DEF Alike, Without
<1>4. AllAlike(f, Begins(s), 1 - 1, g, c, 0)
  BY <1>3 DEF AllAlike
<1>5. Len(g) + 3 <= Edge(f, s, 1 - 1) /\ 1 \in 1..(Len(s) + 1)
  BY <1>1 DEF Edge
<1>6. WebpWritten(g, f, s, 1, c, 0)
  BY <1>2, <1>4, <1>5 DEF WebpWritten
<1> QED
  BY <1>6 DEF g

\* What WebpCopy has written is a row, alike what was read so far.
LEMMA WebpCopyWrites ==
    ASSUME WalkInv, WebpFound(file, segments, offset), WebpCopy, NEW c, NEW n,
           WebpWritten(out, file, segments, next, c, n)
    PROVE  \E d : WebpWritten(out', file, segments, next', d, n + 1)
<1> DEFINE seg == segments[next]
           p == Rebuilt(seg) \o Pad(seg)
           h == out \o p
           d == Longer(c, n, Len(h))
           s == Begins(segments)
           a == seg.start
           x == file[a + 2]
<1>1. /\ file \in Seq(Nat) /\ out \in Seq(Nat) /\ next \in Nat \ {0}
      /\ segments \in Seq(Parts) /\ Len(out) \in Nat /\ Len(segments) \in Nat
  BY LenProperties DEF WalkInv, MadeOfBytes, PartsTyped
<1>2. /\ next <= Len(segments) /\ seg.marker \in WebpKeptChunks
      /\ out' = h /\ next' = next + 1
  BY DEF WebpCopy, WebpStripping, Wrote
<1>3. next \in 1..Len(segments)
  BY <1>1, <1>2
<1>4. ChunkAt(file, seg) /\ Edge(file, segments, next - 1) <= a
  BY <1>3 DEF WebpFound
<1>5. RebuiltBytes(file, seg, p)
  BY <1>1, <1>4, RebuiltIs
<1>6. /\ Row("webp", out, 0, Len(out), c, n) /\ n < next
      /\ Len(out) + 3 <= Edge(file, segments, next - 1)
      /\ AllAlike(file, s, next - 1, out, c, n)
  BY DEF WebpWritten
<1>7. n \in Nat
  BY <1>6 DEF Row
<1> HIDE DEF p
<1>8. /\ p \in Seq(Nat) /\ Len(p) > 0 /\ Len(p) = 2 + x + (x % 2)
      /\ Len(h) = Len(out) + Len(p)
      /\ \A i \in 1..Len(out) : h[i] = out[i]
      /\ Piece("webp", out \o p, Len(out), Len(out) + Len(p))
      /\ h[Len(out) + 1] = file[a + 1]
      /\ \A X : file[a + 1] = X => Shown(file, a, h, Len(out), X)
  <2>1. WrittenBehind(file, seg, out, p)
    BY <1>1, <1>2, <1>4, <1>5, ChunkWritten, Zenon
  <2> QED
    BY <2>1, Zenon DEF WrittenBehind
<1>9. Row("webp", h, 0, Len(h), d, n + 1)
  <2>1. Row("webp", out \o p, 0, Len(out \o p), Longer(c, n, Len(out \o p)), n + 1)
    BY <1>1, <1>6, <1>8, RowGrows, Zenon
  <2> QED
    BY <2>1
<1>10. \A k \in 1..(n + 1) : d[k] = c[k]
  <2> DEFINE e == Len(h)
  <2> HIDE DEF e
  <2>1. \A k \in 1..(n + 1) : Longer(c, n, e)[k] = c[k]
    BY <1>7, LongerCuts
  <2> QED
    BY <2>1 DEF e
<1>11. d[n + 1] = Len(out) /\ \A k \in 1..n : d[k] = c[k]
  <2>1. c[n + 1] = Len(out)
    BY <1>6 DEF Row
  <2> HIDE DEF d
  <2> QED
    BY <1>7, <1>10, <2>1
<1> HIDE DEF h, d
<1>12. s[next] = a
  BY <1>3 DEF Begins
<1> DEFINE m == next - 1
<1>13. m \in Nat /\ m + 1 = next /\ next - 1 = m /\ next' - 1 = next
  BY <1>1, <1>2
<1> HIDE DEF m, s, a
<1>14. ASSUME NEW X, Alike(file, s, m, out, c, n, X)
       PROVE  Alike(file, s, m + 1, h, d, n + 1, X)
  <2>1. h[d[n + 1] + 1] = file[s[m + 1] + 1]
    BY <1>8, <1>11, <1>12, <1>13
  <2>2. file[s[m + 1] + 1] = X => Shown(file, s[m + 1], h, d[n + 1], X)
    BY <1>8, <1>11, <1>12, <1>13
  <2> DEFINE zero == 0
  <2>3. Row("webp", out, zero, Len(out), c, n)
    BY <1>6
  <2> HIDE DEF zero
  <2> QED
    BY <1>1, <1>7, <1>8, <1>11, <1>13, <1>14, <2>1, <2>2, <2>3, AlikeGrows
<1>15. AllAlike(file, s, next' - 1, h, d, n + 1)
  BY <1>6, <1>13, <1>14 DEF AllAlike
<1>16. Len(h) + 3 <= Edge(file, segments, next' - 1)
  <2>1. Edge(file, segments, next) = a + 2 + x + (x % 2)
    BY <1>1, <1>4 DEF Edge, ChunkAt, a
  <2>2. a \in Nat /\ x \in Nat
    BY <1>4 DEF ChunkAt, a
  <2>3. x % 2 \in Nat
    <3> HIDE DEF x
    <3> QED
      BY <2>2
  <2> DEFINE u == Edge(file, segments, next - 1)
             r == x % 2
  <2> HIDE DEF x, r
  <2>4. Len(out) + 3 <= u /\ u <= a /\ Len(h) = Len(out) + (2 + x + r)
    BY <1>4, <1>6, <1>8 DEF a, r
  <2>5. u \in Nat
    <3> DEFINE k == next - 1
    <3>1. k \in 0..Len(segments)
      BY <1>1, <1>2
    <3> HIDE DEF k
    <3>2. Edge(file, segments, k) \in Nat
      BY <1>1, <3>1, EdgeInside
    <3> QED
      BY <3>2 DEF k, u
  <2> HIDE DEF u
  <2>6. Len(h) + 3 <= a + 2 + x + r
    BY <1>1, <2>2, <2>3, <2>4, <2>5 DEF r
  <2> QED
    BY <1>13, <2>1, <2>6 DEF r
<1>17. n + 1 < next' /\ next' \in 1..(Len(segments) + 1)
  BY <1>1, <1>2, <1>6, <1>7
<1> QED
  BY <1>2, <1>9, <1>15, <1>16, <1>17 DEF WebpWritten, s

\* A chunk left out leaves that so.
LEMMA WebpDropWrites ==
    ASSUME WalkInv, WebpFound(file, segments, offset), WebpDrop, NEW c, NEW n,
           WebpWritten(out, file, segments, next, c, n)
    PROVE  WebpWritten(out', file, segments, next', c, n)
<1> DEFINE seg == segments[next]
           s == Begins(segments)
           a == seg.start
           x == file[a + 2]
<1>1. /\ file \in Seq(Nat) /\ out \in Seq(Nat) /\ next \in Nat \ {0}
      /\ segments \in Seq(Parts) /\ Len(out) \in Nat /\ Len(segments) \in Nat
  BY LenProperties DEF WalkInv, MadeOfBytes, PartsTyped
<1>2. /\ next <= Len(segments) /\ seg.marker \notin WebpKeptChunks
      /\ out' = out /\ next' = next + 1
  BY DEF WebpDrop, WebpStripping, LeftOut
<1>3. next \in 1..Len(segments)
  BY <1>1, <1>2
<1>4. ChunkAt(file, seg) /\ Edge(file, segments, next - 1) <= a
  BY <1>3 DEF WebpFound
<1>6. /\ Row("webp", out, 0, Len(out), c, n) /\ n < next
      /\ Len(out) + 3 <= Edge(file, segments, next - 1)
      /\ AllAlike(file, s, next - 1, out, c, n)
  BY DEF WebpWritten
<1>7. n \in Nat
  BY <1>6 DEF Row
<1>12. s[next] = a /\ seg.marker = file[a + 1]
  BY <1>3, <1>4 DEF Begins, ChunkAt
<1> DEFINE m == next - 1
<1>13. m \in Nat /\ m + 1 = next /\ next - 1 = m /\ next' - 1 = next
  BY <1>1, <1>2
<1>14. \A X \in {VP8X, VP8, VP8L} : file[s[m + 1] + 1] # X
  BY <1>2, <1>12, <1>13 DEF WebpKeptChunks
<1> HIDE DEF m, s
<1>15. AllAlike(file, s, next' - 1, out, c, n)
  <2>1. ASSUME NEW X \in {VP8X, VP8, VP8L}, Alike(file, s, m, out, c, n, X)
        PROVE  Alike(file, s, m + 1, out, c, n, X)
    BY <1>7, <1>13, <1>14, <2>1, AlikeSkips
  <2> QED
    BY <1>6, <1>13, <2>1 DEF AllAlike
<1>16. Len(out) + 3 <= Edge(file, segments, next' - 1)
  <2>1. Edge(file, segments, next) = a + 2 + x + (x % 2)
    BY <1>1, <1>4 DEF Edge, ChunkAt, a
  <2>2. a \in Nat /\ x \in Nat
    BY <1>4 DEF ChunkAt, a
  <2>3. x % 2 \in Nat
    <3> HIDE DEF x
    <3> QED
      BY <2>2
  <2> DEFINE u == Edge(file, segments, next - 1)
             r == x % 2
  <2> HIDE DEF x, r
  <2>4. Len(out) + 3 <= u /\ u <= a
    BY <1>4, <1>6 DEF a, r
  <2>5. u \in Nat
    <3> DEFINE k == next - 1
    <3>1. k \in 0..Len(segments)
      BY <1>1, <1>2
    <3> HIDE DEF k
    <3>2. Edge(file, segments, k) \in Nat
      BY <1>1, <3>1, EdgeInside
    <3> QED
      BY <3>2 DEF k, u
  <2> HIDE DEF u, a
  <2>6. Len(out) + 3 <= a + 2 + x + r
    BY <1>1, <2>2, <2>3, <2>4, <2>5 DEF r
  <2> QED
    BY <1>13, <2>1, <2>6 DEF r
<1>17. n < next' /\ next' \in 1..(Len(segments) + 1)
  BY <1>1, <1>2, <1>6, <1>7
<1> QED
  BY <1>2, <1>6, <1>15, <1>16, <1>17 DEF WebpWritten, s

\* What a turn of readRiffChunks adds to what was found.
LEMMA WebpChunkFound ==
    ASSUME WalkInv, WebpFound(file, segments, offset), WebpChunk
    PROVE  WebpFound(file, segments', offset')
<1> DEFINE part == [marker |-> Byte(offset), kind |-> "segment", start |-> offset,
                    end |-> ChunkEnd, payload |-> offset + 2]
           m == Len(segments)
           x == file[offset + 2]
           t == Append(segments, part)
<1>1. /\ file \in Seq(Nat) /\ offset \in Nat /\ segments \in Seq(Parts)
      /\ Len(file) \in Nat /\ m \in Nat
  BY LenProperties DEF WalkInv, MadeOfBytes, PartsTyped
<1>2. /\ Len(segments) < MaxSegments /\ Byte(offset + 1) <= MaxRiffSize
      /\ ChunkEnd <= RiffEnd /\ offset + 2 <= RiffEnd /\ RiffEnd <= Len(file)
      /\ segments' = t /\ offset' = ChunkEnd + (Byte(offset + 1) % 2)
  BY DEF WebpChunk, InRiff, RiffChunkSound, RiffSound, Walked
<1>3. Byte(offset + 1) = x
  <2>1. offset + 1 + 1 = offset + 2
    BY <1>1
  <2> QED
    BY <2>1 DEF Byte
<1>4. RiffEnd \in Int /\ Len(file) >= 3
  <2>1. Len(file) >= 3
    BY DEF WebpFound
  <2>2. file[2] \in Nat
    BY <1>1, <2>1
  <2> QED
    BY <2>1, <2>2 DEF RiffEnd, Declared, Byte
<1>5. x \in Nat
  BY <1>1, <1>2, <1>4
<1>6. ChunkEnd = offset + 2 + x /\ ChunkEnd <= Len(file)
  <2>1. ChunkEnd = offset + 2 + x
    BY <1>3 DEF ChunkEnd
  <2>2. ChunkEnd \in Nat
    BY <1>1, <1>5, <2>1
  <2> QED
    BY <1>1, <1>2, <1>4, <2>1, <2>2
<1>7. ChunkAt(file, part)
  BY <1>1, <1>2, <1>3, <1>5, <1>6 DEF ChunkAt, Byte
<1>8. Edge(file, segments, m) = offset
  BY DEF WebpFound
<1>9. part.start = offset /\ part.end = ChunkEnd
  OBVIOUS
<1> HIDE DEF part
<1>10. Len(t) = m + 1 /\ t[m + 1] = part /\ \A i \in 1..m : t[i] = segments[i]
  BY <1>1, AppendProperties
<1> HIDE DEF t
<1>11. \A k \in 0..m : Edge(file, t, k) = Edge(file, segments, k)
  BY <1>1, <1>10 DEF Edge
<1>12. Edge(file, t, m + 1) = offset'
  <2>1. Edge(file, t, m + 1) = part.end + (file[part.start + 2] % 2)
    BY <1>1, <1>10 DEF Edge
  <2> QED
    BY <1>2, <1>3, <1>9, <2>1
<1>13. ASSUME NEW i \in 1..Len(t)
       PROVE  ChunkAt(file, t[i]) /\ Edge(file, t, i - 1) <= t[i].start
  <2>1. CASE i \in 1..m
    <3>1. ChunkAt(file, segments[i]) /\ Edge(file, segments, i - 1) <= segments[i].start
      BY <2>1 DEF WebpFound
    <3>2. i - 1 \in 0..m /\ t[i] = segments[i]
      BY <1>10, <2>1
    <3> QED
      BY <1>11, <3>1, <3>2
  <2>2. CASE i = m + 1
    <3>1. i - 1 = m /\ m \in 0..m /\ t[i] = part
      BY <1>1, <1>10, <2>2
    <3> QED
      BY <1>1, <1>7, <1>8, <1>9, <1>11, <3>1
  <2> QED
    BY <1>1, <1>10, <2>1, <2>2
<1>14. Len(t) <= MaxSegments
  BY <1>1, <1>2, <1>10, BoundsAssumption
<1> QED
  BY <1>2, <1>4, <1>10, <1>12, <1>13, <1>14 DEF WebpFound

\* The same cuts in a file that begins z bytes earlier.
Shifted(c, n, z) == [k \in 1..(n + 1) |-> z + c[k]]

\* A row behind a header is a row,
LEMMA RowShifts ==
    ASSUME NEW fmt, NEW h \in Seq(Nat), NEW g \in Seq(Nat), NEW c, NEW n,
           Row(fmt, g, 0, Len(g), c, n)
    PROVE  Row(fmt, h \o g, Len(h), Len(h \o g), Shifted(c, n, Len(h)), n)
<1> DEFINE z == Len(h)
           u == h \o g
           d == Shifted(c, n, z)
<1>1. /\ u \in Seq(Nat) /\ Len(u) = z + Len(g) /\ z \in Nat /\ Len(g) \in Nat
      /\ \A j \in 1..Len(g) : u[z + j] = g[j]
  BY StillThere, LenProperties
<1>2. /\ n \in Nat /\ c \in [1..(n + 1) -> Nat]
      /\ c[1] = 0 /\ c[n + 1] = Len(g)
  BY DEF Row
<1> HIDE DEF z, u
<1>3. d \in [1..(n + 1) -> Nat] /\ \A k \in 1..(n + 1) : d[k] = z + c[k]
  BY <1>1, <1>2 DEF Shifted
<1> HIDE DEF d
<1>4. d[1] = z /\ d[n + 1] = Len(u)
  <2>1. 1 \in 1..(n + 1) /\ n + 1 \in 1..(n + 1)
    BY <1>2
  <2>2. d[1] = z + 0 /\ d[n + 1] = z + Len(g)
    BY <1>2, <1>3, <2>1
  <2> QED
    BY <1>1, <2>2
<1>5. ASSUME NEW k \in 1..n
      PROVE  /\ d[k] < d[k + 1] /\ d[k + 1] <= Len(u)
             /\ Piece(fmt, u, d[k], d[k + 1])
  <2> DEFINE a == c[k]
             b == c[k + 1]
             m == b - a
             e == z + a
             zero == 0
  <2>0. Row(fmt, g, zero, Len(g), c, n)
    OBVIOUS
  <2> HIDE DEF zero
  <2>1. /\ a \in Nat /\ b \in Nat /\ a < b /\ b <= Len(g) /\ Piece(fmt, g, a, b)
    BY <1>1, <2>0, PieceAt
  <2>2. d[k] = z + a /\ d[k + 1] = z + b
    <3>1. k \in 1..(n + 1) /\ k + 1 \in 1..(n + 1)
      BY <1>2
    <3> QED
      BY <1>3, <3>1
  <2> HIDE DEF a, b
  <2>3. /\ m \in Nat \ {0} /\ a + m = b /\ e + m = z + b /\ e \in Nat
        /\ a + m <= Len(g) /\ e + m <= Len(u)
    BY <1>1, <2>1
  <2> HIDE DEF m
  <2>4. Copied(g, a, u, e, m)
    <3> SUFFICES ASSUME NEW j \in 1..m PROVE u[e + j] = g[a + j]
      BY DEF Copied
    <3>0. j \in Nat /\ 1 <= j /\ j <= m /\ m \in Nat
      BY <2>3
    <3>1. a + j \in 1..Len(g) /\ z + (a + j) = e + j
      BY <1>1, <2>1, <2>3, <3>0
    <3>2. u[z + (a + j)] = g[a + j]
      BY <1>1, <3>1
    <3> QED
      BY <3>1, <3>2
  <2> HIDE DEF e
  <2>5. Piece(fmt, g, a, a + m)
    BY <2>1, <2>3
  <2>6. Piece(fmt, u, e, e + m)
    BY <1>1, <2>1, <2>3, <2>4, <2>5, PieceMoves
  <2>7. z + a < z + b /\ z + b <= Len(u)
    BY <1>1, <2>1
  <2> QED
    BY <2>2, <2>3, <2>6, <2>7 DEF e
<1>6. Len(u) <= Len(u)
  BY <1>1
<1>7. Row(fmt, u, z, Len(u), d, n)
  BY <1>2, <1>3, <1>4, <1>5, <1>6 DEF Row
<1> QED
  BY <1>7 DEF z, u, d

\* and its leaders are as before.
LEMMA AlikeShifts ==
    ASSUME NEW h \in Seq(Nat), NEW g \in Seq(Nat), NEW c, NEW n,
           Row("webp", g, 0, Len(g), c, n)
    PROVE  AllAlike(g, c, n, h \o g, Shifted(c, n, Len(h)), n)
<1> DEFINE z == Len(h)
           u == h \o g
           d == Shifted(c, n, z)
<1>1. /\ z \in Nat /\ Len(g) \in Nat
      /\ \A j \in 1..Len(g) : u[z + j] = g[j]
  BY StillThere, LenProperties
<1>2. n \in Nat /\ c \in [1..(n + 1) -> Nat]
  BY DEF Row
<1> HIDE DEF z, u
<1>3. \A k \in 1..n : d[k] = z + c[k]
  BY <1>1, <1>2 DEF Shifted
<1> HIDE DEF d
<1>4. ASSUME NEW k \in 1..n
      PROVE  /\ u[d[k] + 1] = g[c[k] + 1] /\ u[d[k] + 2] = g[c[k] + 2]
             /\ \A t \in 1..g[c[k] + 2] : u[d[k] + 2 + t] = g[c[k] + 2 + t]
  <2> DEFINE zero == 0
  <2>0. Row("webp", g, zero, Len(g), c, n)
    OBVIOUS
  <2> HIDE DEF zero
  <2>1. /\ c[k] \in Nat /\ g[c[k] + 2] \in Nat
        /\ c[k] + 1 \in 1..Len(g) /\ c[k] + 2 \in 1..Len(g)
        /\ \A t \in 1..g[c[k] + 2] : c[k] + 2 + t \in 1..Len(g)
    BY <1>1, <2>0, ChunkIn
  <2> DEFINE a == c[k]
             x == g[c[k] + 2]
  <2>2. d[k] = z + a
    BY <1>3
  <2>3. u[d[k] + 1] = g[a + 1] /\ u[d[k] + 2] = g[a + 2]
    <3>1. u[z + (a + 1)] = g[a + 1] /\ u[z + (a + 2)] = g[a + 2]
      BY <1>1, <2>1
    <3>2. z + (a + 1) = z + a + 1 /\ z + (a + 2) = z + a + 2
      <4>1. a \in Nat
        BY <2>1
      <4> HIDE DEF a
      <4> QED
        BY <1>1, <4>1
    <3> QED
      BY <2>2, <3>1, <3>2
  <2>4. ASSUME NEW t \in 1..x PROVE u[d[k] + 2 + t] = g[a + 2 + t]
    <3>1. u[z + (a + 2 + t)] = g[a + 2 + t]
      BY <1>1, <2>1
    <3>2. z + (a + 2 + t) = z + a + 2 + t
      BY <1>1, <2>1
    <3> QED
      BY <2>2, <3>1, <3>2
  <2> QED
    BY <2>3, <2>4
<1>5. ASSUME NEW X PROVE Alike(g, c, n, u, d, n, X)
  <2>1. CASE Without(g, c, n, X)
    <3>1. Without(u, d, n, X)
      BY <1>4, <2>1 DEF Without
    <3> QED
      BY <2>1, <3>1 DEF Alike
  <2>2. CASE ~Without(g, c, n, X)
    <3> DEFINE P(i) == i \in 1..n /\ g[c[i] + 1] = X
    <3>1. \E i \in Nat : P(i)
      BY <1>2, <2>2 DEF Without
    <3> HIDE DEF P
    <3>2. \E i \in Nat : P(i) /\ \A j \in Nat : j < i => ~P(j)
      <4> DEFINE S == {i \in Nat : P(i)}
      <4>1. S \subseteq Nat /\ S # {}
        BY <3>1
      <4> HIDE DEF S
      <4>2. \E i \in S : \A j \in S : ~(j < i)
        BY <4>1, Smallest
      <4> QED
        BY <4>2 DEF S
    <3>3. PICK i \in Nat : P(i) /\ \A j \in Nat : j < i => ~P(j)
      BY <3>2
    <3>4. i \in 1..n
      BY <3>3 DEF P
    <3>5. Leads(g, c, n, X, i)
      BY <1>2, <3>3, <3>4 DEF P, Leads
    <3>6. Leads(u, d, n, X, i)
      <4>1. \A k \in 1..n : u[d[k] + 1] = g[c[k] + 1]
        BY <1>4
      <4>2. \A j \in 1..(i - 1) : j \in 1..n
        BY <1>2, <3>4
      <4> QED
        BY <3>4, <3>5, <4>1, <4>2 DEF Leads
    <3>7. Shown(g, c[i], u, d[i], X)
      BY <1>4, <3>4 DEF Shown
    <3> QED
      BY <3>4, <3>5, <3>6, <3>7 DEF Alike
  <2> QED
    BY <2>1, <2>2
<1>6. AllAlike(g, c, n, u, d, n)
  BY <1>5 DEF AllAlike
<1> QED
  BY <1>6 DEF z, u, d

\* What stripWebp stores: chunks that are kept behind a header with their length.
CleanWebp(f, d, c, n) ==
    /\ Row("webp", f, 3, Len(f), c, n) /\ n <= MaxSegments
    /\ Len(f) >= 3 /\ f[1] = RIFF /\ f[2] = Len(f) - 2 /\ f[3] = WEBP
    /\ d = Measured(f, c, n)

\* The header in front makes it a clean file, of the size that was read.
LEMMA WebpFinishWrites ==
    ASSUME WalkInv, WebpFound(file, segments, offset), WebpFinish, NEW c, NEW n,
           WebpWritten(out, file, segments, next, c, n), dims = WebpDimensions
    PROVE  \E d : CleanWebp(out', dims', d, n) /\ Len(out') <= Len(file) + 1
<1> DEFINE y == 1 + Len(out)
           h == <<RIFF, y, WEBP>>
           u == h \o out
           m == Len(segments)
           s == Begins(segments)
           d == Shifted(c, n, Len(h))
<1>1. /\ file \in Seq(Nat) /\ out \in Seq(Nat) /\ next \in Nat
      /\ segments \in Seq(Parts) /\ Len(file) \in Nat /\ Len(out) \in Nat /\ m \in Nat
  BY LenProperties DEF WalkInv, MadeOfBytes, PartsTyped
<1>2. next > m /\ out' = u /\ dims' = dims
  BY DEF WebpFinish
<1>3. /\ Row("webp", out, 0, Len(out), c, n) /\ n < next /\ next \in 1..(m + 1)
      /\ Len(out) + 3 <= Edge(file, segments, next - 1)
      /\ AllAlike(file, s, next - 1, out, c, n)
  BY DEF WebpWritten
<1>4. next - 1 = m /\ n \in Nat /\ n <= MaxSegments
  <2>1. m <= MaxSegments
    BY DEF WebpFound
  <2> QED
    BY <1>1, <1>2, <1>3, <2>1, BoundsAssumption DEF Row
<1>5. y \in Nat /\ h \in Seq(Nat) /\ Len(h) = 3 /\ h[1] = RIFF /\ h[2] = y /\ h[3] = WEBP
  <2>1. y \in Nat
    BY <1>1
  <2> HIDE DEF y
  <2> QED
    BY <2>1 DEF RIFF, WEBP
<1> HIDE DEF y, h
<1>6. /\ u \in Seq(Nat) /\ Len(u) = 3 + Len(out)
      /\ u[1] = RIFF /\ u[2] = y /\ u[3] = WEBP
  <2>1. /\ u \in Seq(Nat) /\ Len(u) = Len(h) + Len(out)
        /\ \A i \in 1..Len(h) : u[i] = h[i]
    BY <1>1, <1>5, StillThere
  <2> HIDE DEF u
  <2> QED
    BY <1>1, <1>5, <2>1
<1>7. Row("webp", u, 3, Len(u), d, n)
  <2>1. Row("webp", h \o out, Len(h), Len(h \o out), Shifted(c, n, Len(h)), n)
    BY <1>1, <1>3, <1>5, RowShifts, Zenon
  <2> QED
    BY <1>5, <2>1
<1>8. Measured(u, d, n) = Measured(out, c, n)
  <2>1. AllAlike(out, c, n, h \o out, Shifted(c, n, Len(h)), n)
    BY <1>1, <1>3, <1>5, AlikeShifts, Zenon
  <2>2. \A i \in 1..n : out[c[i] + 2] \in Nat
    <3> SUFFICES ASSUME NEW i \in 1..n PROVE out[c[i] + 2] \in Nat
      OBVIOUS
    <3> DEFINE zero == 0
    <3>1. Row("webp", out, zero, Len(out), c, n)
      BY <1>3
    <3> HIDE DEF zero
    <3> QED
      BY <1>1, <3>1, ChunkIn
  <2>3. AllAlike(out, c, n, u, d, n)
    BY <2>1
  <2> HIDE DEF u, d
  <2> QED
    BY <1>4, <2>2, <2>3, AlikeMeasured
<1>9. Measured(out, c, n) = dims
  <2>1. \A i \in 1..m : ChunkAt(file, segments[i]) /\ s[i] = segments[i].start
    BY DEF WebpFound, Begins
  <2>2. \A i \in 1..m : file[s[i] + 2] \in Nat
    BY <2>1 DEF ChunkAt
  <2> HIDE DEF s
  <2>3. WebpDimensions = Measured(file, s, m)
    BY <1>1, <2>1, MeasuredInFile
  <2>4. AllAlike(file, s, m, out, c, n)
    BY <1>3, <1>4
  <2>5. Measured(out, c, n) = Measured(file, s, m)
    BY <1>1, <1>4, <2>2, <2>4, AlikeMeasured
  <2> QED
    BY <2>3, <2>5
<1>10. Len(u) <= Len(file) + 1
  <2>1. CASE m = 0
    <3>1. Edge(file, segments, next - 1) = 3 /\ Len(file) >= 3
      BY <1>4, <2>1 DEF Edge, WebpFound
    <3> QED
      BY <1>1, <1>3, <1>6, <3>1
  <2>2. CASE m # 0
    <3> DEFINE x == file[segments[m].start + 2]
               e == segments[m].end
    <3>1. ChunkAt(file, segments[m])
      BY <1>1, <2>2 DEF WebpFound
    <3>2. x \in Nat /\ e <= Len(file) /\ e \in Nat
      BY <3>1 DEF ChunkAt
    <3>3. Edge(file, segments, next - 1) = e + (x % 2)
      BY <1>4, <2>2 DEF Edge
    <3> HIDE DEF x, e
    <3>4. x % 2 \in 0..1
      BY <3>2
    <3> QED
      BY <1>1, <1>3, <1>6, <3>2, <3>3, <3>4
  <2> QED
    BY <2>1, <2>2
<1>11. y = Len(u) - 2 /\ Len(u) >= 3
  BY <1>1, <1>6 DEF y
<1>12. CleanWebp(u, dims, d, n)
  BY <1>4, <1>6, <1>7, <1>8, <1>9, <1>11 DEF CleanWebp
<1> QED
  BY <1>2, <1>10, <1>12

-----------------------------------------------------------------------------
(* A clean WebP is read chunk by chunk and rebuilt as it is.               *)

\* The elements of a stretch that may be empty.
LEMMA SliceIs ==
    ASSUME NEW f \in Seq(Nat), NEW a \in Nat, NEW b \in Nat, a <= b, b <= Len(f)
    PROVE  /\ Slice(f, a, b) \in Seq(Nat) /\ Len(Slice(f, a, b)) = b - a
           /\ \A j \in 1..(b - a) : Slice(f, a, b)[j] = f[a + j]
<1>1. CASE a < b
  <2>1. /\ Slice(f, a, b) \in Seq(Nat) /\ Len(Slice(f, a, b)) = b - a
        /\ \A j \in 1..(b - a) : Slice(f, a, b)[j] = f[a + j]
    BY <1>1, SliceOf, Zenon
  <2> QED
    BY <2>1
<1>2. CASE a = b
  <2>1. Slice(f, a, b) = <<>>
    BY <1>2, EmptySlice
  <2> QED
    BY <1>2, <2>1
<1> QED
  BY <1>1, <1>2

\* Two stretches side by side.
LEMMA SliceLonger ==
    ASSUME NEW f \in Seq(Nat), NEW z \in Nat, NEW a \in Nat, NEW b \in Nat,
           z <= a, a <= b, b <= Len(f)
    PROVE  Slice(f, z, a) \o Slice(f, a, b) = Slice(f, z, b)
<1> DEFINE g == Slice(f, z, a)
           p == Slice(f, a, b)
           h == g \o p
           u == Slice(f, z, b)
<1>1. Len(f) \in Nat /\ z <= b /\ a <= Len(f)
  BY LenProperties
<1>2. g \in Seq(Nat) /\ Len(g) = a - z /\ \A j \in 1..(a - z) : g[j] = f[z + j]
  BY <1>1, SliceIs, Zenon
<1>3. p \in Seq(Nat) /\ Len(p) = b - a /\ \A j \in 1..(b - a) : p[j] = f[a + j]
  BY <1>1, SliceIs, Zenon
<1>4. u \in Seq(Nat) /\ Len(u) = b - z /\ \A j \in 1..(b - z) : u[j] = f[z + j]
  BY <1>1, SliceIs, Zenon
<1> HIDE DEF g, p, u
<1>5. /\ h \in Seq(Nat) /\ Len(h) = Len(g) + Len(p)
      /\ \A i \in 1..Len(g) : h[i] = g[i]
      /\ \A j \in 1..Len(p) : h[Len(g) + j] = p[j]
  BY <1>2, <1>3, StillThere
<1> HIDE DEF h
<1>6. Len(h) = b - z
  BY <1>1, <1>2, <1>3, <1>5
<1>7. ASSUME NEW i \in 1..(b - z) PROVE h[i] = u[i]
  <2>1. CASE i \in 1..(a - z)
    BY <1>2, <1>4, <1>5, <2>1
  <2>2. CASE i \notin 1..(a - z)
    <3> DEFINE j == i - (a - z)
    <3>1. j \in 1..(b - a) /\ (a - z) + j = i /\ a + j = z + i
      BY <2>2
    <3> HIDE DEF j
    <3>2. h[(a - z) + j] = p[j] /\ p[j] = f[a + j]
      BY <1>2, <1>3, <1>5, <3>1
    <3> QED
      BY <1>4, <3>1, <3>2
  <2> QED
    BY <2>1, <2>2
<1>8. h = u
  BY <1>4, <1>5, <1>6, <1>7, SeqEqual
<1> QED
  BY <1>8 DEF h, g, p, u

\* The chunks s found so far, the walk at `at`.
WebpReadOn(f, d, s, at, c, n) ==
    /\ CleanWebp(f, d, c, n) /\ d # NoDims
    /\ Len(s) <= n /\ at = c[Len(s) + 1]
    /\ \A i \in 1..Len(s) : ChunkAt(f, s[i]) /\ s[i].start = c[i]

\* What a walk of a clean WebP finds at the next cut.
LEMMA WebpPieceIsFound ==
    ASSUME WalkInv, NEW d, NEW c, NEW n, WebpReadOn(file, d, segments, offset, c, n),
           Len(segments) < n, format = "webp", phase = "walk", WebpStep
    PROVE  /\ UNCHANGED <<file, format, refusal, next, out, exif, removed, phase, dims>>
           /\ WebpReadOn(file, d, segments', offset', c, n)
<1> DEFINE m == Len(segments)
           a == c[m + 1]
           b == c[m + 2]
           x == file[a + 2]
           part == [marker |-> Byte(offset), kind |-> "segment", start |-> offset,
                    end |-> ChunkEnd, payload |-> offset + 2]
           t == Append(segments, part)
<1>1. /\ file \in Seq(Nat) /\ offset \in Nat /\ segments \in Seq(Parts)
      /\ Len(file) \in Nat /\ m \in Nat
  BY LenProperties DEF WalkInv, MadeOfBytes, PartsTyped
<1>2. /\ Row("webp", file, 3, Len(file), c, n) /\ n <= MaxSegments
      /\ Len(file) >= 3 /\ file[2] = Len(file) - 2 /\ offset = a
  BY DEF WebpReadOn, CleanWebp
<1>3. /\ a \in Nat /\ b \in Nat /\ a < b /\ b <= Len(file) /\ n \in Nat
      /\ Piece("webp", file, a, b)
  <2> DEFINE k == m + 1
             three == 3
  <2>1. k \in 1..n /\ k + 1 = m + 2
    <3>1. n \in Nat /\ m < n
      BY <1>2 DEF Row
    <3> HIDE DEF m
    <3> QED
      BY <1>1, <3>1
  <2>2. three \in Nat /\ Row("webp", file, three, Len(file), c, n)
    BY <1>2
  <2> HIDE DEF k, three
  <2>3. /\ c[k] \in Nat /\ c[k + 1] \in Nat /\ k \in Nat /\ n \in Nat
        /\ c[k] < c[k + 1] /\ c[k + 1] <= Len(file)
        /\ Piece("webp", file, c[k], c[k + 1])
    BY <1>1, <2>1, <2>2, PieceAt
  <2> QED
    BY <2>1, <2>3 DEF k
<1> HIDE DEF a, b
<1>4. RiffSound /\ RiffEnd = Len(file)
  <2>1. Declared = Len(file) - 2
    BY <1>2 DEF Declared, Byte
  <2> QED
    BY <1>1, <1>2, <2>1 DEF RiffSound, RiffEnd
<1>5. /\ a + 2 <= b /\ b = a + 2 + x + (x % 2) /\ file[a + 1] \in WebpKeptChunks
      /\ x <= MaxRiffSize
  BY <1>3 DEF Piece, WebpPiece
<1>6. x \in Nat
  <2>1. a + 2 \in 1..Len(file)
    BY <1>1, <1>3, <1>5
  <2> QED
    BY <1>1, <2>1, ElementOf
<1> HIDE DEF x
<1>7. x % 2 \in Nat
  BY <1>6
<1>8. Byte(offset + 1) = x /\ Byte(offset) = file[a + 1]
  <2>1. offset + 1 + 1 = a + 2
    BY <1>1, <1>2
  <2> QED
    BY <1>2, <2>1 DEF Byte, x
<1>9. ChunkEnd = a + 2 + x /\ ChunkEnd <= Len(file) /\ offset + 2 <= Len(file)
  <2>1. ChunkEnd = a + 2 + x
    BY <1>2, <1>8 DEF ChunkEnd
  <2> QED
    BY <1>1, <1>2, <1>3, <1>5, <1>6, <1>7, <2>1
<1>10. RiffChunkSound
  <2>1. Printable(offset)
    BY <1>5, <1>8 DEF Printable, WebpKeptChunks, Symbols, VP8, VP8L, VP8X
  <2>2. Len(segments) < MaxSegments
    BY <1>1, <1>2, <1>3, BoundsAssumption
  <2> QED
    BY <1>4, <1>5, <1>8, <1>9, <2>1, <2>2 DEF RiffChunkSound
<1>11. WebpChunk
  <2>1. ~WebpMalformed
    BY <1>4, <1>10 DEF WebpMalformed
  <2>2. ~WebpWalked
    BY <1>1, <1>4, <1>9 DEF WebpWalked
  <2>3. ~WebpCopy /\ ~WebpDrop /\ ~WebpFinish
    BY DEF WebpCopy, WebpDrop, WebpFinish, WebpStripping
  <2> QED
    BY <2>1, <2>2, <2>3 DEF WebpStep
<1>12. /\ UNCHANGED <<file, format, refusal, next, out, exif, removed, phase, dims>>
       /\ segments' = t /\ offset' = ChunkEnd + (Byte(offset + 1) % 2)
  BY <1>11 DEF WebpChunk, Walked
<1>13. offset' = b
  BY <1>5, <1>8, <1>9, <1>12
<1>14. ChunkAt(file, part) /\ part.start = a
  <2>1. ChunkEnd = a + 2 + file[a + 2] /\ file[a + 2] \in Nat /\ file[a + 2] <= MaxRiffSize
    BY <1>5, <1>6, <1>9 DEF x
  <2> QED
    BY <1>2, <1>3, <1>8, <1>9, <2>1 DEF ChunkAt
<1> HIDE DEF part
<1>15. Len(t) = m + 1 /\ t[m + 1] = part /\ \A i \in 1..m : t[i] = segments[i]
  BY <1>1, AppendProperties
<1> HIDE DEF t
<1>16. ASSUME NEW i \in 1..Len(t) PROVE ChunkAt(file, t[i]) /\ t[i].start = c[i]
  <2>1. CASE i \in 1..m
    BY <1>15, <2>1 DEF WebpReadOn
  <2>2. CASE i = m + 1
    BY <1>14, <1>15, <2>2 DEF a
  <2> QED
    BY <1>1, <1>15, <2>1, <2>2
<1>17. offset' = c[Len(t) + 1] /\ Len(t) <= n
  <2>1. m + 1 + 1 = m + 2
    BY <1>1
  <2> QED
    BY <1>1, <1>3, <1>13, <1>15, <2>1 DEF b
<1>18. CleanWebp(file, d, c, n) /\ d # NoDims
  BY DEF WebpReadOn
<1> QED
  BY <1>12, <1>16, <1>17, <1>18 DEF WebpReadOn

\* Any turn of the walk through a clean WebP.
LEMMA WebpIsFound ==
    ASSUME WalkInv, NEW d, NEW c, NEW n, WebpReadOn(file, d, segments, offset, c, n),
           format = "webp", phase = "walk", WebpStep
    PROVE  /\ UNCHANGED <<file, format, refusal, next, out, exif, removed>>
           /\ WebpReadOn(file, d, segments', offset', c, n)
           /\ \/ phase' = "walk" /\ dims' = dims
              \/ phase' = "budget" /\ dims' = d /\ Len(segments') = n
<1> DEFINE m == Len(segments)
<1>1. /\ file \in Seq(Nat) /\ offset \in Nat /\ segments \in Seq(Parts)
      /\ Len(file) \in Nat /\ m \in Nat
  BY LenProperties DEF WalkInv, MadeOfBytes, PartsTyped
<1>2. /\ Row("webp", file, 3, Len(file), c, n) /\ m <= n
      /\ Len(file) >= 3 /\ file[2] = Len(file) - 2 /\ offset = c[m + 1]
  BY DEF WebpReadOn, CleanWebp
<1>3. n \in Nat /\ c[n + 1] = Len(file)
  BY <1>2 DEF Row
<1>4. CASE m < n
  <2>1. /\ UNCHANGED <<file, format, refusal, next, out, exif, removed, phase, dims>>
        /\ WebpReadOn(file, d, segments', offset', c, n)
    BY <1>4, WebpPieceIsFound
  <2> QED
    BY <2>1
<1>5. CASE m = n
  <2>1. offset = Len(file)
    BY <1>2, <1>3, <1>5
  <2>2. RiffSound /\ RiffEnd = Len(file)
    <3>1. Declared = Len(file) - 2
      BY <1>2 DEF Declared, Byte
    <3> QED
      BY <1>1, <1>2, <3>1 DEF RiffSound, RiffEnd
  <2>3. offset + 2 > RiffEnd /\ ~(offset + 2 <= RiffEnd)
    BY <1>1, <2>1, <2>2
  <2>4. WebpWalked
    <3>1. ~WebpMalformed /\ ~WebpChunk
      BY <2>2, <2>3 DEF WebpMalformed, WebpChunk, InRiff
    <3>2. ~WebpCopy /\ ~WebpDrop /\ ~WebpFinish
      BY DEF WebpCopy, WebpDrop, WebpFinish, WebpStripping
    <3> QED
      BY <3>1, <3>2 DEF WebpStep
  <2>5. WebpDimensions = d
    <3>1. \A i \in 1..m : ChunkAt(file, segments[i]) /\ c[i] = segments[i].start
      BY DEF WebpReadOn
    <3>2. WebpDimensions = Measured(file, c, m)
      BY <1>1, <3>1, MeasuredInFile
    <3> QED
      BY <1>5, <3>2 DEF WebpReadOn, CleanWebp
  <2>6. d # NoDims
    BY DEF WebpReadOn
  <2>7. /\ dims' = d /\ phase' = "budget"
        /\ UNCHANGED <<file, format, refusal, offset, segments, next, out, exif, removed>>
    BY <2>4, <2>5, <2>6 DEF WebpWalked
  <2>8. WebpReadOn(file, d, segments', offset', c, n)
    BY <2>7
  <2> QED
    BY <1>5, <2>7, <2>8
<1> QED
  BY <1>1, <1>2, <1>3, <1>4, <1>5

\* The rebuild of a clean WebP at chunk k.
WebpReread(f, d, s, at, k, g, c, n) ==
    /\ WebpReadOn(f, d, s, at, c, n) /\ Len(s) = n
    /\ k \in 1..(n + 1) /\ g = Slice(f, 3, c[k])

\* A kept chunk of a clean WebP is written as it stands there.
LEMMA RebuiltAsItIs ==
    ASSUME NEW f \in Seq(Nat), NEW seg, ChunkAt(f, seg), NEW b \in Nat,
           Piece("webp", f, seg.start, b), b <= Len(f), NEW p, RebuiltBytes(f, seg, p)
    PROVE  p = Slice(f, seg.start, b)
<1> DEFINE a == seg.start
           x == f[a + 2]
           u == Slice(f, a, b)
<1>1. /\ a \in Nat /\ x \in Nat /\ seg.marker = f[a + 1] /\ Len(f) \in Nat
  BY LenProperties DEF ChunkAt
<1>2. /\ a + 2 <= b /\ b = a + 2 + x + (x % 2) /\ f[a + 1] \in WebpKeptChunks
      /\ x % 2 = 1 => f[b] = 0
      /\ f[a + 1] = VP8X /\ x >= 1 => ClearedFlags(f[a + 3]) = f[a + 3]
  BY DEF Piece, WebpPiece
<1>3. /\ p \in Seq(Nat) /\ Len(p) = 2 + x + (x % 2)
      /\ \A j \in 1..(2 + x) :
           p[j] = IF j = 3 /\ seg.marker = VP8X THEN ClearedFlags(f[a + 3])
                  ELSE f[a + j]
      /\ x % 2 = 1 => p[3 + x] = 0
  BY DEF RebuiltBytes
<1> DEFINE r == x % 2
<1> HIDE DEF a, x
<1>4. r \in 0..1
  BY <1>1
<1> HIDE DEF r
<1>5. b - a = 2 + x + r /\ b - a \in Nat /\ a <= b
  BY <1>1, <1>2, <1>4 DEF r
<1>6. u \in Seq(Nat) /\ Len(u) = b - a /\ \A j \in 1..(b - a) : u[j] = f[a + j]
  BY <1>1, <1>5, SliceIs, Zenon
<1> HIDE DEF u
<1>7. ASSUME NEW j \in 1..(2 + x + r) PROVE p[j] = u[j]
  <2>1. u[j] = f[a + j]
    BY <1>5, <1>6
  <2>2. CASE j \in 1..(2 + x)
    <3>1. CASE j = 3 /\ seg.marker = VP8X
      BY <1>1, <1>2, <1>3, <2>1, <2>2, <3>1
    <3>2. CASE ~(j = 3 /\ seg.marker = VP8X)
      BY <1>3, <2>1, <2>2, <3>2
    <3> QED
      BY <3>1, <3>2
  <2>3. CASE j \notin 1..(2 + x)
    <3>0. b = a + 2 + x + r
      BY <1>2 DEF r
    <3>1. r = 1 /\ j = 3 + x
      BY <1>1, <1>4, <2>3
    <3>1a. a + j = b
      BY <1>1, <3>0, <3>1
    <3> QED
      BY <1>2, <1>3, <2>1, <3>1, <3>1a DEF r
  <2> QED
    BY <2>2, <2>3
<1>8. Len(p) = 2 + x + r /\ Len(u) = 2 + x + r
  BY <1>3, <1>5, <1>6 DEF r
<1>9. p = u
  BY <1>3, <1>6, <1>7, <1>8, SeqEqual
<1> QED
  BY <1>9 DEF u, a

\* The rebuild of a clean WebP copies it.
LEMMA WebpIsCopied ==
    ASSUME WalkInv, NEW d, NEW c, NEW n,
           WebpReread(file, d, segments, offset, next, out, c, n),
           format = "webp", phase = "strip", WebpStep
    PROVE  /\ UNCHANGED <<file, format, refusal, segments, offset, dims, exif, removed>>
           /\ \/ phase' = "strip" /\ WebpReread(file, d, segments, offset, next', out', c, n)
              \/ phase' = "extract" /\ out' = file
<1> DEFINE seg == segments[next]
           p == Rebuilt(seg) \o Pad(seg)
           three == 3
<1>1. /\ file \in Seq(Nat) /\ out \in Seq(Nat) /\ next \in Nat /\ segments \in Seq(Parts)
      /\ Len(file) \in Nat
  BY LenProperties DEF WalkInv, MadeOfBytes, PartsTyped
<1>2. /\ Row("webp", file, three, Len(file), c, n)
      /\ Len(file) >= 3 /\ file[1] = RIFF /\ file[2] = Len(file) - 2 /\ file[3] = WEBP
      /\ Len(segments) = n /\ next \in 1..(n + 1) /\ out = Slice(file, three, c[next])
      /\ three \in Nat
      /\ \A i \in 1..n : ChunkAt(file, segments[i]) /\ segments[i].start = c[i]
  BY DEF WebpReread, WebpReadOn, CleanWebp
<1> HIDE DEF three
<1>3. /\ n \in Nat /\ c \in [1..(n + 1) -> Nat] /\ c[1] = three /\ c[n + 1] = Len(file)
      /\ \A k \in 1..n : c[k] < c[k + 1]
  BY <1>2 DEF Row
<1>4. ~WebpMalformed /\ ~WebpChunk /\ ~WebpWalked
  BY DEF WebpMalformed, WebpChunk, WebpWalked, InRiff, WebpWalking
<1>5. CASE next <= n
  <2>1. next \in 1..n
    BY <1>2, <1>3, <1>5
  <2> DEFINE a == c[next]
             b == c[next + 1]
  <2>2. /\ a \in Nat /\ b \in Nat /\ a < b /\ b <= Len(file) /\ Piece("webp", file, a, b)
    BY <1>1, <1>2, <2>1, PieceAt
  <2>3. ChunkAt(file, seg) /\ seg.start = a
    BY <1>2, <2>1
  <2> HIDE DEF a, b, seg
  <2>4. seg.marker \in WebpKeptChunks
    <3>1. file[a + 1] \in WebpKeptChunks
      BY <2>2 DEF Piece, WebpPiece
    <3> QED
      BY <2>3, <3>1 DEF ChunkAt
  <2>5. WebpCopy
    <3>1. ~WebpDrop
      BY <2>4 DEF WebpDrop, seg
    <3>2. ~WebpFinish
      <4>1. ~(next > Len(segments))
        BY <1>2, <1>3, <1>5
      <4> QED
        BY <4>1 DEF WebpFinish
    <3> QED
      BY <1>4, <3>1, <3>2 DEF WebpStep
  <2>6. /\ UNCHANGED <<file, format, refusal, segments, offset, dims, exif, removed, phase>>
        /\ out' = out \o p /\ next' = next + 1
    BY <2>5 DEF WebpCopy, Wrote, seg
  <2>7. RebuiltBytes(file, seg, p)
    BY <1>1, <2>3, RebuiltIs
  <2> HIDE DEF p
  <2>8. p = Slice(file, a, b)
    <3>1. p = Slice(file, seg.start, b)
      <4>1. Piece("webp", file, seg.start, b)
        BY <2>2, <2>3
      <4> QED
        BY <1>1, <2>2, <2>3, <2>7, <4>1, RebuiltAsItIs, Zenon
    <3> QED
      BY <2>3, <3>1
  <2>9. three <= a
    <3> DEFINE Q == {k \in Nat : k \in 1..(n + 1) /\ ~(three <= c[k])}
    <3>1. SUFFICES Q = {}
      <4>1. next \in Nat /\ next \in 1..(n + 1) /\ (next \in Q <=> ~(three <= c[next]))
        BY <1>1, <1>2
      <4> HIDE DEF Q
      <4> QED
        BY <4>1 DEF a
    <3>2. SUFFICES ASSUME Q # {} PROVE FALSE
      OBVIOUS
    <3>3. Q \in SUBSET Nat
      OBVIOUS
    <3> HIDE DEF Q
    <3>4. PICK k \in Q : \A j \in Q : ~(j < k)
      BY <3>2, <3>3, Smallest
    <3>5. k \in Nat /\ k \in 1..(n + 1) /\ ~(three <= c[k])
      BY <3>4 DEF Q
    <3>6. k # 1
      BY <1>2, <1>3, <3>5
    <3> DEFINE j == k - 1
    <3>7. j \in Nat /\ j \in 1..(n + 1) /\ j < k /\ j \in 1..n /\ j + 1 = k
      BY <1>3, <3>5, <3>6
    <3> HIDE DEF j
    <3>8. three <= c[j]
      BY <3>4, <3>7 DEF Q
    <3>9. c[j] < c[k] /\ c[j] \in Nat /\ c[k] \in Nat
      BY <1>3, <3>5, <3>7
    <3> QED
      BY <1>2, <3>5, <3>8, <3>9
  <2>10. out' = Slice(file, three, b)
    <3>1. a <= b
      BY <2>2
    <3>2. Slice(file, three, a) \o Slice(file, a, b) = Slice(file, three, b)
      BY <1>1, <1>2, <2>2, <2>9, <3>1, SliceLonger, Zenon
    <3> QED
      BY <1>2, <2>6, <2>8, <3>2 DEF a
  <2>11. next' \in 1..(n + 1) /\ b = c[next']
    BY <1>3, <2>1, <2>6 DEF b
  <2>12. WebpReread(file, d, segments, offset, next', out', c, n)
    BY <1>2, <2>10, <2>11 DEF WebpReread, three
  <2> QED
    BY <2>6, <2>12
<1>6. CASE ~(next <= n)
  <2>1. next = n + 1 /\ next > Len(segments)
    BY <1>2, <1>3, <1>6
  <2>2. WebpFinish
    BY <1>2, <1>4, <1>6 DEF WebpStep, WebpCopy, WebpDrop, WebpStripping
  <2> DEFINE y == 1 + Len(out)
             h == <<RIFF, y, WEBP>>
             u == h \o out
  <2>3. /\ UNCHANGED <<file, format, refusal, segments, offset, dims, exif, removed>>
        /\ out' = u /\ phase' = "extract"
    BY <2>2 DEF WebpFinish
  <2>4. out = Slice(file, three, Len(file)) /\ three <= Len(file)
    BY <1>2, <1>3, <2>1 DEF three
  <2>5. Len(out) = Len(file) - three /\ \A j \in 1..(Len(file) - three) : out[j] = file[three + j]
    <3> DEFINE b == Len(file)
    <3>1. b \in Nat /\ b <= Len(file)
      BY <1>1
    <3> HIDE DEF b
    <3>2. /\ Slice(file, three, b) \in Seq(Nat) /\ Len(Slice(file, three, b)) = b - three
          /\ \A j \in 1..(b - three) : Slice(file, three, b)[j] = file[three + j]
      <4>1. three <= b
        BY <2>4 DEF b
      <4> QED
        BY <1>1, <1>2, <3>1, <4>1, SliceIs, Zenon
    <3> QED
      BY <2>4, <3>2 DEF b
  <2>6. y \in Nat /\ y = Len(file) - 2
    BY <1>1, <1>2, <2>5 DEF three
  <2> HIDE DEF y
  <2>7. h \in Seq(Nat) /\ Len(h) = 3 /\ h[1] = RIFF /\ h[2] = y /\ h[3] = WEBP
    BY <2>6 DEF RIFF, WEBP
  <2> HIDE DEF h
  <2>8. /\ u \in Seq(Nat) /\ Len(u) = 3 + Len(out)
        /\ \A i \in 1..3 : u[i] = h[i]
        /\ \A j \in 1..Len(out) : u[3 + j] = out[j]
    <3>1. /\ u \in Seq(Nat) /\ Len(u) = Len(h) + Len(out)
          /\ \A i \in 1..Len(h) : u[i] = h[i]
          /\ \A j \in 1..Len(out) : u[Len(h) + j] = out[j]
      BY <1>1, <2>7, StillThere
    <3> HIDE DEF u
    <3> QED
      BY <2>7, <3>1
  <2> HIDE DEF u
  <2>9. Len(u) = Len(file)
    BY <1>1, <1>2, <2>5, <2>8 DEF three
  <2>10. ASSUME NEW i \in 1..Len(file) PROVE u[i] = file[i]
    <3>1. CASE i \in 1..3
      <4>1. u[1] = file[1] /\ u[2] = file[2] /\ u[3] = file[3]
        BY <1>2, <2>6, <2>7, <2>8
      <4> QED
        BY <3>1, <4>1
    <3>2. CASE i \notin 1..3
      <4> DEFINE j == i - 3
      <4>1. j \in 1..(Len(file) - 3) /\ 3 + j = i
        BY <1>1, <3>2
      <4> HIDE DEF j
      <4>2. u[3 + j] = out[j] /\ out[j] = file[3 + j]
        BY <2>5, <2>8, <4>1 DEF three
      <4> QED
        BY <4>1, <4>2
    <3> QED
      BY <3>1, <3>2
  <2>11. u = file
    BY <1>1, <2>8, <2>9, <2>10, SeqEqual
  <2> QED
    BY <2>3, <2>11
<1> QED
  BY <1>5, <1>6

-----------------------------------------------------------------------------
(* JPEG: the parts a walk found.                                           *)

\* A part as walkJpeg notes it.
JpegPart(f, p) ==
    /\ p.kind \in Kinds /\ p.start \in Nat /\ p.end \in Nat
    /\ 2 <= p.start /\ p.start < p.end /\ p.end <= Len(f)
    /\ p.marker = f[p.start + 2]
    /\ p.kind \in {"eoi", "standalone"} => Bare(p.marker)
    /\ p.kind \in {"segment", "sos"} =>
         /\ ~Bare(p.marker) /\ f[p.start + 1] = FF /\ p.payload = p.start + 4
         /\ JpegHeader(f, p.start) \in Nat /\ JpegHeader(f, p.start) >= 4
         /\ p.start + JpegHeader(f, p.start) <= p.end
    /\ p.kind = "segment" => p.marker # SOS /\ p.end = p.start + JpegHeader(f, p.start)
    /\ p.kind = "sos" =>
         p.marker = SOS /\ ScanBytes(f, p.start, JpegHeader(f, p.start), p.end - p.start)

\* The first frame header among the m parts of f that start at c gives d.
JpegFrame(f, c, m, d) ==
    \/ d = NoDims /\ \A i \in 1..m : f[c[i] + 2] \notin SOF
    \/ \E i \in 1..m :
         /\ f[c[i] + 2] \in SOF /\ \A j \in 1..(i - 1) : f[c[j] + 2] \notin SOF
         /\ JpegHeader(f, c[i]) >= 8 /\ d = <<f[c[i] + 7], f[c[i] + 6]>>

\* One turn at `at` finds p, goes on at `to` and knows e instead of d.
JpegFinds(f, p, at, to, d, e) ==
    /\ JpegPart(f, p) /\ f[at + 1] = FF /\ 2 <= to
    /\ p.kind = "segment" => p.end = to
    /\ IF p.marker \in SOF /\ d = NoDims
       THEN JpegHeader(f, p.start) >= 8 /\ e = <<f[p.start + 7], f[p.start + 6]>>
       ELSE e = d

\* The parts s, with the walk at `at` and the size known as d.
JpegFound(f, s, at, d) ==
    /\ Len(s) <= MaxSegments /\ 2 <= at
    /\ \A i \in 1..Len(s) :
         /\ JpegPart(f, s[i])
         /\ s[i].kind = "segment" => s[i].end = at \/ f[s[i].end + 1] = FF
    /\ JpegFrame(f, Begins(s), Len(s), d)

\* One more part, and what is known of the size.
LEMMA FrameGrows ==
    ASSUME NEW f, NEW c, NEW e, NEW m \in Nat, NEW d, NEW dd, JpegFrame(f, c, m, d),
           \A i \in 1..m : e[i] = c[i],
           IF f[e[m + 1] + 2] \in SOF /\ d = NoDims
           THEN /\ JpegHeader(f, e[m + 1]) >= 8
                /\ dd = <<f[e[m + 1] + 7], f[e[m + 1] + 6]>>
           ELSE dd = d
    PROVE  JpegFrame(f, e, m + 1, dd)
<1>1. CASE d = NoDims /\ \A i \in 1..m : f[c[i] + 2] \notin SOF
  <2>1. CASE f[e[m + 1] + 2] \in SOF
    <3>1. m + 1 \in 1..(m + 1) /\ \A j \in 1..(m + 1 - 1) : f[e[j] + 2] \notin SOF
      BY <1>1
    <3> QED
      BY <1>1, <2>1, <3>1 DEF JpegFrame
  <2>2. CASE f[e[m + 1] + 2] \notin SOF
    <3>1. \A i \in 1..(m + 1) : f[e[i] + 2] \notin SOF
      BY <1>1, <2>2
    <3> QED
      BY <1>1, <2>2, <3>1 DEF JpegFrame
  <2> QED
    BY <2>1, <2>2
<1>2. ASSUME NEW i \in 1..m, f[c[i] + 2] \in SOF,
             \A j \in 1..(i - 1) : f[c[j] + 2] \notin SOF,
             JpegHeader(f, c[i]) >= 8, d = <<f[c[i] + 7], f[c[i] + 6]>>
      PROVE  JpegFrame(f, e, m + 1, dd)
  <2>1. d # NoDims
    BY <1>2 DEF NoDims
  <2>2. dd = d
    BY <2>1
  <2>3. i \in 1..(m + 1) /\ e[i] = c[i] /\ \A j \in 1..(i - 1) : e[j] = c[j]
    BY <1>2
  <2> QED
    BY <1>2, <2>2, <2>3 DEF JpegFrame
<1> QED
  BY <1>1, <1>2 DEF JpegFrame

\* One more part found.
LEMMA JpegFoundGrows ==
    ASSUME NEW f, NEW s \in Seq(Parts), NEW at, NEW d, JpegFound(f, s, at, d),
           NEW p \in Parts, NEW to, NEW e, JpegFinds(f, p, at, to, d, e),
           Len(s) < MaxSegments
    PROVE  JpegFound(f, Append(s, p), to, e)
<1> DEFINE m == Len(s)
           t == Append(s, p)
           b == Begins(s)
           c == Begins(t)
<1>1. m \in Nat
  BY LenProperties
<1>2. Len(t) = m + 1 /\ t[m + 1] = p /\ \A i \in 1..m : t[i] = s[i]
  BY AppendProperties
<1> HIDE DEF t
<1>3. c[m + 1] = p.start /\ \A i \in 1..m : c[i] = b[i]
  BY <1>1, <1>2 DEF Begins
<1>4. ASSUME NEW i \in 1..Len(t)
      PROVE  /\ JpegPart(f, t[i])
             /\ t[i].kind = "segment" => t[i].end = to \/ f[t[i].end + 1] = FF
  <2>1. CASE i \in 1..m
    <3>1. /\ JpegPart(f, s[i])
          /\ s[i].kind = "segment" => s[i].end = at \/ f[s[i].end + 1] = FF
      BY <2>1 DEF JpegFound
    <3>2. f[at + 1] = FF
      BY DEF JpegFinds
    <3> QED
      BY <1>2, <2>1, <3>1, <3>2
  <2>2. CASE i = m + 1
    BY <1>2, <2>2 DEF JpegFinds
  <2> QED
    BY <1>1, <1>2, <2>1, <2>2
<1> HIDE DEF b, c
<1>5. JpegFrame(f, c, m + 1, e)
  <2>1. JpegFrame(f, b, m, d)
    BY DEF JpegFound, b
  <2>2. IF f[c[m + 1] + 2] \in SOF /\ d = NoDims
        THEN JpegHeader(f, c[m + 1]) >= 8 /\ e = <<f[c[m + 1] + 7], f[c[m + 1] + 6]>>
        ELSE e = d
    <3>1. p.marker = f[p.start + 2]
      BY DEF JpegFinds, JpegPart
    <3> QED
      BY <1>3, <3>1 DEF JpegFinds
  <2> QED
    BY <1>1, <1>3, <2>1, <2>2, FrameGrows
<1>6. Len(t) <= MaxSegments /\ 2 <= to
  BY <1>1, <1>2, BoundsAssumption DEF JpegFinds
<1> QED
  BY <1>2, <1>4, <1>5, <1>6 DEF JpegFound, t, c

JpegTurns == JpegEoi \/ JpegStandalone \/ JpegSos \/ JpegSegment

\* The FF in front of the marker a turn stands on.
LEMMA MarkerBehindFF ==
    ASSUME WalkInv, NEW at, at = MarkerAt(offset), JpegTurn(at)
    PROVE  /\ at \in Nat /\ at > offset /\ at < Len(file)
           /\ offset \in Nat /\ Len(file) \in Nat /\ file \in Seq(Nat)
           /\ Byte(at) \in Nat /\ file[at] = FF /\ file[offset + 1] = FF
           /\ at - 1 \in Nat /\ at - 1 + 2 = at + 1 /\ at - 1 + 1 = at
<1>1. /\ at \in Nat /\ at > offset /\ at < Len(file) /\ Byte(at) \in Nat
      /\ offset \in Nat /\ Len(file) \in Nat /\ file \in Seq(Nat)
  BY TurnStandsOnAMarker
<1>2. \A j \in offset..(at - 1) : Byte(j) = FF
  <2>1. offset <= Len(file)
    BY <1>1
  <2> QED
    BY <1>1, <2>1, MarkerIs
<1>3. Byte(at - 1) = FF /\ Byte(offset) = FF
  BY <1>1, <1>2
<1>4. at - 1 + 1 = at /\ at - 1 + 2 = at + 1 /\ at - 1 \in Nat
  BY <1>1
<1> QED
  BY <1>1, <1>3, <1>4 DEF Byte

\* The fields of a part that starts at b, and what its marker is.
PartBegins(p, kind, b, to) ==
    /\ p \in Parts /\ p.start = b /\ p.end = to
    /\ p.payload = b + 4 /\ p.kind = kind /\ p.marker = file[b + 2]

LEMMA PartOf ==
    ASSUME NEW at \in Nat, NEW b \in Nat, b = at - 1, NEW kind \in Kinds,
           NEW to \in Nat, file[at + 1] \in Nat
    PROVE  PartBegins(Part(kind, at, to), kind, b, to)
<1>1. b + 4 = at + 3 /\ b + 2 = at + 1 /\ at + 3 \in Nat
  OBVIOUS
<1> QED
  BY <1>1 DEF Part, Parts, PartBegins, Byte

\* A turn at a marker with a length.
LEMMA HeaderOf ==
    ASSUME WalkInv, NEW at, at = MarkerAt(offset), JpegTurn(at), ~Bare(Byte(at)),
           NEW b, b = at - 1
    PROVE  /\ JpegHeader(file, b) \in Nat /\ JpegHeader(file, b) >= 4
           /\ at + 1 + LengthAt(at) = b + JpegHeader(file, b)
           /\ b + JpegHeader(file, b) <= Len(file)
           /\ FirstFrame(Byte(at)) => JpegHeader(file, b) >= 8
<1> DEFINE l == LengthAt(at)
<1>1. /\ at \in Nat /\ b \in Nat
  BY MarkerBehindFF
<1>2. l \in Nat /\ l >= 2 /\ at + 1 + l <= Len(file)
  BY LengthEndsInFile
<1>3. JpegHeader(file, b) = 2 + l
  <2>1. b + 3 = at + 1 + 1 /\ b + 4 = at + 2 + 1
    BY <1>1
  <2>2. l = file[b + 3] * 256 + file[b + 4]
    BY <2>1 DEF LengthAt, Byte
  <2>3. JpegHeader(file, b) = 2 + file[b + 3] * 256 + file[b + 4]
    BY DEF JpegHeader
  <2>4. file[b + 3] \in Nat /\ file[b + 4] \in Nat
    <3>1. Len(file) \in Nat /\ file \in Seq(Nat)
      BY MarkerBehindFF
    <3>2. at + 3 <= Len(file)
      BY DEF JpegTurn, TurnSound, LengthSound
    <3>3. b + 3 \in 1..Len(file) /\ b + 4 \in 1..Len(file)
      BY <1>1, <3>1, <3>2
    <3> QED
      BY <3>1, <3>3
  <2>5. \A y, z \in Nat : 2 + y * 256 + z = 2 + (y * 256 + z)
    OBVIOUS
  <2> HIDE DEF l
  <2> QED
    BY <2>2, <2>3, <2>4, <2>5
<1>4. FirstFrame(Byte(at)) => l - 2 >= 4
  BY DEF JpegTurn, TurnSound, LengthSound, FrameHeader
<1> DEFINE x == JpegHeader(file, b)
<1> HIDE DEF l, x
<1>5. x = 2 + l
  BY <1>3 DEF x
<1>6. /\ x \in Nat /\ x >= 4 /\ at + 1 + l = b + x /\ b + x <= Len(file)
      /\ FirstFrame(Byte(at)) => x >= 8
  BY <1>1, <1>2, <1>4, <1>5
<1> QED
  BY <1>6 DEF l, x

\* A turn at a marker without a length.
LEMMA BareFinds ==
    ASSUME WalkInv, 2 <= offset, JpegEoi \/ JpegStandalone
    PROVE  \E p \in Parts : /\ segments' = Append(segments, p)
                            /\ JpegFinds(file, p, offset, offset', dims, dims')
<1> DEFINE at == MarkerAt(offset)
           kind == IF Byte(at) = EOI THEN "eoi" ELSE "standalone"
           b == at - 1
           p == Part(kind, at, at + 1)
<1>1. JpegTurn(at) /\ segments' = Append(segments, p) /\ dims' = dims /\ Bare(Byte(at))
  <2>1. CASE JpegEoi
    BY <2>1 DEF JpegEoi, Walked, Bare
  <2>2. CASE JpegStandalone
    <3>1. Byte(at) # EOI
      BY <2>2 DEF JpegStandalone, EOI, TEM, RST
    <3> QED
      BY <2>2, <3>1 DEF JpegStandalone, Walked, Bare
  <2> QED
    BY <2>1, <2>2
<1> DEFINE to == at + 1
<1>1a. at > offset /\ offset \in Nat /\ at \in Nat /\ Len(file) \in Nat
       /\ at < Len(file)
  BY <1>1, MarkerBehindFF
<1>1b. 2 <= offset'
  BY <1>1a DEF JpegEoi, JpegStandalone, Walked
<1>2. /\ at \in Nat /\ b \in Nat /\ at < Len(file) /\ Byte(at) \in Nat
      /\ file[offset + 1] = FF /\ b + 2 = at + 1 /\ b + 1 = at /\ to \in Nat
      /\ Len(file) \in Nat
  <2>1. /\ b \in Nat /\ Byte(at) \in Nat /\ file[offset + 1] = FF
        /\ b + 2 = at + 1 /\ b + 1 = at
    BY <1>1, MarkerBehindFF
  <2> HIDE DEF at, b
  <2> QED
    BY <1>1a, <2>1
<1>3. kind \in Kinds /\ kind \in {"eoi", "standalone"} /\ kind # "segment" /\ kind # "sos"
      /\ kind \notin {"segment", "sos"}
  BY DEF Kinds
<1>4. p = Part(kind, at, to)
  OBVIOUS
<1> HIDE DEF kind, at, p
<1>5. /\ p \in Parts /\ p.start = b /\ p.end = to /\ p.kind = kind
      /\ p.marker = file[b + 2]
  <2>1. b = at - 1 /\ file[at + 1] \in Nat
    BY <1>2 DEF Byte
  <2> HIDE DEF b, to
  <2>2. PartBegins(Part(kind, at, to), kind, b, to)
    BY <1>2, <1>3, <2>1, PartOf
  <2> QED
    BY <1>4, <2>2 DEF PartBegins
<1>6. JpegPart(file, p)
  <2>1. Bare(p.marker)
    BY <1>1, <1>2, <1>5 DEF Byte
  <2>2. b < to /\ to <= Len(file) /\ 2 <= b
    BY <1>1a, <1>2
  <2> QED
    BY <1>2, <1>3, <1>5, <2>1, <2>2 DEF JpegPart
<1>7. p.marker \notin SOF
  <2>1. Bare(p.marker)
    BY <1>1, <1>2, <1>5 DEF Byte
  <2>2. \A y : Bare(y) => y \notin SOF
    BY DEF Bare, SOF, EOI, TEM, RST
  <2> QED
    BY <2>1, <2>2
<1>8. JpegFinds(file, p, offset, offset', dims, dims')
  BY <1>1, <1>1b, <1>2, <1>3, <1>5, <1>6, <1>7 DEF JpegFinds
<1> QED
  BY <1>1, <1>5, <1>8

\* A turn at a scan.
LEMMA SosFinds ==
    ASSUME WalkInv, 2 <= offset, JpegSos
    PROVE  \E p \in Parts : /\ segments' = Append(segments, p)
                            /\ JpegFinds(file, p, offset, offset', dims, dims')
<1> DEFINE at == MarkerAt(offset)
           from == at + 1 + LengthAt(at)
           to == FindScanEnd(from)
           b == at - 1
           p == Part("sos", at, to)
           x == JpegHeader(file, b)
<1>1. JpegTurn(at) /\ segments' = Append(segments, p) /\ dims' = dims /\ Byte(at) = SOS
      /\ offset' = to
  BY DEF JpegSos, Walked
<1>2. ~Bare(Byte(at))
  BY <1>1 DEF Bare, SOS, EOI, TEM, RST
<1>3. /\ at \in Nat /\ b \in Nat /\ at < Len(file) /\ Byte(at) \in Nat
      /\ file[at] = FF /\ file[offset + 1] = FF /\ b + 2 = at + 1 /\ b + 1 = at
      /\ Len(file) \in Nat /\ file \in Seq(Nat)
  BY <1>1, MarkerBehindFF
<1>3a. b = at - 1 /\ at > offset /\ offset \in Nat
  BY <1>1, MarkerBehindFF
<1>4. /\ x \in Nat /\ x >= 4 /\ from = b + x /\ b + x <= Len(file)
  BY <1>1, <1>2, HeaderOf
<1>5. p = Part("sos", at, to) /\ to = FindScanEnd(from)
  OBVIOUS
<1> HIDE DEF at, p, x, from, to, b
<1>6. /\ to \in from..Len(file)
      /\ \A j \in from..(to - 1) : ~EndsScan(j)
  <2>1. from \in Nat /\ from <= Len(file)
    BY <1>3, <1>4
  <2> QED
    BY <1>3, <1>5, <2>1, ScanEndIs
<1>7. to \in Nat /\ to <= Len(file) /\ b + x <= to /\ b < to /\ 2 <= b /\ 2 <= to
  BY <1>3, <1>3a, <1>4, <1>6
<1>8. /\ p \in Parts /\ p.start = b /\ p.end = to /\ p.payload = b + 4 /\ p.kind = "sos"
      /\ p.marker = file[b + 2]
  <2>1. b = at - 1 /\ file[at + 1] \in Nat /\ "sos" \in Kinds
    BY <1>3 DEF Byte, b, Kinds
  <2> QED
    <3>1. PartBegins(Part("sos", at, to), "sos", b, to)
      BY <1>3, <1>7, <2>1, PartOf, Zenon
    <3> QED
      BY <1>5, <3>1 DEF PartBegins
<1>9. ScanBytes(file, b, x, to - b)
  <2> SUFFICES ASSUME NEW j \in (x + 1)..(to - b - 1), file[b + j] = FF
               PROVE  file[b + j + 1] \in {FF, 0} \cup RST
    BY DEF ScanBytes
  <2> DEFINE i == b + j - 1
  <2>1. i \in from..(to - 1) /\ i + 1 < Len(file) /\ i + 1 = b + j /\ i + 1 + 1 = b + j + 1
    BY <1>3, <1>4, <1>7
  <2> HIDE DEF i
  <2>2. ~EndsScan(i)
    BY <1>6, <2>1
  <2> QED
    BY <2>1, <2>2 DEF EndsScan, Byte
<1>10. p.marker = SOS /\ ~Bare(p.marker)
  BY <1>1, <1>2, <1>3, <1>8 DEF Byte
<1>11. JpegPart(file, p)
  BY <1>3, <1>4, <1>7, <1>8, <1>9, <1>10 DEF JpegPart, x, Kinds
<1>12. p.marker \notin SOF
  BY <1>10 DEF SOF, SOS
<1>13. JpegFinds(file, p, offset, offset', dims, dims')
  BY <1>1, <1>3, <1>7, <1>8, <1>11, <1>12 DEF JpegFinds
<1> QED
  BY <1>1, <1>8, <1>13

\* A turn at any other segment.
LEMMA SegmentFinds ==
    ASSUME WalkInv, 2 <= offset, JpegSegment
    PROVE  \E p \in Parts : /\ segments' = Append(segments, p)
                            /\ JpegFinds(file, p, offset, offset', dims, dims')
<1> DEFINE at == MarkerAt(offset)
           to == at + 1 + LengthAt(at)
           b == at - 1
           p == Part("segment", at, to)
           x == JpegHeader(file, b)
<1>1. /\ JpegTurn(at) /\ segments' = Append(segments, p) /\ offset' = to
      /\ dims' = IF FirstFrame(Byte(at)) THEN <<Byte(at + 5), Byte(at + 4)>> ELSE dims
      /\ ~Bare(Byte(at)) /\ Byte(at) # SOS
  BY DEF JpegSegment, Walked
<1>3. /\ at \in Nat /\ b \in Nat /\ at < Len(file) /\ Byte(at) \in Nat
      /\ file[at] = FF /\ file[offset + 1] = FF /\ b + 2 = at + 1 /\ b + 1 = at
      /\ Len(file) \in Nat /\ file \in Seq(Nat)
  BY <1>1, MarkerBehindFF
<1>3a. b = at - 1 /\ at > offset /\ offset \in Nat
  BY <1>1, MarkerBehindFF
<1>4. /\ x \in Nat /\ x >= 4 /\ to = b + x /\ b + x <= Len(file)
      /\ FirstFrame(Byte(at)) => x >= 8
  BY <1>1, HeaderOf
<1>5. p = Part("segment", at, to) /\ b = at - 1
  OBVIOUS
<1> HIDE DEF at, p, x, to, b
<1>7. to \in Nat /\ to <= Len(file) /\ b + x <= to /\ b < to /\ 2 <= b /\ 2 <= to
  BY <1>3, <1>3a, <1>4
<1>8. /\ p \in Parts /\ p.start = b /\ p.end = to /\ p.payload = b + 4
      /\ p.kind = "segment" /\ p.marker = file[b + 2]
  <2>1. b = at - 1 /\ file[at + 1] \in Nat /\ "segment" \in Kinds
    BY <1>3, <1>5 DEF Byte, Kinds
  <2> QED
    <3>1. PartBegins(Part("segment", at, to), "segment", b, to)
      BY <1>3, <1>7, <2>1, PartOf, Zenon
    <3> QED
      BY <1>5, <3>1 DEF PartBegins
<1>10. p.marker = Byte(at)
  BY <1>3, <1>8 DEF Byte
<1>11. JpegPart(file, p)
  BY <1>1, <1>3, <1>4, <1>7, <1>8, <1>10 DEF JpegPart, x, Kinds
<1>12. b + 6 = at + 4 + 1 /\ b + 7 = at + 5 + 1
  BY <1>3, <1>5
<1>13. JpegFinds(file, p, offset, offset', dims, dims')
  <2>1. IF p.marker \in SOF /\ dims = NoDims
        THEN JpegHeader(file, p.start) >= 8
             /\ dims' = <<file[p.start + 7], file[p.start + 6]>>
        ELSE dims' = dims
    BY <1>1, <1>4, <1>8, <1>10, <1>12 DEF FirstFrame, Byte, x
  <2> QED
    BY <1>1, <1>3, <1>7, <1>8, <1>11, <2>1 DEF JpegFinds
<1> QED
  BY <1>1, <1>8, <1>13

\* Every turn of walkJpeg finds a part as JpegFound describes.
LEMMA JpegTurnFinds ==
    ASSUME WalkInv, JpegFound(file, segments, offset, dims), JpegTurns
    PROVE  JpegFound(file, segments', offset', dims')
<1>1. segments \in Seq(Parts) /\ 2 <= offset
  BY DEF WalkInv, PartsTyped, JpegFound
<1>2. Len(segments) < MaxSegments
  BY DEF JpegTurns, JpegEoi, JpegStandalone, JpegSos, JpegSegment, JpegTurn, TurnSound
<1>3. PICK p \in Parts : /\ segments' = Append(segments, p)
                         /\ JpegFinds(file, p, offset, offset', dims, dims')
  BY <1>1, BareFinds, SosFinds, SegmentFinds DEF JpegTurns
<1> DEFINE to == offset'
           e == dims'
<1>4. JpegFinds(file, p, offset, to, dims, e)
  BY <1>3
<1> HIDE DEF to, e
<1>5. JpegFound(file, Append(segments, p), to, e)
  BY <1>1, <1>2, <1>4, JpegFoundGrows
<1> QED
  BY <1>3, <1>5 DEF to, e

-----------------------------------------------------------------------------
(* What is written of a JPEG.                                              *)

\* A kept part says by itself that it is kept.
LEMMA KeptIsPiece ==
    ASSUME NEW p, JpegPart(file, p), JpegKept(p), file \in Seq(Nat),
           p.kind = "segment" => p.end >= Len(file) \/ file[p.end + 1] = FF
    PROVE  Piece("jpeg", file, p.start, p.end)
<1> DEFINE a == p.start
           b == p.end
           x == JpegHeader(file, a)
<1>1. Len(file) \in Nat
  BY LenProperties
<1>2. p.kind \in {"segment", "sos"}
  BY DEF JpegKept
<1>3. /\ a \in Nat /\ b \in Nat /\ b <= Len(file) /\ p.marker = file[a + 2]
      /\ ~Bare(p.marker) /\ file[a + 1] = FF /\ p.payload = a + 4
      /\ x \in Nat /\ x >= 4 /\ a + x <= b
  BY <1>2 DEF JpegPart
<1> HIDE DEF x, a, b
<1>4. a + 4 <= b /\ b - a \in Nat
  BY <1>3
<1>5. CASE p.kind = "sos"
  <2>1. p.marker = SOS /\ ScanBytes(file, a, x, b - a)
    BY <1>5 DEF JpegPart, a, b, x
  <2>2. SOS \in PieceMarkers /\ SOS # APP0
    BY DEF SOS, PieceMarkers, KeptMarkers, EOI, APP0
  <2> QED
    BY <1>3, <1>4, <2>1, <2>2 DEF Piece, JpegPiece, x, a, b
<1>6. CASE p.kind = "segment"
  <2>1. p.marker # SOS /\ b = a + x
    BY <1>6 DEF JpegPart, a, b, x
  <2>2. ScanBytes(file, a, x, b - a)
    BY <1>3, <2>1 DEF ScanBytes
  <2>3. IsJfif(p) \/ p.marker \in SOF \cup KeptMarkers
    BY <1>6 DEF JpegKept
  <2>4. p.marker \in PieceMarkers
    BY <1>3, <2>3 DEF PieceMarkers, IsJfif, Bare, APP0, EOI
  <2>5. ASSUME p.marker = APP0 PROVE x >= 5 /\ file[a + 5] = JfifId
    <3>1. p.marker \notin SOF \cup KeptMarkers
      BY <2>5 DEF APP0, SOF, KeptMarkers, SOS, EOI
    <3>2. a + 4 < Len(file) /\ file[a + 4 + 1] = JfifId
      BY <1>3, <2>3, <3>1 DEF IsJfif, Has, Byte
    <3>3. a + 4 + 1 = a + 5
      BY <1>3
    <3>4. x # 4
      <4> SUFFICES ASSUME x = 4 PROVE FALSE
        OBVIOUS
      <4>1. b = a + 4
        BY <2>1
      <4>2. file[b + 1] = FF
        BY <1>1, <1>3, <1>6, <3>2, <4>1 DEF b
      <4> QED
        BY <3>2, <4>1, <4>2 DEF FF, JfifId
    <3> QED
      BY <1>3, <3>2, <3>3, <3>4
  <2> QED
    BY <1>3, <1>4, <2>1, <2>2, <2>4, <2>5 DEF Piece, JpegPiece, x, a, b
<1> QED
  BY <1>2, <1>5, <1>6

\* A piece of a JPEG lies in its file with its header.
LEMMA HeaderIn ==
    ASSUME NEW f \in Seq(Nat), NEW from, NEW to \in Nat, NEW c, NEW n,
           Row("jpeg", f, from, to, c, n), NEW k \in 1..n
    PROVE  /\ c[k] \in Nat /\ c[k + 1] \in Nat
           /\ JpegHeader(f, c[k]) \in Nat /\ JpegHeader(f, c[k]) >= 4
           /\ c[k] + JpegHeader(f, c[k]) <= c[k + 1] /\ c[k + 1] <= to /\ to <= Len(f)
           /\ f[c[k] + 1] = FF /\ f[c[k] + 2] \in PieceMarkers
<1> DEFINE a == c[k]
           b == c[k + 1]
           x == JpegHeader(f, a)
<1>1. /\ a \in Nat /\ b \in Nat /\ b <= to /\ Piece("jpeg", f, a, b) /\ b <= Len(f)
  BY PieceAt
<1>2. to <= Len(f)
  BY DEF Row
<1> HIDE DEF a, b
<1>3. a + 4 <= b /\ x >= 4 /\ a + x <= b /\ f[a + 1] = FF /\ f[a + 2] \in PieceMarkers
  BY <1>1 DEF Piece, JpegPiece
<1>4. f[a + 3] \in Nat /\ f[a + 4] \in Nat
  <2>1. Len(f) \in Nat
    BY LenProperties
  <2>2. a + 3 \in 1..Len(f) /\ a + 4 \in 1..Len(f)
    BY <1>1, <1>3, <2>1
  <2> QED
    BY <2>2
<1>5. x \in Nat
  <2>1. \A y, z \in Nat : 2 + y * 256 + z \in Nat
    OBVIOUS
  <2> QED
    BY <1>4, <2>1 DEF JpegHeader
<1> QED
  BY <1>1, <1>2, <1>3, <1>5 DEF a, b, x

SameHeader(h, g, a) ==
    /\ h[a + 2] = g[a + 2] /\ JpegHeader(h, a) = JpegHeader(g, a)
    /\ JpegHeader(g, a) >= 8 => h[a + 7] = g[a + 7] /\ h[a + 6] = g[a + 6]

\* Writing behind a row leaves its headers,
LEMMA HeadersStay ==
    ASSUME NEW g \in Seq(Nat), NEW from, NEW c, NEW n, Row("jpeg", g, from, Len(g), c, n),
           NEW h, \A i \in 1..Len(g) : h[i] = g[i]
    PROVE  \A k \in 1..n : SameHeader(h, g, c[k])
<1>1. Len(g) \in Nat /\ n \in Nat
  BY LenProperties DEF Row
<1>2. ASSUME NEW k \in 1..n PROVE SameHeader(h, g, c[k])
  <2> DEFINE a == c[k]
             x == JpegHeader(g, a)
             e == Len(g)
  <2>0. e \in Nat /\ Row("jpeg", g, from, e, c, n)
    BY <1>1
  <2> HIDE DEF e
  <2>1. a \in Nat /\ c[k + 1] \in Nat /\ x \in Nat /\ x >= 4 /\ a + x <= c[k + 1] /\ c[k + 1] <= e
    BY <2>0, HeaderIn
  <2> HIDE DEF a, x
  <2>2. a + x <= Len(g)
    BY <2>0, <2>1 DEF e
  <2>3. h[a + 2] = g[a + 2] /\ h[a + 3] = g[a + 3] /\ h[a + 4] = g[a + 4]
    <3>1. a + 2 \in 1..Len(g) /\ a + 3 \in 1..Len(g) /\ a + 4 \in 1..Len(g)
      BY <1>1, <2>1, <2>2
    <3> QED
      BY <3>1
  <2>4. x >= 8 => h[a + 7] = g[a + 7] /\ h[a + 6] = g[a + 6]
    <3>1. x >= 8 => a + 7 \in 1..Len(g) /\ a + 6 \in 1..Len(g)
      BY <1>1, <2>1, <2>2
    <3> QED
      BY <3>1
  <2>5. JpegHeader(h, a) = JpegHeader(g, a)
    BY <2>3 DEF JpegHeader
  <2> QED
    BY <2>3, <2>4, <2>5 DEF a, x, SameHeader
<1> QED
  BY <1>2

\* and what they say of the size.
LEMMA FrameStays ==
    ASSUME NEW g \in Seq(Nat), NEW from, NEW c, NEW n, Row("jpeg", g, from, Len(g), c, n),
           NEW h, \A i \in 1..Len(g) : h[i] = g[i], NEW d, JpegFrame(g, c, n, d)
    PROVE  JpegFrame(h, c, n, d)
<1>1. n \in Nat
  BY DEF Row
<1>2. \A k \in 1..n : SameHeader(h, g, c[k])
  BY HeadersStay
<1>3. CASE d = NoDims /\ \A i \in 1..n : g[c[i] + 2] \notin SOF
  BY <1>2, <1>3 DEF JpegFrame, SameHeader
<1>4. ASSUME NEW i \in 1..n, g[c[i] + 2] \in SOF,
             \A j \in 1..(i - 1) : g[c[j] + 2] \notin SOF,
             JpegHeader(g, c[i]) >= 8, d = <<g[c[i] + 7], g[c[i] + 6]>>
      PROVE  JpegFrame(h, c, n, d)
  <2>1. h[c[i] + 2] \in SOF /\ JpegHeader(h, c[i]) >= 8
    BY <1>2, <1>4 DEF SameHeader
  <2>2. d = <<h[c[i] + 7], h[c[i] + 6]>>
    BY <1>2, <1>4 DEF SameHeader
  <2>3. \A j \in 1..(i - 1) : h[c[j] + 2] \notin SOF
    <3>1. \A j \in 1..(i - 1) : j \in 1..n
      BY <1>1
    <3>2. \A j \in 1..n : h[c[j] + 2] = g[c[j] + 2]
      BY <1>2 DEF SameHeader
    <3> QED
      BY <1>4, <3>1, <3>2
  <2> QED
    BY <2>1, <2>2, <2>3 DEF JpegFrame
<1> QED
  BY <1>3, <1>4 DEF JpegFrame

\* What is known of the size once m of the parts have been looked at.
Seen(s, m, d) == IF \E i \in 1..m : s[i].marker \in SOF THEN d ELSE NoDims

HasScan(f, c, n) == \E j \in 1..n : f[c[j] + 2] = SOS

\* The rebuild at part k, with g written so far.
JpegWritten(g, f, s, k, d, c, n) ==
    /\ Row("jpeg", g, 2, Len(g), c, n) /\ g[1] = FF /\ g[2] = SOI
    /\ n < k /\ k \in 1..(Len(s) + 1)
    /\ Len(g) <= IF k = 1 THEN 2 ELSE s[k - 1].end
    /\ JpegFrame(g, c, n, Seen(s, k - 1, d))
    /\ (\E i \in 1..(k - 1) : s[i].kind = "sos") => HasScan(g, c, n)

\* While the parts of f are copied, what the walk found of it stands.
JpegStands(f, s, at, d) ==
    /\ JpegFound(f, s, at, d) /\ d # NoDims /\ at >= Len(f)
    /\ \E i \in 1..Len(s) : s[i].kind = "sos"

\* The SOI alone is a row of no parts.
LEMMA JpegBegins ==
    ASSUME NEW f, NEW s, NEW d, Len(s) \in Nat
    PROVE  \E c : JpegWritten(<<FF, SOI>>, f, s, 1, d, c, 0)
<1> DEFINE g == <<FF, SOI>>
           c == [k \in 1..1 |-> 2]
<1>1. /\ Len(g) = 2 /\ g[1] = FF /\ g[2] = SOI
      /\ 0 + 1 = 1 /\ c \in [1..1 -> Nat] /\ c[1] = 2
  OBVIOUS
<1> HIDE DEF g, c
<1>2. Row("jpeg", g, 2, Len(g), c, 0)
  BY <1>1 DEF Row
<1>3. Seen(s, 1 - 1, d) = NoDims
  BY DEF Seen
<1>4. JpegFrame(g, c, 0, Seen(s, 1 - 1, d))
  BY <1>3 DEF JpegFrame
<1>5. ~(\E i \in 1..(1 - 1) : s[i].kind = "sos") /\ 1 \in 1..(Len(s) + 1)
  OBVIOUS
<1>6. JpegWritten(g, f, s, 1, d, c, 0)
  BY <1>1, <1>2, <1>4, <1>5 DEF JpegWritten
<1> QED
  BY <1>6 DEF g

\* A part that is not copied is neither a frame header nor a scan.
LEMMA JpegPassesOver ==
    ASSUME WalkInv, JpegStands(file, segments, offset, dims), JpegSkip \/ JpegDrop,
           NEW c, NEW n, JpegWritten(out, file, segments, next, dims, c, n)
    PROVE  JpegWritten(out', file, segments, next', dims, c, n)
<1> DEFINE p == segments[next]
<1>1. /\ next \in Nat /\ next <= Len(segments) /\ next' = next + 1 /\ out' = out
      /\ \/ p.kind \in {"eoi", "standalone"}
         \/ p.kind = "segment" /\ ~JpegKept(p)
  BY DEF WalkInv, MadeOfBytes, JpegSkip, JpegDrop, JpegStripping, LeftOut
<1>2. /\ Row("jpeg", out, 2, Len(out), c, n) /\ out[1] = FF /\ out[2] = SOI
      /\ n < next /\ next \in 1..(Len(segments) + 1)
      /\ Len(out) <= IF next = 1 THEN 2 ELSE segments[next - 1].end
      /\ JpegFrame(out, c, n, Seen(segments, next - 1, dims))
      /\ (\E i \in 1..(next - 1) : segments[i].kind = "sos") => HasScan(out, c, n)
  BY DEF JpegWritten
<1>3. n \in Nat /\ Len(segments) \in Nat /\ Len(out) \in Nat
  BY <1>2, LenProperties DEF WalkInv, PartsTyped, MadeOfBytes, Row
<1>4. next \in 1..Len(segments)
  BY <1>1, <1>2, <1>3
<1>5. JpegPart(file, p)
  BY <1>4 DEF JpegStands, JpegFound
<1>6. p.marker \notin SOF /\ p.kind # "sos"
  <2>1. CASE p.kind \in {"eoi", "standalone"}
    <3>1. Bare(p.marker)
      BY <1>5, <2>1 DEF JpegPart
    <3>2. \A y : Bare(y) => y \notin SOF
      BY DEF Bare, SOF, EOI, TEM, RST
    <3> QED
      BY <2>1, <3>1, <3>2
  <2>2. CASE p.kind = "segment" /\ ~JpegKept(p)
    <3>1. APP1 \notin SOF
      BY DEF APP1, SOF
    <3>2. p.marker \notin SOF
      BY <2>2, <3>1 DEF JpegKept, IsExif
    <3> QED
      BY <2>2, <3>2
  <2> QED
    BY <1>1, <2>1, <2>2
<1>7. next' - 1 = next /\ next' \in 1..(Len(segments) + 1) /\ n < next' /\ next' # 1
  <2>1. next \in Nat /\ next' = next + 1 /\ next >= 1 /\ next <= Len(segments) /\ n < next
    BY <1>1, <1>2, <1>4
  <2> QED
    BY <1>3, <2>1
<1>8. \A i \in 1..next : i \in 1..(next - 1) \/ i = next
  BY <1>1
<1>8a. \A i \in 1..(next - 1) : i \in 1..next
  BY <1>1
<1> HIDE DEF p
<1>9. Seen(segments, next, dims) = Seen(segments, next - 1, dims)
  BY <1>6, <1>8, <1>8a DEF Seen, p
<1>10. (\E i \in 1..next : segments[i].kind = "sos") => HasScan(out, c, n)
  BY <1>2, <1>6, <1>8 DEF p
<1>11. Len(out) <= segments[next].end
  <2>1. /\ segments[next].start \in Nat /\ segments[next].end \in Nat
        /\ segments[next].start < segments[next].end /\ 2 <= segments[next].start
    BY <1>5 DEF JpegPart, p
  <2>2. CASE next = 1
    BY <1>2, <1>3, <2>1, <2>2
  <2>3. CASE next # 1
    <3> DEFINE j == next - 1
    <3>1. j \in 1..Len(segments) /\ j < next
      BY <1>1, <1>4, <2>3
    <3> HIDE DEF j
    <3>2. segments[j].end <= segments[next].start
      BY <1>4, <3>1 DEF WalkInv, PartsFollowOneAnother
    <3>3. segments[j].end \in Nat
      BY <3>1 DEF JpegStands, JpegFound, JpegPart
    <3>4. Len(out) <= segments[j].end
      BY <1>2, <2>3 DEF j
    <3> QED
      BY <1>3, <2>1, <3>2, <3>3, <3>4
  <2> QED
    BY <2>2, <2>3
<1>12. Len(out') <= IF next' = 1 THEN 2 ELSE segments[next' - 1].end
  BY <1>1, <1>7, <1>11
<1>13. JpegFrame(out', c, n, Seen(segments, next' - 1, dims))
  BY <1>1, <1>2, <1>7, <1>9
<1>14. (\E i \in 1..(next' - 1) : segments[i].kind = "sos") => HasScan(out', c, n)
  BY <1>1, <1>7, <1>10
<1> QED
  BY <1>1, <1>2, <1>7, <1>12, <1>13, <1>14 DEF JpegWritten

\* Where the last part before k ends, what has been written still fits.
LEMMA RoomBefore ==
    ASSUME WalkInv, JpegStands(file, segments, offset, dims), next \in 1..Len(segments),
           Len(out) <= IF next = 1 THEN 2 ELSE segments[next - 1].end
    PROVE  Len(out) <= segments[next].start
<1>1. next \in Nat /\ Len(segments) \in Nat /\ Len(out) \in Nat
  BY LenProperties DEF WalkInv, PartsTyped, MadeOfBytes
<1>2. segments[next].start \in Nat /\ 2 <= segments[next].start
  BY DEF JpegStands, JpegFound, JpegPart
<1>3. CASE next = 1
  BY <1>1, <1>2, <1>3
<1>4. CASE next # 1
  <2> DEFINE j == next - 1
  <2>1. j \in 1..Len(segments) /\ j < next
    BY <1>1, <1>4
  <2> HIDE DEF j
  <2>2. segments[j].end <= segments[next].start
    BY <2>1 DEF WalkInv, PartsFollowOneAnother
  <2>3. segments[j].end \in Nat
    BY <2>1 DEF JpegStands, JpegFound, JpegPart
  <2>4. Len(out) <= segments[j].end
    BY <1>4 DEF j
  <2> QED
    BY <1>1, <1>2, <2>2, <2>3, <2>4
<1> QED
  BY <1>3, <1>4

\* The first frame header of the file is the one that gave the size.
LEMMA FirstFrameIs ==
    ASSUME NEW f, NEW s, NEW at, NEW d, JpegStands(f, s, at, d), NEW k \in 1..Len(s),
           Len(s) \in Nat, s[k].marker \in SOF, \A i \in 1..(k - 1) : s[i].marker \notin SOF
    PROVE  /\ JpegHeader(f, s[k].start) >= 8
           /\ d = <<f[s[k].start + 7], f[s[k].start + 6]>>
<1> DEFINE b == Begins(s)
<1>1. \A i \in 1..Len(s) : s[i].marker = f[b[i] + 2] /\ b[i] = s[i].start
  BY DEF JpegStands, JpegFound, JpegPart, Begins
<1> HIDE DEF b
<1>2. JpegFrame(f, b, Len(s), d) /\ d # NoDims
  BY DEF JpegStands, JpegFound, b
<1>3. PICK i \in 1..Len(s) :
         /\ f[b[i] + 2] \in SOF /\ \A j \in 1..(i - 1) : f[b[j] + 2] \notin SOF
         /\ JpegHeader(f, b[i]) >= 8 /\ d = <<f[b[i] + 7], f[b[i] + 6]>>
  BY <1>2 DEF JpegFrame
<1>4. ~(i < k)
  BY <1>1, <1>3
<1>5. ~(k < i)
  BY <1>1, <1>3
<1>6. i = k
  BY <1>4, <1>5
<1> QED
  BY <1>1, <1>3, <1>6

\* What JpegCopy has written is a row that says what was seen so far.
LEMMA JpegCopyWrites ==
    ASSUME WalkInv, JpegStands(file, segments, offset, dims), JpegCopy,
           NEW c, NEW n, JpegWritten(out, file, segments, next, dims, c, n)
    PROVE  \E e : JpegWritten(out', file, segments, next', dims, e, n + 1)
<1> DEFINE p == segments[next]
           a == p.start
           b == p.end
           g == out \o Slice(file, a, b)
           e == Longer(c, n, Len(g))
           x == JpegHeader(file, a)
<1>1. /\ next \in Nat /\ next <= Len(segments) /\ next' = next + 1 /\ out' = g
      /\ JpegKept(p)
  BY DEF WalkInv, MadeOfBytes, JpegCopy, JpegStripping, Wrote, Cut, Slice
<1>2. /\ Row("jpeg", out, 2, Len(out), c, n) /\ out[1] = FF /\ out[2] = SOI
      /\ n < next /\ next \in 1..(Len(segments) + 1)
      /\ Len(out) <= IF next = 1 THEN 2 ELSE segments[next - 1].end
      /\ JpegFrame(out, c, n, Seen(segments, next - 1, dims))
      /\ (\E i \in 1..(next - 1) : segments[i].kind = "sos") => HasScan(out, c, n)
  BY DEF JpegWritten
<1>3. /\ n \in Nat /\ Len(segments) \in Nat /\ file \in Seq(Nat) /\ out \in Seq(Nat)
      /\ Len(file) \in Nat /\ Len(out) \in Nat
  BY <1>2, LenProperties DEF WalkInv, PartsTyped, MadeOfBytes, Row
<1>4. next \in 1..Len(segments)
  BY <1>1, <1>2, <1>3
<1>5. JpegPart(file, p) /\ (p.kind = "segment" => b >= Len(file) \/ file[b + 1] = FF)
  BY <1>4 DEF JpegStands, JpegFound
<1>6. Piece("jpeg", file, a, b)
  BY <1>1, <1>3, <1>5, KeptIsPiece
<1>7. /\ a \in Nat /\ b \in Nat /\ a < b /\ b <= Len(file) /\ 2 <= a
      /\ p.marker = file[a + 2] /\ x >= 4 /\ x \in Nat /\ a + x <= b
  <2>1. p.kind \in {"segment", "sos"}
    BY <1>1 DEF JpegKept
  <2> QED
    BY <1>5, <2>1 DEF JpegPart
<1>8. Len(out) <= a
  BY <1>2, <1>4, RoomBefore
<1>9. p.kind = "sos" => p.marker = SOS
  BY <1>5 DEF JpegPart
<1> HIDE DEF p, a, b
<1>10. /\ g \in Seq(Nat) /\ Len(g) = Len(out) + (b - a)
       /\ Copied(file, a, g, Len(out), b - a)
       /\ \A i \in 1..Len(out) : g[i] = out[i]
  <2>1. Copied(file, a, out \o Slice(file, a, b), Len(out), b - a)
    BY <1>3, <1>7, PartWritten, Zenon
  <2>2. /\ out \o Slice(file, a, b) \in Seq(Nat)
        /\ Len(out \o Slice(file, a, b)) = Len(out) + (b - a)
    <3> DEFINE u == Slice(file, a, b)
    <3>1. Slice(file, a, b) \in Seq(Nat) /\ Len(Slice(file, a, b)) = b - a
      BY <1>3, <1>7, SliceOf, Zenon
    <3>2. u \in Seq(Nat) /\ Len(u) = b - a
      BY <3>1
    <3> HIDE DEF u
    <3>3. out \o u \in Seq(Nat) /\ Len(out \o u) = Len(out) + Len(u)
      BY <1>3, <3>2, StillThere
    <3> QED
      BY <3>2, <3>3 DEF u
  <2>3. Slice(file, a, b) \in Seq(Nat)
    BY <1>3, <1>7, SliceOf, Zenon
  <2>4. \A i \in 1..Len(out) : (out \o Slice(file, a, b))[i] = out[i]
    BY <1>3, <2>3, StillThere
  <2> QED
    BY <2>1, <2>2, <2>4
<1>11. /\ Row("jpeg", g, 2, Len(g), e, n + 1)
       /\ \A k \in 1..(n + 1) : e[k] = c[k]
  <2> HIDE DEF e
  <2>1. g = out \o Slice(file, a, b)
    OBVIOUS
  <2> HIDE DEF g
  <2>2. Row("jpeg", g, 2, Len(g), Longer(c, n, Len(g)), n + 1)
    BY <1>2, <1>3, <1>6, <1>7, <2>1, PieceWritten, Zenon
  <2> DEFINE to == Len(g)
  <2> HIDE DEF to
  <2>3. \A k \in 1..(n + 1) : Longer(c, n, to)[k] = c[k]
    BY <1>3, LongerCuts
  <2> QED
    BY <2>2, <2>3 DEF e, to
<1>12. e[n + 1] = Len(out) /\ \A k \in 1..n : e[k] = c[k]
  <2>1. c[n + 1] = Len(out)
    BY <1>2 DEF Row
  <2> HIDE DEF e
  <2> QED
    BY <1>3, <1>11, <2>1
<1> HIDE DEF g, e, x
<1>13. /\ g[Len(out) + 2] = file[a + 2] /\ JpegHeader(g, Len(out)) = x
       /\ x >= 8 => g[Len(out) + 7] = file[a + 7] /\ g[Len(out) + 6] = file[a + 6]
  <2> DEFINE m == b - a
  <2>1. m \in Nat /\ x <= m
    BY <1>7
  <2> HIDE DEF m
  <2>2. 2 \in 1..m /\ 3 \in 1..m /\ 4 \in 1..m /\ (x >= 8 => 6 \in 1..m /\ 7 \in 1..m)
    BY <1>7, <2>1
  <2>3. \A j \in 1..m : g[Len(out) + j] = file[a + j]
    BY <1>10 DEF Copied, m
  <2> QED
    BY <2>2, <2>3 DEF JpegHeader, x
<1>14. /\ JpegFrame(g, c, n, Seen(segments, next - 1, dims))
       /\ \A k \in 1..n : g[c[k] + 2] = out[c[k] + 2]
  <2> DEFINE d == Seen(segments, next - 1, dims)
             two == 2
  <2>1. JpegFrame(out, c, n, d) /\ Row("jpeg", out, two, Len(out), c, n)
    BY <1>2
  <2> HIDE DEF d, two
  <2>2. JpegFrame(g, c, n, d)
    BY <1>3, <1>10, <2>1, FrameStays
  <2>3. \A k \in 1..n : g[c[k] + 2] = out[c[k] + 2]
    <3>1. \A k \in 1..n : SameHeader(g, out, c[k])
      BY <1>3, <1>10, <2>1, HeadersStay
    <3> QED
      BY <3>1 DEF SameHeader
  <2> QED
    BY <2>2, <2>3 DEF d
<1>15. next' - 1 = next /\ next' \in 1..(Len(segments) + 1) /\ n + 1 < next' /\ next' # 1
  <2>1. next \in Nat /\ next' = next + 1 /\ next >= 1 /\ next <= Len(segments) /\ n < next
    BY <1>1, <1>2, <1>4
  <2> QED
    BY <1>3, <2>1
<1>16. \A i \in 1..next : i \in 1..(next - 1) \/ i = next
  BY <1>1
<1>17. \A i \in 1..(next - 1) : i \in 1..next
  BY <1>1
<1>18. next \in 1..next
  BY <1>4
<1>19. JpegFrame(g, e, n + 1, Seen(segments, next, dims))
  <2> DEFINE d == Seen(segments, next - 1, dims)
             dd == Seen(segments, next, dims)
  <2>0. dims # NoDims
    BY DEF JpegStands
  <2>1. g[e[n + 1] + 2] = p.marker
    BY <1>7, <1>12, <1>13
  <2>2. CASE p.marker \in SOF /\ d = NoDims
    <3>1. dd = dims
      BY <1>18, <2>2 DEF Seen, p
    <3>2. \A i \in 1..(next - 1) : segments[i].marker \notin SOF
      BY <2>0, <2>2 DEF Seen
    <3>3. JpegHeader(file, a) >= 8 /\ dims = <<file[a + 7], file[a + 6]>>
      BY <1>3, <1>4, <2>2, <3>2, FirstFrameIs DEF a, p
    <3>4. JpegHeader(g, e[n + 1]) >= 8 /\ dd = <<g[e[n + 1] + 7], g[e[n + 1] + 6]>>
      BY <1>12, <1>13, <3>1, <3>3 DEF x
    <3> HIDE DEF d, dd
    <3>5. JpegFrame(g, c, n, d)
      BY <1>14 DEF d
    <3> QED
      BY <1>3, <1>12, <2>1, <2>2, <3>4, <3>5, FrameGrows DEF dd
  <2>3. CASE ~(p.marker \in SOF /\ d = NoDims)
    <3>1. dd = d
      <4>1. CASE p.marker \in SOF
        <5>1. d = dims
          BY <2>3, <4>1 DEF Seen
        <5>2. dd = dims
          BY <1>18, <4>1 DEF Seen, p
        <5> QED
          BY <5>1, <5>2
      <4>2. CASE p.marker \notin SOF
        BY <1>16, <1>17, <4>2 DEF Seen, p
      <4> QED
        BY <4>1, <4>2
    <3> HIDE DEF d, dd
    <3>2. JpegFrame(g, c, n, d)
      BY <1>14 DEF d
    <3>3. ~(g[e[n + 1] + 2] \in SOF /\ d = NoDims)
      BY <2>1, <2>3
    <3> QED
      BY <1>3, <1>12, <3>1, <3>2, <3>3, FrameGrows DEF dd
  <2> QED
    BY <2>2, <2>3
<1>20. (\E i \in 1..next : segments[i].kind = "sos") => HasScan(g, e, n + 1)
  <2>1. CASE p.kind = "sos"
    <3>1. g[e[n + 1] + 2] = SOS
      BY <1>7, <1>9, <1>12, <1>13, <2>1
    <3>2. n + 1 \in 1..(n + 1)
      BY <1>3
    <3> QED
      BY <3>1, <3>2 DEF HasScan
  <2>2. CASE p.kind # "sos"
    <3> SUFFICES ASSUME \E i \in 1..next : segments[i].kind = "sos"
                 PROVE  HasScan(g, e, n + 1)
      OBVIOUS
    <3>1. HasScan(out, c, n)
      BY <1>2, <1>16, <2>2 DEF p
    <3>2. PICK j \in 1..n : out[c[j] + 2] = SOS
      BY <3>1 DEF HasScan
    <3>3. g[e[j] + 2] = SOS /\ j \in 1..(n + 1)
      BY <1>3, <1>12, <1>14, <3>2
    <3> QED
      BY <3>3 DEF HasScan
  <2> QED
    BY <2>1, <2>2
<1>21. Len(g) <= b
  BY <1>3, <1>7, <1>8, <1>10
<1>22. g[1] = FF /\ g[2] = SOI
  <2>1. Len(out) >= 2
    <3>1. 2 = c[1] /\ c[n + 1] = Len(out) /\ \A k \in 1..n : c[k] < c[k + 1] /\ c[k + 1] <= Len(out)
      BY <1>2 DEF Row
    <3>2. CASE n = 0
      BY <3>1, <3>2
    <3>3. CASE n # 0
      <4>1. 1 \in 1..n /\ c[2] \in Nat
        BY <1>2, <1>3, <3>3 DEF Row
      <4> QED
        BY <1>3, <3>1, <4>1
    <3> QED
      BY <3>2, <3>3
  <2>2. 1 \in 1..Len(out) /\ 2 \in 1..Len(out)
    BY <1>3, <2>1
  <2> QED
    BY <1>2, <1>10, <2>2
<1>23. /\ JpegFrame(g, e, n + 1, Seen(segments, next' - 1, dims))
       /\ (\E i \in 1..(next' - 1) : segments[i].kind = "sos") => HasScan(g, e, n + 1)
       /\ Len(g) <= IF next' = 1 THEN 2 ELSE segments[next' - 1].end
  BY <1>15, <1>19, <1>20, <1>21 DEF b, p
<1>24. JpegWritten(g, file, segments, next', dims, e, n + 1)
  BY <1>11, <1>15, <1>22, <1>23 DEF JpegWritten
<1> QED
  BY <1>1, <1>24

\* What stripJpeg stores: parts that are kept, a frame header and a scan among them.
CleanJpeg(f, d, c, n) ==
    /\ Row("jpeg", f, 2, Len(f) - 2, c, n) /\ n <= MaxSegments
    /\ Len(f) >= 4 /\ f[1] = FF /\ f[2] = SOI /\ f[Len(f) - 1] = FF /\ f[Len(f)] = EOI
    /\ d # NoDims /\ JpegFrame(f, c, n, d) /\ HasScan(f, c, n)

\* The EOI makes it a clean file, at most two bytes longer than the first.
LEMMA JpegFinishWrites ==
    ASSUME WalkInv, JpegStands(file, segments, offset, dims), JpegFinish,
           NEW c, NEW n, JpegWritten(out, file, segments, next, dims, c, n)
    PROVE  CleanJpeg(out', dims', c, n) /\ Len(out') <= Len(file') + 2
<1> DEFINE h == <<FF, EOI>>
           u == out \o h
           m == Len(segments)
           e == Len(out)
<1>1. /\ next > m /\ out' = u /\ dims' = dims /\ file' = file
  BY DEF JpegFinish
<1>2. /\ Row("jpeg", out, 2, e, c, n) /\ out[1] = FF /\ out[2] = SOI
      /\ n < next /\ next \in 1..(m + 1)
      /\ e <= IF next = 1 THEN 2 ELSE segments[next - 1].end
      /\ JpegFrame(out, c, n, Seen(segments, next - 1, dims))
      /\ (\E i \in 1..(next - 1) : segments[i].kind = "sos") => HasScan(out, c, n)
  BY DEF JpegWritten
<1>3. /\ n \in Nat /\ m \in Nat /\ file \in Seq(Nat) /\ out \in Seq(Nat)
      /\ Len(file) \in Nat /\ e \in Nat /\ c \in [1..(n + 1) -> Nat]
  BY <1>2, LenProperties DEF WalkInv, PartsTyped, MadeOfBytes, Row
<1>4. next - 1 = m
  BY <1>1, <1>2, <1>3
<1>5. h \in Seq(Nat) /\ Len(h) = 2 /\ h[1] = FF /\ h[2] = EOI
  BY DEF FF, EOI
<1> HIDE DEF h
<1>6. /\ u \in Seq(Nat) /\ Len(u) = e + 2 /\ \A i \in 1..e : u[i] = out[i]
      /\ u[e + 1] = FF /\ u[e + 2] = EOI
  <2>1. /\ u \in Seq(Nat) /\ Len(u) = e + Len(h) /\ \A i \in 1..e : u[i] = out[i]
        /\ \A j \in 1..Len(h) : u[e + j] = h[j]
    BY <1>3, <1>5, StillThere
  <2> HIDE DEF u
  <2> QED
    BY <1>5, <2>1
<1>7. PICK i \in 1..m : segments[i].kind = "sos"
  BY DEF JpegStands
<1>8. HasScan(out, c, n)
  BY <1>2, <1>4, <1>7
<1>9. Seen(segments, m, dims) = dims
  <2>1. \E k \in 1..m : segments[k].marker \in SOF
    <3>1. \A k \in 1..m : segments[k].marker = file[Begins(segments)[k] + 2]
      BY DEF JpegStands, JpegFound, JpegPart, Begins
    <3>2. JpegFrame(file, Begins(segments), m, dims) /\ dims # NoDims
      BY DEF JpegStands, JpegFound
    <3> QED
      BY <3>1, <3>2 DEF JpegFrame
  <2> QED
    BY <2>1 DEF Seen
<1>10. e <= Len(file)
  <2>1. m # 0 /\ m \in 1..m
    BY <1>3, <1>7
  <2>2. e <= segments[m].end
    BY <1>2, <1>3, <1>4, <2>1
  <2>3. segments[m].end <= Len(file) /\ segments[m].end \in Nat
    BY <2>1 DEF JpegStands, JpegFound, JpegPart
  <2> QED
    BY <1>3, <2>2, <2>3
<1>11. n <= MaxSegments
  <2>1. m <= MaxSegments
    BY DEF JpegStands, JpegFound
  <2> QED
    BY <1>2, <1>3, <1>4, <2>1, BoundsAssumption
<1> DEFINE two == 2
<1>12. Row("jpeg", u, two, e, c, n)
  <2>1. Row("jpeg", out, two, e, c, n)
    BY <1>2
  <2> HIDE DEF two, e
  <2> QED
    BY <1>3, <1>5, <2>1, RowStays
<1>13. /\ JpegFrame(u, c, n, dims) /\ HasScan(u, c, n)
  <2>1. JpegFrame(out, c, n, dims)
    BY <1>2, <1>4, <1>9
  <2>2. Row("jpeg", out, two, Len(out), c, n) /\ \A i2 \in 1..Len(out) : u[i2] = out[i2]
    BY <1>2, <1>6
  <2> HIDE DEF two, u
  <2>3. JpegFrame(u, c, n, dims)
    BY <1>3, <2>1, <2>2, FrameStays
  <2>4. \A k \in 1..n : u[c[k] + 2] = out[c[k] + 2]
    <3>1. \A k \in 1..n : SameHeader(u, out, c[k])
      BY <1>3, <2>2, HeadersStay
    <3> QED
      BY <3>1 DEF SameHeader
  <2> QED
    BY <1>8, <2>3, <2>4 DEF HasScan
<1>14. e >= 2
  <2>1. 2 = c[1] /\ c[n + 1] = e /\ \A k \in 1..n : c[k] < c[k + 1] /\ c[k + 1] <= e
    BY <1>2 DEF Row
  <2>2. CASE n = 0
    BY <2>1, <2>2
  <2>3. CASE n # 0
    <3>1. 1 \in 1..n /\ c[2] \in Nat
      BY <1>3, <2>3
    <3> QED
      BY <1>3, <2>1, <3>1
  <2> QED
    BY <2>2, <2>3
<1> HIDE DEF u, e
<1>15. /\ Len(u) - 2 = e /\ Len(u) - 1 = e + 1 /\ Len(u) = e + 2 /\ Len(u) >= 4
       /\ 1 \in 1..e /\ 2 \in 1..e /\ Len(u) <= Len(file) + 2
  BY <1>3, <1>6, <1>10, <1>14
<1>16. u[1] = FF /\ u[2] = SOI
  BY <1>2, <1>6, <1>15
<1>17. dims # NoDims
  BY DEF JpegStands
<1>18. CleanJpeg(u, dims, c, n)
  BY <1>6, <1>11, <1>12, <1>13, <1>15, <1>16, <1>17 DEF CleanJpeg, two
<1> QED
  BY <1>1, <1>15, <1>18

-----------------------------------------------------------------------------
(* A clean JPEG is read piece by piece.                                    *)

\* The part p is the k-th piece.
JpegPartIs(f, c, k, p) ==
    /\ p.start = c[k] /\ p.end = c[k + 1] /\ p.marker = f[c[k] + 2]
    /\ p.payload = c[k] + 4
    /\ p.kind = IF f[c[k] + 2] = SOS THEN "sos" ELSE "segment"

\* The parts s found so far, the walk at `at`, the size known as e.
JpegReadOn(f, d, s, at, e, c, n) ==
    /\ CleanJpeg(f, d, c, n) /\ Len(s) <= n + 1
    /\ \A i \in 1..Len(s) : i <= n => JpegPartIs(f, c, i, s[i])
    /\ Len(s) <= n => at = c[Len(s) + 1] /\ JpegFrame(f, c, Len(s), e)
    /\ Len(s) = n + 1 => s[n + 1].kind = "eoi" /\ at = Len(f) /\ e = d

\* What some of the parts say of the size, all of them say.
LEMMA FrameAgrees ==
    ASSUME NEW f, NEW c, NEW m \in Nat, NEW n \in Nat, m <= n, NEW d, NEW e,
           JpegFrame(f, c, m, e), JpegFrame(f, c, n, d)
    PROVE  (e = NoDims \/ e = d) /\ (m = n => e = d)
<1>1. CASE e = NoDims /\ \A i \in 1..m : f[c[i] + 2] \notin SOF
  <2>1. m = n => d = NoDims
    BY <1>1 DEF JpegFrame
  <2> QED
    BY <1>1, <2>1
<1>2. ASSUME NEW i \in 1..m, f[c[i] + 2] \in SOF,
             \A j \in 1..(i - 1) : f[c[j] + 2] \notin SOF,
             e = <<f[c[i] + 7], f[c[i] + 6]>>
      PROVE  e = d
  <2>1. i \in 1..n
    BY <1>2
  <2>2. PICK k \in 1..n : /\ f[c[k] + 2] \in SOF
                          /\ \A j \in 1..(k - 1) : f[c[j] + 2] \notin SOF
                          /\ d = <<f[c[k] + 7], f[c[k] + 6]>>
    BY <1>2, <2>1 DEF JpegFrame
  <2>3. ~(i < k) /\ ~(k < i)
    BY <1>2, <2>2
  <2> QED
    BY <1>2, <2>2, <2>3
<1> QED
  BY <1>1, <1>2 DEF JpegFrame

\* No marker of a piece is a fill byte, a stuffed zero or a bare marker.
LEMMA PieceMarkersAre ==
    ASSUME NEW y \in PieceMarkers \cup {EOI}
    PROVE  /\ y # FF /\ y # 0 /\ y \notin RST /\ y # TEM
           /\ y \in PieceMarkers => ~Bare(y)
<1>1. y \in 192..207 \/ y \in {196, 204, 217, 218, 219, 220, 221, 224}
  BY DEF PieceMarkers, SOF, KeptMarkers, SOS, APP0, EOI
<1>2. y \in PieceMarkers => y # EOI
  BY DEF PieceMarkers
<1>3. y \in 192..207 \cup 217..224
  BY <1>1
<1>4. /\ y # 255 /\ y # 0 /\ y \notin 208..215 /\ y # 1
  BY <1>3
<1> QED
  BY <1>2, <1>4 DEF Bare, FF, RST, TEM

\* At every cut of a clean JPEG there is a marker.
LEMMA CutMarker ==
    ASSUME NEW f \in Seq(Nat), NEW d, NEW c, NEW n, CleanJpeg(f, d, c, n),
           NEW k \in 1..(n + 1)
    PROVE  /\ n \in Nat /\ Len(f) \in Nat /\ c[k] \in Nat /\ c[k] + 2 <= Len(f)
           /\ f[c[k] + 1] = FF
           /\ k <= n => f[c[k] + 2] \in PieceMarkers
           /\ k = n + 1 => c[k] = Len(f) - 2 /\ f[c[k] + 2] = EOI
<1> DEFINE to == Len(f) - 2
           two == 2
<1>1. /\ Row("jpeg", f, two, to, c, n) /\ Len(f) \in Nat /\ Len(f) >= 4 /\ to \in Nat
      /\ f[Len(f) - 1] = FF /\ f[Len(f)] = EOI
  BY LenProperties DEF CleanJpeg
<1>2. n \in Nat /\ c \in [1..(n + 1) -> Nat] /\ c[n + 1] = to
  BY <1>1 DEF Row
<1>3. CASE k <= n
  <2>1. k \in 1..n
    BY <1>2, <1>3
  <2> HIDE DEF to, two
  <2>2. /\ c[k] \in Nat /\ c[k + 1] \in Nat
        /\ JpegHeader(f, c[k]) \in Nat /\ JpegHeader(f, c[k]) >= 4
        /\ c[k] + JpegHeader(f, c[k]) <= c[k + 1] /\ c[k + 1] <= to /\ to <= Len(f)
        /\ f[c[k] + 1] = FF /\ f[c[k] + 2] \in PieceMarkers
    BY <1>1, <2>1, HeaderIn
  <2> DEFINE a == c[k]
             b == c[k + 1]
             x == JpegHeader(f, a)
  <2>3. /\ a \in Nat /\ b \in Nat /\ x \in Nat /\ x >= 4 /\ a + x <= b /\ b <= Len(f)
        /\ Len(f) \in Nat
    <3>1. b <= to /\ to <= Len(f) /\ b \in Nat
      BY <2>2
    <3>2. b <= Len(f)
      BY <1>1, <3>1
    <3> QED
      BY <1>1, <2>2, <3>2
  <2>4. f[a + 1] = FF /\ f[a + 2] \in PieceMarkers
    BY <2>2
  <2>5. k # n + 1
    BY <1>2, <1>3
  <2> HIDE DEF a, b, x
  <2>6. a + 2 <= Len(f)
    BY <2>3
  <2> QED
    BY <1>2, <2>3, <2>4, <2>5, <2>6 DEF a
<1>4. CASE ~(k <= n)
  <2>1. k = n + 1
    BY <1>2, <1>4
  <2>2. to + 1 = Len(f) - 1 /\ to + 2 = Len(f) /\ to + 2 <= Len(f)
    BY <1>1
  <2>3. c[k] = to
    BY <1>2, <2>1
  <2> QED
    BY <1>1, <1>2, <1>4, <2>1, <2>2, <2>3
<1> QED
  BY <1>3, <1>4

\* The walk that stands on a cut stands on its marker.
LEMMA MarkerAtCut ==
    ASSUME file \in Seq(Nat), NEW a \in Nat, a + 2 <= Len(file), file[a + 1] = FF,
           file[a + 2] \in PieceMarkers \cup {EOI}
    PROVE  MarkerAt(a) = a + 1
<1> DEFINE at == a + 1
<1>1. Len(file) \in Nat
  BY LenProperties
<1>2. at \in a..Len(file) /\ at < Len(file) /\ at + 1 = a + 2
  BY <1>1
<1>3. Byte(at) # FF
  <2>1. FF \notin PieceMarkers \cup {EOI}
    BY DEF FF, EOI, PieceMarkers, SOF, KeptMarkers, APP0, SOS
  <2> QED
    BY <1>2, <2>1 DEF Byte
<1>4. \A j \in a..(at - 1) : Byte(j) = FF
  <2>1. \A j \in a..(at - 1) : j = a
    OBVIOUS
  <2> QED
    BY <2>1 DEF Byte
<1> HIDE DEF at
<1>5. MarkerAt(a) = at
  BY <1>2, <1>3, <1>4, MarkerIsHere
<1> QED
  BY <1>5 DEF at

\* The scan that stands at a cut ends at the next one.
LEMMA ScanEndsAtCut ==
    ASSUME file \in Seq(Nat), NEW a \in Nat, NEW b \in Nat, NEW x \in Nat, x = JpegHeader(file, a),
           a + x <= b, b + 2 <= Len(file), ScanBytes(file, a, x, b - a),
           file[b + 1] = FF, file[b + 2] \in PieceMarkers \cup {EOI}
    PROVE  FindScanEnd(a + x) = b
<1> DEFINE from == a + x
<1>1. Len(file) \in Nat /\ from \in Nat /\ b \in from..Len(file)
  BY LenProperties
<1>2. EndsScan(b)
  <2>1. b + 1 < Len(file) /\ b + 1 + 1 = b + 2
    BY <1>1
  <2>2. file[b + 2] \notin {FF, 0} \cup RST
    BY PieceMarkersAre
  <2> QED
    BY <2>1, <2>2 DEF EndsScan, Byte
<1>3. ASSUME NEW j \in from..(b - 1) PROVE ~EndsScan(j)
  <2>1. j \in Nat /\ j # Len(file) /\ j + 1 + 1 = j + 2
    BY <1>1
  <2>2. CASE j = b - 1
    <3>1. j + 2 = b + 1
      BY <2>2
    <3> QED
      BY <2>1, <3>1 DEF EndsScan, Byte
  <2>3. CASE j # b - 1
    <3> DEFINE i == j + 1 - a
    <3>1. i \in (x + 1)..(b - a - 1) /\ a + i = j + 1 /\ a + i + 1 = j + 2
      BY <1>1, <2>3
    <3> HIDE DEF i
    <3>2. file[a + i] = FF => file[a + i + 1] \in {FF, 0} \cup RST
      BY <3>1 DEF ScanBytes
    <3> QED
      BY <2>1, <3>1, <3>2 DEF EndsScan, Byte
  <2> QED
    BY <2>2, <2>3
<1> HIDE DEF from
<1>4. FindScanEnd(from) = b
  BY <1>1, <1>2, <1>3, ScanEndIsHere
<1> QED
  BY <1>4 DEF from

\* The turn at the m-th cut of a clean JPEG, before its EOI.
LEMMA JpegPieceIsFound ==
    ASSUME WalkInv, NEW d, NEW c, NEW n, JpegReadOn(file, d, segments, offset, dims, c, n),
           Len(segments) < n, format = "jpeg", phase = "walk", JpegStep
    PROVE  /\ UNCHANGED <<file, format, refusal, next, out, exif, removed, phase>>
           /\ JpegReadOn(file, d, segments', offset', dims', c, n)
<1> DEFINE m == Len(segments)
           a == c[m + 1]
           b == c[m + 2]
           x == JpegHeader(file, a)
           at == a + 1
           y == file[a + 2]
<1>1. /\ file \in Seq(Nat) /\ offset \in Nat /\ segments \in Seq(Parts)
      /\ Len(file) \in Nat /\ m \in Nat
  BY LenProperties DEF WalkInv, MadeOfBytes, PartsTyped
<1>2. CleanJpeg(file, d, c, n)
  BY DEF JpegReadOn
<1>3. /\ n \in Nat /\ m + 1 \in 1..n /\ m + 1 \in 1..(n + 1) /\ m + 2 \in 1..(n + 1)
      /\ m + 1 <= n /\ m + 1 + 1 = m + 2 /\ m <= n /\ m # n + 1 /\ m + 1 # n + 1
  <2>1. n \in Nat
    BY <1>2 DEF CleanJpeg, Row
  <2> HIDE DEF m
  <2>2. m < n
    BY DEF m
  <2> QED
    BY <1>1, <2>1, <2>2
<1>4. offset = a /\ JpegFrame(file, c, m, dims)
  BY <1>3 DEF JpegReadOn
<1>5. /\ a \in Nat /\ a + 2 <= Len(file) /\ file[a + 1] = FF /\ y \in PieceMarkers
  <2> DEFINE k == m + 1
  <2>1. k \in 1..(n + 1) /\ k <= n
    BY <1>3
  <2> HIDE DEF k
  <2>2. /\ c[k] \in Nat /\ c[k] + 2 <= Len(file) /\ file[c[k] + 1] = FF
        /\ file[c[k] + 2] \in PieceMarkers
    BY <1>1, <1>2, <2>1, CutMarker
  <2> QED
    BY <2>2 DEF k
<1>6. /\ b \in Nat /\ b + 2 <= Len(file) /\ file[b + 1] = FF
      /\ file[b + 2] \in PieceMarkers \cup {EOI}
  <2> DEFINE k == m + 2
  <2>1. k \in 1..(n + 1) /\ (k <= n \/ k = n + 1)
    BY <1>3
  <2> HIDE DEF k
  <2>2. /\ c[k] \in Nat /\ c[k] + 2 <= Len(file) /\ file[c[k] + 1] = FF
        /\ k <= n => file[c[k] + 2] \in PieceMarkers
        /\ k = n + 1 => file[c[k] + 2] = EOI
    BY <1>1, <1>2, <2>1, CutMarker
  <2> QED
    BY <2>1, <2>2 DEF k
<1>7. /\ x \in Nat /\ x >= 4 /\ a + x <= b
      /\ y # SOS => b = a + x
      /\ ScanBytes(file, a, x, b - a)
  <2> DEFINE k == m + 1
             to == Len(file) - 2
             two == 2
  <2>1. k \in 1..n /\ Row("jpeg", file, two, to, c, n) /\ to \in Nat
    BY <1>1, <1>2, <1>3 DEF CleanJpeg
  <2> HIDE DEF k, to, two
  <2>2. /\ JpegHeader(file, c[k]) \in Nat /\ JpegHeader(file, c[k]) >= 4
        /\ c[k] + JpegHeader(file, c[k]) <= c[k + 1]
    BY <1>1, <2>1, HeaderIn
  <2>3. Piece("jpeg", file, c[k], c[k + 1])
    BY <2>1 DEF Row
  <2>4. k = m + 1 /\ k + 1 = m + 2
    BY <1>3 DEF k
  <2>5. JpegPiece(file, a, b)
    BY <2>3, <2>4 DEF Piece
  <2> QED
    BY <2>2, <2>4, <2>5 DEF JpegPiece
<1> HIDE DEF a, b, x
<1>8. MarkerAt(offset) = at
  <2>1. y \in PieceMarkers \cup {EOI}
    BY <1>5
  <2> QED
    BY <1>1, <1>4, <1>5, <2>1, MarkerAtCut
<1>9. /\ at \in Nat /\ at > offset /\ at + 3 <= Len(file) /\ at < Len(file)
      /\ Byte(at) = y /\ at - 1 = a /\ at + 3 = a + 4
  <2>1. a + 1 + 1 = a + 2 /\ at + 3 <= Len(file)
    BY <1>1, <1>5, <1>6, <1>7
  <2> QED
    BY <1>1, <1>4, <1>5, <1>7, <2>1 DEF Byte
<1>10. /\ y # FF /\ y # 0 /\ y \notin RST /\ y # TEM /\ ~Bare(y) /\ y # EOI
  <2>1. y \in PieceMarkers \cup {EOI}
    BY <1>5
  <2> HIDE DEF y
  <2>2. y # FF /\ y # 0 /\ y \notin RST /\ y # TEM /\ ~Bare(y)
    BY <1>5, <2>1, PieceMarkersAre
  <2> QED
    BY <1>5, <2>2 DEF PieceMarkers
<1>11. at + 1 + LengthAt(at) = a + x /\ LengthAt(at) \in Nat /\ LengthAt(at) >= 2
       /\ LengthAt(at) = x - 2
  <2> DEFINE l == LengthAt(at)
  <2>1. at + 1 + 1 = a + 3 /\ at + 2 + 1 = a + 4
    BY <1>5
  <2>2. l = file[a + 3] * 256 + file[a + 4]
    BY <2>1 DEF LengthAt, Byte
  <2>3. x = 2 + file[a + 3] * 256 + file[a + 4]
    BY DEF x, JpegHeader
  <2> DEFINE u == file[a + 3]
             v == file[a + 4]
  <2>4. u \in Nat /\ v \in Nat
    <3>1. a + 3 \in 1..Len(file) /\ a + 4 \in 1..Len(file)
      BY <1>1, <1>5, <1>9
    <3> QED
      BY <1>1, <3>1, ElementOf
  <2>5. l = u * 256 + v /\ x = 2 + u * 256 + v
    BY <2>2, <2>3
  <2> HIDE DEF l, u, v
  <2>6. x = 2 + l /\ l \in Nat
    BY <2>4, <2>5
  <2>7. at + 1 + l = a + x /\ l >= 2 /\ l = x - 2
    BY <1>5, <1>7, <2>6
  <2> QED
    BY <2>6, <2>7 DEF l
<1>12. FirstFrame(y) => /\ x >= 8 /\ d = <<file[a + 7], file[a + 6]>>
  <2> SUFFICES ASSUME y \in SOF, dims = NoDims
               PROVE  x >= 8 /\ d = <<file[a + 7], file[a + 6]>>
    BY DEF FirstFrame
  <2>1. \A i \in 1..m : file[c[i] + 2] \notin SOF
    <3>1. \A i : <<file[c[i] + 7], file[c[i] + 6]>> # NoDims
      BY DEF NoDims
    <3> QED
      BY <1>4, <3>1 DEF JpegFrame
  <2>2. JpegFrame(file, c, n, d) /\ d # NoDims
    BY <1>2 DEF CleanJpeg
  <2>3. PICK i \in 1..n : /\ file[c[i] + 2] \in SOF
                          /\ \A j \in 1..(i - 1) : file[c[j] + 2] \notin SOF
                          /\ JpegHeader(file, c[i]) >= 8
                          /\ d = <<file[c[i] + 7], file[c[i] + 6]>>
    BY <2>2 DEF JpegFrame
  <2> HIDE DEF m
  <2>4. ~(i < m + 1)
    BY <1>1, <2>1, <2>3
  <2>5. ~(m + 1 < i)
    <3>1. file[c[m + 1] + 2] \in SOF
      BY DEF a
    <3> QED
      BY <1>1, <2>3, <3>1
  <2>6. i = m + 1
    BY <1>1, <2>4, <2>5
  <2> QED
    BY <2>3, <2>6 DEF a, x
<1>13. TurnSound(at)
  <2>1. Len(segments) < MaxSegments
    <3>1. n <= MaxSegments
      BY <1>2 DEF CleanJpeg
    <3> QED
      BY <1>1, <1>3, <3>1, BoundsAssumption
  <2>2. MarkerSound(at)
    BY <1>9, <1>10 DEF MarkerSound
  <2>3. LengthSound(at)
    <3>1. at + 1 + LengthAt(at) <= Len(file)
      BY <1>1, <1>5, <1>6, <1>7, <1>11
    <3>2. FirstFrame(Byte(at)) => LengthAt(at) - 2 >= FrameHeader
      BY <1>7, <1>9, <1>11, <1>12 DEF FrameHeader
    <3> QED
      BY <1>9, <1>11, <3>1, <3>2 DEF LengthSound
  <2> QED
    BY <2>1, <2>2, <2>3 DEF TurnSound
<1>14. JpegSos \/ JpegSegment
  <2>1. ~JpegMalformed
    BY <1>8, <1>13 DEF JpegMalformed
  <2>2. ~JpegEoi /\ ~JpegStandalone
    BY <1>8, <1>9, <1>10 DEF JpegEoi, JpegStandalone
  <2>3. ~JpegWalked
    BY <1>1, <1>9 DEF JpegWalked
  <2>4. ~JpegCopy /\ ~JpegSkip /\ ~JpegDrop /\ ~JpegFinish
    BY DEF JpegCopy, JpegSkip, JpegDrop, JpegFinish, JpegStripping
  <2> QED
    BY <2>1, <2>2, <2>3, <2>4 DEF JpegStep
<1> DEFINE kind == IF y = SOS THEN "sos" ELSE "segment"
           p == Part(kind, at, b)
           t == Append(segments, p)
<1>15. /\ UNCHANGED <<file, format, refusal, next, out, exif, removed, phase>>
       /\ segments' = t /\ offset' = b
       /\ dims' = IF y \in SOF /\ dims = NoDims THEN <<file[a + 7], file[a + 6]>> ELSE dims
  <2>1. CASE JpegSos
    <3>1. y = SOS
      BY <1>8, <1>9, <2>1 DEF JpegSos
    <3>2. FindScanEnd(a + x) = b
      BY <1>1, <1>5, <1>6, <1>7, ScanEndsAtCut DEF x
    <3>3. SOS \notin SOF
      BY DEF SOS, SOF
    <3> QED
      BY <1>8, <1>11, <2>1, <3>1, <3>2, <3>3 DEF JpegSos, Walked
  <2>2. CASE JpegSegment
    <3>1. y # SOS
      BY <1>8, <1>9, <2>2 DEF JpegSegment
    <3>2. a + x = b
      BY <1>7, <3>1
    <3>3. at + 5 + 1 = a + 7 /\ at + 4 + 1 = a + 6
      BY <1>5
    <3>4. Byte(at + 5) = file[a + 7] /\ Byte(at + 4) = file[a + 6]
      BY <3>3 DEF Byte
    <3> QED
      BY <1>8, <1>9, <1>11, <2>2, <3>1, <3>2, <3>4 DEF JpegSegment, Walked, FirstFrame
  <2> QED
    BY <1>14, <2>1, <2>2
<1>16. JpegPartIs(file, c, m + 1, p)
  <2>1. b = c[m + 1 + 1]
    BY <1>3 DEF b
  <2> QED
    BY <1>9, <2>1 DEF JpegPartIs, Part, a
<1> HIDE DEF p
<1>17. Len(t) = m + 1 /\ t[m + 1] = p /\ \A i \in 1..m : t[i] = segments[i]
  <2>1. p \in Parts
    <3>1. kind \in Kinds /\ y \in Nat
      <4>1. y \in Nat
        BY <1>1, <1>5
      <4> QED
        BY <4>1 DEF Kinds
    <3> QED
      BY <1>5, <1>6, <1>9, <3>1 DEF p, Part, Parts
  <2> QED
    BY <1>1, <2>1, AppendProperties
<1> HIDE DEF t
<1>18. ASSUME NEW i \in 1..Len(t), i <= n PROVE JpegPartIs(file, c, i, t[i])
  <2>1. CASE i \in 1..m
    BY <1>17, <1>18, <2>1 DEF JpegReadOn
  <2>2. CASE i = m + 1
    BY <1>16, <1>17, <2>2
  <2> QED
    BY <1>1, <1>17, <2>1, <2>2
<1>19. JpegFrame(file, c, m + 1, dims')
  <2> DEFINE e == dims'
  <2>1. IF file[c[m + 1] + 2] \in SOF /\ dims = NoDims
        THEN /\ JpegHeader(file, c[m + 1]) >= 8
             /\ e = <<file[c[m + 1] + 7], file[c[m + 1] + 6]>>
        ELSE e = dims
    BY <1>12, <1>15 DEF FirstFrame, a, x
  <2> HIDE DEF e, m
  <2>2. JpegFrame(file, c, m + 1, e)
    BY <1>1, <1>4, <2>1, FrameGrows
  <2> QED
    BY <2>2 DEF e
<1>20. b = c[Len(t) + 1] /\ Len(t) <= n + 1 /\ Len(t) # n + 1
  BY <1>3, <1>17 DEF b
<1>21. JpegFrame(file, c, Len(t), dims')
  BY <1>17, <1>19
<1>22. JpegReadOn(file, d, t, b, dims', c, n)
  BY <1>2, <1>18, <1>20, <1>21 DEF JpegReadOn
<1> QED
  BY <1>15, <1>22

\* What is known of the size of a clean JPEG is its size.
LEMMA SizeReadOn ==
    ASSUME NEW f, NEW d, NEW s, NEW at, NEW e, NEW c, NEW n, Len(s) \in Nat,
           JpegReadOn(f, d, s, at, e, c, n)
    PROVE  /\ e = NoDims \/ e = d
           /\ Len(s) >= n => e = d
<1>1. CleanJpeg(f, d, c, n) /\ Len(s) <= n + 1
  BY DEF JpegReadOn
<1>2. n \in Nat /\ JpegFrame(f, c, n, d)
  BY <1>1 DEF CleanJpeg, Row
<1>3. CASE Len(s) <= n
  <2> DEFINE m == Len(s)
  <2>1. m \in Nat /\ m <= n /\ JpegFrame(f, c, m, e)
    BY <1>3 DEF JpegReadOn
  <2> HIDE DEF m
  <2>2. (e = NoDims \/ e = d) /\ (m = n => e = d)
    BY <1>2, <2>1, FrameAgrees
  <2> QED
    BY <1>2, <1>3, <2>2 DEF m
<1>4. CASE ~(Len(s) <= n)
  <2>1. Len(s) = n + 1
    BY <1>1, <1>2, <1>4
  <2> QED
    BY <2>1 DEF JpegReadOn
<1> QED
  BY <1>3, <1>4

\* The turn at the EOI of a clean JPEG.
LEMMA JpegEndIsFound ==
    ASSUME WalkInv, NEW d, NEW c, NEW n, JpegReadOn(file, d, segments, offset, dims, c, n),
           Len(segments) = n, format = "jpeg", phase = "walk", JpegStep
    PROVE  /\ UNCHANGED <<file, format, next, out, exif, removed, dims>>
           /\ \/ /\ phase' = "walk" /\ refusal' = refusal
                 /\ JpegReadOn(file, d, segments', offset', dims', c, n)
              \/ /\ phase' = "refused" /\ refusal' = "MALFORMED"
                 /\ Len(segments') = MaxSegments /\ offset' = Len(file) - 2
<1> DEFINE at == offset + 1
<1>1. /\ file \in Seq(Nat) /\ offset \in Nat /\ segments \in Seq(Parts)
      /\ Len(file) \in Nat /\ n \in Nat
  BY LenProperties DEF WalkInv, MadeOfBytes, PartsTyped
<1>2. CleanJpeg(file, d, c, n) /\ n <= MaxSegments
  BY DEF JpegReadOn, CleanJpeg
<1>3. offset = c[n + 1]
  BY <1>1 DEF JpegReadOn
<1>4. dims = d
  BY <1>1, SizeReadOn
<1>5. /\ offset = Len(file) - 2 /\ offset + 2 <= Len(file)
      /\ file[offset + 1] = FF /\ file[offset + 2] = EOI
  <2> DEFINE k == n + 1
  <2>1. k \in 1..(n + 1) /\ k = n + 1
    BY <1>1
  <2> HIDE DEF k
  <2>2. /\ c[k] + 2 <= Len(file) /\ file[c[k] + 1] = FF
        /\ k = n + 1 => c[k] = Len(file) - 2 /\ file[c[k] + 2] = EOI
    BY <1>1, <1>2, <2>1, CutMarker
  <2> QED
    BY <1>3, <2>1, <2>2
<1>6. MarkerAt(offset) = at
  <2>1. file[offset + 2] \in PieceMarkers \cup {EOI}
    BY <1>5
  <2> QED
    BY <1>1, <1>5, <2>1, MarkerAtCut
<1>7. /\ at \in Nat /\ at > offset /\ at < Len(file) /\ at + 1 = Len(file)
      /\ Byte(at) = EOI
  <2>1. at + 1 = offset + 2
    BY <1>1
  <2>2. at > offset /\ at < Len(file) /\ at + 1 = Len(file)
    BY <1>1, <1>5
  <2> QED
    BY <1>1, <1>5, <2>1, <2>2 DEF Byte
<1> HIDE DEF at
<1>8. MarkerSound(at) /\ Bare(Byte(at)) /\ EOI \notin {TEM} \cup RST
  BY <1>7 DEF MarkerSound, Bare, EOI, TEM, RST
<1>9. JpegMalformed \/ JpegEoi
  <2>1. ~JpegStandalone /\ ~JpegSos /\ ~JpegSegment
    BY <1>6, <1>7, <1>8 DEF JpegStandalone, JpegSos, JpegSegment, EOI, SOS
  <2>2. ~JpegWalked
    BY <1>1, <1>5 DEF JpegWalked
  <2>3. ~JpegCopy /\ ~JpegSkip /\ ~JpegDrop /\ ~JpegFinish
    BY DEF JpegCopy, JpegSkip, JpegDrop, JpegFinish, JpegStripping
  <2> QED
    BY <2>1, <2>2, <2>3 DEF JpegStep
<1>10. CASE JpegMalformed
  <2>1. ~(Len(segments) < MaxSegments)
    BY <1>6, <1>8, <1>10 DEF JpegMalformed, TurnSound
  <2>2. Len(segments) = MaxSegments
    BY <1>1, <1>2, <2>1, BoundsAssumption
  <2> QED
    BY <1>5, <1>10, <2>2 DEF JpegMalformed, Refuse
<1>11. CASE JpegEoi
  <2> DEFINE p == Part("eoi", at, at + 1)
             t == Append(segments, p)
  <2>1. /\ UNCHANGED <<file, format, next, out, exif, removed, dims, phase, refusal>>
        /\ segments' = t /\ offset' = Len(file)
    BY <1>6, <1>11 DEF JpegEoi, Walked
  <2>2. p \in Parts /\ p.kind = "eoi"
    <3>1. /\ at + 1 \in Nat /\ at - 1 \in Nat /\ at + 3 \in Nat /\ Byte(at) \in Nat
      BY <1>1, <1>7 DEF EOI
    <3> QED
      BY <3>1 DEF Part, Parts, Kinds
  <2> HIDE DEF p
  <2>3. Len(t) = n + 1 /\ t[n + 1] = p /\ \A i \in 1..n : t[i] = segments[i]
    BY <1>1, <2>2, AppendProperties
  <2> HIDE DEF t
  <2>4. ASSUME NEW i \in 1..Len(t), i <= n PROVE JpegPartIs(file, c, i, t[i])
    <3>1. i \in 1..n
      BY <1>1, <2>3, <2>4
    <3> QED
      BY <2>3, <2>4, <3>1 DEF JpegReadOn
  <2>5. JpegReadOn(file, d, t, Len(file), dims, c, n)
    <3>1. ~(Len(t) <= n) /\ Len(t) <= n + 1
      BY <1>1, <2>3
    <3> QED
      BY <1>2, <1>4, <2>2, <2>3, <2>4, <3>1 DEF JpegReadOn
  <2> QED
    BY <2>1, <2>5
<1> QED
  BY <1>9, <1>10, <1>11

\* The end of the walk through a clean JPEG.
LEMMA JpegAllIsFound ==
    ASSUME WalkInv, NEW d, NEW c, NEW n, JpegReadOn(file, d, segments, offset, dims, c, n),
           Len(segments) = n + 1, format = "jpeg", phase = "walk", JpegStep
    PROVE  /\ UNCHANGED <<file, format, refusal, offset, segments, dims, next, out, exif, removed>>
           /\ phase' = "budget" /\ dims = d
<1>1. offset = Len(file) /\ dims = d /\ CleanJpeg(file, d, c, n) /\ Len(file) \in Nat
  BY LenProperties DEF JpegReadOn, WalkInv, MadeOfBytes
<1>2. n \in Nat /\ dims # NoDims /\ HasScan(file, c, n)
  BY <1>1 DEF CleanJpeg, Row
<1>3. SawKind("sos")
  <2>1. PICK j \in 1..n : file[c[j] + 2] = SOS
    BY <1>2 DEF HasScan
  <2>2. j \in 1..Len(segments) /\ j <= n
    BY <1>2
  <2>3. JpegPartIs(file, c, j, segments[j])
    BY <2>2 DEF JpegReadOn
  <2>4. segments[j].kind = "sos"
    BY <2>1, <2>3 DEF JpegPartIs
  <2> QED
    BY <2>2, <2>4 DEF SawKind
<1>4. JpegWalked
  <2>1. ~JpegWalking
    BY <1>1 DEF JpegWalking
  <2>2. ~JpegMalformed /\ ~JpegEoi /\ ~JpegStandalone /\ ~JpegSos /\ ~JpegSegment
    BY <2>1 DEF JpegMalformed, JpegEoi, JpegStandalone, JpegSos, JpegSegment, JpegTurn
  <2>3. ~JpegCopy /\ ~JpegSkip /\ ~JpegDrop /\ ~JpegFinish
    BY DEF JpegCopy, JpegSkip, JpegDrop, JpegFinish, JpegStripping
  <2> QED
    BY <2>2, <2>3 DEF JpegStep
<1> QED
  BY <1>1, <1>2, <1>3, <1>4 DEF JpegWalked

\* Any turn of the walk through a clean JPEG.
LEMMA JpegIsFound ==
    ASSUME WalkInv, NEW d, NEW c, NEW n, JpegReadOn(file, d, segments, offset, dims, c, n),
           format = "jpeg", phase = "walk", JpegStep
    PROVE  /\ UNCHANGED <<file, format, next, out, exif, removed>>
           /\ \/ /\ phase' = "walk" /\ refusal' = refusal
                 /\ JpegReadOn(file, d, segments', offset', dims', c, n)
              \/ /\ phase' = "budget" /\ refusal' = refusal
                 /\ dims' = d /\ Len(segments') = n + 1
                 /\ JpegReadOn(file, d, segments', offset', dims', c, n)
              \/ /\ phase' = "refused" /\ refusal' = "MALFORMED" /\ dims' = dims
                 /\ Len(segments') = MaxSegments /\ offset' = Len(file) - 2
<1>1. Len(segments) \in Nat /\ Len(segments) <= n + 1 /\ n \in Nat
  BY LenProperties DEF WalkInv, PartsTyped, JpegReadOn, CleanJpeg, Row
<1>2. CASE Len(segments) < n
  <2>1. /\ UNCHANGED <<file, format, refusal, next, out, exif, removed, phase>>
        /\ JpegReadOn(file, d, segments', offset', dims', c, n)
    BY <1>2, JpegPieceIsFound
  <2> QED
    BY <2>1
<1>3. CASE Len(segments) = n
  BY <1>3, JpegEndIsFound
<1>4. CASE Len(segments) = n + 1
  <2>1. /\ UNCHANGED <<file, format, refusal, offset, segments, dims, next, out, exif, removed>>
        /\ phase' = "budget" /\ dims = d
    BY <1>4, JpegAllIsFound
  <2> QED
    BY <1>4, <2>1
<1> QED
  BY <1>1, <1>2, <1>3, <1>4

\* The rebuild of a clean JPEG at part k.
JpegReread(f, d, s, k, g, c, n) ==
    /\ CleanJpeg(f, d, c, n) /\ Len(s) = n + 1 /\ k \in 1..(n + 2)
    /\ \A i \in 1..n : JpegPartIs(f, c, i, s[i])
    /\ s[n + 1].kind = "eoi"
    /\ g = Upto(f, IF k <= n THEN c[k] ELSE c[n + 1])

\* The bytes the rebuild puts in front of a clean JPEG are its own,
LEMMA TwoInFront ==
    ASSUME NEW f \in Seq(Nat), Len(f) >= 2, NEW x, NEW y, f[1] = x, f[2] = y
    PROVE  Upto(f, 2) = <<x, y>>
<1> DEFINE g == Upto(f, 2)
           zero == 0
           two == 2
<1>1. Len(f) \in Nat /\ 1 \in 1..Len(f) /\ 2 \in 1..Len(f)
  BY LenProperties
<1>2. zero \in Nat /\ two \in Nat /\ zero <= two /\ two <= Len(f)
  OBVIOUS
<1> HIDE DEF zero, two
<1>3. /\ Slice(f, zero, two) \in Seq(Nat) /\ Len(Slice(f, zero, two)) = two - zero
      /\ \A j \in 1..(two - zero) : Slice(f, zero, two)[j] = f[zero + j]
  BY <1>2, SliceIs, Zenon
<1>4. g \in Seq(Nat) /\ Len(g) = 2 /\ \A j \in 1..2 : g[j] = f[0 + j]
  BY <1>3 DEF zero, two, Upto
<1> HIDE DEF g
<1>5. g[1] = x /\ g[2] = y
  <2>1. 1 \in 1..2 /\ 2 \in 1..2 /\ 0 + 1 = 1 /\ 0 + 2 = 2
    OBVIOUS
  <2> QED
    BY <1>4, <2>1
<1> DEFINE h == <<x, y>>
<1>6. h \in Seq(Nat) /\ Len(h) = 2 /\ h[1] = x /\ h[2] = y
  BY <1>1
<1> HIDE DEF h
<1>7. \A i \in 1..2 : g[i] = h[i]
  <2>1. \A i \in 1..2 : i = 1 \/ i = 2
    OBVIOUS
  <2> QED
    BY <1>5, <1>6, <2>1
<1>8. g = h
  BY <1>4, <1>6, <1>7, SeqEqual
<1> QED
  BY <1>8 DEF g, h

\* and so are those behind.
LEMMA TwoBehind ==
    ASSUME NEW f \in Seq(Nat), NEW a \in Nat, a + 2 = Len(f),
           NEW h \in Seq(Nat), Len(h) = 2, f[a + 1] = h[1], f[a + 2] = h[2]
    PROVE  Upto(f, a) \o h = f
<1> DEFINE g == Upto(f, a)
           u == g \o h
           zero == 0
<1>1. /\ Len(f) \in Nat /\ a + 1 \in 1..Len(f) /\ a + 2 \in 1..Len(f)
      /\ zero \in Nat /\ zero <= a /\ a <= Len(f) /\ a - zero = a
  BY LenProperties
<1> HIDE DEF zero
<1>3. /\ Slice(f, zero, a) \in Seq(Nat) /\ Len(Slice(f, zero, a)) = a - zero
      /\ \A j \in 1..(a - zero) : Slice(f, zero, a)[j] = f[zero + j]
  BY <1>1, SliceIs, Zenon
<1>4. g \in Seq(Nat) /\ Len(g) = a /\ \A j \in 1..a : g[j] = f[j]
  <2>1. \A j \in 1..a : zero + j = j
    BY DEF zero
  <2> QED
    BY <1>1, <1>3, <2>1 DEF zero, Upto
<1> HIDE DEF g
<1>6. /\ u \in Seq(Nat) /\ Len(u) = Len(g) + Len(h) /\ \A i \in 1..Len(g) : u[i] = g[i]
      /\ \A j \in 1..Len(h) : u[Len(g) + j] = h[j]
  BY <1>4, StillThere
<1> HIDE DEF u
<1>7. /\ Len(u) = Len(f) /\ u[a + 1] = h[1] /\ u[a + 2] = h[2]
      /\ \A i \in 1..a : u[i] = f[i]
  <2>1. 1 \in 1..2 /\ 2 \in 1..2
    OBVIOUS
  <2> QED
    BY <1>4, <1>6, <2>1
<1>8. \A i \in 1..Len(f) : u[i] = f[i]
  <2>1. \A i \in 1..Len(f) : i \in 1..a \/ i = a + 1 \/ i = a + 2
    BY <1>1
  <2> QED
    BY <1>7, <2>1
<1>9. u = f
  BY <1>6, <1>7, <1>8, SeqEqual
<1> QED
  BY <1>9 DEF u, g

\* checkPixelBudget lets the rebuild begin.
LEMMA JpegRereadBegins ==
    ASSUME NEW f \in Seq(Nat), NEW d, NEW s, NEW at, NEW e, NEW c, NEW n,
           JpegReadOn(f, d, s, at, e, c, n), Len(s) = n + 1
    PROVE  JpegReread(f, d, s, 1, <<FF, SOI>>, c, n)
<1>1. /\ CleanJpeg(f, d, c, n) /\ \A i \in 1..Len(s) : i <= n => JpegPartIs(f, c, i, s[i])
      /\ s[n + 1].kind = "eoi"
  BY DEF JpegReadOn
<1>2. n \in Nat /\ c[1] = 2 /\ Len(f) >= 4 /\ f[1] = FF /\ f[2] = SOI /\ HasScan(f, c, n)
  BY <1>1 DEF CleanJpeg, Row
<1>3. 1 <= n /\ 1 \in 1..(n + 2)
  BY <1>2 DEF HasScan
<1>4. Upto(f, 2) = <<FF, SOI>>
  <2>1. Len(f) >= 2
    BY <1>2, LenProperties
  <2> QED
    BY <1>2, <2>1, TwoInFront
<1>5. \A i \in 1..n : JpegPartIs(f, c, i, s[i])
  <2>1. \A i \in 1..n : i \in 1..Len(s) /\ i <= n
    BY <1>2
  <2> QED
    BY <1>1, <2>1
<1> QED
  BY <1>1, <1>2, <1>3, <1>4, <1>5 DEF JpegReread

\* A piece of a clean JPEG is kept.
LEMMA JpegPieceIsKept ==
    ASSUME NEW c, NEW k, NEW p, JpegPartIs(file, c, k, p), JpegPiece(file, c[k], c[k + 1]),
           c[k] \in Nat, c[k + 1] \in Nat, c[k + 1] <= Len(file), file \in Seq(Nat)
    PROVE  JpegKept(p)
<1> DEFINE a == c[k]
           b == c[k + 1]
           x == JpegHeader(file, a)
<1>0. a \in Nat /\ b \in Nat /\ b <= Len(file) /\ Len(file) \in Nat
  BY LenProperties
<1>1. /\ p.marker = file[a + 2] /\ p.payload = a + 4
      /\ p.kind = IF file[a + 2] = SOS THEN "sos" ELSE "segment"
      /\ file[a + 2] \in PieceMarkers
      /\ a + x <= b /\ (file[a + 2] = APP0 => x >= 5 /\ file[a + 5] = JfifId)
  BY DEF JpegPartIs, JpegPiece
<1>2. CASE file[a + 2] = SOS
  BY <1>1, <1>2 DEF JpegKept
<1>3. CASE file[a + 2] # SOS
  <2>1. ~IsExif(p)
    <3>1. APP1 \notin PieceMarkers
      BY DEF APP1, PieceMarkers, SOF, KeptMarkers, SOS, EOI, APP0
    <3> QED
      BY <1>1, <3>1 DEF IsExif
  <2>2. IsJfif(p) \/ p.marker \in SOF \cup KeptMarkers
    <3>1. CASE file[a + 2] = APP0
      <4>1. a + 4 <= b
        BY DEF JpegPiece
      <4>2. x \in Nat
        <5>1. a + 3 \in 1..Len(file) /\ a + 4 \in 1..Len(file)
          <6> HIDE DEF a, b
          <6> QED
            BY <1>0, <4>1
        <5>2. file[a + 3] \in Nat /\ file[a + 4] \in Nat
          BY <5>1, ElementOf
        <5>3. \A y, z \in Nat : 2 + y * 256 + z \in Nat
          OBVIOUS
        <5> QED
          BY <5>2, <5>3 DEF JpegHeader
      <4>3. x >= 5 /\ a + x <= b
        BY <1>1, <3>1
      <4> HIDE DEF a, b, x
      <4>4. a + 4 < Len(file) /\ a + 4 + 1 = a + 5
        BY <1>0, <4>2, <4>3
      <4>5. Has(p.payload, JfifId)
        BY <1>1, <3>1, <4>4 DEF Has, Byte
      <4> QED
        BY <1>1, <3>1, <4>5 DEF IsJfif
    <3>2. CASE file[a + 2] # APP0
      BY <1>1, <3>2 DEF PieceMarkers
    <3> QED
      BY <3>1, <3>2
  <2> QED
    BY <1>1, <1>3, <2>1, <2>2 DEF JpegKept
<1> QED
  BY <1>2, <1>3

\* The rebuild of a clean JPEG copies it.
LEMMA JpegIsCopied ==
    ASSUME WalkInv, phase = "strip", format = "jpeg", JpegStep,
           NEW d, NEW c, NEW n, JpegReread(file, d, segments, next, out, c, n)
    PROVE  /\ UNCHANGED <<file, format, refusal, segments, offset, dims, exif, removed>>
           /\ \/ phase' = "strip" /\ JpegReread(file, d, segments, next', out', c, n)
              \/ phase' = "extract" /\ out' = file
<1>1. /\ CleanJpeg(file, d, c, n) /\ Len(segments) = n + 1 /\ next \in 1..(n + 2)
      /\ \A i \in 1..n : JpegPartIs(file, c, i, segments[i])
      /\ segments[n + 1].kind = "eoi"
      /\ out = Upto(file, IF next <= n THEN c[next] ELSE c[n + 1])
  BY DEF JpegReread
<1>2. /\ file \in Seq(Nat) /\ Len(file) \in Nat /\ n \in Nat /\ next \in Nat
      /\ c \in [1..(n + 1) -> Nat]
  BY <1>1, LenProperties DEF WalkInv, MadeOfBytes, CleanJpeg, Row
<1>3. JpegCopy \/ JpegSkip \/ JpegDrop \/ JpegFinish
  BY DEF JpegStep, JpegMalformed, JpegEoi, JpegStandalone, JpegSos, JpegSegment,
         JpegWalked, JpegTurn, JpegWalking
<1>4. CASE next <= n
  <2> DEFINE a == c[next]
             b == c[next + 1]
             p == segments[next]
  <2>1. next \in 1..n /\ next <= Len(segments)
    BY <1>1, <1>2, <1>4
  <2>2. JpegPartIs(file, c, next, p)
    BY <1>1, <2>1
  <2>3. a \in Nat /\ b \in Nat /\ a < b /\ b <= Len(file) /\ JpegPiece(file, a, b) /\ 0 <= a
    <3> DEFINE to == Len(file) - 2
               two == 2
    <3>1. Row("jpeg", file, two, to, c, n) /\ to \in Nat
      BY <1>1, <1>2 DEF CleanJpeg
    <3> HIDE DEF to, two
    <3>2. /\ c[next] \in Nat /\ c[next + 1] \in Nat
          /\ c[next] < c[next + 1] /\ c[next + 1] <= Len(file)
          /\ Piece("jpeg", file, c[next], c[next + 1])
      BY <1>2, <2>1, <3>1, PieceAt
    <3> QED
      BY <3>2 DEF Piece
  <2>4. JpegKept(p)
    BY <1>2, <2>2, <2>3, JpegPieceIsKept
  <2>5. p.kind \in {"sos", "segment"} /\ p.start = a /\ p.end = b
    BY <2>2 DEF JpegPartIs
  <2> HIDE DEF p
  <2>6. JpegCopy
    <3>1. ~JpegSkip /\ ~JpegDrop
      BY <2>4, <2>5 DEF JpegSkip, JpegDrop, p
    <3>2. ~JpegFinish
      BY <1>1, <1>2, <2>1 DEF JpegFinish
    <3> QED
      BY <1>3, <3>1, <3>2
  <2>7. /\ UNCHANGED <<file, format, refusal, segments, offset, dims, exif, removed, phase>>
        /\ out' = out \o Slice(file, a, b) /\ next' = next + 1
    BY <2>5, <2>6 DEF JpegCopy, Wrote, Cut, Slice, p
  <2>8. out = Upto(file, a)
    BY <1>1, <1>4
  <2> HIDE DEF a, b
  <2>9. out' = Upto(file, b)
    <3> DEFINE zero == 0
    <3>1. zero \in Nat /\ zero <= a /\ a <= b
      BY <2>3
    <3> HIDE DEF zero
    <3>2. Slice(file, zero, a) \o Slice(file, a, b) = Slice(file, zero, b)
      BY <1>2, <2>3, <3>1, SliceLonger, Zenon
    <3> QED
      BY <2>7, <2>8, <3>2 DEF zero, Upto
  <2>10. b = IF next' <= n THEN c[next'] ELSE c[n + 1]
    <3>1. next = n => next + 1 = n + 1
      BY <1>2
    <3>2. ~(next' <= n) => next = n
      BY <1>2, <1>4, <2>7
    <3> QED
      BY <2>7, <3>1, <3>2 DEF b
  <2>11. next' \in 1..(n + 2)
    BY <1>2, <1>4, <2>7
  <2> QED
    BY <1>1, <2>7, <2>9, <2>10, <2>11 DEF JpegReread
<1>5. CASE next = n + 1
  <2>1. JpegSkip
    <3>1. ~JpegCopy /\ ~JpegDrop
      BY <1>1, <1>5 DEF JpegCopy, JpegDrop, JpegKept
    <3>2. ~JpegFinish
      BY <1>1, <1>2, <1>5 DEF JpegFinish
    <3> QED
      BY <1>3, <3>1, <3>2
  <2>2. next' = n + 2 /\ next' \in 1..(n + 2)
    BY <1>2, <1>5, <2>1 DEF JpegSkip
  <2>3. ~(next' <= n) /\ ~(next <= n)
    BY <1>2, <1>5, <2>2
  <2>4. /\ UNCHANGED <<file, format, refusal, segments, offset, dims, exif, removed, phase, out>>
    BY <2>1 DEF JpegSkip
  <2> QED
    BY <1>1, <2>2, <2>3, <2>4 DEF JpegReread
<1>6. CASE next = n + 2
  <2>1. JpegFinish
    <3>1. ~(next <= Len(segments))
      BY <1>1, <1>2, <1>6
    <3> QED
      BY <1>3, <3>1 DEF JpegCopy, JpegSkip, JpegDrop, JpegStripping
  <2>2. SawKind("eoi")
    <3>1. n + 1 \in 1..Len(segments)
      BY <1>1, <1>2
    <3> QED
      BY <1>1, <3>1 DEF SawKind
  <2>3. /\ UNCHANGED <<file, format, refusal, segments, offset, dims, exif, removed>>
        /\ phase' = "extract" /\ out' = out \o <<FF, EOI>>
    BY <2>1, <2>2 DEF JpegFinish
  <2>4. out = Upto(file, c[n + 1])
    <3>1. ~(next <= n)
      BY <1>2, <1>6
    <3> QED
      BY <1>1, <3>1
  <2> DEFINE a == c[n + 1]
  <2>5. a \in Nat /\ a + 2 = Len(file) /\ file[a + 1] = FF /\ file[a + 2] = EOI
    <3>1. a = Len(file) - 2 /\ file[Len(file) - 1] = FF /\ file[Len(file)] = EOI
      BY <1>1 DEF CleanJpeg, Row
    <3>2. a \in Nat
      BY <1>2
    <3>3. a + 2 = Len(file) /\ a + 1 = Len(file) - 1
      BY <1>2, <3>1
    <3> QED
      BY <3>1, <3>2, <3>3
  <2> HIDE DEF a
  <2>6. Upto(file, a) \o <<FF, EOI>> = file
    <3> DEFINE h == <<FF, EOI>>
    <3>1. h \in Seq(Nat) /\ Len(h) = 2 /\ h[1] = FF /\ h[2] = EOI
      BY DEF FF, EOI
    <3> HIDE DEF h
    <3>2. Upto(file, a) \o h = file
      BY <1>2, <2>5, <3>1, TwoBehind
    <3> QED
      BY <3>2 DEF h
  <2> QED
    BY <2>3, <2>4, <2>6 DEF a
<1> QED
  BY <1>1, <1>2, <1>4, <1>5, <1>6

-----------------------------------------------------------------------------
(* The camera's file becomes a clean one.                                  *)

\* A clean file of the size d, in the format it had.
IsClean(fmt, f, d) ==
    \/ fmt = "png"  /\ \E c, n : CleanPng(f, d, c, n)
    \/ fmt = "webp" /\ d # NoDims /\ \E c, n : CleanWebp(f, d, c, n)
    \/ fmt = "jpeg" /\ \E c, n : CleanJpeg(f, d, c, n)

PngFirst ==
    /\ phase \in {"walk", "budget"} => offset = 1 /\ next = 1
    /\ phase \in {"budget", "strip"} => PngHead(file, dims)
    /\ phase = "strip" => \E c, n : PngWritten(out, dims, offset, next, c, n)

WebpFirst ==
    /\ phase \in {"walk", "budget"} => next = 1
    /\ phase \in {"walk", "budget", "strip"} => WebpFound(file, segments, offset)
    /\ phase \in {"budget", "strip"} => dims = WebpDimensions /\ dims # NoDims
    /\ phase = "strip" => \E c, n : WebpWritten(out, file, segments, next, c, n)

JpegFirst ==
    /\ phase \in {"walk", "budget"} => next = 1
    /\ phase = "walk" => JpegFound(file, segments, offset, dims)
    /\ phase \in {"budget", "strip"} => JpegStands(file, segments, offset, dims)
    /\ phase = "strip" => \E c, n : JpegWritten(out, file, segments, next, dims, c, n)

\* What the rebuild has made when it is over.
Written ==
    phase \in {"extract", "stored"} =>
        IsClean(format, out, dims) /\ Len(out) <= Len(file) + 2

FirstRebuild ==
    /\ format = "png"  => PngFirst
    /\ format = "webp" => WebpFirst
    /\ format = "jpeg" => JpegFirst

ReceivedFresh ==
    /\ offset = 0 /\ segments = <<>> /\ dims = NoDims /\ next = 1 /\ out = <<>>
    /\ exif = NoRange /\ removed = {} /\ metadata = NoMetadata

\* A camera's file: what is known of it in each phase, and of what is written.
FirstPass ==
    /\ phase \in Phases
    /\ phase = "received" => ReceivedFresh
    /\ phase \notin {"received", "refused"} =>
         Len(file) <= MaxBytes /\ format \in {"png", "webp", "jpeg"}
    /\ phase \in {"strip", "extract", "stored"} => Fits(dims)
    /\ FirstRebuild /\ Written

\* The order of the phases within one file.
InOrder ==
    /\ UNCHANGED <<file, format>> /\ phase \in {"walk", "strip"}
    /\ phase' \in {"walk", "budget", "strip", "extract", "refused"}
    /\ phase' \in {"strip", "extract"} => phase = "strip" /\ dims' = dims
    /\ phase' \in {"walk", "budget"} => phase = "walk"

\* Each format takes only its own steps, in order.
LEMMA JpegInOrder == JpegStep => InOrder /\ format = "jpeg"
<1> USE DEF JpegWalking, JpegTurn, Refuse, Walked, Wrote, LeftOut, JpegStripping, InOrder
<1>1. JpegMalformed => InOrder /\ format = "jpeg"
  BY DEF JpegMalformed
<1>2. JpegEoi => InOrder /\ format = "jpeg"
  BY DEF JpegEoi
<1>3. JpegStandalone => InOrder /\ format = "jpeg"
  BY DEF JpegStandalone
<1>4. JpegSos => InOrder /\ format = "jpeg"
  BY DEF JpegSos
<1>5. JpegSegment => InOrder /\ format = "jpeg"
  BY DEF JpegSegment
<1>6. JpegWalked => InOrder /\ format = "jpeg"
  BY DEF JpegWalked
<1>7. JpegCopy => InOrder /\ format = "jpeg"
  BY DEF JpegCopy
<1>8. JpegSkip => InOrder /\ format = "jpeg"
  BY DEF JpegSkip
<1>9. JpegDrop => InOrder /\ format = "jpeg"
  BY DEF JpegDrop
<1>10. JpegFinish => InOrder /\ format = "jpeg"
  BY DEF JpegFinish
<1> QED
  BY <1>1, <1>2, <1>3, <1>4, <1>5, <1>6, <1>7, <1>8, <1>9, <1>10 DEF JpegStep

LEMMA PngInOrder == PngStep => InOrder /\ format = "png"
BY DEF PngStep, PngDimensions, PngMalformed, PngCopy, PngDrop, PngNoIend, InOrder,
       InChunks, PngStripping, Refuse, Wrote, LeftOut

LEMMA WebpInOrder == WebpStep => InOrder /\ format = "webp"
BY DEF WebpStep, WebpMalformed, WebpChunk, WebpWalked, WebpCopy, WebpDrop, InOrder,
       WebpFinish, InRiff, WebpWalking, WebpStripping, Refuse, Walked, Wrote, LeftOut

\* A PNG chunk left out leaves what was written as it is.
LEMMA PngDropWrites ==
    ASSUME WalkInv, PngDrop, PngHead(file, dims), NEW c, NEW n,
           PngWritten(out, dims, offset, next, c, n)
    PROVE  PngWritten(out', dims', offset', next', c, n)
<1> DEFINE x == file[offset + 1]
           y == PngDataEnd
<1>1. /\ file \in Seq(Nat) /\ offset \in Nat /\ next \in Nat /\ Len(file) \in Nat
      /\ Len(out) \in Nat /\ n \in Nat
  BY LenProperties DEF WalkInv, MadeOfBytes, PngWritten, PngRow, Row
<1>2. /\ out' = out /\ dims' = dims /\ next' = next + 1 /\ offset' = y + 1
      /\ PngType \notin PngKeptChunks /\ offset + 2 <= Len(file)
  BY DEF PngDrop, LeftOut, ChunkSound
<1>3. x \in Nat /\ offset + 1 + 1 = offset + 2
  BY <1>1, <1>2
<1>4. y = offset + 2 + x
  BY DEF PngDataEnd, PngData, Byte
<1> HIDE DEF x, y
<1>5. offset <= offset' /\ offset' # 1
  BY <1>1, <1>2, <1>3, <1>4
<1>6. n # 0
  <2> SUFFICES ASSUME n = 0 PROVE FALSE
    OBVIOUS
  <2>1. offset = 1
    BY DEF PngWritten
  <2>2. PngType = file[3]
    BY <2>1 DEF PngType, Byte
  <2> QED
    BY <1>2, <2>2 DEF PngHead, PngKeptChunks
<1>7. /\ PngRow(out, c, n) /\ n < next /\ Len(out) <= offset
      /\ \A k \in 1..n : out[c[k] + 2] # IEND
      /\ PngHead(out, dims)
  BY <1>6 DEF PngWritten
<1>8. n < next + 1 /\ Len(out) <= offset'
  <2>1. offset' \in Nat
    BY <1>1, <1>2, <1>3, <1>4
  <2> QED
    BY <1>1, <1>5, <1>7, <2>1
<1> QED
  BY <1>2, <1>6, <1>7, <1>8 DEF PngWritten

\* One step with a camera's PNG.
LEMMA PngFirstStep ==
    ASSUME WalkInv, format = "png", PngFirst, PngStep
    PROVE  PngFirst' /\ Written'
<1>1. CASE PngDimensions
  <2>1. CASE PngHeaderBad
    BY <1>1, <2>1 DEF PngDimensions, Refuse, PngFirst, Written
  <2>2. CASE ~PngHeaderBad
    <3>1. /\ phase = "walk" /\ phase' = "budget" /\ dims' = <<Byte(3), Byte(4)>>
          /\ UNCHANGED <<file, offset, next>>
      BY <1>1, <2>2 DEF PngDimensions
    <3>2. Len(file) \in Nat
      BY LenProperties DEF WalkInv, MadeOfBytes
    <3> DEFINE d == dims'
    <3>3. PngHead(file, d)
      <4>1. Len(file) >= 6 /\ file[2] = IhdrLength /\ file[3] = IHDR
        BY <2>2, <3>2 DEF PngHeaderBad, IhdrLength, Byte
      <4>2. d = <<file[4], file[5]>>
        BY <3>1 DEF Byte
      <4> HIDE DEF d
      <4> QED
        BY <4>1, <4>2 DEF PngHead
    <3>4. PngHead(file', dims')
      BY <3>1, <3>3
    <3> QED
      BY <3>1, <3>4 DEF PngFirst, Written
  <2> QED
    BY <2>1, <2>2
<1>2. CASE PngMalformed
  BY <1>2 DEF PngMalformed, Refuse, PngFirst, Written
<1>3. CASE PngNoIend
  BY <1>3 DEF PngNoIend, Refuse, PngFirst, Written
<1>4. CASE PngCopy
  <2>1. phase = "strip" /\ phase' \in {"strip", "extract"} /\ UNCHANGED <<file, format, dims>>
    BY <1>4 DEF PngCopy, InChunks, PngStripping, Wrote
  <2>2. PngHead(file, dims) /\ PngHead(file', dims')
    BY <2>1 DEF PngFirst
  <2>3. PICK c, n : PngWritten(out, dims, offset, next, c, n)
    BY <2>1 DEF PngFirst
  <2>4. PICK d : /\ phase' = "strip" => PngWritten(out', dims', offset', next', d, n + 1)
                 /\ phase' = "extract" =>
                      CleanPng(out', dims', d, n + 1) /\ Len(out') <= Len(file')
    BY <1>4, <2>2, <2>3, PngCopyWrites
  <2>5. phase' = "extract" => Len(out') <= Len(file') + 2
    <3>1. out' \in Seq(Nat) /\ file' \in Seq(Nat)
      BY PngKeepsInv DEF WalkInv, MadeOfBytes
    <3>2. Len(out') \in Nat /\ Len(file') \in Nat
      BY <3>1
    <3> QED
      BY <2>4, <3>2
  <2> QED
    BY <2>1, <2>2, <2>4, <2>5 DEF PngFirst, Written, IsClean
<1>5. CASE PngDrop
  <2>1. phase = "strip" /\ phase' = "strip" /\ UNCHANGED <<file, format, dims>>
    BY <1>5 DEF PngDrop, InChunks, PngStripping, LeftOut
  <2>2. PngHead(file, dims) /\ PngHead(file', dims')
    BY <2>1 DEF PngFirst
  <2>3. PICK c, n : PngWritten(out, dims, offset, next, c, n)
    BY <2>1 DEF PngFirst
  <2>4. PngWritten(out', dims', offset', next', c, n)
    BY <1>5, <2>2, <2>3, PngDropWrites
  <2> QED
    BY <2>1, <2>2, <2>4 DEF PngFirst, Written
<1> QED
  BY <1>1, <1>2, <1>3, <1>4, <1>5 DEF PngStep

\* One step with a camera's WebP.
LEMMA WebpFirstStep ==
    ASSUME WalkInv, format = "webp", WebpFirst, WebpStep
    PROVE  WebpFirst' /\ Written'
<1>1. CASE WebpMalformed
  BY <1>1 DEF WebpMalformed, Refuse, WebpFirst, Written
<1>2. CASE WebpChunk
  <2>1. phase = "walk" /\ phase' = "walk" /\ UNCHANGED <<file, next>>
    BY <1>2 DEF WebpChunk, InRiff, WebpWalking, Walked
  <2>2. WebpFound(file, segments', offset')
    BY <1>2, <2>1, WebpChunkFound DEF WebpFirst
  <2> QED
    BY <2>1, <2>2 DEF WebpFirst, Written
<1>3. CASE WebpWalked
  <2>1. CASE WebpDimensions = NoDims
    BY <1>3, <2>1 DEF WebpWalked, Refuse, WebpFirst, Written
  <2>2. CASE WebpDimensions # NoDims
    <3>1. /\ phase = "walk" /\ phase' = "budget" /\ UNCHANGED <<file, segments, offset, next>>
          /\ dims' = WebpDimensions
      BY <1>3, <2>2 DEF WebpWalked, WebpWalking
    <3>2. WebpDimensions' = WebpDimensions
      BY <3>1 DEF WebpDimensions, BigEnough, First, DataOf, Size, Byte
    <3> QED
      BY <2>2, <3>1, <3>2 DEF WebpFirst, Written
  <2> QED
    BY <2>1, <2>2
<1>4. CASE WebpCopy \/ WebpDrop
  <2>1. phase = "strip" /\ phase' = "strip" /\ UNCHANGED <<file, segments, offset, dims>>
    BY <1>4 DEF WebpCopy, WebpDrop, WebpStripping, Wrote, LeftOut
  <2>2. WebpDimensions' = WebpDimensions
    BY <2>1 DEF WebpDimensions, BigEnough, First, DataOf, Size, Byte
  <2>3. PICK c, n : WebpWritten(out, file, segments, next, c, n)
    BY <2>1 DEF WebpFirst
  <2>4. WebpFound(file, segments, offset) /\ dims = WebpDimensions /\ dims # NoDims
    BY <2>1 DEF WebpFirst
  <2>5. \E d, m : WebpWritten(out', file, segments, next', d, m)
    <3>1. CASE WebpCopy
      BY <2>3, <2>4, <3>1, WebpCopyWrites
    <3>2. CASE WebpDrop
      BY <2>3, <2>4, <3>2, WebpDropWrites
    <3> QED
      BY <1>4, <3>1, <3>2
  <2> QED
    BY <2>1, <2>2, <2>4, <2>5 DEF WebpFirst, Written
<1>5. CASE WebpFinish
  <2>1. /\ phase = "strip" /\ phase' = "extract" /\ UNCHANGED <<file, format, dims>>
    BY <1>5 DEF WebpFinish
  <2>2. WebpFound(file, segments, offset) /\ dims = WebpDimensions /\ dims # NoDims
    BY <2>1 DEF WebpFirst
  <2>3. PICK c, n : WebpWritten(out, file, segments, next, c, n)
    BY <2>1 DEF WebpFirst
  <2>4. \E d : CleanWebp(out', dims', d, n) /\ Len(out') <= Len(file) + 1
    BY <1>5, <2>2, <2>3, WebpFinishWrites
  <2>5. Len(out') <= Len(file') + 2
    <3>1. out' \in Seq(Nat) /\ file \in Seq(Nat)
      BY <1>5, WebpKeepsInv DEF WalkInv, MadeOfBytes, WebpStep
    <3>2. Len(out') \in Nat /\ Len(file) \in Nat
      BY <3>1
    <3> QED
      BY <2>1, <2>4, <3>2
  <2>6. IsClean(format', out', dims')
    BY <2>1, <2>2, <2>4 DEF IsClean
  <2> QED
    BY <2>1, <2>5, <2>6 DEF WebpFirst, Written
<1> QED
  BY <1>1, <1>2, <1>3, <1>4, <1>5 DEF WebpStep

\* One step with a camera's JPEG.
LEMMA JpegFirstStep ==
    ASSUME WalkInv, format = "jpeg", JpegFirst, JpegStep
    PROVE  JpegFirst' /\ Written'
<1>1. CASE JpegMalformed
  BY <1>1 DEF JpegMalformed, Refuse, JpegFirst, Written
<1>2. CASE JpegTurns
  <2>1. phase = "walk" /\ phase' = "walk" /\ UNCHANGED <<file, next>>
    BY <1>2 DEF JpegTurns, JpegEoi, JpegStandalone, JpegSos, JpegSegment, JpegTurn,
                JpegWalking, Walked
  <2>2. JpegFound(file, segments', offset', dims')
    BY <1>2, <2>1, JpegTurnFinds DEF JpegFirst
  <2>3. JpegFound(file', segments', offset', dims')
    BY <2>1, <2>2
  <2> HIDE DEF JpegFound
  <2> QED
    BY <2>1, <2>3 DEF JpegFirst, Written
<1>3. CASE JpegWalked
  <2>1. CASE dims = NoDims \/ ~SawKind("sos")
    BY <1>3, <2>1 DEF JpegWalked, Refuse, JpegFirst, Written
  <2>2. CASE ~(dims = NoDims \/ ~SawKind("sos"))
    <3>1. /\ phase = "walk" /\ phase' = "budget" /\ offset >= Len(file)
          /\ UNCHANGED <<file, segments, offset, next, dims>>
      BY <1>3, <2>2 DEF JpegWalked
    <3>2. JpegStands(file, segments, offset, dims)
      BY <2>2, <3>1 DEF JpegStands, JpegFirst, SawKind
    <3> QED
      BY <3>1, <3>2 DEF JpegFirst, Written
  <2> QED
    BY <2>1, <2>2
<1>4. CASE JpegCopy \/ JpegSkip \/ JpegDrop
  <2>1. phase = "strip" /\ phase' = "strip" /\ UNCHANGED <<file, segments, offset, dims>>
    BY <1>4 DEF JpegCopy, JpegSkip, JpegDrop, JpegStripping, Wrote, LeftOut
  <2>2. JpegStands(file, segments, offset, dims)
    BY <2>1 DEF JpegFirst
  <2>3. PICK c, n : JpegWritten(out, file, segments, next, dims, c, n)
    BY <2>1 DEF JpegFirst
  <2>4. \E d, m : JpegWritten(out', file, segments, next', dims, d, m)
    <3>1. CASE JpegCopy
      BY <2>2, <2>3, <3>1, JpegCopyWrites
    <3>2. CASE JpegSkip \/ JpegDrop
      BY <2>2, <2>3, <3>2, JpegPassesOver
    <3> QED
      BY <1>4, <3>1, <3>2
  <2> QED
    BY <2>1, <2>2, <2>4 DEF JpegFirst, Written
<1>5. CASE JpegFinish
  <2>1. /\ phase = "strip" /\ phase' = "extract" /\ UNCHANGED <<file, format, dims>>
    BY <1>5 DEF JpegFinish
  <2>2. JpegStands(file, segments, offset, dims)
    BY <2>1 DEF JpegFirst
  <2>3. PICK c, n : JpegWritten(out, file, segments, next, dims, c, n)
    BY <2>1 DEF JpegFirst
  <2>4. CleanJpeg(out', dims', c, n) /\ Len(out') <= Len(file') + 2
    BY <1>5, <2>2, <2>3, JpegFinishWrites
  <2> QED
    BY <2>1, <2>4 DEF JpegFirst, Written, IsClean
<1> QED
  BY <1>1, <1>2, <1>3, <1>4, <1>5 DEF JpegStep, JpegTurns

\* One step with a camera's file.
LEMMA FirstPassStep ==
    ASSUME WalkInv, FirstPass, JpegStep \/ PngStep \/ WebpStep, UNCHANGED <<metadata>>
    PROVE  FirstPass'
<1>1. InOrder
  BY JpegInOrder, PngInOrder, WebpInOrder
<1>2. FirstRebuild' /\ Written'
  <2>1. CASE JpegStep
    <3>1. format = "jpeg" /\ format' = "jpeg"
      BY <2>1, JpegInOrder DEF InOrder
    <3>2. JpegFirst' /\ Written'
      BY <2>1, <3>1, JpegFirstStep DEF FirstPass, FirstRebuild
    <3> QED
      BY <3>1, <3>2 DEF FirstRebuild
  <2>2. CASE PngStep
    <3>1. format = "png" /\ format' = "png"
      BY <2>2, PngInOrder DEF InOrder
    <3>2. PngFirst' /\ Written'
      BY <2>2, <3>1, PngFirstStep DEF FirstPass, FirstRebuild
    <3> QED
      BY <3>1, <3>2 DEF FirstRebuild
  <2>3. CASE WebpStep
    <3>1. format = "webp" /\ format' = "webp"
      BY <2>3, WebpInOrder DEF InOrder
    <3>2. WebpFirst' /\ Written'
      BY <2>3, <3>1, WebpFirstStep DEF FirstPass, FirstRebuild
    <3> QED
      BY <3>1, <3>2 DEF FirstRebuild
  <2> QED
    BY <2>1, <2>2, <2>3
<1>3. Len(file') <= MaxBytes /\ format' \in {"png", "webp", "jpeg"}
  BY <1>1 DEF FirstPass, InOrder
<1>4. /\ phase' \in Phases /\ phase' # "received" /\ phase' # "stored"
      /\ phase' \in {"strip", "extract"} => Fits(dims')
  BY <1>1 DEF FirstPass, InOrder, Phases
<1> QED
  BY <1>2, <1>3, <1>4 DEF FirstPass

-----------------------------------------------------------------------------
(* The clean file comes back.                                              *)

PngSecond(d) ==
    /\ phase \in {"walk", "budget"} =>
         offset = 1 /\ next = 1 /\ \E c, n : CleanPng(file, d, c, n)
    /\ phase = "strip" => \E c, n : PngReread(file, d, out, offset, next, c, n)

WebpSecond(d) ==
    /\ phase \in {"walk", "budget"} =>
         /\ next = 1
         /\ \E c, n : /\ WebpReadOn(file, d, segments, offset, c, n)
                      /\ phase = "budget" => Len(segments) = n
    /\ phase = "strip" =>
         \E c, n : WebpReread(file, d, segments, offset, next, out, c, n)

JpegSecond(d) ==
    /\ phase \in {"walk", "budget"} =>
         /\ next = 1
         /\ \E c, n : /\ JpegReadOn(file, d, segments, offset, dims, c, n)
                      /\ phase = "budget" => Len(segments) = n + 1
    /\ phase = "strip" => \E c, n : JpegReread(file, d, segments, next, out, c, n)

\* The two files that are refused the second time.
RefusedForGrowth ==
    \/ refusal = "TOO_LARGE"
    \/ /\ refusal = "MALFORMED" /\ format = "jpeg"
       /\ Len(segments) = MaxSegments /\ offset = Len(file) - 2

SecondRebuild(d) ==
    /\ format = "png"  => PngSecond(d)
    /\ format = "webp" => WebpSecond(d)
    /\ format = "jpeg" => JpegSecond(d)

\* Nothing is lost on the way, and the size read is the size stored.
NothingLost(d) ==
    /\ removed = {} /\ exif = NoRange
    /\ dims = NoDims \/ dims = d
    /\ phase \in {"budget", "strip"} => dims = d
    /\ phase \in {"extract", "stored"} => out = file
    /\ phase = "refused" => RefusedForGrowth

\* One step with a clean PNG.
LEMMA PngSecondStep ==
    ASSUME WalkInv, NEW d, format = "png", PngSecond(d), NothingLost(d), PngStep
    PROVE  PngSecond(d)' /\ NothingLost(d)'
<1>1. CASE phase = "walk"
  <2>1. PICK c, n : CleanPng(file, d, c, n)
    BY <1>1 DEF PngSecond
  <2>2. PngHead(file, d) /\ offset = 1 /\ next = 1
    BY <1>1, <2>1 DEF CleanPng, PngSecond
  <2>3. Len(file) \in Nat
    BY LenProperties DEF WalkInv, MadeOfBytes
  <2>4. ~PngHeaderBad /\ <<Byte(3), Byte(4)>> = d
    BY <2>2, <2>3 DEF PngHeaderBad, PngHead, IhdrLength, Byte
  <2>5. PngDimensions
    BY <1>1 DEF PngStep, PngMalformed, PngCopy, PngDrop, PngNoIend, InChunks, PngStripping
  <2>6. /\ UNCHANGED <<file, offset, next, removed, exif>> /\ dims' = d /\ phase' = "budget"
    BY <2>4, <2>5 DEF PngDimensions
  <2> QED
    BY <2>1, <2>2, <2>6 DEF PngSecond, NothingLost
<1>2. CASE phase = "strip"
  <2>1. PICK c, n : PngReread(file, d, out, offset, next, c, n)
    BY <1>2 DEF PngSecond
  <2>2. /\ UNCHANGED <<file, format, refusal, segments, dims, exif, removed>>
        /\ \/ phase' = "strip" /\ PngReread(file, d, out', offset', next', c, n)
           \/ phase' = "extract" /\ out' = file
    BY <1>2, <2>1, PngIsCopied
  <2>3. dims = d
    BY <1>2 DEF NothingLost
  <2> QED
    BY <2>2, <2>3 DEF PngSecond, NothingLost
<1> QED
  BY <1>1, <1>2, PngInOrder DEF InOrder

\* One step with a clean WebP.
LEMMA WebpSecondStep ==
    ASSUME WalkInv, NEW d, format = "webp", WebpSecond(d), NothingLost(d), WebpStep
    PROVE  WebpSecond(d)' /\ NothingLost(d)'
<1>1. CASE phase = "walk"
  <2>1. PICK c, n : WebpReadOn(file, d, segments, offset, c, n)
    BY <1>1 DEF WebpSecond
  <2>2. /\ UNCHANGED <<file, format, refusal, next, out, exif, removed>>
        /\ WebpReadOn(file, d, segments', offset', c, n)
        /\ \/ phase' = "walk" /\ dims' = dims
           \/ phase' = "budget" /\ dims' = d /\ Len(segments') = n
    BY <1>1, <2>1, WebpIsFound
  <2>3. next = 1
    BY <1>1 DEF WebpSecond
  <2> QED
    BY <2>2, <2>3 DEF WebpSecond, NothingLost
<1>2. CASE phase = "strip"
  <2>1. PICK c, n : WebpReread(file, d, segments, offset, next, out, c, n)
    BY <1>2 DEF WebpSecond
  <2>2. /\ UNCHANGED <<file, format, refusal, segments, offset, dims, exif, removed>>
        /\ \/ phase' = "strip" /\ WebpReread(file, d, segments, offset, next', out', c, n)
           \/ phase' = "extract" /\ out' = file
    BY <1>2, <2>1, WebpIsCopied
  <2>3. dims = d
    BY <1>2 DEF NothingLost
  <2> QED
    BY <2>2, <2>3 DEF WebpSecond, NothingLost
<1> QED
  BY <1>1, <1>2, WebpInOrder DEF InOrder

\* One step with a clean JPEG.
LEMMA JpegSecondStep ==
    ASSUME WalkInv, NEW d, format = "jpeg", JpegSecond(d), NothingLost(d), JpegStep
    PROVE  JpegSecond(d)' /\ NothingLost(d)'
<1>1. CASE phase = "walk"
  <2>1. PICK c, n : JpegReadOn(file, d, segments, offset, dims, c, n)
    BY <1>1 DEF JpegSecond
  <2>2. /\ UNCHANGED <<file, format, next, out, exif, removed>>
        /\ \/ /\ phase' = "walk" /\ refusal' = refusal
              /\ JpegReadOn(file, d, segments', offset', dims', c, n)
           \/ /\ phase' = "budget" /\ refusal' = refusal
              /\ dims' = d /\ Len(segments') = n + 1
              /\ JpegReadOn(file, d, segments', offset', dims', c, n)
           \/ /\ phase' = "refused" /\ refusal' = "MALFORMED" /\ dims' = dims
              /\ Len(segments') = MaxSegments /\ offset' = Len(file) - 2
    BY <1>1, <2>1, JpegIsFound
  <2>3. next = 1 /\ removed = {} /\ exif = NoRange /\ (dims = NoDims \/ dims = d)
    BY <1>1 DEF JpegSecond, NothingLost
  <2>4. CASE phase' = "walk" /\ JpegReadOn(file, d, segments', offset', dims', c, n)
    <3> DEFINE s == segments'
               at == offset'
               e == dims'
    <3>1. Len(s) \in Nat
      BY JpegKeepsInv, LenProperties DEF WalkInv, PartsTyped
    <3>2. JpegReadOn(file, d, s, at, e, c, n)
      BY <2>4
    <3> HIDE DEF s, at, e
    <3>3. e = NoDims \/ e = d
      BY <3>1, <3>2, SizeReadOn
    <3>4. dims' = NoDims \/ dims' = d
      BY <3>3 DEF e
    <3> QED
      BY <2>2, <2>3, <2>4, <3>4 DEF JpegSecond, NothingLost
  <2>5. CASE /\ phase' = "budget" /\ dims' = d /\ Len(segments') = n + 1
             /\ JpegReadOn(file, d, segments', offset', dims', c, n)
    BY <2>2, <2>3, <2>5 DEF JpegSecond, NothingLost
  <2>6. CASE /\ phase' = "refused" /\ refusal' = "MALFORMED" /\ dims' = dims
             /\ Len(segments') = MaxSegments /\ offset' = Len(file) - 2
    BY <2>2, <2>3, <2>6 DEF JpegSecond, NothingLost, RefusedForGrowth
  <2> QED
    BY <2>2, <2>4, <2>5, <2>6
<1>2. CASE phase = "strip"
  <2>1. PICK c, n : JpegReread(file, d, segments, next, out, c, n)
    BY <1>2 DEF JpegSecond
  <2>2. /\ UNCHANGED <<file, format, refusal, segments, offset, dims, exif, removed>>
        /\ \/ phase' = "strip" /\ JpegReread(file, d, segments, next', out', c, n)
           \/ phase' = "extract" /\ out' = file
    BY <1>2, <2>1, JpegIsCopied
  <2>3. dims = d
    BY <1>2 DEF NothingLost
  <2> QED
    BY <2>2, <2>3 DEF JpegSecond, NothingLost
<1> QED
  BY <1>1, <1>2, JpegInOrder DEF InOrder

\* A clean file is recognised for what it is.
LEMMA CleanIsIdentified ==
    ASSUME file \in Seq(Nat), NEW fmt, NEW d, IsClean(fmt, file, d)
    PROVE  /\ Identified = fmt /\ fmt \in {"png", "webp", "jpeg"}
           /\ Len(file) \in Nat /\ Len(file) # 0
<1>1. Len(file) \in Nat
  BY LenProperties
<1>2. CASE fmt = "png" /\ \E c, n : CleanPng(file, d, c, n)
  <2>1. Len(file) >= 6 /\ file[1] = PngSig
    BY <1>2 DEF CleanPng, PngRow, PngHead
  <2> QED
    BY <1>1, <1>2, <2>1 DEF Identified, Has, Byte, PngSig, FF
<1>3. CASE fmt = "webp" /\ \E c, n : CleanWebp(file, d, c, n)
  <2>1. Len(file) >= 3 /\ file[1] = RIFF /\ file[3] = WEBP
    BY <1>3 DEF CleanWebp
  <2> QED
    BY <1>1, <1>3, <2>1 DEF Identified, Has, Byte, PngSig, FF, RIFF
<1>4. CASE fmt = "jpeg" /\ \E c, n : CleanJpeg(file, d, c, n)
  <2>1. Len(file) >= 4 /\ file[1] = FF /\ file[2] = SOI
    BY <1>4 DEF CleanJpeg
  <2> QED
    BY <1>1, <1>4, <2>1 DEF Identified, Has, Byte
<1> QED
  BY <1>2, <1>3, <1>4 DEF IsClean

\* The signature in front of a clean PNG is its own.
LEMMA OneInFront ==
    ASSUME NEW f \in Seq(Nat), Len(f) >= 1, NEW x, f[1] = x
    PROVE  Upto(f, 1) = <<x>>
<1> DEFINE g == Upto(f, 1)
           zero == 0
           one == 1
<1>1. Len(f) \in Nat /\ 1 \in 1..Len(f) /\ x \in Nat
  BY LenProperties
<1>2. zero \in Nat /\ one \in Nat /\ zero <= one /\ one <= Len(f)
  OBVIOUS
<1> HIDE DEF zero, one
<1>3. /\ Slice(f, zero, one) \in Seq(Nat) /\ Len(Slice(f, zero, one)) = one - zero
      /\ \A j \in 1..(one - zero) : Slice(f, zero, one)[j] = f[zero + j]
  BY <1>2, SliceIs, Zenon
<1>4. g \in Seq(Nat) /\ Len(g) = 1 /\ g[1] = x
  BY <1>3 DEF zero, one, Upto
<1> HIDE DEF g
<1> DEFINE h == <<x>>
<1>5. h \in Seq(Nat) /\ Len(h) = 1 /\ h[1] = x
  BY <1>1
<1> HIDE DEF h
<1>6. g = h
  BY <1>4, <1>5, SeqEqual
<1> QED
  BY <1>6 DEF g, h

\* The walk of the camera's file begins.
LEMMA FirstWalkBegins ==
    ASSUME WalkInv, ReceivedFresh, Identify, FirstPass
    PROVE  FirstPass'
<1>1. /\ file \in Seq(Nat) /\ Len(file) \in Nat /\ segments = <<>> /\ Len(segments) = 0
      /\ dims = NoDims /\ next = 1
  BY LenProperties DEF WalkInv, MadeOfBytes, ReceivedFresh
<1>2. /\ UNCHANGED <<file, segments, dims, next>> /\ phase' = "walk" /\ format' = Identified
      /\ Len(file) <= MaxBytes /\ Identified # "none"
      /\ Identified = "png" => offset' = 1
      /\ Identified = "webp" => offset' = 3
      /\ Identified = "jpeg" => offset' = 2
  BY DEF Identify
<1>3. Identified \in {"png", "webp", "jpeg"}
  BY <1>2 DEF Identified
<1>4. CASE Identified = "png"
  BY <1>1, <1>2, <1>4 DEF FirstPass, FirstRebuild, PngFirst, Written, Phases
<1>5. CASE Identified = "webp"
  <2>1. Len(file) >= 3
    BY <1>1, <1>5 DEF Identified, Has
  <2>2. WebpFound(file', segments', offset')
    BY <1>1, <1>2, <1>5, <2>1, BoundsAssumption DEF WebpFound, Edge
  <2> QED
    BY <1>1, <1>2, <1>5, <2>2 DEF FirstPass, FirstRebuild, WebpFirst, Written, Phases
<1>6. CASE Identified = "jpeg"
  <2>1. JpegFound(file', segments', offset', dims')
    BY <1>1, <1>2, <1>6, BoundsAssumption DEF JpegFound, JpegFrame
  <2> QED
    BY <1>1, <1>2, <1>6, <2>1 DEF FirstPass, FirstRebuild, JpegFirst, Written, Phases
<1> QED
  BY <1>3, <1>4, <1>5, <1>6

\* checkPixelBudget, and the rebuild begins with nothing written.
LEMMA FirstRebuildBegins ==
    ASSUME WalkInv, Budget, FirstPass
    PROVE  FirstPass'
<1>1. CASE NonsensicalSize(dims) \/ TooManyPixels(dims)
  <2>1. phase' = "refused"
    BY <1>1 DEF Budget, Refuse
  <2> QED
    BY <2>1 DEF FirstPass, FirstRebuild, PngFirst, WebpFirst, JpegFirst, Written, Phases
<1>2. CASE ~(NonsensicalSize(dims) \/ TooManyPixels(dims))
  <2>1. /\ phase = "budget" /\ phase' = "strip"
        /\ out' = IF format = "jpeg" THEN <<FF, SOI>>
                  ELSE IF format = "png" THEN <<PngSig>> ELSE <<>>
        /\ UNCHANGED <<file, format, refusal, offset, segments, dims, next, exif, removed>>
    BY <1>2 DEF Budget
  <2>2. /\ Fits(dims) /\ Len(file) <= MaxBytes /\ format \in {"png", "webp", "jpeg"}
        /\ FirstRebuild /\ Len(segments) \in Nat
    BY <1>2, <2>1, LenProperties DEF FirstPass, Fits, WalkInv, PartsTyped
  <2>3. CASE format = "png"
    <3>1. offset = 1 /\ next = 1 /\ PngHead(file, dims)
      BY <2>1, <2>2, <2>3 DEF FirstRebuild, PngFirst
    <3>2. \E c, n : PngWritten(<<PngSig>>, dims, 1, 1, c, n)
      BY PngBegins
    <3>3. PngFirst'
      BY <2>1, <2>3, <3>1, <3>2 DEF PngFirst
    <3> QED
      BY <2>1, <2>2, <2>3, <3>3 DEF FirstPass, FirstRebuild, Written, Phases
  <2>4. CASE format = "webp"
    <3>1. /\ next = 1 /\ WebpFound(file, segments, offset)
          /\ dims = WebpDimensions /\ dims # NoDims
      BY <2>1, <2>2, <2>4 DEF FirstRebuild, WebpFirst
    <3>2. \E c, n : WebpWritten(<<>>, file, segments, 1, c, n)
      BY <2>2, WebpBegins
    <3>3. WebpDimensions' = WebpDimensions
      BY <2>1 DEF WebpDimensions, BigEnough, First, DataOf, Size, Byte
    <3>4. WebpFirst'
      BY <2>1, <2>4, <3>1, <3>2, <3>3 DEF WebpFirst
    <3> QED
      BY <2>1, <2>2, <2>4, <3>4 DEF FirstPass, FirstRebuild, Written, Phases
  <2>5. CASE format = "jpeg"
    <3>1. next = 1 /\ JpegStands(file, segments, offset, dims)
      BY <2>1, <2>2, <2>5 DEF FirstRebuild, JpegFirst
    <3>2. \E c, n : JpegWritten(<<FF, SOI>>, file, segments, 1, dims, c, n)
      BY <2>2, JpegBegins
    <3>3. JpegFirst'
      BY <2>1, <2>5, <3>1, <3>2 DEF JpegFirst
    <3> QED
      BY <2>1, <2>2, <2>5, <3>3 DEF FirstPass, FirstRebuild, Written, Phases
  <2> QED
    BY <2>2, <2>3, <2>4, <2>5
<1> QED
  BY <1>1, <1>2

\* A clean file of the size d that has come back.
SettledAs(d) ==
    /\ phase \in Phases /\ metadata = NoMetadata
    /\ Len(file) <= MaxBytes + 2
    /\ \E fmt : IsClean(fmt, file, d)
    /\ phase = "received" => ReceivedFresh
    /\ phase \notin {"received", "refused"} => IsClean(format, file, d)
    /\ NothingLost(d) /\ SecondRebuild(d)

SecondPass == \E d : sent.size = {d} /\ Fits(d) /\ SettledAs(d)

\* The walk of a clean file begins at its first cut,
LEMMA SecondWalkBegins ==
    ASSUME WalkInv, Identify, NEW d, SettledAs(d), UNCHANGED metadata
    PROVE  SettledAs(d)'
<1>1. PICK fmt : IsClean(fmt, file, d)
  BY DEF SettledAs
<1>2. /\ ReceivedFresh /\ file \in Seq(Nat)
  BY DEF SettledAs, Identify, WalkInv, MadeOfBytes
<1>3. Identified = fmt /\ fmt \in {"png", "webp", "jpeg"}
  BY <1>1, <1>2, CleanIsIdentified
<1>4. /\ UNCHANGED <<file, segments, dims, next, exif, removed>> /\ phase' = "walk"
      /\ format' = fmt
      /\ fmt = "png" => offset' = 1
      /\ fmt = "webp" => offset' = 3
      /\ fmt = "jpeg" => offset' = 2
      /\ segments = <<>> /\ Len(segments) = 0 /\ dims = NoDims /\ next = 1
  BY <1>2, <1>3 DEF Identify, ReceivedFresh
<1>5. NothingLost(d)'
  BY <1>2, <1>4 DEF NothingLost, ReceivedFresh
<1>6. SecondRebuild(d)'
  <2>1. CASE fmt = "png"
    <3>1. \E c, n : CleanPng(file, d, c, n)
      BY <1>1, <2>1 DEF IsClean
    <3> QED
      BY <1>4, <2>1, <3>1 DEF SecondRebuild, PngSecond
  <2>2. CASE fmt = "webp"
    <3>1. d # NoDims /\ \E c, n : CleanWebp(file, d, c, n)
      BY <1>1, <2>2 DEF IsClean
    <3>2. PICK c, n : CleanWebp(file, d, c, n)
      BY <3>1
    <3>3. n \in Nat /\ c[1] = 3
      BY <3>2 DEF CleanWebp, Row
    <3>4. WebpReadOn(file', d, segments', offset', c, n)
      BY <1>4, <2>2, <3>1, <3>2, <3>3 DEF WebpReadOn
    <3> QED
      BY <1>4, <2>2, <3>4 DEF SecondRebuild, WebpSecond
  <2>3. CASE fmt = "jpeg"
    <3>1. PICK c, n : CleanJpeg(file, d, c, n)
      BY <1>1, <2>3 DEF IsClean
    <3>2. n \in Nat /\ c[1] = 2
      BY <3>1 DEF CleanJpeg, Row
    <3>3. JpegReadOn(file', d, segments', offset', dims', c, n)
      BY <1>4, <2>3, <3>1, <3>2 DEF JpegReadOn, JpegFrame
    <3> QED
      BY <1>4, <2>3, <3>3 DEF SecondRebuild, JpegSecond
  <2> QED
    BY <1>3, <2>1, <2>2, <2>3
<1> QED
  BY <1>1, <1>4, <1>5, <1>6 DEF SettledAs, Phases

\* and so does its rebuild: checkPixelBudget lets it pass again.
LEMMA SecondRebuildBegins ==
    ASSUME WalkInv, Budget, NEW d, Fits(d), SettledAs(d)
    PROVE  SettledAs(d)'
<1>1. phase = "budget" /\ dims = d /\ UNCHANGED metadata
  BY DEF Budget, SettledAs, NothingLost
<1>2. /\ phase' = "strip"
      /\ out' = IF format = "jpeg" THEN <<FF, SOI>>
                ELSE IF format = "png" THEN <<PngSig>> ELSE <<>>
      /\ UNCHANGED <<file, format, refusal, offset, segments, dims, next, exif, removed>>
  BY <1>1 DEF Budget, Fits
<1>3. /\ IsClean(format, file, d) /\ file \in Seq(Nat) /\ Len(file) \in Nat
      /\ Len(segments) \in Nat
  BY <1>1, LenProperties DEF SettledAs, WalkInv, MadeOfBytes, PartsTyped
<1>4. format \in {"png", "webp", "jpeg"}
  BY <1>3, CleanIsIdentified
<1>5. NothingLost(d)'
  BY <1>1, <1>2 DEF SettledAs, NothingLost
<1>6. SecondRebuild(d)'
  <2>1. CASE format = "png"
    <3>1. offset = 1 /\ next = 1 /\ \E c, n : CleanPng(file, d, c, n)
      BY <1>1, <2>1 DEF SettledAs, SecondRebuild, PngSecond
    <3>2. PICK c, n : CleanPng(file, d, c, n)
      BY <3>1
    <3>3. /\ n \in Nat /\ n >= 1 /\ c[1] = 1 /\ file[1] = PngSig /\ Len(file) >= 6
      BY <3>2 DEF CleanPng, PngRow, PngHead, Row
    <3>4. Upto(file, 1) = <<PngSig>>
      BY <1>3, <3>3, OneInFront
    <3>5. PngReread(file', d, out', offset', next', c, n)
      BY <1>2, <2>1, <3>1, <3>2, <3>3, <3>4 DEF PngReread
    <3> QED
      BY <1>2, <2>1, <3>5 DEF SecondRebuild, PngSecond
  <2>2. CASE format = "webp"
    <3>1. /\ next = 1
          /\ \E c, n : WebpReadOn(file, d, segments, offset, c, n) /\ Len(segments) = n
      BY <1>1, <2>2 DEF SettledAs, SecondRebuild, WebpSecond
    <3>2. PICK c, n : WebpReadOn(file, d, segments, offset, c, n) /\ Len(segments) = n
      BY <3>1
    <3>3. n \in Nat /\ c[1] = 3
      BY <3>2 DEF WebpReadOn, CleanWebp, Row
    <3>4. Slice(file, 3, 3) = <<>>
      BY EmptySlice
    <3>5. WebpReread(file', d, segments', offset', next', out', c, n)
      BY <1>2, <2>2, <3>1, <3>2, <3>3, <3>4 DEF WebpReread
    <3> QED
      BY <1>2, <2>2, <3>5 DEF SecondRebuild, WebpSecond
  <2>3. CASE format = "jpeg"
    <3>1. /\ next = 1
          /\ \E c, n : /\ JpegReadOn(file, d, segments, offset, dims, c, n)
                       /\ Len(segments) = n + 1
      BY <1>1, <2>3 DEF SettledAs, SecondRebuild, JpegSecond
    <3>2. PICK c, n : /\ JpegReadOn(file, d, segments, offset, dims, c, n)
                      /\ Len(segments) = n + 1
      BY <3>1
    <3>3. JpegReread(file, d, segments, 1, <<FF, SOI>>, c, n)
      BY <1>3, <3>2, JpegRereadBegins
    <3>4. JpegReread(file', d, segments', next', out', c, n)
      BY <1>2, <2>3, <3>1, <3>3
    <3> QED
      BY <1>2, <2>3, <3>4 DEF SecondRebuild, JpegSecond
  <2> QED
    BY <1>4, <2>1, <2>2, <2>3
<1> QED
  BY <1>1, <1>2, <1>3, <1>5, <1>6 DEF SettledAs, Phases

\* One step with a clean file.
LEMMA SecondPassStep ==
    ASSUME WalkInv, NEW d, SettledAs(d), JpegStep \/ PngStep \/ WebpStep, UNCHANGED metadata
    PROVE  SettledAs(d)'
<1>1. InOrder
  BY JpegInOrder, PngInOrder, WebpInOrder
<1>2. /\ NothingLost(d) /\ SecondRebuild(d) /\ IsClean(format, file, d)
  BY <1>1 DEF SettledAs, InOrder
<1>3. SecondRebuild(d)' /\ NothingLost(d)'
  <2>1. CASE JpegStep
    <3>1. format = "jpeg" /\ format' = "jpeg"
      BY <2>1, JpegInOrder DEF InOrder
    <3>2. JpegSecond(d)' /\ NothingLost(d)'
      BY <1>2, <2>1, <3>1, JpegSecondStep DEF SecondRebuild
    <3> QED
      BY <3>1, <3>2 DEF SecondRebuild
  <2>2. CASE PngStep
    <3>1. format = "png" /\ format' = "png"
      BY <2>2, PngInOrder DEF InOrder
    <3>2. PngSecond(d)' /\ NothingLost(d)'
      BY <1>2, <2>2, <3>1, PngSecondStep DEF SecondRebuild
    <3> QED
      BY <3>1, <3>2 DEF SecondRebuild
  <2>3. CASE WebpStep
    <3>1. format = "webp" /\ format' = "webp"
      BY <2>3, WebpInOrder DEF InOrder
    <3>2. WebpSecond(d)' /\ NothingLost(d)'
      BY <1>2, <2>3, <3>1, WebpSecondStep DEF SecondRebuild
    <3> QED
      BY <3>1, <3>2 DEF SecondRebuild
  <2> QED
    BY <2>1, <2>2, <2>3
<1>4. /\ file' = file /\ format' = format /\ phase' \in Phases /\ phase' # "received"
  BY <1>1 DEF InOrder, Phases
<1> QED
  BY <1>2, <1>3, <1>4 DEF SettledAs

\* Where a photo can be: a camera's file on its way to a clean one, or a clean
\* file on its way to itself.
StripInv ==
    /\ WalkInv /\ pass \in {1, 2}
    /\ pass = 1 => FirstPass
    /\ pass = 2 => SecondPass

\* The invariant holds at first,
LEMMA InitIsFirstPass == Init => StripInv
<1> SUFFICES ASSUME Init PROVE StripInv
  OBVIOUS
<1>1. ReceivedFresh /\ phase = "received" /\ format = "none"
  BY DEF Init, ReceivedFresh
<1>2. FirstPass
  BY <1>1 DEF FirstPass, FirstRebuild, Written, Phases
<1> QED
  BY <1>2, InitEstablishesInv DEF StripInv, Init

\* is kept by each step with the camera's file,
LEMMA FirstPassKept ==
    ASSUME WalkInv, FirstPass, pass = 1,
           Reject \/ Identify \/ Walk \/ Budget \/ Extract
    PROVE  FirstPass' /\ pass' = 1
<1>1. CASE Reject
  <2>1. phase' = "refused" /\ pass' = 1
    BY <1>1 DEF Reject, Refuse
  <2> QED
    BY <2>1 DEF FirstPass, FirstRebuild, PngFirst, WebpFirst, JpegFirst, Written, Phases
<1>2. CASE Identify
  <2>1. ReceivedFresh /\ pass' = 1
    BY <1>2 DEF Identify, FirstPass
  <2> QED
    BY <1>2, <2>1, FirstWalkBegins
<1>3. CASE Walk
  <2>1. (JpegStep \/ PngStep \/ WebpStep) /\ UNCHANGED metadata /\ pass' = 1
    BY <1>3 DEF Walk
  <2> QED
    BY <2>1, FirstPassStep
<1>4. CASE Budget
  BY <1>4, FirstRebuildBegins DEF Budget
<1>5. CASE Extract
  <2>1. /\ phase = "extract" /\ phase' = "stored" /\ pass' = 1
        /\ UNCHANGED <<file, format, out, dims>>
    BY <1>5 DEF Extract
  <2> QED
    BY <2>1 DEF FirstPass, FirstRebuild, PngFirst, WebpFirst, JpegFirst, Written, Phases
<1> QED
  BY <1>1, <1>2, <1>3, <1>4, <1>5

\* by the return of what was stored, which is clean,
LEMMA FirstBecomesSecond ==
    ASSUME WalkInv, FirstPass, SentAgain
    PROVE  SecondPass' /\ pass' = 2
<1>0. PICK d : d = dims
  OBVIOUS
<1>1. /\ phase = "stored" /\ pass' = 2 /\ sent'.size = {dims} /\ file' = out
      /\ phase' = "received" /\ format' = "none" /\ ReceivedFresh'
  BY DEF SentAgain, ReceivedFresh
<1>2. Fits(d) /\ IsClean(format, out, d) /\ Len(out) <= MaxBytes + 2
  <2>1. /\ Fits(dims) /\ IsClean(format, out, dims)
        /\ Len(out) <= Len(file) + 2 /\ Len(file) <= MaxBytes
    BY <1>1 DEF FirstPass, Written
  <2>2. Len(out) \in Nat /\ Len(file) \in Nat
    BY LenProperties DEF WalkInv, MadeOfBytes
  <2> QED
    BY <1>0, <2>1, <2>2, BoundsAssumption
<1>3. NothingLost(d)' /\ SecondRebuild(d)'
  BY <1>1 DEF NothingLost, SecondRebuild, ReceivedFresh
<1>4. SettledAs(d)'
  <2>1. \E fmt : IsClean(fmt, file', d)
    BY <1>1, <1>2
  <2>2. Len(file') <= MaxBytes + 2 /\ metadata' = NoMetadata
    BY <1>1, <1>2 DEF ReceivedFresh
  <2> QED
    BY <1>1, <1>3, <2>1, <2>2 DEF SettledAs, Phases
<1>5. sent'.size = {d}
  BY <1>0, <1>1
<1> QED
  BY <1>1, <1>2, <1>4, <1>5 DEF SecondPass

\* by each step with the clean one, which nothing but its length refuses,
LEMMA SecondPassKept ==
    ASSUME WalkInv, SecondPass, pass = 2,
           Reject \/ Identify \/ Walk \/ Budget \/ Extract
    PROVE  SecondPass' /\ pass' = 2
<1>0. PICK d : sent.size = {d} /\ Fits(d) /\ SettledAs(d)
  BY DEF SecondPass
<1>1. sent' = sent /\ pass' = 2
  BY DEF Reject, Identify, Walk, Budget, Extract
<1>2. CASE Reject
  <2>1. PICK fmt : IsClean(fmt, file, d)
    BY <1>0 DEF SettledAs
  <2>2. Identified = fmt /\ fmt \in {"png", "webp", "jpeg"} /\ Len(file) # 0
    BY <2>1, CleanIsIdentified DEF WalkInv, MadeOfBytes
  <2>3. Len(file) > MaxBytes
    BY <1>2, <2>2 DEF Reject
  <2>4. /\ phase' = "refused" /\ refusal' = "TOO_LARGE"
        /\ UNCHANGED <<file, format, dims, removed, exif, metadata>>
    BY <1>2, <2>2, <2>3 DEF Reject, Refuse
  <2>5. NothingLost(d)' /\ SecondRebuild(d)'
    BY <1>0, <2>4 DEF SettledAs, NothingLost, RefusedForGrowth, SecondRebuild,
                      PngSecond, WebpSecond, JpegSecond
  <2>6. SettledAs(d)'
    BY <1>0, <2>4, <2>5 DEF SettledAs, Phases
  <2> QED
    BY <1>0, <1>1, <2>6 DEF SecondPass
<1>3. CASE Identify
  <2>1. SettledAs(d)'
    BY <1>0, <1>3, SecondWalkBegins DEF Identify
  <2> QED
    BY <1>0, <1>1, <2>1 DEF SecondPass
<1>4. CASE Walk
  <2>1. (JpegStep \/ PngStep \/ WebpStep) /\ UNCHANGED metadata
    BY <1>4 DEF Walk
  <2>2. SettledAs(d)'
    BY <1>0, <2>1, SecondPassStep
  <2> QED
    BY <1>0, <1>1, <2>2 DEF SecondPass
<1>5. CASE Budget
  <2>1. SettledAs(d)'
    BY <1>0, <1>5, SecondRebuildBegins
  <2> QED
    BY <1>0, <1>1, <2>1 DEF SecondPass
<1>6. CASE Extract
  <2>1. /\ exif = NoRange /\ metadata' = NoMetadata
        /\ phase = "extract" /\ phase' = "stored"
        /\ UNCHANGED <<file, format, dims, removed, exif, out>>
    BY <1>0, <1>6 DEF Extract, SettledAs, NothingLost
  <2>2. NothingLost(d)' /\ SecondRebuild(d)'
    BY <1>0, <2>1 DEF SettledAs, NothingLost, SecondRebuild, PngSecond, WebpSecond, JpegSecond
  <2>3. SettledAs(d)'
    BY <1>0, <2>1, <2>2 DEF SettledAs, Phases
  <2> QED
    BY <1>0, <1>1, <2>3 DEF SecondPass
<1> QED
  BY <1>2, <1>3, <1>4, <1>5, <1>6

\* and so by all.
LEMMA NextKeepsStripInv == StripInv /\ [Next]_vars => StripInv'
<1> SUFFICES ASSUME StripInv, [Next]_vars PROVE StripInv'
  OBVIOUS
<1>1. WalkInv /\ WalkInv'
  BY NextKeepsInv DEF StripInv
<1>2. CASE Reject \/ Identify \/ Walk \/ Budget \/ Extract
  <2>1. CASE pass = 1
    <3>1. FirstPass' /\ pass' = 1
      BY <1>1, <1>2, <2>1, FirstPassKept DEF StripInv
    <3> QED
      BY <1>1, <3>1 DEF StripInv
  <2>2. CASE pass = 2
    <3>1. SecondPass' /\ pass' = 2
      BY <1>1, <1>2, <2>2, SecondPassKept DEF StripInv
    <3> QED
      BY <1>1, <3>1 DEF StripInv
  <2> QED
    BY <2>1, <2>2 DEF StripInv
<1>3. CASE SentAgain
  <2>1. pass = 1 /\ FirstPass
    BY <1>3 DEF SentAgain, StripInv
  <2>2. SecondPass' /\ pass' = 2
    BY <1>1, <1>3, <2>1, FirstBecomesSecond
  <2> QED
    BY <1>1, <2>2 DEF StripInv
<1>4. CASE UNCHANGED vars
  <2>1. WebpDimensions' = WebpDimensions
    BY <1>4 DEF vars, imageVars, WebpDimensions, BigEnough, First, DataOf, Size, Byte
  <2>2. FirstPass => FirstPass'
    BY <1>4, <2>1 DEF vars, imageVars, FirstPass, FirstRebuild, PngFirst, WebpFirst, JpegFirst,
                      Written, ReceivedFresh
  <2>3. ASSUME NEW d, SettledAs(d) PROVE SettledAs(d)'
    BY <1>4, <2>3 DEF vars, imageVars, SettledAs, NothingLost, RefusedForGrowth, SecondRebuild,
                      PngSecond, WebpSecond, JpegSecond, ReceivedFresh
  <2>4. SecondPass => SecondPass'
    BY <1>4, <2>3 DEF vars, SecondPass
  <2>5. pass' = pass
    BY <1>4 DEF vars
  <2> QED
    BY <1>1, <2>2, <2>4, <2>5 DEF StripInv
<1> QED
  BY <1>2, <1>3, <1>4 DEF Next, Done

\* Whatever bytes a camera sent and whatever the limits, what stripJpeg,
\* stripPng and stripWebp stored is a file of the same kind, with the same
\* size and nothing to remove or read, and they store it unchanged; only the
\* two files the rebuild itself made longer are refused.
THEOREM StoredFilesAreSettled == Spec => []StoredFileIsSettled
<1>1. StripInv => StoredFileIsSettled
  <2> SUFFICES ASSUME StripInv, pass = 2 PROVE StoredFileIsSettled
    BY DEF StoredFileIsSettled
  <2>1. PICK d : sent.size = {d} /\ SettledAs(d)
    BY DEF StripInv, SecondPass
  <2>2. NothingLost(d) /\ metadata = NoMetadata /\ Len(file) <= MaxBytes + 2
    BY <2>1 DEF SettledAs
  <2> QED
    BY <2>1, <2>2 DEF StoredFileIsSettled, NothingLost, RefusedForGrowth
<1> QED
  BY <1>1, InitIsFirstPass, NextKeepsStripInv, PTL DEF Spec

-----------------------------------------------------------------------------
(* One sequence after the other.                                           *)

\* A function that strings the first m of the sequences ps together.
Strings(g, ps, m) ==
    /\ DOMAIN g = 1..m
    /\ \A i \in 1..m : g[i] = IF i = 1 THEN ps[i] ELSE g[i - 1] \o ps[i]

LEMMA StringingWorks ==
    ASSUME NEW ps, NEW n \in Nat
    PROVE  \E g : Strings(g, ps, n)
<1> DEFINE wrong == {m \in Nat : ~\E g : Strings(g, ps, m)}
<1> SUFFICES ASSUME wrong # {} PROVE FALSE
  OBVIOUS
<1>1. PICK m \in wrong : \A k \in wrong : ~(k < m)
  <2>1. wrong \in SUBSET Nat
    OBVIOUS
  <2> HIDE DEF wrong
  <2> QED
    BY <2>1, Smallest
<1>2. m # 0
  <2>1. Strings([i \in 1..0 |-> 0], ps, 0)
    BY DEF Strings
  <2> QED
    BY <2>1, <1>1
<1>3. m - 1 \in Nat /\ m - 1 \notin wrong
  BY <1>1, <1>2
<1>4. PICK g : Strings(g, ps, m - 1)
  BY <1>3
<1> DEFINE h == [i \in 1..m |-> IF i < m THEN g[i] ELSE IF m = 1 THEN ps[1] ELSE g[m - 1] \o ps[m]]
<1>5. ASSUME NEW i \in 1..m PROVE h[i] = IF i = 1 THEN ps[i] ELSE h[i - 1] \o ps[i]
  <2>1. CASE i < m
    <3>1. i \in 1..(m - 1) /\ (i # 1 => i - 1 \in 1..m /\ i - 1 < m)
      BY <1>1, <2>1
    <3> QED
      BY <1>4, <2>1, <3>1 DEF Strings
  <2>2. CASE i = m
    <3>1. m # 1 => m - 1 \in 1..m /\ m - 1 < m
      BY <1>1, <1>2
    <3> QED
      BY <2>2, <3>1
  <2> QED
    BY <1>1, <2>1, <2>2
<1>6. Strings(h, ps, m)
  <2>1. DOMAIN h = 1..m
    OBVIOUS
  <2> HIDE DEF h
  <2> QED
    BY <1>5, <2>1 DEF Strings
<1> QED
  BY <1>1, <1>6

\* All of them give the same for a stretch.
Same(g, h, k) == g[k] = h[k]

LEMMA StringingIsUnique ==
    ASSUME NEW ps, NEW m \in Nat, NEW n \in Nat, NEW g, NEW h, Strings(g, ps, m), Strings(h, ps, n),
           NEW k \in Nat, 1 <= k, k <= m, k <= n
    PROVE  Same(g, h, k)
<1> DEFINE wrong == {i \in Nat : 1 <= i /\ i <= m /\ i <= n /\ g[i] # h[i]}
<1> SUFFICES ASSUME wrong # {} PROVE FALSE
  BY DEF Same
<1>1. PICK i \in wrong : \A j \in wrong : ~(j < i)
  <2>1. wrong \in SUBSET Nat
    OBVIOUS
  <2> HIDE DEF wrong
  <2> QED
    BY <2>1, Smallest
<1>2. /\ i \in 1..m /\ i \in 1..n
      /\ g[i] = IF i = 1 THEN ps[i] ELSE g[i - 1] \o ps[i]
      /\ h[i] = IF i = 1 THEN ps[i] ELSE h[i - 1] \o ps[i]
  <2>1. i \in 1..m /\ i \in 1..n
    BY <1>1
  <2> HIDE DEF wrong
  <2> QED
    BY <2>1 DEF Strings
<1>3. i # 1 => g[i - 1] = h[i - 1]
  <2>1. i # 1 => i - 1 \in Nat /\ 1 <= i - 1 /\ i - 1 <= m /\ i - 1 <= n /\ i - 1 < i
    BY <1>2
  <2> QED
    BY <1>1, <2>1
<1> QED
  BY <1>1, <1>2, <1>3

\* The first k of the sequences ps, one after the other.
Strung(ps, k) == FlattenSeq([i \in 1..k |-> ps[i]])

LEMMA StrungIs ==
    ASSUME NEW ps, NEW k \in Nat, k # 0
    PROVE  \E g : Strings(g, ps, k) /\ Strung(ps, k) = g[k]
<1> DEFINE s == [i \in 1..k |-> ps[i]]
           G == CHOOSE f : f = [i \in 1..Len(s) |-> IF i = 1 THEN s[i] ELSE f[i - 1] \o s[i]]
<1>1. Len(s) = k
  OBVIOUS
<1>2. PICK g : Strings(g, ps, k)
  BY StringingWorks
<1>3. \A f : f = [i \in 1..Len(s) |-> IF i = 1 THEN s[i] ELSE f[i - 1] \o s[i]] <=>
               (f = [i \in DOMAIN f |-> f[i]] /\ Strings(f, s, k))
  BY <1>1 DEF Strings
<1> DEFINE g0 == [i \in 1..k |-> g[i]]
<1>4. Strings(g0, s, k) /\ g0 = [i \in DOMAIN g0 |-> g0[i]]
  <2>1. DOMAIN g0 = 1..k /\ g0 = [i \in DOMAIN g0 |-> g0[i]]
    OBVIOUS
  <2>2. ASSUME NEW i \in 1..k PROVE g0[i] = IF i = 1 THEN s[i] ELSE g0[i - 1] \o s[i]
    <3>1. i # 1 => i - 1 \in 1..k
      OBVIOUS
    <3>2. g[i] = IF i = 1 THEN ps[i] ELSE g[i - 1] \o ps[i]
      BY <1>2 DEF Strings
    <3> QED
      BY <3>1, <3>2
  <2> HIDE DEF g0, s
  <2> QED
    BY <2>1, <2>2 DEF Strings
<1>5. Strings(G, s, k)
  <2> HIDE DEF g0, s
  <2> QED
    BY <1>3, <1>4
<1>6. Strings(G, ps, k)
  <2> HIDE DEF G
  <2> QED
    BY <1>5 DEF Strings
<1>7. FlattenSeq(s) = G[k]
  <2>1. Len(s) # 0 /\ Len(s) = k
    BY <1>1
  <2> HIDE DEF s
  <2> QED
    BY <2>1, Zenon DEF FlattenSeq
<1> QED
  BY <1>6, <1>7 DEF Strung

LEMMA StrungNone == ASSUME NEW ps PROVE Strung(ps, 0) = <<>>
<1>1. [i \in 1..0 |-> ps[i]] = <<>> /\ Len(<<>>) = 0
  OBVIOUS
<1> QED
  BY <1>1 DEF Strung, FlattenSeq

LEMMA StrungMore ==
    ASSUME NEW ps, NEW k \in Nat, ps[k + 1] \in Seq(Nat)
    PROVE  Strung(ps, k + 1) = Strung(ps, k) \o ps[k + 1]
<1>1. PICK g : Strings(g, ps, k + 1) /\ Strung(ps, k + 1) = g[k + 1]
  <2>1. k + 1 \in Nat /\ k + 1 # 0
    OBVIOUS
  <2> DEFINE n == k + 1
  <2> HIDE DEF n
  <2>2. \E g : Strings(g, ps, n) /\ Strung(ps, n) = g[n]
    BY <2>1, StrungIs DEF n
  <2> QED
    BY <2>2 DEF n
<1>2. g[k + 1] = IF k + 1 = 1 THEN ps[k + 1] ELSE g[(k + 1) - 1] \o ps[k + 1]
  <2>1. k + 1 \in 1..(k + 1)
    OBVIOUS
  <2> QED
    BY <1>1, <2>1 DEF Strings
<1>3. CASE k = 0
  <2>1. Strung(ps, k) = <<>>
    BY <1>3, StrungNone
  <2>2. <<>> \o ps[k + 1] = ps[k + 1]
    BY ConcatEmptySeq
  <2> QED
    BY <1>1, <1>2, <1>3, <2>1, <2>2
<1>4. CASE k # 0
  <2>1. PICK h : Strings(h, ps, k) /\ Strung(ps, k) = h[k]
    BY <1>4, StrungIs
  <2>2. Same(g, h, k)
    <3> DEFINE n == k + 1
    <3>1. n \in Nat /\ k <= n /\ Strings(g, ps, n) /\ 1 <= k
      BY <1>1, <1>4
    <3> HIDE DEF n
    <3> QED
      BY <2>1, <3>1, StringingIsUnique
  <2>3. g[(k + 1) - 1] = g[k] /\ k + 1 # 1
    BY <1>4
  <2> QED
    BY <1>1, <1>2, <2>1, <2>2, <2>3 DEF Same
<1> QED
  BY <1>3, <1>4

-----------------------------------------------------------------------------
(* The layout of a file.                                                   *)

Inside(fmt, f, p) ==
    /\ p.from \in Nat /\ p.at \in Nat /\ p.to \in Nat
    /\ p.from <= p.at /\ p.at + 2 <= p.to /\ p.to <= Len(f)
    /\ f[p.at + 1] \in Nat /\ f[p.at + 2] \in Nat

\* A part lies in its file.
LEMMA PartIsInside ==
    ASSUME NEW f \in Seq(Nat), NEW fmt, fmt = Kind(f), NEW p \in Places, IsPart(fmt, f, p)
    PROVE  Inside(fmt, f, p)
<1>1. p.from \in Nat /\ p.at \in Nat /\ p.to \in Nat /\ Len(f) \in Nat
  BY LenProperties DEF Places
<1>2. p.from <= p.at
  BY DEF IsPart, Opens
<1>3. ASSUME p.at + 2 <= Len(f) PROVE f[p.at + 1] \in Nat /\ f[p.at + 2] \in Nat
  BY <1>1, <1>3
<1>4. CASE fmt = "jpeg"
  <2>1. p.at + 2 <= p.to /\ p.to <= Len(f)
    BY <1>4 DEF IsPart, IsJpegPart
  <2> QED
    BY <1>1, <1>2, <1>3, <2>1 DEF Inside
<1>5. CASE fmt = "png"
  <2>1. p.at + 2 <= Len(f) /\ p.to = p.at + 3 + f[p.at + 1] /\ p.to <= Len(f)
    BY <1>5 DEF IsPart, IsPngChunk
  <2>2. f[p.at + 1] \in Nat /\ f[p.at + 2] \in Nat
    BY <1>3, <2>1
  <2> DEFINE x == f[p.at + 1]
  <2>3. x \in Nat /\ p.to = p.at + 3 + x /\ p.to <= Len(f)
    BY <2>1, <2>2
  <2> HIDE DEF x
  <2>4. p.at + 2 <= p.to
    BY <1>1, <2>3
  <2> QED
    BY <1>1, <1>2, <2>2, <2>3, <2>4 DEF Inside
<1>6. CASE fmt = "webp"
  <2>1. /\ 2 + f[2] <= Len(f) /\ p.at + 2 <= 2 + f[2]
        /\ p.to = p.at + 2 + f[p.at + 2] /\ p.to <= 2 + f[2]
    BY <1>6 DEF IsPart, IsWebpChunk
  <2>2. f[2] \in Nat
    <3>1. Len(f) >= 3
      BY <1>1, <1>6 DEF Kind
    <3> QED
      BY <3>1
  <2>3. p.at + 2 <= Len(f)
    BY <1>1, <2>1, <2>2
  <2>4. f[p.at + 1] \in Nat /\ f[p.at + 2] \in Nat
    BY <1>3, <2>3
  <2> DEFINE x == f[p.at + 2]
             y == f[2]
  <2>5. x \in Nat /\ y \in Nat /\ p.to = p.at + 2 + x /\ p.to <= 2 + y /\ 2 + y <= Len(f)
    BY <2>1, <2>2, <2>4
  <2> HIDE DEF x, y
  <2>6. p.at + 2 <= p.to /\ p.to <= Len(f)
    BY <1>1, <2>5
  <2> QED
    BY <1>1, <1>2, <2>4, <2>6 DEF Inside
<1> QED
  BY <1>4, <1>5, <1>6 DEF IsPart

NextLaid(fmt, f, l, k) ==
    /\ l[k + 1] \in Places /\ Continues(fmt, f, l, k, l[k + 1]) /\ k < MaxSegments
    /\ Inside(fmt, f, l[k + 1]) /\ k + 1 <= Len(l)

\* The part behind the first k,
LEMMA LaidNext ==
    ASSUME NEW f \in Seq(Nat), NEW fmt, fmt = Kind(f), NEW l, Laid(fmt, f, l), NEW k \in Nat, k < Len(l)
    PROVE  NextLaid(fmt, f, l, k)
<1>1. l \in Seq(Places) /\ Len(l) <= MaxSegments /\ Len(l) \in Nat
  BY LenProperties DEF Laid
<1> DEFINE n == k + 1
<1>2. n \in 1..Len(l) /\ n - 1 = k
  BY <1>1
<1> HIDE DEF n
<1>3. l[n] \in Places /\ Continues(fmt, f, l, n - 1, l[n])
  BY <1>1, <1>2 DEF Laid
<1>4. Inside(fmt, f, l[n])
  BY <1>3, PartIsInside DEF Continues
<1>5. k < MaxSegments /\ n <= Len(l)
  BY <1>1, <1>2, BoundsAssumption
<1> QED
  BY <1>2, <1>3, <1>4, <1>5 DEF NextLaid, n

\* and there is none behind the last.
LEMMA LaidEnds ==
    ASSUME NEW f \in Seq(Nat), NEW fmt, fmt = Kind(f), NEW l, Laid(fmt, f, l), Len(l) < MaxSegments,
           NEW p \in Places
    PROVE  ~Continues(fmt, f, l, Len(l), p)
<1> SUFFICES ASSUME Continues(fmt, f, l, Len(l), p) PROVE FALSE
  OBVIOUS
<1>1. Inside(fmt, f, p) /\ Opens(fmt, f, p.from, p.at)
  BY PartIsInside DEF Continues, IsPart
<1>2. p = [from |-> p.from, at |-> p.at, to |-> p.to]
  BY DEF Places
<1>3. p.at \in p.from..Len(f) /\ p.to \in p.at..Len(f)
  BY <1>1, LenProperties DEF Inside
<1>4. p.from = Reached(fmt, f, l, Len(l))
  BY DEF Continues
<1>5. Len(l) # MaxSegments
  <2>1. Len(l) \in Nat
    BY LenProperties DEF Laid
  <2> QED
    BY <2>1, BoundsAssumption
<1>6. Complete(fmt, f, l)
  BY <1>5 DEF Laid
<1> QED
  BY <1>1, <1>2, <1>3, <1>4, <1>6 DEF Complete

-----------------------------------------------------------------------------
(* A JPEG is walked part by part.                                          *)

\* What stands where walkJpeg looks for the next marker.
StandsAt(p) ==
    /\ JpegWalking /\ MarkerAt(offset) = p.at + 1
    /\ Byte(p.at + 1) = file[p.at + 2] /\ MarkerSound(p.at + 1)

LEMMA MarkerIsLaid ==
    ASSUME WalkInv, phase = "walk", format = "jpeg", NEW p, p.from = offset,
           IsPart("jpeg", file, p), Inside("jpeg", file, p)
    PROVE  StandsAt(p)
<1> DEFINE a == p.at
           at == a + 1
<1>1. /\ file \in Seq(Nat) /\ Len(file) \in Nat /\ offset \in Nat /\ a \in Nat /\ p.to \in Nat
      /\ offset <= a /\ a + 2 <= p.to /\ p.to <= Len(file) /\ file[a + 2] \in Nat
  BY LenProperties DEF WalkInv, MadeOfBytes, Inside
<1>2. /\ \A j \in (offset + 1)..a : file[j] = FF
      /\ file[a + 1] = FF /\ file[a + 2] # FF /\ file[a + 2] # 0
  BY DEF IsPart, Opens, IsJpegPart
<1>3. at \in offset..Len(file) /\ at < Len(file) /\ at > offset /\ at + 1 = a + 2 /\ offset < Len(file)
  <2>1. at = a + 1 /\ a + 2 <= Len(file)
    BY <1>1
  <2> HIDE DEF a, at
  <2> QED
    BY <1>1, <2>1
<1>4. Byte(at) = file[a + 2]
  BY <1>3 DEF Byte
<1>5. ASSUME NEW j \in offset..(at - 1) PROVE Byte(j) = FF
  <2>1. j + 1 \in (offset + 1)..a \/ j + 1 = a + 1
    BY <1>1
  <2> QED
    BY <1>2, <2>1 DEF Byte
<1> HIDE DEF a, at
<1>6. MarkerAt(offset) = at
  BY <1>1, <1>2, <1>3, <1>4, <1>5, MarkerIsHere
<1>7. JpegWalking /\ MarkerSound(at)
  BY <1>2, <1>3, <1>4 DEF JpegWalking, MarkerSound
<1> QED
  BY <1>4, <1>6, <1>7 DEF StandsAt, a, at

\* Its header, when it has one, ends in the file.
HeaderStands(p) ==
    /\ JpegHeader(file, p.at) \in Nat /\ JpegHeader(file, p.at) >= 4
    /\ p.at + JpegHeader(file, p.at) <= p.to
    /\ p.at + 1 + 1 + LengthAt(p.at + 1) = p.at + JpegHeader(file, p.at)
    /\ p.to >= p.at + 8 /\ file[p.at + 2] # SOS => JpegHeader(file, p.at) >= 8
    /\ (FirstFrame(file[p.at + 2]) => JpegHeader(file, p.at) >= 8) => LengthSound(p.at + 1)

LEMMA HeaderIsLaid ==
    ASSUME WalkInv, NEW p, IsPart("jpeg", file, p), Inside("jpeg", file, p),
           ~Bare(file[p.at + 2])
    PROVE  HeaderStands(p)
<1> DEFINE a == p.at
           at == a + 1
           x == JpegHeader(file, a)
           y == LengthAt(at)
<1>1. /\ file \in Seq(Nat) /\ Len(file) \in Nat /\ a \in Nat /\ p.to \in Nat
      /\ p.to <= Len(file)
  BY LenProperties DEF WalkInv, MadeOfBytes, Inside
<1>2. /\ a + 4 <= p.to /\ x >= 4 /\ a + x <= p.to
      /\ file[a + 2] # SOS => p.to = a + x
  BY DEF IsPart, IsJpegPart
<1>3. file[a + 3] \in Nat /\ file[a + 4] \in Nat
  <2> HIDE DEF a, x, y
  <2>1. a + 3 \in 1..Len(file) /\ a + 4 \in 1..Len(file)
    BY <1>1, <1>2
  <2> QED
    BY <1>1, <2>1
<1>4. x = 2 + file[a + 3] * 256 + file[a + 4]
  BY DEF JpegHeader
<1>5. y = file[a + 3] * 256 + file[a + 4]
  <2>1. at + 1 + 1 = a + 3 /\ at + 2 + 1 = a + 4
    BY <1>1
  <2> HIDE DEF at
  <2> QED
    BY <2>1 DEF LengthAt, Byte
<1>6. y \in Nat /\ x = 2 + y
  <2>1. \A v, w \in Nat : v * 256 + w \in Nat /\ 2 + v * 256 + w = 2 + (v * 256 + w)
    OBVIOUS
  <2> HIDE DEF x, y, a
  <2> QED
    BY <1>3, <1>4, <1>5, <2>1
<1>7. Byte(at) = file[a + 2]
  <2>1. at + 1 = a + 2
    BY <1>1
  <2> QED
    BY <2>1 DEF Byte
<1> HIDE DEF x, y
<1>8. x \in Nat /\ at + 1 + y = a + x /\ at + 3 <= Len(file) /\ y >= 2 /\ at + 1 + y <= Len(file)
  <2>1. at = a + 1
    OBVIOUS
  <2> HIDE DEF a, at
  <2>2. at + 1 + y = a + x /\ y >= 2
    BY <1>1, <1>2, <1>6, <2>1
  <2>3. a + x <= Len(file) /\ at + 3 <= Len(file)
    BY <1>1, <1>2, <1>6, <2>1
  <2> QED
    BY <1>6, <2>2, <2>3
<1>9. p.to >= a + 8 /\ file[a + 2] # SOS => x >= 8
  BY <1>1, <1>2, <1>8
<1>10. (FirstFrame(file[a + 2]) => x >= 8) => LengthSound(at)
  <2>1. x >= 8 => y - 2 >= 4
    BY <1>6
  <2> QED
    BY <1>7, <1>8, <2>1 DEF LengthSound, FrameHeader, y
<1>11. a + 1 + 1 + y = a + x
  BY <1>1, <1>8
<1> QED
  BY <1>2, <1>8, <1>9, <1>10, <1>11 DEF HeaderStands, x, y

\* Its scan, when it has one, ends where the part does.
LEMMA ScanIsLaid ==
    ASSUME WalkInv, NEW p, IsPart("jpeg", file, p), Inside("jpeg", file, p),
           file[p.at + 2] = SOS, HeaderStands(p)
    PROVE  FindScanEnd(p.at + JpegHeader(file, p.at)) = p.to
<1> DEFINE a == p.at
           b == p.to
           x == JpegHeader(file, a)
           from == a + x
<1>1. /\ file \in Seq(Nat) /\ Len(file) \in Nat /\ a \in Nat /\ b \in Nat /\ b <= Len(file)
      /\ x \in Nat /\ from <= b
  BY LenProperties DEF WalkInv, MadeOfBytes, Inside, HeaderStands
<1>2. ScanBytes(file, a, x, b - a) /\ (b = Len(file) \/ AtMarker(file, b))
  <2>1. ~Bare(file[a + 2])
    BY DEF Bare, SOS, EOI, TEM, RST
  <2> QED
    BY <2>1 DEF IsPart, IsJpegPart
<1>3. from = a + x
  OBVIOUS
<1> HIDE DEF a, b, x, from
<1>4. from \in Nat /\ b \in from..Len(file)
  BY <1>1, <1>3
<1>5. EndsScan(b)
  <2>1. ASSUME b # Len(file) PROVE EndsScan(b)
    <3>1. b + 2 <= Len(file) /\ file[b + 1] = FF /\ file[b + 2] \notin {FF, 0} \cup RST
      BY <1>2, <2>1 DEF AtMarker
    <3>2. b + 1 < Len(file) /\ b + 1 + 1 = b + 2
      BY <1>1, <3>1
    <3> QED
      BY <3>1, <3>2 DEF EndsScan, Byte
  <2> QED
    BY <2>1 DEF EndsScan
<1>6. ASSUME NEW j \in from..(b - 1) PROVE ~EndsScan(j)
  <2> SUFFICES ASSUME EndsScan(j) PROVE FALSE
    OBVIOUS
  <2> DEFINE i == j + 1 - a
  <2>1. /\ j + 1 < Len(file) /\ j \in Nat /\ j < b
        /\ file[j + 1] = FF /\ file[j + 1 + 1] \notin {FF, 0} \cup RST
    BY <1>1, <1>4, <1>6 DEF EndsScan, Byte
  <2>2. CASE j + 1 < b
    <3>1. i \in (x + 1)..(b - a - 1) /\ a + i = j + 1 /\ a + i + 1 = j + 1 + 1
      BY <1>1, <1>3, <1>4, <2>1, <2>2
    <3> HIDE DEF i
    <3>2. file[a + i] = FF => file[a + i + 1] \in {FF, 0} \cup RST
      BY <1>2, <3>1 DEF ScanBytes
    <3> QED
      BY <2>1, <3>1, <3>2
  <2>3. CASE j + 1 = b
    <3>1. b # Len(file)
      BY <2>1, <2>3
    <3>2. file[b + 1] = FF
      BY <1>2, <3>1 DEF AtMarker
    <3> QED
      BY <2>1, <2>3, <3>2
  <2> QED
    BY <1>1, <2>1, <2>2, <2>3
<1>7. FindScanEnd(from) = b
  BY <1>1, <1>4, <1>5, <1>6, ScanEndIsHere
<1> QED
  BY <1>7 DEF from, x, a, b

\* The size is known once a frame header has been seen.
LEMMA SeenFrame ==
    ASSUME NEW f, NEW c, NEW m, NEW d, JpegFrame(f, c, m, d)
    PROVE  d = NoDims <=> \A i \in 1..m : f[c[i] + 2] \notin SOF
BY DEF JpegFrame, NoDims

\* l names the first n parts that were found,
Noted(l, s, n) == \A i \in 1..n : s[i].start = l[i].at /\ s[i].end = l[i].to

\* and the walk is where l says that it is.
WalkedTo(fmt, f, l, s, at) ==
    /\ Len(s) \in Nat /\ Len(s) <= Len(l)
    /\ at = Reached(fmt, f, l, Len(s)) /\ Noted(l, s, Len(s))

\* No frame header is among the parts found, or one is.
LEMMA FrameNoted ==
    ASSUME NEW f, NEW s, NEW l, NEW at, NEW d, JpegFound(f, s, at, d), Len(s) \in Nat,
           Noted(l, s, Len(s))
    PROVE  d = NoDims <=> NoFrame(f, l, Len(s))
<1>1. d = NoDims <=> \A i \in 1..Len(s) : f[Begins(s)[i] + 2] \notin SOF
  BY SeenFrame DEF JpegFound
<1>2. \A i \in 1..Len(s) : Begins(s)[i] = l[i].at
  BY DEF Begins, Noted
<1> QED
  BY <1>1, <1>2 DEF NoFrame

\* The turn that l promises.
NextTurn(l) ==
    LET p == l[Len(segments) + 1] IN
    /\ StandsAt(p) /\ JpegTurn(p.at + 1)
    /\ ~Bare(file[p.at + 2]) => HeaderStands(p)
    /\ NextLaid("jpeg", file, l, Len(segments))
    /\ p.from = offset /\ IsPart("jpeg", file, p)

LEMMA TurnIsLaid ==
    ASSUME WalkInv, JpegFound(file, segments, offset, dims), phase = "walk", format = "jpeg",
           Kind(file) = "jpeg", NEW l, Laid("jpeg", file, l),
           WalkedTo("jpeg", file, l, segments, offset), Len(segments) < Len(l)
    PROVE  NextTurn(l)
<1> DEFINE k == Len(segments)
           p == l[k + 1]
<1>1. file \in Seq(Nat) /\ k \in Nat
  BY DEF WalkInv, MadeOfBytes, WalkedTo
<1>2. NextLaid("jpeg", file, l, k)
  BY <1>1, LaidNext
<1>3. /\ Inside("jpeg", file, p) /\ Continues("jpeg", file, l, k, p) /\ k < MaxSegments
  BY <1>2 DEF NextLaid
<1>4. p.from = offset /\ IsPart("jpeg", file, p)
  BY <1>3 DEF Continues, WalkedTo
<1>5. dims = NoDims <=> NoFrame(file, l, k)
  BY FrameNoted DEF WalkedTo
<1>6. file[p.at + 2] \in SOF /\ dims = NoDims => p.to >= p.at + 8
  BY <1>3, <1>5 DEF Continues
<1> HIDE DEF k, p
<1>7. StandsAt(p)
  BY <1>3, <1>4, MarkerIsLaid
<1>8. ~Bare(file[p.at + 2]) => HeaderStands(p)
  BY <1>3, <1>4, HeaderIsLaid
<1>9. ~Bare(file[p.at + 2]) => LengthSound(p.at + 1)
  <2> SUFFICES ASSUME ~Bare(file[p.at + 2]) PROVE LengthSound(p.at + 1)
    OBVIOUS
  <2>1. HeaderStands(p)
    BY <1>8
  <2>2. FirstFrame(file[p.at + 2]) => p.to >= p.at + 8 /\ file[p.at + 2] # SOS
    <3>1. SOS \notin SOF
      BY DEF SOF, SOS
    <3> QED
      BY <1>6, <3>1 DEF FirstFrame
  <2> QED
    BY <2>1, <2>2 DEF HeaderStands
<1>10. JpegTurn(p.at + 1)
  BY <1>3, <1>7, <1>9 DEF JpegTurn, TurnSound, StandsAt, k
<1> QED
  BY <1>2, <1>4, <1>7, <1>8, <1>10 DEF NextTurn, k, p

\* A marker the walk can go on from is a part,
TurnPart(at, p) ==
    /\ p \in Places /\ p.from = offset /\ IsPart("jpeg", file, p)
    /\ file[p.at + 2] = Byte(at)
    /\ FirstFrame(Byte(at)) => p.to >= p.at + 8

LEMMA TurnIsPart ==
    ASSUME WalkInv, NEW at, at = MarkerAt(offset), JpegTurn(at)
    PROVE  \E p : TurnPart(at, p)
<1> DEFINE a == at - 1
           x == JpegHeader(file, a)
           from == a + x
           to == IF Bare(Byte(at)) THEN a + 2
                 ELSE IF Byte(at) = SOS THEN FindScanEnd(from) ELSE from
           p == [from |-> offset, at |-> a, to |-> to]
<1>1. /\ at \in Nat /\ at > offset /\ at < Len(file)
      /\ offset \in Nat /\ Len(file) \in Nat /\ file \in Seq(Nat)
      /\ file[at] = FF /\ a \in Nat /\ a + 2 = at + 1 /\ a + 1 = at
  BY MarkerBehindFF
<1>2. Byte(at) = file[a + 2] /\ Byte(at) # 0 /\ Byte(at) # FF
  <2>1. Byte(at) # 0
    BY DEF JpegTurn, TurnSound, MarkerSound
  <2>2. Byte(at) # FF
    <3>1. offset <= Len(file)
      BY <1>1
    <3> QED
      BY <1>1, <3>1, MarkerIs
  <2> QED
    BY <1>1, <2>1, <2>2 DEF Byte
<1>3. ~Bare(Byte(at)) => /\ x \in Nat /\ x >= 4 /\ a + x <= Len(file)
                         /\ FirstFrame(Byte(at)) => x >= 8
  BY HeaderOf
<1>4. Opens("jpeg", file, offset, a)
  <2>1. ASSUME NEW j \in (offset + 1)..a PROVE file[j] = FF
    <3>0. j \in Int /\ offset + 1 <= j /\ j <= at - 1
      BY <1>1
    <3> HIDE DEF a, x, from, to, p
    <3>1. j - 1 \in offset..(at - 1) /\ j - 1 + 1 = j /\ offset <= Len(file)
      BY <1>1, <3>0
    <3>2. \A i \in offset..(at - 1) : Byte(i) = FF
      BY <1>1, <3>1, MarkerIs
    <3>3. Byte(j - 1) = FF
      BY <3>1, <3>2
    <3> QED
      BY <3>1, <3>3 DEF Byte
  <2>2. offset <= a
    BY <1>1
  <2> QED
    BY <2>1, <2>2 DEF Opens
<1>5. p.from = offset /\ p.at = a /\ p.to = to
  OBVIOUS
<1>6. CASE Bare(Byte(at))
  <2>0. to = a + 2
    BY <1>6
  <2>1. to = a + 2 /\ to \in Nat /\ to <= Len(file) /\ a + 2 <= to
    <3> HIDE DEF to, a, x, from, p
    <3> QED
      BY <1>1, <2>0
  <2>2. Byte(at) \notin SOF
    BY <1>6 DEF Bare, SOF, EOI, TEM, RST
  <2> HIDE DEF to, a
  <2>3. p \in Places
    BY <1>1, <2>1 DEF Places
  <2> HIDE DEF p
  <2>4. IsPart("jpeg", file, p)
    BY <1>1, <1>2, <1>4, <1>5, <1>6, <2>1 DEF IsPart, IsJpegPart
  <2> QED
    BY <1>2, <1>5, <2>2, <2>3, <2>4 DEF TurnPart, FirstFrame
<1>7. CASE ~Bare(Byte(at)) /\ Byte(at) # SOS
  <2>1. to = a + x
    BY <1>7
  <2> HIDE DEF to, a, x, p, from
  <2>1a. x \in Nat /\ x >= 4 /\ a + x <= Len(file) /\ a \in Nat
    BY <1>1, <1>3, <1>7
  <2>2. to \in Nat /\ to <= Len(file) /\ a + 2 <= to /\ a + 4 <= to /\ a + x <= to
    BY <2>1, <2>1a
  <2>3. p \in Places
    BY <1>1, <2>2 DEF Places, p
  <2>4. IsPart("jpeg", file, p)
    BY <1>1, <1>2, <1>3, <1>4, <1>5, <1>7, <2>1, <2>2 DEF IsPart, IsJpegPart, x
  <2>5. FirstFrame(Byte(at)) => to >= a + 8
    BY <1>1, <1>3, <1>7, <2>1
  <2> QED
    BY <1>2, <1>5, <2>3, <2>4, <2>5 DEF TurnPart
<1>8. CASE ~Bare(Byte(at)) /\ Byte(at) = SOS
  <2>1. to = FindScanEnd(from) /\ from = a + x
    BY <1>8
  <2>2. from \in Nat /\ from <= Len(file)
    <3> HIDE DEF a, x
    <3> QED
      BY <1>1, <1>3, <1>8
  <2> HIDE DEF to, from, a, x
  <2>3. to \in from..Len(file) /\ EndsScan(to) /\ \A j \in from..(to - 1) : ~EndsScan(j)
    BY <1>1, <2>1, <2>2, ScanEndIs
  <2>3a. x \in Nat /\ x >= 4 /\ from = a + x
    BY <1>3, <1>8, <2>1
  <2>4. to \in Nat /\ to <= Len(file) /\ a + 2 <= to /\ a + 4 <= to /\ a + x <= to
    <3>1. to \in Nat /\ from <= to /\ to <= Len(file)
      BY <1>1, <2>2, <2>3
    <3> QED
      BY <1>1, <2>3a, <3>1
  <2>5. ScanBytes(file, a, x, to - a)
    <3> SUFFICES ASSUME NEW j \in (x + 1)..(to - a - 1), file[a + j] = FF
                 PROVE  file[a + j + 1] \in {FF, 0} \cup RST
      BY DEF ScanBytes
    <3> DEFINE i == a + j - 1
    <3>1. i \in from..(to - 1) /\ i + 1 < Len(file) /\ i + 1 = a + j /\ i + 1 + 1 = a + j + 1
      <4>1. /\ a \in Nat /\ x \in Nat /\ from = a + x /\ to \in Nat /\ to <= Len(file)
            /\ Len(file) \in Nat /\ j \in Nat
        BY <1>1, <2>3a, <2>4
      <4>2. i = a + j - 1
        OBVIOUS
      <4> HIDE DEF i
      <4> QED
        BY <4>1, <4>2
    <3> HIDE DEF i
    <3>2. ~EndsScan(i)
      BY <2>3, <3>1
    <3> QED
      BY <3>1, <3>2 DEF EndsScan, Byte
  <2>6. to = Len(file) \/ AtMarker(file, to)
    <3> SUFFICES ASSUME to # Len(file) PROVE AtMarker(file, to)
      OBVIOUS
    <3>1. to + 1 < Len(file) /\ Byte(to) = FF /\ Byte(to + 1) \notin {FF, 0} \cup RST
      BY <2>3 DEF EndsScan
    <3>2. to + 2 <= Len(file) /\ to + 1 + 1 = to + 2
      BY <1>1, <2>4, <3>1
    <3> QED
      BY <3>1, <3>2 DEF AtMarker, Byte
  <2>7. p \in Places
    BY <1>1, <2>4 DEF Places
  <2> HIDE DEF p
  <2>8. IsPart("jpeg", file, p)
    BY <1>1, <1>2, <1>3, <1>4, <1>5, <1>8, <2>4, <2>5, <2>6 DEF IsPart, IsJpegPart, x
  <2>9. Byte(at) \notin SOF
    BY <1>8 DEF SOF, SOS
  <2> QED
    BY <1>2, <1>5, <2>7, <2>8, <2>9 DEF TurnPart, FirstFrame
<1> QED
  BY <1>6, <1>7, <1>8

\* so it is one that l names.
LEMMA TurnIsExpected ==
    ASSUME WalkInv, JpegFound(file, segments, offset, dims), JpegTurn(MarkerAt(offset)),
           Kind(file) = "jpeg", NEW l, Laid("jpeg", file, l),
           WalkedTo("jpeg", file, l, segments, offset)
    PROVE  Len(segments) < Len(l)
<1> DEFINE k == Len(segments)
           at == MarkerAt(offset)
<1>1. /\ file \in Seq(Nat) /\ k \in Nat /\ k <= Len(l) /\ Len(l) \in Nat
  BY LenProperties DEF WalkInv, MadeOfBytes, WalkedTo, Laid
<1> SUFFICES ASSUME k = Len(l) PROVE FALSE
  BY <1>1
<1>2. k < MaxSegments
  BY DEF JpegTurn, TurnSound
<1>3. at = MarkerAt(offset) /\ JpegTurn(at)
  OBVIOUS
<1> HIDE DEF at
<1>4. PICK p : TurnPart(at, p)
  BY <1>3, TurnIsPart
<1>5. dims = NoDims <=> NoFrame(file, l, k)
  BY FrameNoted DEF WalkedTo
<1>6. Continues("jpeg", file, l, k, p)
  <2>1. p.from = offset /\ IsPart("jpeg", file, p) /\ offset = Reached("jpeg", file, l, k)
    BY <1>4 DEF TurnPart, WalkedTo
  <2>2. file[p.at + 2] \in SOF /\ NoFrame(file, l, k) => p.to >= p.at + 8
    BY <1>4, <1>5 DEF TurnPart, FirstFrame
  <2> QED
    BY <2>1, <2>2 DEF Continues
<1>7. p \in Places
  BY <1>4 DEF TurnPart
<1> QED
  BY <1>1, <1>2, <1>6, <1>7, LaidEnds

\* The walk goes on to the next part of l.
LEMMA WalkedOn ==
    ASSUME NEW fmt, NEW f, NEW l, NEW s \in Seq(Parts), NEW at, WalkedTo(fmt, f, l, s, at),
           NEW k, k = Len(s), Len(l) \in Nat, k < Len(l), NEW part \in Parts,
           part.start = l[k + 1].at, part.end = l[k + 1].to,
           NEW to, to = Behind(fmt, f, l[k + 1])
    PROVE  WalkedTo(fmt, f, l, Append(s, part), to)
<1> DEFINE t == Append(s, part)
<1>1. /\ k \in Nat /\ Len(t) = k + 1 /\ t[k + 1] = part
      /\ \A i \in 1..k : t[i] = s[i]
  BY AppendProperties, LenProperties
<1> HIDE DEF t
<1>2. Noted(l, s, k)
  BY DEF WalkedTo
<1>3. ASSUME NEW i \in 1..(k + 1) PROVE t[i].start = l[i].at /\ t[i].end = l[i].to
  <2>1. CASE i = k + 1
    BY <1>1, <2>1
  <2>2. CASE i # k + 1
    <3>1. i \in 1..k
      BY <1>1, <2>2
    <3> QED
      BY <1>1, <1>2, <3>1 DEF Noted
  <2> QED
    BY <2>1, <2>2
<1>4. to = Reached(fmt, f, l, k + 1)
  <2>1. k + 1 # 0
    BY <1>1
  <2> QED
    BY <2>1 DEF Reached
<1>5. k + 1 \in Nat /\ k + 1 <= Len(l)
  BY <1>1
<1>6. WalkedTo(fmt, f, l, t, to)
  BY <1>1, <1>3, <1>4, <1>5 DEF WalkedTo, Noted
<1> QED
  BY <1>6 DEF t

\* One turn of walkJpeg.
LEMMA JpegTurnFollows ==
    ASSUME WalkInv, JpegFound(file, segments, offset, dims), JpegTurns,
           Kind(file) = "jpeg", NEW l, Laid("jpeg", file, l),
           WalkedTo("jpeg", file, l, segments, offset)
    PROVE  WalkedTo("jpeg", file, l, segments', offset')
<1> DEFINE k == Len(segments)
           p == l[k + 1]
           at == MarkerAt(offset)
           m == Byte(at)
<1>1. JpegTurn(at) /\ phase = "walk" /\ format = "jpeg"
  BY DEF JpegTurns, JpegEoi, JpegStandalone, JpegSos, JpegSegment, JpegTurn, JpegWalking
<1>2. k < Len(l)
  BY <1>1, TurnIsExpected
<1>3. NextTurn(l)
  BY <1>1, <1>2, TurnIsLaid
<1>4. /\ StandsAt(p) /\ (~Bare(file[p.at + 2]) => HeaderStands(p))
      /\ IsPart("jpeg", file, p) /\ Inside("jpeg", file, p)
  BY <1>3 DEF NextTurn, NextLaid
<1>5. /\ segments \in Seq(Parts) /\ k \in Nat /\ Len(l) \in Nat
  BY LenProperties DEF WalkInv, PartsTyped, Laid
<1>6. /\ at = p.at + 1 /\ m = file[p.at + 2] /\ at \in Nat /\ m \in Nat
      /\ p.at \in Nat /\ p.to \in Nat /\ at - 1 = p.at /\ at > 0
  <2> HIDE DEF p, at, m
  <2>1. /\ at = p.at + 1 /\ Byte(p.at + 1) = file[p.at + 2]
        /\ p.at \in Nat /\ p.to \in Nat /\ file[p.at + 2] \in Nat
    BY <1>4 DEF StandsAt, Inside, at
  <2>2. m = file[p.at + 2]
    BY <2>1 DEF m
  <2>3. at \in Nat /\ at - 1 = p.at /\ at > 0
    BY <2>1
  <2> QED
    BY <2>1, <2>2, <2>3
<1>7. Bare(m) => p.to = at + 1
  <2>1. Bare(m) => p.to = p.at + 2
    BY <1>4, <1>6 DEF IsPart, IsJpegPart
  <2> QED
    BY <1>6, <2>1
<1>8. ~Bare(m) => at + 1 + LengthAt(at) = p.at + JpegHeader(file, p.at)
  BY <1>4, <1>6 DEF HeaderStands
<1>9. ~Bare(m) /\ m # SOS => p.to = p.at + JpegHeader(file, p.at)
  BY <1>4, <1>6 DEF IsPart, IsJpegPart
<1>10. m = SOS => FindScanEnd(p.at + JpegHeader(file, p.at)) = p.to
  <2> SUFFICES ASSUME m = SOS PROVE FindScanEnd(p.at + JpegHeader(file, p.at)) = p.to
    OBVIOUS
  <2>0. ~Bare(SOS)
    BY DEF Bare, SOS, EOI, TEM, RST
  <2>1. HeaderStands(p) /\ file[p.at + 2] = SOS
    BY <1>4, <1>6, <2>0
  <2> HIDE DEF p
  <2> QED
    BY <1>4, <2>1, ScanIsLaid
<1>11. /\ SOS # EOI /\ ~Bare(SOS) /\ Bare(EOI)
       /\ \A y : y \in {TEM} \cup RST => Bare(y) /\ y # EOI
       /\ \A y : ~Bare(y) => y # EOI
  BY DEF Bare, SOS, EOI, TEM, RST
<1>12. \E kind \in Kinds :
          /\ segments' = Append(segments, Part(kind, at, p.to))
          /\ offset' = IF m = EOI THEN Len(file) ELSE p.to
  <2>0. {"eoi", "standalone", "sos", "segment"} = Kinds
    BY DEF Kinds
  <2>1. CASE JpegEoi
    BY <1>7, <1>11, <2>0, <2>1 DEF JpegEoi, Walked
  <2>2. CASE JpegStandalone
    BY <1>7, <1>11, <2>0, <2>2 DEF JpegStandalone, Walked
  <2>3. CASE JpegSos
    BY <1>8, <1>10, <1>11, <2>0, <2>3 DEF JpegSos, Walked
  <2>4. CASE JpegSegment
    BY <1>8, <1>9, <1>11, <2>0, <2>4 DEF JpegSegment, Walked
  <2> QED
    BY <2>1, <2>2, <2>3, <2>4 DEF JpegTurns
<1>13. PICK kind \in Kinds :
          /\ segments' = Append(segments, Part(kind, at, p.to))
          /\ offset' = IF m = EOI THEN Len(file) ELSE p.to
  BY <1>12
<1> DEFINE part == Part(kind, at, p.to)
           to == offset'
<1>14. part \in Parts /\ part.start = p.at /\ part.end = p.to
  <2> HIDE DEF at, p
  <2>1. /\ Part(kind, at, p.to) \in Parts
        /\ Part(kind, at, p.to).start = at - 1
        /\ Part(kind, at, p.to).end = p.to
    BY <1>6, MarkerPart
  <2> QED
    BY <1>6, <2>1
<1>15. to = Behind("jpeg", file, p)
  BY <1>6, <1>13 DEF Behind
<1>16. WalkedTo("jpeg", file, l, Append(segments, part), to)
  <2> HIDE DEF part, to, at
  <2> QED
    BY <1>2, <1>5, <1>14, <1>15, WalkedOn
<1> QED
  BY <1>13, <1>16

\* The first frame header of the layout is the one the walk saw.
LEMMA FrameTold ==
    ASSUME NEW f, NEW c, NEW l, NEW d, Len(l) \in Nat, JpegFrame(f, c, Len(l), d),
           \A i \in 1..Len(l) : c[i] = l[i].at
    PROVE  JpegSize(f, l) = d
<1> DEFINE m == Len(l)
           frames == {i \in 1..m : f[l[i].at + 2] \in SOF}
<1>1. frames = {i \in 1..m : f[c[i] + 2] \in SOF}
  OBVIOUS
<1>2. CASE d = NoDims /\ \A i \in 1..m : f[c[i] + 2] \notin SOF
  <2>1. frames = {}
    BY <1>1, <1>2
  <2> QED
    BY <1>2, <2>1 DEF JpegSize
<1>3. ASSUME NEW i \in 1..m, f[c[i] + 2] \in SOF,
             \A j \in 1..(i - 1) : f[c[j] + 2] \notin SOF,
             d = <<f[c[i] + 7], f[c[i] + 6]>>
      PROVE  JpegSize(f, l) = d
  <2>1. i \in frames
    BY <1>1, <1>3
  <2>2. \A j \in frames : i <= j
    BY <1>1, <1>3
  <2>3. \A j \in frames : (\A n \in frames : j <= n) => j = i
    BY <2>1, <2>2
  <2>4. (CHOOSE j \in frames : \A n \in frames : j <= n) = i
    <3> HIDE DEF frames
    <3> QED
      BY <2>1, <2>2, <2>3
  <2>5. frames # {}
    BY <2>1
  <2>6. JpegSize(f, l) = <<f[l[i].at + 7], f[l[i].at + 6]>>
    BY <2>4, <2>5 DEF JpegSize
  <2> QED
    BY <1>3, <2>6
<1> QED
  BY <1>2, <1>3 DEF JpegFrame

\* A walk that can go no further has found all of l.
LEMMA JpegWalkEnds ==
    ASSUME WalkInv, JpegFound(file, segments, offset, dims), phase = "walk", format = "jpeg",
           Kind(file) = "jpeg", NEW l, Laid("jpeg", file, l),
           WalkedTo("jpeg", file, l, segments, offset),
           offset >= Len(file) \/ ~TurnSound(MarkerAt(offset))
    PROVE  WalkedTo("jpeg", file, l, segments, offset) /\ Len(segments) = Len(l)
<1>1. /\ Len(segments) \in Nat /\ Len(segments) <= Len(l) /\ Len(l) \in Nat
      /\ offset \in Nat /\ Len(file) \in Nat
  BY LenProperties DEF WalkInv, MadeOfBytes, WalkedTo, Laid
<1> SUFFICES ASSUME Len(segments) < Len(l) PROVE FALSE
  BY <1>1
<1>2. NextTurn(l)
  BY TurnIsLaid
<1>3. JpegTurn(MarkerAt(offset)) /\ JpegWalking
  BY <1>2 DEF NextTurn, StandsAt
<1> QED
  BY <1>1, <1>3 DEF JpegTurn, JpegWalking

\* If it ends early, l tells no size,
LEMMA JpegMalformedTold ==
    ASSUME WalkInv, JpegFound(file, segments, offset, dims), JpegMalformed,
           Kind(file) = "jpeg", NEW l, Laid("jpeg", file, l),
           WalkedTo("jpeg", file, l, segments, offset)
    PROVE  SizeTold("jpeg", file, l) = NoDims
<1>1. /\ phase = "walk" /\ format = "jpeg" /\ offset < Len(file)
      /\ ~TurnSound(MarkerAt(offset))
  BY DEF JpegMalformed, JpegWalking
<1>2. Len(segments) = Len(l)
  BY <1>1, JpegWalkEnds
<1>3. offset = Reached("jpeg", file, l, Len(l))
  BY <1>2 DEF WalkedTo
<1>4. ~(offset >= Len(file))
  <2>1. offset \in Nat /\ Len(file) \in Nat
    BY LenProperties DEF WalkInv, MadeOfBytes
  <2> QED
    BY <1>1, <2>1
<1> QED
  BY <1>3, <1>4 DEF SizeTold

\* and at the end of the file it knows what l tells.
LEMMA JpegWalkedTold ==
    ASSUME WalkInv, JpegFound(file, segments, offset, dims), JpegWalked,
           Kind(file) = "jpeg", NEW l, Laid("jpeg", file, l),
           WalkedTo("jpeg", file, l, segments, offset)
    PROVE  /\ Len(segments) = Len(l)
           /\ SizeTold("jpeg", file, l) = IF SawKind("sos") THEN dims ELSE NoDims
<1> DEFINE n == Len(l)
<1>1. phase = "walk" /\ format = "jpeg" /\ offset >= Len(file)
  BY DEF JpegWalked
<1>2. Len(segments) = n
  BY <1>1, JpegWalkEnds
<1>3. /\ offset = Reached("jpeg", file, l, n) /\ n \in Nat
      /\ \A i \in 1..n : segments[i].start = l[i].at
  BY <1>2 DEF WalkedTo, Noted
<1>4. JpegSize(file, l) = dims
  <2>1. JpegFrame(file, Begins(segments), n, dims)
    BY <1>2 DEF JpegFound
  <2>2. \A i \in 1..n : Begins(segments)[i] = l[i].at
    BY <1>2, <1>3 DEF Begins
  <2> QED
    BY <1>3, <2>1, <2>2, FrameTold
<1>5. \A i \in 1..n : segments[i].kind = "sos" <=> file[l[i].at + 2] = SOS
  <2> TAKE i \in 1..n
  <2>1. JpegPart(file, segments[i])
    BY <1>2 DEF JpegFound
  <2>2. Bare(SOS) = FALSE
    BY DEF Bare, SOS, EOI, TEM, RST
  <2> QED
    BY <1>3, <2>1, <2>2 DEF JpegPart, Kinds
<1>6. SawKind("sos") <=> \E i \in 1..n : file[l[i].at + 2] = SOS
  BY <1>2, <1>5 DEF SawKind
<1>7. SizeTold("jpeg", file, l) = IF SawKind("sos") THEN dims ELSE NoDims
  BY <1>1, <1>3, <1>4, <1>6 DEF SizeTold
<1> QED
  BY <1>2, <1>7

-----------------------------------------------------------------------------
(* A WebP is walked chunk by chunk.                                        *)

\* What the walk reads where it stands.
LEMMA RiffFields ==
    ASSUME WalkInv, Kind(file) = "webp"
    PROVE  /\ file \in Seq(Nat) /\ Len(file) \in Nat /\ Len(file) >= 3 /\ offset \in Nat
           /\ file[2] \in Nat /\ Declared = file[2] /\ RiffEnd = 2 + file[2]
           /\ Byte(offset) = file[offset + 1] /\ Byte(offset + 1) = file[offset + 2]
           /\ ChunkEnd = offset + 2 + file[offset + 2]
<1>1. file \in Seq(Nat) /\ Len(file) \in Nat /\ offset \in Nat
  BY LenProperties DEF WalkInv, MadeOfBytes
<1>2. Len(file) >= 3
  BY <1>1 DEF Kind
<1>3. file[2] \in Nat /\ Declared = file[2]
  BY <1>1, <1>2 DEF Declared, Byte
<1>4. Byte(offset) = file[offset + 1] /\ Byte(offset + 1) = file[offset + 2]
  <2>1. offset + 1 + 1 = offset + 2
    BY <1>1
  <2> QED
    BY <2>1 DEF Byte
<1> QED
  BY <1>1, <1>2, <1>3, <1>4 DEF RiffEnd, ChunkEnd

\* The next chunk of l is the one the walk takes.
ChunkStands(p) ==
    /\ RiffSound /\ offset + 2 <= RiffEnd /\ RiffChunkSound
    /\ p.at = offset /\ p.to = ChunkEnd
    /\ Behind("webp", file, p) = ChunkEnd + (Byte(offset + 1) % 2)

LEMMA ChunkIsLaid ==
    ASSUME WalkInv, WebpFound(file, segments, offset), Kind(file) = "webp",
           NEW l, Laid("webp", file, l), WalkedTo("webp", file, l, segments, offset),
           NEW k, k = Len(segments), k < Len(l)
    PROVE  ChunkStands(l[k + 1])
<1> DEFINE p == l[k + 1]
<1>1. file \in Seq(Nat) /\ k \in Nat
  BY DEF WalkInv, MadeOfBytes, WalkedTo
<1>2. NextLaid("webp", file, l, k)
  BY <1>1, LaidNext
<1>3. /\ Inside("webp", file, p) /\ p.from = offset /\ IsPart("webp", file, p)
      /\ k < MaxSegments
  BY <1>2 DEF NextLaid, Continues, WalkedTo
<1> HIDE DEF p
<1>4. p.at = offset /\ IsWebpChunk(file, p)
  BY <1>3 DEF IsPart, Opens
<1>5. offset >= 1
  <2>1. CASE k = 0
    BY <2>1 DEF WalkedTo, Reached, Preamble
  <2>2. CASE k # 0
    <3>1. k \in 1..Len(segments) /\ ChunkAt(file, segments[k])
      BY <1>1, <2>2 DEF WebpFound
    <3>2. offset = segments[k].end + (file[segments[k].start + 2] % 2)
      BY <2>2 DEF WebpFound, Edge
    <3> DEFINE z == segments[k].start
               x == file[z + 2]
    <3>3. z \in Nat /\ x \in Nat /\ segments[k].end = z + 2 + x
      BY <3>1 DEF ChunkAt
    <3>4. offset = z + 2 + x + (x % 2)
      BY <3>2, <3>3
    <3> HIDE DEF z, x
    <3>5. x % 2 \in Nat
      BY <3>3
    <3> QED
      BY <3>3, <3>4, <3>5
  <2> QED
    BY <2>1, <2>2
<1>6. /\ Len(file) \in Nat /\ offset \in Nat
      /\ file[2] \in Nat /\ Declared = file[2] /\ RiffEnd = 2 + file[2]
      /\ Byte(offset) = file[offset + 1] /\ Byte(offset + 1) = file[offset + 2]
      /\ ChunkEnd = offset + 2 + file[offset + 2]
  BY RiffFields
<1>7. /\ RiffEnd <= Len(file) /\ offset + 2 <= RiffEnd /\ p.to = ChunkEnd /\ ChunkEnd <= RiffEnd
      /\ Byte(offset) >= Symbols /\ Byte(offset + 1) <= MaxRiffSize
  BY <1>4, <1>6 DEF IsWebpChunk
<1>8. RiffSound
  <2>1. Declared >= 1
    BY <1>5, <1>6, <1>7
  <2> QED
    BY <1>7, <2>1 DEF RiffSound
<1>9. RiffChunkSound
  BY <1>3, <1>7 DEF RiffChunkSound, Printable
<1>10. Behind("webp", file, p) = ChunkEnd + (Byte(offset + 1) % 2)
  BY <1>4, <1>6, <1>7 DEF Behind
<1> QED
  BY <1>4, <1>7, <1>8, <1>9, <1>10 DEF ChunkStands, p

\* A chunk the walk can take is one that l names.
LEMMA ChunkIsExpected ==
    ASSUME WalkInv, Kind(file) = "webp",
           NEW l, Laid("webp", file, l), WalkedTo("webp", file, l, segments, offset),
           RiffSound, offset + 2 <= RiffEnd, RiffChunkSound
    PROVE  Len(segments) < Len(l)
<1> DEFINE k == Len(segments)
           p == [from |-> offset, at |-> offset, to |-> ChunkEnd]
<1>1. /\ file \in Seq(Nat) /\ k \in Nat /\ k <= Len(l) /\ Len(l) \in Nat
  BY LenProperties DEF WalkInv, MadeOfBytes, WalkedTo, Laid
<1> SUFFICES ASSUME k = Len(l) PROVE FALSE
  BY <1>1
<1>2. k < MaxSegments
  BY DEF RiffChunkSound
<1>3. /\ Len(file) \in Nat /\ offset \in Nat
      /\ file[2] \in Nat /\ Declared = file[2] /\ RiffEnd = 2 + file[2]
      /\ Byte(offset) = file[offset + 1] /\ Byte(offset + 1) = file[offset + 2]
      /\ ChunkEnd = offset + 2 + file[offset + 2]
  BY RiffFields
<1>4. /\ RiffEnd <= Len(file) /\ ChunkEnd <= RiffEnd
      /\ Byte(offset) >= Symbols /\ Byte(offset + 1) <= MaxRiffSize
  BY DEF RiffSound, RiffChunkSound, Printable
<1>5. p.from = offset /\ p.at = offset /\ p.to = ChunkEnd
  OBVIOUS
<1>6. p \in Places
  <2>1. offset + 2 <= Len(file)
    BY <1>3, <1>4
  <2>2. file[offset + 2] \in Nat
    <3> DEFINE i == offset + 2
    <3>1. i \in 1..Len(file)
      BY <1>3, <2>1
    <3> HIDE DEF i
    <3>2. file \in Seq(Nat)
      BY <1>1
    <3>3. file[i] \in Nat
      BY <3>1, <3>2, ElementOf
    <3> QED
      BY <3>3 DEF i
  <2>3. ChunkEnd \in Nat
    BY <1>3, <2>2
  <2> QED
    BY <1>3, <2>3 DEF Places
<1> HIDE DEF p
<1>7. IsPart("webp", file, p)
  <2>1. IsWebpChunk(file, p)
    BY <1>3, <1>4, <1>5 DEF IsWebpChunk
  <2>2. Opens("webp", file, p.from, p.at)
    BY <1>3, <1>5 DEF Opens
  <2> QED
    BY <2>1, <2>2 DEF IsPart
<1>8. Continues("webp", file, l, k, p)
  BY <1>5, <1>7 DEF Continues, WalkedTo
<1> QED
  BY <1>1, <1>2, <1>6, <1>8, LaidEnds

\* One turn of readRiffChunks.
LEMMA WebpChunkFollows ==
    ASSUME WalkInv, WebpFound(file, segments, offset), WebpChunk, Kind(file) = "webp",
           NEW l, Laid("webp", file, l), WalkedTo("webp", file, l, segments, offset)
    PROVE  WalkedTo("webp", file, l, segments', offset')
<1> DEFINE k == Len(segments)
           p == l[k + 1]
           part == [marker |-> Byte(offset), kind |-> "segment", start |-> offset,
                    end |-> ChunkEnd, payload |-> offset + 2]
           to == offset'
<1>1. /\ RiffSound /\ offset + 2 <= RiffEnd /\ RiffChunkSound
      /\ segments' = Append(segments, part) /\ to = ChunkEnd + (Byte(offset + 1) % 2)
  BY DEF WebpChunk, InRiff, Walked
<1>2. k < Len(l)
  BY <1>1, ChunkIsExpected
<1>3. ChunkStands(p)
  <2> DEFINE n == k
  <2>1. n = Len(segments) /\ n < Len(l)
    BY <1>2
  <2> HIDE DEF n
  <2>2. ChunkStands(l[n + 1])
    BY <2>1, ChunkIsLaid
  <2> QED
    BY <2>2 DEF n
<1>4. /\ segments \in Seq(Parts) /\ k \in Nat /\ Len(l) \in Nat /\ file \in Seq(Nat)
  BY LenProperties DEF WalkInv, MadeOfBytes, PartsTyped, Laid
<1>5. NextLaid("webp", file, l, k)
  BY <1>2, <1>4, LaidNext
<1>6. part \in Parts
  <2>1. offset \in Nat /\ Byte(offset) = file[offset + 1]
    BY RiffFields
  <2>2. p.at = offset /\ p.to = ChunkEnd
    BY <1>3 DEF ChunkStands
  <2>3. p.to \in Nat /\ file[p.at + 1] \in Nat
    BY <1>5 DEF NextLaid, Inside
  <2>4. ChunkEnd \in Nat /\ Byte(offset) \in Nat
    BY <2>1, <2>2, <2>3
  <2> QED
    BY <2>1, <2>4 DEF Parts, Kinds
<1>7. part.start = p.at /\ part.end = p.to /\ to = Behind("webp", file, p)
  BY <1>1, <1>3 DEF ChunkStands
<1>8. WalkedTo("webp", file, l, Append(segments, part), to)
  <2> HIDE DEF part, to
  <2> QED
    BY <1>2, <1>4, <1>6, <1>7, WalkedOn
<1> QED
  BY <1>1, <1>8

\* A walk that ends early ends in a file of which l tells no size,
LEMMA WebpMalformedTold ==
    ASSUME WalkInv, WebpFound(file, segments, offset), WebpMalformed, Kind(file) = "webp",
           NEW l, Laid("webp", file, l), WalkedTo("webp", file, l, segments, offset)
    PROVE  SizeTold("webp", file, l) = NoDims
<1> DEFINE k == Len(segments)
<1>1. /\ file[2] \in Nat /\ Declared = file[2] /\ RiffEnd = 2 + file[2] /\ offset \in Nat
  BY RiffFields
<1>2. CASE ~RiffSound
  BY <1>1, <1>2 DEF RiffSound, SizeTold
<1>3. CASE RiffSound
  <2>1. offset + 2 <= RiffEnd /\ ~RiffChunkSound
    BY <1>3 DEF WebpMalformed, InRiff
  <2>2. k \in Nat /\ k <= Len(l) /\ Len(l) \in Nat
    BY LenProperties DEF WalkedTo, Laid
  <2>3. ~(k < Len(l))
    <3> SUFFICES ASSUME k < Len(l) PROVE FALSE
      OBVIOUS
    <3> DEFINE n == k
    <3>1. n = Len(segments) /\ n < Len(l)
      OBVIOUS
    <3> HIDE DEF n
    <3>2. ChunkStands(l[n + 1])
      BY <3>1, ChunkIsLaid
    <3> QED
      BY <2>1, <3>2 DEF ChunkStands
  <2>4. offset = Reached("webp", file, l, Len(l))
    <3>1. k = Len(l)
      BY <2>2, <2>3
    <3> QED
      BY <3>1 DEF WalkedTo
  <2>5. ~(offset + 2 > 2 + file[2])
    BY <1>1, <2>1
  <2> QED
    BY <2>4, <2>5 DEF SizeTold
<1> QED
  BY <1>2, <1>3

\* and one that ends where it should reads the size that l tells.
LEMMA WebpWalkedTold ==
    ASSUME WalkInv, WebpFound(file, segments, offset), WebpWalked, Kind(file) = "webp",
           NEW l, Laid("webp", file, l), WalkedTo("webp", file, l, segments, offset)
    PROVE  Len(segments) = Len(l) /\ SizeTold("webp", file, l) = WebpDimensions
<1> DEFINE k == Len(segments)
           s == [i \in 1..Len(l) |-> l[i].at]
<1>1. /\ file[2] \in Nat /\ Declared = file[2] /\ RiffEnd = 2 + file[2] /\ offset \in Nat
      /\ file \in Seq(Nat)
  BY RiffFields
<1>2. RiffSound /\ offset + 2 > RiffEnd
  BY DEF WebpWalked
<1>3. k \in Nat /\ k <= Len(l) /\ Len(l) \in Nat
  BY LenProperties DEF WalkedTo, Laid
<1>4. k = Len(l)
  <2> SUFFICES ASSUME k < Len(l) PROVE FALSE
    BY <1>3
  <2> DEFINE n == k
  <2>1. n = Len(segments) /\ n < Len(l)
    OBVIOUS
  <2> HIDE DEF n
  <2>2. ChunkStands(l[n + 1])
    BY <2>1, ChunkIsLaid
  <2>3. offset + 2 <= RiffEnd
    BY <2>2 DEF ChunkStands
  <2> QED
    BY <1>1, <1>2, <2>3
<1>5. \A i \in 1..k : ChunkAt(file, segments[i])
  BY DEF WebpFound
<1>6. \A i \in 1..k : s[i] = segments[i].start
  BY <1>4 DEF WalkedTo, Noted
<1> HIDE DEF s
<1>7. WebpDimensions = Measured(file, s, k)
  BY <1>1, <1>3, <1>5, <1>6, MeasuredInFile
<1>8. /\ offset = Reached("webp", file, l, Len(l)) /\ file[2] >= 1 /\ 2 + file[2] <= Len(file)
      /\ offset + 2 > 2 + file[2]
  BY <1>1, <1>2, <1>4 DEF WalkedTo, RiffSound
<1>9. SizeTold("webp", file, l) = Measured(file, s, Len(l))
  BY <1>8 DEF SizeTold, s
<1> QED
  BY <1>4, <1>7, <1>9

-----------------------------------------------------------------------------
(* The picture is written part by part.                                    *)

Drawn(fmt, f, l) == [k \in 1..Len(l) |-> Stored(fmt, f, l[k])]

Opening(fmt) ==
    IF fmt = "jpeg" THEN <<FF, SOI>> ELSE IF fmt = "png" THEN <<PngSig>> ELSE <<>>

\* g is what is stored of the first n parts of l.
Drew(fmt, f, l, g, n) ==
    /\ n \in Nat /\ n <= Len(l)
    /\ Strung(Drawn(fmt, f, l), n) \in Seq(Nat)
    /\ g = Opening(fmt) \o Strung(Drawn(fmt, f, l), n)

LEMMA DrewNone ==
    ASSUME NEW fmt, NEW f, NEW l, Len(l) \in Nat
    PROVE  Drew(fmt, f, l, Opening(fmt), 0)
<1>1. Strung(Drawn(fmt, f, l), 0) = <<>>
  BY StrungNone
<1>2. Opening(fmt) \in Seq(Nat)
  BY DEF Opening, FF, SOI, PngSig
<1>3. Opening(fmt) \o <<>> = Opening(fmt)
  BY <1>2, ConcatEmptySeq
<1>4. <<>> \in Seq(Nat) /\ 0 \in Nat /\ 0 <= Len(l)
  OBVIOUS
<1> HIDE DEF Opening
<1> QED
  BY <1>1, <1>3, <1>4 DEF Drew

\* One part more,
LEMMA DrewOn ==
    ASSUME NEW fmt, NEW f, NEW l, NEW g, NEW n, Drew(fmt, f, l, g, n), Len(l) \in Nat, n < Len(l),
           NEW b \in Seq(Nat), Stored(fmt, f, l[n + 1]) = b
    PROVE  Drew(fmt, f, l, g \o b, n + 1)
<1> DEFINE ps == Drawn(fmt, f, l)
           before == Strung(ps, n)
           first == Opening(fmt)
<1>1. n \in Nat /\ before \in Seq(Nat) /\ g = first \o before
  BY DEF Drew
<1>2. n + 1 \in 1..Len(l)
  BY <1>1
<1>3. ps[n + 1] = b
  BY <1>2 DEF Drawn
<1>4. first \in Seq(Nat)
  BY DEF Opening, FF, SOI, PngSig
<1> HIDE DEF ps
<1>5. Strung(ps, n + 1) = before \o b
  BY <1>1, <1>3, StrungMore
<1> HIDE DEF before, first
<1>6. before \o b \in Seq(Nat)
  BY <1>1, ConcatProperties
<1>7. (first \o before) \o b = first \o (before \o b)
  BY <1>1, <1>4, ConcatAssociative, SMTT(30)
<1>8. n + 1 \in Nat /\ n + 1 <= Len(l)
  BY <1>1
<1> QED
  BY <1>1, <1>5, <1>6, <1>7, <1>8 DEF Drew, ps, first

\* one that is left out,
LEMMA DrewNothing ==
    ASSUME NEW fmt, NEW f, NEW l, NEW g, NEW n, Drew(fmt, f, l, g, n), Len(l) \in Nat, n < Len(l),
           Stored(fmt, f, l[n + 1]) = <<>>
    PROVE  Drew(fmt, f, l, g, n + 1)
<1>1. <<>> \in Seq(Nat)
  OBVIOUS
<1>2. Drew(fmt, f, l, g \o <<>>, n + 1)
  BY <1>1, DrewOn
<1>3. g \in Seq(Nat)
  <2>1. Opening(fmt) \in Seq(Nat)
    BY DEF Opening, FF, SOI, PngSig
  <2> QED
    BY <2>1, ConcatProperties DEF Drew
<1>4. g \o <<>> = g
  BY <1>3, ConcatEmptySeq
<1> QED
  BY <1>2, <1>4

\* and all of them.
LEMMA DrewAll ==
    ASSUME NEW fmt, NEW f, NEW l, NEW g, Drew(fmt, f, l, g, Len(l))
    PROVE  g = Opening(fmt) \o FlattenSeq([k \in 1..Len(l) |-> Stored(fmt, f, l[k])])
<1> DEFINE ps == Drawn(fmt, f, l)
<1>1. [k \in 1..Len(l) |-> ps[k]] = ps
  BY DEF Drawn
<1>2. Strung(ps, Len(l)) = FlattenSeq(ps)
  BY <1>1 DEF Strung
<1> QED
  BY <1>2 DEF Drew, Drawn

-----------------------------------------------------------------------------
(* A PNG is rebuilt chunk by chunk.                                        *)

\* stripPng has taken the first n chunks of l.
PngTaken(l, n) ==
    /\ next = n + 1 /\ offset = Reached("png", file, l, n)
    /\ \A i \in 1..n : file[l[i].at + 2] # IEND
    /\ Drew("png", file, l, out, n)

LEMMA PngFields ==
    ASSUME WalkInv
    PROVE  /\ file \in Seq(Nat) /\ Len(file) \in Nat /\ offset \in Nat
           /\ Byte(offset) = file[offset + 1] /\ PngType = file[offset + 2]
           /\ PngDataEnd = offset + 2 + file[offset + 1]
<1>1. file \in Seq(Nat) /\ Len(file) \in Nat /\ offset \in Nat
  BY LenProperties DEF WalkInv, MadeOfBytes
<1>2. offset + 1 + 1 = offset + 2
  BY <1>1
<1> QED
  BY <1>1, <1>2 DEF PngType, PngDataEnd, PngData, Byte

\* The next chunk of l is the one stripPng takes.
PngStands(p) ==
    /\ offset < Len(file) /\ ChunkSound /\ ChecksumSound
    /\ p.at = offset /\ p.to = PngDataEnd + 1 /\ file[p.at + 2] = PngType
    /\ p.at \in Nat /\ p.to \in Nat /\ p.at + 2 <= p.to /\ p.to <= Len(file)

LEMMA PngIsLaid ==
    ASSUME WalkInv, Kind(file) = "png", NEW l, Laid("png", file, l), NEW n, PngTaken(l, n),
           n < Len(l)
    PROVE  PngStands(l[n + 1])
<1> DEFINE p == l[n + 1]
<1>1. file \in Seq(Nat) /\ n \in Nat
  BY DEF WalkInv, MadeOfBytes, PngTaken, Drew
<1>2. NextLaid("png", file, l, n)
  BY <1>1, LaidNext
<1>3. /\ Inside("png", file, p) /\ p.from = offset /\ IsPart("png", file, p)
      /\ n < MaxSegments
  BY <1>2 DEF NextLaid, Continues, PngTaken
<1> HIDE DEF p
<1>4. p.at = offset /\ IsPngChunk(file, p)
  BY <1>3 DEF IsPart, Opens
<1>5. /\ Len(file) \in Nat /\ offset \in Nat
      /\ Byte(offset) = file[offset + 1] /\ PngType = file[offset + 2]
      /\ PngDataEnd = offset + 2 + file[offset + 1]
  BY PngFields
<1>6. p.to \in Nat /\ p.at + 2 <= p.to /\ p.to <= Len(file) /\ file[offset + 1] \in Nat
  BY <1>3, <1>4 DEF Inside
<1>7. p.to = PngDataEnd + 1 /\ offset < Len(file) /\ offset + 2 <= Len(file)
  <2>1. p.to = offset + 3 + file[offset + 1] /\ offset + 2 <= Len(file)
    BY <1>4 DEF IsPngChunk
  <2> DEFINE x == file[offset + 1]
  <2> HIDE DEF x
  <2>2. p.to = offset + 3 + x /\ x \in Nat /\ PngDataEnd = offset + 2 + x
    BY <1>5, <1>6, <2>1 DEF x
  <2> QED
    BY <1>5, <2>1, <2>2
<1>8. next <= MaxSegments
  BY <1>1, <1>3, BoundsAssumption DEF PngTaken
<1>9. Printable(offset + 1)
  <2>1. offset + 1 + 1 = offset + 2
    BY <1>5
  <2> QED
    BY <1>4, <2>1 DEF IsPngChunk, Printable, Byte
<1>10. ChunkSound
  BY <1>4, <1>5, <1>6, <1>7, <1>8, <1>9 DEF ChunkSound, IsPngChunk
<1>11. ChecksumSound
  <2>1. PngDataEnd \in Nat /\ p.to - 1 = PngDataEnd /\ offset + 1 + 1 = offset + 2
    BY <1>5, <1>6, <1>7
  <2>2. Byte(PngDataEnd) = file[p.to]
    BY <1>7 DEF Byte
  <2>3. Cut(offset + 1, PngDataEnd) = SubSeq(file, p.at + 2, p.to - 1)
    BY <1>4, <2>1 DEF Cut
  <2> QED
    BY <1>4, <1>5, <2>2, <2>3 DEF ChecksumSound, IsPngChunk
<1> QED
  BY <1>4, <1>5, <1>6, <1>7, <1>10, <1>11 DEF PngStands, p

\* A chunk stripPng can take is one that l names.
LEMMA PngIsExpected ==
    ASSUME WalkInv, Kind(file) = "png", NEW l, Laid("png", file, l), NEW n, PngTaken(l, n),
           offset < Len(file), ChunkSound, ChecksumSound
    PROVE  n < Len(l)
<1> DEFINE p == [from |-> offset, at |-> offset, to |-> PngDataEnd + 1]
<1>1. file \in Seq(Nat) /\ n \in Nat /\ n <= Len(l) /\ Len(l) \in Nat
  BY LenProperties DEF WalkInv, MadeOfBytes, PngTaken, Drew, Laid
<1> SUFFICES ASSUME n = Len(l) PROVE FALSE
  BY <1>1
<1>2. n < MaxSegments
  BY <1>1, BoundsAssumption DEF ChunkSound, PngTaken
<1>3. /\ Len(file) \in Nat /\ offset \in Nat
      /\ Byte(offset) = file[offset + 1] /\ PngType = file[offset + 2]
      /\ PngDataEnd = offset + 2 + file[offset + 1]
  BY PngFields
<1>4. /\ offset + 2 <= Len(file) /\ Byte(offset) <= MaxChunkLength
      /\ Printable(offset + 1) /\ PngDataEnd + 1 <= Len(file)
  BY DEF ChunkSound
<1>5. p.from = offset /\ p.at = offset /\ p.to = PngDataEnd + 1
  OBVIOUS
<1>6. file[offset + 1] \in Nat
  <2>1. offset + 1 \in 1..Len(file)
    BY <1>3, <1>4
  <2> QED
    BY <1>1, <2>1
<1>7. PngDataEnd \in Nat /\ PngDataEnd + 1 - 1 = PngDataEnd
  BY <1>3, <1>6
<1>8. p \in Places
  BY <1>3, <1>7 DEF Places
<1> HIDE DEF p
<1>9. IsPngChunk(file, p)
  <2>1. file[offset + 2] >= Symbols
    <3>1. offset + 1 + 1 = offset + 2
      BY <1>3
    <3> QED
      BY <1>4, <3>1 DEF Printable, Byte
  <2>2. PngDataEnd + 1 = offset + 3 + file[offset + 1]
    BY <1>3, <1>6
  <2>3. file[offset + 2] \in PngKeptChunks =>
           file[PngDataEnd + 1] = Crc32(SubSeq(file, offset + 2, PngDataEnd + 1 - 1))
    <3>1. offset + 1 + 1 = offset + 2
      BY <1>3
    <3> QED
      BY <1>3, <1>7, <3>1 DEF ChecksumSound, Byte, Cut
  <2> QED
    BY <1>3, <1>4, <1>5, <2>1, <2>2, <2>3 DEF IsPngChunk
<1>10. Continues("png", file, l, n, p)
  <2>1. Opens("png", file, p.from, p.at)
    BY <1>3, <1>5 DEF Opens
  <2>2. IsPart("png", file, p)
    BY <1>9, <2>1 DEF IsPart
  <2> QED
    BY <1>5, <2>2 DEF Continues, PngTaken
<1> QED
  BY <1>1, <1>2, <1>8, <1>10, LaidEnds

\* What is stored of the chunk is what stripPng writes.
LEMMA PngStored ==
    ASSUME WalkInv, NEW p, PngStands(p)
    PROVE  Stored("png", file, p) = IF PngType \in PngKeptChunks
                                    THEN Cut(offset, PngDataEnd + 1) ELSE <<>>
<1>1. p.at = offset /\ p.to = PngDataEnd + 1 /\ file[p.at + 2] = PngType
  BY DEF PngStands
<1>2. Draws("png", file, p) <=> PngType \in PngKeptChunks
  BY <1>1 DEF Draws
<1> QED
  BY <1>1, <1>2 DEF Stored, Cut

\* One chunk taken.
LEMMA PngTakes ==
    ASSUME WalkInv, Kind(file) = "png", NEW l, Laid("png", file, l), NEW n, PngTaken(l, n),
           PngCopy \/ PngDrop
    PROVE  /\ n < Len(l) /\ PngStands(l[n + 1]) /\ Drew("png", file, l, out', n + 1)
           /\ n \in Nat /\ Len(l) \in Nat /\ n + 1 \in 1..Len(l)
<1> DEFINE p == l[n + 1]
<1>1. offset < Len(file) /\ ChunkSound /\ ChecksumSound
  BY DEF PngCopy, PngDrop, InChunks, ChecksumSound
<1>2. n < Len(l)
  BY <1>1, PngIsExpected
<1>3. PngStands(p)
  BY <1>2, PngIsLaid
<1> HIDE DEF p
<1>4. Stored("png", file, p) = IF PngType \in PngKeptChunks
                               THEN Cut(offset, PngDataEnd + 1) ELSE <<>>
  BY <1>3, PngStored
<1>5. Drew("png", file, l, out, n) /\ Len(l) \in Nat /\ n \in Nat
  BY LenProperties DEF PngTaken, Laid, Drew
<1>6. Drew("png", file, l, out', n + 1)
  <2>1. CASE PngCopy
    <3> DEFINE b == Cut(offset, PngDataEnd + 1)
    <3>1. out' = out \o b /\ PngType \in PngKeptChunks
      BY <2>1 DEF PngCopy, Wrote
    <3>2. b \in Seq(Nat)
      <4>1. offset \in Nat /\ PngDataEnd + 1 \in Nat /\ PngDataEnd + 1 <= Len(file)
        BY <1>3, PngFields DEF PngStands
      <4>2. file \in Seq(Nat)
        BY DEF WalkInv, MadeOfBytes
      <4> DEFINE e == PngDataEnd + 1
      <4> HIDE DEF e
      <4>3. e \in Nat /\ e <= Len(file)
        BY <4>1 DEF e
      <4>4. Cut(offset, e) \in Seq(Nat)
        BY <4>1, <4>2, <4>3, CutIsBytes
      <4> QED
        BY <4>4 DEF e
    <3>3. Stored("png", file, l[n + 1]) = b
      BY <1>4, <3>1 DEF p
    <3> HIDE DEF b
    <3>4. Drew("png", file, l, out \o b, n + 1)
      BY <1>2, <1>5, <3>2, <3>3, DrewOn
    <3> QED
      BY <3>1, <3>4
  <2>2. CASE PngDrop
    <3>1. out' = out /\ PngType \notin PngKeptChunks
      BY <2>2 DEF PngDrop, LeftOut
    <3>2. Stored("png", file, l[n + 1]) = <<>>
      BY <1>4, <3>1 DEF p
    <3>3. Drew("png", file, l, out, n + 1)
      BY <1>2, <1>5, <3>2, DrewNothing
    <3> QED
      BY <3>1, <3>3
  <2> QED
    BY <2>1, <2>2
<1>7. n + 1 \in 1..Len(l)
  BY <1>2, <1>5
<1> QED
  BY <1>2, <1>3, <1>5, <1>6, <1>7 DEF p

\* One turn of stripPng that is not the last.
LEMMA PngFollows ==
    ASSUME WalkInv, Kind(file) = "png", NEW l, Laid("png", file, l), NEW n, PngTaken(l, n),
           PngCopy \/ PngDrop, phase' = "strip"
    PROVE  PngTaken(l, n + 1)'
<1> DEFINE p == l[n + 1]
<1>1. /\ n < Len(l) /\ PngStands(p) /\ Drew("png", file, l, out', n + 1) /\ n \in Nat
  BY PngTakes
<1>2. /\ next' = n + 2 /\ offset' = PngDataEnd + 1 /\ PngType # IEND /\ file' = file
  <2>1. next = n + 1
    BY DEF PngTaken
  <2>2. CASE PngCopy
    BY <1>1, <2>1, <2>2 DEF PngCopy, Wrote
  <2>3. CASE PngDrop
    BY <1>1, <2>1, <2>3 DEF PngDrop, LeftOut, PngKeptChunks
  <2> QED
    BY <2>2, <2>3
<1>3. file[p.at + 2] = PngType /\ p.to = PngDataEnd + 1
  BY <1>1 DEF PngStands
<1>4. Reached("png", file, l, n + 1) = offset'
  <2>1. Behind("png", file, p) = PngDataEnd + 1
    BY <1>2, <1>3 DEF Behind
  <2>2. n + 1 # 0
    BY <1>1
  <2> QED
    BY <1>2, <2>1, <2>2 DEF Reached
<1>5. ASSUME NEW i \in 1..(n + 1) PROVE file[l[i].at + 2] # IEND
  <2>1. CASE i = n + 1
    BY <1>2, <1>3, <2>1
  <2>2. CASE i # n + 1
    <3>1. i \in 1..n
      BY <1>1, <2>2
    <3> QED
      BY <3>1 DEF PngTaken
  <2> QED
    BY <2>1, <2>2
<1>6. next' = n + 1 + 1
  BY <1>1, <1>2
<1> QED
  BY <1>1, <1>2, <1>4, <1>5, <1>6 DEF PngTaken

\* The last is the IEND, and then the picture is written.
LEMMA PngIsDrawn ==
    ASSUME WalkInv, Kind(file) = "png", NEW l, Laid("png", file, l), NEW n, PngTaken(l, n),
           PngCopy, phase' = "extract"
    PROVE  /\ out' = PictureOf("png", file, l)
           /\ ~\A k \in 1..Len(l) : file[l[k].at + 2] # IEND
<1> DEFINE p == l[n + 1]
<1>1. /\ n < Len(l) /\ PngStands(p) /\ Drew("png", file, l, out', n + 1) /\ n \in Nat
      /\ Len(l) \in Nat /\ n + 1 \in 1..Len(l)
  BY PngTakes
<1>2. PngType = IEND
  BY DEF PngCopy, InChunks, PngStripping
<1>3. file[p.at + 2] = IEND
  BY <1>1, <1>2 DEF PngStands
<1>4. n + 1 = Len(l)
  <2> SUFFICES ASSUME n + 1 < Len(l) PROVE FALSE
    BY <1>1
  <2> DEFINE m == n + 1
  <2>1. m \in Nat /\ m < Len(l) /\ m # 0 /\ l[m] = p
    BY <1>1
  <2> HIDE DEF m
  <2>2. file \in Seq(Nat) /\ Len(file) \in Nat
    BY PngFields
  <2>3. NextLaid("png", file, l, m)
    BY <2>1, <2>2, LaidNext
  <2>4. l[m + 1].from = Len(file)
    <3>1. l[m + 1].from = Reached("png", file, l, m)
      BY <2>3 DEF NextLaid, Continues
    <3> QED
      BY <1>3, <2>1, <3>1 DEF Reached, Behind
  <2> DEFINE q == l[m + 1]
  <2>5. Inside("png", file, q)
    BY <2>3 DEF NextLaid
  <2> HIDE DEF q
  <2>6. /\ q.from \in Nat /\ q.at \in Nat /\ q.to \in Nat /\ q.from <= q.at
        /\ q.at + 2 <= q.to /\ q.to <= Len(file)
    BY <2>5 DEF Inside
  <2>7. q.from = Len(file)
    BY <2>4 DEF q
  <2> QED
    BY <2>2, <2>6, <2>7
<1>5. out' = <<PngSig>> \o FlattenSeq([k \in 1..Len(l) |-> Stored("png", file, l[k])])
  <2>1. Drew("png", file, l, out', Len(l))
    BY <1>1, <1>4
  <2>2. out' = Opening("png") \o FlattenSeq([k \in 1..Len(l) |-> Stored("png", file, l[k])])
    <3> DEFINE g == out'
    <3> HIDE DEF g
    <3>1. Drew("png", file, l, g, Len(l))
      BY <2>1 DEF g
    <3>2. g = Opening("png") \o FlattenSeq([k \in 1..Len(l) |-> Stored("png", file, l[k])])
      BY <3>1, DrewAll
    <3> QED
      BY <3>2 DEF g
  <2> QED
    BY <2>2 DEF Opening
<1> QED
  BY <1>1, <1>3, <1>5 DEF PictureOf

\* A PNG that cannot be taken further has no IEND.
LEMMA PngLacksIend ==
    ASSUME WalkInv, Kind(file) = "png", NEW l, Laid("png", file, l), NEW n, PngTaken(l, n),
           PngMalformed \/ PngNoIend
    PROVE  \A k \in 1..Len(l) : file[l[k].at + 2] # IEND
<1>1. n \in Nat /\ n <= Len(l) /\ Len(l) \in Nat
  BY LenProperties DEF PngTaken, Laid, Drew
<1>2. n = Len(l)
  <2> SUFFICES ASSUME n < Len(l) PROVE FALSE
    BY <1>1
  <2>1. PngStands(l[n + 1])
    BY PngIsLaid
  <2>2. Len(file) \in Nat /\ offset \in Nat
    BY PngFields
  <2> QED
    BY <2>1, <2>2 DEF PngStands, PngMalformed, PngNoIend
<1> QED
  BY <1>2 DEF PngTaken

-----------------------------------------------------------------------------
(* A WebP is rebuilt chunk by chunk.                                       *)

\* The rebuild has taken the first n of the parts found, which are those of l.
PartsTaken(fmt, l, n) ==
    /\ next = n + 1 /\ Len(segments) = Len(l) /\ Noted(l, segments, Len(l))
    /\ Drew(fmt, file, l, out, n)

\* The bytes of a rebuilt chunk are told apart by what RebuiltBytes says.
LEMMA RebuiltOnce ==
    ASSUME NEW f \in Seq(Nat), NEW seg, ChunkAt(f, seg), NEW p, NEW q,
           RebuiltBytes(f, seg, p), RebuiltBytes(f, seg, q)
    PROVE  p = q
<1> DEFINE size == f[seg.start + 2]
<1>1. size \in Nat
  BY DEF ChunkAt
<1>2. /\ p \in Seq(Nat) /\ q \in Seq(Nat) /\ Len(p) = Len(q) /\ Len(p) = 2 + size + (size % 2)
      /\ \A j \in 1..(2 + size) : p[j] = q[j]
      /\ size % 2 = 1 => p[3 + size] = q[3 + size]
  BY DEF RebuiltBytes
<1> HIDE DEF size
<1>3. ASSUME NEW j \in 1..Len(p) PROVE p[j] = q[j]
  <2>1. CASE j <= 2 + size
    BY <1>1, <1>2, <2>1
  <2>2. CASE j > 2 + size
    <3>1. size % 2 \in 0..1
      BY <1>1
    <3>2. size % 2 = 1 /\ j = 3 + size
      BY <1>1, <1>2, <2>2, <3>1
    <3> QED
      BY <1>2, <3>2
  <2> QED
    BY <1>1, <2>1, <2>2
<1> QED
  BY <1>2, <1>3, SeqEqual

\* What is stored of a chunk is what stripWebp writes.
LEMMA WebpStored ==
    ASSUME WalkInv, NEW seg, ChunkAt(file, seg), NEW p, seg.start = p.at, seg.end = p.to
    PROVE  /\ seg.marker \in WebpKeptChunks =>
                /\ Stored("webp", file, p) = Rebuilt(seg) \o Pad(seg)
                /\ Rebuilt(seg) \o Pad(seg) \in Seq(Nat)
           /\ seg.marker \notin WebpKeptChunks => Stored("webp", file, p) = <<>>
<1> DEFINE a == p.at
           size == file[a + 2]
           bytes == SubSeq(file, a + 1, p.to)
           flags == IF file[a + 1] = VP8X /\ size >= 1
                    THEN [bytes EXCEPT ![3] = ClearedFlags(@)] ELSE bytes
           whole == IF size % 2 = 1 THEN flags \o <<0>> ELSE flags
<1>1. file \in Seq(Nat) /\ Len(file) \in Nat
  BY LenProperties DEF WalkInv, MadeOfBytes
<1>2. /\ a \in Nat /\ size \in Nat /\ seg.marker = file[a + 1]
      /\ p.to = a + 2 + size /\ p.to <= Len(file) /\ seg.start = a
  BY DEF ChunkAt
<1>3. Draws("webp", file, p) <=> seg.marker \in WebpKeptChunks
  BY <1>2 DEF Draws
<1>4. Stored("webp", file, p) = IF seg.marker \in WebpKeptChunks THEN whole ELSE <<>>
  BY <1>3 DEF Stored
<1>5. RebuiltBytes(file, seg, Rebuilt(seg) \o Pad(seg))
  BY <1>1, RebuiltIs
<1> DEFINE b == a + 2 + size
<1>6. bytes = Slice(file, a, b)
  BY <1>2 DEF Slice
<1>7. /\ a \in Nat /\ b \in Nat /\ a <= b /\ b <= Len(file) /\ b - a = 2 + size
  <2> HIDE DEF a, size
  <2> QED
    BY <1>1, <1>2
<1>8. /\ bytes \in Seq(Nat) /\ Len(bytes) = 2 + size
      /\ \A j \in 1..(2 + size) : bytes[j] = file[a + j]
  <2> HIDE DEF a, b, bytes, size
  <2>1. /\ Slice(file, a, b) \in Seq(Nat) /\ Len(Slice(file, a, b)) = b - a
        /\ \A j \in 1..(b - a) : Slice(file, a, b)[j] = file[a + j]
    BY <1>1, <1>7, SliceIs
  <2> QED
    BY <1>6, <1>7, <2>1
<1> HIDE DEF a, b, bytes, size
<1>9. /\ flags \in Seq(Nat) /\ Len(flags) = 2 + size
      /\ \A j \in 1..(2 + size) :
           flags[j] = IF j = 3 /\ seg.marker = VP8X THEN ClearedFlags(file[a + 3])
                      ELSE file[a + j]
  <2>1. CASE file[a + 1] = VP8X /\ size >= 1
    <3>1. 3 \in 1..(2 + size) /\ 3 \in 1..Len(bytes)
      BY <1>2, <1>8, <2>1
    <3>2. bytes[3] = file[a + 3] /\ bytes[3] \in Nat
      BY <1>8, <3>1
    <3> DEFINE v == ClearedFlags(bytes[3])
    <3>3. v \in Nat
      BY <3>2, FlagsStayBytes
    <3>4. flags = [bytes EXCEPT ![3] = v]
      BY <2>1
    <3> HIDE DEF v, flags
    <3>5. flags \in Seq(Nat) /\ Len(flags) = Len(bytes)
          /\ \A j \in 1..Len(bytes) : flags[j] = IF j = 3 THEN v ELSE bytes[j]
      BY <1>8, <3>1, <3>3, <3>4
    <3>6. v = ClearedFlags(file[a + 3])
      BY <3>2 DEF v
    <3> QED
      BY <1>2, <1>8, <2>1, <3>5, <3>6
  <2>2. CASE ~(file[a + 1] = VP8X /\ size >= 1)
    <3>1. flags = bytes
      BY <2>2
    <3>2. seg.marker = VP8X => 3 \notin 1..(2 + size)
      BY <1>2, <2>2
    <3> HIDE DEF flags
    <3> QED
      BY <1>8, <3>1, <3>2
  <2> QED
    BY <2>1, <2>2
<1> HIDE DEF flags
<1>10. RebuiltBytes(file, seg, whole)
  <2>1. size = file[seg.start + 2] /\ seg.start = a
    BY <1>2 DEF size
  <2>2. CASE size % 2 = 1
    <3>1. whole = flags \o <<0>> /\ <<0>> \in Seq(Nat) /\ Len(<<0>>) = 1
      BY <2>2
    <3>2. /\ whole \in Seq(Nat) /\ Len(whole) = 2 + size + 1
          /\ \A j \in 1..(2 + size) : whole[j] = flags[j]
          /\ whole[2 + size + 1] = 0
      BY <1>2, <1>9, <3>1
    <3>3. 2 + size + 1 = 3 + size
      BY <1>2
    <3> HIDE DEF whole
    <3> QED
      BY <1>9, <2>1, <2>2, <3>2, <3>3 DEF RebuiltBytes
  <2>3. CASE size % 2 # 1
    <3>1. whole = flags /\ size % 2 = 0 /\ 2 + size + (size % 2) = 2 + size
      BY <1>2, <2>3
    <3> HIDE DEF whole
    <3> QED
      BY <1>9, <2>1, <2>3, <3>1 DEF RebuiltBytes
  <2> QED
    BY <2>2, <2>3
<1> HIDE DEF whole
<1>11. whole = Rebuilt(seg) \o Pad(seg) /\ whole \in Seq(Nat)
  <2> DEFINE r == Rebuilt(seg) \o Pad(seg)
  <2>1. RebuiltBytes(file, seg, r)
    BY <1>5
  <2> HIDE DEF r
  <2>2. whole = r
    BY <1>1, <1>10, <2>1, RebuiltOnce
  <2>3. whole \in Seq(Nat)
    BY <1>10 DEF RebuiltBytes
  <2> QED
    BY <2>2, <2>3 DEF r
<1> QED
  BY <1>4, <1>11

\* One part more of the rebuild.
LEMMA PartsFollow ==
    ASSUME NEW fmt, NEW l, Len(l) \in Nat, NEW n, PartsTaken(fmt, l, n), n < Len(l),
           next' = next + 1, UNCHANGED <<file, segments>>,
           \/ out' = out /\ Stored(fmt, file, l[n + 1]) = <<>>
           \/ \E b \in Seq(Nat) : out' = out \o b /\ Stored(fmt, file, l[n + 1]) = b
    PROVE  PartsTaken(fmt, l, n + 1)'
<1>1. Drew(fmt, file, l, out, n) /\ n \in Nat
  BY DEF PartsTaken, Drew
<1>2. Drew(fmt, file, l, out', n + 1)
  <2>1. CASE out' = out /\ Stored(fmt, file, l[n + 1]) = <<>>
    <3>1. Drew(fmt, file, l, out, n + 1)
      BY <1>1, <2>1, DrewNothing
    <3> QED
      BY <2>1, <3>1
  <2>2. ASSUME NEW b \in Seq(Nat), out' = out \o b, Stored(fmt, file, l[n + 1]) = b
        PROVE  Drew(fmt, file, l, out', n + 1)
    <3>1. Drew(fmt, file, l, out \o b, n + 1)
      BY <1>1, <2>2, DrewOn
    <3> QED
      BY <2>2, <3>1
  <2> QED
    BY <2>1, <2>2
<1>3. next' = n + 1 + 1
  BY <1>1 DEF PartsTaken
<1> QED
  BY <1>2, <1>3 DEF PartsTaken

\* One turn of stripWebp,
LEMMA WebpRebuildFollows ==
    ASSUME WalkInv, WebpFound(file, segments, offset), Kind(file) = "webp",
           NEW l, Len(l) \in Nat, NEW n, PartsTaken("webp", l, n), WebpCopy \/ WebpDrop
    PROVE  PartsTaken("webp", l, n + 1)'
<1> DEFINE seg == segments[next]
           p == l[n + 1]
<1>1. next = n + 1 /\ n \in Nat /\ Len(segments) = Len(l) /\ Noted(l, segments, Len(l))
  BY DEF PartsTaken, Drew
<1>2. next <= Len(segments) /\ next' = next + 1 /\ UNCHANGED <<file, segments>>
  BY DEF WebpCopy, WebpDrop, WebpStripping, Wrote, LeftOut
<1>3. next \in 1..Len(l) /\ n < Len(l)
  BY <1>1, <1>2
<1>4. ChunkAt(file, seg) /\ seg.start = p.at /\ seg.end = p.to
  BY <1>1, <1>3 DEF WebpFound, Noted
<1> HIDE DEF seg, p
<1>5. /\ seg.marker \in WebpKeptChunks =>
           /\ Stored("webp", file, p) = Rebuilt(seg) \o Pad(seg)
           /\ Rebuilt(seg) \o Pad(seg) \in Seq(Nat)
      /\ seg.marker \notin WebpKeptChunks => Stored("webp", file, p) = <<>>
  BY <1>4, WebpStored
<1>6. \/ out' = out /\ Stored("webp", file, p) = <<>>
      \/ \E b \in Seq(Nat) : out' = out \o b /\ Stored("webp", file, p) = b
  <2>1. CASE WebpCopy
    <3>1. seg.marker \in WebpKeptChunks /\ out' = out \o (Rebuilt(seg) \o Pad(seg))
      BY <2>1 DEF WebpCopy, Wrote, seg
    <3> QED
      BY <1>5, <3>1
  <2>2. CASE WebpDrop
    <3>1. seg.marker \notin WebpKeptChunks /\ out' = out
      BY <2>2 DEF WebpDrop, LeftOut, seg
    <3> QED
      BY <1>5, <3>1
  <2> QED
    BY <2>1, <2>2
<1> QED
  BY <1>2, <1>3, <1>6, PartsFollow DEF p

\* and the header in front.
LEMMA WebpIsDrawn ==
    ASSUME WalkInv, NEW l, Len(l) \in Nat, NEW n, PartsTaken("webp", l, n), WebpFinish
    PROVE  out' = PictureOf("webp", file, l)
<1> DEFINE drawn == FlattenSeq([k \in 1..Len(l) |-> Stored("webp", file, l[k])])
<1>1. /\ next = n + 1 /\ n \in Nat /\ n <= Len(l) /\ Len(segments) = Len(l)
      /\ Drew("webp", file, l, out, n)
  BY DEF PartsTaken, Drew
<1>2. n = Len(l)
  BY <1>1 DEF WebpFinish
<1>3. out = Opening("webp") \o drawn
  <2>1. Drew("webp", file, l, out, Len(l))
    BY <1>1, <1>2
  <2> HIDE DEF drawn
  <2>2. out = Opening("webp") \o FlattenSeq([k \in 1..Len(l) |-> Stored("webp", file, l[k])])
    BY <2>1, DrewAll
  <2> QED
    BY <2>2 DEF drawn
<1>4. out = drawn
  <2>1. [k \in 1..Len(l) |-> Drawn("webp", file, l)[k]]
           = [k \in 1..Len(l) |-> Stored("webp", file, l[k])]
    BY DEF Drawn
  <2>2. drawn = Strung(Drawn("webp", file, l), Len(l))
    BY <2>1 DEF Strung
  <2>3. drawn \in Seq(Nat)
    BY <1>1, <1>2, <2>2 DEF Drew
  <2> HIDE DEF drawn
  <2>4. <<>> \o drawn = drawn
    BY <2>3, ConcatEmptySeq
  <2> QED
    BY <1>3, <2>4 DEF Opening
<1>5. out' = <<RIFF, 1 + Len(out), WEBP>> \o out
  BY DEF WebpFinish
<1>6. PictureOf("webp", file, l) = <<RIFF, 1 + Len(drawn), WEBP>> \o drawn
  BY DEF PictureOf
<1> QED
  BY <1>4, <1>5, <1>6

-----------------------------------------------------------------------------
(* A JPEG is rebuilt part by part.                                         *)

\* stripJpeg keeps the parts that draw.
LEMMA JpegStored ==
    ASSUME WalkInv, NEW seg, JpegPart(file, seg), NEW p, seg.start = p.at, seg.end = p.to,
           seg.kind = "segment" => seg.end >= Len(file) \/ file[seg.end + 1] = FF
    PROVE  Stored("jpeg", file, p) = IF JpegKept(seg) THEN Cut(seg.start, seg.end) ELSE <<>>
<1> DEFINE a == p.at
           b == p.to
           m == file[a + 2]
<1>1. file \in Seq(Nat) /\ Len(file) \in Nat
  BY LenProperties DEF WalkInv, MadeOfBytes
<1>2. /\ a \in Nat /\ b \in Nat /\ b <= Len(file) /\ a < b /\ seg.marker = m
      /\ seg.kind \in Kinds
  BY DEF JpegPart
<1>3. Draws("jpeg", file, p) <=> \/ m \in (SOF \cup KeptMarkers) \ {EOI}
                                 \/ m = APP0 /\ a + 5 <= b /\ file[a + 5] = JfifId
  BY DEF Draws
<1>4. Stored("jpeg", file, p) = IF Draws("jpeg", file, p) THEN SubSeq(file, a + 1, b) ELSE <<>>
  BY DEF Stored
<1>5. Cut(seg.start, seg.end) = SubSeq(file, a + 1, b)
  BY DEF Cut
<1>6. /\ ~Bare(m) => m # EOI
      /\ Bare(m) => m \notin (SOF \cup KeptMarkers) \ {EOI} /\ m # APP0
      /\ m = APP0 => m \notin SOF \cup KeptMarkers
      /\ SOS \in (SOF \cup KeptMarkers) \ {EOI}
      /\ m = APP0 => m # APP1
      /\ m \in SOF \cup KeptMarkers => m # APP1
  <2> HIDE DEF m
  <2>1. ~Bare(m) => m # EOI
    BY DEF Bare
  <2>2. Bare(m) => m \notin (SOF \cup KeptMarkers) \ {EOI} /\ m # APP0
    BY DEF Bare, SOF, KeptMarkers, EOI, SOS, TEM, RST, APP0
  <2>3. m = APP0 => m \notin SOF \cup KeptMarkers /\ m # APP1
    BY DEF SOF, KeptMarkers, EOI, SOS, APP0, APP1
  <2>4. m \in SOF \cup KeptMarkers => m # APP1
    BY DEF SOF, KeptMarkers, EOI, SOS, APP1
  <2>5. SOS \in (SOF \cup KeptMarkers) \ {EOI}
    BY DEF KeptMarkers, EOI, SOS
  <2> QED
    BY <2>1, <2>2, <2>3, <2>4, <2>5
<1>7. Draws("jpeg", file, p) <=> JpegKept(seg)
  <2>1. CASE seg.kind \in {"eoi", "standalone"}
    <3>1. Bare(m)
      BY <1>2, <2>1 DEF JpegPart
    <3> QED
      BY <1>3, <1>6, <2>1, <3>1 DEF JpegKept
  <2>2. CASE seg.kind = "sos"
    <3>1. m = SOS
      BY <1>2, <2>2 DEF JpegPart
    <3> QED
      BY <1>3, <1>6, <2>2, <3>1 DEF JpegKept
  <2>3. CASE seg.kind = "segment"
    <3>1. /\ ~Bare(m) /\ seg.payload = a + 4 /\ a + JpegHeader(file, a) = b
          /\ JpegHeader(file, a) \in Nat /\ JpegHeader(file, a) >= 4
      BY <1>2, <2>3 DEF JpegPart
    <3>2. b >= a + 4
      <4> DEFINE x == JpegHeader(file, a)
      <4> HIDE DEF x, a, b
      <4>1. x \in Nat /\ x >= 4 /\ a + x = b
        BY <3>1 DEF x
      <4> QED
        BY <1>2, <4>1
    <3>3. Has(seg.payload, JfifId) <=> a + 5 <= b /\ file[a + 5] = JfifId
      <4>1. a + 4 + 1 = a + 5
        BY <1>2
      <4>2. Has(seg.payload, JfifId) <=> a + 4 < Len(file) /\ file[a + 5] = JfifId
        BY <3>1, <4>1 DEF Has, Byte
      <4>3. CASE b = a + 4
        <5>1. a + 4 < Len(file) => file[a + 5] = FF
          <6>1. seg.end >= Len(file) \/ file[seg.end + 1] = FF
            BY <2>3
          <6>2. seg.end = a + 4 /\ seg.end + 1 = a + 5
            BY <4>1, <4>3
          <6>3. a + 4 >= Len(file) \/ file[a + 5] = FF
            BY <6>1, <6>2
          <6>4. a + 4 \in Nat /\ Len(file) \in Nat
            BY <1>1, <1>2
          <6> HIDE DEF a, b
          <6> QED
            BY <6>3, <6>4
        <5>2. FF # JfifId
          BY DEF FF, JfifId
        <5> QED
          BY <1>2, <4>2, <4>3, <5>1, <5>2
      <4>4. CASE b # a + 4
        <5>1. a + 5 <= b /\ a + 4 < Len(file)
          <6> HIDE DEF a, b
          <6> QED
            BY <1>1, <1>2, <3>2, <4>4
        <5> QED
          BY <4>2, <5>1
      <4> QED
        BY <4>3, <4>4
    <3>4. IsJfif(seg) <=> m = APP0 /\ a + 5 <= b /\ file[a + 5] = JfifId
      BY <1>2, <3>3 DEF IsJfif
    <3>5. IsExif(seg) => m = APP1
      BY <1>2 DEF IsExif
    <3> QED
      BY <1>2, <1>3, <1>6, <2>3, <3>1, <3>4, <3>5 DEF JpegKept
  <2> QED
    BY <1>2, <2>1, <2>2, <2>3 DEF Kinds
<1> QED
  BY <1>4, <1>5, <1>7

\* One turn of stripJpeg,
LEMMA JpegRebuildFollows ==
    ASSUME WalkInv, JpegStands(file, segments, offset, dims), NEW l, Len(l) \in Nat,
           NEW n, PartsTaken("jpeg", l, n), JpegCopy \/ JpegSkip \/ JpegDrop
    PROVE  PartsTaken("jpeg", l, n + 1)'
<1> DEFINE seg == segments[next]
           p == l[n + 1]
<1>1. next = n + 1 /\ n \in Nat /\ Len(segments) = Len(l) /\ Noted(l, segments, Len(l))
  BY DEF PartsTaken, Drew
<1>2. next <= Len(segments) /\ next' = next + 1 /\ UNCHANGED <<file, segments>>
  BY DEF JpegCopy, JpegSkip, JpegDrop, JpegStripping, Wrote, LeftOut
<1>3. next \in 1..Len(l) /\ n < Len(l)
  BY <1>1, <1>2
<1>4. /\ JpegPart(file, seg) /\ seg.start = p.at /\ seg.end = p.to
      /\ seg.kind = "segment" => seg.end = offset \/ file[seg.end + 1] = FF
      /\ offset >= Len(file)
  BY <1>1, <1>3 DEF JpegStands, JpegFound, Noted
<1> HIDE DEF seg, p
<1>5. Stored("jpeg", file, p) = IF JpegKept(seg) THEN Cut(seg.start, seg.end) ELSE <<>>
  <2>1. seg.kind = "segment" => seg.end >= Len(file) \/ file[seg.end + 1] = FF
    BY <1>4
  <2> QED
    BY <1>4, <2>1, JpegStored
<1>6. \/ out' = out /\ Stored("jpeg", file, p) = <<>>
      \/ \E b \in Seq(Nat) : out' = out \o b /\ Stored("jpeg", file, p) = b
  <2>1. CASE JpegCopy
    <3>1. JpegKept(seg) /\ out' = out \o Cut(seg.start, seg.end)
      BY <2>1 DEF JpegCopy, Wrote, seg
    <3>2. Cut(seg.start, seg.end) \in Seq(Nat)
      <4>1. /\ file \in Seq(Nat) /\ seg.start \in Nat /\ seg.end \in Nat
            /\ seg.end <= Len(file)
        BY <1>4 DEF WalkInv, MadeOfBytes, JpegPart
      <4> QED
        BY <4>1, CutIsBytes
    <3> QED
      BY <1>5, <3>1, <3>2
  <2>2. CASE JpegSkip
    <3>1. ~JpegKept(seg) /\ out' = out
      BY <2>2 DEF JpegSkip, JpegKept, seg
    <3> QED
      BY <1>5, <3>1
  <2>3. CASE JpegDrop
    <3>1. ~JpegKept(seg) /\ out' = out
      BY <2>3 DEF JpegDrop, LeftOut, seg
    <3> QED
      BY <1>5, <3>1
  <2> QED
    BY <2>1, <2>2, <2>3
<1> QED
  BY <1>2, <1>3, <1>6, PartsFollow DEF p

\* and the new EOI.
LEMMA JpegIsDrawn ==
    ASSUME NEW l, Len(l) \in Nat, NEW n, PartsTaken("jpeg", l, n), JpegFinish
    PROVE  out' = PictureOf("jpeg", file, l)
<1>1. /\ next = n + 1 /\ n \in Nat /\ n <= Len(l) /\ Len(segments) = Len(l)
      /\ Drew("jpeg", file, l, out, n)
  BY DEF PartsTaken, Drew
<1>2. n = Len(l)
  BY <1>1 DEF JpegFinish
<1>3. out = Opening("jpeg") \o FlattenSeq([k \in 1..Len(l) |-> Stored("jpeg", file, l[k])])
  <2>1. Drew("jpeg", file, l, out, Len(l))
    BY <1>1, <1>2
  <2> QED
    BY <2>1, DrewAll
<1>4. out' = out \o <<FF, EOI>>
  BY DEF JpegFinish
<1> QED
  BY <1>3, <1>4 DEF PictureOf, Opening

-----------------------------------------------------------------------------
(* What becomes of a camera's file is what its parts say.                  *)

\* A photo: a file of a known kind that is not too large.
Taken(fmt, f) == Len(f) \in 1..MaxBytes /\ fmt \in {"jpeg", "png", "webp"}

NoIend(f, l) == \A k \in 1..Len(l) : f[l[k].at + 2] # IEND

LEMMA VerdictOf ==
    ASSUME NEW fmt, NEW f, NEW l, Taken(fmt, f), Len(f) \in Nat, NEW d, d = SizeTold(fmt, f, l)
    PROVE  /\ d = NoDims => Verdict(fmt, f, l) = "MALFORMED"
           /\ d # NoDims /\ NonsensicalSize(d) => Verdict(fmt, f, l) = "MALFORMED"
           /\ d # NoDims /\ ~NonsensicalSize(d) /\ TooManyPixels(d) =>
                Verdict(fmt, f, l) = "TOO_MANY_PIXELS"
           /\ d # NoDims /\ Fits(d) /\ fmt = "png" /\ NoIend(f, l) =>
                Verdict(fmt, f, l) = "MALFORMED"
           /\ d # NoDims /\ Fits(d) /\ ~(fmt = "png" /\ NoIend(f, l)) =>
                Verdict(fmt, f, l) = "kept"
<1>1. ~(Len(f) = 0) /\ ~(Len(f) > MaxBytes) /\ fmt # "none"
  BY BoundsAssumption DEF Taken
<1> QED
  BY <1>1 DEF Verdict, NonsensicalSize, TooManyPixels, Fits, NoIend

\* What is known of the camera's file in each phase.
FateAs(l) ==
    LET fmt == Kind(file) IN
    /\ phase = "refused" => refusal = Verdict(fmt, file, l)
    /\ phase \notin {"received", "refused"} => format = fmt /\ Taken(fmt, file)
    /\ phase = "walk" /\ fmt # "png" => WalkedTo(fmt, file, l, segments, offset)
    /\ phase \in {"budget", "strip"} =>
         /\ dims = SizeTold(fmt, file, l) /\ dims # NoDims
         /\ fmt # "png" => Len(segments) = Len(l) /\ Noted(l, segments, Len(l))
    /\ phase = "strip" => IF fmt = "png" THEN \E n : PngTaken(l, n)
                          ELSE \E n : PartsTaken(fmt, l, n)
    /\ phase \in {"extract", "stored"} =>
         out = PictureOf(fmt, file, l) /\ Verdict(fmt, file, l) = "kept"

\* A step on the way to a picture,
LEMMA JpegFateStep ==
    ASSUME WalkInv, FirstPass, JpegStep, NEW l, Laid(Kind(file), file, l), FateAs(l)
    PROVE  FateAs(l)'
<1>1. /\ format = "jpeg" /\ phase \in {"walk", "strip"} /\ UNCHANGED <<file, format>>
  BY JpegInOrder DEF InOrder
<1>2. Kind(file) = "jpeg" /\ Kind(file') = "jpeg" /\ Taken("jpeg", file) /\ Taken("jpeg", file')
  BY <1>1 DEF FateAs
<1>3. JpegFirst /\ Laid("jpeg", file, l) /\ Len(l) \in Nat /\ Len(file) \in Nat
  BY <1>1, <1>2, LenProperties DEF FirstPass, FirstRebuild, Laid, WalkInv, MadeOfBytes
<1>4. CASE phase = "walk"
  <2>1. WalkedTo("jpeg", file, l, segments, offset) /\ JpegFound(file, segments, offset, dims)
    BY <1>2, <1>3, <1>4 DEF FateAs, JpegFirst
  <2>2. CASE JpegMalformed
    <3>1. SizeTold("jpeg", file, l) = NoDims
      BY <1>2, <1>3, <2>1, <2>2, JpegMalformedTold
    <3>2. Verdict("jpeg", file, l) = "MALFORMED"
      BY <1>2, <1>3, <3>1, VerdictOf
    <3>3. phase' = "refused" /\ refusal' = "MALFORMED"
      BY <2>2 DEF JpegMalformed, Refuse
    <3> QED
      BY <1>1, <1>2, <3>2, <3>3 DEF FateAs
  <2>3. CASE JpegTurns
    <3>1. WalkedTo("jpeg", file, l, segments', offset')
      BY <1>2, <1>3, <2>1, <2>3, JpegTurnFollows
    <3>2. phase' = "walk"
      BY <1>4, <2>3 DEF JpegTurns, JpegEoi, JpegStandalone, JpegSos, JpegSegment
    <3> QED
      BY <1>1, <1>2, <3>1, <3>2 DEF FateAs
  <2>4. CASE JpegWalked
    <3>1. /\ Len(segments) = Len(l)
          /\ SizeTold("jpeg", file, l) = IF SawKind("sos") THEN dims ELSE NoDims
      BY <1>2, <1>3, <2>1, <2>4, JpegWalkedTold
    <3>2. Noted(l, segments, Len(l))
      BY <2>1, <3>1 DEF WalkedTo
    <3>3. CASE dims = NoDims \/ ~SawKind("sos")
      <4>1. SizeTold("jpeg", file, l) = NoDims
        BY <3>1, <3>3
      <4>2. Verdict("jpeg", file, l) = "MALFORMED"
        BY <1>2, <1>3, <4>1, VerdictOf
      <4>3. phase' = "refused" /\ refusal' = "MALFORMED"
        BY <2>4, <3>3 DEF JpegWalked, Refuse
      <4> QED
        BY <1>1, <1>2, <4>2, <4>3 DEF FateAs
    <3>4. CASE ~(dims = NoDims \/ ~SawKind("sos"))
      <4>1. phase' = "budget" /\ UNCHANGED <<segments, dims>>
        BY <2>4, <3>4 DEF JpegWalked
      <4> QED
        BY <1>1, <1>2, <3>1, <3>2, <3>4, <4>1 DEF FateAs
    <3> QED
      BY <3>3, <3>4
  <2> QED
    BY <1>4, <2>2, <2>3, <2>4 DEF JpegStep, JpegTurns, JpegCopy, JpegSkip, JpegDrop,
                                  JpegStripping, JpegFinish
<1>5. CASE phase = "strip"
  <2>1. /\ JpegStands(file, segments, offset, dims) /\ Fits(dims)
        /\ dims = SizeTold("jpeg", file, l) /\ dims # NoDims
        /\ Len(segments) = Len(l) /\ Noted(l, segments, Len(l))
    BY <1>2, <1>3, <1>5 DEF FateAs, JpegFirst, FirstPass
  <2>2. PICK n : PartsTaken("jpeg", l, n)
    BY <1>2, <1>5 DEF FateAs
  <2>3. CASE JpegCopy \/ JpegSkip \/ JpegDrop
    <3>1. PartsTaken("jpeg", l, n + 1)'
      BY <1>3, <2>1, <2>2, <2>3, JpegRebuildFollows
    <3>2. phase' = "strip" /\ UNCHANGED <<segments, dims>>
      BY <1>5, <2>3 DEF JpegCopy, JpegSkip, JpegDrop, Wrote, LeftOut
    <3> QED
      BY <1>1, <1>2, <2>1, <3>1, <3>2 DEF FateAs
  <2>4. CASE JpegFinish
    <3>1. out' = PictureOf("jpeg", file, l)
      BY <1>3, <2>2, <2>4, JpegIsDrawn
    <3>2. Verdict("jpeg", file, l) = "kept"
      BY <1>2, <1>3, <2>1, VerdictOf
    <3>3. phase' = "extract"
      BY <2>4 DEF JpegFinish
    <3> QED
      BY <1>1, <1>2, <3>1, <3>2, <3>3 DEF FateAs
  <2> QED
    BY <1>5, <2>3, <2>4 DEF JpegStep, JpegMalformed, JpegEoi, JpegStandalone, JpegSos,
                            JpegSegment, JpegTurn, JpegWalking, JpegWalked
<1> QED
  BY <1>1, <1>4, <1>5

LEMMA WebpFateStep ==
    ASSUME WalkInv, FirstPass, WebpStep, NEW l, Laid(Kind(file), file, l), FateAs(l)
    PROVE  FateAs(l)'
<1>1. /\ format = "webp" /\ phase \in {"walk", "strip"} /\ UNCHANGED <<file, format>>
  BY WebpInOrder DEF InOrder
<1>2. Kind(file) = "webp" /\ Kind(file') = "webp" /\ Taken("webp", file) /\ Taken("webp", file')
  BY <1>1 DEF FateAs
<1>3. WebpFirst /\ Laid("webp", file, l) /\ Len(l) \in Nat /\ Len(file) \in Nat
  BY <1>1, <1>2, LenProperties DEF FirstPass, FirstRebuild, Laid, WalkInv, MadeOfBytes
<1>4. WebpFound(file, segments, offset)
  BY <1>1, <1>3 DEF WebpFirst
<1>5. CASE phase = "walk"
  <2>1. WalkedTo("webp", file, l, segments, offset)
    BY <1>2, <1>5 DEF FateAs
  <2>2. CASE WebpMalformed
    <3>1. SizeTold("webp", file, l) = NoDims
      BY <1>2, <1>3, <1>4, <2>1, <2>2, WebpMalformedTold
    <3>2. Verdict("webp", file, l) = "MALFORMED"
      BY <1>2, <1>3, <3>1, VerdictOf
    <3>3. phase' = "refused" /\ refusal' = "MALFORMED"
      BY <2>2 DEF WebpMalformed, Refuse
    <3> QED
      BY <1>1, <1>2, <3>2, <3>3 DEF FateAs
  <2>3. CASE WebpChunk
    <3>1. WalkedTo("webp", file, l, segments', offset')
      BY <1>2, <1>3, <1>4, <2>1, <2>3, WebpChunkFollows
    <3>2. phase' = "walk"
      BY <1>5, <2>3 DEF WebpChunk
    <3> QED
      BY <1>1, <1>2, <3>1, <3>2 DEF FateAs
  <2>4. CASE WebpWalked
    <3>1. Len(segments) = Len(l) /\ SizeTold("webp", file, l) = WebpDimensions
      BY <1>2, <1>3, <1>4, <2>1, <2>4, WebpWalkedTold
    <3>2. Noted(l, segments, Len(l))
      BY <2>1, <3>1 DEF WalkedTo
    <3>3. CASE WebpDimensions = NoDims
      <4>1. Verdict("webp", file, l) = "MALFORMED"
        BY <1>2, <1>3, <3>1, <3>3, VerdictOf
      <4>2. phase' = "refused" /\ refusal' = "MALFORMED"
        BY <2>4, <3>3 DEF WebpWalked, Refuse
      <4> QED
        BY <1>1, <1>2, <4>1, <4>2 DEF FateAs
    <3>4. CASE WebpDimensions # NoDims
      <4>1. phase' = "budget" /\ UNCHANGED segments /\ dims' = WebpDimensions
        BY <2>4, <3>4 DEF WebpWalked
      <4> QED
        BY <1>1, <1>2, <3>1, <3>2, <3>4, <4>1 DEF FateAs
    <3> QED
      BY <3>3, <3>4
  <2> QED
    BY <1>5, <2>2, <2>3, <2>4 DEF WebpStep, WebpCopy, WebpDrop, WebpStripping, WebpFinish
<1>6. CASE phase = "strip"
  <2>1. /\ Fits(dims) /\ dims = SizeTold("webp", file, l) /\ dims # NoDims
        /\ Len(segments) = Len(l) /\ Noted(l, segments, Len(l))
    BY <1>2, <1>3, <1>6 DEF FateAs, FirstPass
  <2>2. PICK n : PartsTaken("webp", l, n)
    BY <1>2, <1>6 DEF FateAs
  <2>3. CASE WebpCopy \/ WebpDrop
    <3>1. PartsTaken("webp", l, n + 1)'
      BY <1>2, <1>3, <1>4, <2>2, <2>3, WebpRebuildFollows
    <3>2. phase' = "strip" /\ UNCHANGED <<segments, dims>>
      BY <1>6, <2>3 DEF WebpCopy, WebpDrop, Wrote, LeftOut
    <3> QED
      BY <1>1, <1>2, <2>1, <3>1, <3>2 DEF FateAs
  <2>4. CASE WebpFinish
    <3>1. out' = PictureOf("webp", file, l)
      BY <1>3, <2>2, <2>4, WebpIsDrawn
    <3>2. Verdict("webp", file, l) = "kept"
      BY <1>2, <1>3, <2>1, VerdictOf
    <3>3. phase' = "extract"
      BY <2>4 DEF WebpFinish
    <3> QED
      BY <1>1, <1>2, <3>1, <3>2, <3>3 DEF FateAs
  <2> QED
    BY <1>6, <2>3, <2>4 DEF WebpStep, WebpMalformed, InRiff, WebpWalking, WebpChunk, WebpWalked
<1> QED
  BY <1>1, <1>5, <1>6

LEMMA PngFateStep ==
    ASSUME WalkInv, FirstPass, PngStep, NEW l, Laid(Kind(file), file, l), FateAs(l)
    PROVE  FateAs(l)'
<1>1. /\ format = "png" /\ phase \in {"walk", "strip"} /\ UNCHANGED <<file, format>>
  BY PngInOrder DEF InOrder
<1>2. Kind(file) = "png" /\ Kind(file') = "png" /\ Taken("png", file) /\ Taken("png", file')
  BY <1>1 DEF FateAs
<1>3. Laid("png", file, l) /\ Len(l) \in Nat /\ Len(file) \in Nat
  BY <1>1, <1>2, LenProperties DEF Laid, WalkInv, MadeOfBytes
<1>4. CASE phase = "walk"
  <2>1. PngDimensions
    BY <1>4 DEF PngStep, PngMalformed, PngCopy, PngDrop, PngNoIend, InChunks, PngStripping
  <2>2. PngHeaderBad <=> ~(Len(file) >= 6 /\ file[2] = IhdrLength /\ file[3] = IHDR)
    BY <1>3 DEF PngHeaderBad, IhdrLength, Byte
  <2>3. SizeTold("png", file, l) = PngSize(file)
    BY DEF SizeTold
  <2>4. CASE PngHeaderBad
    <3>1. SizeTold("png", file, l) = NoDims
      BY <2>2, <2>3, <2>4 DEF PngSize
    <3>2. Verdict("png", file, l) = "MALFORMED"
      BY <1>2, <1>3, <3>1, VerdictOf
    <3>3. phase' = "refused" /\ refusal' = "MALFORMED"
      BY <2>1, <2>4 DEF PngDimensions, Refuse
    <3> QED
      BY <1>1, <1>2, <3>2, <3>3 DEF FateAs
  <2>5. CASE ~PngHeaderBad
    <3>1. phase' = "budget" /\ dims' = <<file[4], file[5]>>
      BY <2>1, <2>5 DEF PngDimensions, Byte
    <3>2. dims' = SizeTold("png", file, l) /\ dims' # NoDims
      BY <2>2, <2>3, <2>5, <3>1 DEF PngSize, NoDims
    <3> QED
      BY <1>1, <1>2, <3>1, <3>2 DEF FateAs
  <2> QED
    BY <2>4, <2>5
<1>5. CASE phase = "strip"
  <2>1. Fits(dims) /\ dims = SizeTold("png", file, l) /\ dims # NoDims
    BY <1>2, <1>5 DEF FateAs, FirstPass
  <2>2. PICK n : PngTaken(l, n)
    BY <1>2, <1>5 DEF FateAs
  <2>3. CASE PngCopy \/ PngDrop
    <3>1. phase' \in {"strip", "extract"} /\ dims' = dims /\ (phase' = "extract" => PngCopy)
      BY <1>5, <2>3 DEF PngCopy, PngDrop, Wrote, LeftOut
    <3>2. CASE phase' = "strip"
      <4>1. PngTaken(l, n + 1)'
        BY <1>2, <1>3, <2>2, <2>3, <3>2, PngFollows
      <4> QED
        BY <1>1, <1>2, <2>1, <3>1, <3>2, <4>1 DEF FateAs
    <3>3. CASE phase' = "extract"
      <4>1. /\ out' = PictureOf("png", file, l)
            /\ ~\A k \in 1..Len(l) : file[l[k].at + 2] # IEND
        BY <1>2, <1>3, <2>2, <3>1, <3>3, PngIsDrawn
      <4>2. ~NoIend(file, l)
        BY <4>1 DEF NoIend
      <4>3. Verdict("png", file, l) = "kept"
        BY <1>2, <1>3, <2>1, <4>2, VerdictOf
      <4> QED
        BY <1>1, <1>2, <3>3, <4>1, <4>3 DEF FateAs
    <3> QED
      BY <3>1, <3>2, <3>3
  <2>4. CASE PngMalformed \/ PngNoIend
    <3>1. NoIend(file, l)
      BY <1>2, <1>3, <2>2, <2>4, PngLacksIend DEF NoIend
    <3>2. Verdict("png", file, l) = "MALFORMED"
      BY <1>2, <1>3, <2>1, <3>1, VerdictOf
    <3>3. phase' = "refused" /\ refusal' = "MALFORMED"
      BY <2>4 DEF PngMalformed, PngNoIend, Refuse
    <3> QED
      BY <1>1, <1>2, <3>2, <3>3 DEF FateAs
  <2> QED
    BY <1>5, <2>3, <2>4 DEF PngStep, PngDimensions
<1> QED
  BY <1>1, <1>4, <1>5

\* at its ends,
LEMMA IdentifyFate ==
    ASSUME WalkInv, FirstPass, Reject \/ Identify, NEW l, Laid(Kind(file), file, l)
    PROVE  FateAs(l)'
<1>1. /\ file \in Seq(Nat) /\ Len(file) \in Nat /\ Len(l) \in Nat
  BY LenProperties DEF Laid, WalkInv, MadeOfBytes
<1>2. Identified = Kind(file) /\ Kind(file) \in Formats
  <2>1. 0 + 1 = 1 /\ 1 + 1 = 2 /\ 2 + 1 = 3
    OBVIOUS
  <2> QED
    BY <1>1, <2>1 DEF Identified, Kind, Has, Byte, Formats
<1>3. ASSUME Reject PROVE FateAs(l)'
  <2>1. /\ phase' = "refused" /\ file' = file
        /\ Len(file) = 0 \/ Len(file) > MaxBytes \/ Kind(file) = "none"
        /\ refusal' = IF Len(file) = 0 THEN "EMPTY"
                      ELSE IF Len(file) > MaxBytes THEN "TOO_LARGE"
                      ELSE IF IsHeifLike THEN "HEIC_UNSUPPORTED" ELSE "UNSUPPORTED_FORMAT"
    BY <1>2, <1>3 DEF Reject, Refuse
  <2>2. IsHeifLike <=> Len(file) >= 3 /\ file[2] = FtypTag /\ file[3] = HeifBrand
    BY <1>1 DEF IsHeifLike, Has, Byte
  <2>3. refusal' = Verdict(Kind(file), file, l)
    BY <2>1, <2>2 DEF Verdict
  <2> QED
    BY <2>1, <2>3 DEF FateAs
<1>4. ASSUME Identify PROVE FateAs(l)'
  <2>1. /\ phase = "received" /\ phase' = "walk" /\ file' = file /\ format' = Kind(file)
        /\ Len(file) \in 1..MaxBytes /\ Kind(file) # "none" /\ segments' = segments
        /\ offset' = Preamble(Kind(file))
    BY <1>2, <1>4 DEF Identify, Preamble, Formats
  <2>2. segments = <<>> /\ Len(segments) = 0
    BY <2>1 DEF FirstPass, ReceivedFresh
  <2>3. WalkedTo(Kind(file), file, l, segments, Preamble(Kind(file)))
    BY <1>1, <2>2 DEF WalkedTo, Noted, Reached
  <2>4. Taken(Kind(file), file)
    BY <1>2, <2>1 DEF Taken, Formats
  <2> QED
    BY <2>1, <2>3, <2>4 DEF FateAs
<1> QED
  BY <1>3, <1>4

LEMMA BudgetFate ==
    ASSUME WalkInv, FirstPass, Budget, NEW l, Laid(Kind(file), file, l), FateAs(l)
    PROVE  FateAs(l)'
<1> DEFINE fmt == Kind(file)
<1>1. /\ Len(file) \in Nat /\ Len(l) \in Nat
  BY LenProperties DEF Laid, WalkInv, MadeOfBytes
<1>2. /\ phase = "budget" /\ format = fmt /\ Taken(fmt, file) /\ fmt \in {"jpeg", "png", "webp"}
      /\ dims = SizeTold(fmt, file, l) /\ dims # NoDims /\ FirstRebuild
      /\ fmt # "png" => Len(segments) = Len(l) /\ Noted(l, segments, Len(l))
  BY DEF Budget, FateAs, Taken, FirstPass
<1>3. CASE NonsensicalSize(dims) \/ TooManyPixels(dims)
  <2>1. /\ phase' = "refused" /\ file' = file
        /\ refusal' = IF NonsensicalSize(dims) THEN "MALFORMED" ELSE "TOO_MANY_PIXELS"
    BY <1>3 DEF Budget, Refuse
  <2> HIDE DEF fmt
  <2>2. refusal' = Verdict(fmt, file, l)
    BY <1>1, <1>2, <1>3, <2>1, VerdictOf
  <2> QED
    BY <2>1, <2>2 DEF FateAs, fmt
<1>4. CASE ~(NonsensicalSize(dims) \/ TooManyPixels(dims))
  <2>1. /\ phase' = "strip" /\ UNCHANGED <<file, format, offset, segments, dims, next>>
        /\ out' = Opening(fmt)
    BY <1>2, <1>4 DEF Budget, Opening
  <2>2. next = 1
    BY <1>2 DEF FirstRebuild, PngFirst, WebpFirst, JpegFirst
  <2>3. Drew(fmt, file, l, out', 0)
    <3> HIDE DEF fmt
    <3>1. Drew(fmt, file, l, Opening(fmt), 0)
      BY <1>1, DrewNone
    <3> QED
      BY <2>1, <3>1
  <2>4. CASE fmt = "png"
    <3>1. offset = 1 /\ Reached("png", file, l, 0) = 1
      BY <1>2, <2>4 DEF FirstRebuild, PngFirst, Reached, Preamble
    <3>2. PngTaken(l, 0)'
      BY <2>1, <2>2, <2>3, <2>4, <3>1 DEF PngTaken
    <3> QED
      BY <1>2, <2>1, <2>4, <3>2 DEF FateAs
  <2>5. ASSUME NEW k \in {"jpeg", "webp"}, fmt = k PROVE FateAs(l)'
    <3>1. Drew(k, file', l, out', 0) /\ next' = 1 /\ segments' = segments
      BY <2>1, <2>2, <2>3, <2>5
    <3>2. Len(segments') = Len(l) /\ Noted(l, segments', Len(l))
      BY <1>2, <2>5, <3>1
    <3>3. PartsTaken(k, l, 0)'
      BY <3>1, <3>2 DEF PartsTaken
    <3>4. /\ phase' = "strip" /\ format' = k /\ Kind(file') = k /\ Taken(k, file')
          /\ dims' = SizeTold(k, file', l) /\ dims' # NoDims
      BY <1>2, <2>1, <2>5
    <3>5. k # "png"
      OBVIOUS
    <3> HIDE DEF fmt
    <3> QED
      BY <3>2, <3>3, <3>4, <3>5 DEF FateAs
  <2> QED
    BY <1>2, <2>4, <2>5
<1> QED
  BY <1>3, <1>4

LEMMA ExtractFate ==
    ASSUME Extract, NEW l, FateAs(l)
    PROVE  FateAs(l)'
<1>1. phase = "extract" /\ phase' = "stored" /\ UNCHANGED <<file, format, out>>
  BY DEF Extract
<1> QED
  BY <1>1 DEF FateAs

-----------------------------------------------------------------------------
(* Every file has its row of parts.                                        *)

\* The first n parts of l are laid in f.
LaidUpTo(fmt, f, l, n) ==
    /\ l \in Seq(Places) /\ Len(l) = n
    /\ \A k \in 1..n : Continues(fmt, f, l, k - 1, l[k])

LEMMA ReachedIsAPlace ==
    ASSUME NEW f \in Seq(Nat), NEW fmt, fmt = Kind(f), NEW l, NEW n \in Nat,
           LaidUpTo(fmt, f, l, n)
    PROVE  Reached(fmt, f, l, n) \in Nat
<1>1. CASE n = 0
  BY <1>1 DEF Reached, Preamble
<1>2. CASE n # 0
  <2>1. n \in 1..n /\ l[n] \in Places
    BY <1>2 DEF LaidUpTo
  <2>2. Continues(fmt, f, l, n - 1, l[n])
    BY <2>1 DEF LaidUpTo
  <2> DEFINE p == l[n]
  <2>3. p.at \in Nat /\ p.to \in Nat /\ IsPart(fmt, f, p) /\ Len(f) \in Nat
    BY <2>1, <2>2 DEF Places, Continues
  <2>4. Reached(fmt, f, l, n) = Behind(fmt, f, p)
    BY <1>2 DEF Reached
  <2> HIDE DEF p
  <2>5. CASE fmt \in {"jpeg", "png"}
    BY <2>3, <2>4, <2>5 DEF Behind
  <2>6. CASE fmt \notin {"jpeg", "png"}
    <3>1. IsWebpChunk(f, p) /\ fmt = "webp"
      BY <2>3, <2>6 DEF IsPart
    <3>2. p.at + 2 \in 1..Len(f)
      <4>1. Len(f) >= 3 /\ f[2] \in Nat
        BY <2>3, <3>1 DEF Kind
      <4>2. p.at + 2 <= 2 + f[2] /\ 2 + f[2] <= Len(f)
        BY <3>1 DEF IsWebpChunk
      <4> DEFINE d == f[2]
      <4>3. p.at \in Nat /\ Len(f) \in Nat /\ d \in Nat /\ p.at + 2 <= 2 + d /\ 2 + d <= Len(f)
        BY <2>3, <4>1, <4>2
      <4> HIDE DEF d
      <4> QED
        BY <4>3
    <3>3. f[p.at + 2] \in Nat
      BY <3>2
    <3>4. f[p.at + 2] % 2 \in Nat
      BY <3>3
    <3>5. Behind(fmt, f, p) = p.to + (f[p.at + 2] % 2)
      BY <2>6 DEF Behind
    <3> QED
      BY <2>3, <2>4, <3>4, <3>5
  <2> QED
    BY <2>5, <2>6
<1> QED
  BY <1>1, <1>2

LaidWith(fmt, f, l, n, p) == LaidUpTo(fmt, f, Append(l, p), n + 1)

LEMMA LongerRow ==
    ASSUME NEW f \in Seq(Nat), NEW fmt, NEW l, NEW n \in Nat, LaidUpTo(fmt, f, l, n),
           NEW p \in Places, Continues(fmt, f, l, n, p)
    PROVE  LaidWith(fmt, f, l, n, p)
<1> SUFFICES ASSUME NEW r, r = Append(l, p) PROVE LaidUpTo(fmt, f, r, n + 1)
  BY DEF LaidWith
<1>1. l \in Seq(Places) /\ Len(l) = n
  BY DEF LaidUpTo
<1>2. r \in Seq(Places) /\ Len(r) = n + 1 /\ r[n + 1] = p
  BY <1>1
<1>3. \A i \in 1..n : r[i] = l[i]
  BY <1>1
<1>4. ASSUME NEW m \in 0..n PROVE Reached(fmt, f, r, m) = Reached(fmt, f, l, m)
  <2>1. m # 0 => m \in 1..n
    OBVIOUS
  <2>2. m # 0 => r[m] = l[m]
    BY <1>3, <2>1
  <2> QED
    BY <2>2 DEF Reached
<1>5. ASSUME NEW m \in 0..n PROVE NoFrame(f, r, m) <=> NoFrame(f, l, m)
  <2>1. \A i \in 1..m : i \in 1..n
    OBVIOUS
  <2>2. \A i \in 1..m : r[i] = l[i]
    BY <1>3, <2>1
  <2> QED
    BY <2>2 DEF NoFrame
<1>6. ASSUME NEW k \in 1..n PROVE Continues(fmt, f, r, k - 1, r[k])
  <2>1. k - 1 \in 0..n /\ r[k] = l[k]
    <3>1. k - 1 \in 0..n
      OBVIOUS
    <3> QED
      BY <1>3, <3>1
  <2>2. Continues(fmt, f, l, k - 1, l[k])
    BY DEF LaidUpTo
  <2>3. Continues(fmt, f, r, k - 1, l[k])
    BY <1>4, <1>5, <2>1, <2>2 DEF Continues
  <2> QED
    BY <2>1, <2>3
<1>7. Continues(fmt, f, r, n, p)
  <2>1. n \in 0..n
    OBVIOUS
  <2> QED
    BY <1>4, <1>5, <2>1 DEF Continues
<1>8. ASSUME NEW k \in 1..(n + 1) PROVE Continues(fmt, f, r, k - 1, r[k])
  <2>1. CASE k = n + 1
    BY <1>2, <1>7, <2>1
  <2>2. CASE k # n + 1
    <3>1. k \in 1..n
      BY <2>2
    <3> QED
      BY <1>6, <3>1
  <2> QED
    BY <2>1, <2>2
<1> QED
  BY <1>2, <1>8 DEF LaidUpTo

\* The longest row of the parts of a file, which is what the theorems below speak of.
LEMMA EveryFileIsLaid ==
    ASSUME NEW f \in Seq(Nat), NEW fmt, fmt = Kind(f)
    PROVE  \E l : Laid(fmt, f, l)
<1> DEFINE short == {m \in Nat : m <= MaxSegments /\ \E l : LaidUpTo(fmt, f, l, MaxSegments - m)}
<1>0. MaxSegments \in Nat /\ Len(f) \in Nat
  BY BoundsAssumption
<1>1. LaidUpTo(fmt, f, <<>>, 0)
  BY DEF LaidUpTo
<1>2. MaxSegments \in short
  BY <1>0, <1>1
<1>3. PICK m \in short : \A k \in short : ~(k < m)
  <2>1. short \in SUBSET Nat
    OBVIOUS
  <2> HIDE DEF short
  <2> QED
    BY <1>2, <2>1, Smallest
<1> DEFINE n == MaxSegments - m
<1>4. PICK l : LaidUpTo(fmt, f, l, n)
  BY <1>3
<1>5. m \in Nat /\ m <= MaxSegments /\ n \in Nat /\ n <= MaxSegments
  BY <1>0, <1>3
<1>6. CASE m = 0
  <2>1. n = MaxSegments
    BY <1>0, <1>6
  <2> QED
    BY <1>0, <1>4, <2>1 DEF Laid, LaidUpTo
<1>7. CASE m # 0
  <2>1. m - 1 \in Nat /\ m - 1 <= MaxSegments /\ m - 1 < m /\ n + 1 = MaxSegments - (m - 1)
    BY <1>0, <1>5, <1>7
  <2>2. ~\E g : LaidUpTo(fmt, f, g, n + 1)
    BY <1>3, <2>1
  <2> HIDE DEF short, n
  <2>3. Reached(fmt, f, l, n) \in Nat /\ l \in Seq(Places) /\ Len(l) = n
    BY <1>4, <1>5, ReachedIsAPlace DEF LaidUpTo
  <2> DEFINE from == Reached(fmt, f, l, n)
  <2>4. ASSUME NEW at \in from..Len(f), NEW to \in at..Len(f),
               Continues(fmt, f, l, n, [from |-> from, at |-> at, to |-> to])
        PROVE  FALSE
    <3>1. [from |-> from, at |-> at, to |-> to] \in Places
      BY <1>0, <2>3, <2>4 DEF Places
    <3> DEFINE p == [from |-> from, at |-> at, to |-> to]
    <3>2. p \in Places /\ Continues(fmt, f, l, n, p)
      BY <2>4, <3>1
    <3> HIDE DEF p
    <3>3. LaidWith(fmt, f, l, n, p)
      BY <1>4, <1>5, <3>2, LongerRow
    <3> QED
      BY <2>2, <3>3 DEF LaidWith
  <2>5. Complete(fmt, f, l)
    BY <2>3, <2>4 DEF Complete
  <2> QED
    BY <1>4, <1>5, <2>3, <2>5 DEF Laid, LaidUpTo
<1> QED
  BY <1>6, <1>7
-----------------------------------------------------------------------------
(* What becomes of a photo is what its parts say.                          *)

FateInv ==
    /\ StripInv
    /\ pass = 1 => /\ sent \in Sendings /\ file = sent.bytes
                   /\ \A l : Laid(Kind(file), file, l) => FateAs(l)
    /\ pass = 2 => sent.fate = "any" /\ sent.picture = {file}

LEMMA InitTellsNothing == Init => FateInv
<1> SUFFICES ASSUME Init PROVE FateInv
  OBVIOUS
<1>1. StripInv
  BY InitIsFirstPass
<1>2. pass = 1 /\ phase = "received" /\ sent \in Sendings /\ file = sent.bytes
  BY DEF Init
<1>3. ASSUME NEW l PROVE FateAs(l)
  BY <1>2 DEF FateAs
<1> QED
  BY <1>1, <1>2, <1>3 DEF FateInv

\* Each step with the camera's file follows its parts,
LEMMA FirstFateKept ==
    ASSUME WalkInv, FirstPass, pass = 1, Reject \/ Identify \/ Walk \/ Budget \/ Extract,
           NEW l, Laid(Kind(file), file, l), FateAs(l)
    PROVE  FateAs(l)'
<1>1. CASE Walk
  <2>1. JpegStep \/ PngStep \/ WebpStep
    BY <1>1 DEF Walk
  <2> QED
    BY <2>1, JpegFateStep, PngFateStep, WebpFateStep
<1> QED
  BY <1>1, IdentifyFate, BudgetFate, ExtractFate

\* and so the whole of a run.
LEMMA NextFollowsTheParts == FateInv /\ [Next]_vars => FateInv'
<1> SUFFICES ASSUME FateInv, [Next]_vars PROVE FateInv'
  OBVIOUS
<1>1. StripInv /\ StripInv' /\ WalkInv /\ pass \in {1, 2}
  BY NextKeepsStripInv DEF FateInv, StripInv
<1>2. CASE Reject \/ Identify \/ Walk \/ Budget \/ Extract
  <2>1. UNCHANGED <<sent, pass, file>>
    <3>1. CASE Walk
      <4>1. UNCHANGED <<sent, pass>> /\ (JpegStep \/ PngStep \/ WebpStep)
        BY <3>1 DEF Walk
      <4>2. file' = file
        BY <4>1, JpegInOrder, PngInOrder, WebpInOrder DEF InOrder
      <4> QED
        BY <4>1, <4>2
    <3> QED
      BY <1>2, <3>1 DEF Reject, Identify, Budget, Extract, Refuse
  <2>2. CASE pass = 1
    <3>1. FirstPass /\ sent \in Sendings /\ file = sent.bytes
      BY <1>1, <2>2 DEF StripInv, FateInv
    <3>2. ASSUME NEW l, Laid(Kind(file), file, l) PROVE FateAs(l)'
      <4>1. FateAs(l)
        BY <2>2, <3>2 DEF FateInv
      <4> QED
        BY <1>1, <1>2, <2>2, <3>1, <3>2, <4>1, FirstFateKept
    <3> QED
      BY <1>1, <2>1, <2>2, <3>1, <3>2 DEF FateInv
  <2>3. CASE pass = 2
    BY <1>1, <2>1, <2>3 DEF FateInv
  <2> QED
    BY <1>1, <2>2, <2>3
<1>3. CASE SentAgain
  <2>1. pass' = 2 /\ sent'.fate = "any" /\ sent'.picture = {out} /\ file' = out
    BY <1>3 DEF SentAgain
  <2> QED
    BY <1>1, <2>1 DEF FateInv
<1>4. CASE UNCHANGED vars
  <2>1. ASSUME NEW l, FateAs(l) PROVE FateAs(l)'
    BY <1>4, <2>1 DEF vars, imageVars, FateAs, PngTaken, PartsTaken, WalkedTo, Noted
  <2>2. UNCHANGED <<sent, pass, file>>
    BY <1>4 DEF vars, imageVars
  <2> QED
    BY <1>1, <2>1, <2>2 DEF FateInv
<1> QED
  BY <1>2, <1>3, <1>4 DEF Next, Done

\* The parts of the file received say what became of it.
FateIsInTheParts ==
    pass = 1 =>
        LET f == sent.bytes IN
        \E l : /\ Laid(Kind(f), f, l)
               /\ phase = "stored" => /\ Verdict(Kind(f), f, l) = "kept"
                                      /\ out = PictureOf(Kind(f), f, l)
               /\ phase = "refused" => refusal = Verdict(Kind(f), f, l)

\* Whatever bytes a camera sent and whatever the limits, a photo is stored
\* exactly when its parts say that it is sound, and then all and only the parts
\* that draw it, in order, each as it was; any other is refused, and with the
\* code its own fault has (stripJpeg, stripPng, stripWebp, checkPixelBudget).
THEOREM PartsTellTheFate == Spec => []FateIsInTheParts
<1>1. FateInv => FateIsInTheParts
  <2> SUFFICES ASSUME FateInv, pass = 1 PROVE FateIsInTheParts
    BY DEF FateIsInTheParts
  <2>1. file = sent.bytes /\ file \in Seq(Nat)
    BY DEF FateInv, StripInv, WalkInv, MadeOfBytes
  <2>2. PICK l : Laid(Kind(file), file, l)
    BY <2>1, EveryFileIsLaid
  <2>3. FateAs(l)
    BY <2>2 DEF FateInv
  <2> QED
    BY <2>1, <2>2, <2>3 DEF FateAs, FateIsInTheParts
<1> QED
  BY <1>1, InitTellsNothing, NextFollowsTheParts, PTL DEF Spec

\* A sound photo is never refused and what is stored is its picture, if what is
\* told of each file sent is true of its parts; a stored file sent again is
\* stored as it is (stripJpeg, stripPng, stripWebp).
THEOREM FatesAreTheFilesOwn ==
    ASSUME \A s \in Sendings : TellsTheTruth(s)
    PROVE  Spec => []FateIsTheFilesOwn
<1>1. FateInv => FateIsTheFilesOwn
  <2> SUFFICES ASSUME FateInv PROVE FateIsTheFilesOwn
    OBVIOUS
  <2>1. CASE pass = 1
    <3>1. TellsTheTruth(sent) /\ file = sent.bytes
      BY <2>1 DEF FateInv
    <3>2. PICK l : /\ Laid(Kind(file), file, l)
                   /\ sent.fate \in {Verdict(Kind(file), file, l), "any"}
                   /\ sent.picture \in {Unknown, {PictureOf(Kind(file), file, l)}}
      BY <3>1 DEF TellsTheTruth
    <3>3. FateAs(l)
      BY <2>1, <3>2 DEF FateInv
    <3> QED
      BY <3>2, <3>3 DEF FateAs, FateIsTheFilesOwn
  <2>2. CASE pass = 2
    <3>1. sent.fate = "any" /\ sent.picture = {file}
      BY <2>2 DEF FateInv
    <3>2. PICK d : NothingLost(d)
      BY <2>2 DEF FateInv, StripInv, SecondPass, SettledAs
    <3> QED
      BY <3>1, <3>2 DEF NothingLost, FateIsTheFilesOwn
  <2> QED
    BY <2>1, <2>2 DEF FateInv, StripInv
<1> QED
  BY <1>1, InitTellsNothing, NextFollowsTheParts, PTL DEF Spec
=============================================================================
