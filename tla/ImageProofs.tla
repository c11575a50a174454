---------------------------- MODULE ImageProofs ----------------------------
(***************************************************************************)
(* The images that U-Boot loads, for all sizes, names and configurations:  *)
(*  - what encode() accepts decode() reads back: a layout function says at *)
(*    which offset each entry lies, and decode() is always at one of them; *)
(*  - a finished companion lets in whom the key file names, and unpacks    *)
(*    privately: the keys found are those of the lines read, and the       *)
(*    image is one of three lists;                                         *)
(*  - the verdict on the kernel is the memory map's: a loop invariant over *)
(*    the program headers (what extent holds are the extremes of the       *)
(*    segments read), and from it the verdict, byte by byte.               *)
(***************************************************************************)
EXTENDS Companion, KernelFootprint, SequenceTheorems, FiniteSetTheorems, TLAPS

-----------------------------------------------------------------------------
\* The archive: where each entry's fields lie.

Given == [name: Names, mode: Modes \cup {"0"}, data: {Empty} \cup [is: Texts, size: Nat \ {0}]]

NameOf(e) == SafeName[e.name]
HeaderOf(e) == [mode |-> e.mode, name |-> NameSize[NameOf(e)], data |-> e.data.size]
DataFrom(e, o) == Aligned(o + HeaderSize + NameSize[NameOf(e)], 4)
EndFrom(e, o) == Aligned(DataFrom(e, o) + e.data.size, 4)
FieldsFrom(e, o) == Field(o, HeaderSize, HeaderOf(e))
                      \cup Field(o + HeaderSize, NameSize[NameOf(e)], NameOf(e))
                      \cup Field(DataFrom(e, o), e.data.size, e.data)

LEMMA AlignedUp ==
  ASSUME NEW n \in Nat
  PROVE  /\ Aligned(n, 4) \in Nat /\ Aligned(n, 4) >= n
         /\ Aligned(n, 512) \in Nat /\ Aligned(n, 512) >= n
<1>1. (-n) % 4 \in Nat /\ (-n) % 512 \in Nat
  OBVIOUS
<1> QED BY <1>1 DEF Aligned

LEMMA Shifted ==
  ASSUME NEW s \in Nat, NEW o \in Nat, NEW n \in Nat
  PROVE  (s + o) + n = s + (o + n) /\ o + n \in Nat
OBVIOUS

LEMMA PayloadSize ==
  ASSUME NEW e \in Given
  PROVE  e.data.size \in Nat /\ (e.data.size = 0 <=> e.data = Empty)
BY DEF Given, Empty

\* The fields of one entry, one after the other.
LEMMA EntryLayout ==
  ASSUME NEW e \in Given, NEW o \in Nat, NameOf(e) \in Names
  PROVE  /\ NameSize[NameOf(e)] \in Nat \ {0}
         /\ DataFrom(e, o) \in Nat /\ DataFrom(e, o) >= o + HeaderSize + NameSize[NameOf(e)]
         /\ EndFrom(e, o) \in Nat /\ EndFrom(e, o) >= DataFrom(e, o) + e.data.size
         /\ <<o, HeaderSize, HeaderOf(e)>> \in FieldsFrom(e, o)
         /\ <<o + HeaderSize, NameSize[NameOf(e)], NameOf(e)>> \in FieldsFrom(e, o)
         /\ e.data.size # 0 => <<DataFrom(e, o), e.data.size, e.data>> \in FieldsFrom(e, o)
         /\ \A f \in FieldsFrom(e, o) : /\ f[1] \in Nat /\ f[2] \in Nat \ {0}
                                        /\ o <= f[1] /\ f[1] + f[2] <= EndFrom(e, o)
         /\ \A f, g \in FieldsFrom(e, o) : f # g => f[1] + f[2] <= g[1] \/ g[1] + g[2] <= f[1]
<1> DEFINE n == NameSize[NameOf(e)]
           d == DataFrom(e, o)
           z == e.data.size
           end == EndFrom(e, o)
           hf == <<o, HeaderSize, HeaderOf(e)>>
           nf == <<o + HeaderSize, n, NameOf(e)>>
           df == <<d, z, e.data>>
<1>1. n \in Nat \ {0} /\ HeaderSize \in Nat \ {0} /\ z \in Nat
  <2>1. n \in 1..4096 /\ HeaderSize \in Nat \ {0}
    BY NewcAssumption, SMTT(20)
  <2>2. z \in Nat
    BY PayloadSize
  <2> HIDE DEF n, z
  <2>3. n \in Nat \ {0}
    BY <2>1
  <2> QED BY <2>1, <2>2, <2>3
<1>2. d \in Nat /\ d >= o + HeaderSize + n
  BY <1>1, AlignedUp DEF DataFrom
<1>3. end \in Nat /\ end >= d + z
  BY <1>1, <1>2, AlignedUp DEF EndFrom
<1>4. FieldsFrom(e, o) = {hf, nf} \cup (IF z = 0 THEN {} ELSE {df})
  BY <1>1 DEF FieldsFrom, Field
<1> HIDE DEF n, d, z, end
<1>5. \A f \in FieldsFrom(e, o) : \/ f[1] = o /\ f[2] = HeaderSize /\ f = hf
                                  \/ f[1] = o + HeaderSize /\ f[2] = n /\ f = nf
                                  \/ f[1] = d /\ f[2] = z /\ z # 0 /\ f = df
  BY <1>4
<1>6. \A f \in FieldsFrom(e, o) : f[1] \in Nat /\ f[2] \in Nat \ {0} /\ o <= f[1] /\ f[1] + f[2] <= end
  BY <1>1, <1>2, <1>3, <1>5
<1>7. ASSUME NEW f \in FieldsFrom(e, o), NEW g \in FieldsFrom(e, o), f # g
      PROVE  f[1] + f[2] <= g[1] \/ g[1] + g[2] <= f[1]
  BY <1>1, <1>2, <1>5, <1>7
<1>8. hf \in FieldsFrom(e, o) /\ nf \in FieldsFrom(e, o) /\ (z # 0 => df \in FieldsFrom(e, o))
  BY <1>4
<1> QED BY <1>1, <1>2, <1>3, <1>6, <1>7, <1>8 DEF n, d, z, end

LEMMA FollowingParts ==
  ASSUME entries \in Seq(Entries)
  PROVE  /\ Following \in Seq(Given) /\ Len(Following) = Len(entries) + 1
         /\ \A i \in 1..Len(entries) : Following[i] = entries[i]
         /\ Following[Len(entries) + 1] = TrailerEntry
<1>1. TrailerEntry \in Given /\ Entries \subseteq Given
  BY NewcAssumption DEF TrailerEntry, Given, Entries
<1>2. entries \in Seq(Given)
  BY <1>1
<1> QED BY <1>1, <1>2 DEF Following

\* The fields of the entries written so far, each entry from its own offset.
LaidOut(off) == /\ off \in [1..next -> Nat] /\ off[1] = 0
                /\ \A i \in 1..(next - 1) : off[i + 1] = EndFrom(Following[i], off[i])
Written(off) == UNION {FieldsFrom(Following[i], off[i]) : i \in 1..(next - 1)}

Apart(fields) ==
  /\ \A f \in fields : f[1] \in Nat /\ f[2] \in Nat \ {0}
  /\ \A f, g \in fields : f # g => f[1] + f[2] <= g[1] \/ g[1] + g[2] <= f[1]

\* Names are safe, and each one's own.
Named == /\ \A i \in 1..(next - 1) : NameOf(Following[i]) \in Names
         /\ \A i, j \in 1..(next - 1) : NameOf(Following[i]) = NameOf(Following[j]) => i = j

Codec == /\ entries \in Seq(Entries)
         /\ apc \in {"encode", "rejected", "encoded", "decode", "decoded", "refused"}
         /\ next \in 1..(Len(entries) + 2)
         /\ whole \in BOOLEAN /\ size \in Nat /\ start \in Nat
         /\ apc \in {"encode", "rejected"} => whole /\ decoded = <<>>
         /\ apc = "encoded" => decoded = <<>>
         /\ apc \notin {"encode", "rejected"} => next = Len(entries) + 2
         /\ apc = "refused" => ~whole

\* What the archive holds, and how far the reader has come in it.
Laid(off) ==
  /\ LaidOut(off) /\ Apart(Written(off))
  /\ \A f \in Written(off) : f[1] + f[2] <= off[next]
  /\ archive \subseteq Written(off)
  /\ whole => /\ archive = Written(off)
              /\ size = IF apc \in {"encode", "rejected"} THEN off[next] ELSE Aligned(off[next], 512)
  /\ apc = "decode" => pos = start + off[Len(decoded) + 1]
  /\ apc = "decoded" => Len(decoded) = Len(entries) /\ pos = start + off[Len(entries) + 2]

\* What was read is what was written.
ReadSoFar == /\ decoded \in Seq(Entries) /\ Len(decoded) <= Len(entries)
             /\ \A i \in 1..Len(decoded) : decoded[i] = Normal(entries[i])

NewcInv == Codec /\ Named /\ ReadSoFar /\ \E off : Laid(off)

LEMMA NewcStart == ASSUME NEW given \in Seq(Entries), NewcInit(given) PROVE NewcInv
<1>1. /\ entries \in Seq(Entries) /\ apc = "encode" /\ next = 1 /\ archive = {} /\ size = 0
      /\ whole = TRUE /\ start = 0 /\ decoded = <<>>
  BY DEF NewcInit
<1>2. Codec /\ Named /\ ReadSoFar
  BY <1>1 DEF Codec, Named, ReadSoFar
<1> DEFINE off == [i \in 1..1 |-> 0]
<1>3. LaidOut(off) /\ Written(off) = {} /\ off[next] = 0
  BY <1>1 DEF LaidOut, Written
<1>4. Laid(off)
  BY <1>1, <1>3 DEF Laid, Apart
<1> QED BY <1>2, <1>4 DEF NewcInv

\* A step that leaves the entries written so far alone.
LEMMA SameWritten ==
  ASSUME UNCHANGED <<entries, next>>, NEW off
  PROVE  Written(off)' = Written(off) /\ (LaidOut(off)' <=> LaidOut(off)) /\ (Named' <=> Named)
BY DEF Written, LaidOut, Named, Following, NameOf, EndFrom, DataFrom, FieldsFrom, HeaderOf

LEMMA EncodeEntryStep == ASSUME NewcInv, EncodeEntry PROVE NewcInv'
<1> DEFINE e == Following[next]
<1>1. /\ Codec /\ Named /\ ReadSoFar /\ apc = "encode" /\ next <= Len(Following)
      /\ NameOf(e) \notin Seen(Following, next) \cup {Unsafe}
      /\ archive' = archive \cup FieldsFrom(e, size)
      /\ size' = EndFrom(e, size) /\ next' = next + 1
      /\ UNCHANGED <<entries, apc, whole, start, pos, decoded>>
  BY DEF NewcInv, EncodeEntry, NameOf, FieldsFrom, EndFrom, DataFrom, HeaderOf
<1>2. /\ Following \in Seq(Given) /\ Len(Following) = Len(entries) + 1 /\ Len(entries) \in Nat
      /\ entries \in Seq(Entries) /\ next \in 1..Len(Following) /\ e \in Given
  <2>1. Following \in Seq(Given) /\ Len(Following) = Len(entries) + 1 /\ Len(entries) \in Nat
    BY <1>1, FollowingParts DEF Codec
  <2> QED BY <1>1, <2>1 DEF Codec
<1>3. PICK off : Laid(off)
  BY DEF NewcInv
<1>4. size = off[next] /\ size \in Nat /\ whole
  BY <1>1, <1>3 DEF Laid, Codec
<1>5. NameOf(e) \in Names
  BY <1>1, <1>2, NewcAssumption DEF NameOf, Given
<1>6. Named'
  <2>1. Following' = Following /\ 1..(next' - 1) = (1..(next - 1)) \cup {next}
    BY <1>1, <1>2 DEF Following
  <2>2. \A i \in 1..(next - 1) : NameOf(Following[i]) # NameOf(e)
    BY <1>1 DEF Seen, NameOf
  <2>3. /\ \A i \in 1..(next - 1) : NameOf(Following[i]) \in Names
        /\ \A i, j \in 1..(next - 1) : NameOf(Following[i]) = NameOf(Following[j]) => i = j
    BY <1>1 DEF Named
  <2> QED BY <1>5, <2>1, <2>2, <2>3 DEF Named, NameOf
<1>7. Codec' /\ ReadSoFar'
  <2>1. size' \in Nat
    BY <1>1, <1>2, <1>4, <1>5, EntryLayout
  <2> QED BY <1>1, <1>2, <2>1 DEF Codec, ReadSoFar, Normal
<1>8. PICK more : more = [i \in 1..(next + 1) |-> IF i <= next THEN off[i] ELSE EndFrom(e, size)]
  OBVIOUS
<1>9. /\ EndFrom(e, size) \in Nat /\ EndFrom(e, size) >= size
      /\ \A f \in FieldsFrom(e, size) : /\ f[1] \in Nat /\ f[2] \in Nat \ {0}
                                        /\ size <= f[1] /\ f[1] + f[2] <= EndFrom(e, size)
      /\ \A f, g \in FieldsFrom(e, size) : f # g => f[1] + f[2] <= g[1] \/ g[1] + g[2] <= f[1]
  <2>1. /\ EndFrom(e, size) \in Nat /\ EndFrom(e, size) >= DataFrom(e, size) + e.data.size
        /\ DataFrom(e, size) >= size + HeaderSize + NameSize[NameOf(e)]
        /\ DataFrom(e, size) \in Nat /\ NameSize[NameOf(e)] \in Nat
    BY <1>2, <1>4, <1>5, EntryLayout
  <2>2. HeaderSize \in Nat /\ e.data.size \in Nat
    BY <1>2, PayloadSize, NewcAssumption
  <2>3. EndFrom(e, size) >= size
    BY <1>4, <2>1, <2>2
  <2> QED BY <1>2, <1>4, <1>5, <2>1, <2>3, EntryLayout
<1>10. LaidOut(more)'
  <2>1. more \in [1..(next + 1) -> Nat] /\ more[1] = 0
    BY <1>2, <1>3, <1>9, <1>8 DEF Laid, LaidOut
  <2>2. ASSUME NEW i \in 1..next PROVE more[i + 1] = EndFrom(Following[i], more[i])
    <3>1. CASE i < next
      BY <1>2, <1>3, <1>8, <2>2, <3>1 DEF Laid, LaidOut
    <3>2. CASE i = next
      BY <1>2, <1>4, <1>8, <3>2
    <3> QED BY <1>2, <3>1, <3>2
  <2>3. Following' = Following /\ next' - 1 = next
    BY <1>1, <1>2 DEF Following
  <2> QED BY <1>1, <2>1, <2>2, <2>3 DEF LaidOut, EndFrom, DataFrom, NameOf
<1>11. Written(more)' = Written(off) \cup FieldsFrom(e, size)
  <2>1. \A i \in 1..(next - 1) : more[i] = off[i]
    BY <1>2, <1>8
  <2>2. more[next] = size
    BY <1>2, <1>4, <1>8
  <2>3. Following' = Following /\ 1..(next' - 1) = (1..(next - 1)) \cup {next}
    BY <1>1, <1>2 DEF Following
  <2>4. Written(more)' = UNION {FieldsFrom(Following[i], more[i]) : i \in 1..(next' - 1)}
    BY <2>3 DEF Written, FieldsFrom, HeaderOf, DataFrom, NameOf
  <2> QED BY <2>1, <2>2, <2>3, <2>4 DEF Written
<1>12. more[next + 1] = EndFrom(e, size)
  BY <1>2, <1>8
<1>13. /\ Apart(Written(more))'
       /\ \A f \in Written(more)' : f[1] + f[2] <= EndFrom(e, size)
  <2>1. /\ Apart(Written(off)) /\ \A f \in Written(off) : f[1] + f[2] <= size
    BY <1>3, <1>4 DEF Laid
  <2> DEFINE new == FieldsFrom(e, size)
             end == EndFrom(e, size)
             old == Written(off)
  <2>2. /\ end \in Nat /\ end >= size /\ Apart(new)
        /\ \A f \in new : size <= f[1] /\ f[1] + f[2] <= end
    BY <1>9 DEF Apart
  <2> HIDE DEF new, end, old
  <2>3. ASSUME NEW f \in old, NEW g \in new
        PROVE  f[1] + f[2] <= g[1]
    BY <1>4, <2>1, <2>2 DEF Apart, old
  <2>4. Apart(old \cup new)
    BY <2>1, <2>2, <2>3 DEF Apart, old
  <2>5. \A f \in old \cup new : f[1] + f[2] <= end
    BY <1>4, <2>1, <2>2 DEF Apart, old
  <2> QED BY <1>11, <2>4, <2>5 DEF Apart, old, new, end
<1>14. Laid(more)'
  <2>1. archive' = Written(more)'
    BY <1>1, <1>3, <1>4, <1>11 DEF Laid
  <2> QED BY <1>1, <1>10, <1>12, <1>13, <2>1 DEF Laid
<1> QED BY <1>6, <1>7, <1>14 DEF NewcInv

\* The steps that leave entries and next alone.
LEMMA OtherStep ==
  ASSUME NewcInv, UNCHANGED <<entries, next>>, Codec', ReadSoFar',
         \A off : Laid(off) =>
            /\ archive' \subseteq Written(off)
            /\ whole' => /\ archive' = Written(off)
                         /\ size' = IF apc' \in {"encode", "rejected"} THEN off[next]
                                    ELSE Aligned(off[next], 512)
            /\ apc' = "decode" => pos' = start' + off[Len(decoded') + 1]
            /\ apc' = "decoded" => Len(decoded') = Len(entries) /\ pos' = start' + off[Len(entries) + 2]
  PROVE  NewcInv'
<1>1. PICK off : Laid(off)
  BY DEF NewcInv
<1>2. Written(off)' = Written(off) /\ LaidOut(off)' /\ Named'
  BY <1>1, SameWritten DEF NewcInv, Laid
<1>3. Laid(off)'
  BY <1>1, <1>2 DEF Laid, Apart
<1> QED BY <1>2, <1>3 DEF NewcInv

LEMMA PlainEncodeSteps ==
  ASSUME NewcInv, EncodeRefuses \/ EncodeEnds
  PROVE  NewcInv'
<1>0. Codec /\ ReadSoFar
  BY DEF NewcInv
<1>1. CASE EncodeRefuses
  <2>1. Codec' /\ ReadSoFar'
    BY <1>0, <1>1 DEF EncodeRefuses, Codec, ReadSoFar, Normal
  <2> QED BY <1>1, <2>1, OtherStep DEF EncodeRefuses, Laid
<1>2. CASE EncodeEnds
  <2>1. next = Len(entries) + 2
    <3>1. Len(Following) = Len(entries) + 1 /\ Len(entries) \in Nat
      BY <1>0, FollowingParts DEF Codec
    <3> QED BY <1>0, <1>2, <3>1 DEF EncodeEnds, Codec
  <2>2. Codec' /\ ReadSoFar'
    <3>1. size' \in Nat
      BY <1>0, <1>2, AlignedUp DEF EncodeEnds, Codec
    <3> QED BY <1>0, <1>2, <2>1, <3>1 DEF EncodeEnds, Codec, ReadSoFar, Normal
  <2> QED BY <1>0, <1>2, <2>2, OtherStep DEF EncodeEnds, Laid, Codec
<1> QED BY <1>1, <1>2

LEMMA DeliverySteps ==
  ASSUME NewcInv, (\E c \in Nat : Truncate(c)) \/ (\E s \in Nat : BeginDecode(s))
  PROVE  NewcInv'
<1>0. Codec /\ ReadSoFar
  BY DEF NewcInv
<1>1. ASSUME NEW c \in Nat, Truncate(c) PROVE NewcInv'
  <2>1. Codec' /\ ReadSoFar'
    BY <1>0, <1>1 DEF Truncate, Codec, ReadSoFar, Normal
  <2> QED BY <1>1, <2>1, OtherStep DEF Truncate, Laid
<1>2. ASSUME NEW s \in Nat, BeginDecode(s) PROVE NewcInv'
  <2>1. Codec' /\ ReadSoFar'
    BY <1>0, <1>2 DEF BeginDecode, Codec, ReadSoFar, Normal
  <2>2. decoded' = <<>> /\ pos' = start' /\ s \in Nat /\ start' = s
    BY <1>0, <1>2 DEF BeginDecode, Codec
  <2>3. \A off : Laid(off) => pos' = start' + off[Len(decoded') + 1]
    BY <2>2 DEF Laid, LaidOut
  <2> QED BY <1>0, <1>2, <2>1, <2>3, OtherStep DEF BeginDecode, Laid, Codec
<1> QED BY <1>1, <1>2

\* Where fields do not overlap, one begins at a place.
LEMMA OneAtAPlace ==
  ASSUME NEW fields, Apart(fields), NEW f \in fields, NEW g \in fields, f[1] = g[1]
  PROVE  f = g
BY DEF Apart

\* What decode() finds at its position is the next entry, if all of it is there.
LEMMA ReadNext ==
  ASSUME NewcInv, apc = "decode", NEW off, Laid(off)
  PROVE  LET i == Len(decoded) + 1
             e == Following[i]
         IN /\ i \in 1..(Len(entries) + 1) /\ e \in Given /\ NameOf(e) \in Names
            /\ HeadersHere \subseteq {HeaderOf(e)}
            /\ EndOf(HeaderOf(e)) = start + off[i + 1]
            /\ Read(HeaderOf(e)) \subseteq {Normal(e)}
            /\ whole => HeadersHere = {HeaderOf(e)} /\ Read(HeaderOf(e)) = {Normal(e)}
<1> DEFINE i == Len(decoded) + 1
           e == Following[i]
           o == off[i]
<1>1. /\ Codec /\ Named /\ ReadSoFar /\ entries \in Seq(Entries) /\ Len(entries) \in Nat
      /\ next = Len(entries) + 2 /\ Len(decoded) \in Nat /\ i \in 1..(Len(entries) + 1)
      /\ start \in Nat
  BY DEF NewcInv, Codec, ReadSoFar
<1>2. e \in Given /\ NameOf(e) \in Names
  BY <1>1, FollowingParts DEF Named
<1>3. o \in Nat /\ off[i + 1] = EndFrom(e, o) /\ pos = start + o /\ FieldsFrom(e, o) \subseteq Written(off)
  <2>1. LaidOut(off) /\ pos = start + off[Len(decoded) + 1] /\ i \in 1..(next - 1)
    BY <1>1 DEF Laid
  <2>2. o \in Nat /\ off[i + 1] = EndFrom(e, o)
    BY <1>1, <2>1 DEF LaidOut
  <2> QED BY <2>1, <2>2 DEF Written
<1> HIDE DEF i, e, o
<1>4. pos + HeaderSize = start + (o + HeaderSize) /\ o + HeaderSize \in Nat
  <2>1. start \in Nat /\ o \in Nat /\ pos = start + o /\ HeaderSize \in Nat
    BY <1>1, <1>3, NewcAssumption
  <2> QED BY <2>1, Shifted
<1> DEFINE hf == <<o, HeaderSize, HeaderOf(e)>>
           nf == <<o + HeaderSize, NameSize[NameOf(e)], NameOf(e)>>
           df == <<DataFrom(e, o), e.data.size, e.data>>
<1>5. /\ NameSize[NameOf(e)] \in Nat /\ HeaderSize \in Nat /\ DataFrom(e, o) \in Nat
      /\ e.data.size \in Nat /\ (e.data.size = 0 <=> e.data = Empty) /\ EndFrom(e, o) \in Nat
  <2>1. NameSize[NameOf(e)] \in Nat /\ DataFrom(e, o) \in Nat /\ EndFrom(e, o) \in Nat
    BY <1>2, <1>3, EntryLayout
  <2> QED BY <1>2, <2>1, PayloadSize, NewcAssumption
<1>6. hf \in Written(off) /\ nf \in Written(off) /\ (e.data.size # 0 => df \in Written(off))
  BY <1>2, <1>3, EntryLayout
<1>7. Apart(Written(off)) /\ archive \subseteq Written(off) /\ (whole => archive = Written(off))
  BY DEF Laid
\* A place holds what was written there, or nothing.
<1>8. ASSUME NEW p \in Nat, NEW l, NEW v, <<p, l, v>> \in Written(off)
      PROVE  /\ At(start + p, l) \subseteq {v}
             /\ whole => At(start + p, l) = {v}
  <2>1. (start + p) - start = p
    BY <1>1
  <2>2. \A g \in archive : g[1] = p => g = <<p, l, v>>
    BY <1>7, <1>8, OneAtAPlace
  <2>3. At(start + p, l) \subseteq {v}
    BY <2>1, <2>2 DEF At
  <2>4. ASSUME whole PROVE v \in At(start + p, l)
    <3>1. <<p, l, v>> \in archive
      BY <1>7, <1>8, <2>4
    <3> QED BY <2>1, <3>1 DEF At
  <2> QED BY <2>3, <2>4
<1>9. HeadersHere \subseteq {HeaderOf(e)} /\ (whole => HeadersHere = {HeaderOf(e)})
  BY <1>3, <1>6, <1>8 DEF HeadersHere
<1>10. \A n \in Nat : AlignedInArchive(start + n) = start + Aligned(n, 4)
  <2> SUFFICES ASSUME NEW n \in Nat PROVE AlignedInArchive(start + n) = start + Aligned(n, 4)
    OBVIOUS
  <2>1. start + n - start = n
    BY <1>1
  <2>2. (-n) % 4 \in Nat
    OBVIOUS
  <2> QED BY <1>1, <2>1, <2>2 DEF AlignedInArchive, Aligned
<1>11. DataAt(HeaderOf(e)) = start + DataFrom(e, o)
  <2>1. NameSize[NameOf(e)] \in Nat /\ start \in Nat
    BY <1>1, <1>5
  <2>2. /\ (start + (o + HeaderSize)) + NameSize[NameOf(e)] = start + ((o + HeaderSize) + NameSize[NameOf(e)])
        /\ (o + HeaderSize) + NameSize[NameOf(e)] \in Nat
    BY <1>4, <2>1, Shifted
  <2>3. /\ pos + HeaderSize + NameSize[NameOf(e)] = start + (o + HeaderSize + NameSize[NameOf(e)])
        /\ o + HeaderSize + NameSize[NameOf(e)] \in Nat
    BY <1>4, <2>2
  <2> QED BY <1>10, <2>3 DEF DataAt, HeaderOf, DataFrom
<1>12. EndOf(HeaderOf(e)) = start + EndFrom(e, o)
  <2>1. /\ DataAt(HeaderOf(e)) + e.data.size = start + (DataFrom(e, o) + e.data.size)
        /\ DataFrom(e, o) + e.data.size \in Nat
    <3>1. DataFrom(e, o) \in Nat /\ e.data.size \in Nat /\ start \in Nat
      BY <1>1, <1>5
    <3>2. /\ (start + DataFrom(e, o)) + e.data.size = start + (DataFrom(e, o) + e.data.size)
          /\ DataFrom(e, o) + e.data.size \in Nat
      BY <3>1, Shifted
    <3> QED BY <1>11, <3>2
  <2> QED BY <1>10, <2>1 DEF EndOf, HeaderOf, EndFrom
<1>13. /\ At(pos + HeaderSize, NameSize[NameOf(e)]) \subseteq {NameOf(e)}
       /\ whole => At(pos + HeaderSize, NameSize[NameOf(e)]) = {NameOf(e)}
  BY <1>6, <1>8, <1>4
<1>14. /\ Payload(DataAt(HeaderOf(e)), e.data.size) \subseteq {e.data}
       /\ whole => Payload(DataAt(HeaderOf(e)), e.data.size) = {e.data}
  BY <1>6, <1>8, <1>11, <1>5 DEF Payload
<1>15. [name |-> NameOf(e), mode |-> e.mode, data |-> e.data] = Normal(e)
  BY <1>2 DEF Given, Normal, NameOf
<1>16. Read(HeaderOf(e)) \subseteq {Normal(e)} /\ (whole => Read(HeaderOf(e)) = {Normal(e)})
  BY <1>13, <1>14, <1>15 DEF Read, HeaderOf
<1> QED BY <1>1, <1>2, <1>3, <1>9, <1>12, <1>16 DEF i, e, o

\* The trailer is known by its name: no other entry has it.
LEMMA TrailerIsLast ==
  ASSUME NewcInv, apc = "decode", NEW i \in 1..(Len(entries) + 1)
  PROVE  NameOf(Following[i]) = Trailer <=> i = Len(entries) + 1
<1>1. /\ entries \in Seq(Entries) /\ Len(entries) \in Nat /\ next = Len(entries) + 2 /\ Named
  BY DEF NewcInv, Codec
<1>2. NameOf(Following[Len(entries) + 1]) = Trailer
  BY <1>1, FollowingParts, NewcAssumption DEF NameOf, TrailerEntry
<1> QED BY <1>1, <1>2 DEF Named

LEMMA DecodeEntryStep == ASSUME NewcInv, DecodeEntry PROVE NewcInv'
<1> DEFINE i == Len(decoded) + 1
           e == Following[i]
<1>1. /\ Codec /\ ReadSoFar /\ apc = "decode" /\ entries \in Seq(Entries) /\ Len(entries) \in Nat
      /\ decoded \in Seq(Entries) /\ Len(decoded) \in Nat
      /\ UNCHANGED <<entries, apc, archive, size, whole, next, start>>
  BY DEF NewcInv, DecodeEntry, Codec, ReadSoFar
<1>2. \A off : Laid(off) =>
        /\ HeadersHere \subseteq {HeaderOf(e)} /\ EndOf(HeaderOf(e)) = start + off[i + 1]
        /\ Read(HeaderOf(e)) \subseteq {Normal(e)}
  BY <1>1, ReadNext
<1>3. i \in 1..(Len(entries) + 1)
  BY <1>1, ReadNext DEF NewcInv
<1>4. /\ Normal(e).name # Trailer /\ decoded' = Append(decoded, Normal(e)) /\ pos' = EndOf(HeaderOf(e))
  <2>1. PICK off : Laid(off)
    BY DEF NewcInv
  <2> QED BY <1>2, <2>1 DEF DecodeEntry
<1>5. i <= Len(entries) /\ e = entries[i] /\ Normal(e) \in Entries
  <2>1. e \in Given
    BY <1>1, ReadNext DEF NewcInv
  <2>2. NameOf(e) \in Names /\ NameOf(e) # Trailer
    <3>1. NameOf(e) \in Names
      BY <1>1, ReadNext DEF NewcInv
    <3> QED BY <1>4, <2>1, <3>1 DEF Normal, NameOf, Given
  <2>3. i # Len(entries) + 1
    BY <1>1, <1>3, <2>2, TrailerIsLast
  <2>4. i <= Len(entries) /\ e = entries[i]
    BY <1>1, <1>3, <2>3, FollowingParts
  <2>5. e \in Entries
    BY <1>1, <1>3, <2>4
  <2>6. Normal(e) \in Entries
    BY <2>2, <2>5 DEF Entries, Normal, NameOf
  <2> QED BY <2>4, <2>6
<1>6. ReadSoFar'
  <2>1. /\ decoded' \in Seq(Entries) /\ Len(decoded') = i
        /\ decoded'[i] = Normal(e) /\ \A j \in 1..Len(decoded) : decoded'[j] = decoded[j]
    BY <1>1, <1>4, <1>5
  <2>2. \A j \in 1..i : decoded'[j] = Normal(entries[j])
    BY <1>1, <1>5, <2>1 DEF ReadSoFar
  <2> QED BY <1>1, <1>5, <2>1, <2>2 DEF ReadSoFar, Normal
<1>7. Codec' /\ Len(decoded') = i
  BY <1>1, <1>4, <1>5 DEF Codec
<1>8. \A off : Laid(off) => pos' = start' + off[Len(decoded') + 1]
  BY <1>1, <1>2, <1>4, <1>7
<1> QED BY <1>1, <1>6, <1>7, <1>8, OtherStep DEF Laid

LEMMA DecodeEndsStep == ASSUME NewcInv, DecodeEnds PROVE NewcInv'
<1> DEFINE i == Len(decoded) + 1
           e == Following[i]
<1>1. /\ Codec /\ ReadSoFar /\ apc = "decode" /\ apc' = "decoded"
      /\ entries \in Seq(Entries) /\ Len(entries) \in Nat
      /\ decoded \in Seq(Entries) /\ Len(decoded) \in Nat
      /\ UNCHANGED <<entries, archive, size, whole, next, start, decoded>>
  BY DEF NewcInv, DecodeEnds, Codec, ReadSoFar
<1>2. \A off : Laid(off) =>
        /\ HeadersHere \subseteq {HeaderOf(e)} /\ EndOf(HeaderOf(e)) = start + off[i + 1]
        /\ Read(HeaderOf(e)) \subseteq {Normal(e)}
  BY <1>1, ReadNext
<1>3. i \in 1..(Len(entries) + 1) /\ e \in Given
  BY <1>1, ReadNext DEF NewcInv
<1>4. Normal(e).name = Trailer /\ pos' = EndOf(HeaderOf(e))
  <2>1. PICK off : Laid(off)
    BY DEF NewcInv
  <2> QED BY <1>2, <2>1 DEF DecodeEnds, IsTrailer
<1>5. i = Len(entries) + 1
  <2>1. NameOf(e) = Trailer
    BY <1>3, <1>4 DEF Normal, NameOf, Given
  <2> QED BY <1>1, <1>3, <2>1, TrailerIsLast
<1>6. Codec' /\ ReadSoFar'
  BY <1>1 DEF Codec, ReadSoFar, Normal
<1>7. \A off : Laid(off) => Len(decoded') = Len(entries) /\ pos' = start' + off[Len(entries) + 2]
  BY <1>1, <1>2, <1>4, <1>5
<1> QED BY <1>1, <1>6, <1>7, OtherStep DEF Laid, Codec

\* What is whole is not refused.
LEMMA DecodeRefusesStep == ASSUME NewcInv, DecodeRefuses PROVE NewcInv'
<1> DEFINE i == Len(decoded) + 1
           e == Following[i]
<1>1. /\ Codec /\ ReadSoFar /\ Named /\ apc = "decode" /\ apc' = "refused"
      /\ entries \in Seq(Entries) /\ Len(entries) \in Nat /\ next = Len(entries) + 2
      /\ decoded \in Seq(Entries) /\ Len(decoded) \in Nat
      /\ UNCHANGED <<entries, archive, size, whole, next, start, pos, decoded>>
  BY DEF NewcInv, DecodeRefuses, Codec, ReadSoFar
<1>2. i \in 1..(Len(entries) + 1) /\ e \in Given
  BY <1>1, ReadNext DEF NewcInv
<1>3. ASSUME whole PROVE FALSE
  <2>1. HeadersHere = {HeaderOf(e)} /\ Read(HeaderOf(e)) = {Normal(e)}
    BY <1>1, <1>3, ReadNext DEF NewcInv
  <2>2. ~IsTrailer(Normal(e)) /\ Normal(e).name \in DecodedNames \cup {Trailer}
    BY <2>1 DEF DecodeRefuses
  <2>3. Normal(e).name = NameOf(e) /\ Normal(e).data = e.data
    BY <1>2 DEF Normal, NameOf, Given
  <2>4. CASE i = Len(entries) + 1
    <3>1. e = TrailerEntry /\ NameOf(e) = Trailer
      BY <1>1, <1>2, <2>4, FollowingParts, TrailerIsLast
    <3> QED BY <2>2, <2>3, <3>1 DEF IsTrailer, TrailerEntry
  <2>5. CASE i # Len(entries) + 1
    <3>1. NameOf(e) # Trailer
      BY <1>1, <1>2, <2>5, TrailerIsLast
    <3>2. PICK j \in 1..Len(decoded) : decoded[j].name = NameOf(e)
      BY <2>2, <2>3, <3>1 DEF DecodedNames
    <3>3. Following[j] = entries[j] /\ entries[j] \in Entries /\ j \in 1..Len(entries)
      BY <1>1, FollowingParts DEF ReadSoFar
    <3>4. NameOf(Following[j]) = NameOf(e)
      <4>1. decoded[j] = Normal(entries[j])
        BY <1>1 DEF ReadSoFar
      <4>2. Normal(entries[j]).name = NameOf(entries[j])
        BY <3>3 DEF Normal, NameOf, Entries
      <4> QED BY <3>2, <3>3, <4>1, <4>2
    <3>5. j \in 1..(next - 1) /\ i \in 1..(next - 1) /\ j # i
      BY <1>1, <1>2, <3>2
    <3> QED BY <1>1, <3>4, <3>5 DEF Named
  <2> QED BY <2>4, <2>5
<1>4. Codec' /\ ReadSoFar'
  BY <1>1, <1>3 DEF Codec, ReadSoFar, Normal
<1> QED BY <1>1, <1>4, OtherStep DEF Laid

LEMMA NewcStep == NewcInv /\ [NewcNext]_newcVars => NewcInv'
<1> SUFFICES ASSUME NewcInv, [NewcNext]_newcVars PROVE NewcInv'
  OBVIOUS
<1>1. CASE UNCHANGED newcVars
  <2>1. Codec' /\ ReadSoFar'
    BY <1>1 DEF newcVars, NewcInv, Codec, ReadSoFar, Normal
  <2> QED BY <1>1, <2>1, OtherStep DEF newcVars, Laid
<1> QED
  BY <1>1, EncodeEntryStep, PlainEncodeSteps, DeliverySteps, DecodeEntryStep, DecodeEndsStep,
     DecodeRefusesStep
  DEF NewcNext, Encode, Decode

\* What encode() accepts decode() reads back, whatever the entries, from wherever
\* in other data, and an archive that lost its end is refused: for all sizes.
THEOREM CodecRoundTrip == NewcSpec => []RoundTrip
<1>1. (\E given \in Seq(Entries) : NewcInit(given)) => NewcInv
  BY NewcStart
<1>2. NewcInv => RoundTrip
  <2> SUFFICES ASSUME NewcInv PROVE RoundTrip
    OBVIOUS
  <2>1. PICK off : Laid(off)
    BY DEF NewcInv
  <2>2. Codec /\ ReadSoFar
    BY DEF NewcInv
  <2>3. \A f, g \in archive : f # g => f[1] + f[2] <= g[1] \/ g[1] + g[2] <= f[1]
    BY <2>1 DEF Laid, Apart
  <2>4. ASSUME apc = "decoded"
        PROVE  /\ decoded = [i \in 1..Len(entries) |-> Normal(entries[i])]
               /\ whole => Aligned(pos - start, 512) = size
    <3>1. decoded = [i \in 1..Len(entries) |-> Normal(entries[i])]
      BY <2>1, <2>2, <2>4 DEF Laid, ReadSoFar
    <3>2. /\ next = Len(entries) + 2 /\ Len(entries) \in Nat /\ start \in Nat
          /\ off[next] \in Nat /\ pos = start + off[next]
      BY <2>1, <2>2, <2>4 DEF Laid, LaidOut, Codec
    <3>3. pos - start = off[next]
      BY <3>2
    <3> QED BY <2>1, <2>4, <3>1, <3>3 DEF Laid
  <2> QED BY <2>2, <2>3, <2>4 DEF RoundTrip, Codec
<1> QED BY <1>1, <1>2, NewcStep, PTL DEF NewcSpec

-----------------------------------------------------------------------------
\* The companion: what the key file has given so far, and what is built of it.

FirstAt(i, k) == config.lines[i] = k /\ \A j \in 1..(i - 1) : config.lines[j] # k
ReadLines == {config.lines[j] : j \in 1..(line - 1)}

KeysFound ==
  /\ line \in 1..(Len(config.lines) + 1)
  /\ authorized \in Seq(Keys \cup {Comment, Bad})
  /\ {authorized[j] : j \in 1..Len(authorized)} = ReadLines \ {Comment}
  /\ \A j \in 1..Len(authorized) : \E i \in 1..(line - 1) : FirstAt(i, authorized[j])
  /\ \A j, k \in 1..Len(authorized) : \A a, b \in 1..(line - 1) :
       j < k /\ FirstAt(a, authorized[j]) /\ FirstAt(b, authorized[k]) => a < b

Stages == /\ config \in Configs
          /\ kpc \notin {"fields", "failed"} => FieldsAllowed
          /\ kpc \in {"host", "job", "build", "archive", "open", "write", "done"} /\ ~config.example
               => line = Len(config.lines) + 1

Built == /\ kpc \in {"archive", "open", "write", "done"} => entries = Listed(Files)
         /\ kpc = "done" => output \in {Absent, entries}

CompanionInv == Stages /\ KeysFound /\ Built

LEMMA FirstIs ==
  ASSUME NEW k, NEW i \in 1..Len(config.lines), Len(config.lines) \in Nat, FirstAt(i, k)
  PROVE  First(k) = i
<1>1. \A j \in 1..Len(config.lines) : FirstAt(j, k) => j = i
  <2> SUFFICES ASSUME NEW j \in 1..Len(config.lines), FirstAt(j, k) PROVE j = i
    OBVIOUS
  <2>1. ~(j < i)
    BY DEF FirstAt
  <2>2. ~(i < j)
    BY DEF FirstAt
  <2> QED BY <2>1, <2>2
<1>2. First(k) = CHOOSE j \in 1..Len(config.lines) : FirstAt(j, k)
  BY DEF First, FirstAt
<1> QED BY <1>1, <1>2

LEMMA LinesAreKnown ==
  ASSUME config \in Configs
  PROVE  config.lines \in Seq(Keys \cup {Comment, Bad}) /\ Len(config.lines) \in Nat
<1>1. config.lines \in Seq(Keys \cup {Comment, Bad})
  BY CompanionAssumption
<1> QED BY <1>1

\* A key is kept at its first line, behind those of earlier lines.
LEMMA ReadLineStep ==
  ASSUME CompanionInv, ReadLine
  PROVE  CompanionInv'
<1> DEFINE n == Len(config.lines)
           k == config.lines[line]
<1>1. /\ config.lines \in Seq(Keys \cup {Comment, Bad}) /\ n \in Nat
      /\ line \in 1..n /\ line' = line + 1 /\ config' = config /\ kpc' = kpc /\ kpc = "keys"
      /\ k \in Keys \cup {Comment, Bad}
  <2>1. config.lines \in Seq(Keys \cup {Comment, Bad}) /\ n \in Nat
    BY LinesAreKnown DEF CompanionInv, Stages
  <2>2. line \in 1..n /\ line' = line + 1 /\ config' = config /\ kpc' = kpc /\ kpc = "keys"
    BY <2>1 DEF ReadLine, CompanionInv, KeysFound
  <2> QED BY <2>1, <2>2
<1> DEFINE m == Len(authorized)
<1>2. /\ authorized \in Seq(Keys \cup {Comment, Bad}) /\ m \in Nat
      /\ {authorized[j] : j \in 1..m} = ReadLines \ {Comment}
  BY DEF CompanionInv, KeysFound
<1>3. \A j \in 1..m : \E a \in 1..(line - 1) : FirstAt(a, authorized[j])
  BY DEF CompanionInv, KeysFound
<1>4. \A i, j \in 1..m : \A a, b \in 1..(line - 1) :
        i < j /\ FirstAt(a, authorized[i]) /\ FirstAt(b, authorized[j]) => a < b
  BY DEF CompanionInv, KeysFound
<1>5. 1..(line' - 1) = (1..(line - 1)) \cup {line} /\ line \notin 1..(line - 1) /\ line' \in 1..(n + 1)
  BY <1>1
<1>6. ReadLines' = ReadLines \cup {k}
  BY <1>1, <1>5 DEF ReadLines
<1>7. \A a, x : FirstAt(a, x)' <=> FirstAt(a, x)
  BY <1>1 DEF FirstAt
\* The line that is read is not the first one of a key that was kept before.
<1>8. \A j \in 1..m : ~FirstAt(line, authorized[j])
  <2> SUFFICES ASSUME NEW j \in 1..m PROVE ~FirstAt(line, authorized[j])
    OBVIOUS
  <2>1. PICK a \in 1..(line - 1) : FirstAt(a, authorized[j])
    BY <1>3
  <2> QED BY <2>1 DEF FirstAt
<1>9. Stages' /\ Built'
  BY <1>1 DEF CompanionInv, Stages, FieldsAllowed, Built
<1>10. KeysFound'
  <2>1. CASE k = Comment \/ Contains(authorized, k)
    <3>1. authorized' = authorized
      BY <2>1 DEF ReadLine, Kept
    <3>2. k \in ReadLines \cup {Comment}
      BY <2>1, <1>2 DEF Contains
    <3>3. {authorized'[j] : j \in 1..Len(authorized')} = ReadLines' \ {Comment}
      BY <3>1, <3>2, <1>2, <1>6
    <3>4. \A j \in 1..m : \E a \in 1..(line' - 1) : FirstAt(a, authorized[j])
      BY <1>3, <1>5
    <3>5. \A i, j \in 1..m : \A a, b \in 1..(line' - 1) :
            i < j /\ FirstAt(a, authorized[i]) /\ FirstAt(b, authorized[j]) => a < b
      BY <1>4, <1>5, <1>8
    <3> QED BY <3>1, <3>3, <3>4, <3>5, <1>1, <1>2, <1>5, <1>7 DEF KeysFound
  <2>2. CASE k # Comment /\ ~Contains(authorized, k)
    <3>1. authorized' = Append(authorized, k)
      BY <2>2 DEF ReadLine, Kept
    <3>2. /\ authorized' \in Seq(Keys \cup {Comment, Bad}) /\ Len(authorized') = m + 1
          /\ \A j \in 1..m : authorized'[j] = authorized[j]
          /\ authorized'[m + 1] = k
      BY <3>1, <1>1, <1>2
    <3>3. k \notin ReadLines
      BY <2>2, <1>2 DEF Contains
    <3>4. FirstAt(line, k)
      BY <3>3, <1>1 DEF FirstAt, ReadLines
    <3>5. \A b \in 1..(line - 1) : ~FirstAt(b, k)
      BY <3>3 DEF FirstAt, ReadLines
    <3>6. 1..(m + 1) = (1..m) \cup {m + 1}
      BY <1>2
    <3>7. {authorized'[j] : j \in 1..(m + 1)} = {authorized[j] : j \in 1..m} \cup {k}
      BY <3>2, <3>6
    <3>8. {authorized'[j] : j \in 1..(m + 1)} = ReadLines' \ {Comment}
      BY <3>7, <1>2, <1>6, <2>2
    <3>9. \A j \in 1..(m + 1) : \E a \in 1..(line' - 1) : FirstAt(a, authorized'[j])
      <4>1. \A j \in 1..m : \E a \in 1..(line' - 1) : FirstAt(a, authorized'[j])
        BY <1>3, <1>5, <3>2
      <4> QED BY <4>1, <1>5, <3>2, <3>4, <3>6
    <3>10. ASSUME NEW i \in 1..(m + 1), NEW j \in 1..(m + 1), NEW a \in 1..(line' - 1), NEW b \in 1..(line' - 1),
                  i < j, FirstAt(a, authorized'[i]), FirstAt(b, authorized'[j])
           PROVE  a < b
      <4>1. i \in 1..m
        BY <3>10, <1>2
      <4>2. FirstAt(a, authorized[i])
        BY <3>10, <4>1, <3>2
      <4>3. a \in 1..(line - 1)
        BY <4>1, <4>2, <1>5, <1>8
      <4>4. CASE j = m + 1
        <5>1. FirstAt(b, k)
          BY <3>10, <4>4, <3>2
        <5>2. b = line
          BY <5>1, <3>5, <1>5
        <5> QED BY <4>3, <5>2, <1>1
      <4>5. CASE j \in 1..m
        <5>1. FirstAt(b, authorized[j])
          BY <3>10, <4>5, <3>2
        <5>2. b \in 1..(line - 1)
          BY <4>5, <5>1, <1>5, <1>8
        <5> QED BY <3>10, <4>1, <4>2, <4>3, <4>5, <5>1, <5>2, <1>4
      <4> QED BY <4>4, <4>5, <3>6
    <3>11. (\A j \in 1..Len(authorized) : \E a \in 1..(line - 1) : FirstAt(a, authorized[j]))'
      BY <3>9, <3>2, <1>7
    <3>12. (\A i, j \in 1..Len(authorized) : \A a, b \in 1..(line - 1) :
              i < j /\ FirstAt(a, authorized[i]) /\ FirstAt(b, authorized[j]) => a < b)'
      BY <3>10, <3>2, <1>7
    <3> QED BY <3>2, <3>8, <3>11, <3>12, <1>1, <1>5 DEF KeysFound
  <2> QED BY <2>1, <2>2
<1> QED BY <1>9, <1>10 DEF CompanionInv

\* The other steps leave the keys alone.
LEMMA SameKeys ==
  ASSUME UNCHANGED <<config, authorized, line>>
  PROVE  /\ KeysFound' = KeysFound /\ FieldsAllowed' = FieldsAllowed
         /\ Listed(Files)' = Listed(Files)
<1>1. KeysFound' = KeysFound
  BY DEF KeysFound, ReadLines, FirstAt
<1>2. FieldsAllowed' = FieldsAllowed
  BY DEF FieldsAllowed
<1>3. Listed(Files)' = Listed(Files)
  BY DEF Listed, Files, Directories, HasJob, AuthorizedKeys
<1> QED BY <1>1, <1>2, <1>3

LEMMA NoLineRead ==
  config \in Configs /\ kpc = "fields" /\ authorized = <<>> /\ line = 1 => CompanionInv
<1> SUFFICES ASSUME config \in Configs, kpc = "fields", authorized = <<>>, line = 1 PROVE CompanionInv
  OBVIOUS
<1>1. Len(config.lines) \in Nat
  BY LinesAreKnown
<1>2. ReadLines = {} /\ authorized \in Seq(Keys \cup {Comment, Bad}) /\ Len(authorized) = 0
  BY DEF ReadLines
<1>3. KeysFound
  BY <1>1, <1>2 DEF KeysFound
<1> QED BY <1>3 DEF CompanionInv, Stages, Built

LEMMA CompanionStep ==
  ASSUME CompanionInv, [CompanionNext]_imageVars
  PROVE  CompanionInv'
<1> USE DEF CompanionInv, Goto, Failed, Passed
<1>1. ASSUME UNCHANGED <<config, authorized, line>>
      PROVE  /\ KeysFound' /\ config' \in Configs /\ FieldsAllowed' = FieldsAllowed
             /\ Listed(Files)' = Listed(Files)
  BY <1>1, SameKeys DEF Stages
<1>2. CASE CheckFields
  BY <1>1, <1>2 DEF CheckFields, Stages, Built
<1>3. CASE CheckSite
  BY <1>1, <1>3 DEF CheckSite, Stages, Built
<1>4. CASE ReadLine
  BY <1>4, ReadLineStep
<1>5. CASE KeysRead
  <2>1. line = Len(config.lines) + 1
    BY <1>5, LinesAreKnown DEF KeysRead, Stages, KeysFound
  <2> QED BY <2>1, <1>1, <1>5 DEF KeysRead, Stages, Built
<1>6. CASE KeysRefused
  BY <1>1, <1>6 DEF KeysRefused, Stages, Built
<1>7. CASE CheckHostKey \/ CheckJob
  BY <1>1, <1>7 DEF CheckHostKey, CheckJob, Stages, Built
<1>8. CASE BuildEntries
  BY <1>1, <1>8 DEF BuildEntries, Stages, Built
<1>9. CASE Archive
  <2>1. UNCHANGED <<config, kpc, authorized, line, output>> /\ kpc = "archive" /\ entries' = entries
    BY <1>9 DEF Archive, companionVars, Encode, EncodeEntry, EncodeRefuses, EncodeEnds, BeginDecode,
                Decode, DecodeEntry, DecodeEnds, DecodeRefuses
  <2> QED BY <2>1, <1>1 DEF Stages, Built
<1>10. CASE ImageFails \/ ImageDone
  BY <1>1, <1>10 DEF ImageFails, ImageDone, Stages, Built, newcVars
<1>11. CASE OpenOutput \/ OpenFails \/ WriteOutput \/ Abort
  BY <1>1, <1>11 DEF OpenOutput, OpenFails, WriteOutput, Abort, Stages, Built, newcVars
<1>12. CASE \E c \in Configs : Again(c)
  <2>1. config' \in Configs /\ kpc' = "fields" /\ authorized' = <<>> /\ line' = 1
    BY <1>12 DEF Again
  <2>2. (config \in Configs /\ kpc = "fields" /\ authorized = <<>> /\ line = 1 => CompanionInv)'
    BY NoLineRead, PTL
  <2> QED BY <2>1, <2>2
<1>13. CASE RemoveCompanion
  BY <1>1, <1>13 DEF RemoveCompanion, Stages, Built, newcVars
<1>14. CASE UNCHANGED imageVars
  BY <1>1, <1>14 DEF imageVars, companionVars, newcVars, Stages, Built
<1> QED BY <1>2, <1>3, <1>4, <1>5, <1>6, <1>7, <1>8, <1>9, <1>10, <1>11, <1>12, <1>13, <1>14
        DEF CompanionNext, Generate

-----------------------------------------------------------------------------
\* The lists that make the image, written out.

LEMMA FrontOfPath ==
  ASSUME NEW a, NEW b, NEW c
  PROVE  Front(<<a, b>>) = <<a>> /\ Front(<<a, b, c>>) = <<a, b>>
<1> DEFINE S == {a, b, c}
<1>1. <<a>> \in Seq(S) /\ <<a, b>> \in Seq(S)
  OBVIOUS
<1>2. SubSeq(<<a, b>>, 1, 1) = <<a>>
  <2>1. \A i \in 1..1 : <<a, b>>[i] \in S
    OBVIOUS
  <2>2. /\ SubSeq(<<a, b>>, 1, 1) \in Seq(S) /\ Len(SubSeq(<<a, b>>, 1, 1)) = 1
        /\ \A i \in 1..1 : SubSeq(<<a, b>>, 1, 1)[i] = <<a, b>>[i]
    BY <2>1, SubSeqProperties
  <2>3. Len(<<a>>) = 1 /\ \A i \in 1..1 : <<a>>[i] = <<a, b>>[i]
    OBVIOUS
  <2> HIDE DEF S
  <2> QED BY <2>2, <2>3, <1>1, SeqEqual, Zenon
<1>3. SubSeq(<<a, b, c>>, 1, 2) = <<a, b>>
  <2>1. \A i \in 1..2 : <<a, b, c>>[i] \in S
    OBVIOUS
  <2>2. /\ SubSeq(<<a, b, c>>, 1, 2) \in Seq(S) /\ Len(SubSeq(<<a, b, c>>, 1, 2)) = 2
        /\ \A i \in 1..2 : SubSeq(<<a, b, c>>, 1, 2)[i] = <<a, b, c>>[i]
    BY <2>1, SubSeqProperties
  <2>3. Len(<<a, b>>) = 2 /\ \A i \in 1..2 : <<a, b>>[i] = <<a, b, c>>[i]
    OBVIOUS
  <2> HIDE DEF S
  <2> QED BY <2>2, <2>3, <1>1, SeqEqual, Zenon
<1> QED BY <1>2, <1>3 DEF Front

EtcDir == Directory(<<"etc">>, "0755")
ConfigDir == Directory(<<"etc", "config">>, "0755")
DropbearDir == Directory(<<"etc", "dropbear">>, "0700")
CrontabsDir == Directory(<<"etc", "crontabs">>, "0700")
RootDir == Directory(<<"root">>, "0700")
SshDir == Directory(<<"root", ".ssh">>, "0700")
Sshd(s) == File(<<"etc", "config", "dropbear">>, Text(<<"sshd", s>>, 121))
Fstab == File(<<"etc", "config", "fstab">>, Text(<<"fstab">>, 250))
Job == File(<<"etc", "config", "ls420d-backup">>, Text(<<"job">>, 150))
Network == File(<<"etc", "config", "network">>, Text(<<"network">>, config.network))
Schedule == File(<<"etc", "crontabs", "root">>, Text(<<"schedule">>, 35))
LoginKeys == File(<<"etc", "dropbear", "authorized_keys">>, AuthorizedKeys)
HostKey == File(<<"etc", "dropbear", "dropbear_ed25519_host_key">>, Text(<<"host key">>, 83))
Marker == File(<<"etc", "ls420d-deployment">>, Text(<<"deployment">>, 40))
Site == File(<<"etc", "ls420d-site.uci">>, Text(<<"site">>, 46))
ClientKey == File(<<"root", ".ssh", "backup_ed25519">>, Text(<<"client key">>, 83))
ServerKey == File(<<"root", ".ssh", "known_hosts">>, Text(<<"server key">>, 90))

LEMMA ExampleImage ==
  ASSUME config.example, ~HasJob, output = Listed(Files)
  PROVE  /\ Len(output) = 6 /\ output[1] = EtcDir /\ output[2] = ConfigDir
         /\ output[3] = Sshd("off") /\ output[4] = Network /\ output[5] = Marker /\ output[6] = Site
<1>1. /\ Directories = <<EtcDir, ConfigDir>> \o <<>> \o <<>>
      /\ Files = <<Sshd("off")>> \o <<>> \o <<Network>> \o <<>> \o <<>> \o <<Marker, Site>> \o <<>>
  BY DEF Directories, Files, Optional, EtcDir, ConfigDir, Sshd, Network, Marker, Site
<1> QED BY <1>1 DEF Listed

LEMMA DeploymentImage ==
  ASSUME ~config.example, ~HasJob, output = Listed(Files)
  PROVE  /\ Len(output) = 9 /\ output[1] = EtcDir /\ output[2] = ConfigDir /\ output[3] = DropbearDir
         /\ output[4] = Sshd("on") /\ output[5] = Network /\ output[6] = LoginKeys
         /\ output[7] = HostKey /\ output[8] = Marker /\ output[9] = Site
<1>1. /\ Directories = <<EtcDir, ConfigDir>> \o <<DropbearDir>> \o <<>>
      /\ Files = <<Sshd("on")>> \o <<>> \o <<Network>> \o <<>> \o <<LoginKeys, HostKey>>
                   \o <<Marker, Site>> \o <<>>
  BY DEF Directories, Files, Optional, EtcDir, ConfigDir, DropbearDir, Sshd, Network, LoginKeys,
         HostKey, Marker, Site
<1> QED BY <1>1 DEF Listed

LEMMA ImageJoined ==
  ASSUME NEW d1, NEW d2, NEW d3, NEW d4, NEW d5, NEW d6, NEW d7, NEW d8, NEW d9, NEW d10, NEW d11,
         NEW d12, NEW d13, NEW d14, NEW d15, NEW d16, NEW d17
  PROVE  LET s == (<<d1, d2>> \o <<d3>> \o <<d4, d5, d6>>)
                  \o (<<d7>> \o <<d8, d9>> \o <<d10>> \o <<d11>> \o <<d12, d13>>
                      \o <<d14, d15>> \o <<d16, d17>>)
         IN /\ Len(s) = 17
            /\ s[1] = d1 /\ s[2] = d2 /\ s[3] = d3 /\ s[4] = d4 /\ s[5] = d5 /\ s[6] = d6
            /\ s[7] = d7 /\ s[8] = d8 /\ s[9] = d9 /\ s[10] = d10 /\ s[11] = d11 /\ s[12] = d12
            /\ s[13] = d13 /\ s[14] = d14 /\ s[15] = d15 /\ s[16] = d16 /\ s[17] = d17
<1> DEFINE s == (<<d1, d2>> \o <<d3>> \o <<d4, d5, d6>>)
                \o (<<d7>> \o <<d8, d9>> \o <<d10>> \o <<d11>> \o <<d12, d13>>
                    \o <<d14, d15>> \o <<d16, d17>>)
<1>1. Len(s) = 17 /\ s[1] = d1 /\ s[2] = d2 /\ s[3] = d3 /\ s[4] = d4 /\ s[5] = d5 /\ s[6] = d6
  OBVIOUS
<1>2. s[7] = d7 /\ s[8] = d8 /\ s[9] = d9 /\ s[10] = d10 /\ s[11] = d11 /\ s[12] = d12
  OBVIOUS
<1>3. s[13] = d13 /\ s[14] = d14 /\ s[15] = d15 /\ s[16] = d16 /\ s[17] = d17
  OBVIOUS
<1> HIDE DEF s
<1> QED BY <1>1, <1>2, <1>3

LEMMA JobImage ==
  ASSUME ~config.example, HasJob, output = Listed(Files)
  PROVE  /\ Len(output) = 17 /\ output[1] = EtcDir /\ output[2] = ConfigDir /\ output[3] = DropbearDir
         /\ output[4] = CrontabsDir /\ output[5] = RootDir /\ output[6] = SshDir
         /\ output[7] = Sshd("on") /\ output[8] = Fstab /\ output[9] = Job /\ output[10] = Network
         /\ output[11] = Schedule /\ output[12] = LoginKeys /\ output[13] = HostKey
         /\ output[14] = Marker /\ output[15] = Site /\ output[16] = ClientKey /\ output[17] = ServerKey
<1> DEFINE s == (<<EtcDir, ConfigDir>> \o <<DropbearDir>> \o <<CrontabsDir, RootDir, SshDir>>)
                \o (<<Sshd("on")>> \o <<Fstab, Job>> \o <<Network>> \o <<Schedule>> \o <<LoginKeys, HostKey>>
                    \o <<Marker, Site>> \o <<ClientKey, ServerKey>>)
<1>1. output = s
  BY DEF Listed, Directories, Files, Optional, EtcDir, ConfigDir, DropbearDir, CrontabsDir, RootDir,
         SshDir, Sshd, Fstab, Job, Network, Schedule, LoginKeys, HostKey, Marker, Site, ClientKey, ServerKey
<1>2. /\ Len(s) = 17
      /\ s[1] = EtcDir /\ s[2] = ConfigDir /\ s[3] = DropbearDir
      /\ s[4] = CrontabsDir /\ s[5] = RootDir /\ s[6] = SshDir
      /\ s[7] = Sshd("on") /\ s[8] = Fstab /\ s[9] = Job
      /\ s[10] = Network /\ s[11] = Schedule /\ s[12] = LoginKeys
      /\ s[13] = HostKey /\ s[14] = Marker /\ s[15] = Site /\ s[16] = ClientKey /\ s[17] = ServerKey
  BY ImageJoined
<1> HIDE DEF s
<1> QED BY <1>1, <1>2

\* What each entry is for, if it holds anything.
Tag(e) == IF e.data.is = <<>> THEN "" ELSE e.data.is[1]

LEMMA Tags ==
  ASSUME NEW S, authorized \in Seq(S)
  PROVE  /\ Tag(EtcDir) = "" /\ Tag(ConfigDir) = "" /\ Tag(DropbearDir) = "" /\ Tag(CrontabsDir) = ""
         /\ Tag(RootDir) = "" /\ Tag(SshDir) = "" /\ \A s : Tag(Sshd(s)) = "sshd"
         /\ Tag(Fstab) = "fstab" /\ Tag(Job) = "job" /\ Tag(Network) = "network"
         /\ Tag(Schedule) = "schedule" /\ Tag(LoginKeys) = "authorized" /\ Tag(HostKey) = "host key"
         /\ Tag(Marker) = "deployment" /\ Tag(Site) = "site" /\ Tag(ClientKey) = "client key"
         /\ Tag(ServerKey) = "server key"
<1>1. /\ Tag(EtcDir) = "" /\ Tag(ConfigDir) = "" /\ Tag(DropbearDir) = "" /\ Tag(CrontabsDir) = ""
      /\ Tag(RootDir) = "" /\ Tag(SshDir) = ""
  BY DEF Tag, EtcDir, ConfigDir, DropbearDir, CrontabsDir, RootDir, SshDir, Directory, Empty
<1>2. \A s : Tag(Sshd(s)) = "sshd"
  BY DEF Tag, Sshd, File, Text
<1>3. Tag(Fstab) = "fstab" /\ Tag(Job) = "job" /\ Tag(Network) = "network" /\ Tag(Schedule) = "schedule"
  BY DEF Tag, Fstab, Job, Network, Schedule, File, Text
<1>4. Tag(HostKey) = "host key" /\ Tag(Marker) = "deployment" /\ Tag(Site) = "site"
  BY DEF Tag, HostKey, Marker, Site, File, Text
<1>5. Tag(ClientKey) = "client key" /\ Tag(ServerKey) = "server key"
  BY DEF Tag, ClientKey, ServerKey, File, Text
<1>6. Tag(LoginKeys) = "authorized"
  BY DEF Tag, LoginKeys, AuthorizedKeys, File, Text
<1> QED BY <1>1, <1>2, <1>3, <1>4, <1>5, <1>6

LEMMA SshdSays == \A s : Sshd(s).data.is[2] = s
BY DEF Sshd, File, Text

LEMMA KeysBehindTag ==
  ASSUME NEW S, authorized \in Seq(S)
  PROVE  Tail(LoginKeys.data.is) = authorized
<1>1. Tail(<<"authorized">> \o authorized) = authorized
  OBVIOUS
<1>2. LoginKeys.data.is = <<"authorized">> \o authorized
  BY DEF LoginKeys, AuthorizedKeys, File, Text
<1> QED BY <1>1, <1>2

LEMMA HoldingIsTagged ==
  ASSUME NEW what, what # ""
  PROVE  Holding(what) = {i \in 1..Len(output) : Tag(output[i]) = what}
BY DEF Holding, Tag

LEMMA HoldingNone ==
  ASSUME NEW what, \A i \in 1..Len(output) : Tag(output[i]) # what
  PROVE  Holding(what) = {}
BY DEF Holding, Tag

\* Where the SSH server's file, the keys and the host key lie.
LEMMA ExampleHolds ==
  ASSUME config.example, ~HasJob, output = Listed(Files), NEW S, authorized \in Seq(S)
  PROVE  /\ Holding("sshd") = {3} /\ output[3] = Sshd("off")
         /\ Holding("host key") = {} /\ Holding("client key") = {}
         /\ \A i \in 1..Len(output) :
              output[i].data.is \in {<<>>, <<"sshd", "off">>, <<"network">>, <<"deployment">>, <<"site">>}
<1>1. /\ Len(output) = 6 /\ Tag(output[1]) = "" /\ Tag(output[2]) = "" /\ Tag(output[3]) = "sshd"
      /\ Tag(output[4]) = "network" /\ Tag(output[5]) = "deployment" /\ Tag(output[6]) = "site"
  BY ExampleImage, Tags
<1>2. \A i \in 1..6 : i \in {1, 2, 3, 4, 5, 6}
  OBVIOUS
<1>3. \A e \in {EtcDir, ConfigDir, Sshd("off"), Network, Marker, Site} :
        e.data.is \in {<<>>, <<"sshd", "off">>, <<"network">>, <<"deployment">>, <<"site">>}
  BY DEF EtcDir, ConfigDir, Sshd, Network, Marker, Site, Directory, Empty, File, Text
<1>4. \A i \in 1..6 : output[i] \in {EtcDir, ConfigDir, Sshd("off"), Network, Marker, Site}
  BY <1>2, ExampleImage
<1>5. Holding("sshd") = {3}
  <2>1. \A i \in 1..6 : Tag(output[i]) = "sshd" <=> i = 3
    BY <1>1, <1>2
  <2>2. Holding("sshd") = {i \in 1..6 : Tag(output[i]) = "sshd"}
    BY <1>1, HoldingIsTagged
  <2>3. 3 \in 1..6
    OBVIOUS
  <2> QED BY <2>1, <2>2, <2>3
<1>6. Holding("host key") = {}
  <2>1. \A i \in 1..6 : Tag(output[i]) # "host key"
    BY <1>1, <1>2
  <2> QED BY <2>1, <1>1, HoldingNone
<1>7. Holding("client key") = {}
  <2>1. \A i \in 1..6 : Tag(output[i]) # "client key"
    BY <1>1, <1>2
  <2> QED BY <2>1, <1>1, HoldingNone
<1> QED BY <1>1, <1>3, <1>4, <1>5, <1>6, <1>7, ExampleImage

LEMMA DeploymentHolds ==
  ASSUME ~config.example, ~HasJob, output = Listed(Files), NEW S, authorized \in Seq(S)
  PROVE  /\ Len(output) = 9 /\ Holding("sshd") = {4} /\ output[4] = Sshd("on")
         /\ 6 \in Holding("authorized") /\ output[6] = LoginKeys
         /\ Holding("host key") = {7} /\ Holding("client key") = {}
<1>1. /\ Len(output) = 9 /\ Tag(output[1]) = "" /\ Tag(output[2]) = "" /\ Tag(output[3]) = ""
      /\ Tag(output[4]) = "sshd" /\ Tag(output[5]) = "network" /\ Tag(output[6]) = "authorized"
      /\ Tag(output[7]) = "host key" /\ Tag(output[8]) = "deployment" /\ Tag(output[9]) = "site"
  BY DeploymentImage, Tags
<1>2. \A i \in 1..9 : i \in {1, 2, 3, 4, 5, 6, 7, 8, 9}
  OBVIOUS
<1>3. Holding("sshd") = {4}
  <2>1. \A i \in 1..9 : Tag(output[i]) = "sshd" <=> i = 4
    BY <1>1, <1>2
  <2>2. Holding("sshd") = {i \in 1..9 : Tag(output[i]) = "sshd"}
    BY <1>1, HoldingIsTagged
  <2>3. 4 \in 1..9
    OBVIOUS
  <2> QED BY <2>1, <2>2, <2>3
<1>4. Holding("authorized") = {6}
  <2>1. \A i \in 1..9 : Tag(output[i]) = "authorized" <=> i = 6
    BY <1>1, <1>2
  <2>2. Holding("authorized") = {i \in 1..9 : Tag(output[i]) = "authorized"}
    BY <1>1, HoldingIsTagged
  <2>3. 6 \in 1..9
    OBVIOUS
  <2> QED BY <2>1, <2>2, <2>3
<1>5. Holding("host key") = {7}
  <2>1. \A i \in 1..9 : Tag(output[i]) = "host key" <=> i = 7
    BY <1>1, <1>2
  <2>2. Holding("host key") = {i \in 1..9 : Tag(output[i]) = "host key"}
    BY <1>1, HoldingIsTagged
  <2>3. 7 \in 1..9
    OBVIOUS
  <2> QED BY <2>1, <2>2, <2>3
<1>6. Holding("client key") = {}
  <2>1. \A i \in 1..9 : Tag(output[i]) # "client key"
    BY <1>1, <1>2
  <2> QED BY <2>1, <1>1, HoldingNone
<1> QED BY <1>1, <1>3, <1>4, <1>5, <1>6, DeploymentImage

LEMMA JobHolds ==
  ASSUME ~config.example, HasJob, output = Listed(Files), NEW S, authorized \in Seq(S)
  PROVE  /\ Len(output) = 17 /\ Holding("sshd") = {7} /\ output[7] = Sshd("on")
         /\ 12 \in Holding("authorized") /\ output[12] = LoginKeys
         /\ Holding("host key") = {13} /\ Holding("client key") = {16}
<1>1. /\ Len(output) = 17 /\ Tag(output[1]) = "" /\ Tag(output[2]) = "" /\ Tag(output[3]) = "" /\ Tag(output[4]) = ""
      /\ Tag(output[5]) = "" /\ Tag(output[6]) = "" /\ Tag(output[7]) = "sshd"
      /\ Tag(output[8]) = "fstab" /\ Tag(output[9]) = "job" /\ Tag(output[10]) = "network"
      /\ Tag(output[11]) = "schedule" /\ Tag(output[12]) = "authorized" /\ Tag(output[13]) = "host key"
      /\ Tag(output[14]) = "deployment" /\ Tag(output[15]) = "site" /\ Tag(output[16]) = "client key"
      /\ Tag(output[17]) = "server key"
  BY JobImage, Tags
<1>2. \A i \in 1..17 : i \in {1, 2, 3, 4, 5, 6, 7, 8, 9, 10, 11, 12, 13, 14, 15, 16, 17}
  OBVIOUS
<1>3. Holding("sshd") = {7}
  <2>1. \A i \in 1..17 : Tag(output[i]) = "sshd" <=> i = 7
    BY <1>1, <1>2
  <2>2. Holding("sshd") = {i \in 1..17 : Tag(output[i]) = "sshd"}
    BY <1>1, HoldingIsTagged
  <2>3. 7 \in 1..17
    OBVIOUS
  <2> QED BY <2>1, <2>2, <2>3
<1>4. Holding("authorized") = {12}
  <2>1. \A i \in 1..17 : Tag(output[i]) = "authorized" <=> i = 12
    BY <1>1, <1>2
  <2>2. Holding("authorized") = {i \in 1..17 : Tag(output[i]) = "authorized"}
    BY <1>1, HoldingIsTagged
  <2>3. 12 \in 1..17
    OBVIOUS
  <2> QED BY <2>1, <2>2, <2>3
<1>5. Holding("host key") = {13}
  <2>1. \A i \in 1..17 : Tag(output[i]) = "host key" <=> i = 13
    BY <1>1, <1>2
  <2>2. Holding("host key") = {i \in 1..17 : Tag(output[i]) = "host key"}
    BY <1>1, HoldingIsTagged
  <2>3. 13 \in 1..17
    OBVIOUS
  <2> QED BY <2>1, <2>2, <2>3
<1>6. Holding("client key") = {16}
  <2>1. \A i \in 1..17 : Tag(output[i]) = "client key" <=> i = 16
    BY <1>1, <1>2
  <2>2. Holding("client key") = {i \in 1..17 : Tag(output[i]) = "client key"}
    BY <1>1, HoldingIsTagged
  <2>3. 16 \in 1..17
    OBVIOUS
  <2> QED BY <2>1, <2>2, <2>3
<1> QED BY <1>1, <1>3, <1>4, <1>5, <1>6, JobImage

LEMMA ImageIsListed ==
  ASSUME CompanionInv, Finished, output # Absent
  PROVE  /\ output = Listed(Files) /\ (config.example => ~HasJob)
         /\ authorized \in Seq(Keys \cup {Comment, Bad})
         /\ ~config.example =>
              {authorized[j] : j \in 1..Len(authorized)}
                = {config.lines[j] : j \in 1..Len(config.lines)} \ {Comment}
<1>1. output = Listed(Files) /\ FieldsAllowed
  BY DEF CompanionInv, Built, Stages, Finished
<1>2. config.example => ~HasJob
  BY <1>1 DEF FieldsAllowed, HasJob
<1>3. ~config.example => line - 1 = Len(config.lines)
  BY LinesAreKnown DEF CompanionInv, Stages, Finished
<1> QED BY <1>1, <1>2, <1>3 DEF CompanionInv, KeysFound, ReadLines

LEMMA LoginFromLists ==
  ASSUME CompanionInv, Finished, output # Absent
  PROVE  LoginNeedsKeys
<1>1. output = Listed(Files) /\ (config.example => ~HasJob) /\ authorized \in Seq(Keys \cup {Comment, Bad})
  BY ImageIsListed
<1>2. CASE config.example
  <2>1. /\ Holding("sshd") = {3} /\ output[3] = Sshd("off")
        /\ \A i \in 1..Len(output) :
             output[i].data.is \in {<<>>, <<"sshd", "off">>, <<"network">>, <<"deployment">>, <<"site">>}
    BY <1>1, <1>2, ExampleHolds
  <2>2. {output[i].data.is[2] : i \in Holding("sshd")} = {"off"}
    BY <2>1, SshdSays
  <2> QED BY <1>2, <2>1, <2>2 DEF LoginNeedsKeys
<1>3. CASE ~config.example
  <2>1. \E s, a, h :
          /\ Holding("sshd") = {s} /\ output[s] = Sshd("on")
          /\ a \in Holding("authorized") /\ output[a] = LoginKeys /\ Holding("host key") = {h}
    <3>1. CASE HasJob
      <4> WITNESS 7, 12, 13
      <4> QED BY <1>1, <1>3, <3>1, JobHolds
    <3>2. CASE ~HasJob
      <4> WITNESS 4, 6, 7
      <4> QED BY <1>1, <1>3, <3>2, DeploymentHolds
    <3> QED BY <3>1, <3>2
  <2>2. PICK s, a, h :
          /\ Holding("sshd") = {s} /\ output[s] = Sshd("on")
          /\ a \in Holding("authorized") /\ output[a] = LoginKeys /\ Holding("host key") = {h}
    BY <2>1
  <2>3. {output[i].data.is[2] : i \in Holding("sshd")} = {"on"}
    BY <2>2, SshdSays
  <2>4. Cardinality(Holding("host key")) = 1
    BY <2>2, FS_Singleton
  <2>5. Tail(output[a].data.is) = authorized
    BY <1>1, <2>2, KeysBehindTag
  <2>6. {authorized[j] : j \in 1..Len(authorized)}
          = {config.lines[j] : j \in 1..Len(config.lines)} \ {Comment}
    BY <1>3, ImageIsListed
  <2>7. ASSUME NEW j \in 1..Len(authorized), NEW k \in 1..Len(authorized), j < k
        PROVE  First(authorized[j]) < First(authorized[k])
    <3>1. PICK x, y \in 1..(line - 1) : FirstAt(x, authorized[j]) /\ FirstAt(y, authorized[k])
      BY DEF CompanionInv, KeysFound
    <3>2. x < y
      BY <2>7, <3>1 DEF CompanionInv, KeysFound
    <3>3. x \in 1..Len(config.lines) /\ y \in 1..Len(config.lines) /\ Len(config.lines) \in Nat
      BY LinesAreKnown DEF CompanionInv, KeysFound, Stages
    <3>4. First(authorized[j]) = x /\ First(authorized[k]) = y
      BY <3>1, <3>3, FirstIs
    <3> QED BY <3>2, <3>4
  <2>8. \E b \in Holding("authorized") :
          LET keys == Tail(output[b].data.is)
          IN /\ {keys[j] : j \in 1..Len(keys)} =
                  {config.lines[j] : j \in 1..Len(config.lines)} \ {Comment}
             /\ \A j, k \in 1..Len(keys) : j < k => First(keys[j]) < First(keys[k])
    <3>1. a \in Holding("authorized")
      BY <2>2
    <3> WITNESS a \in Holding("authorized")
    <3> QED BY <2>5, <2>6, <2>7
  <2> QED BY <1>3, <2>2, <2>3, <2>4, <2>8 DEF LoginNeedsKeys
<1> QED BY <1>2, <1>3

-----------------------------------------------------------------------------
\* Where each entry goes.

LEMMA Parents ==
  /\ Len(EtcDir.name) = 1 /\ Len(RootDir.name) = 1
  /\ \A e \in {ConfigDir, DropbearDir, CrontabsDir, Marker, Site} : Front(e.name) = EtcDir.name
  /\ \A s : Front(Sshd(s).name) = ConfigDir.name
  /\ \A e \in {Fstab, Job, Network} : Front(e.name) = ConfigDir.name
  /\ \A e \in {LoginKeys, HostKey} : Front(e.name) = DropbearDir.name
  /\ Front(Schedule.name) = CrontabsDir.name /\ Front(SshDir.name) = RootDir.name
  /\ \A e \in {ClientKey, ServerKey} : Front(e.name) = SshDir.name
<1>1. /\ EtcDir.name = <<"etc">> /\ RootDir.name = <<"root">> /\ ConfigDir.name = <<"etc", "config">>
      /\ DropbearDir.name = <<"etc", "dropbear">> /\ CrontabsDir.name = <<"etc", "crontabs">>
      /\ SshDir.name = <<"root", ".ssh">>
  BY DEF EtcDir, ConfigDir, DropbearDir, CrontabsDir, RootDir, SshDir, Directory
<1>2. /\ \A s : Sshd(s).name = <<"etc", "config", "dropbear">>
      /\ Fstab.name = <<"etc", "config", "fstab">> /\ Job.name = <<"etc", "config", "ls420d-backup">>
      /\ Network.name = <<"etc", "config", "network">> /\ Schedule.name = <<"etc", "crontabs", "root">>
  BY DEF Sshd, Fstab, Job, Network, Schedule, File
<1>3. /\ LoginKeys.name = <<"etc", "dropbear", "authorized_keys">>
      /\ HostKey.name = <<"etc", "dropbear", "dropbear_ed25519_host_key">>
      /\ Marker.name = <<"etc", "ls420d-deployment">> /\ Site.name = <<"etc", "ls420d-site.uci">>
      /\ ClientKey.name = <<"root", ".ssh", "backup_ed25519">>
      /\ ServerKey.name = <<"root", ".ssh", "known_hosts">>
  BY DEF LoginKeys, HostKey, Marker, Site, ClientKey, ServerKey, File
<1>4. \A a, b, c : Front(<<a, b>>) = <<a>> /\ Front(<<a, b, c>>) = <<a, b>>
  BY FrontOfPath
<1> QED BY <1>1, <1>2, <1>3, <1>4

LEMMA DirectoriesAreEmpty ==
  /\ EtcDir.data = Empty /\ ConfigDir.data = Empty /\ DropbearDir.data = Empty
  /\ CrontabsDir.data = Empty /\ RootDir.data = Empty /\ SshDir.data = Empty
BY DEF EtcDir, ConfigDir, DropbearDir, CrontabsDir, RootDir, SshDir, Directory

LEMMA KeysArePrivate ==
  HostKey.mode = "0600" /\ ClientKey.mode = "0600" /\ DropbearDir.mode = "0700" /\ SshDir.mode = "0700"
<1>1. /\ Within(<<"etc", "dropbear", "dropbear_ed25519_host_key">>, <<"etc", "dropbear">>)
      /\ Within(<<"root", ".ssh", "backup_ed25519">>, <<"root", ".ssh">>)
  BY DEF Within
<1>2. /\ ModeOf(<<"etc", "dropbear", "dropbear_ed25519_host_key">>) = "0600"
      /\ ModeOf(<<"root", ".ssh", "backup_ed25519">>) = "0600"
  BY <1>1 DEF ModeOf
<1> QED BY <1>2 DEF HostKey, ClientKey, DropbearDir, SshDir, Directory, File

\* Entry i is created in the directory that entry j has created.
In(i, j) == j < i /\ output[j].data = Empty /\ output[j].name = Front(output[i].name)

LEMMA UnpacksInto ==
  ASSUME \A i \in 1..Len(output) : Len(output[i].name) > 1 => \E j \in 1..Len(output) : In(i, j),
         \A i \in Holding("host key") \cup Holding("client key") :
           output[i].mode = "0600" /\ \E j \in 1..Len(output) : In(i, j) /\ output[j].mode = "0700"
  PROVE  UnpacksPrivately
BY DEF UnpacksPrivately, In

LEMMA ExampleUnpacks ==
  ASSUME config.example, ~HasJob, output = Listed(Files), NEW S, authorized \in Seq(S)
  PROVE  UnpacksPrivately
<1>1. Len(output) = 6 /\ Len(output[1].name) = 1 /\ \A i \in {2, 5, 6} : In(i, 1)
  BY ExampleImage, Parents, DirectoriesAreEmpty DEF In
<1>2. \A i \in {3, 4} : In(i, 2)
  BY ExampleImage, Parents, DirectoriesAreEmpty DEF In
<1>3. \A i \in 1..6 : i = 1 \/ i \in {2, 5, 6} \/ i \in {3, 4}
  OBVIOUS
<1>4. \A i \in 1..6 : Len(output[i].name) > 1 => \E j \in 1..6 : In(i, j)
  <2> SUFFICES ASSUME NEW i \in 1..6, Len(output[i].name) > 1 PROVE \E j \in 1..6 : In(i, j)
    OBVIOUS
  <2>1. i # 1
    <3>1. Len(output[1].name) = 1 /\ ~(1 > 1)
      BY <1>1
    <3> QED BY <3>1, Zenon
  <2>2. In(i, 1) \/ In(i, 2)
    BY <2>1, <1>1, <1>2, <1>3
  <2>3. {1, 2} \subseteq 1..6
    OBVIOUS
  <2> QED BY <2>2, <2>3
<1> QED BY <1>1, <1>4, ExampleHolds, UnpacksInto

LEMMA DeploymentUnpacks ==
  ASSUME ~config.example, ~HasJob, output = Listed(Files), NEW S, authorized \in Seq(S)
  PROVE  UnpacksPrivately
<1>1. Len(output) = 9 /\ Len(output[1].name) = 1 /\ \A i \in {2, 3, 8, 9} : In(i, 1)
  BY DeploymentImage, Parents, DirectoriesAreEmpty DEF In
<1>2. (\A i \in {4, 5} : In(i, 2)) /\ (\A i \in {6, 7} : In(i, 3))
  BY DeploymentImage, Parents, DirectoriesAreEmpty DEF In
<1>3. \A i \in 1..9 : i = 1 \/ i \in {2, 3, 8, 9} \/ i \in {4, 5} \/ i \in {6, 7}
  OBVIOUS
<1>4. \A i \in 1..9 : Len(output[i].name) > 1 => \E j \in 1..9 : In(i, j)
  <2> SUFFICES ASSUME NEW i \in 1..9, Len(output[i].name) > 1 PROVE \E j \in 1..9 : In(i, j)
    OBVIOUS
  <2>1. i # 1
    <3>1. Len(output[1].name) = 1 /\ ~(1 > 1)
      BY <1>1
    <3> QED BY <3>1, Zenon
  <2>2. In(i, 1) \/ In(i, 2) \/ In(i, 3)
    BY <2>1, <1>1, <1>2, <1>3
  <2>3. {1, 2, 3} \subseteq 1..9
    OBVIOUS
  <2> QED BY <2>2, <2>3
<1>5. Holding("host key") = {7} /\ Holding("client key") = {}
  BY DeploymentHolds
<1>6. output[7].mode = "0600" /\ output[3].mode = "0700" /\ 3 \in 1..9
  BY DeploymentImage, KeysArePrivate
<1> QED BY <1>1, <1>2, <1>4, <1>5, <1>6, UnpacksInto

LEMMA JobUnpacks ==
  ASSUME ~config.example, HasJob, output = Listed(Files), NEW S, authorized \in Seq(S)
  PROVE  UnpacksPrivately
<1>1. /\ Len(output) = 17 /\ Len(output[1].name) = 1 /\ Len(output[5].name) = 1
      /\ \A i \in {2, 3, 4, 14, 15} : In(i, 1)
  BY JobImage, Parents, DirectoriesAreEmpty DEF In
<1>2. \A i \in {7, 8, 9, 10} : In(i, 2)
  BY JobImage, Parents, DirectoriesAreEmpty DEF In
<1>3. (\A i \in {12, 13} : In(i, 3)) /\ In(11, 4) /\ In(6, 5)
  BY JobImage, Parents, DirectoriesAreEmpty DEF In
<1>4. \A i \in {16, 17} : In(i, 6)
  BY JobImage, Parents, DirectoriesAreEmpty DEF In
<1>5. \A i \in 1..17 : \/ i \in {1, 5} \/ i \in {2, 3, 4, 14, 15} \/ i \in {7, 8, 9, 10} \/ i \in {12, 13}
                        \/ i = 11 \/ i = 6 \/ i \in {16, 17}
  OBVIOUS
<1>6. \A i \in 1..17 : Len(output[i].name) > 1 => \E j \in 1..17 : In(i, j)
  <2> SUFFICES ASSUME NEW i \in 1..17, Len(output[i].name) > 1 PROVE \E j \in 1..17 : In(i, j)
    OBVIOUS
  <2>1. i # 1 /\ i # 5
    <3>1. Len(output[1].name) = 1 /\ Len(output[5].name) = 1 /\ ~(1 > 1)
      BY <1>1
    <3> QED BY <3>1, Zenon
  <2>2. In(i, 1) \/ In(i, 2) \/ In(i, 3) \/ In(i, 4) \/ In(i, 5) \/ In(i, 6)
    BY <2>1, <1>1, <1>2, <1>3, <1>4, <1>5
  <2>3. {1, 2, 3, 4, 5, 6} \subseteq 1..17
    OBVIOUS
  <2> QED BY <2>2, <2>3
<1>7. Holding("host key") = {13} /\ Holding("client key") = {16}
  BY JobHolds
<1>8. /\ output[13].mode = "0600" /\ output[3].mode = "0700" /\ 3 \in 1..17
      /\ output[16].mode = "0600" /\ output[6].mode = "0700" /\ 6 \in 1..17
  BY JobImage, KeysArePrivate
<1> QED BY <1>1, <1>3, <1>4, <1>6, <1>7, <1>8, UnpacksInto

-----------------------------------------------------------------------------
\* A companion that a run has finished lets in whom the key file names and
\* nobody else, for every configuration: each key once, in the file's order; and
\* the public example has no key at all and its SSH server is off.
THEOREM CompanionLogin == CompanionSpec => []LoginNeedsKeys
<1>1. CompanionInit => CompanionInv
  BY NoLineRead DEF CompanionInit
<1>2. CompanionInv /\ [CompanionNext]_imageVars => CompanionInv'
  BY CompanionStep
<1>3. CompanionInv => LoginNeedsKeys
  BY LoginFromLists DEF LoginNeedsKeys
<1> QED BY <1>1, <1>2, <1>3, PTL DEF CompanionSpec

\* Whatever the configuration, the kernel finds each directory before what goes
\* into it, and creates each key private in a directory that is private already.
THEOREM CompanionPrivate == CompanionSpec => []UnpacksPrivately
<1>1. CompanionInit => CompanionInv
  BY NoLineRead DEF CompanionInit
<1>2. CompanionInv /\ [CompanionNext]_imageVars => CompanionInv'
  BY CompanionStep
<1>3. CompanionInv => UnpacksPrivately
  <2> SUFFICES ASSUME CompanionInv, Finished, output # Absent PROVE UnpacksPrivately
    BY DEF UnpacksPrivately
  <2>1. /\ output = Listed(Files) /\ (config.example => ~HasJob)
        /\ authorized \in Seq(Keys \cup {Comment, Bad})
    BY ImageIsListed
  <2> QED BY <2>1, ExampleUnpacks, DeploymentUnpacks, JobUnpacks
<1> QED BY <1>1, <1>2, <1>3, PTL DEF CompanionSpec

-----------------------------------------------------------------------------
\* The kernel: the segments read so far, and the extremes kept of them.

SegmentsRead == {s \in {vmlinux.headers[i] : i \in 1..index} : Counts(s)}

Judged == fpc \in {"overwritten", "covered", "accepted"}

Bounded == /\ vmlinux \in Kernels /\ uimage \in UImageSizes
           /\ index \in Nat
           /\ fpc \in {"open", "read", "error", "overwritten", "covered", "accepted"}
           /\ fpc = "open" => index = 0 /\ extent = Nothing
           /\ fpc \notin {"open", "error"} => index <= vmlinux.phnum /\ index <= Len(vmlinux.headers)

\* extent holds the extremes of the segments read so far, each of them reached.
Extremes == \/ extent = Nothing /\ SegmentsRead = {}
            \/ /\ extent \in [lowest: Nat, highest: Nat, file: Nat]
               /\ \A s \in SegmentsRead : /\ extent.lowest <= s.paddr
                                    /\ s.paddr + s.memsz <= extent.highest
                                    /\ s.paddr + s.filesz <= extent.file
               /\ \E s \in SegmentsRead : s.paddr = extent.lowest
               /\ \E s \in SegmentsRead : s.paddr + s.memsz = extent.highest
               /\ \E s \in SegmentsRead : s.paddr + s.filesz = extent.file

Verdict == Judged => /\ index = vmlinux.phnum /\ extent # Nothing
                     /\ fpc = "accepted" => WorstCaseEnd < InitrdLoad
                     /\ fpc = "covered" => WorstCaseEnd >= InitrdLoad
                     /\ fpc \in {"accepted", "covered"} => DecompressorEnd < InitrdLoad
                     /\ fpc = "overwritten" => DecompressorEnd >= InitrdLoad

FootprintInv == Bounded /\ (fpc # "error" => Extremes /\ Verdict)

LEMMA SegmentsRead_ ==
  ASSUME Bounded, fpc # "error"
  PROVE  SegmentsRead \subseteq Segments
<1>1. vmlinux.headers \in Seq(Segments)
  BY FootprintAssumption DEF Bounded
<1>2. \A i \in 1..index : i \in 1..Len(vmlinux.headers)
  BY <1>1 DEF Bounded
<1> QED
  BY <1>1, <1>2 DEF SegmentsRead

LEMMA NothingIsNoExtent == Nothing \notin [lowest: Nat, highest: Nat, file: Nat]
BY FootprintAssumption

\* One more header: widened by it if it counts, otherwise as before.
LEMMA ReadKeepsExtremes ==
  ASSUME FootprintInv, ReadSegment
  PROVE  FootprintInv'
<1> DEFINE s == vmlinux.headers[index + 1]
<1>1. Bounded /\ fpc = "read" /\ Extremes /\ index < vmlinux.phnum /\ index < Len(vmlinux.headers)
  BY DEF FootprintInv, ReadSegment
<1>2. vmlinux.headers \in Seq(Segments) /\ s \in Segments
  <2>1. vmlinux.headers \in Seq(Segments)
    BY <1>1, FootprintAssumption DEF Bounded
  <2> QED BY <2>1, <1>1 DEF Bounded
<1>3. Bounded'
  <2>1. vmlinux.phnum \in Nat
    BY <1>1, FootprintAssumption DEF Bounded
  <2> QED BY <1>1, <1>2, <2>1 DEF Bounded, ReadSegment
<1>4. SegmentsRead' = SegmentsRead \cup {t \in {s} : Counts(t)}
  <2>1. 1..(index + 1) = (1..index) \cup {index + 1}
    BY <1>1 DEF Bounded
  <2> QED BY <2>1 DEF SegmentsRead, ReadSegment, Counts
<1>5. SegmentsRead \subseteq Segments
  BY <1>1, SegmentsRead_
<1>6. Extremes'
  <2>1. CASE ~Counts(s)
    <3>1. extent' = extent /\ SegmentsRead' = SegmentsRead
      BY <2>1, <1>4 DEF ReadSegment
    <3> QED BY <3>1, <1>1 DEF Extremes
  <2>2. CASE Counts(s)
    <3>1. extent' = Widened(s) /\ SegmentsRead' = SegmentsRead \cup {s}
      BY <2>2, <1>4 DEF ReadSegment
    <3>2. s.paddr \in Nat /\ s.memsz \in Nat /\ s.filesz \in Nat
      BY <1>2 DEF Segments
    <3>3. CASE extent = Nothing
      <4>1. SegmentsRead = {}
        BY <3>3, <1>1, NothingIsNoExtent DEF Extremes
      <4>2. SegmentsRead' = {s}
        BY <3>1, <4>1
      <4>3. extent' = [lowest |-> s.paddr, highest |-> s.paddr + s.memsz, file |-> s.paddr + s.filesz]
        BY <3>1, <3>3 DEF Widened
      <4>4. /\ extent' \in [lowest: Nat, highest: Nat, file: Nat]
            /\ extent'.lowest = s.paddr /\ extent'.highest = s.paddr + s.memsz
            /\ extent'.file = s.paddr + s.filesz
        BY <4>3, <3>2
      <4> HIDE DEF s
      <4> QED BY <4>2, <4>4, <3>2 DEF Extremes
    <3>4. CASE extent # Nothing
      <4>1. /\ extent \in [lowest: Nat, highest: Nat, file: Nat]
            /\ \A t \in SegmentsRead : /\ extent.lowest <= t.paddr
                                 /\ t.paddr + t.memsz <= extent.highest
                                 /\ t.paddr + t.filesz <= extent.file
            /\ \E t \in SegmentsRead : t.paddr = extent.lowest
            /\ \E t \in SegmentsRead : t.paddr + t.memsz = extent.highest
            /\ \E t \in SegmentsRead : t.paddr + t.filesz = extent.file
        BY <3>4, <1>1 DEF Extremes
      <4>2. extent' = [lowest |-> Least(extent.lowest, s.paddr),
                       highest |-> Most(extent.highest, s.paddr + s.memsz),
                       file |-> Most(extent.file, s.paddr + s.filesz)]
        BY <3>1, <3>4 DEF Widened
      <4>3. /\ extent'.lowest = Least(extent.lowest, s.paddr)
            /\ extent'.highest = Most(extent.highest, s.paddr + s.memsz)
            /\ extent'.file = Most(extent.file, s.paddr + s.filesz)
        BY <4>2
      <4>4. extent' \in [lowest: Nat, highest: Nat, file: Nat]
        BY <4>1, <4>2, <3>2 DEF Least, Most
      <4> HIDE DEF s
      <4>5. \A t \in SegmentsRead' : /\ extent'.lowest <= t.paddr
                               /\ t.paddr + t.memsz <= extent'.highest
                               /\ t.paddr + t.filesz <= extent'.file
        BY <4>1, <4>3, <3>1, <3>2, <1>5 DEF Least, Most, Segments
      <4>6. /\ \E t \in SegmentsRead' : t.paddr = extent'.lowest
            /\ \E t \in SegmentsRead' : t.paddr + t.memsz = extent'.highest
            /\ \E t \in SegmentsRead' : t.paddr + t.filesz = extent'.file
        BY <4>1, <4>3, <3>1, <3>2 DEF Least, Most
      <4> QED BY <4>4, <4>5, <4>6 DEF Extremes
    <3> QED BY <3>3, <3>4
  <2> QED BY <2>1, <2>2
<1>7. Verdict'
  BY <1>1 DEF Verdict, Judged, ReadSegment
<1> QED BY <1>3, <1>6, <1>7 DEF FootprintInv

LEMMA FootprintStep ==
  ASSUME FootprintInv, [FootprintNext]_footprintVars
  PROVE  FootprintInv'
<1>1. CASE OpenVmlinux
  <2>1. Bounded /\ fpc = "open" /\ index = 0 /\ extent = Nothing /\ vmlinux \in Kernels
    BY <1>1 DEF OpenVmlinux, FootprintInv, Bounded
  <2>2. vmlinux.phnum \in Nat /\ Len(vmlinux.headers) \in Nat
    BY <2>1, FootprintAssumption
  <2>3. Bounded'
    BY <1>1, <2>1, <2>2 DEF OpenVmlinux, Bounded
  <2>4. SegmentsRead' = {} /\ extent' = Nothing
    BY <1>1, <2>1 DEF OpenVmlinux, SegmentsRead
  <2> QED BY <1>1, <2>3, <2>4 DEF OpenVmlinux, FootprintInv, Extremes, Verdict, Judged
<1>2. CASE ReadSegment
  BY <1>2, ReadKeepsExtremes
<1>3. CASE ReadFails
  BY <1>3 DEF ReadFails, FootprintInv, Bounded
<1>4. CASE Judge
  <2>1. Bounded /\ Extremes /\ Extremes'
    BY <1>4 DEF Judge, FootprintInv, Extremes, SegmentsRead
  <2>2. Bounded'
    BY <1>4, <2>1 DEF Judge, Bounded
  <2>3. /\ DecompressorEnd' = DecompressorEnd /\ WorstCaseEnd' = WorstCaseEnd
    BY <1>4 DEF Judge, DecompressorEnd, WorstCaseEnd, ImageSize, FootprintSize
  <2>4. DecompressorEnd \in Int /\ WorstCaseEnd \in Int
    <3>1. extent \in [lowest: Nat, highest: Nat, file: Nat]
      BY <1>4, <2>1 DEF Judge, Extremes
    <3>2. uimage \in Nat
      BY <2>1, FootprintAssumption DEF Bounded
    <3>3. ImageSize \in Int /\ FootprintSize \in Int /\ KernelPhys \in Int /\ Scratch \in Int
      BY <3>1, FootprintAssumption DEF ImageSize, FootprintSize
    <3>4. ImageSize + uimage + Scratch \in Int
      BY <3>2, <3>3
    <3> QED BY <3>2, <3>3, <3>4 DEF DecompressorEnd, WorstCaseEnd, Most
  <2>5. Verdict'
    BY <1>4, <2>3, <2>4, FootprintAssumption DEF Judge, Verdict, Judged
  <2> QED BY <2>1, <2>2, <2>5 DEF FootprintInv
<1>5. CASE UNCHANGED footprintVars
  BY <1>5 DEF footprintVars, FootprintInv, Bounded, Extremes, SegmentsRead, Verdict, Judged,
              DecompressorEnd, WorstCaseEnd, ImageSize, FootprintSize
<1> QED BY <1>1, <1>2, <1>3, <1>4, <1>5 DEF FootprintNext

\* What the verdict says of the extremes it says of every byte.
LEMMA VerdictFromExtremes ==
  ASSUME FootprintInv
  PROVE  VerdictIsMemoryMap
<1> SUFFICES ASSUME Judged PROVE VerdictIsMemoryMap
  BY DEF Judged, VerdictIsMemoryMap
<1>1. Bounded /\ Extremes /\ Verdict
  BY DEF Judged, FootprintInv
<1>2. /\ extent.lowest \in Nat /\ extent.highest \in Nat /\ extent.file \in Nat
      /\ \A s \in SegmentsRead : /\ extent.lowest <= s.paddr
                           /\ s.paddr + s.memsz <= extent.highest
                           /\ s.paddr + s.filesz <= extent.file
      /\ \E s \in SegmentsRead : s.paddr = extent.lowest
      /\ \E s \in SegmentsRead : s.paddr + s.memsz = extent.highest
      /\ \E s \in SegmentsRead : s.paddr + s.filesz = extent.file
  BY <1>1 DEF Extremes, Verdict
<1>3. Loaded = SegmentsRead
  BY <1>1 DEF Verdict, Loaded, Headers, SegmentsRead
<1>4. \A s \in SegmentsRead : /\ s.paddr \in Nat /\ s.memsz \in Nat \ {0} /\ s.filesz \in Nat
  BY <1>1, SegmentsRead_ DEF Segments, Judged, SegmentsRead, Counts
<1>5. Origin = extent.lowest
  <2>1. \E s \in SegmentsRead : s.paddr = extent.lowest /\ \A t \in SegmentsRead : s.paddr <= t.paddr
    BY <1>2
  <2> QED BY <2>1, <1>2, <1>3, <1>4 DEF Origin
<1>6. uimage \in Nat /\ KernelPhys \in Nat /\ InitrdLoad \in Nat /\ Scratch \in Nat /\ Scratch > 0
  BY <1>1, FootprintAssumption DEF Bounded
<1> DEFINE file == KernelPhys + extent.file - extent.lowest
           End(s) == KernelPhys + s.paddr - Origin + s.filesz
<1>7. ImageEnd = file
  <2>1. \A s \in SegmentsRead : End(s) \in Int /\ End(s) <= file
    BY <1>2, <1>4, <1>5, <1>6
  <2>2. PICK s \in SegmentsRead : End(s) = file
    BY <1>2, <1>4, <1>5, <1>6
  <2>3. file \in Int
    BY <1>2, <1>6
  <2>4. ImageEnd = CHOOSE e \in {End(t) : t \in SegmentsRead} : \A t \in SegmentsRead : End(t) <= e
    BY <1>3 DEF ImageEnd
  <2> HIDE DEF End, file
  <2>5. \A e \in {End(t) : t \in SegmentsRead} : (\A t \in SegmentsRead : End(t) <= e) => e = file
    BY <2>1, <2>2, <2>3
  <2>6. file \in {End(t) : t \in SegmentsRead} /\ \A t \in SegmentsRead : End(t) <= file
    BY <2>1, <2>2
  <2> QED BY <2>4, <2>5, <2>6
<1>8. DecompressorEnd = file + uimage + Scratch
  BY <1>2, <1>6 DEF DecompressorEnd, ImageSize
<1>9. WorstCaseEnd = Most(KernelPhys + extent.highest - extent.lowest, DecompressorEnd)
  BY <1>2, <1>6 DEF WorstCaseEnd, DecompressorEnd, ImageSize, FootprintSize, Most
<1>10. \A a \in Decompressed : a \in Int /\ a < file
  <2>1. ASSUME NEW s \in SegmentsRead, NEW a \in Place(s, s.filesz)
        PROVE  a \in Int /\ a < file
    BY <2>1, <1>2, <1>4, <1>5, <1>6 DEF Place
  <2> QED BY <2>1, <1>3 DEF Decompressed
<1>11. \A a \in Relocated : a \in Int /\ a < file + uimage + Scratch
  BY <1>2, <1>6, <1>7 DEF Relocated
<1>12. \A a \in Reserved : a \in Int /\ a < KernelPhys + extent.highest - extent.lowest
  <2>1. ASSUME NEW s \in SegmentsRead, NEW a \in Place(s, s.memsz)
        PROVE  a \in Int /\ a < KernelPhys + extent.highest - extent.lowest
    BY <2>1, <1>2, <1>4, <1>5, <1>6 DEF Place
  <2> QED BY <2>1, <1>3 DEF Reserved
<1>13. file + uimage + Scratch - 1 \in Relocated
  BY <1>2, <1>6, <1>7 DEF Relocated
<1>14. (KernelPhys + extent.highest - extent.lowest) - 1 \in Reserved
  <2>1. PICK s \in SegmentsRead : s.paddr + s.memsz = extent.highest
    BY <1>2
  <2>2. (KernelPhys + extent.highest - extent.lowest) - 1 = KernelPhys + s.paddr - Origin + (s.memsz - 1)
    BY <2>1, <1>2, <1>4, <1>5, <1>6
  <2>3. s.memsz - 1 \in 0..(s.memsz - 1)
    BY <1>4
  <2>4. KernelPhys + s.paddr - Origin + (s.memsz - 1) \in Place(s, s.memsz)
    BY <2>3 DEF Place
  <2> QED BY <2>2, <2>4, <1>3 DEF Reserved
<1>15. file \in Int /\ KernelPhys + extent.highest - extent.lowest \in Int
  BY <1>2, <1>6
<1> HIDE DEF file
<1>16. DecompressorEnd < InitrdLoad => ~Reaches(Decompressed \cup Relocated)
  BY <1>6, <1>8, <1>10, <1>11, <1>15 DEF Reaches
<1>17. DecompressorEnd >= InitrdLoad => Reaches(Decompressed \cup Relocated)
  BY <1>6, <1>8, <1>13, <1>15 DEF Reaches
<1>18. DecompressorEnd < InitrdLoad /\ WorstCaseEnd >= InitrdLoad => Reaches(Reserved)
  <2> DEFINE end == KernelPhys + extent.highest - extent.lowest
  <2>1. ASSUME DecompressorEnd < InitrdLoad, WorstCaseEnd >= InitrdLoad
        PROVE  end >= InitrdLoad
    BY <2>1, <1>6, <1>8, <1>9, <1>15 DEF Most
  <2>2. end - 1 \in Reserved
    BY <1>14
  <2>3. end \in Int
    BY <1>15
  <2> HIDE DEF end
  <2> QED BY <2>1, <2>2, <2>3, <1>6 DEF Reaches
<1>19. WorstCaseEnd < InitrdLoad => ~Reaches(Decompressed \cup Relocated \cup Reserved)
  <2>1. ASSUME WorstCaseEnd < InitrdLoad
        PROVE  /\ DecompressorEnd < InitrdLoad
               /\ KernelPhys + extent.highest - extent.lowest < InitrdLoad
    BY <2>1, <1>6, <1>8, <1>9, <1>15 DEF Most
  <2> QED BY <2>1, <1>6, <1>8, <1>10, <1>11, <1>12, <1>15 DEF Reaches
<1>20. fpc = "accepted" => ~Reaches(Decompressed \cup Relocated \cup Reserved)
  BY <1>1, <1>19 DEF Judged, Verdict
<1>21. fpc = "overwritten" => Reaches(Decompressed \cup Relocated)
  BY <1>1, <1>17 DEF Judged, Verdict
<1>22. fpc = "covered" => Reaches(Reserved) /\ ~Reaches(Decompressed \cup Relocated)
  BY <1>1, <1>16, <1>18 DEF Judged, Verdict
<1> QED BY <1>20, <1>21, <1>22 DEF VerdictIsMemoryMap

\* A kernel is accepted exactly if nothing of it, of the relocated zImage or of
\* the decompressor's scratch reaches the companion, whatever vmlinux holds.
THEOREM FootprintVerdict == FootprintSpec => []VerdictIsMemoryMap
<1>1. FootprintInit => FootprintInv
  BY DEF FootprintInit, FootprintInv, Bounded, Extremes, SegmentsRead, Verdict, Judged
<1>2. FootprintInv /\ [FootprintNext]_footprintVars => FootprintInv'
  BY FootprintStep
<1>3. FootprintInv => VerdictIsMemoryMap
  BY VerdictFromExtremes
<1> QED BY <1>1, <1>2, <1>3, PTL DEF FootprintSpec

=============================================================================
