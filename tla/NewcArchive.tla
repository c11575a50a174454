----------------------------- MODULE NewcArchive -----------------------------
(***************************************************************************)
(* cpio_newc.py: the codec of the companion's archive.  An archive is the  *)
(* set of the fields written into it, <<offset, length, what it holds>>: a *)
(* header, a name, a payload; all other bytes are padding.  The mode of a  *)
(* header stands for all the numbers copied through (owner, device, mode). *)
(* A name is the sequence of its components.                               *)
(*                                                                         *)
(* decode() is given the archive alone or somewhere inside other data: it  *)
(* counts positions from the beginning of the data, alignment from start.  *)
(***************************************************************************)
EXTENDS Integers, Sequences

CONSTANTS Names,         \* paths, as the caller writes them
          SafeName,      \* safe_name(): the path without "./", or Unsafe
          NameSize,      \* bytes of a safe name, with its NUL
          Trailer, Unsafe,
          HeaderSize,    \* 110
          Modes, Texts   \* what the entries of NewcSpec hold

Empty == [is |-> <<>>, size |-> 0]
TrailerEntry == [name |-> Trailer, mode |-> "0", data |-> Empty]

ASSUME NewcAssumption ==
  /\ Trailer \in Names /\ Unsafe \notin Names
  /\ SafeName \in [Names -> Names \cup {Unsafe}]
  /\ \A n \in Names : SafeName[n] # Unsafe => SafeName[SafeName[n]] = SafeName[n]
  /\ SafeName[Trailer] = Trailer
  /\ NameSize \in [Names -> 1..4096]      \* callers stay below the limit of line 59
  /\ HeaderSize \in Nat \ {0}

VARIABLES
  entries,   \* what encode() is given
  apc,       \* "encode", "encoded", "decode", "decoded", "rejected", "refused"
  archive,   \* the fields written
  size,      \* len(result)
  whole,     \* history: nothing was cut off
  next,      \* the entry to encode
  start,     \* where the archive begins in the data decode() is given
  pos,
  decoded    \* the entries read back

newcVars == <<entries, apc, archive, size, whole, next, start, pos, decoded>>

NewcInit(given) == /\ entries = given
                   /\ apc = "encode" /\ archive = {} /\ size = 0 /\ whole = TRUE /\ next = 1
                   /\ start = 0 /\ pos = 0 /\ decoded = <<>>

Aligned(n, k) == n + ((-n) % k)
Field(at, len, holds) == IF len = 0 THEN {} ELSE {<<at, len, holds>>}

-----------------------------------------------------------------------------
\* encode(): the entries and the trailer.
Following == Append(entries, TrailerEntry)
Seen(list, n) == {SafeName[list[i].name] : i \in 1..(n - 1)}

EncodeEntry ==
  /\ apc = "encode" /\ next <= Len(Following)
  /\ LET e == Following[next]
         name == SafeName[e.name]
         nameAt == size + HeaderSize
         dataAt == Aligned(nameAt + NameSize[name], 4)
     IN /\ name \notin Seen(Following, next) \cup {Unsafe}
        /\ archive' = archive
             \cup Field(size, HeaderSize, [mode |-> e.mode, name |-> NameSize[name], data |-> e.data.size])
             \cup Field(nameAt, NameSize[name], name)
             \cup Field(dataAt, e.data.size, e.data)
        /\ size' = Aligned(dataAt + e.data.size, 4)
  /\ next' = next + 1
  /\ UNCHANGED <<entries, apc, whole, start, pos, decoded>>

\* Lines 34-36: an unsafe name, or one that was there, TRAILER!!! included.
EncodeRefuses == /\ apc = "encode" /\ next <= Len(Following)
                 /\ SafeName[Following[next].name] \in Seen(Following, next) \cup {Unsafe}
                 /\ apc' = "rejected"
                 /\ UNCHANGED <<entries, archive, size, whole, next, start, pos, decoded>>

EncodeEnds == /\ apc = "encode" /\ next > Len(Following)
              /\ size' = Aligned(size, 512)
              /\ apc' = "encoded"
              /\ UNCHANGED <<entries, archive, whole, next, start, pos, decoded>>

\* The archive loses everything from offset c on, on its way to decode().
Truncate(c) == /\ apc = "encoded" /\ c < size
               /\ archive' = {f \in archive : f[1] + f[2] <= c}
               /\ size' = c
               /\ whole' = FALSE
               /\ UNCHANGED <<entries, apc, next, start, pos, decoded>>

\* decode(data, s).
BeginDecode(s) == /\ apc = "encoded"
                  /\ start' = s /\ pos' = s
                  /\ apc' = "decode"
                  /\ UNCHANGED <<entries, archive, size, whole, next, decoded>>

-----------------------------------------------------------------------------
At(p, len) == {f[3] : f \in {g \in archive : g[1] = p - start /\ g[2] = len}}
Payload(p, len) == IF len = 0 THEN {Empty} ELSE At(p, len)

AlignedInData(p) == Aligned(p, 4)                                    \* mutant
AlignedInArchive(p) == p + ((-(p - start)) % 4)

HeadersHere == At(pos, HeaderSize)
DataAt(h) == AlignedInArchive(pos + HeaderSize + h.name)
EndOf(h) == AlignedInArchive(DataAt(h) + h.data)

\* The entries to be read behind a header: one, or none if something is missing.
Read(h) == {[name |-> n, mode |-> h.mode, data |-> d] :
              n \in At(pos + HeaderSize, h.name), d \in Payload(DataAt(h), h.data)}

DecodedNames == {decoded[i].name : i \in 1..Len(decoded)}
IsTrailer(e) == e.name = Trailer /\ e.data = Empty

DecodeEntry == /\ apc = "decode"
               /\ \E h \in HeadersHere : \E e \in Read(h) :
                    /\ e.name \notin DecodedNames \cup {Trailer}
                    /\ decoded' = Append(decoded, e)
                    /\ pos' = EndOf(h)
               /\ UNCHANGED <<entries, apc, archive, size, whole, next, start>>

DecodeEnds == /\ apc = "decode"
              /\ \E h \in HeadersHere : \E e \in Read(h) : IsTrailer(e) /\ pos' = EndOf(h)
              /\ apc' = "decoded"
              /\ UNCHANGED <<entries, archive, size, whole, next, start, decoded>>

\* Something is missing; a name was read before; the trailer has a payload.
DecodeRefuses == /\ apc = "decode"
                 /\ \A h \in HeadersHere : \A e \in Read(h) :
                      ~IsTrailer(e) /\ e.name \in DecodedNames \cup {Trailer}
                 /\ apc' = "refused"
                 /\ UNCHANGED <<entries, archive, size, whole, next, start, pos, decoded>>

Encode == EncodeEntry \/ EncodeRefuses \/ EncodeEnds
Decode == DecodeEntry \/ DecodeEnds \/ DecodeRefuses

\* The codec on its own, with whatever entries a caller may give it.
Entries == [name: Names, mode: Modes, data: {Empty} \cup [is: Texts, size: Nat \ {0}]]

NewcNext == \/ Encode \/ Decode
            \/ \E c \in Nat : Truncate(c)
            \/ \E s \in Nat : BeginDecode(s)

NewcSpec == (\E given \in Seq(Entries) : NewcInit(given)) /\ [][NewcNext]_newcVars

-----------------------------------------------------------------------------
Normal(e) == [e EXCEPT !.name = SafeName[e.name]]

\* What encode() accepts decode() reads back, the names without "./", wherever
\* in other data the archive lies and whatever the sizes leave to pad; it ends
\* where the padding to 512 begins, so that a caller can look for a second
\* archive there; no field is written over another one; and an archive that
\* lost its end is not taken for a shorter one (lines 38-47 and 54-80).
RoundTrip ==
  /\ apc = "refused" => ~whole
  /\ apc = "decoded" => /\ decoded = [i \in 1..Len(entries) |-> Normal(entries[i])]
                        /\ whole => Aligned(pos - start, 512) = size
  /\ \A f, g \in archive : f # g => f[1] + f[2] <= g[1] \/ g[1] + g[2] <= f[1]

=============================================================================
