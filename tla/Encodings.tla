----------------------------- MODULE Encodings -----------------------------
(***************************************************************************)
(* Writing a text file in one encoding and reading it in another           *)
(* (pipeline/encoding.ts): the codecs, the preambles, and the rule for     *)
(* which codec reads a file that starts with a mark.  Text is UTF-16 code  *)
(* units, as the program's strings are, and may hold half a pair.          *)
(***************************************************************************)
EXTENDS Naturals, Sequences, SequencesExt

CONSTANTS Texts  \* what is written

Question    == 63
Replacement == 65533
Singles == {"ascii", "latin1", "windows1252"}
Ids == {"utf8", "utf8bom", "utf16le", "utf16be", "utf32le", "utf32be"} \cup Singles

Preamble(id) ==
  CASE id = "utf8bom" -> <<239, 187, 191>>
    [] id = "utf16le" -> <<255, 254>>
    [] id = "utf16be" -> <<254, 255>>
    [] id = "utf32le" -> <<255, 254, 0, 0>>
    [] id = "utf32be" -> <<0, 0, 254, 255>>
    [] OTHER -> <<>>

VARIABLES
  text,  \* what was written
  id,    \* in which encoding
  file,  \* the bytes
  asked, \* the encoding asked for by the reader, or "none"
  shown  \* what the reader got

encodingVars == <<text, id, file, asked, shown>>

TypeOK ==
  /\ id \in Ids /\ asked \in Ids \cup {"none"}
  /\ \A i \in DOMAIN file : file[i] \in 0..255
  /\ \A i \in DOMAIN shown : shown[i] \in 0..65535

-----------------------------------------------------------------------------
High(u) == u \in 55296..56319
Low(u)  == u \in 56320..57343
At(s, i) == IF i \in DOMAIN s THEN s[i] ELSE 0
Mapped(s, Op(_)) == [i \in DOMAIN s |-> Op(s[i])]
\* The sequences f[1], f[2], ... one after the other.
Joined(f) == FoldLeft(LAMBDA a, b : a \o b, <<>>, f)

\* slip: the second half of a pair is taken as it comes.
UnitChecked(s, i) == IF High(s[i]) /\ ~Low(At(s, i + 1)) THEN Replacement ELSE s[i]

\* wellFormedUnitAt; decodeUtf16 pairs its units the same way.
WellFormedUnit(s, i) ==
  IF (High(s[i]) /\ ~Low(At(s, i + 1))) \/ (Low(s[i]) /\ ~High(At(s, i - 1)))
  THEN Replacement ELSE s[i]
WellFormed(s) == [i \in DOMAIN s |-> WellFormedUnit(s, i)]

\* Code points of a well-formed text, and back.
PairValue(h, l) == 65536 + (h - 55296) * 1024 + (l - 56320)
Points(s) ==
  Joined([i \in DOMAIN s |-> IF High(s[i]) THEN <<PairValue(s[i], s[i + 1])>>
                             ELSE IF Low(s[i]) THEN <<>> ELSE <<s[i]>>])
Units(p) == IF p < 65536 THEN <<p>>
            ELSE <<55296 + (p - 65536) \div 1024, 56320 + ((p - 65536) % 1024)>>

Little(bytes, little) == IF little THEN bytes ELSE Reverse(bytes)
Groups(bytes, n) == [k \in 1..(Len(bytes) \div n) |-> SubSeq(bytes, n * (k - 1) + 1, n * k)]
Odd(bytes, n) == IF Len(bytes) % n = 0 THEN <<>> ELSE <<Replacement>>

EncodeUtf16(s, little) == Joined(Mapped(WellFormed(s), LAMBDA u : Little(<<(u % 256), u \div 256>>, little)))
DecodeUtf16(bytes, little) ==
  WellFormed(Mapped(Groups(bytes, 2), LAMBDA g : Little(g, little)[1] + 256 * Little(g, little)[2]))
  \o Odd(bytes, 2)

EncodeUtf32(s, little) ==
  Joined(Mapped(Points(WellFormed(s)),
                LAMBDA p : Little(<<p % 256, (p \div 256) % 256, p \div 65536, 0>>, little)))
\* A value above 0x10FFFF, the sign bit included, is replaced.
Unit32(g) ==
  LET p == g[1] + 256 * g[2] + 65536 * g[3] IN
  IF g[4] # 0 \/ p > 1114111 \/ High(p) \/ Low(p) THEN <<Replacement>> ELSE Units(p)
DecodeUtf32(bytes, little) ==
  Joined(Mapped(Groups(bytes, 4), LAMBDA g : Unit32(Little(g, little)))) \o Odd(bytes, 4)

\* windows1252 differs from latin1 in 0x80..0x9F; the euro sign stands for them.
EncodeSingle(u, which) ==
  CASE which = "windows1252" /\ u = 8364 -> 128
    [] which = "windows1252" /\ u = 128  -> Question
    [] u < (IF which = "ascii" THEN 128 ELSE 256) -> u
    [] OTHER -> Question
DecodeSingle(b, which) ==
  CASE which = "windows1252" /\ b = 128 -> 8364
    [] which = "ascii" /\ b >= 128 -> Question
    [] OTHER -> b

\* TextEncoder and TextDecoder.
Utf8(p) ==
  CASE p < 128   -> <<p>>
    [] p < 2048  -> <<192 + p \div 64, 128 + (p % 64)>>
    [] p < 65536 -> <<224 + p \div 4096, 128 + ((p \div 64) % 64), 128 + (p % 64)>>
    [] OTHER     -> <<240 + p \div 262144, 128 + ((p \div 4096) % 64), 128 + ((p \div 64) % 64), 128 + (p % 64)>>
EncodeUtf8(s) == Joined(Mapped(Points(WellFormed(s)), Utf8))
Starts(bytes, i) == bytes[i] < 128 \/ bytes[i] >= 192
Utf8Size(b) == IF b < 128 THEN 1 ELSE IF b < 224 THEN 2 ELSE IF b < 240 THEN 3 ELSE 4
Utf8At(bytes, i) ==
  LET n == Utf8Size(bytes[i])
      c == [k \in 1..3 |-> At(bytes, i + k) % 64]
  IN IF \E k \in 1..(n - 1) : At(bytes, i + k) \notin 128..191 THEN <<Replacement>>
     ELSE CASE n = 1 -> <<bytes[i]>>
            [] n = 2 -> <<(bytes[i] - 192) * 64 + c[1]>>
            [] n = 3 -> <<(bytes[i] - 224) * 4096 + c[1] * 64 + c[2]>>
            [] OTHER -> IF bytes[i] > 244 THEN <<Replacement>>
                        ELSE Units((bytes[i] - 240) * 262144 + c[1] * 4096 + c[2] * 64 + c[3])
Continues(bytes, i) ==
  \E k \in 1..3 : i - k \in DOMAIN bytes /\ bytes[i - k] >= 192 /\ Utf8Size(bytes[i - k]) > k
    /\ \A j \in (i - k + 1)..i : bytes[j] \in 128..191
DecodeUtf8(bytes) ==
  Joined([i \in DOMAIN bytes |-> IF Starts(bytes, i) THEN Utf8At(bytes, i)
                                 ELSE IF Continues(bytes, i) THEN <<>> ELSE <<Replacement>>])

-----------------------------------------------------------------------------
\* encodeText and decodeBytes.
EncodeText(s, which) ==
  Preamble(which) \o
  CASE which \in {"utf8", "utf8bom"} -> EncodeUtf8(s)
    [] which \in Singles -> Mapped(s, LAMBDA u : EncodeSingle(u, which))
    [] which \in {"utf16le", "utf16be"} -> EncodeUtf16(s, which = "utf16le")
    [] OTHER -> EncodeUtf32(s, which = "utf32le")
DecodeBytes(bytes, which) ==
  CASE which \in {"utf8", "utf8bom"} -> DecodeUtf8(bytes)
    [] which \in Singles -> Mapped(bytes, LAMBDA b : DecodeSingle(b, which))
    [] which \in {"utf16le", "utf16be"} -> DecodeUtf16(bytes, which = "utf16le")
    [] OTHER -> DecodeUtf32(bytes, which = "utf32le")

\* slip: the two-byte marks are tried first.
SniffShortFirst(bytes) ==
  LET marks == SelectSeq(<<"utf16le", "utf16be", "utf32le", "utf32be", "utf8bom">>,
                         LAMBDA m : IsPrefix(Preamble(m), bytes))
  IN IF marks = <<>> THEN "none" ELSE Head(marks)

\* sniffBom: the four-byte marks first.
SniffBom(bytes) ==
  LET marks == SelectSeq(<<"utf32le", "utf32be", "utf8bom", "utf16le", "utf16be">>,
                         LAMBDA m : IsPrefix(Preamble(m), bytes))
  IN IF marks = <<>> THEN "none" ELSE Head(marks)

\* decodeFile; Get-Content with no -Encoding asks for utf8.
Reads(bytes, which) ==
  IF which # "utf8" /\ which \notin Singles /\ IsPrefix(Preamble(which), bytes) THEN which
  ELSE IF SniffBom(bytes) # "none" THEN SniffBom(bytes) ELSE which
DecodeFile(bytes, which) ==
  LET by == Reads(bytes, which)
      mark == IF IsPrefix(Preamble(by), bytes) THEN Len(Preamble(by)) ELSE 0
  IN DecodeBytes(SubSeq(bytes, mark + 1, Len(bytes)), by)

Init ==
  /\ text \in Texts /\ id \in Ids /\ file = EncodeText(text, id)
  /\ asked = "none" /\ shown = <<>>
Read(which) ==
  /\ asked = "none" /\ asked' = which /\ shown' = DecodeFile(file, which)
  /\ UNCHANGED <<text, id, file>>
Next == \E which \in Ids : Read(which)
Spec == Init /\ [][Next]_encodingVars

-----------------------------------------------------------------------------
Paired(s, i) == (High(s[i]) /\ Low(At(s, i + 1))) \/ (Low(s[i]) /\ High(At(s, i - 1)))
Repaired(s) == [i \in DOMAIN s |-> IF (High(s[i]) \/ Low(s[i])) /\ ~Paired(s, i) THEN Replacement ELSE s[i]]
Marked == Preamble(id) # <<>>
Holds(u, which) ==
  CASE which = "ascii" -> u < 128
    [] which = "latin1" -> u < 256
    [] which = "windows1252" -> u = 8364 \/ (u < 256 /\ u # 128)
    [] OTHER -> TRUE

(* What is written in an encoding is read back in it: every unit the encoding
   has, half a pair as the replacement character, and a question mark for each
   unit it has not - unless the text itself begins like another encoding's mark. *)
ReadsBack ==
  asked = id /\ (Marked \/ SniffBom(file) = "none") =>
    shown = IF id \in Singles THEN [i \in DOMAIN text |-> IF Holds(text[i], id) THEN text[i] ELSE Question]
            ELSE Repaired(text)

(* A file with a mark is read by its mark, whatever encoding was asked for, but
   for "FF FE 00 00": UTF-32 to all but a reader who asks for UTF-16, and so the
   UTF-16 file that begins with U+0000 is UTF-32 to a reader who asks otherwise. *)
MarkDecides ==
  asked # "none" /\ Marked /\ ~(id = "utf32le" /\ asked = "utf16le")
    /\ ~(id = "utf16le" /\ asked # "utf16le" /\ text # <<>> /\ Head(text) = 0)
  => shown = Repaired(text)

(* No reader ever gets half a pair. *)
NeverHalfAPair == Repaired(shown) = shown

EncodingsSound == ReadsBack /\ MarkDecides /\ NeverHalfAPair
=============================================================================
