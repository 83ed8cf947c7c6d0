---------------------------------- MODULE Codec --------------------------------
(* The variable-length code of compression.c and of its counterpart in the     *)
(* browser's proxy, decompressor.js.  A byte has Width bits (8 in the code);   *)
(* data is a sequence of bytes; codes are sequences of bits, the code of byte  *)
(* b at position b + 1.                                                        *)
EXTENDS Integers, Sequences, SequencesExt

CONSTANT Width  \* bits of a byte

ASSUME WidthAssumption == Width \in Nat \ {0}

\* 2^n
Power[n \in 0..Width] == IF n = 0 THEN 1 ELSE 2 * Power[n - 1]

Bytes == 0..Power[Width] - 1

\* Bytes and bits, the most significant bit first
BitsOf(byte) == [i \in 1..Width |-> (byte \div Power[Width - i]) % 2]
Unpack(data) == FlattenSeq([i \in DOMAIN data |-> BitsOf(data[i])])

Number(bits) == FoldLeft(LAMBDA n, bit : 2 * n + bit, 0, bits)
Pack(bits) == [i \in 1..Len(bits) \div Width |-> Number(SubSeq(bits, Width * (i - 1) + 1, Width * i))]

Zeros(n) == [i \in 1..n |-> 0]
--------------------------------------------------------------------------------
(* The dictionary file holds, for one byte after the other, the length of its  *)
(* code in Width bits and then the code.                                       *)

\* create_map
CreateMap(file) ==
  LET bits == Unpack(file)
      Entry(read, byte) ==
        LET length == Number(SubSeq(bits, read.count + 1, read.count + Width))
            from == read.count + Width
        IN  [count |-> from + length,
             codes |-> Append(read.codes, SubSeq(bits, from + 1, from + length))]
  IN  FoldLeft(Entry, [count |-> 0, codes |-> <<>>], [b \in 1..Power[Width] |-> b]).codes

\* Decompressor.loadDictionary: an entry that the file ends in has no code, where
\* create_map, which takes the file to be complete, reads on behind it.
LoadDictionary(file) ==
  LET bits == Unpack(file)
      Entry(read, byte) ==
        LET from == read.count + Width
            length == IF from > Len(bits) THEN 0 ELSE Number(SubSeq(bits, from - Width + 1, from))
        IN  [count |-> from + length,
             codes |-> Append(read.codes, IF from + length > Len(bits) THEN <<>>
                                          ELSE SubSeq(bits, from + 1, from + length))]
  IN  FoldLeft(Entry, [count |-> 0, codes |-> <<>>], [b \in 1..Power[Width] |-> b]).codes
--------------------------------------------------------------------------------
\* The bits that a payload of n bits leaves in its last byte.
Padding(n) == (Width - (n % Width)) % Width

\* The codes of the data, one after the other
Encode(data, codes) == FlattenSeq([i \in DOMAIN data |-> codes[data[i] + 1]])

\* compress: the codes, zeros up to a whole byte, and a byte with their number.
Compress(data, codes) ==
  LET bits == Encode(data, codes)
      left == Padding(Len(bits))
  IN  Append(Pack(bits \o Zeros(left)), left)

\* Seeded fault: the position of the code is taken for the byte.
DecodePosition(bits, codes) ==
  LET Next1(found, bit) ==
        LET code == Append(found.code, bit)
            byte == SelectInSeq(codes, LAMBDA c : c = code)
        IN  IF byte # 0 THEN [code |-> <<>>, data |-> Append(found.data, byte)]
                        ELSE [found EXCEPT !.code = code]
  IN  FoldLeft(Next1, [code |-> <<>>, data |-> <<>>], bits).data

\* Bits are collected until they are a code, and the first byte with it is taken.
Decode(bits, codes) ==
  LET Next1(found, bit) ==
        LET code == Append(found.code, bit)
            byte == SelectInSeq(codes, LAMBDA c : c = code)
        IN  IF byte # 0 THEN [code |-> <<>>, data |-> Append(found.data, byte - 1)]
                        ELSE [found EXCEPT !.code = code]
  IN  FoldLeft(Next1, [code |-> <<>>, data |-> <<>>], bits).data

\* The bits of the payload, by what the last byte says
TotalBits(data) == (Len(data) - 1) * Width - data[Len(data)]

\* decompress: every bit is counted, those of the last byte too, and the data is
\* replaced when the count equals the total, which a total of 0 never sees.
Decompress(data, codes) ==
  IF TotalBits(data) \in 1..Width * Len(data)
  THEN Decode(SubSeq(Unpack(data), 1, TotalBits(data)), codes)
  ELSE data

\* Decompressor.decompress
DecompressJS(data, codes) ==
  IF data = <<>> \/ TotalBits(data) <= 0 THEN <<>>
  ELSE Decode(SubSeq(Unpack(data), 1, TotalBits(data)), codes)
--------------------------------------------------------------------------------
(* Which files are dictionaries.  The decoders take the first code that fits,  *)
(* so they cannot tell codes apart that begin one another.                     *)

PrefixCode(codes) ==
  /\ codes \in Seq(Seq({0, 1})) /\ Len(codes) = Power[Width]
  /\ \A i \in DOMAIN codes : codes[i] # <<>>
  /\ \A i, j \in DOMAIN codes : i # j => ~IsPrefix(codes[i], codes[j])

\* What a dictionary file says of the codes, one entry after the other
Entries(codes) == FlattenSeq([i \in DOMAIN codes |-> BitsOf(Len(codes[i])) \o codes[i]])

IsDictionary(file, codes) ==
  /\ PrefixCode(codes) /\ \A i \in DOMAIN codes : Len(codes[i]) \in Bytes
  /\ IsPrefix(Entries(codes), Unpack(file))
================================================================================
