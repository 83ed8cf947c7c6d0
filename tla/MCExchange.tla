------------------------------- MODULE MCExchange ------------------------------
(* Instances of Exchange for TLC: bytes of three bits.                         *)
EXTENDS Exchange

\* The file with the given codes
FileOf(codes) ==
  Pack(Entries(codes) \o Zeros(Padding(Len(Entries(codes)))))

\* Prefix codes: a bit more for every byte, up to more than two bytes; three bits
\* for each byte, so that nothing is ever padded; two to four bits; and the last
\* with codes of five bits that leave some sequences of bits without a meaning.
Unary == [i \in 1..8 |-> IF i = 8 THEN [j \in 1..7 |-> 1] ELSE [j \in 1..i |-> IF j = i THEN 0 ELSE 1]]
Fixed == [i \in 1..8 |-> BitsOf(8 - i)]
Mixed == <<<<1, 1, 1, 1>>, <<0, 0>>, <<1, 1, 0, 0>>, <<1, 1, 0, 1>>, <<0, 1>>, <<1, 0, 0>>,
           <<1, 0, 1>>, <<1, 1, 1, 0>>>>

Sparse == [i \in 1..8 |-> IF Len(Mixed[i]) = 4 THEN Append(Mixed[i], 0) ELSE Mixed[i]]

Files == {FileOf(Unary), FileOf(Fixed), FileOf(Mixed), FileOf(Sparse)}

\* Fresh memory: the end of a name, or any other byte
Fresh == {0, 6}

UpTo2 == UNION {[1..n -> Bytes] : n \in 0..2}
Foo == <<5, 0>>
Three == <<0, 3>>
Bar == <<7, 7, 1>>
Names == <<5, 0, 2, 0>>

\* A range in the file, and nothing behind its end; and the proxy's, which is longer
\* than the file (as are the 36 bytes that it asks for of a test.txt of 24).
Ranges == {<<1, 1, 2>>, <<2, 4, 0>>}
Guess == <<1, 0, 4>>
================================================================================
