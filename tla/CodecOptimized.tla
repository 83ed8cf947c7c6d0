----------------------------- MODULE CodecOptimized ----------------------------
(* The two codecs written to take the place of compression.c: the trie of      *)
(* compression_opt.c and the table of compression_optimized.c.  Both define    *)
(* compress_optimized and decompress_optimized, neither sends the byte with    *)
(* the number of padding bits, and no target of the Makefile builds them.      *)
EXTENDS Codec

(* compression_opt.c.  Its create_map_optimized reads the dictionary file as   *)
(* create_map does, as long as the file is complete.                           *)

Inner == -1  \* in the place of the byte, at an inner node of the trie

\* insert_trie of every code: a node for every prefix, and at the end of a code
\* its byte, the last one if several bytes have the same code.
Trie(codes) ==
  [node \in UNION {Prefixes(codes[i]) : i \in DOMAIN codes} |->
     LET bytes == {i - 1 : i \in {j \in DOMAIN codes : codes[j] = node}}
     IN  IF bytes = {} THEN Inner ELSE Max(bytes)]

\* Seeded fault: the walk goes on from a leaf, not from the root.
FollowOn(walk, node, trie) ==
  IF ~walk.valid \/ node \notin DOMAIN trie THEN [walk EXCEPT !.valid = FALSE]
  ELSE IF trie[node] = Inner THEN [walk EXCEPT !.node = node]
  ELSE [walk EXCEPT !.node = node, !.data = Append(@, trie[node])]

\* The walk through the trie comes to the given node: it has left the trie, goes
\* on from there, or has found a byte and starts at the root again.
Follow(walk, node, trie) ==
  IF ~walk.valid \/ node \notin DOMAIN trie THEN [walk EXCEPT !.valid = FALSE]
  ELSE IF trie[node] = Inner THEN [walk EXCEPT !.node = node]
  ELSE [walk EXCEPT !.node = <<>>, !.data = Append(@, trie[node])]

\* decompress_optimized: all bits are followed, those of the padding too, and bits
\* that leave the trie leave the data as it is.
DecompressTrie(data, trie) ==
  LET walk == FoldLeft(LAMBDA w, bit : Follow(w, Append(w.node, bit), trie),
                       [valid |-> TRUE, node |-> <<>>, data |-> <<>>], Unpack(data))
  IN  IF walk.valid THEN walk.data ELSE data

\* compress_optimized: the codes, and zeros up to a whole byte, if that is shorter.
CompressShorter(data, codes) ==
  LET bits == Encode(data, codes)
      packed == Pack(bits \o Zeros(Padding(Len(bits))))
  IN  IF Len(packed) < Len(data) THEN packed ELSE data

\* Every infinite sequence of bits is one of codes: both bits go on from each node
\* of the trie at which no code ends.
Complete(codes) ==
  LET trie == Trie(codes)
  IN  \A node \in DOMAIN trie : trie[node] = Inner =>
        {Append(node, 0), Append(node, 1)} \subseteq DOMAIN trie
--------------------------------------------------------------------------------
(* compression_optimized.c                                                     *)

\* create_map_optimized without a dictionary file: each byte is its own code.
Identity == [i \in 1..Power[Width] |-> BitsOf(i - 1)]

\* Seeded fault: the bits that are used are counted, not those that are left.
CountUsed(left) == BitsOf(Width - left)

\* What is written over the last byte when bits are left in it
Count(left) == BitsOf(left)

\* compress_optimized: the number of bits left is written over the last byte, in
\* the lowest bits, which are those that are left.
CompressCounting(data, codes) ==
  LET bits == Encode(data, codes)
      left == Padding(Len(bits))
      padded == bits \o Zeros(left)
      full == Len(padded) - Width
      last == [i \in 1..Width |-> IF 1 \in {padded[full + i], Count(left)[i]} THEN 1 ELSE 0]
  IN  Pack(IF left = 0 THEN bits ELSE SubSeq(padded, 1, full) \o last)

\* decompress_optimized: all bits are codes, the padding too.
DecompressAll(data, codes) == Decode(Unpack(data), codes)
================================================================================
