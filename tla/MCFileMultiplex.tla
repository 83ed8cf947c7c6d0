---------------------------- MODULE MCFileMultiplex ----------------------------
(* Instances of FileMultiplex for TLC.                                         *)
EXTENDS FileMultiplex, TLC

Bytes(name, offset, length) == [name |-> name, offset |-> offset, length |-> length]

\* Five bytes for one, two or three connections: there is a remainder of two.
FiveBytes == {Bytes("there", 1, 5)}

\* The second range ends one byte beyond a file of six.  With words of six bits, the
\* ends of the two that follow are 2 and 0.
AllRanges == FiveBytes \cup {Bytes("there", 2, 5), Bytes("there", 63, 3), Bytes("there", 1, 63),
                             Bytes("refused", 1, 5)}

\* A fourth request is followed where all that the blocks hold are for these.
Plain == FiveBytes \cup {Bytes("refused", 1, 5)}
FourthIsPlain ==
  requests <= 3 \/ \A b \in Blocks : block[b].state # "fresh" => block[b].range \in Plain

\* Workers, heap blocks and session ids are interchangeable.
Symmetry == Permutations(Workers) \cup Permutations(Blocks) \cup Permutations(Sessions)
================================================================================
