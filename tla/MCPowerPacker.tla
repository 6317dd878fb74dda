---------------------------- MODULE MCPowerPacker ----------------------------
(***************************************************************************)
(* Files for PowerPacker: words of four bits and bytes of two.  Every file *)
(* of up to two words of data, whatever they are, and the files that a     *)
(* compressor makes of up to two rounds.                                   *)
(***************************************************************************)
EXTENDS PowerPacker

MCTable == [i \in 0..3 |-> IF i < 2 THEN 1 ELSE 2]

\* A table and a signature.
MCFront == {<<[i \in 1..WordBits |-> i % 2], [i \in 1..WordBits |-> 1]>>}

MCAnyFile ==
    {[known |-> TRUE, table |-> MCTable, words |-> <<v>> \o w \o f, unused |-> u,
      length |-> n, rounds |-> <<>>] :
       v \in Word, w \in {<<>>} \cup {<<x>> : x \in Word}, f \in MCFront,
       u \in 0..(WordBits - 1), n \in 0..6}

MCPlainFile ==
    {[known |-> FALSE, table |-> MCTable, words |-> f, unused |-> 0, length |-> 0,
      rounds |-> <<>>] : f \in MCFront}

Bytes == {<<>>, <<1>>, <<2, 1>>, <<1, 2, 3>>, <<3, 0, 1, 2>>, <<1, 2, 3, 0, 1, 1, 2>>,
          <<0, 1, 2, 3, 2, 1, 0, 1>>}
Round(bytes) ==
    [bytes : {bytes}, length : {2, 3, 4, 5, 6, 11, 12, 13}, far : 0..3]

MCRounds ==
    UNION {{<<[bytes |-> b, length |-> 0, far |-> 0]>>} : b \in Bytes \ {<<>>}}
      \cup {<<r>> : r \in UNION {Round(b) : b \in Bytes \ {<<>>}}}
      \cup {<<r, s>> : r \in [bytes : {<<3, 0, 1>>}, length : {2, 6}, far : {0, 1}],
                      s \in [bytes : {<<>>, <<2, 1>>}, length : {2, 4, 5, 12}, far : {1, 3}]
                           \cup {[bytes |-> <<3, 1>>, length |-> 0, far |-> 0]}}

\* A copy takes what has been written, and its offset has room in the table.
Written(round, before) ==
    /\ round.far < before + Len(round.bytes) \/ round.length = 0
    /\ round.length \in 2..4 => round.far < Values[MCTable[round.length - 2]]

MCCompressed ==
    {Compressed(r, MCTable, f) :
       f \in MCFront,
       r \in {r \in MCRounds :
               /\ Written(r[1], 0)
               /\ Len(r) = 2 => Written(r[2], Len(r[1].bytes) + r[1].length)}}

MCFile == MCAnyFile \cup MCPlainFile \cup MCCompressed
=============================================================================
