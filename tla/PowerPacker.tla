----------------------------- MODULE PowerPacker -----------------------------
(***************************************************************************)
(* Loading a file that may be compressed with PowerPacker: sidTune's       *)
(* loadFile (sidtune.cpp) and the decoder depp (fformat/pp_.cpp).          *)
(*                                                                         *)
(* The packed data are read bit by bit, word by word from the end of the   *)
(* file to its beginning, and the output is written from its end to its    *)
(* beginning.  A round of the decoder is a run of bytes that is there as   *)
(* it is, or none, and a copy of bytes that have been written before.      *)
(*                                                                         *)
(* An operator named Wrong... is the definition below it with a mistake a  *)
(* programmer could make: what the properties have to notice.              *)
(***************************************************************************)
EXTENDS Naturals, Sequences, FiniteSets, SequencesExt

CONSTANTS
    ByteBits,       \* the bits of a byte: 8
    WordBits,       \* the bits of a word: 32
    LongBits,       \* the bits of a udword, in which bytes are counted: 32 or more
    ShortOffset,    \* the bits of an offset written the short way: 7
    File            \* the files that can be loaded

ASSUME WidthAssumption ==
    {ByteBits, WordBits, LongBits, ShortOffset} \subseteq Nat \ {0} /\ LongBits >= 3

\* How many values n bits have.
Values[n \in Nat] == IF n = 0 THEN 1 ELSE 2 * Values[n - 1]

Bit == {0, 1}
Byte == 0..(Values[ByteBits] - 1)
Long(n) == n % Values[LongBits]

\* The bits of a word in the order they are read, the lowest first.
Word == [1..WordBits -> Bit]

\* known:  the file starts with PP20 and one of the five efficiency tables
\* table:  the bits of an offset, for each length of a copy up to 5
\* words:  the words of the file in the order they are read: from the one
\*         before the last word to the table and the signature
\* rounds: what the file was made from, where a compressor made it
\* unused, length: what the last word tells: the bits of the first word that
\*         are not part of the data, and the size of the output
Packed(f) ==
    /\ f.known \in BOOLEAN
    /\ f.table \in [0..3 -> Nat \ {0}]
    /\ f.words \in Seq(Word) /\ Len(f.words) >= 2
    /\ f.unused \in 0..(WordBits - 1)
    /\ f.length \in Nat

ASSUME FileAssumption == \A f \in File : Packed(f)

VARIABLES
    file,
    pc,        \* what the bits being read are, or the result of loadFile
    need,      \* the bits ppRead has yet to read
    data,      \* what it has read
    current,   \* the current word
    bits,      \* the bits of it that have not been read
    left,      \* the words that have not been read
    count,     \* how many bytes have yet to be written
    offset,    \* how far behind the next byte the one to copy lies
    out,       \* what has been written, from the end of the output
    error,     \* globalError
    asked      \* the bytes all rounds wanted to write

reader == <<need, data, current, bits, left>>
writer == <<count, offset, out, asked>>
vars == <<file, pc, need, data, current, bits, left, count, offset, out, error, asked>>

\* plain: the file is taken as it is.
Ended == {"loaded", "refused", "plain"}

Zeros == [i \in 1..WordBits |-> 0]

Init ==
    /\ file \in File
    /\ pc = "open"
    /\ need = 0
    /\ data = 0
    /\ current = Zeros
    /\ bits = WordBits
    /\ left = file.words
    /\ count = 0
    /\ offset = 0
    /\ out = <<>>
    /\ error = FALSE
    /\ asked = 0

-----------------------------------------------------------------------------
(* Reading.                                                                *)

\* The word n places to the right.
Shift(word, n) == [i \in 1..WordBits |-> IF i + n <= WordBits THEN word[i + n] ELSE 0]

\* The next bits are to be a value of "what".
Read(what, n) == pc' = what /\ need' = n /\ data' = 0

\* What is missing is read as set bits.
WrongLoadWord(rest) ==
    IF left = <<>>
    THEN error' = TRUE /\ current' = [i \in 1..WordBits |-> 1] /\ UNCHANGED left
    ELSE current' = Head(left) /\ left' = Tail(left) /\ UNCHANGED error

\* bytesTOudword: where nothing is left, what remains of the word is kept.
LoadWord(rest) ==
    IF left = <<>>
    THEN error' = TRUE /\ current' = rest /\ UNCHANGED left
    ELSE current' = Head(left) /\ left' = Tail(left) /\ UNCHANGED error

\* The bits of the new word are not counted.
WrongReadBit ==
    /\ need > 0
    /\ UNCHANGED <<file, pc, writer>>
    /\ need' = need - 1
    /\ data' = 2 * data + current[1]
    /\ bits' = bits - 1
    /\ IF bits = 1 THEN LoadWord(Shift(current, 1))
       ELSE current' = Shift(current, 1) /\ UNCHANGED <<left, error>>

\* One turn of the loop of ppRead; a word that is used up is replaced at once.
ReadBit ==
    /\ need > 0
    /\ UNCHANGED <<file, pc, writer>>
    /\ need' = need - 1
    /\ data' = 2 * data + current[1]
    /\ IF bits = 1
       THEN bits' = WordBits /\ LoadWord(Shift(current, 1))
       ELSE bits' = bits - 1 /\ current' = Shift(current, 1) /\ UNCHANGED <<left, error>>

-----------------------------------------------------------------------------
(* Decoding.                                                               *)

\* What loadFile tells after depp has.  A file without a signature or a table is
\* no error; one that is unpacked to nothing is.
LoadFile(unpacked) ==
    CASE ~ file.known -> "plain"
      [] file.known /\ unpacked /\ file.length > 0 -> "loaded"
      [] OTHER -> "refused"

\* Up to the first word.
Open ==
    /\ pc = "open"
    /\ IF file.known
       THEN /\ Read("token", 1)
            /\ current' = Shift(Head(left), file.unused)
            /\ left' = Tail(left)
            /\ bits' = WordBits - file.unused
       ELSE pc' = LoadFile(FALSE) /\ UNCHANGED reader
    /\ UNCHANGED <<file, writer, error>>

\* The check at the end of a round.
EndRound ==
    IF ~ error' /\ Len(out') < file.length THEN Read("token", 1)
    ELSE pc' = LoadFile(~ error') /\ UNCHANGED <<need, data>>

\* A copy is read even where the output is complete.
WrongEndBytes == Read("length", 2)

\* A run of bytes is followed by a copy unless the output is complete.
EndBytes ==
    IF Len(out') < file.length THEN Read("length", 2) ELSE EndRound

\* The next of n bytes; where there is no room for it, that is an error.
MoreBytes(n) ==
    IF n = 0 THEN UNCHANGED error /\ EndBytes
    ELSE IF Len(out') < file.length THEN UNCHANGED error /\ Read("byte", ByteBits)
    ELSE error' = TRUE /\ EndBytes

\* A copy that does not fit is cut.
WrongMoreCopies(n) ==
    /\ UNCHANGED error
    /\ IF n > 0 /\ Len(out') < file.length
       THEN pc' = "copy" /\ UNCHANGED <<need, data>>
       ELSE EndRound

MoreCopies(n) ==
    IF n = 0 THEN UNCHANGED error /\ EndRound
    ELSE IF Len(out') < file.length
    THEN pc' = "copy" /\ UNCHANGED <<need, data, error>>
    ELSE error' = TRUE /\ EndRound

\* A bit that is not set announces bytes.
Token ==
    /\ pc = "token"
    /\ need = 0
    /\ UNCHANGED <<file, current, bits, left, offset, out, error, asked>>
    /\ IF data = 0 THEN Read("count", 2) ELSE EndBytes
    /\ count' = 0

Count ==
    /\ pc = "count"
    /\ need = 0
    /\ UNCHANGED <<file, current, bits, left, offset, out>>
    /\ IF data = 3
       THEN count' = Long(count + 3) /\ Read("count", 2) /\ UNCHANGED <<asked, error>>
       ELSE /\ count' = Long(count + data + 1)
            /\ asked' = asked + count'
            /\ MoreBytes(count')

ReadByte ==
    /\ pc = "byte"
    /\ need = 0
    /\ UNCHANGED <<file, current, bits, left, offset, asked>>
    /\ out' = Append(out, data)
    /\ count' = count - 1
    /\ MoreBytes(count')

ReadLength ==
    /\ pc = "length"
    /\ need = 0
    /\ count' = data + 2
    /\ IF data = 3 THEN Read("kind", 1) ELSE Read("offset", file.table[data])
    /\ UNCHANGED <<file, current, bits, left, offset, out, error, asked>>

Kind ==
    /\ pc = "kind"
    /\ need = 0
    /\ Read("long", IF data = 0 THEN ShortOffset ELSE file.table[3])
    /\ UNCHANGED <<file, current, bits, left, writer, error>>

StartCopy ==
    /\ asked' = asked + count'
    /\ MoreCopies(count')

ReadOffset ==
    /\ pc = "offset"
    /\ need = 0
    /\ offset' = data
    /\ UNCHANGED <<file, current, bits, left, count, out>>
    /\ StartCopy

LongOffset ==
    /\ pc = "long"
    /\ need = 0
    /\ offset' = data
    /\ Read("more", 3)
    /\ UNCHANGED <<file, current, bits, left, count, out, error, asked>>

MoreLength ==
    /\ pc = "more"
    /\ need = 0
    /\ count' = Long(count + data)
    /\ UNCHANGED <<file, current, bits, left, offset, out>>
    /\ IF data = 7 THEN Read("more", 3) /\ UNCHANGED <<asked, error>> ELSE StartCopy

\* What lies behind the output can be any byte.
Behind(n) == IF n < Len(out) THEN {out[Len(out) - n]} ELSE Byte

CopyByte ==
    /\ pc = "copy"
    /\ UNCHANGED <<file, current, bits, left, offset, asked>>
    /\ \E b \in Behind(offset) : out' = Append(out, b)
    /\ count' = count - 1
    /\ MoreCopies(count')

Decode ==
    \/ Open
    \/ ReadBit
    \/ Token
    \/ Count
    \/ ReadByte
    \/ ReadLength
    \/ Kind
    \/ ReadOffset
    \/ LongOffset
    \/ MoreLength
    \/ CopyByte

Spec == Init /\ [][Decode]_vars /\ WF_vars(Decode)

-----------------------------------------------------------------------------
(* What a compressor writes.                                               *)

\* n in k bits, the highest first.
Bits(n, k) == [i \in 1..k |-> (n \div Values[k - i]) % 2]

\* n in groups of k bits, of which only the last is not full.
Groups(n, k) ==
    LET full == Values[k] - 1
    IN  [i \in 1..(k * (n \div full)) |-> 1] \o Bits(n % full, k)

\* A round: the bytes, and the length and offset of the copy; length 0 is none.
BytesBits(bytes) ==
    IF bytes = <<>> THEN <<1>>
    ELSE <<0>> \o Groups(Len(bytes) - 1, 2)
           \o FlattenSeq([i \in 1..Len(bytes) |-> Bits(bytes[i], ByteBits)])

CopyBits(table, length, far) ==
    CASE length = 0 -> <<>>
      [] length \in 2..4 -> Bits(length - 2, 2) \o Bits(far, table[length - 2])
      [] OTHER -> <<1, 1>>
                  \o (IF far < Values[ShortOffset] THEN <<0>> \o Bits(far, ShortOffset)
                      ELSE <<1>> \o Bits(far, table[3]))
                  \o Groups(length - 5, 3)

RoundBits(table, round) ==
    BytesBits(round.bytes) \o CopyBits(table, round.length, round.far)

\* The output from its end, after the rounds.
Expanded(rounds) ==
    LET copied(o, round) ==
          LET c[n \in 0..round.length] ==
                IF n = 0 THEN o
                ELSE LET prefix == c[n - 1]
                     IN  Append(prefix, prefix[Len(prefix) - round.far])
          IN  c[round.length]
        t[i \in 0..Len(rounds)] ==
          IF i = 0 THEN <<>> ELSE copied(t[i - 1] \o rounds[i].bytes, rounds[i])
    IN  t[Len(rounds)]

\* The file: what is left of a word is skipped at the beginning.
Compressed(rounds, table, front) ==
    LET stream == FlattenSeq([i \in 1..Len(rounds) |-> RoundBits(table, rounds[i])])
        unused == (WordBits - (Len(stream) % WordBits)) % WordBits
        all == [i \in 1..unused |-> 1] \o stream
    IN  [known |-> TRUE, table |-> table, unused |-> unused,
         length |-> Len(Expanded(rounds)),
         words |-> [w \in 1..(Len(all) \div WordBits) |->
                      [i \in 1..WordBits |-> all[WordBits * (w - 1) + i]]] \o front,
         rounds |-> rounds]
-----------------------------------------------------------------------------
(* Properties.                                                             *)

\* Types: a file as described, counters that fit their width, a word with bits left.
TypeOK ==
    /\ Packed(file)
    /\ pc \in Ended \cup {"open", "token", "count", "byte", "length", "kind", "offset",
                        "long", "more", "copy"}
    /\ need \in Nat
    /\ data \in Nat
    /\ current \in Word
    /\ bits \in 1..WordBits
    /\ left \in Seq(Word)
    /\ count \in 0..(Values[LongBits] - 1)
    /\ offset \in Nat
    /\ out \in Seq(Byte)
    /\ error \in BOOLEAN
    /\ asked \in Nat

\* What a compressor has written is decoded to what it was made from, however
\* the data lie in their words, and is never taken for corrupt.
CompressedFilesLoad ==
    file.rounds # <<>> =>
      /\ pc # "refused"
      /\ pc = "loaded" => out = Expanded(file.rounds)

\* Whatever the file contains, nothing is written outside the output; and it is
\* loaded only if its words sufficed and the rounds wanted as many bytes as it says
\* it has.  What a copy reads may lie behind the output (CopyByte).
OutputFits ==
    /\ Len(out) <= file.length
    /\ pc = "loaded" => ~ error /\ Len(out) = file.length /\ asked = file.length

\* Every file is loaded or refused in the end, whatever its bits are: where
\* they run out the decoder does not go on for ever.
DecodingEnds == <>(pc \in Ended)
=============================================================================
