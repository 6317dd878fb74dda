--------------------------- MODULE PowerPackerProofs ---------------------------
(***************************************************************************)
(* Two things hold for all files and all widths of bytes, words and        *)
(* counters.  The decoder never writes outside its output, whatever the    *)
(* file contains: what it has written, what it has still to write and what *)
(* the rounds have asked for go together.  And it decodes what a           *)
(* compressor has written to what that was made from: at every bit it is   *)
(* where the format wants it to be, and so is the output.                  *)
(***************************************************************************)
EXTENDS PowerPacker, TLAPS, WellFoundedInduction, NaturalsInduction

-----------------------------------------------------------------------------
(* The values of n bits.                                                   *)

\* A set of naturals with a member has a least one.
LEMMA LeastNumber ==
    ASSUME NEW T, T \subseteq Nat, T # {}
    PROVE  \E x \in T : \A y \in T : ~ (y < x)
<1>1. IsWellFoundedOn(OpToRel(<, Nat), Nat)
  BY NatLessThanWellFounded
<1>2. \E x \in T : \A y \in T : <<y, x>> \notin OpToRel(<, Nat)
  BY <1>1, WFMin
<1> QED
  BY <1>2 DEF OpToRel

Doubling(f, n) == IF n = 0 THEN 1 ELSE 2 * f[n - 1]

\* There is a function that doubles up to n ...
LEMMA DoublingUpTo ==
    ASSUME NEW n \in Nat
    PROVE  \E f : f = [k \in 0..n |-> Doubling(f, k)]
<1> DEFINE Has(m) == \E f : f = [k \in 0..m |-> Doubling(f, k)]
           Bad == {m \in Nat : ~ Has(m)}
<1>1. SUFFICES ASSUME Bad # {} PROVE FALSE
  OBVIOUS
<1>2. PICK m \in Bad : \A k \in Bad : ~ (k < m)
  BY <1>1, LeastNumber, Bad \subseteq Nat
<1>3. CASE m = 0
  <2> DEFINE f == [k \in 0..0 |-> 1]
  <2>1. f = [k \in 0..0 |-> Doubling(f, k)]
    BY DEF Doubling
  <2> QED
    BY <1>2, <1>3, <2>1
<1>4. CASE m # 0
  <2>1. PICK g : g = [k \in 0..(m - 1) |-> Doubling(g, k)]
    BY <1>2, <1>4
  <2> DEFINE h == [k \in 0..m |-> IF k < m THEN g[k] ELSE Doubling(g, m)]
  <2>2. ASSUME NEW k \in 0..m PROVE h[k] = Doubling(h, k)
    <3>1. k > 0 => h[k - 1] = g[k - 1]
      OBVIOUS
    <3>2. Doubling(h, k) = Doubling(g, k)
      <4> HIDE DEF h
      <4> QED
        BY <3>1 DEF Doubling
    <3>3. k < m => g[k] = Doubling(g, k)
      BY <2>1
    <3>4. h[k] = Doubling(g, k)
      BY <3>3
    <3> QED
      BY <3>2, <3>4
  <2>3. h = [k \in 0..m |-> Doubling(h, k)]
    BY <2>2
  <2> QED
    BY <1>2, <2>3
<1> QED
  BY <1>3, <1>4

\* The values of up to n bits.
UpTo(n) == CHOOSE f : f = [k \in 0..n |-> Doubling(f, k)]

\* ... namely UpTo, whose values keep to the recursion ...
LEMMA UpToStep ==
    ASSUME NEW n \in Nat
    PROVE  \A k \in 0..n : UpTo(n)[k] = Doubling(UpTo(n), k)
<1>1. UpTo(n) = [k \in 0..n |-> Doubling(UpTo(n), k)]
  BY DoublingUpTo DEF UpTo
<1> QED
  BY <1>1

\* ... and do not depend on how far it goes.
LEMMA UpToOnce ==
    ASSUME NEW n \in Nat
    PROVE  \A k \in 0..n : UpTo(n)[k] = UpTo(n + 1)[k]
<1> DEFINE f == UpTo(n)
           g == UpTo(n + 1)
           Bad == {k \in 0..n : f[k] # g[k]}
<1>1. \A k \in 0..n : f[k] = Doubling(f, k) /\ g[k] = Doubling(g, k)
  <2>1. n + 1 \in Nat /\ \A k \in 0..n : k \in 0..(n + 1)
    OBVIOUS
  <2> QED
    BY <2>1, UpToStep
<1> HIDE DEF f, g
<1>2. SUFFICES ASSUME Bad # {} PROVE FALSE
  BY DEF f, g
<1>3. PICK k \in Bad : \A j \in Bad : ~ (j < k)
  BY <1>2, LeastNumber, Bad \subseteq Nat
<1>4. k > 0 => f[k - 1] = g[k - 1]
  BY <1>3
<1>5. Doubling(f, k) = Doubling(g, k)
  BY <1>4 DEF Doubling
<1> QED
  BY <1>1, <1>3, <1>5

\* One bit more doubles them.
LEMMA ValuesStep ==
    ASSUME NEW n \in Nat
    PROVE  Values[0] = 1 /\ Values[n + 1] = 2 * Values[n]
<1> DEFINE F == [k \in Nat |-> UpTo(k)[k]]
<1>1. ASSUME NEW k \in Nat PROVE F[k] = Doubling(F, k)
  <2>1. F[k] = Doubling(UpTo(k), k)
    BY UpToStep, k \in 0..k
  <2>2. k > 0 => F[k - 1] = UpTo(k)[k - 1]
    <3>1. SUFFICES ASSUME k > 0 PROVE F[k - 1] = UpTo(k)[k - 1]
      OBVIOUS
    <3>2. k - 1 \in Nat /\ (k - 1) + 1 = k /\ k - 1 \in 0..(k - 1)
      BY <3>1
    <3>3. UpTo(k - 1)[k - 1] = UpTo((k - 1) + 1)[k - 1]
      BY <3>2, UpToOnce
    <3> QED
      BY <3>2, <3>3
  <2> HIDE DEF F
  <2>3. Doubling(F, k) = Doubling(UpTo(k), k)
    BY <2>2 DEF Doubling
  <2> QED
    BY <2>1, <2>3
<1>2. F = [k \in Nat |-> Doubling(F, k)]
  BY <1>1
<1>3. Values = [k \in Nat |-> Doubling(Values, k)]
  BY <1>2 DEF Values, Doubling
<1>4. Values[0] = Doubling(Values, 0) /\ Values[n + 1] = Doubling(Values, n + 1)
  BY <1>3
<1>5. (n + 1) - 1 = n
  OBVIOUS
<1> QED
  BY <1>4, <1>5 DEF Doubling

\* A number of bits has some value, however few they are.
LEMMA ValuesType ==
    ASSUME NEW n \in Nat
    PROVE  Values[n] \in Nat \ {0}
<1> DEFINE Bad == {k \in Nat : Values[k] \notin Nat \ {0}}
<1>1. SUFFICES ASSUME Bad # {} PROVE FALSE
  OBVIOUS
<1>2. PICK m \in Bad : \A k \in Bad : ~ (k < m)
  BY <1>1, LeastNumber, Bad \subseteq Nat
<1>3. m # 0
  BY <1>2, ValuesStep
<1>4. m - 1 \in Nat /\ (m - 1) + 1 = m /\ Values[m - 1] \in Nat \ {0}
  BY <1>2, <1>3
<1> DEFINE k == m - 1
<1>5. k \in Nat /\ k + 1 = m /\ Values[k] \in Nat \ {0}
  BY <1>4
<1> HIDE DEF k
<1>6. Values[k + 1] = 2 * Values[k]
  BY <1>5, ValuesStep
<1> QED
  BY <1>2, <1>5, <1>6

\* A long integer holds the length of a short copy.
LEMMA LongHolds ==
    /\ Values[2] = 4
    /\ Values[LongBits] \in Nat /\ Values[LongBits] >= 8
    /\ \A n \in Nat : Long(n) \in 0..(Values[LongBits] - 1)
<1>1. Values[0] = 1 /\ Values[1] = 2 /\ Values[2] = 4 /\ Values[3] = 8
  <2>1. Values[0] = 1 /\ Values[0 + 1] = 2 * Values[0] /\ Values[1 + 1] = 2 * Values[1]
        /\ Values[2 + 1] = 2 * Values[2]
    BY ValuesStep
  <2> QED
    BY <2>1
<1>2. LongBits \in Nat /\ LongBits >= 3
  BY WidthAssumption
<1> DEFINE Bad == {k \in Nat : k >= 3 /\ ~ (Values[k] >= 8)}
<1>3. Bad = {}
  <2>1. SUFFICES ASSUME Bad # {} PROVE FALSE
    OBVIOUS
  <2>2. PICK m \in Bad : \A k \in Bad : ~ (k < m)
    BY <2>1, LeastNumber, Bad \subseteq Nat
  <2> DEFINE k == m - 1
  <2>3. m # 3
    BY <1>1, <2>2
  <2>4. k \in Nat /\ k + 1 = m /\ Values[k] >= 8
    BY <2>2, <2>3
  <2> HIDE DEF k
  <2>5. Values[k + 1] = 2 * Values[k] /\ Values[k] \in Nat
    BY <2>4, ValuesStep, ValuesType
  <2> QED
    BY <2>2, <2>4, <2>5
<1>4. Values[LongBits] \in Nat \ {0} /\ Values[LongBits] >= 8
  BY <1>2, <1>3, ValuesType
<1>5. \A n \in Nat : Long(n) \in 0..(Values[LongBits] - 1)
  BY <1>4 DEF Long
<1> QED
  BY <1>1, <1>4, <1>5

-----------------------------------------------------------------------------
(* What has been read and what has been written.                           *)

\* A value is no larger than its bits that have been read can make it; nothing
\* is read where no value is wanted.
Fits ==
    /\ pc \in Ended \cup {"open", "copy"} => need = 0
    /\ pc = "byte" => need <= ByteBits /\ data < Values[ByteBits - need]
    /\ pc = "length" => need <= 2 /\ data < Values[2 - need]

\* While there is no error, the rounds have asked for what has been written and
\* for what has yet to be; a byte is fetched only if there is room for it.
Room ==
    /\ Len(out) <= file.length
    /\ pc \in {"byte", "copy"} => count >= 1 /\ Len(out) < file.length
    /\ ~ error => asked = Len(out) + (IF pc \in {"byte", "copy"} THEN count ELSE 0)
    /\ pc = "loaded" => ~ error /\ Len(out) = file.length

Inv ==
    /\ TypeOK
    /\ Fits
    /\ Room
    /\ pc = "open" => left = file.words

Place == Ended \cup {"open", "token", "count", "byte", "length", "kind", "offset",
                     "long", "more", "copy"}

\* What a round leaves behind, wherever it goes on.
Onward ==
    /\ pc' \in Place \ {"open"}
    /\ need' \in Nat /\ data' \in Nat /\ error' \in BOOLEAN
    /\ Fits' /\ Room'

\* A round that asks for n bytes more has them to write.
LEMMA Summed ==
    ASSUME NEW before, NEW after, NEW all \in Nat, NEW n \in Nat, NEW failed, NEW sum,
           after = before, failed => all = before, sum = all + n
    PROVE  sum \in Nat /\ (failed => sum = after + n)
OBVIOUS

\* The end of a round keeps the invariant, whatever it is the end of.
LEMMA AfterRound ==
    ASSUME Inv, UNCHANGED file, out' \in Seq(Byte), Len(out') <= file.length,
           error' \in BOOLEAN, ~ error' => asked' = Len(out'), need = 0, EndRound
    PROVE  Onward
<1>1. file.length \in Nat /\ need \in Nat /\ data \in Nat /\ Len(out') \in Nat
  BY DEF Inv, TypeOK, Packed
<1>2. CASE ~ error' /\ Len(out') < file.length
  BY <1>1, <1>2 DEF EndRound, Read, Onward, Place, Ended, Fits, Room
<1>3. CASE error' \/ ~ (Len(out') < file.length)
  <2>1. pc' = LoadFile(~ error') /\ UNCHANGED <<need, data>>
    BY <1>3 DEF EndRound
  <2>2. pc' \in Ended /\ (pc' = "loaded" => ~ error')
    BY <2>1 DEF LoadFile, Ended
  <2>3. pc' = "loaded" => Len(out') = file.length
    BY <1>1, <1>3, <2>2
  <2> QED
    BY <1>1, <2>1, <2>2, <2>3 DEF Onward, Place, Ended, Fits, Room
<1> QED
  BY <1>2, <1>3

\* So does the end of the bytes of a round, whether a copy follows or not.
LEMMA AfterBytes ==
    ASSUME Inv, UNCHANGED file, out' \in Seq(Byte), Len(out') <= file.length,
           error' \in BOOLEAN, ~ error' => asked' = Len(out'), need = 0, EndBytes
    PROVE  Onward
<1>1. CASE Len(out') < file.length
  <2>1. pc' = "length" /\ need' = 2 /\ data' = 0
    BY <1>1 DEF EndBytes, Read
  <2>2. data' < Values[2 - need']
    BY <2>1, ValuesStep
  <2> QED
    BY <2>1, <2>2 DEF Onward, Place, Ended, Fits, Room
<1>2. CASE ~ (Len(out') < file.length)
  BY <1>2, AfterRound DEF EndBytes
<1> QED
  BY <1>1, <1>2

\* A run of n more bytes, all of which the rounds have asked for.
LEMMA WithBytes ==
    ASSUME Inv, UNCHANGED file, out' \in Seq(Byte), Len(out') <= file.length,
           NEW n \in Nat, count' = n, ~ error => asked' = Len(out') + n, need = 0, MoreBytes(n)
    PROVE  Onward
<1>1. file.length \in Nat /\ Len(out') \in Nat /\ error \in BOOLEAN /\ ByteBits \in Nat
  BY WidthAssumption DEF Inv, TypeOK, Packed
<1>2. CASE n = 0
  <2>1. error' = error /\ EndBytes
    BY <1>2 DEF MoreBytes
  <2>2. ~ error' => asked' = Len(out')
    BY <1>1, <1>2, <2>1
  <2> QED
    BY <1>1, <2>1, <2>2, AfterBytes
<1>3. CASE n # 0 /\ Len(out') < file.length
  <2>1. error' = error /\ pc' = "byte" /\ need' = ByteBits /\ data' = 0
    BY <1>3 DEF MoreBytes, Read
  <2>2. data' < Values[ByteBits - need']
    <3>1. ByteBits - ByteBits = 0 /\ Values[0] = 1
      BY <1>1, ValuesStep
    <3> QED
      BY <2>1, <3>1
  <2> QED
    BY <1>1, <1>3, <2>1, <2>2 DEF Onward, Place, Ended, Fits, Room
<1>4. CASE n # 0 /\ ~ (Len(out') < file.length)
  <2>1. error' = TRUE /\ EndBytes
    BY <1>4 DEF MoreBytes
  <2> QED
    BY <2>1, AfterBytes
<1> QED
  BY <1>2, <1>3, <1>4

\* So does the start of a copy, and its refusal.
LEMMA WithCopies ==
    ASSUME Inv, UNCHANGED file, out' \in Seq(Byte), Len(out') <= file.length,
           NEW n \in Nat, count' = n, ~ error => asked' = Len(out') + n, need = 0, MoreCopies(n)
    PROVE  Onward
<1>1. /\ file.length \in Nat /\ Len(out') \in Nat /\ error \in BOOLEAN
      /\ need \in Nat /\ data \in Nat
  BY DEF Inv, TypeOK, Packed
<1>2. CASE n = 0
  <2>1. error' = error /\ EndRound
    BY <1>2 DEF MoreCopies
  <2>2. ~ error' => asked' = Len(out')
    BY <1>1, <1>2, <2>1
  <2> QED
    BY <1>1, <2>1, <2>2, AfterRound
<1>3. CASE n # 0 /\ Len(out') < file.length
  <2>1. pc' = "copy" /\ UNCHANGED <<need, data, error>>
    BY <1>3 DEF MoreCopies
  <2> QED
    BY <1>1, <1>3, <2>1 DEF Onward, Place, Fits, Room
<1>4. CASE n # 0 /\ ~ (Len(out') < file.length)
  <2>1. error' = TRUE /\ EndRound
    BY <1>4 DEF MoreCopies
  <2> QED
    BY <2>1, AfterRound
<1> QED
  BY <1>2, <1>3, <1>4

\* Reading a bit leaves a word with bits of its own.
LEMMA ShiftType ==
    ASSUME NEW word \in Word, NEW n \in Nat
    PROVE  Shift(word, n) \in Word
<1>1. ASSUME NEW i \in 1..WordBits, i + n <= WordBits PROVE word[i + n] \in Bit
  <2>1. i + n \in 1..WordBits
    BY <1>1, WidthAssumption
  <2> QED
    BY <2>1 DEF Word
<1> QED
  BY <1>1 DEF Shift, Word, Bit

\* Nothing has been read or written.
LEMMA InvInit == Init => Inv
<1> SUFFICES ASSUME Init PROVE Inv
  OBVIOUS
<1>1. Packed(file)
  BY FileAssumption DEF Init
<1>2. Zeros \in Word /\ WordBits \in 1..WordBits
  BY WidthAssumption DEF Zeros, Word, Bit
<1>3. 0 \in 0..(Values[LongBits] - 1) /\ left \in Seq(Word) /\ file.length \in Nat
  BY <1>1, LongHolds DEF Init, Packed
<1>4. TypeOK
  <2>1. <<>> \in Seq(Byte)
    OBVIOUS
  <2>2. pc \in Ended \cup {"open"} /\ need = 0 /\ data = 0 /\ current \in Word
        /\ bits \in 1..WordBits /\ count \in 0..(Values[LongBits] - 1) /\ offset = 0
        /\ out \in Seq(Byte) /\ error \in BOOLEAN /\ asked = 0
    BY <1>2, <1>3, <2>1 DEF Init
  <2> QED
    BY <1>1, <1>3, <2>2 DEF TypeOK
<1>5. Fits /\ Room
  BY <1>3 DEF Init, Fits, Room
<1> QED
  BY <1>4, <1>5 DEF Init, Inv

\* Every bit, every value and every byte of the decoder keeps the invariant.
LEMMA InvStep == Inv /\ [Decode]_vars => Inv'
<1> SUFFICES ASSUME Inv, [Decode]_vars PROVE Inv'
  OBVIOUS
<1>1. TypeOK /\ Fits /\ Room /\ Packed(file)
  BY DEF Inv, TypeOK
<1>2. /\ need \in Nat /\ data \in Nat /\ current \in Word /\ bits \in 1..WordBits
      /\ left \in Seq(Word) /\ count \in Nat /\ offset \in Nat
      /\ out \in Seq(Byte) /\ Len(out) \in Nat /\ error \in BOOLEAN /\ asked \in Nat
      /\ file.length \in Nat /\ Len(out) <= file.length
      /\ WordBits \in Nat \ {0} /\ ByteBits \in Nat \ {0} /\ ShortOffset \in Nat
  <2>1. count \in 0..(Values[LongBits] - 1) /\ Values[LongBits] \in Nat
    BY <1>1, LongHolds DEF TypeOK
  <2>2. Len(out) \in Nat /\ out \in Seq(Byte)
    BY <1>1 DEF TypeOK
  <2>3. WordBits \in Nat \ {0} /\ ByteBits \in Nat \ {0} /\ ShortOffset \in Nat
    BY WidthAssumption
  <2>4. count \in Nat
    BY <2>1
  <2>5. file.length \in Nat /\ Len(out) <= file.length
    BY <1>1 DEF Packed, Room
  <2> QED
    BY <1>1, <2>2, <2>3, <2>4, <2>5 DEF TypeOK
<1>3. ASSUME UNCHANGED <<file, current, bits, left>>, Onward, offset' \in Nat,
             count' \in 0..(Values[LongBits] - 1), out' \in Seq(Byte), asked' \in Nat
      PROVE  Inv'
  <2>1. TypeOK'
    BY <1>1, <1>2, <1>3 DEF TypeOK, Onward, Place
  <2> QED
    BY <1>3, <2>1 DEF Inv, Onward
<1>4. ASSUME NEW rest \in Word, LoadWord(rest)
      PROVE  current' \in Word /\ left' \in Seq(Word) /\ error' \in BOOLEAN
             /\ (error => error')
  <2>1. CASE left = <<>>
    BY <1>2, <1>4, <2>1 DEF LoadWord
  <2>2. CASE left # <<>>
    <3>1. Head(left) \in Word /\ Tail(left) \in Seq(Word)
      BY <1>2, <2>2
    <3> QED
      BY <1>2, <1>4, <2>2, <3>1 DEF LoadWord
  <2> QED
    BY <2>1, <2>2
<1>5. CASE Open
  <2>1. pc = "open" /\ left = file.words /\ UNCHANGED <<file, count, offset, out, asked, error>>
    BY <1>5 DEF Open, writer, Inv
  <2>2. CASE file.known
    <3>1. /\ pc' = "token" /\ need' = 1 /\ data' = 0 /\ left' = Tail(left)
          /\ current' = Shift(Head(left), file.unused) /\ bits' = WordBits - file.unused
      BY <1>5, <2>2 DEF Open, Read
    <3>2. Head(left) \in Word /\ left' \in Seq(Word)
      BY <1>1, <2>1, <3>1 DEF Packed
    <3>3. file.unused \in 0..(WordBits - 1)
      BY <1>1 DEF Packed
    <3>4. current' \in Word /\ bits' \in 1..WordBits
      <4>1. file.unused \in Nat /\ bits' \in 1..WordBits
        BY <1>2, <3>1, <3>3
      <4>2. Shift(Head(left), file.unused) \in Word
        BY <3>2, <4>1, ShiftType
      <4> QED
        BY <3>1, <4>1, <4>2
    <3>5. TypeOK'
      BY <1>1, <2>1, <3>1, <3>2, <3>4 DEF TypeOK
    <3>6. Fits' /\ Room'
      BY <1>1, <2>1, <3>1 DEF Fits, Room, Ended
    <3> QED
      BY <3>1, <3>5, <3>6 DEF Inv
  <2>3. CASE ~ file.known
    <3>1. pc' = "plain" /\ UNCHANGED <<need, data, current, bits, left>>
      BY <1>5, <2>3 DEF Open, LoadFile, reader
    <3>2. TypeOK'
      BY <1>1, <2>1, <3>1 DEF TypeOK, Ended
    <3>3. Fits' /\ Room'
      BY <1>1, <2>1, <3>1 DEF Fits, Room
    <3> QED
      BY <3>1, <3>2, <3>3 DEF Inv
  <2> QED
    BY <2>2, <2>3
<1>6. CASE ReadBit
  <2>1. need > 0 /\ need' = need - 1 /\ data' = 2 * data + current[1]
        /\ UNCHANGED <<file, pc, count, offset, out, asked>>
    BY <1>6 DEF ReadBit, writer
  <2>2. Shift(current, 1) \in Word /\ current[1] \in {0, 1}
    <3>1. current[1] \in {0, 1}
      BY <1>2 DEF Word, Bit
    <3>2. current \in Word /\ 1 \in Nat
      BY <1>2
    <3>3. Shift(current, 1) \in Word
      BY <3>2, ShiftType
    <3> QED
      BY <3>1, <3>3
  <2>3. /\ current' \in Word /\ left' \in Seq(Word) /\ error' \in BOOLEAN /\ (error => error')
        /\ bits' \in 1..WordBits
    <3>1. CASE bits = 1
      BY <1>2, <1>4, <1>6, <2>2, <3>1 DEF ReadBit
    <3>2. CASE bits # 1
      BY <1>2, <1>6, <2>2, <3>2 DEF ReadBit
    <3> QED
      BY <3>1, <3>2
  <2>4. need' \in Nat /\ data' \in Nat
    BY <1>2, <2>1, <2>2
  <2>5. ASSUME NEW width \in Nat, need <= width, data < Values[width - need]
        PROVE  need' <= width /\ data' < Values[width - need']
    <3> DEFINE k == width - need
    <3>1. k \in Nat /\ k + 1 = width - need'
      BY <1>2, <2>1, <2>5
    <3>2. Values[k] \in Nat /\ data < Values[k]
      BY <2>5, <3>1, ValuesType
    <3> HIDE DEF k
    <3>3. Values[k + 1] = 2 * Values[k]
      BY <3>1, ValuesStep
    <3>4. data' < Values[k + 1]
      BY <1>2, <2>1, <2>2, <3>2, <3>3
    <3> QED
      BY <1>2, <2>1, <2>5, <3>1, <3>4
  <2>6. pc # "open"
    <3>1. pc = "open" => need = 0
      BY <1>1 DEF Fits
    <3> QED
      BY <2>1, <3>1
  <2>7. TypeOK'
    BY <1>1, <2>1, <2>3, <2>4 DEF TypeOK
  <2>8. Fits'
    <3>1. pc' \notin Ended \cup {"open", "copy"}
      BY <1>1, <2>1 DEF Fits
    <3>2. pc = "byte" => need' <= ByteBits /\ data' < Values[ByteBits - need']
      BY <1>1, <1>2, <2>5 DEF Fits
    <3>3. pc = "length" => need' <= 2 /\ data' < Values[2 - need']
      BY <1>1, <2>5 DEF Fits
    <3> QED
      BY <2>1, <3>1, <3>2, <3>3 DEF Fits
  <2>9. Room'
    <3>1. pc # "loaded"
      BY <1>1, <2>1 DEF Fits, Ended
    <3> QED
      BY <1>1, <2>1, <2>3, <3>1 DEF Room
  <2> QED
    BY <2>1, <2>6, <2>7, <2>8, <2>9 DEF Inv
<1>7. ASSUME pc' \in {"count", "kind", "offset", "long", "more"}, need' \in Nat, data' = 0,
             UNCHANGED <<file, out, error, asked>>,
             pc \notin {"byte", "copy"}
      PROVE  Onward
  <2>1. Fits'
    BY <1>7 DEF Fits, Ended
  <2>2. Room'
    BY <1>1, <1>7 DEF Room
  <2> QED
    BY <1>2, <1>7, <2>1, <2>2 DEF Onward, Place
<1>8. /\ Values[LongBits] \in Nat /\ Values[LongBits] >= 8
      /\ \A n \in Nat : Long(n) \in 0..(Values[LongBits] - 1) /\ Long(n) \in Nat
  <2>1. \A n \in Nat : Long(n) \in 0..(Values[LongBits] - 1)
    BY LongHolds
  <2>2. Values[LongBits] \in Nat /\ Values[LongBits] >= 8
    BY LongHolds
  <2> QED
    BY <2>1, <2>2
<1>9. ~ error /\ pc \notin {"byte", "copy"} => asked = Len(out)
  BY <1>1, <1>2 DEF Room
<1>10. CASE Token
  <2>1. pc = "token" /\ need = 0 /\ UNCHANGED <<file, current, bits, left, offset, out, error, asked>>
        /\ count' = 0
    BY <1>10 DEF Token
  <2>2. CASE data = 0
    <3>1. pc' = "count" /\ need' = 2 /\ data' = 0
      BY <1>10, <2>2 DEF Token, Read
    <3>2. Onward
      BY <1>7, <2>1, <3>1
    <3> QED
      BY <1>2, <1>3, <1>8, <2>1, <3>2
  <2>3. CASE data # 0
    <3>1. EndBytes
      BY <1>10, <2>3 DEF Token
    <3>2. ~ error' => asked' = Len(out')
      BY <1>9, <2>1
    <3>3. Onward
      BY <1>2, <2>1, <3>1, <3>2, AfterBytes
    <3> QED
      BY <1>2, <1>3, <1>8, <2>1, <3>3
  <2> QED
    BY <2>2, <2>3
<1>11. CASE Count
  <2>1. pc = "count" /\ need = 0 /\ UNCHANGED <<file, current, bits, left, offset, out>>
    BY <1>11 DEF Count
  <2>2. CASE data = 3
    <3>1. count' = Long(count + 3) /\ pc' = "count" /\ need' = 2 /\ data' = 0
          /\ UNCHANGED <<asked, error>>
      BY <1>11, <2>2 DEF Count, Read
    <3>2. Onward
      BY <1>7, <2>1, <3>1
    <3>3. count + 3 \in Nat
      BY <1>2
    <3> QED
      BY <1>2, <1>3, <1>8, <2>1, <3>1, <3>2, <3>3
  <2>3. CASE data # 3
    <3>1. count' = Long(count + data + 1) /\ asked' = asked + count' /\ MoreBytes(count')
      BY <1>11, <2>3 DEF Count
    <3>2. count + data + 1 \in Nat
      BY <1>2
    <3>3. count' \in 0..(Values[LongBits] - 1) /\ count' \in Nat
      <4> DEFINE n == count + data + 1
      <4>1. n \in Nat /\ count' = Long(n)
        BY <3>1, <3>2
      <4> HIDE DEF n
      <4> QED
        BY <1>8, <4>1
    <3>4. asked' \in Nat /\ (~ error => asked' = Len(out') + count')
      <4>1. asked' = asked + count' /\ Len(out') = Len(out) /\ (~ error => asked = Len(out))
        BY <1>9, <2>1, <3>1
      <4>2. asked \in Nat /\ count' \in Nat
        BY <1>2, <3>3
      <4> QED
        BY <4>1, <4>2, Summed
    <3>5. Onward
      BY <1>2, <2>1, <3>1, <3>3, <3>4, WithBytes
    <3> QED
      BY <1>2, <1>3, <2>1, <3>3, <3>4, <3>5
  <2> QED
    BY <2>2, <2>3
<1>12. ASSUME UNCHANGED <<file, current, bits, left, offset, asked>>, pc \in {"byte", "copy"},
              need = 0, NEW b \in Byte, out' = Append(out, b), count' = count - 1,
              MoreBytes(count') \/ MoreCopies(count')
       PROVE  Inv'
  <2>1. count >= 1 /\ Len(out) < file.length /\ (~ error => asked = Len(out) + count)
    BY <1>1, <1>12 DEF Room
  <2>2. out' \in Seq(Byte) /\ Len(out') = Len(out) + 1
    BY <1>2, <1>12
  <2>3. count' \in 0..(Values[LongBits] - 1) /\ count' \in Nat
    <3>1. count \in 0..(Values[LongBits] - 1)
      BY <1>1 DEF TypeOK
    <3>2. Values[LongBits] \in Nat /\ count' = count - 1
      BY <1>8, <1>12
    <3> QED
      BY <2>1, <3>1, <3>2
  <2>4. Len(out') <= file.length /\ (~ error => asked' = Len(out') + count')
    BY <1>2, <1>12, <2>1, <2>2
  <2>5. Onward
    BY <1>12, <2>2, <2>3, <2>4, WithBytes, WithCopies
  <2> QED
    BY <1>2, <1>3, <1>12, <2>2, <2>3, <2>5
<1>13. CASE ReadByte
  <2>1. data \in Byte
    <3>1. need = 0 /\ data < Values[ByteBits - need] /\ ByteBits - 0 = ByteBits
      BY <1>1, <1>2, <1>13 DEF ReadByte, Fits
    <3>2. Values[ByteBits] \in Nat
      BY <1>2, ValuesType
    <3> QED
      BY <1>2, <3>1, <3>2 DEF Byte
  <2> QED
    BY <1>12, <1>13, <2>1 DEF ReadByte
<1>14. CASE CopyByte
  <2>1. pc = "copy" /\ need = 0
    BY <1>1, <1>14 DEF CopyByte, Fits
  <2>2. Behind(offset) \subseteq Byte
    <3>1. CASE offset < Len(out)
      <4>1. Len(out) - offset \in 1..Len(out)
        BY <1>2, <3>1
      <4> QED
        BY <1>2, <3>1, <4>1 DEF Behind
    <3>2. CASE ~ (offset < Len(out))
      BY <3>2 DEF Behind
    <3> QED
      BY <3>1, <3>2
  <2> QED
    BY <1>12, <1>14, <2>1, <2>2 DEF CopyByte
<1>15. CASE ReadLength
  <2>1. pc = "length" /\ need = 0 /\ count' = data + 2
        /\ UNCHANGED <<file, current, bits, left, offset, out, error, asked>>
    BY <1>15 DEF ReadLength
  <2>2. data \in 0..3
    <3>1. data < Values[2 - need]
      BY <1>1, <2>1 DEF Fits
    <3>2. 2 - need = 2
      BY <2>1
    <3> QED
      BY <1>2, <3>1, <3>2, LongHolds
  <2>3. pc' \in {"kind", "offset"} /\ data' = 0 /\ need' \in Nat
    <3>1. file.table \in [0..3 -> Nat \ {0}]
      BY <1>1 DEF Packed
    <3> QED
      BY <1>15, <2>2, <3>1 DEF ReadLength, Read
  <2>4. Onward
    BY <1>7, <2>1, <2>3
  <2>5. count' \in 0..(Values[LongBits] - 1)
    BY <1>8, <2>1, <2>2
  <2> QED
    BY <1>2, <1>3, <2>1, <2>4, <2>5
<1>16. CASE Kind
  <2>1. pc = "kind" /\ UNCHANGED <<file, current, bits, left, count, offset, out, asked, error>>
    BY <1>16 DEF Kind, writer
  <2>2. pc' = "long" /\ data' = 0 /\ need' \in Nat
    <3>1. file.table \in [0..3 -> Nat \ {0}]
      BY <1>1 DEF Packed
    <3> QED
      BY <1>2, <1>16, <3>1 DEF Kind, Read
  <2>3. Onward
    BY <1>7, <2>1, <2>2
  <2>4. count \in 0..(Values[LongBits] - 1)
    BY <1>1 DEF TypeOK
  <2> QED
    BY <1>2, <1>3, <2>1, <2>3, <2>4
<1>17. ASSUME StartCopy, need = 0, pc \notin {"byte", "copy"},
              UNCHANGED <<file, current, bits, left, out>>, offset' \in Nat,
              count' \in 0..(Values[LongBits] - 1)
       PROVE  Inv'
  <2>1. asked' = asked + count' /\ MoreCopies(count') /\ count' \in Nat
    BY <1>8, <1>17 DEF StartCopy
  <2>2. asked' \in Nat /\ (~ error => asked' = Len(out') + count')
    <3>1. Len(out') = Len(out) /\ (~ error => asked = Len(out))
      BY <1>9, <1>17
    <3>2. asked \in Nat
      BY <1>2
    <3> QED
      BY <2>1, <3>1, <3>2, Summed
  <2>3. Onward
    BY <1>2, <1>17, <2>1, <2>2, WithCopies
  <2> QED
    BY <1>2, <1>3, <1>17, <2>2, <2>3
<1>18. CASE ReadOffset
  <2>1. count \in 0..(Values[LongBits] - 1)
    BY <1>1 DEF TypeOK
  <2> QED
    BY <1>2, <1>17, <1>18, <2>1 DEF ReadOffset
<1>19. CASE LongOffset
  <2>1. pc = "long" /\ offset' = data /\ pc' = "more" /\ need' = 3 /\ data' = 0
        /\ UNCHANGED <<file, current, bits, left, count, out, error, asked>>
    BY <1>19 DEF LongOffset, Read
  <2>2. Onward
    BY <1>7, <2>1
  <2>3. count \in 0..(Values[LongBits] - 1)
    BY <1>1 DEF TypeOK
  <2> QED
    BY <1>2, <1>3, <2>1, <2>2, <2>3
<1>20. CASE MoreLength
  <2>1. pc = "more" /\ need = 0 /\ count' = Long(count + data)
        /\ UNCHANGED <<file, current, bits, left, offset, out>>
    BY <1>20 DEF MoreLength
  <2>2. count' \in 0..(Values[LongBits] - 1)
    <3>1. count + data \in Nat
      BY <1>2
    <3> QED
      BY <1>8, <2>1, <3>1
  <2>3. CASE data = 7
    <3>1. pc' = "more" /\ need' = 3 /\ data' = 0 /\ UNCHANGED <<asked, error>>
      BY <1>20, <2>3 DEF MoreLength, Read
    <3>2. Onward
      BY <1>7, <2>1, <3>1
    <3> QED
      BY <1>2, <1>3, <2>1, <2>2, <3>1, <3>2
  <2>4. CASE data # 7
    BY <1>2, <1>17, <1>20, <2>1, <2>2, <2>4 DEF MoreLength
  <2> QED
    BY <2>3, <2>4
<1>21. CASE UNCHANGED vars
  <2>1. UNCHANGED <<file, pc, need, data, current, bits, left, count, offset, out, error, asked>>
    BY <1>21 DEF vars
  <2>2. TypeOK'
    BY <1>1, <2>1 DEF TypeOK
  <2>3. Fits' /\ Room'
    BY <1>1, <2>1 DEF Fits, Room
  <2> QED
    BY <2>1, <2>2, <2>3 DEF Inv
<1> QED
  BY <1>5, <1>6, <1>10, <1>11, <1>13, <1>14, <1>15, <1>16, <1>18, <1>19, <1>20, <1>21 DEF Decode

\* So it holds of every file.
LEMMA InvHolds == Spec => []Inv
BY InvInit, InvStep, PTL DEF Spec

\* Whatever the file contains: counters fit their width, bytes and words are such,
\* and the decoder is always at one of its places.
THEOREM DecoderTypes == Spec => []TypeOK
<1>1. Inv => TypeOK
  BY DEF Inv
<1> QED
  BY <1>1, InvHolds, PTL

\* No file whose first word has at most 31 unused bits (Packed) makes the decoder
\* write outside its output, and one is loaded only if its words sufficed and its
\* rounds wanted as many bytes as it says it has.  Where a copy reads is not bounded.
THEOREM DecoderFits == Spec => []OutputFits
<1>1. ASSUME Inv PROVE OutputFits
  <2>1. Room /\ Len(out) \in Nat /\ asked \in Nat
    BY <1>1 DEF Inv, TypeOK
  <2> QED
    BY <2>1 DEF Room, OutputFits
<1> QED
  BY <1>1, InvHolds, PTL

-----------------------------------------------------------------------------
(* What has been read of a value.                                          *)

\* A quotient by half as much is twice the quotient and one bit.
LEMMA DivStep ==
    ASSUME NEW v \in Nat, NEW m \in Nat \ {0}
    PROVE  v \div m = 2 * (v \div (2 * m)) + ((v \div m) % 2)
<1> DEFINE q == v \div m
           h == q \div 2
<1>1. q \in Nat /\ m * q <= v /\ v < m * q + m
  OBVIOUS
<1> HIDE DEF q
<1>2. h \in Nat /\ q = 2 * h + (q % 2) /\ q % 2 \in {0, 1}
  BY <1>1
<1> HIDE DEF h
<1>3. v \div (2 * m) = h
  <2> DEFINE d == v \div (2 * m)
             w == 2 * m
  <2>1. w \in Nat \ {0}
    OBVIOUS
  <2>2. d \in Nat /\ w * d <= v /\ v < w * d + w
    <3> HIDE DEF w
    <3> SUFFICES (v \div w) \in Nat /\ w * (v \div w) <= v /\ v < w * (v \div w) + w
      BY DEF w
    <3> QED
      BY <2>1
  <2> HIDE DEF d
  <2>3. w * h <= v /\ v < w * h + w
    <3>1. m * q = m * (2 * h) + m * (q % 2)
      BY <1>1, <1>2
    <3>2. m * (2 * h) = w * h
      BY <1>2
    <3>3. m * (q % 2) \in {0, m}
      BY <1>2
    <3>4. w * h \in Nat /\ w = 2 * m
      BY <1>2
    <3> HIDE DEF w
    <3> DEFINE a == w * h
               b == m * (q % 2)
               e == m * q
    <3>5. a \in Nat /\ b \in {0, m} /\ e = a + b /\ e <= v /\ v < e + m
      BY <1>1, <3>1, <3>2, <3>3, <3>4
    <3> HIDE DEF a, b, e
    <3>6. a <= v /\ v < a + w
      BY <3>4, <3>5
    <3> QED
      BY <3>6 DEF a
  <2>4. w * d < w * (h + 1) /\ w * h < w * (d + 1)
    <3> HIDE DEF w
    <3>1. w * (h + 1) = w * h + w /\ w * (d + 1) = w * d + w
      BY <1>2, <2>1, <2>2
    <3>2. w * h \in Nat /\ w * d \in Nat /\ w * (h + 1) \in Nat /\ w * (d + 1) \in Nat
      BY <1>2, <2>1, <2>2
    <3> DEFINE a == w * h
               b == w * d
               a2 == w * (h + 1)
               b2 == w * (d + 1)
    <3>3. a \in Nat /\ b \in Nat /\ a2 = a + w /\ b2 = b + w /\ b <= v /\ v < b + w
          /\ a <= v /\ v < a + w
      BY <2>2, <2>3, <3>1, <3>2
    <3> HIDE DEF a, b, a2, b2
    <3>4. b < a2 /\ a < b2
      BY <2>1, <3>3
    <3> QED
      BY <3>4 DEF a, b, a2, b2
  <2>5. d < h + 1 /\ h < d + 1
    <3> HIDE DEF w
    <3>1. ASSUME NEW x \in Nat, NEW y \in Nat, w * x < w * y PROVE x < y
      <4>1. SUFFICES ASSUME y <= x PROVE FALSE
        BY <3>1
      <4>2. PICK z \in Nat : x = y + z
        <5>1. x - y \in Nat /\ x = y + (x - y)
          BY <4>1
        <5> QED
          BY <5>1
      <4>3. w * x = w * y + w * z /\ w * z \in Nat /\ w * y \in Nat /\ w * x \in Nat
        BY <2>1, <4>2
      <4> QED
        BY <3>1, <4>3
    <3> QED
      BY <1>2, <2>2, <2>4, <3>1
  <2>6. d = h
    BY <1>2, <2>2, <2>5
  <2> QED
    BY <2>6 DEF d
<1> QED
  BY <1>2, <1>3 DEF q

\* All bits read, no bits read.
LEMMA DivEnds ==
    ASSUME NEW v \in Nat, NEW m \in Nat \ {0}
    PROVE  v \div 1 = v /\ (v < m => v \div m = 0)
OBVIOUS

\* The bits of a number.
LEMMA BitsType ==
    ASSUME NEW v \in Nat, NEW k \in Nat
    PROVE  Bits(v, k) \in Seq(Bit) /\ Len(Bits(v, k)) = k
<1>1. ASSUME NEW i \in 1..k PROVE (v \div Values[k - i]) % 2 \in Bit
  <2>1. k - i \in Nat
    OBVIOUS
  <2> DEFINE m == Values[k - i]
  <2>2. m \in Nat \ {0}
    BY <2>1, ValuesType
  <2> HIDE DEF m
  <2>3. v \div m \in Nat
    BY <2>2
  <2> QED
    BY <2>3 DEF m, Bit
<1> QED
  BY <1>1 DEF Bits

-----------------------------------------------------------------------------
(* What the parts of a sequence of sequences make, up to each of them.     *)

Flat(seqs) ==
    LET flatten[i \in 1..Len(seqs)] ==
          IF i = 1 THEN seqs[i] ELSE flatten[i-1] \o seqs[i]
    IN  flatten

Joined(f, seqs, i) == IF i = 1 THEN seqs[i] ELSE f[i-1] \o seqs[i]

\* Sequences one behind the other.
LEMMA Concat ==
    ASSUME NEW S, NEW a \in Seq(S), NEW b \in Seq(S)
    PROVE  /\ a \o b \in Seq(S) /\ Len(a) \in Nat /\ Len(b) \in Nat
           /\ Len(a \o b) = Len(a) + Len(b)
           /\ \A q \in 1..Len(a) : (a \o b)[q] = a[q]
           /\ \A q \in 1..Len(b) : (a \o b)[Len(a) + q] = b[q]
<1>1. Len(a) \in Nat /\ Len(b) \in Nat /\ a \o b \in Seq(S) /\ Len(a \o b) = Len(a) + Len(b)
  OBVIOUS
<1>2. ASSUME NEW q \in 1..Len(a) PROVE (a \o b)[q] = a[q]
  OBVIOUS
<1>3. ASSUME NEW q \in 1..Len(b) PROVE (a \o b)[Len(a) + q] = b[q]
  OBVIOUS
<1> QED
  BY <1>1, <1>2, <1>3

\* There is such a function ...
LEMMA FlatUpTo ==
    ASSUME NEW seqs, NEW n \in Nat
    PROVE  \E f : f = [i \in 1..n |-> Joined(f, seqs, i)]
<1> DEFINE Has(m) == \E f : f = [i \in 1..m |-> Joined(f, seqs, i)]
           Bad == {m \in Nat : ~ Has(m)}
<1>1. SUFFICES ASSUME Bad # {} PROVE FALSE
  OBVIOUS
<1>2. PICK m \in Bad : \A k \in Bad : ~ (k < m)
  BY <1>1, LeastNumber, Bad \subseteq Nat
<1>3. CASE m = 0
  <2> DEFINE f == [i \in 1..0 |-> 1]
  <2>1. f = [i \in 1..0 |-> Joined(f, seqs, i)]
    OBVIOUS
  <2> QED
    BY <1>2, <1>3, <2>1
<1>4. CASE m # 0
  <2>1. PICK g : g = [i \in 1..(m - 1) |-> Joined(g, seqs, i)]
    BY <1>2, <1>4
  <2> DEFINE h == [i \in 1..m |-> IF i < m THEN g[i] ELSE Joined(g, seqs, m)]
  <2>2. ASSUME NEW i \in 1..m PROVE h[i] = Joined(h, seqs, i)
    <3>1. i > 1 => h[i - 1] = g[i - 1]
      OBVIOUS
    <3>2. Joined(h, seqs, i) = Joined(g, seqs, i)
      <4> HIDE DEF h
      <4> QED
        BY <3>1 DEF Joined
    <3>3. i < m => g[i] = Joined(g, seqs, i)
      BY <2>1
    <3>4. h[i] = Joined(g, seqs, i)
      BY <3>3
    <3> QED
      BY <3>2, <3>4
  <2>3. h = [i \in 1..m |-> Joined(h, seqs, i)]
    BY <2>2
  <2> QED
    BY <1>2, <2>3
<1> QED
  BY <1>3, <1>4

\* ... whose values are what its definition says.
LEMMA FlatStep ==
    ASSUME NEW S, NEW seqs \in Seq(S)
    PROVE  \A i \in 1..Len(seqs) :
             Flat(seqs)[i] = IF i = 1 THEN seqs[i] ELSE Flat(seqs)[i - 1] \o seqs[i]
<1>1. Len(seqs) \in Nat
  OBVIOUS
<1>2. \E f : f = [i \in 1..Len(seqs) |-> Joined(f, seqs, i)]
  BY <1>1, FlatUpTo
<1>3. Flat(seqs) = [i \in 1..Len(seqs) |-> Joined(Flat(seqs), seqs, i)]
  BY <1>2 DEF Flat, Joined
<1> QED
  BY <1>3 DEF Joined

\* The parts are joined to a sequence of the same elements.
LEMMA FlatType ==
    ASSUME NEW S, NEW seqs \in Seq(Seq(S)), NEW i \in 1..Len(seqs)
    PROVE  Flat(seqs)[i] \in Seq(S)
<1> DEFINE F == Flat(seqs)
           Bad == {k \in 1..Len(seqs) : F[k] \notin Seq(S)}
<1>1. Len(seqs) \in Nat /\ \A k \in 1..Len(seqs) : seqs[k] \in Seq(S)
  OBVIOUS
<1>2. \A k \in 1..Len(seqs) : F[k] = IF k = 1 THEN seqs[k] ELSE F[k - 1] \o seqs[k]
  BY FlatStep
<1> HIDE DEF F
<1>3. SUFFICES ASSUME Bad # {} PROVE FALSE
  BY DEF F
<1>4. PICK m \in Bad : \A k \in Bad : ~ (k < m)
  BY <1>1, <1>3, LeastNumber, Bad \subseteq Nat
<1>5. m # 1
  BY <1>1, <1>2, <1>4
<1>6. F[m - 1] \in Seq(S) /\ m \in 1..Len(seqs)
  BY <1>1, <1>4, <1>5
<1>7. F[m] = F[m - 1] \o seqs[m] /\ seqs[m] \in Seq(S)
  BY <1>1, <1>2, <1>5, <1>6
<1>8. F[m - 1] \o seqs[m] \in Seq(S)
  BY <1>6, <1>7, Concat
<1> QED
  BY <1>4, <1>7, <1>8

\* Each part is where those before it end, in whatever is made of more parts.
LEMMA FlatPart ==
    ASSUME NEW S, NEW seqs \in Seq(Seq(S)), NEW i \in 1..Len(seqs)
    PROVE  LET F == Flat(seqs)
               base == IF i = 1 THEN 0 ELSE Len(F[i - 1])
           IN  /\ base \in Nat
               /\ Len(F[i]) = base + Len(seqs[i])
               /\ Len(F[i]) <= Len(F[Len(seqs)])
               /\ \A q \in 1..Len(seqs[i]) : F[Len(seqs)][base + q] = seqs[i][q]
<1> DEFINE F == Flat(seqs)
           base == IF i = 1 THEN 0 ELSE Len(F[i - 1])
           Keeps(k) == /\ Len(F[i]) <= Len(F[k])
                       /\ \A q \in 1..Len(F[i]) : F[k][q] = F[i][q]
           Bad == {k \in i..Len(seqs) : ~ Keeps(k)}
<1>1. Len(seqs) \in Nat /\ i \in Nat /\ i <= Len(seqs) /\ \A k \in 1..Len(seqs) : seqs[k] \in Seq(S)
  OBVIOUS
<1>2. \A k \in 1..Len(seqs) : F[k] = IF k = 1 THEN seqs[k] ELSE F[k - 1] \o seqs[k]
  BY FlatStep
<1>3. \A k \in 1..Len(seqs) : F[k] \in Seq(S)
  BY FlatType
<1> HIDE DEF F
<1>4. base \in Nat /\ Len(F[i]) = base + Len(seqs[i])
      /\ \A q \in 1..Len(seqs[i]) : F[i][base + q] = seqs[i][q]
  <2>1. CASE i = 1
    BY <1>1, <1>2, <2>1
  <2>2. CASE i # 1
    <3>1. i - 1 \in 1..Len(seqs)
      BY <1>1, <2>2
    <3>2. F[i - 1] \in Seq(S) /\ seqs[i] \in Seq(S)
      BY <1>1, <1>3, <3>1
    <3>3. F[i] = F[i - 1] \o seqs[i]
      BY <1>2, <2>2
    <3>4. base = Len(F[i - 1])
      BY <2>2
    <3> DEFINE a == F[i - 1]
               b == seqs[i]
    <3> HIDE DEF a, b, base
    <3>5. Len(a) \in Nat /\ Len(a \o b) = Len(a) + Len(b)
          /\ \A q \in 1..Len(b) : (a \o b)[Len(a) + q] = b[q]
      <4>1. a \in Seq(S) /\ b \in Seq(S)
        BY <3>2 DEF a, b
      <4> QED
        BY <4>1, Concat
    <3>6. F[i] = a \o b /\ base = Len(a) /\ seqs[i] = b
      BY <3>3, <3>4 DEF a, b
    <3> QED
      BY <3>5, <3>6
  <2> QED
    BY <2>1, <2>2
<1>5. Bad = {}
  <2>1. SUFFICES ASSUME Bad # {} PROVE FALSE
    OBVIOUS
  <2>2. PICK m \in Bad : \A k \in Bad : ~ (k < m)
    BY <1>1, <2>1, LeastNumber, Bad \subseteq Nat
  <2>3. m # i
    <3>1. Len(F[i]) \in Nat
      BY <1>3
    <3> QED
      BY <2>2, <3>1
  <2>4. m \in Nat /\ m \in 1..Len(seqs) /\ m - 1 \in i..Len(seqs) /\ m - 1 \in 1..Len(seqs)
        /\ m # 1
    BY <1>1, <2>2, <2>3
  <2>5. Keeps(m - 1)
    <3> HIDE DEF Keeps
    <3> QED
      BY <2>2, <2>4
  <2>6. F[m] = F[m - 1] \o seqs[m]
    BY <1>2, <2>4
  <2>7. F[m - 1] \in Seq(S) /\ seqs[m] \in Seq(S) /\ Len(F[i]) \in Nat
    BY <1>1, <1>3, <2>4
  <2>8. Keeps(m)
    <3> DEFINE a == F[m - 1]
               b == seqs[m]
    <3> HIDE DEF a, b
    <3>1. Len(a) <= Len(a \o b) /\ Len(a) \in Nat /\ Len(a \o b) \in Nat
          /\ \A q \in 1..Len(a) : (a \o b)[q] = a[q]
      <4>1. a \in Seq(S) /\ b \in Seq(S)
        BY <2>7 DEF a, b
      <4> QED
        BY <4>1, Concat
    <3>2. F[m] = a \o b
      BY <2>6 DEF a, b
    <3>3. Len(F[i]) <= Len(a) /\ \A q \in 1..Len(F[i]) : a[q] = F[i][q]
      BY <2>5 DEF a
    <3> QED
      BY <2>7, <3>1, <3>2, <3>3
  <2> QED
    BY <2>2, <2>8
<1>6. Keeps(Len(seqs))
  BY <1>1, <1>5
<1>7. ASSUME NEW q \in 1..Len(seqs[i]) PROVE F[Len(seqs)][base + q] = seqs[i][q]
  <2>1. base + q \in 1..Len(F[i])
    <3>1. Len(seqs[i]) \in Nat
      BY <1>1
    <3> HIDE DEF base
    <3> QED
      BY <1>4, <3>1
  <2>2. F[Len(seqs)][base + q] = F[i][base + q] /\ F[i][base + q] = seqs[i][q]
    <3> HIDE DEF base
    <3> QED
      BY <1>4, <1>6, <2>1
  <2> QED
    BY <2>2
<1> QED
  BY <1>4, <1>6, <1>7 DEF F

\* Parts of one length.
LEMMA FlatEven ==
    ASSUME NEW S, NEW seqs \in Seq(Seq(S)), NEW n \in Nat,
           \A i \in 1..Len(seqs) : Len(seqs[i]) = n, NEW i \in 1..Len(seqs)
    PROVE  Len(Flat(seqs)[i]) = n * i
<1> DEFINE F == Flat(seqs)
           Bad == {k \in 1..Len(seqs) : Len(F[k]) # n * k}
<1>1. Len(seqs) \in Nat /\ \A k \in 1..Len(seqs) : seqs[k] \in Seq(S)
  OBVIOUS
<1>2. ASSUME NEW k \in 1..Len(seqs)
      PROVE  Len(F[k]) = (IF k = 1 THEN 0 ELSE Len(F[k - 1])) + n
  <2>1. Len(F[k]) = (IF k = 1 THEN 0 ELSE Len(F[k - 1])) + Len(seqs[k])
    BY FlatPart
  <2> QED
    BY <2>1
<1> HIDE DEF F
<1>3. SUFFICES ASSUME Bad # {} PROVE FALSE
  BY DEF F
<1>4. PICK m \in Bad : \A k \in Bad : ~ (k < m)
  BY <1>1, <1>3, LeastNumber, Bad \subseteq Nat
<1>5. m # 1
  BY <1>2, <1>4
<1>6. Len(F[m - 1]) = n * (m - 1) /\ m \in 1..Len(seqs)
  BY <1>1, <1>4, <1>5
<1>7. n * (m - 1) + n = n * m
  BY <1>6
<1> QED
  BY <1>2, <1>4, <1>5, <1>6, <1>7

\* FlattenSeq makes all of them.
LEMMA FlattenIsFlat ==
    ASSUME NEW S, NEW seqs \in Seq(S), seqs # <<>>
    PROVE  FlattenSeq(seqs) = Flat(seqs)[Len(seqs)]
BY DEF FlattenSeq, Flat

-----------------------------------------------------------------------------
(* The output a file stands for, copy by copy and round by round.          *)

\* The output after so many bytes of a copy that starts when it is o.
Copying(o, round) ==
    LET c[n \in 0..round.length] ==
          IF n = 0 THEN o
          ELSE LET prefix == c[n - 1]
               IN  Append(prefix, prefix[Len(prefix) - round.far])
    IN  c

Extended(c, o, far, n) ==
    IF n = 0 THEN o
    ELSE LET prefix == c[n - 1]
         IN  Append(prefix, prefix[Len(prefix) - far])

IsChain(o, far, n) == \E f : f = [k \in 0..n |-> Extended(f, o, far, k)]

\* There is such a function ...
LEMMA CopyingUpTo ==
    ASSUME NEW o, NEW far, NEW n \in Nat
    PROVE  IsChain(o, far, n)
<1> DEFINE Has(m) == \E f : f = [k \in 0..m |-> Extended(f, o, far, k)]
           Bad == {m \in Nat : ~ Has(m)}
<1>1. SUFFICES ASSUME Bad # {} PROVE FALSE
  BY DEF IsChain
<1>2. PICK m \in Bad : \A k \in Bad : ~ (k < m)
  BY <1>1, LeastNumber, Bad \subseteq Nat
<1>3. CASE m = 0
  <2> DEFINE base == Extended([k \in 0..0 |-> 0], o, far, 0)
             f == [k \in 0..0 |-> base]
  <2>1. Extended(f, o, far, 0) = base
    BY DEF Extended
  <2>2. f = [k \in 0..0 |-> Extended(f, o, far, k)]
    <3> HIDE DEF base
    <3> QED
      BY <2>1
  <2> HIDE DEF f
  <2> QED
    BY <1>2, <1>3, <2>2
<1>4. CASE m # 0
  <2>1. PICK g : g = [k \in 0..(m - 1) |-> Extended(g, o, far, k)]
    BY <1>2, <1>4
  <2> DEFINE h == [k \in 0..m |-> IF k < m THEN g[k] ELSE Extended(g, o, far, m)]
  <2>2. ASSUME NEW k \in 0..m PROVE h[k] = Extended(h, o, far, k)
    <3>1. k > 0 => h[k - 1] = g[k - 1]
      OBVIOUS
    <3>2. Extended(h, o, far, k) = Extended(g, o, far, k)
      <4> HIDE DEF h
      <4> QED
        BY <3>1 DEF Extended
    <3>3. k < m => g[k] = Extended(g, o, far, k)
      BY <2>1
    <3>4. h[k] = Extended(g, o, far, k)
      BY <3>3
    <3> QED
      BY <3>2, <3>4
  <2>3. h = [k \in 0..m |-> Extended(h, o, far, k)]
    BY <2>2
  <2> QED
    BY <1>2, <2>3
<1> QED
  BY <1>3, <1>4

\* ... and it copies byte after byte.
LEMMA CopyingStep ==
    ASSUME NEW o, NEW round, round.length \in Nat
    PROVE  LET c == Copying(o, round)
           IN  /\ c[0] = o
               /\ \A n \in 1..round.length :
                    c[n] = Append(c[n - 1], c[n - 1][Len(c[n - 1]) - round.far])
<1> DEFINE c == Copying(o, round)
           far == round.far
           length == round.length
<1>1. length \in Nat
  OBVIOUS
<1> HIDE DEF far, length
<1>2. \E f : f = [k \in 0..length |-> Extended(f, o, far, k)]
  <2>1. IsChain(o, far, length)
    BY <1>1, CopyingUpTo
  <2> QED
    BY <2>1 DEF IsChain
<1>3. c = [k \in 0..length |-> Extended(c, o, far, k)]
  BY <1>2 DEF Copying, Extended, far, length
<1> HIDE DEF c
<1>4. \A k \in 0..length : c[k] = Extended(c, o, far, k)
  BY <1>3
<1>5. c[0] = o
  BY <1>1, <1>4 DEF Extended
<1>6. ASSUME NEW n \in 1..length
      PROVE  c[n] = Append(c[n - 1], c[n - 1][Len(c[n - 1]) - far])
  <2>1. n \in 0..length /\ n # 0
    BY <1>1
  <2>2. c[n] = Extended(c, o, far, n)
    BY <1>4, <2>1
  <2> QED
    BY <2>1, <2>2 DEF Extended
<1> QED
  BY <1>5, <1>6 DEF c, far, length

\* A copy of what is there is made of bytes.
LEMMA CopyingType ==
    ASSUME NEW o \in Seq(Byte), NEW round, round.length \in Nat, round.far \in Nat,
           round.far < Len(o), NEW n \in 0..round.length
    PROVE  /\ Copying(o, round)[n] \in Seq(Byte)
           /\ Len(Copying(o, round)[n]) = Len(o) + n
<1> DEFINE c == Copying(o, round)
           Right(k) == c[k] \in Seq(Byte) /\ Len(c[k]) = Len(o) + k
           Bad == {k \in 0..round.length : ~ Right(k)}
<1>1. c[0] = o /\ \A k \in 1..round.length :
                    c[k] = Append(c[k - 1], c[k - 1][Len(c[k - 1]) - round.far])
  BY CopyingStep
<1> HIDE DEF c
<1>2. SUFFICES ASSUME Bad # {} PROVE FALSE
  BY DEF c
<1>3. PICK m \in Bad : \A k \in Bad : ~ (k < m)
  BY <1>2, LeastNumber, Bad \subseteq Nat
<1>4. m # 0
  BY <1>1, <1>3
<1>5. m \in 1..round.length /\ m - 1 \in 0..round.length /\ m \in Nat
  BY <1>3, <1>4
<1>6. Right(m - 1)
  <2> HIDE DEF Right
  <2> QED
    BY <1>3, <1>5
<1> DEFINE prefix == c[m - 1]
<1>7. prefix \in Seq(Byte) /\ Len(prefix) = Len(o) + (m - 1) /\ Len(o) \in Nat
      /\ c[m] = Append(prefix, prefix[Len(prefix) - round.far])
  <2>1. c[m] = Append(prefix, prefix[Len(prefix) - round.far])
    BY <1>1, <1>5
  <2>2. Len(o) \in Nat
    OBVIOUS
  <2> QED
    BY <1>6, <2>1, <2>2
<1> HIDE DEF prefix
<1>8. Len(prefix) - round.far \in 1..Len(prefix)
  BY <1>5, <1>7
<1>9. Right(m)
  BY <1>5, <1>7, <1>8
<1> QED
  BY <1>3, <1>9

\* The output after so many rounds.
Outputs(rounds) ==
    LET t[i \in 0..Len(rounds)] ==
          IF i = 0 THEN <<>>
          ELSE Copying(t[i - 1] \o rounds[i].bytes, rounds[i])[rounds[i].length]
    IN  t

After(t, rounds, i) ==
    IF i = 0 THEN <<>>
    ELSE Copying(t[i - 1] \o rounds[i].bytes, rounds[i])[rounds[i].length]

\* There is such a function ...
LEMMA OutputsUpTo ==
    ASSUME NEW rounds, NEW n \in Nat
    PROVE  \E f : f = [k \in 0..n |-> After(f, rounds, k)]
<1> DEFINE Has(m) == \E f : f = [k \in 0..m |-> After(f, rounds, k)]
           Bad == {m \in Nat : ~ Has(m)}
<1>1. SUFFICES ASSUME Bad # {} PROVE FALSE
  OBVIOUS
<1>2. PICK m \in Bad : \A k \in Bad : ~ (k < m)
  BY <1>1, LeastNumber, Bad \subseteq Nat
<1>3. CASE m = 0
  <2> DEFINE base == After([k \in 0..0 |-> 0], rounds, 0)
             f == [k \in 0..0 |-> base]
  <2>1. After(f, rounds, 0) = base
    BY DEF After
  <2>2. f = [k \in 0..0 |-> After(f, rounds, k)]
    <3> HIDE DEF base
    <3> QED
      BY <2>1
  <2> HIDE DEF f
  <2> QED
    BY <1>2, <1>3, <2>2
<1>4. CASE m # 0
  <2>1. PICK g : g = [k \in 0..(m - 1) |-> After(g, rounds, k)]
    BY <1>2, <1>4
  <2> DEFINE h == [k \in 0..m |-> IF k < m THEN g[k] ELSE After(g, rounds, m)]
  <2>2. ASSUME NEW k \in 0..m PROVE h[k] = After(h, rounds, k)
    <3>1. k > 0 => h[k - 1] = g[k - 1]
      OBVIOUS
    <3>2. After(h, rounds, k) = After(g, rounds, k)
      <4> HIDE DEF h
      <4> QED
        BY <3>1 DEF After
    <3>3. k < m => g[k] = After(g, rounds, k)
      BY <2>1
    <3>4. h[k] = After(g, rounds, k)
      BY <3>3
    <3> QED
      BY <3>2, <3>4
  <2>3. h = [k \in 0..m |-> After(h, rounds, k)]
    BY <2>2
  <2> QED
    BY <1>2, <2>3
<1> QED
  BY <1>3, <1>4

\* ... round after round.
LEMMA OutputsStep ==
    ASSUME NEW S, NEW rounds \in Seq(S)
    PROVE  LET t == Outputs(rounds)
           IN  /\ t[0] = <<>>
               /\ \A i \in 1..Len(rounds) :
                    t[i] = Copying(t[i - 1] \o rounds[i].bytes, rounds[i])[rounds[i].length]
<1> DEFINE t == Outputs(rounds)
<1>1. Len(rounds) \in Nat
  OBVIOUS
<1>2. \E f : f = [k \in 0..Len(rounds) |-> After(f, rounds, k)]
  BY <1>1, OutputsUpTo
<1>3. t = [k \in 0..Len(rounds) |-> After(t, rounds, k)]
  BY <1>2 DEF Outputs, After
<1> HIDE DEF t
<1>4. \A k \in 0..Len(rounds) : t[k] = After(t, rounds, k)
  BY <1>3
<1> QED
  BY <1>1, <1>4 DEF t, After

\* Expanded is the last of them.
LEMMA ExpandedIsLast ==
    ASSUME NEW rounds
    PROVE  Expanded(rounds) = Outputs(rounds)[Len(rounds)]
BY DEF Expanded, Outputs, Copying

-----------------------------------------------------------------------------
(* Rounds that a compressor can write.                                     *)

\* The output before the copy of the round r.
Plainly(rounds, r) == Outputs(rounds)[r - 1] \o rounds[r].bytes

\* The length of a copy has a place in the format, and so has its offset.
CopyFits(table, round) ==
    \/ round.length \in 2..4 /\ round.far < Values[table[round.length - 2]]
    \/ /\ round.length \in 5..(Values[LongBits] - 1)
       /\ round.far < Values[ShortOffset] \/ round.far < Values[table[3]]

\* Bytes, a copy of what is there, or both; only the last round may be without
\* a copy.
Writable(rounds, table) ==
    /\ rounds \in Seq([bytes : Seq(Byte), length : Nat, far : Nat])
    /\ \A r \in 1..Len(rounds) :
         LET round == rounds[r]
         IN  /\ Len(round.bytes) < Values[LongBits]
             /\ \/ r = Len(rounds) /\ round.length = 0 /\ round.bytes # <<>>
                \/ CopyFits(table, round) /\ round.far < Len(Plainly(rounds, r))

\* What is known of a round that can be written.
LEMMA RoundType ==
    ASSUME NEW rounds, NEW table, Writable(rounds, table), NEW r \in 1..Len(rounds)
    PROVE  /\ Len(rounds) \in Nat
           /\ rounds[r].bytes \in Seq(Byte) /\ rounds[r].length \in Nat /\ rounds[r].far \in Nat
           /\ Len(rounds[r].bytes) \in Nat /\ Len(rounds[r].bytes) < Values[LongBits]
           /\ \/ r = Len(rounds) /\ rounds[r].length = 0 /\ Len(rounds[r].bytes) > 0
              \/ /\ CopyFits(table, rounds[r]) /\ rounds[r].length >= 2
                 /\ rounds[r].far < Len(Plainly(rounds, r))
<1>1. rounds \in Seq([bytes : Seq(Byte), length : Nat, far : Nat])
  BY DEF Writable
<1>2. Len(rounds) \in Nat /\ rounds[r] \in [bytes : Seq(Byte), length : Nat, far : Nat]
  <2> DEFINE S == [bytes : Seq(Byte), length : Nat, far : Nat]
  <2>1. rounds \in Seq(S)
    BY <1>1
  <2> HIDE DEF S
  <2>2. Len(rounds) \in Nat /\ rounds[r] \in S
    BY <2>1
  <2> QED
    BY <2>2 DEF S
<1>3. rounds[r].bytes \in Seq(Byte) /\ rounds[r].length \in Nat /\ rounds[r].far \in Nat
  BY <1>2
<1>4. Len(rounds[r].bytes) \in Nat
      /\ (rounds[r].bytes # <<>> => Len(rounds[r].bytes) > 0)
  BY <1>3
<1>5. CopyFits(table, rounds[r]) => rounds[r].length >= 2
  BY <1>3 DEF CopyFits
<1> QED
  BY <1>2, <1>3, <1>4, <1>5 DEF Writable

\* What is put out is bytes, and every round puts out some.
LEMMA OutputsType ==
    ASSUME NEW rounds, NEW table, Writable(rounds, table), NEW r \in 0..Len(rounds)
    PROVE  Outputs(rounds)[r] \in Seq(Byte)
<1> DEFINE t == Outputs(rounds)
           Bad == {k \in 0..Len(rounds) : t[k] \notin Seq(Byte)}
<1>1. t[0] = <<>> /\ Len(rounds) \in Nat
      /\ \A i \in 1..Len(rounds) :
           t[i] = Copying(t[i - 1] \o rounds[i].bytes, rounds[i])[rounds[i].length]
  <2>1. rounds \in Seq([bytes : Seq(Byte), length : Nat, far : Nat])
    BY DEF Writable
  <2> QED
    BY <2>1, OutputsStep
<1>2. \A i \in 1..Len(rounds) : Plainly(rounds, i) = t[i - 1] \o rounds[i].bytes
  BY DEF Plainly
<1> HIDE DEF t
<1>3. SUFFICES ASSUME Bad # {} PROVE FALSE
  BY DEF t
<1>4. PICK m \in Bad : \A k \in Bad : ~ (k < m)
  BY <1>3, LeastNumber, Bad \subseteq Nat
<1>5. t[0] \in Seq(Byte)
  BY <1>1
<1>6. m \in 1..Len(rounds) /\ m - 1 \in 0..Len(rounds)
  <2>1. m \in 0..Len(rounds) /\ t[m] \notin Seq(Byte)
    BY <1>4
  <2>2. m # 0
    BY <1>5, <2>1
  <2> QED
    BY <1>1, <2>1, <2>2
<1>7. t[m - 1] \in Seq(Byte)
  BY <1>4, <1>6
<1> DEFINE round == rounds[m]
           o == t[m - 1] \o round.bytes
<1>8. /\ round.bytes \in Seq(Byte) /\ round.length \in Nat /\ round.far \in Nat
      /\ round.length = 0 \/ round.far < Len(Plainly(rounds, m))
  BY <1>6, RoundType
<1>9. o \in Seq(Byte) /\ t[m] = Copying(o, round)[round.length] /\ Plainly(rounds, m) = o
  BY <1>1, <1>2, <1>6, <1>7, <1>8, Concat
<1> HIDE DEF o, round
<1>10. Copying(o, round)[round.length] \in Seq(Byte)
  <2>1. CASE round.length = 0
    <3>1. Copying(o, round)[0] = o
      BY <1>8, CopyingStep
    <3> QED
      BY <1>9, <2>1, <3>1
  <2>2. CASE round.length # 0
    <3>1. round.far < Len(o) /\ round.length \in 0..round.length
      BY <1>8, <1>9, <2>2
    <3> QED
      BY <1>8, <1>9, <3>1, CopyingType
  <2> QED
    BY <2>1, <2>2
<1> QED
  BY <1>4, <1>9, <1>10

\* A round adds its bytes and its copy to what has been written before.
LEMMA OutputsGrow ==
    ASSUME NEW rounds, NEW table, Writable(rounds, table), NEW r \in 1..Len(rounds)
    PROVE  LET round == rounds[r]
               before == Outputs(rounds)[r - 1]
           IN  /\ before \in Seq(Byte) /\ Outputs(rounds)[r] \in Seq(Byte)
               /\ Len(before) \in Nat /\ Len(Outputs(rounds)[r]) \in Nat
               /\ Plainly(rounds, r) \in Seq(Byte)
               /\ Len(Plainly(rounds, r)) = Len(before) + Len(round.bytes)
               /\ Copying(Plainly(rounds, r), round)[0] = Plainly(rounds, r)
               /\ Copying(Plainly(rounds, r), round)[round.length] = Outputs(rounds)[r]
               /\ Len(Outputs(rounds)[r]) = Len(Plainly(rounds, r)) + round.length
               /\ Len(before) < Len(Outputs(rounds)[r])
<1> DEFINE round == rounds[r]
           before == Outputs(rounds)[r - 1]
           o == Plainly(rounds, r)
           after == Outputs(rounds)[r]
<1>1. /\ Len(rounds) \in Nat
      /\ round.bytes \in Seq(Byte) /\ round.length \in Nat /\ round.far \in Nat
      /\ Len(round.bytes) \in Nat
      /\ \/ round.length = 0 /\ Len(round.bytes) > 0
         \/ round.length >= 2 /\ round.far < Len(o)
  BY RoundType
<1>2. before \in Seq(Byte) /\ after \in Seq(Byte)
  <2>1. r - 1 \in 0..Len(rounds) /\ r \in 0..Len(rounds)
    BY <1>1
  <2> QED
    BY <2>1, OutputsType
<1>3. o = before \o round.bytes
  BY DEF Plainly
<1>4. after = Copying(o, round)[round.length]
  <2>1. rounds \in Seq([bytes : Seq(Byte), length : Nat, far : Nat])
    BY DEF Writable
  <2> QED
    BY <1>3, <2>1, OutputsStep
<1> HIDE DEF round, before, o, after
<1>5. o \in Seq(Byte) /\ Len(o) = Len(before) + Len(round.bytes)
      /\ Len(before) \in Nat /\ Len(after) \in Nat
  BY <1>1, <1>2, <1>3, Concat
<1>6. Copying(o, round)[0] = o
  BY <1>1, CopyingStep
<1>7. Len(after) = Len(o) + round.length
  <2>1. CASE round.length = 0
    BY <1>1, <1>4, <1>5, <1>6, <2>1
  <2>2. CASE round.length # 0
    <3>1. round.far < Len(o) /\ round.length \in 0..round.length
      BY <1>1, <2>2
    <3> QED
      BY <1>1, <1>4, <1>5, <3>1, CopyingType
  <2> QED
    BY <2>1, <2>2
<1>8. Len(before) < Len(after)
  BY <1>1, <1>5, <1>7
<1> QED
  BY <1>2, <1>4, <1>5, <1>6, <1>7, <1>8 DEF round, before, o, after

\* No round but the last completes the output.
LEMMA OutputsOrder ==
    ASSUME NEW rounds, NEW table, Writable(rounds, table), NEW r \in 0..Len(rounds)
    PROVE  /\ Len(Outputs(rounds)[r]) <= Len(Outputs(rounds)[Len(rounds)])
           /\ r < Len(rounds) => Len(Outputs(rounds)[r]) < Len(Outputs(rounds)[Len(rounds)])
<1> DEFINE n == Len(rounds)
           L(k) == Len(Outputs(rounds)[k])
           Bad == {k \in 0..n : k < n /\ ~ (L(n - 1 - k) < L(n))}
<1>1. n \in Nat
  BY DEF Writable
<1>2. \A k \in 0..n : L(k) \in Nat
  BY OutputsType
<1>3. ASSUME NEW k \in 1..n PROVE L(k - 1) < L(k)
  BY OutputsGrow
<1> HIDE DEF n, L
<1>4. Bad = {}
  <2>1. SUFFICES ASSUME Bad # {} PROVE FALSE
    OBVIOUS
  <2>2. PICK m \in Bad : \A k \in Bad : ~ (k < m)
    BY <1>1, <2>1, LeastNumber, Bad \subseteq Nat
  <2>3. m \in Nat /\ m < n /\ n \in 1..n /\ n - 1 \in 0..n /\ n \in 0..n
    BY <1>1, <2>2
  <2>4. CASE m = 0
    <3>1. n - 1 - 0 = n - 1
      BY <1>1
    <3>2. L(n - 1) < L(n)
      BY <1>3, <2>3
    <3> QED
      BY <2>2, <2>4, <3>1, <3>2
  <2>5. CASE m # 0
    <3> DEFINE k == n - m
    <3>1. k \in 1..n /\ k \in 0..n /\ k - 1 \in 0..n /\ n - 1 - m = k - 1 /\ n - 1 - (m - 1) = k
          /\ m - 1 \in 0..n /\ m - 1 < n /\ m - 1 < m
      BY <1>1, <2>3, <2>5
    <3> HIDE DEF k
    <3>2. L(k) < L(n)
      BY <2>2, <3>1
    <3>3. L(k - 1) < L(k)
      BY <1>3, <3>1
    <3>4. L(k - 1) < L(n)
      BY <1>2, <2>3, <3>1, <3>2, <3>3
    <3> QED
      BY <2>2, <3>1, <3>4
  <2> QED
    BY <2>4, <2>5
<1>5. ASSUME r < n PROVE L(r) < L(n)
  <2> DEFINE k == n - 1 - r
  <2>1. k \in 0..n /\ k < n /\ n - 1 - k = r
    BY <1>1, <1>5 DEF n
  <2> HIDE DEF k
  <2> QED
    BY <1>4, <2>1
<1>6. r = n \/ r < n
  BY <1>1 DEF n
<1>7. L(r) \in Nat /\ L(n) \in Nat
  BY <1>1, <1>2 DEF n
<1> QED
  BY <1>5, <1>6, <1>7 DEF n, L

-----------------------------------------------------------------------------
(* Where the bits of a round are.                                          *)

\* In t the bits s follow after the first p.
At(t, p, s) == p + Len(s) <= Len(t) /\ \A i \in 1..Len(s) : t[p + i] = s[i]

\* A sequence is at a place if its beginning is there and its end behind that.
LEMMA AtSplit ==
    ASSUME NEW S, NEW t, Len(t) \in Nat, NEW p \in Nat, NEW a \in Seq(S), NEW b \in Seq(S),
           At(t, p, a \o b)
    PROVE  At(t, p, a) /\ At(t, p + Len(a), b)
<1>1. /\ Len(a) \in Nat /\ Len(b) \in Nat
      /\ Len(a \o b) = Len(a) + Len(b)
      /\ \A q \in 1..Len(a) : (a \o b)[q] = a[q]
      /\ \A q \in 1..Len(b) : (a \o b)[Len(a) + q] = b[q]
  BY Concat
<1>2. p + Len(a \o b) <= Len(t) /\ \A i \in 1..Len(a \o b) : t[p + i] = (a \o b)[i]
  BY DEF At
<1> DEFINE c == a \o b
<1> HIDE DEF c
<1>3. ASSUME NEW i \in 1..Len(a) PROVE t[p + i] = a[i]
  <2>1. i \in 1..Len(c) /\ c[i] = a[i] /\ t[p + i] = c[i]
    BY <1>1, <1>2 DEF c
  <2> QED
    BY <2>1
<1>4. ASSUME NEW i \in 1..Len(b) PROVE t[(p + Len(a)) + i] = b[i]
  <2>1. Len(a) + i \in 1..Len(a \o b) /\ p + (Len(a) + i) = (p + Len(a)) + i
    BY <1>1
  <2> QED
    BY <1>1, <1>2, <2>1
<1>5. p + Len(a) <= Len(t) /\ (p + Len(a)) + Len(b) <= Len(t)
  BY <1>1, <1>2
<1> QED
  BY <1>3, <1>4, <1>5 DEF At

\* Numbers of one, two and three bits.
LEMMA SmallValues == Values[0] = 1 /\ Values[1] = 2 /\ Values[2] = 4 /\ Values[3] = 8
<1>1. Values[0] = 1 /\ Values[0 + 1] = 2 * Values[0] /\ Values[1 + 1] = 2 * Values[1]
      /\ Values[2 + 1] = 2 * Values[2]
  BY ValuesStep
<1> QED
  BY <1>1

\* A single bit.
LEMMA OneBit ==
    ASSUME NEW b \in {0, 1}
    PROVE  Bits(b, 1) = <<b>>
<1>1. \A i \in 1..1 : (b \div Values[1 - i]) % 2 = b
  BY SmallValues
<1> QED
  BY <1>1 DEF Bits

\* The values of which all bits are set.
LEMMA AllSet ==
    /\ \A i \in 1..2 : Bits(3, 2)[i] = 1
    /\ \A i \in 1..3 : Bits(7, 3)[i] = 1
    /\ Bits(3, 2) = <<1, 1>>
<1>1. (3 \div Values[1]) % 2 = 1 /\ (3 \div Values[0]) % 2 = 1
  BY SmallValues
<1>2. (7 \div Values[2]) % 2 = 1 /\ (7 \div Values[1]) % 2 = 1 /\ (7 \div Values[0]) % 2 = 1
  BY SmallValues
<1>3. \A i \in 1..2 : (3 \div Values[2 - i]) % 2 = 1
  BY <1>1
<1>4. \A i \in 1..3 : (7 \div Values[3 - i]) % 2 = 1
  BY <1>2
<1>5. Bits(3, 2) = <<1, 1>>
  BY <1>3 DEF Bits
<1> QED
  BY <1>3, <1>4, <1>5 DEF Bits

\* How many groups are full, and what the last one holds.
Full(n, k) == n \div (Values[k] - 1)
Rest(n, k) == n % (Values[k] - 1)

\* What the g-th group holds.
Held(n, k, g) == IF g < Full(n, k) THEN Values[k] - 1 ELSE Rest(n, k)

\* How many groups are full and what the last one holds; how many bits there are.
LEMMA GroupsType ==
    ASSUME NEW n \in Nat, NEW k \in {2, 3}
    PROVE  /\ Full(n, k) \in Nat /\ Rest(n, k) \in Nat /\ Rest(n, k) < Values[k] - 1
           /\ n = (Values[k] - 1) * Full(n, k) + Rest(n, k)
           /\ Groups(n, k) \in Seq(Bit)
           /\ Len(Groups(n, k)) = k * Full(n, k) + k
<1>1. Values[k] - 1 \in {3, 7}
  BY SmallValues
<1> DEFINE full == Values[k] - 1
           q == n \div full
           rest == n % full
           ones == [i \in 1..(k * q) |-> 1]
<1>2. q \in Nat /\ rest \in Nat /\ rest < full /\ n = full * q + rest
  <2> HIDE DEF full
  <2>1. full \in {3, 7}
    BY <1>1 DEF full
  <2> QED
    BY <2>1
<1>3. Groups(n, k) = ones \o Bits(rest, k)
  BY DEF Groups
<1> HIDE DEF rest, q
<1>4. k * q \in Nat /\ ones \in Seq(Bit) /\ Len(ones) = k * q
  BY <1>2 DEF Bit
<1>5. Bits(rest, k) \in Seq(Bit) /\ Len(Bits(rest, k)) = k
  BY <1>2, BitsType
<1> HIDE DEF ones
<1>6. ones \o Bits(rest, k) \in Seq(Bit) /\ Len(ones \o Bits(rest, k)) = k * q + k
  BY <1>4, <1>5, Concat
<1> QED
  BY <1>2, <1>3, <1>6 DEF Full, Rest, q, rest

\* Each group is where the others leave room for it.
LEMMA GroupAt ==
    ASSUME NEW t, Len(t) \in Nat, NEW p \in Nat, NEW n \in Nat, NEW k \in {2, 3},
           At(t, p, Groups(n, k)), NEW g \in 0..Full(n, k)
    PROVE  At(t, p + k * g, Bits(Held(n, k, g), k))
<1> DEFINE q == Full(n, k)
           rest == Rest(n, k)
           ones == [i \in 1..(k * q) |-> 1]
<1>1. q \in Nat /\ rest \in Nat
  BY GroupsType
<1>2. Groups(n, k) = ones \o Bits(rest, k)
  BY DEF Groups, Full, Rest
<1> HIDE DEF rest, q
<1>3. k * q \in Nat /\ ones \in Seq(Bit) /\ Len(ones) = k * q
      /\ \A i \in 1..(k * q) : ones[i] = 1
  BY <1>1 DEF Bit
<1>4. Bits(rest, k) \in Seq(Bit)
  BY <1>1, BitsType
<1> HIDE DEF ones
<1>5. At(t, p, ones) /\ At(t, p + k * q, Bits(rest, k))
  BY <1>2, <1>3, <1>4, AtSplit
<1>6. CASE g = q
  BY <1>1, <1>5, <1>6 DEF Held, q, rest
<1>7. CASE g # q
  <2> DEFINE full == Values[k] - 1
  <2>1. g \in Nat /\ g + 1 <= q /\ Held(n, k, g) = full
    BY <1>1, <1>7 DEF Held, q
  <2>2. full = IF k = 2 THEN 3 ELSE 7
    BY SmallValues
  <2>3. Len(Bits(full, k)) = k /\ \A i \in 1..k : Bits(full, k)[i] = 1
    <3>1. full \in Nat /\ k \in Nat
      BY <2>2
    <3>2. Len(Bits(full, k)) = k
      <4> HIDE DEF full
      <4> QED
        BY <3>1, BitsType
    <3>3. CASE k = 2
      <4>1. full = 3
        BY <2>2, <3>3
      <4> HIDE DEF full
      <4> QED
        BY <3>2, <3>3, <4>1, AllSet
    <3>4. CASE k = 3
      <4>1. full = 7
        BY <2>2, <3>4
      <4> HIDE DEF full
      <4> QED
        BY <3>2, <3>4, <4>1, AllSet
    <3> QED
      BY <3>3, <3>4
  <2> HIDE DEF full
  <2>4. k * g + k <= k * q /\ k * g \in Nat
    <3>1. k * (g + 1) <= k * q /\ k * (g + 1) = k * g + k
      BY <1>1, <2>1
    <3> QED
      BY <2>1, <3>1
  <2>5. p + k * q <= Len(t) /\ \A i \in 1..(k * q) : t[p + i] = 1
    BY <1>3, <1>5 DEF At
  <2>6. ASSUME NEW i \in 1..k PROVE t[(p + k * g) + i] = 1
    <3>1. k * g + i \in 1..(k * q) /\ p + (k * g + i) = (p + k * g) + i
      BY <1>3, <2>4
    <3> QED
      BY <2>5, <3>1
  <2>7. (p + k * g) + k <= Len(t)
    BY <1>3, <2>4, <2>5
  <2> QED
    BY <2>1, <2>3, <2>6, <2>7 DEF At
<1> QED
  BY <1>6, <1>7

\* The bytes of a round.
LEMMA BytesType ==
    ASSUME NEW bytes \in Seq(Byte)
    PROVE  LET parts == [i \in 1..Len(bytes) |-> Bits(bytes[i], ByteBits)]
               size == Len(bytes)
           IN  /\ parts \in Seq(Seq(Bit)) /\ Len(parts) = size
               /\ \A i \in 1..size : Len(parts[i]) = ByteBits
               /\ size = 0 => BytesBits(bytes) = <<1>>
               /\ size > 0 => /\ BytesBits(bytes) =
                                   (<<0>> \o Groups(size - 1, 2)) \o Flat(parts)[size]
                              /\ Groups(size - 1, 2) \in Seq(Bit)
                              /\ Flat(parts)[size] \in Seq(Bit)
                              /\ Len(Flat(parts)[size]) = ByteBits * size
                              /\ Len(BytesBits(bytes)) =
                                   (1 + Len(Groups(size - 1, 2))) + ByteBits * size
               /\ BytesBits(bytes) \in Seq(Bit)
<1> DEFINE parts == [i \in 1..Len(bytes) |-> Bits(bytes[i], ByteBits)]
           size == Len(bytes)
<1> DEFINE Goal == /\ parts \in Seq(Seq(Bit)) /\ Len(parts) = size
                   /\ \A i \in 1..size : Len(parts[i]) = ByteBits
                   /\ size = 0 => BytesBits(bytes) = <<1>>
                   /\ size > 0 => /\ BytesBits(bytes) =
                                        (<<0>> \o Groups(size - 1, 2)) \o Flat(parts)[size]
                                  /\ Groups(size - 1, 2) \in Seq(Bit)
                                  /\ Flat(parts)[size] \in Seq(Bit)
                                  /\ Len(Flat(parts)[size]) = ByteBits * size
                                  /\ Len(BytesBits(bytes)) =
                                       (1 + Len(Groups(size - 1, 2))) + ByteBits * size
                   /\ BytesBits(bytes) \in Seq(Bit)
<1> SUFFICES Goal
  OBVIOUS
<1>1. size \in Nat /\ ByteBits \in Nat
  BY WidthAssumption
<1>2. ASSUME NEW i \in 1..size PROVE bytes[i] \in Nat
  <2>1. bytes[i] \in Byte
    OBVIOUS
  <2> QED
    BY <2>1 DEF Byte
<1>3. \A i \in 1..size : /\ Bits(bytes[i], ByteBits) \in Seq(Bit)
                         /\ Len(Bits(bytes[i], ByteBits)) = ByteBits
  BY <1>1, <1>2, BitsType
<1>4. parts \in Seq(Seq(Bit)) /\ Len(parts) = size
      /\ \A i \in 1..size : parts[i] = Bits(bytes[i], ByteBits)
  BY <1>1, <1>3
<1>5. CASE size = 0
  <2>1. bytes = <<>>
    BY <1>5
  <2>2. BytesBits(bytes) = <<1>>
    BY <2>1 DEF BytesBits
  <2> QED
    BY <1>3, <1>4, <1>5, <2>2 DEF Bit
<1>6. CASE size # 0
  <2>1. size > 0 /\ size - 1 \in Nat /\ size \in 1..Len(parts) /\ parts # <<>> /\ bytes # <<>>
    BY <1>1, <1>4, <1>6
  <2>2. BytesBits(bytes) = <<0>> \o Groups(size - 1, 2) \o FlattenSeq(parts)
    BY <2>1 DEF BytesBits
  <2>3. \A i \in 1..Len(parts) : Len(parts[i]) = ByteBits
    BY <1>3, <1>4
  <2> HIDE DEF parts
  <2>4. FlattenSeq(parts) = Flat(parts)[size]
    BY <1>4, <2>1, FlattenIsFlat
  <2>5. Flat(parts)[size] \in Seq(Bit) /\ Len(Flat(parts)[size]) = ByteBits * size
    BY <1>1, <1>4, <2>1, <2>3, FlatType, FlatEven
  <2>6. Groups(size - 1, 2) \in Seq(Bit)
    BY <2>1, GroupsType
  <2> HIDE DEF size
  <2>7. <<0>> \in Seq(Bit) /\ Len(<<0>>) = 1
    BY DEF Bit
  <2>8. <<0>> \o Groups(size - 1, 2) \in Seq(Bit)
        /\ Len(<<0>> \o Groups(size - 1, 2)) = 1 + Len(Groups(size - 1, 2))
    BY <2>6, <2>7, Concat
  <2>9. BytesBits(bytes) \in Seq(Bit)
        /\ Len(BytesBits(bytes)) = (1 + Len(Groups(size - 1, 2))) + ByteBits * size
    <3> DEFINE a == <<0>> \o Groups(size - 1, 2)
               b == Flat(parts)[size]
    <3>1. BytesBits(bytes) = a \o b
      BY <2>2, <2>4
    <3>2. a \in Seq(Bit) /\ b \in Seq(Bit)
      BY <2>5, <2>8
    <3> HIDE DEF a, b
    <3>3. a \o b \in Seq(Bit) /\ Len(a \o b) = Len(a) + Len(b)
      BY <3>2, Concat
    <3> QED
      BY <2>5, <2>8, <3>1, <3>3 DEF a, b
  <2>10. BytesBits(bytes) = (<<0>> \o Groups(size - 1, 2)) \o Flat(parts)[size]
    BY <2>2, <2>4
  <2>11. \A i \in 1..size : Len(parts[i]) = ByteBits
    BY <1>4, <2>3
  <2> QED
    BY <1>4, <1>6, <2>5, <2>6, <2>9, <2>10, <2>11
<1> QED
  BY <1>5, <1>6

\* The bits that stand for a run of bytes, at their places.
LEMMA BytesAt ==
    ASSUME NEW t, Len(t) \in Nat, NEW p \in Nat, NEW bytes \in Seq(Byte),
           At(t, p, BytesBits(bytes))
    PROVE  LET size == Len(bytes)
           IN  /\ At(t, p, Bits(IF size = 0 THEN 1 ELSE 0, 1))
               /\ size > 0 =>
                    /\ At(t, p + 1, Groups(size - 1, 2))
                    /\ \A j \in 0..(size - 1) :
                         At(t, ((p + 1) + Len(Groups(size - 1, 2))) + ByteBits * j,
                            Bits(bytes[j + 1], ByteBits))
<1> DEFINE parts == [i \in 1..Len(bytes) |-> Bits(bytes[i], ByteBits)]
           size == Len(bytes)
           flat == Flat(parts)[size]
           counted == Groups(size - 1, 2)
<1>1. /\ parts \in Seq(Seq(Bit)) /\ Len(parts) = size
      /\ \A i \in 1..size : Len(parts[i]) = ByteBits
      /\ size = 0 => BytesBits(bytes) = <<1>>
      /\ size > 0 => /\ BytesBits(bytes) = (<<0>> \o counted) \o flat
                     /\ counted \in Seq(Bit) /\ flat \in Seq(Bit)
                     /\ Len(flat) = ByteBits * size
  BY BytesType
<1>2. size \in Nat /\ ByteBits \in Nat
  BY WidthAssumption
<1>3. CASE size = 0
  <2>1. At(t, p, Bits(1, 1))
    BY <1>1, <1>3, OneBit
  <2> QED
    BY <1>3, <2>1
<1>4. CASE size # 0
  <2>1. size > 0 /\ size - 1 \in Nat
    BY <1>2, <1>4
  <2>2. \A i \in 1..size : parts[i] = Bits(bytes[i], ByteBits)
    OBVIOUS
  <2>3. <<0>> \in Seq(Bit) /\ Len(<<0>>) = 1
    BY DEF Bit
  <2> HIDE DEF flat, counted, parts
  <2>4. /\ <<0>> \o counted \in Seq(Bit) /\ Len(<<0>> \o counted) = 1 + Len(counted)
        /\ Len(counted) \in Nat
    BY <1>1, <2>1, <2>3, Concat
  <2>5. At(t, p, <<0>> \o counted) /\ At(t, p + (1 + Len(counted)), flat)
    BY <1>1, <2>1, <2>4, AtSplit
  <2>6. At(t, p, <<0>>) /\ At(t, p + 1, counted)
    BY <1>1, <2>1, <2>3, <2>5, AtSplit
  <2>7. ASSUME NEW j \in 0..(size - 1)
        PROVE  At(t, ((p + 1) + Len(counted)) + ByteBits * j, Bits(bytes[j + 1], ByteBits))
    <3> DEFINE F == Flat(parts)
               base == IF j + 1 = 1 THEN 0 ELSE Len(F[(j + 1) - 1])
               b == Bits(bytes[j + 1], ByteBits)
    <3>1. j \in Nat /\ j + 1 \in 1..Len(parts) /\ j + 1 \in 1..size
      BY <1>1, <1>2
    <3>2. parts[j + 1] = b /\ Len(b) = ByteBits
      BY <1>1, <2>2, <3>1
    <3>3. /\ base \in Nat
          /\ Len(F[j + 1]) = base + Len(parts[j + 1])
          /\ Len(F[j + 1]) <= Len(F[Len(parts)])
          /\ \A q \in 1..Len(parts[j + 1]) : F[Len(parts)][base + q] = parts[j + 1][q]
      <4> DEFINE i == j + 1
      <4>1. parts \in Seq(Seq(Bit)) /\ i \in 1..Len(parts)
        BY <1>1, <2>2, <3>1
      <4> HIDE DEF i
      <4>2. LET G == Flat(parts)
                b0 == IF i = 1 THEN 0 ELSE Len(G[i - 1])
            IN  /\ b0 \in Nat
                /\ Len(G[i]) = b0 + Len(parts[i])
                /\ Len(G[i]) <= Len(G[Len(parts)])
                /\ \A q \in 1..Len(parts[i]) : G[Len(parts)][b0 + q] = parts[i][q]
        BY <4>1, FlatPart
      <4> QED
        BY <4>2 DEF i
    <3>4. base = ByteBits * j
      <4>1. CASE j = 0
        BY <1>2, <4>1
      <4>2. CASE j # 0
        <5>1. (j + 1) - 1 = j /\ j \in 1..Len(parts)
          BY <3>1, <4>2
        <5>2. Len(F[j]) = ByteBits * j
          BY <1>1, <1>2, <5>1, FlatEven
        <5>3. base = Len(F[j])
          BY <3>1, <4>2, <5>1
        <5> QED
          BY <5>2, <5>3
      <4> QED
        BY <4>1, <4>2
    <3> HIDE DEF b, F, base
    <3>5. base + ByteBits <= Len(flat) /\ Len(flat) \in Nat
          /\ \A q \in 1..ByteBits : flat[base + q] = b[q]
      <4>1. F[Len(parts)] = flat /\ Len(F[Len(parts)]) = ByteBits * size /\ ByteBits * size \in Nat
        BY <1>1, <1>2, <2>1 DEF flat, F
      <4> QED
        BY <3>2, <3>3, <4>1
    <3> DEFINE r == p + (1 + Len(counted))
    <3>6. r \in Nat /\ r + Len(flat) <= Len(t) /\ \A i \in 1..Len(flat) : t[r + i] = flat[i]
      BY <2>4, <2>5 DEF At
    <3>7. ((p + 1) + Len(counted)) + ByteBits * j = r + base
      BY <2>4, <3>3, <3>4
    <3> HIDE DEF r
    <3>8. ASSUME NEW q \in 1..ByteBits PROVE t[(r + base) + q] = b[q]
      <4>1. base + q \in 1..Len(flat) /\ r + (base + q) = (r + base) + q
        BY <1>2, <3>3, <3>5, <3>6
      <4> QED
        BY <3>5, <3>6, <4>1
    <3>9. (r + base) + Len(b) <= Len(t)
      BY <1>2, <3>2, <3>3, <3>5, <3>6
    <3>10. At(t, r + base, b)
      BY <3>2, <3>8, <3>9 DEF At
    <3> QED
      BY <3>7, <3>10 DEF b
  <2>8. At(t, p, Bits(0, 1))
    BY <2>6, OneBit
  <2> QED
    BY <1>4, <2>1, <2>6, <2>7, <2>8 DEF counted
<1> QED
  BY <1>3, <1>4

\* The copy of a round.
Width(table, far) == IF far < Values[ShortOffset] THEN ShortOffset ELSE table[3]
Choice(far) == IF far < Values[ShortOffset] THEN 0 ELSE 1

\* The bits that stand for a short copy and for a long one.
LEMMA CopyType ==
    ASSUME NEW table \in [0..3 -> Nat \ {0}], NEW length \in Nat, NEW far \in Nat, length >= 2
    PROVE  /\ length < 5 =>
                /\ table[length - 2] \in Nat
                /\ Bits(length - 2, 2) \in Seq(Bit) /\ Len(Bits(length - 2, 2)) = 2
                /\ Bits(far, table[length - 2]) \in Seq(Bit)
                /\ CopyBits(table, length, far) = Bits(length - 2, 2) \o Bits(far, table[length - 2])
                /\ Len(CopyBits(table, length, far)) = 2 + table[length - 2]
           /\ length >= 5 =>
                /\ Width(table, far) \in Nat
                /\ <<1, 1>> \o (<<Choice(far)>> \o Bits(far, Width(table, far))) \in Seq(Bit)
                /\ <<Choice(far)>> \o Bits(far, Width(table, far)) \in Seq(Bit)
                /\ Len(<<Choice(far)>> \o Bits(far, Width(table, far))) = 1 + Width(table, far)
                /\ CopyBits(table, length, far) =
                     (<<1, 1>> \o (<<Choice(far)>> \o Bits(far, Width(table, far))))
                       \o Groups(length - 5, 3)
                /\ Len(CopyBits(table, length, far)) =
                     (3 + Width(table, far)) + Len(Groups(length - 5, 3))
           /\ CopyBits(table, length, far) \in Seq(Bit)
<1>1. CASE length < 5
  <2>1. /\ length - 2 \in 0..3 /\ length - 2 \in Nat /\ length \in 2..4
        /\ length # 0 /\ ~ (length >= 5)
    BY <1>1
  <2>2. table[length - 2] \in Nat
    BY <2>1
  <2> DEFINE a == Bits(length - 2, 2)
             b == Bits(far, table[length - 2])
  <2>3. a \in Seq(Bit) /\ Len(a) = 2 /\ b \in Seq(Bit) /\ Len(b) = table[length - 2]
    BY <2>1, <2>2, BitsType
  <2>4. CopyBits(table, length, far) = a \o b
    BY <2>1 DEF CopyBits
  <2> HIDE DEF a, b
  <2>5. a \o b \in Seq(Bit) /\ Len(a \o b) = Len(a) + Len(b)
    BY <2>3, Concat
  <2>6. Len(CopyBits(table, length, far)) = 2 + table[length - 2]
        /\ CopyBits(table, length, far) \in Seq(Bit)
    BY <2>3, <2>4, <2>5
  <2> QED
    BY <2>1, <2>2, <2>3, <2>4, <2>6 DEF a, b
<1>2. CASE length >= 5
  <2> DEFINE w == Width(table, far)
             c == Choice(far)
             b == Bits(far, w)
             g == Groups(length - 5, 3)
  <2>1. length - 5 \in Nat /\ length \notin 2..4 /\ length # 0 /\ ~ (length < 5)
    BY <1>2
  <2>2. w \in Nat /\ c \in {0, 1}
    BY WidthAssumption DEF Width, Choice
  <2>3. b \in Seq(Bit) /\ Len(b) = w
    <3> HIDE DEF w
    <3> QED
      BY <2>2, BitsType
  <2>4. g \in Seq(Bit)
    BY <2>1, GroupsType
  <2>5. (IF far < Values[ShortOffset] THEN <<0>> \o Bits(far, ShortOffset)
         ELSE <<1>> \o Bits(far, table[3])) = <<c>> \o b
    BY DEF Width, Choice
  <2>6. CopyBits(table, length, far) = (<<1, 1>> \o (<<c>> \o b)) \o g
    <3>1. CopyBits(table, length, far) =
            <<1, 1>>
              \o (IF far < Values[ShortOffset] THEN <<0>> \o Bits(far, ShortOffset)
                  ELSE <<1>> \o Bits(far, table[3]))
              \o Groups(length - 5, 3)
      BY <2>1 DEF CopyBits
    <3> HIDE DEF c, b
    <3> QED
      BY <2>5, <3>1
  <2> HIDE DEF w, b, g, c
  <2>7. <<c>> \in Seq(Bit) /\ Len(<<c>>) = 1 /\ <<1, 1>> \in Seq(Bit) /\ Len(<<1, 1>>) = 2
    BY <2>2 DEF Bit
  <2>8. <<c>> \o b \in Seq(Bit) /\ Len(<<c>> \o b) = 1 + w
    BY <2>3, <2>7, Concat
  <2>9. /\ <<1, 1>> \o (<<c>> \o b) \in Seq(Bit)
        /\ Len(<<1, 1>> \o (<<c>> \o b)) = 2 + (1 + w)
    <3> DEFINE e == <<c>> \o b
    <3> HIDE DEF e
    <3>1. e \in Seq(Bit) /\ Len(e) = 1 + w
      BY <2>8 DEF e
    <3>2. <<1, 1>> \o e \in Seq(Bit) /\ Len(<<1, 1>> \o e) = 2 + (1 + w)
      BY <2>7, <3>1, Concat
    <3> QED
      BY <3>2 DEF e
  <2>10. CopyBits(table, length, far) \in Seq(Bit)
         /\ Len(CopyBits(table, length, far)) = (3 + w) + Len(g)
    <3> DEFINE e == <<1, 1>> \o (<<c>> \o b)
    <3> HIDE DEF e
    <3>1. e \in Seq(Bit) /\ Len(e) = 3 + w
      BY <2>2, <2>9 DEF e
    <3>2. e \o g \in Seq(Bit) /\ Len(e \o g) = Len(e) + Len(g)
      <4>1. e \in Seq(Bit)
        BY <3>1
      <4> QED
        BY <2>4, <4>1, Concat
    <3> QED
      BY <2>6, <3>1, <3>2 DEF e
  <2> QED
    BY <2>1, <2>2, <2>6, <2>8, <2>9, <2>10 DEF w, b, g, c
<1>3. length < 5 \/ length >= 5
  OBVIOUS
<1>4. CopyBits(table, length, far) \in Seq(Bit)
  BY <1>1, <1>2, <1>3
<1>5. ~ (length < 5 /\ length >= 5)
  OBVIOUS
<1> QED
  BY <1>1, <1>2, <1>4, <1>5

\* The same bits at their places.
LEMMA CopyAt ==
    ASSUME NEW table \in [0..3 -> Nat \ {0}], NEW length \in Nat, NEW far \in Nat, length >= 2,
           NEW t, Len(t) \in Nat, NEW p \in Nat, At(t, p, CopyBits(table, length, far))
    PROVE  /\ length < 5 =>
                /\ At(t, p, Bits(length - 2, 2))
                /\ At(t, p + 2, Bits(far, table[length - 2]))
           /\ length >= 5 =>
                /\ At(t, p, Bits(3, 2))
                /\ At(t, p + 2, Bits(Choice(far), 1))
                /\ At(t, p + 3, Bits(far, Width(table, far)))
                /\ At(t, (p + 3) + Width(table, far), Groups(length - 5, 3))
<1>1. CASE length < 5
  <2> DEFINE a == Bits(length - 2, 2)
             b == Bits(far, table[length - 2])
  <2>1. a \in Seq(Bit) /\ Len(a) = 2 /\ b \in Seq(Bit) /\ CopyBits(table, length, far) = a \o b
    BY <1>1, CopyType
  <2> HIDE DEF a, b
  <2>2. At(t, p, a) /\ At(t, p + 2, b)
    BY <2>1, AtSplit
  <2> QED
    BY <1>1, <2>2 DEF a, b
<1>2. CASE length >= 5
  <2> DEFINE w == Width(table, far)
             c == Choice(far)
             b == Bits(far, w)
             g == Groups(length - 5, 3)
             e == <<c>> \o b
             f == <<1, 1>> \o e
  <2>1. /\ w \in Nat /\ f \in Seq(Bit) /\ e \in Seq(Bit) /\ Len(e) = 1 + w
        /\ CopyBits(table, length, far) = f \o g
    BY <1>2, CopyType
  <2>2. g \in Seq(Bit)
    <3>1. length - 5 \in Nat
      BY <1>2
    <3> QED
      BY <3>1, GroupsType
  <2>3. c \in {0, 1} /\ <<1, 1>> \in Seq(Bit) /\ Len(<<1, 1>>) = 2
    BY DEF Choice, Bit
  <2>4. b \in Seq(Bit) /\ Len(b) = w
    <3> HIDE DEF w
    <3> QED
      BY <2>1, BitsType
  <2>5. <<c>> \in Seq(Bit) /\ Len(<<c>>) = 1
    <3> HIDE DEF c
    <3> QED
      BY <2>3 DEF Bit
  <2> HIDE DEF w, c, b, g
  <2>6. Len(f) = 3 + w
    <3> HIDE DEF e
    <3>1. Len(<<1, 1>> \o e) = Len(<<1, 1>>) + Len(e)
      BY <2>1, <2>3, Concat
    <3> QED
      BY <2>1, <2>3, <3>1
  <2>7. At(t, p, f) /\ At(t, p + (3 + w), g)
    <3> HIDE DEF f
    <3>1. f \in Seq(Bit) /\ At(t, p, f \o g)
      BY <2>1
    <3>2. At(t, p, f) /\ At(t, p + Len(f), g)
      BY <2>2, <3>1, AtSplit
    <3> QED
      BY <2>6, <3>2
  <2>8. At(t, p, <<1, 1>>) /\ At(t, p + 2, e)
    <3> HIDE DEF e
    <3> QED
      BY <2>1, <2>3, <2>7, AtSplit
  <2>9. At(t, p + 2, <<c>>) /\ At(t, (p + 2) + 1, b)
    <3> DEFINE r == p + 2
    <3>1. r \in Nat /\ At(t, r, <<c>> \o b)
      BY <2>8
    <3> HIDE DEF r
    <3>2. At(t, r, <<c>>) /\ At(t, r + Len(<<c>>), b)
      BY <2>4, <2>5, <3>1, AtSplit
    <3> QED
      BY <2>5, <3>2 DEF r
  <2>10. (p + 2) + 1 = p + 3 /\ p + (3 + w) = (p + 3) + w
    BY <2>1
  <2>11. At(t, p, Bits(3, 2)) /\ At(t, p + 2, Bits(c, 1))
    BY <2>3, <2>8, <2>9, AllSet, OneBit
  <2>12. At(t, p + 3, b) /\ At(t, (p + 3) + w, g)
    BY <2>7, <2>9, <2>10
  <2> QED
    BY <1>2, <2>11, <2>12 DEF w, c, b, g
<1> QED
  BY <1>1, <1>2

-----------------------------------------------------------------------------
(* Files that a compressor has written.                                    *)

Genuine(f) ==
    /\ f.rounds # <<>>
    /\ Writable(f.rounds, f.table)
    /\ \E front \in Seq(Word) \ {<<>>} : f = Compressed(f.rounds, f.table, front)

Parts(f) == [i \in 1..Len(f.rounds) |-> RoundBits(f.table, f.rounds[i])]

\* The bits of the file, and where in them the round r begins.
Stream(f) == [i \in 1..f.unused |-> 1] \o FlattenSeq(Parts(f))
Begin(f, r) == f.unused + (IF r = 1 THEN 0 ELSE Len(Flat(Parts(f))[r - 1]))

\* Bits of it are left over for a whole number of words.
LEMMA WholeWords ==
    ASSUME NEW m \in Nat \ {0}, NEW l \in Nat
    PROVE  LET unused == (m - (l % m)) % m
           IN  /\ unused \in 0..(m - 1)
               /\ \E w \in Nat : unused + l = m * w /\ (unused + l) \div m = w
                                 /\ (l > 0 => w > 0)
<1> DEFINE s == l % m
           q == l \div m
           unused == (m - s) % m
<1>1. s \in 0..(m - 1) /\ q \in Nat /\ l = m * q + s
  OBVIOUS
<1>2. s = 0 => m - s = m
  BY <1>1
<1>3. m % m = 0
  OBVIOUS
<1> HIDE DEF s, q
<1>4. unused = IF s = 0 THEN 0 ELSE m - s
  <2>1. CASE s = 0
    BY <1>2, <1>3, <2>1
  <2>2. CASE s # 0
    <3> DEFINE d == m - s
    <3>1. d \in Nat /\ d < m
      BY <1>1, <2>2
    <3> HIDE DEF d
    <3>2. d % m = d
      BY <3>1
    <3> QED
      BY <2>2, <3>2 DEF d
  <2> QED
    BY <2>1, <2>2
<1> DEFINE w == IF s = 0 THEN q ELSE q + 1
<1>5. w \in Nat /\ unused + l = m * w
  <2>1. m * (q + 1) = m * q + m
    BY <1>1
  <2> HIDE DEF unused
  <2>2. CASE s = 0
    BY <1>1, <1>4, <2>2
  <2>3. CASE s # 0
    <3> DEFINE a == m * q
    <3>1. a \in Nat /\ l = a + s /\ unused = m - s
      BY <1>1, <1>4, <2>3
    <3> HIDE DEF a
    <3>2. unused + l = a + m
      BY <1>1, <3>1
    <3> QED
      BY <1>1, <2>1, <2>3, <3>2 DEF a
  <2> QED
    BY <2>2, <2>3
<1>6. unused \in 0..(m - 1)
  <2> HIDE DEF unused
  <2> QED
    BY <1>1, <1>4
<1> HIDE DEF w, unused
<1>7. (unused + l) \div m = w
  <2>1. (m * w) \div m = w
    BY <1>5
  <2> QED
    BY <1>5, <2>1
<1>8. l > 0 => w > 0
  <2>1. w = 0 => unused + l = 0
    BY <1>5
  <2> QED
    BY <1>5, <1>6, <2>1
<1> QED
  BY <1>5, <1>6, <1>7, <1>8 DEF unused, s

\* The bits of a round are those of its bytes and then those of its copy.
LEMMA RoundBitsType ==
    ASSUME NEW f, Packed(f), Genuine(f), NEW r \in 1..Len(f.rounds)
    PROVE  LET round == f.rounds[r]
               plain == BytesBits(round.bytes)
               copy == CopyBits(f.table, round.length, round.far)
           IN  /\ plain \in Seq(Bit) /\ Len(plain) \in Nat /\ Len(plain) > 0
               /\ copy \in Seq(Bit) /\ Len(copy) \in Nat
               /\ RoundBits(f.table, round) = plain \o copy
               /\ RoundBits(f.table, round) \in Seq(Bit)
               /\ Len(RoundBits(f.table, round)) = Len(plain) + Len(copy)
               /\ Len(RoundBits(f.table, round)) > 0
<1> DEFINE round == f.rounds[r]
           plain == BytesBits(round.bytes)
           copy == CopyBits(f.table, round.length, round.far)
<1>1. /\ round.bytes \in Seq(Byte) /\ round.length \in Nat /\ round.far \in Nat
      /\ round.length = 0 \/ round.length >= 2
      /\ f.table \in [0..3 -> Nat \ {0}]
  <2>1. Writable(f.rounds, f.table)
    BY DEF Genuine
  <2>2. round.bytes \in Seq(Byte) /\ round.length \in Nat /\ round.far \in Nat
        /\ (round.length = 0 \/ round.length >= 2)
    BY <2>1, RoundType
  <2> QED
    BY <2>2 DEF Packed
<1>2. RoundBits(f.table, round) = plain \o copy
  BY DEF RoundBits
<1> HIDE DEF round
<1>3. plain \in Seq(Bit) /\ Len(plain) \in Nat /\ Len(plain) > 0
  <2> DEFINE size == Len(round.bytes)
  <2>1. size \in Nat /\ ByteBits \in Nat
    BY <1>1, WidthAssumption
  <2>2. plain \in Seq(Bit) /\ (size = 0 => plain = <<1>>)
    BY <1>1, BytesType
  <2>3. CASE size = 0
    BY <2>2, <2>3
  <2>4. CASE size # 0
    <3>1. size > 0 /\ size - 1 \in Nat
      BY <2>1, <2>4
    <3>2. /\ Groups(size - 1, 2) \in Seq(Bit)
          /\ Len(plain) = (1 + Len(Groups(size - 1, 2))) + ByteBits * size
      BY <1>1, <3>1, BytesType
    <3>3. Len(Groups(size - 1, 2)) \in Nat /\ ByteBits * size \in Nat
      BY <2>1, <3>2
    <3> QED
      BY <2>2, <3>2, <3>3
  <2> QED
    BY <2>3, <2>4
<1>4. copy \in Seq(Bit) /\ Len(copy) \in Nat
  <2>1. CASE round.length = 0
    <3>1. copy = <<>>
      BY <2>1 DEF CopyBits
    <3> QED
      BY <3>1
  <2>2. CASE round.length # 0
    <3>1. copy \in Seq(Bit)
      BY <1>1, <2>2, CopyType
    <3> QED
      BY <3>1
  <2> QED
    BY <2>1, <2>2
<1> HIDE DEF plain, copy
<1>5. plain \o copy \in Seq(Bit) /\ Len(plain \o copy) = Len(plain) + Len(copy)
  BY <1>3, <1>4, Concat
<1> QED
  BY <1>2, <1>3, <1>4, <1>5 DEF round, plain, copy

\* The bits of a file: some that are not used, and then the rounds.
LEMMA StreamType ==
    ASSUME NEW f, Packed(f), Genuine(f)
    PROVE  /\ Len(f.rounds) \in Nat /\ Len(f.rounds) > 0
           /\ Parts(f) \in Seq(Seq(Bit)) /\ Len(Parts(f)) = Len(f.rounds)
           /\ \A r \in 1..Len(f.rounds) : Parts(f)[r] = RoundBits(f.table, f.rounds[r])
           /\ f.unused \in Nat
           /\ LET flat == FlattenSeq(Parts(f))
              IN  /\ flat = Flat(Parts(f))[Len(f.rounds)]
                  /\ flat \in Seq(Bit) /\ Len(flat) \in Nat /\ Len(flat) > 0
                  /\ Stream(f) \in Seq(Bit)
                  /\ Len(Stream(f)) = f.unused + Len(flat)
                  /\ \A q \in 1..Len(flat) : Stream(f)[f.unused + q] = flat[q]
<1> DEFINE n == Len(f.rounds)
           flat == FlattenSeq(Parts(f))
           ones == [i \in 1..f.unused |-> 1]
<1>1. n \in Nat /\ n > 0
  <2>1. f.rounds # <<>> /\ f.rounds \in Seq([bytes : Seq(Byte), length : Nat, far : Nat])
    BY DEF Genuine, Writable
  <2> QED
    BY <2>1
<1>2. \A r \in 1..n : RoundBits(f.table, f.rounds[r]) \in Seq(Bit)
                      /\ Len(RoundBits(f.table, f.rounds[r])) > 0
  BY RoundBitsType
<1>3. Parts(f) \in Seq(Seq(Bit)) /\ Len(Parts(f)) = n
      /\ \A r \in 1..n : Parts(f)[r] = RoundBits(f.table, f.rounds[r])
  BY <1>1, <1>2 DEF Parts
<1> HIDE DEF n
<1>4. Parts(f) # <<>> /\ n \in 1..Len(Parts(f))
  BY <1>1, <1>3
<1>5. flat = Flat(Parts(f))[n]
  BY <1>3, <1>4, FlattenIsFlat
<1>6. flat \in Seq(Bit) /\ Len(flat) \in Nat
  BY <1>3, <1>4, <1>5, FlatType
<1>7. Len(flat) > 0
  <2> DEFINE base == IF n = 1 THEN 0 ELSE Len(Flat(Parts(f))[n - 1])
  <2>1. base \in Nat /\ Len(Flat(Parts(f))[n]) = base + Len(Parts(f)[n])
    BY <1>3, <1>4, FlatPart
  <2> HIDE DEF base
  <2>2. Len(Parts(f)[n]) > 0 /\ Len(Parts(f)[n]) \in Nat
    BY <1>1, <1>2, <1>3
  <2> QED
    BY <1>5, <2>1, <2>2
<1>8. f.unused \in Nat
  BY WidthAssumption DEF Packed
<1>9. ones \in Seq(Bit) /\ Len(ones) = f.unused
  BY <1>8 DEF Bit
<1>10. Stream(f) = ones \o flat
  BY DEF Stream
<1> HIDE DEF flat, ones
<1>11. Stream(f) \in Seq(Bit) /\ Len(Stream(f)) = f.unused + Len(flat)
       /\ \A q \in 1..Len(flat) : Stream(f)[f.unused + q] = flat[q]
  <2>1. /\ ones \o flat \in Seq(Bit)
        /\ Len(ones \o flat) = Len(ones) + Len(flat)
        /\ \A q \in 1..Len(flat) : (ones \o flat)[Len(ones) + q] = flat[q]
    BY <1>6, <1>9, Concat
  <2> QED
    BY <1>9, <1>10, <2>1
<1> QED
  BY <1>1, <1>3, <1>5, <1>6, <1>7, <1>8, <1>11 DEF n, flat

\* The words of such a file hold its bits; there are words in front of them.
LEMMA GenuineFile ==
    ASSUME NEW f, Packed(f), Genuine(f)
    PROVE  /\ f.known
           /\ f.length = Len(Outputs(f.rounds)[Len(f.rounds)])
           /\ \E n \in Nat : /\ n > 0 /\ n < Len(f.words)
                             /\ Len(Stream(f)) = WordBits * n
                             /\ \A w \in 1..n, i \in 1..WordBits :
                                  f.words[w][i] = Stream(f)[WordBits * (w - 1) + i]
<1> DEFINE flat == FlattenSeq(Parts(f))
           l == Len(flat)
           unused == (WordBits - (l % WordBits)) % WordBits
<1> DEFINE rounds == f.rounds
           table == f.table
<1>1. PICK front \in Seq(Word) \ {<<>>} : f = Compressed(rounds, table, front)
  BY DEF Genuine
<1> DEFINE all == [i \in 1..unused |-> 1] \o flat
<1>2. /\ f.known /\ f.length = Len(Expanded(rounds)) /\ f.unused = unused
      /\ f.words = [w \in 1..(Len(all) \div WordBits) |->
                      [i \in 1..WordBits |-> all[WordBits * (w - 1) + i]]] \o front
  <2>1. flat = FlattenSeq([i \in 1..Len(rounds) |-> RoundBits(table, rounds[i])])
    BY DEF Parts
  <2>2. f = Compressed(rounds, table, front)
    BY <1>1
  <2> HIDE DEF flat, rounds, table
  <2>3. LET b == Compressed(rounds, table, front)
        IN  /\ b.known /\ b.length = Len(Expanded(rounds)) /\ b.unused = unused
            /\ b.words = [w \in 1..(Len(all) \div WordBits) |->
                      [i \in 1..WordBits |-> all[WordBits * (w - 1) + i]]] \o front
    BY <2>1 DEF Compressed
  <2> QED
    BY <2>2, <2>3
<1> DEFINE whole == [w \in 1..(Len(Stream(f)) \div WordBits) |->
                       [i \in 1..WordBits |-> Stream(f)[WordBits * (w - 1) + i]]]
<1>3. f.words = whole \o front
  <2>2. Stream(f) = all
    BY <1>2 DEF Stream
  <2> HIDE DEF all
  <2> QED
    BY <1>2, <2>2
<1>4. f.known /\ f.length = Len(Expanded(f.rounds))
  BY <1>2
<1>5. l \in Nat /\ l > 0 /\ Len(Stream(f)) = unused + l /\ Stream(f) \in Seq(Bit)
  BY <1>2, StreamType
<1>6. WordBits \in Nat \ {0}
  BY WidthAssumption
<1> HIDE DEF l
<1>7. PICK n \in Nat : unused + l = WordBits * n /\ (unused + l) \div WordBits = n /\ n > 0
  BY <1>5, <1>6, WholeWords
<1> HIDE DEF unused
<1>8. /\ Len(Stream(f)) = WordBits * n
      /\ whole = [w \in 1..n |-> [i \in 1..WordBits |-> Stream(f)[WordBits * (w - 1) + i]]]
  BY <1>5, <1>7
<1>9. ASSUME NEW w \in 1..n, NEW i \in 1..WordBits
      PROVE  Stream(f)[WordBits * (w - 1) + i] \in Bit
  <2>1. /\ w - 1 \in Nat /\ WordBits * (w - 1) \in Nat
        /\ WordBits * n = WordBits * (w - 1) + WordBits * (n - (w - 1))
    BY <1>6
  <2>2. WordBits * (n - (w - 1)) >= WordBits
    <3> DEFINE d == n - (w - 1)
    <3>1. d \in Nat /\ d >= 1
      OBVIOUS
    <3> HIDE DEF d
    <3>2. WordBits * d >= WordBits
      BY <1>6, <3>1
    <3> QED
      BY <3>2 DEF d
  <2> DEFINE a == WordBits * (w - 1)
             b == WordBits * n
             c == WordBits * (n - (w - 1))
  <2>3. a \in Nat /\ b = a + c /\ c >= WordBits /\ c \in Nat /\ Len(Stream(f)) = b
    BY <1>6, <1>8, <2>1, <2>2
  <2> HIDE DEF a, b, c
  <2>4. a + i \in 1..Len(Stream(f))
    BY <1>6, <2>3
  <2>5. Stream(f)[a + i] \in Bit
    BY <1>5, <2>4
  <2> QED
    BY <2>5 DEF a
<1>10. whole \in Seq(Word) /\ Len(whole) = n
  <2> DEFINE word(w) == [i \in 1..WordBits |-> Stream(f)[WordBits * (w - 1) + i]]
  <2>1. \A w \in 1..n : word(w) \in Word
    BY <1>9 DEF Word
  <2>2. whole = [w \in 1..n |-> word(w)]
    BY <1>8
  <2> HIDE DEF word
  <2>3. [w \in 1..n |-> word(w)] \in [1..n -> Word]
    BY <2>1
  <2>4. \A s \in [1..n -> Word] : s \in Seq(Word) /\ Len(s) = n
    OBVIOUS
  <2> QED
    BY <2>2, <2>3, <2>4
<1>11. \A w \in 1..n, i \in 1..WordBits : whole[w][i] = Stream(f)[WordBits * (w - 1) + i]
  BY <1>8
<1> HIDE DEF whole
<1>12. Len(front) \in Nat /\ Len(front) > 0
  OBVIOUS
<1>13. Len(whole \o front) = n + Len(front) /\ \A w \in 1..n : (whole \o front)[w] = whole[w]
  BY <1>10, Concat
<1>14. f.length = Len(Outputs(f.rounds)[Len(f.rounds)])
  BY <1>4, ExpandedIsLast
<1>15. n > 0 /\ n < Len(f.words)
  BY <1>3, <1>7, <1>12, <1>13
<1>16. \A w \in 1..n, i \in 1..WordBits : f.words[w][i] = Stream(f)[WordBits * (w - 1) + i]
  BY <1>3, <1>11, <1>13
<1> QED
  BY <1>4, <1>8, <1>14, <1>15, <1>16

\* The rounds are in the stream one behind the other.
LEMMA GenuineRound ==
    ASSUME NEW f, Packed(f), Genuine(f), NEW r \in 1..Len(f.rounds)
    PROVE  LET round == f.rounds[r]
               plain == BytesBits(round.bytes)
               copy == CopyBits(f.table, round.length, round.far)
           IN  /\ Begin(f, r) \in Nat /\ Len(Stream(f)) \in Nat
               /\ Len(plain) \in Nat /\ Len(copy) \in Nat
               /\ At(Stream(f), Begin(f, r), plain)
               /\ At(Stream(f), Begin(f, r) + Len(plain), copy)
               /\ Begin(f, 1) = f.unused
               /\ Begin(f, r + 1) = (Begin(f, r) + Len(plain)) + Len(copy)
<1> DEFINE round == f.rounds[r]
           plain == BytesBits(round.bytes)
           copy == CopyBits(f.table, round.length, round.far)
           parts == Parts(f)
           n == Len(f.rounds)
           part == RoundBits(f.table, round)
           F == Flat(parts)
           base == IF r = 1 THEN 0 ELSE Len(F[r - 1])
           s == Stream(f)
<1>1. /\ plain \in Seq(Bit) /\ Len(plain) \in Nat
      /\ copy \in Seq(Bit) /\ Len(copy) \in Nat
      /\ part = plain \o copy /\ part \in Seq(Bit) /\ Len(part) = Len(plain) + Len(copy)
  BY RoundBitsType
<1>2. /\ n \in Nat /\ parts \in Seq(Seq(Bit)) /\ Len(parts) = n
      /\ parts[r] = part /\ f.unused \in Nat
      /\ s \in Seq(Bit) /\ Len(s) = f.unused + Len(F[n]) /\ Len(F[n]) \in Nat
      /\ \A q \in 1..Len(F[n]) : s[f.unused + q] = F[n][q]
  BY StreamType
<1>3. Begin(f, r) = f.unused + base /\ Begin(f, 1) = f.unused
  BY <1>2 DEF Begin
<1>4. Begin(f, r + 1) = f.unused + Len(F[r])
  <2>1. r + 1 # 1 /\ (r + 1) - 1 = r
    BY <1>2
  <2> QED
    BY <2>1 DEF Begin
<1>5. /\ base \in Nat
      /\ Len(F[r]) = base + Len(parts[r])
      /\ Len(F[r]) <= Len(F[Len(parts)])
      /\ \A q \in 1..Len(parts[r]) : F[Len(parts)][base + q] = parts[r][q]
  <2>1. r \in 1..Len(parts)
    BY <1>2
  <2> HIDE DEF parts
  <2>2. LET G == Flat(parts)
            b == IF r = 1 THEN 0 ELSE Len(G[r - 1])
        IN  /\ b \in Nat
            /\ Len(G[r]) = b + Len(parts[r])
            /\ Len(G[r]) <= Len(G[Len(parts)])
            /\ \A q \in 1..Len(parts[r]) : G[Len(parts)][b + q] = parts[r][q]
    <3>1. parts \in Seq(Seq(Bit))
      BY <1>2
    <3> QED
      BY <2>1, <3>1, FlatPart
  <2> QED
    BY <2>2
<1> HIDE DEF round, plain, copy, parts, n, part, F, base, s
<1>6. Len(part) \in Nat
  BY <1>1
<1>7. ASSUME NEW q \in 1..Len(part) PROVE s[(f.unused + base) + q] = part[q]
  <2>1. base + q \in 1..Len(F[n]) /\ (f.unused + base) + q = f.unused + (base + q)
    BY <1>2, <1>5, <1>6
  <2>2. s[f.unused + (base + q)] = F[n][base + q]
    BY <1>2, <2>1
  <2> QED
    BY <1>2, <1>5, <2>1, <2>2
<1>8. (f.unused + base) + Len(part) <= Len(s)
  BY <1>2, <1>5, <1>6
<1>9. At(s, f.unused + base, part) /\ f.unused + base \in Nat
  BY <1>2, <1>5, <1>7, <1>8 DEF At
<1> DEFINE p == f.unused + base
<1>10. At(s, p, plain) /\ At(s, p + Len(plain), copy)
  <2>1. p \in Nat /\ At(s, p, plain \o copy) /\ Len(s) \in Nat
    BY <1>1, <1>2, <1>9
  <2> HIDE DEF p
  <2> QED
    BY <1>1, <2>1, AtSplit
<1>11. f.unused + Len(F[r]) = (p + Len(plain)) + Len(copy)
  BY <1>1, <1>2, <1>5
<1> QED
  BY <1>1, <1>2, <1>3, <1>4, <1>9, <1>10, <1>11 DEF round, plain, copy, s, F

-----------------------------------------------------------------------------
(* Reading such a file.                                                    *)

\* How many bits have been read, and how many will have been with the value
\* that is being read.
Pos == WordBits * (Len(file.words) - Len(left)) - bits
Mark == Pos + need

\* The words and bits that have not been read are those of the stream.
Words ==
    /\ Len(left) <= Len(file.words)
    /\ \A w \in 1..Len(left) : left[w] = file.words[(Len(file.words) - Len(left)) + w]
    /\ pc # "open" =>
         /\ Len(left) < Len(file.words)
         /\ \A i \in 1..bits :
              Pos + i <= Len(Stream(file)) => current[i] = Stream(file)[Pos + i]

\* The value being read is v.
Reads(v) == data = v \div Values[need] /\ At(Stream(file), Pos, Bits(v, need))

\* The highest bit of a number, and the others.
LEMMA BitsAt ==
    ASSUME NEW t, Len(t) \in Nat, NEW p \in Nat, NEW v \in Nat, NEW k \in Nat, k > 0,
           At(t, p, Bits(v, k))
    PROVE  /\ p + 1 <= Len(t)
           /\ t[p + 1] = (v \div Values[k - 1]) % 2
           /\ At(t, p + 1, Bits(v, k - 1))
<1>1. k - 1 \in Nat /\ Len(Bits(v, k)) = k /\ Len(Bits(v, k - 1)) = k - 1
  BY BitsType
<1>2. p + k <= Len(t) /\ \A i \in 1..k : t[p + i] = Bits(v, k)[i]
  BY <1>1 DEF At
<1>3. \A i \in 1..k : Bits(v, k)[i] = (v \div Values[k - i]) % 2
  BY DEF Bits
<1>4. \A i \in 1..(k - 1) : Bits(v, k - 1)[i] = (v \div Values[(k - 1) - i]) % 2
  BY DEF Bits
<1>5. ASSUME NEW i \in 1..(k - 1) PROVE t[(p + 1) + i] = Bits(v, k - 1)[i]
  <2>1. i + 1 \in 1..k /\ (p + 1) + i = p + (i + 1) /\ k - (i + 1) = (k - 1) - i
    BY <1>1
  <2>2. t[p + (i + 1)] = Bits(v, k)[i + 1]
    BY <1>2, <2>1
  <2>3. Bits(v, k)[i + 1] = (v \div Values[k - (i + 1)]) % 2
    BY <1>3, <2>1
  <2> QED
    BY <1>4, <2>1, <2>2, <2>3
<1>6. 1 \in 1..k
  OBVIOUS
<1>7. t[p + 1] = (v \div Values[k - 1]) % 2
  BY <1>2, <1>3, <1>6
<1>8. (p + 1) + (k - 1) <= Len(t) /\ p + 1 <= Len(t)
  BY <1>1, <1>2
<1> QED
  BY <1>1, <1>5, <1>7, <1>8 DEF At

\* Where a word has been read, there is a place in the stream.
LEMMA PosType ==
    ASSUME Inv, Words, pc # "open"
    PROVE  /\ Len(file.words) - Len(left) \in Nat \ {0}
           /\ Pos \in Nat /\ Mark \in Nat /\ need \in Nat /\ bits \in 1..WordBits
           /\ WordBits \in Nat \ {0}
<1>1. /\ bits \in 1..WordBits /\ need \in Nat
      /\ Len(left) \in Nat /\ Len(file.words) \in Nat
      /\ WordBits \in Nat \ {0}
  BY WidthAssumption DEF Inv, TypeOK, Packed
<1> DEFINE k == Len(file.words) - Len(left)
<1>2. k \in Nat /\ k >= 1
  BY <1>1 DEF Words
<1> HIDE DEF k
<1>3. WordBits * k \in Nat /\ WordBits * k >= WordBits
  BY <1>1, <1>2
<1>4. Pos \in Nat
  BY <1>1, <1>3 DEF Pos, k
<1> QED
  BY <1>1, <1>2, <1>4 DEF Mark, k

\* Reading a bit.
LEMMA NextBit ==
    ASSUME Inv, Genuine(file), Words, ~ error, ReadBit, NEW v \in Nat, Reads(v)
    PROVE  Words' /\ ~ error' /\ Reads(v)' /\ Mark' = Mark
<1> DEFINE t == Stream(file)
           l == Len(file.words)
           k == l - Len(left)
<1>1. /\ Packed(file) /\ Fits /\ need \in Nat /\ data \in Nat /\ current \in Word
      /\ left \in Seq(Word) /\ Len(left) \in Nat /\ l \in Nat
  BY DEF Inv, TypeOK, Packed
<1>2. /\ need > 0 /\ need' = need - 1 /\ data' = 2 * data + current[1]
      /\ UNCHANGED <<file, pc>>
  BY DEF ReadBit
<1>3. pc # "open"
  <2>1. pc = "open" => need = 0
    BY <1>1 DEF Fits
  <2> QED
    BY <1>2, <2>1
<1>4. k \in Nat \ {0} /\ Pos \in Nat /\ bits \in 1..WordBits /\ WordBits \in Nat \ {0}
  BY <1>3, PosType
<1>5. PICK n \in Nat : /\ n > 0 /\ n < l /\ Len(t) = WordBits * n
                       /\ \A w \in 1..n, i \in 1..WordBits :
                            file.words[w][i] = t[WordBits * (w - 1) + i]
  BY <1>1, GenuineFile
<1>6. Len(t) \in Nat
  BY <1>4, <1>5
<1>7. At(t, Pos, Bits(v, need)) /\ data = v \div Values[need]
  BY DEF Reads
<1> HIDE DEF t
<1>8. Pos + 1 <= Len(t) /\ t[Pos + 1] = (v \div Values[need - 1]) % 2
      /\ At(t, Pos + 1, Bits(v, need - 1))
  BY <1>1, <1>2, <1>4, <1>6, <1>7, BitsAt
<1>9. current[1] = t[Pos + 1]
  <2>1. 1 \in 1..bits
    BY <1>4
  <2> QED
    BY <1>3, <1>8, <2>1 DEF Words, t
<1>10. data' = v \div Values[need']
  <2> DEFINE m == Values[need - 1]
  <2>1. need - 1 \in Nat /\ (need - 1) + 1 = need
    BY <1>1, <1>2
  <2>2. m \in Nat \ {0} /\ Values[need] = 2 * m
    <3> DEFINE j == need - 1
    <3>1. j \in Nat /\ j + 1 = need
      BY <2>1
    <3> HIDE DEF j
    <3>2. Values[j] \in Nat \ {0} /\ Values[j + 1] = 2 * Values[j]
      BY <3>1, ValuesType, ValuesStep
    <3> QED
      BY <3>1, <3>2 DEF j
  <2> HIDE DEF m
  <2>3. v \div m = 2 * (v \div (2 * m)) + ((v \div m) % 2)
    BY <2>2, DivStep
  <2>4. data' = 2 * (v \div (2 * m)) + ((v \div m) % 2)
    BY <1>2, <1>7, <1>8, <1>9, <2>2 DEF m
  <2> QED
    BY <1>2, <2>3, <2>4 DEF m
<1>11. WordBits * (k + 1) = WordBits * k + WordBits /\ WordBits * k \in Nat
       /\ Pos = WordBits * k - bits
  BY <1>4 DEF Pos
<1>12. CASE bits # 1
  <2>1. bits' = bits - 1 /\ current' = Shift(current, 1) /\ UNCHANGED <<left, error>>
    BY <1>12 DEF ReadBit
  <2>2. Pos' = Pos + 1 /\ (Len(file.words) - Len(left))' = k
    BY <1>1, <1>2, <1>4, <1>11, <2>1 DEF Pos
  <2>3. ASSUME NEW i \in 1..bits', Pos' + i <= Len(t)
        PROVE  current'[i] = t[Pos' + i]
    <3>1. i + 1 \in 1..bits /\ i \in 1..WordBits /\ i + 1 <= WordBits /\ i \in Nat
      BY <1>4, <1>12, <2>1
    <3>2. current'[i] = current[i + 1]
      BY <2>1, <3>1 DEF Shift
    <3>3. Pos' + i = Pos + (i + 1)
      BY <1>4, <2>2, <3>1
    <3>4. Pos + (i + 1) <= Len(t)
      BY <2>3, <3>3
    <3>5. current[i + 1] = t[Pos + (i + 1)]
      BY <1>3, <3>1, <3>4 DEF Words, t
    <3> QED
      BY <3>2, <3>3, <3>5
  <2>4. Words'
    BY <1>2, <2>1, <2>2, <2>3 DEF Words, t
  <2>5. Mark' = Mark
    BY <1>1, <1>2, <1>4, <2>2 DEF Mark
  <2>6. Reads(v)'
    BY <1>2, <1>8, <1>10, <2>2 DEF Reads, t
  <2> QED
    BY <2>1, <2>4, <2>5, <2>6
<1>13. CASE bits = 1
  <2>1. bits' = WordBits /\ LoadWord(Shift(current, 1))
    BY <1>13 DEF ReadBit
  <2>2. Pos + 1 = WordBits * k
    BY <1>4, <1>11, <1>13
  <2>3. k <= n
    <3>1. WordBits * k <= WordBits * n
      BY <1>5, <1>8, <2>2
    <3>2. SUFFICES ASSUME n < k PROVE FALSE
      BY <1>4
    <3>3. n + 1 <= k /\ WordBits * (n + 1) = WordBits * n + WordBits
      BY <1>4, <3>2
    <3>4. WordBits * (n + 1) <= WordBits * k
      BY <1>4, <3>3
    <3> QED
      BY <1>4, <1>11, <3>1, <3>3, <3>4
  <2>4. Len(left) > 0 /\ left # <<>>
    <3>1. Len(left) > 0
      BY <1>1, <1>4, <1>5, <2>3
    <3> QED
      BY <3>1
  <2>5. /\ current' = left[1] /\ left' = Tail(left) /\ UNCHANGED error
        /\ Len(left') = Len(left) - 1
        /\ \A w \in 1..(Len(left) - 1) : left'[w] = left[w + 1]
    BY <1>1, <2>1, <2>4 DEF LoadWord
  <2>6. Len(file.words') - Len(left') = k + 1 /\ file' = file
    <3>1. file' = file
      BY <1>2
    <3> DEFINE a == Len(left)
               b == Len(left')
    <3>2. a \in Nat /\ l \in Nat /\ b = a - 1
      BY <1>1, <2>5
    <3> HIDE DEF a, b, l, k
    <3>3. l - b = (l - a) + 1
      BY <3>2
    <3> QED
      BY <3>1, <3>3 DEF a, b, l, k
  <2>7. Pos' = Pos + 1
    <3> DEFINE j == Len(file.words') - Len(left')
    <3>1. Pos' = WordBits * j - bits'
      BY DEF Pos
    <3>2. j = k + 1
      BY <2>6
    <3> HIDE DEF j, k
    <3>3. Pos' = WordBits * (k + 1) - WordBits
      BY <2>1, <3>1, <3>2
    <3> QED
      BY <1>4, <1>11, <2>2, <3>3
  <2>8. ASSUME NEW w \in 1..Len(left')
        PROVE  left'[w] = file.words[(k + 1) + w]
    <3>1. w \in 1..(Len(left) - 1) /\ w + 1 \in 1..Len(left) /\ k + (w + 1) = (k + 1) + w
      <4> DEFINE a == Len(left)
                 b == Len(left')
      <4>1. a \in Nat /\ b = a - 1 /\ w \in 1..b
        BY <1>1, <2>5, <2>8
      <4>2. k \in Nat
        BY <1>4
      <4> HIDE DEF a, b, k
      <4>3. w \in 1..(a - 1) /\ w + 1 \in 1..a /\ k + (w + 1) = (k + 1) + w
        BY <4>1, <4>2
      <4> QED
        BY <4>3 DEF a, b, k
    <3>2. left[w + 1] = file.words[k + (w + 1)]
      BY <3>1 DEF Words
    <3> QED
      BY <2>5, <3>1, <3>2
  <2>9. ASSUME NEW i \in 1..bits', Pos' + i <= Len(t)
        PROVE  current'[i] = t[Pos' + i]
    <3>1. i \in 1..WordBits
      BY <2>1
    <3>2. WordBits * k + i <= WordBits * n
      BY <1>5, <2>2, <2>7, <2>9
    <3>3. k < n
      <4>1. SUFFICES ASSUME k = n PROVE FALSE
        BY <1>4, <2>3
      <4> QED
        BY <1>11, <3>1, <3>2, <4>1
    <3>4. k + 1 \in 1..n /\ (k + 1) - 1 = k
      BY <1>4, <3>3
    <3>5. file.words[k + 1][i] = t[WordBits * k + i]
      BY <1>5, <3>1, <3>4
    <3>6. left[1] = file.words[k + 1]
      <4>1. 1 \in 1..Len(left)
        BY <1>1, <2>4
      <4> QED
        BY <4>1 DEF Words
    <3> QED
      BY <2>2, <2>5, <2>7, <3>5, <3>6
  <2>10. Words'
    <3>1. Len(left') < Len(file'.words)
      BY <1>1, <1>4, <2>5, <2>6
    <3>2. Len(left') <= Len(file'.words)
      BY <1>1, <2>5, <2>6, <3>1
    <3>3. \A w \in 1..Len(left') : left'[w] = file'.words[(Len(file'.words) - Len(left')) + w]
      BY <2>6, <2>8
    <3> QED
      BY <2>6, <2>9, <3>1, <3>2, <3>3 DEF Words, t
  <2>11. Mark' = Mark
    BY <1>1, <1>2, <1>4, <2>7 DEF Mark
  <2>12. Reads(v)'
    BY <1>2, <1>8, <1>10, <2>7 DEF Reads, t
  <2> QED
    BY <2>5, <2>10, <2>11, <2>12
<1> QED
  BY <1>12, <1>13

-----------------------------------------------------------------------------
(* Where the parts of a round are, and what has been written when they     *)
(* have been read.                                                         *)

Size(f, r) == Len(f.rounds[r].bytes)
BytesStart(f, r) == (Begin(f, r) + 1) + Len(Groups(Size(f, r) - 1, 2))
CopyStart(f, r) == Begin(f, r) + Len(BytesBits(f.rounds[r].bytes))
MoreStart(f, r) == (CopyStart(f, r) + 3) + Width(f.table, f.rounds[r].far)

\* The bytes of a round: the bit that announces them, their number, themselves.
LEMMA BytesPlace ==
    ASSUME NEW f, Packed(f), Genuine(f), NEW r \in 1..Len(f.rounds)
    PROVE  LET size == Size(f, r)
           IN  /\ size \in Nat /\ Begin(f, r) \in Nat /\ Len(Stream(f)) \in Nat
               /\ At(Stream(f), Begin(f, r), Bits(IF size = 0 THEN 1 ELSE 0, 1))
               /\ size = 0 => CopyStart(f, r) = Begin(f, r) + 1
               /\ size > 0 =>
                    /\ \A g \in 0..Full(size - 1, 2) :
                         At(Stream(f), (Begin(f, r) + 1) + 2 * g, Bits(Held(size - 1, 2, g), 2))
                    /\ BytesStart(f, r) \in Nat
                    /\ BytesStart(f, r) = (Begin(f, r) + 1) + (2 * Full(size - 1, 2) + 2)
                    /\ \A j \in 0..(size - 1) :
                         At(Stream(f), BytesStart(f, r) + ByteBits * j,
                            Bits(f.rounds[r].bytes[j + 1], ByteBits))
                    /\ CopyStart(f, r) = BytesStart(f, r) + ByteBits * size
<1> DEFINE t == Stream(f)
           p == Begin(f, r)
           bytes == f.rounds[r].bytes
           size == Len(bytes)
<1>1. p \in Nat /\ Len(t) \in Nat /\ At(t, p, BytesBits(bytes))
  BY GenuineRound
<1>2. bytes \in Seq(Byte) /\ size \in Nat
  <2>1. Writable(f.rounds, f.table)
    BY DEF Genuine
  <2> QED
    BY <2>1, RoundType
<1>3. Size(f, r) = size /\ CopyStart(f, r) = p + Len(BytesBits(bytes))
      /\ BytesStart(f, r) = (p + 1) + Len(Groups(size - 1, 2))
  BY DEF Size, CopyStart, BytesStart
<1> HIDE DEF t, p, bytes
<1>4. /\ At(t, p, Bits(IF size = 0 THEN 1 ELSE 0, 1))
      /\ size > 0 =>
           /\ At(t, p + 1, Groups(size - 1, 2))
           /\ \A j \in 0..(size - 1) :
                At(t, ((p + 1) + Len(Groups(size - 1, 2))) + ByteBits * j,
                   Bits(bytes[j + 1], ByteBits))
  BY <1>1, <1>2, BytesAt
<1>5. size = 0 => Len(BytesBits(bytes)) = 1
  <2>1. size = 0 => BytesBits(bytes) = <<1>>
    BY <1>2, BytesType
  <2> QED
    BY <2>1
<1>6. ASSUME size > 0
      PROVE  /\ \A g \in 0..Full(size - 1, 2) :
                  At(t, (p + 1) + 2 * g, Bits(Held(size - 1, 2, g), 2))
             /\ Len(Groups(size - 1, 2)) \in Nat
             /\ Len(Groups(size - 1, 2)) = 2 * Full(size - 1, 2) + 2
             /\ p + Len(BytesBits(bytes)) =
                  ((p + 1) + Len(Groups(size - 1, 2))) + ByteBits * size
  <2> DEFINE m == size - 1
  <2>1. m \in Nat
    BY <1>2, <1>6
  <2>2. At(t, p + 1, Groups(m, 2)) /\ p + 1 \in Nat
    BY <1>1, <1>4, <1>6
  <2>3. Len(BytesBits(bytes)) = (1 + Len(Groups(m, 2))) + ByteBits * size
    BY <1>2, <1>6, BytesType
  <2> HIDE DEF m, size
  <2>4. Full(m, 2) \in Nat /\ Len(Groups(m, 2)) = 2 * Full(m, 2) + 2
    BY <2>1, GroupsType
  <2>5. \A g \in 0..Full(m, 2) : At(t, (p + 1) + 2 * g, Bits(Held(m, 2, g), 2))
    BY <1>1, <2>1, <2>2, GroupAt
  <2>6. Len(Groups(m, 2)) \in Nat
    BY <2>4
  <2>7. p + Len(BytesBits(bytes)) = ((p + 1) + Len(Groups(m, 2))) + ByteBits * size
    <3> DEFINE a == Len(Groups(m, 2))
               b == ByteBits * size
    <3>1. b \in Nat /\ a \in Nat /\ Len(BytesBits(bytes)) = (1 + a) + b
      BY <1>2, <2>3, <2>6, WidthAssumption
    <3> HIDE DEF a, b
    <3>2. p + Len(BytesBits(bytes)) = ((p + 1) + a) + b
      BY <1>1, <3>1
    <3> QED
      BY <3>2 DEF a, b
  <2> QED
    BY <2>4, <2>5, <2>6, <2>7 DEF m
<1>7. Size(f, r) \in Nat /\ (size > 0 => BytesStart(f, r) \in Nat)
  <2>1. size > 0 => Len(Groups(size - 1, 2)) \in Nat
    BY <1>6
  <2> HIDE DEF size
  <2> QED
    BY <1>1, <1>2, <1>3, <2>1
<1> HIDE DEF size
<1>8. /\ size = 0 => CopyStart(f, r) = p + 1
      /\ size > 0 =>
           /\ BytesStart(f, r) = (p + 1) + (2 * Full(size - 1, 2) + 2)
           /\ CopyStart(f, r) = BytesStart(f, r) + ByteBits * size
  BY <1>3, <1>5, <1>6
<1>9. size > 0 => \A j \in 0..(size - 1) :
        At(t, BytesStart(f, r) + ByteBits * j, Bits(bytes[j + 1], ByteBits))
  BY <1>3, <1>4
<1> QED
  <2>1. /\ At(t, p, Bits(IF Size(f, r) = 0 THEN 1 ELSE 0, 1))
        /\ Size(f, r) = 0 => CopyStart(f, r) = p + 1
    BY <1>3, <1>4, <1>8
  <2> QED
    BY <1>1, <1>3, <1>6, <1>7, <1>8, <1>9, <2>1 DEF t, p, bytes

\* The copy of a round: its length and its offset, or the sign that it is long,
\* the width of the offset, the offset and the rest of the length.
LEMMA CopyPlace ==
    ASSUME NEW f, Packed(f), Genuine(f), NEW r \in 1..Len(f.rounds)
    PROVE  LET length == f.rounds[r].length
               far == f.rounds[r].far
               width == Width(f.table, far)
           IN  /\ length \in Nat /\ far \in Nat /\ length < Values[LongBits]
               /\ length = 0 \/ length >= 2
               /\ CopyStart(f, r) \in Nat
               /\ length = 0 => r = Len(f.rounds) /\ Begin(f, r + 1) = CopyStart(f, r)
               /\ length # 0 => far < Len(Plainly(f.rounds, r))
               /\ length \in 2..4 =>
                    /\ At(Stream(f), CopyStart(f, r), Bits(length - 2, 2))
                    /\ At(Stream(f), CopyStart(f, r) + 2, Bits(far, f.table[length - 2]))
                    /\ f.table[length - 2] \in Nat /\ far < Values[f.table[length - 2]]
                    /\ Begin(f, r + 1) = (CopyStart(f, r) + 2) + f.table[length - 2]
               /\ length >= 5 =>
                    /\ At(Stream(f), CopyStart(f, r), Bits(3, 2))
                    /\ At(Stream(f), CopyStart(f, r) + 2, Bits(Choice(far), 1))
                    /\ At(Stream(f), CopyStart(f, r) + 3, Bits(far, width))
                    /\ width \in Nat /\ far < Values[width]
                    /\ MoreStart(f, r) \in Nat
                    /\ \A g \in 0..Full(length - 5, 3) :
                         At(Stream(f), MoreStart(f, r) + 3 * g, Bits(Held(length - 5, 3, g), 3))
                    /\ Begin(f, r + 1) = MoreStart(f, r) + (3 * Full(length - 5, 3) + 3)
<1> DEFINE t == Stream(f)
           round == f.rounds[r]
           length == round.length
           far == round.far
           table == f.table
           copy == CopyBits(table, length, far)
           p == CopyStart(f, r)
           width == Width(table, far)
<1>1. /\ p \in Nat /\ Len(t) \in Nat /\ Len(copy) \in Nat
      /\ At(t, p, copy) /\ Begin(f, r + 1) = p + Len(copy)
  BY GenuineRound DEF CopyStart
<1>2. /\ length \in Nat /\ far \in Nat
      /\ \/ r = Len(f.rounds) /\ length = 0
         \/ CopyFits(table, round) /\ length >= 2 /\ far < Len(Plainly(f.rounds, r))
  <2>1. Writable(f.rounds, f.table)
    BY DEF Genuine
  <2> QED
    BY <2>1, RoundType
<1>3. table \in [0..3 -> Nat \ {0}]
  BY DEF Packed
<1>4. length < Values[LongBits]
  <2>1. Values[LongBits] \in Nat /\ Values[LongBits] >= 8
    BY LongHolds
  <2> QED
    BY <1>2, <2>1 DEF CopyFits
<1>5. ASSUME length = 0 PROVE r = Len(f.rounds) /\ Begin(f, r + 1) = p
  <2>1. copy = <<>>
    BY <1>5 DEF CopyBits
  <2>2. Len(copy) = 0
    BY <2>1
  <2> HIDE DEF copy, p
  <2> QED
    BY <1>1, <1>2, <1>5, <2>2
<1>6. ASSUME length \in 2..4
      PROVE  /\ At(t, p, Bits(length - 2, 2))
             /\ At(t, p + 2, Bits(far, table[length - 2]))
             /\ table[length - 2] \in Nat /\ far < Values[table[length - 2]]
             /\ Begin(f, r + 1) = (p + 2) + table[length - 2]
  <2>1. far < Values[table[length - 2]]
    BY <1>2, <1>6 DEF CopyFits
  <2> HIDE DEF t, length, far, table, p
  <2>2. length >= 2 /\ length < 5
    BY <1>6
  <2>3. table[length - 2] \in Nat /\ Len(copy) = 2 + table[length - 2]
    BY <1>2, <1>3, <2>2, CopyType
  <2>4. At(t, p, Bits(length - 2, 2)) /\ At(t, p + 2, Bits(far, table[length - 2]))
    BY <1>1, <1>2, <1>3, <2>2, CopyAt
  <2> HIDE DEF copy
  <2>5. Begin(f, r + 1) = (p + 2) + table[length - 2]
    <3> DEFINE w == table[length - 2]
    <3>1. w \in Nat /\ Len(copy) = 2 + w
      BY <2>3
    <3> HIDE DEF w
    <3>2. Begin(f, r + 1) = (p + 2) + w
      BY <1>1, <3>1
    <3> QED
      BY <3>2 DEF w
  <2> QED
    BY <2>1, <2>3, <2>4, <2>5
<1>7. ASSUME length >= 5
      PROVE  /\ At(t, p, Bits(3, 2))
             /\ At(t, p + 2, Bits(Choice(far), 1))
             /\ At(t, p + 3, Bits(far, width))
             /\ width \in Nat /\ far < Values[width]
             /\ MoreStart(f, r) \in Nat
             /\ \A g \in 0..Full(length - 5, 3) :
                  At(t, MoreStart(f, r) + 3 * g, Bits(Held(length - 5, 3, g), 3))
             /\ Begin(f, r + 1) = MoreStart(f, r) + (3 * Full(length - 5, 3) + 3)
  <2>1. MoreStart(f, r) = (p + 3) + width
    BY DEF MoreStart
  <2>2. far < Values[width]
    BY <1>2, <1>7 DEF CopyFits, Width
  <2> HIDE DEF t, length, far, table, p
  <2>3. /\ width \in Nat
        /\ Len(copy) = (3 + width) + Len(Groups(length - 5, 3))
    <3>1. length >= 2
      BY <1>2, <1>7
    <3>2. table \in [0..3 -> Nat \ {0}] /\ length \in Nat /\ far \in Nat
      BY <1>2, <1>3
    <3>3. /\ Width(table, far) \in Nat
          /\ Len(CopyBits(table, length, far)) =
               (3 + Width(table, far)) + Len(Groups(length - 5, 3))
      BY <1>7, <3>1, <3>2, CopyType
    <3> QED
      BY <3>3
  <2>4. /\ At(t, p, Bits(3, 2))
        /\ At(t, p + 2, Bits(Choice(far), 1))
        /\ At(t, p + 3, Bits(far, width))
        /\ At(t, (p + 3) + width, Groups(length - 5, 3))
    BY <1>1, <1>2, <1>3, <1>7, CopyAt
  <2> DEFINE m == length - 5
             q == (p + 3) + width
  <2>5. m \in Nat /\ q \in Nat
    BY <1>1, <1>2, <1>7, <2>3
  <2> HIDE DEF m, width, copy
  <2>6. Full(m, 3) \in Nat /\ Len(Groups(m, 3)) = 3 * Full(m, 3) + 3
    BY <2>5, GroupsType
  <2>7. q + Len(Groups(m, 3)) = p + Len(copy)
    <3>1. Len(Groups(m, 3)) \in Nat /\ Len(copy) = (3 + width) + Len(Groups(m, 3))
      BY <2>3, <2>6 DEF m
    <3> QED
      BY <1>1, <2>3, <3>1
  <2>8. At(t, q, Groups(m, 3))
    BY <2>4 DEF m
  <2> HIDE DEF q
  <2>9. \A g \in 0..Full(m, 3) : At(t, q + 3 * g, Bits(Held(m, 3, g), 3))
    BY <1>1, <2>5, <2>8, GroupAt
  <2>10. Begin(f, r + 1) = q + (3 * Full(m, 3) + 3)
    BY <1>1, <2>6, <2>7
  <2>11. MoreStart(f, r) = q
    BY <2>1 DEF q
  <2> QED
    BY <2>2, <2>3, <2>4, <2>5, <2>9, <2>10, <2>11 DEF m
<1> QED
  BY <1>1, <1>2, <1>4, <1>5, <1>6, <1>7

Before(f, r) == Outputs(f.rounds)[r - 1]
BytesOut(f, r, j) == Before(f, r) \o SubSeq(f.rounds[r].bytes, 1, j)
CopyOut(f, r, j) == Copying(Plainly(f.rounds, r), f.rounds[r])[j]

\* A sequence is its first element, and so on.
LEMMA Grown ==
    ASSUME NEW S, NEW a \in Seq(S), NEW b \in Seq(S)
    PROVE  /\ a \o SubSeq(b, 1, 0) = a
           /\ a \o SubSeq(b, 1, Len(b)) = a \o b
           /\ \A j \in 0..(Len(b) - 1) :
                /\ Append(a \o SubSeq(b, 1, j), b[j + 1]) = a \o SubSeq(b, 1, j + 1)
                /\ Len(a \o SubSeq(b, 1, j)) = Len(a) + j
<1>1. a \o SubSeq(b, 1, 0) = a
  OBVIOUS
<1>2. SubSeq(b, 1, Len(b)) = b
  OBVIOUS
<1>3. ASSUME NEW j \in 0..(Len(b) - 1)
      PROVE  /\ Append(a \o SubSeq(b, 1, j), b[j + 1]) = a \o SubSeq(b, 1, j + 1)
             /\ Len(a \o SubSeq(b, 1, j)) = Len(a) + j
  <2> DEFINE s == SubSeq(b, 1, j)
             e == SubSeq(b, 1, j + 1)
  <2>1. s \in Seq(S) /\ Len(s) = j /\ \A i \in 1..j : s[i] = b[i]
    OBVIOUS
  <2>2. e \in Seq(S) /\ Len(e) = j + 1 /\ \A i \in 1..(j + 1) : e[i] = b[i]
    OBVIOUS
  <2>3. j \in Nat /\ b[j + 1] \in S
    OBVIOUS
  <2> HIDE DEF s, e
  <2>4. /\ a \o s \in Seq(S) /\ Len(a \o s) = Len(a) + j
        /\ \A q \in 1..Len(a) : (a \o s)[q] = a[q]
        /\ \A q \in 1..j : (a \o s)[Len(a) + q] = s[q]
    <3>1. /\ a \o s \in Seq(S) /\ Len(a \o s) = Len(a) + Len(s)
          /\ \A q \in 1..Len(a) : (a \o s)[q] = a[q]
          /\ \A q \in 1..Len(s) : (a \o s)[Len(a) + q] = s[q]
      <4>1. s \in Seq(S)
        BY <2>1
      <4> QED
        BY <4>1, Concat
    <3> QED
      BY <2>1, <3>1
  <2>5. /\ a \o e \in Seq(S) /\ Len(a \o e) = Len(a) + (j + 1)
        /\ \A q \in 1..Len(a) : (a \o e)[q] = a[q]
        /\ \A q \in 1..(j + 1) : (a \o e)[Len(a) + q] = e[q]
    <3>1. /\ a \o e \in Seq(S) /\ Len(a \o e) = Len(a) + Len(e)
          /\ \A q \in 1..Len(a) : (a \o e)[q] = a[q]
          /\ \A q \in 1..Len(e) : (a \o e)[Len(a) + q] = e[q]
      <4>1. e \in Seq(S)
        BY <2>2
      <4> QED
        BY <4>1, Concat
    <3> QED
      BY <2>2, <3>1
  <2> DEFINE x == a \o s
             y == a \o e
             n == Len(a)
  <2>6. n \in Nat
    OBVIOUS
  <2>7. /\ x \in Seq(S) /\ Len(x) = n + j
        /\ \A q \in 1..n : x[q] = a[q]
        /\ \A q \in 1..j : x[n + q] = s[q]
    BY <2>4
  <2>8. /\ y \in Seq(S) /\ Len(y) = n + (j + 1)
        /\ \A q \in 1..n : y[q] = a[q]
        /\ \A q \in 1..(j + 1) : y[n + q] = e[q]
    BY <2>5
  <2> HIDE DEF x, y, n
  <2> DEFINE z == Append(x, b[j + 1])
  <2>9. /\ z \in Seq(S) /\ Len(z) = n + (j + 1)
        /\ \A q \in 1..(n + j) : z[q] = x[q]
        /\ z[n + (j + 1)] = b[j + 1]
    BY <2>3, <2>6, <2>7
  <2> HIDE DEF z
  <2>10. ASSUME NEW q \in 1..(n + (j + 1)) PROVE z[q] = y[q]
    <3>1. CASE q <= n
      <4>1. q \in 1..n /\ q \in 1..(n + j)
        BY <2>3, <2>6, <3>1
      <4> QED
        BY <2>7, <2>8, <2>9, <4>1
    <3>2. CASE q > n /\ q # n + (j + 1)
      <4> DEFINE i == q - n
      <4>1. i \in 1..j /\ i \in 1..(j + 1) /\ q = n + i /\ q \in 1..(n + j)
        BY <2>3, <2>6, <3>2
      <4> HIDE DEF i
      <4>2. s[i] = b[i] /\ e[i] = b[i]
        BY <2>1, <2>2, <4>1
      <4>3. x[n + i] = s[i] /\ y[n + i] = e[i]
        BY <2>7, <2>8, <4>1
      <4>4. z[q] = x[q]
        BY <2>9, <4>1
      <4> QED
        BY <4>1, <4>2, <4>3, <4>4
    <3>3. CASE q = n + (j + 1)
      <4>1. j + 1 \in 1..(j + 1)
        BY <2>3
      <4> QED
        BY <2>2, <2>8, <2>9, <3>3, <4>1
    <3> QED
      BY <2>3, <2>6, <3>1, <3>2, <3>3
  <2>11. z = y
    BY <2>8, <2>9, <2>10
  <2>12. Len(x) = n + j
    BY <2>7
  <2> QED
    BY <2>11, <2>12 DEF x, y, z, s, e, n
<1> QED
  BY <1>1, <1>2, <1>3

\* What a round writes has room in the output; the last one fills it.
LEMMA RoundOutput ==
    ASSUME NEW f, Packed(f), Genuine(f), NEW r \in 1..Len(f.rounds)
    PROVE  LET round == f.rounds[r]
               size == Size(f, r)
           IN  /\ Len(f.rounds) \in Nat /\ f.known /\ f.length > 0
               /\ size \in Nat /\ size < Values[LongBits]
               /\ round.bytes \in Seq(Byte)
               /\ BytesOut(f, r, 0) = Before(f, r)
               /\ BytesOut(f, r, size) = CopyOut(f, r, 0)
               /\ \A j \in 0..(size - 1) :
                    /\ Append(BytesOut(f, r, j), round.bytes[j + 1]) = BytesOut(f, r, j + 1)
                    /\ Len(BytesOut(f, r, j)) < f.length
               /\ CopyOut(f, r, round.length) = Outputs(f.rounds)[r]
               /\ \A j \in 0..(round.length - 1) :
                    /\ Len(CopyOut(f, r, j)) < f.length
                    /\ Len(CopyOut(f, r, j)) \in Nat
                    /\ Len(CopyOut(f, r, j)) > round.far
                    /\ CopyOut(f, r, j + 1) =
                         Append(CopyOut(f, r, j), CopyOut(f, r, j)[Len(CopyOut(f, r, j)) - round.far])
               /\ r < Len(f.rounds) => Len(Outputs(f.rounds)[r]) < f.length
               /\ r = Len(f.rounds) => Len(Outputs(f.rounds)[r]) = f.length
<1> DEFINE rounds == f.rounds
           round == f.rounds[r]
           n == Len(f.rounds)
           bytes == round.bytes
           size == Len(bytes)
           length == round.length
           far == round.far
           before == Outputs(rounds)[r - 1]
           plain == Plainly(rounds, r)
           c == Copying(plain, round)
           end == Outputs(rounds)[r]
<1>1. Writable(rounds, f.table)
  BY DEF Genuine
<1>2. /\ n \in Nat /\ bytes \in Seq(Byte) /\ length \in Nat /\ far \in Nat
      /\ size \in Nat /\ size < Values[LongBits]
      /\ \/ r = n /\ length = 0 /\ size > 0
         \/ length >= 2 /\ far < Len(plain)
  BY <1>1, RoundType
<1>3. /\ before \in Seq(Byte) /\ end \in Seq(Byte) /\ Len(before) \in Nat /\ Len(end) \in Nat
      /\ plain \in Seq(Byte) /\ Len(plain) = Len(before) + size
      /\ c[0] = plain /\ c[length] = end
  BY <1>1, OutputsGrow
<1>4. /\ f.known /\ f.length = Len(Outputs(rounds)[n])
  BY GenuineFile
<1>5. Len(end) <= f.length /\ (r < n => Len(end) < f.length) /\ f.length > 0 /\ f.length \in Nat
  <2>1. r \in 0..n /\ 0 \in 0..n /\ 0 < n
    BY <1>2
  <2>2. Len(Outputs(rounds)[0]) < Len(Outputs(rounds)[n]) /\ Len(end) <= Len(Outputs(rounds)[n])
        /\ (r < n => Len(end) < Len(Outputs(rounds)[n]))
    BY <1>1, <2>1, OutputsOrder
  <2>3. Outputs(rounds)[0] = <<>>
    <3>1. rounds \in Seq([bytes : Seq(Byte), length : Nat, far : Nat])
      BY <1>1 DEF Writable
    <3> QED
      BY <3>1, OutputsStep
  <2>4. f.length \in Nat
    BY DEF Packed
  <2>5. Len(Outputs(rounds)[0]) = 0
    BY <2>3
  <2> QED
    BY <1>4, <2>2, <2>4, <2>5
<1> HIDE DEF plain, before, end
<1>6. ASSUME length # 0, NEW j \in 0..length
      PROVE  c[j] \in Seq(Byte) /\ Len(c[j]) = Len(plain) + j
  <2>1. length \in Nat /\ far \in Nat /\ far < Len(plain) /\ plain \in Seq(Byte)
    BY <1>2, <1>3, <1>6
  <2> QED
    BY <2>1, CopyingType
<1> DEFINE Next(o) == Append(o, o[Len(o) - far])
<1>16. ASSUME NEW k \in 1..length PROVE c[k] = Next(c[k - 1])
  <2>1. round.length \in Nat
    BY <1>2
  <2> HIDE DEF round
  <2>2. LET d == Copying(plain, round)
        IN  \A m \in 1..round.length :
              d[m] = Append(d[m - 1], d[m - 1][Len(d[m - 1]) - round.far])
    BY <2>1, CopyingStep
  <2> QED
    BY <2>2
<1> HIDE DEF c, Next
<1>7. Len(plain) + length = Len(end)
  <2>1. CASE length = 0
    BY <1>3, <2>1
  <2>2. CASE length # 0
    <3>1. length \in 0..length
      BY <1>2
    <3> QED
      BY <1>3, <1>6, <2>2, <3>1
  <2> QED
    BY <2>1, <2>2
<1>8. /\ before \o SubSeq(bytes, 1, 0) = before
      /\ before \o SubSeq(bytes, 1, size) = plain
      /\ \A j \in 0..(size - 1) :
           /\ Append(before \o SubSeq(bytes, 1, j), bytes[j + 1]) = before \o SubSeq(bytes, 1, j + 1)
           /\ Len(before \o SubSeq(bytes, 1, j)) = Len(before) + j
  BY <1>2, <1>3, Grown DEF Plainly, plain, before
<1>9. ASSUME NEW j \in 0..(length - 1)
      PROVE  /\ Len(c[j]) < f.length /\ Len(c[j]) \in Nat /\ Len(c[j]) > far
             /\ c[j + 1] = Append(c[j], c[j][Len(c[j]) - far])
  <2>1. length # 0 /\ j \in 0..length /\ j + 1 \in 1..length /\ (j + 1) - 1 = j /\ j \in Nat
    BY <1>2
  <2>2. Len(c[j]) = Len(plain) + j /\ Len(plain) \in Nat
    BY <1>3, <1>6, <2>1
  <2>3. c[j + 1] = Append(c[j], c[j][Len(c[j]) - far])
    <3>1. c[j + 1] = Next(c[(j + 1) - 1])
      BY <2>1, <1>16
    <3> QED
      BY <2>1, <3>1 DEF Next
  <2> HIDE DEF length, far
  <2>4. Len(c[j]) < f.length
    BY <1>2, <1>3, <1>5, <1>7, <2>1, <2>2
  <2>5. Len(c[j]) \in Nat /\ Len(c[j]) > far
    BY <1>2, <2>1, <2>2
  <2> QED
    BY <2>1, <2>3, <2>4, <2>5
<1>10. ASSUME NEW j \in 0..(size - 1) PROVE Len(before) + j < f.length
  <2> HIDE DEF before, size, plain, length, end
  <2> QED
    BY <1>2, <1>3, <1>5, <1>7
<1>11. /\ Size(f, r) = size /\ Before(f, r) = before
       /\ \A j : BytesOut(f, r, j) = before \o SubSeq(bytes, 1, j)
       /\ \A j : CopyOut(f, r, j) = c[j]
  BY DEF Size, Before, BytesOut, CopyOut, before, c, plain
<1> HIDE DEF before, c, plain, end, size
<1>12. \A j \in 0..(size - 1) :
         /\ Append(BytesOut(f, r, j), round.bytes[j + 1]) = BytesOut(f, r, j + 1)
         /\ Len(BytesOut(f, r, j)) < f.length
  BY <1>8, <1>10, <1>11
<1>13. \A j \in 0..(length - 1) :
         /\ Len(CopyOut(f, r, j)) < f.length
         /\ Len(CopyOut(f, r, j)) \in Nat
         /\ Len(CopyOut(f, r, j)) > far
         /\ CopyOut(f, r, j + 1) =
              Append(CopyOut(f, r, j), CopyOut(f, r, j)[Len(CopyOut(f, r, j)) - far])
  BY <1>9, <1>11
<1>14. /\ BytesOut(f, r, 0) = before /\ BytesOut(f, r, size) = plain
       /\ CopyOut(f, r, 0) = plain /\ CopyOut(f, r, length) = end
  BY <1>3, <1>8, <1>11
<1>15. end = Outputs(f.rounds)[r] /\ (r = n => Len(end) = f.length)
  BY <1>4 DEF end
<1> QED
  BY <1>2, <1>4, <1>5, <1>11, <1>12, <1>13, <1>14, <1>15

\* The first bit of the data is behind those that are not part of them.
LEMMA FirstBit ==
    ASSUME Inv, Genuine(file), Open
    PROVE  /\ Words' /\ Pos' = file.unused /\ file' = file
           /\ Read("token", 1) /\ UNCHANGED <<out, error>>
<1> DEFINE t == Stream(file)
           u == file.unused
           l == Len(file.words)
<1>1. /\ Packed(file) /\ left = file.words /\ left \in Seq(Word) /\ l \in Nat /\ l >= 2
      /\ u \in Nat /\ u < WordBits /\ WordBits \in Nat \ {0}
  BY WidthAssumption DEF Inv, TypeOK, Packed, Open
<1>2. file.known
  BY <1>1, GenuineFile
<1>3. /\ Read("token", 1) /\ UNCHANGED <<file, out, error>>
      /\ current' = Shift(Head(left), u) /\ left' = Tail(left)
      /\ bits' = WordBits - u
  BY <1>2 DEF Open, writer
<1>4. /\ Len(left') = l - 1 /\ Head(left) = file.words[1]
      /\ \A w \in 1..(l - 1) : left'[w] = file.words[w + 1]
  BY <1>1, <1>3
<1>5. PICK n \in Nat : /\ n > 0 /\ n < l /\ Len(t) = WordBits * n
                       /\ \A w \in 1..n, i \in 1..WordBits :
                            file.words[w][i] = t[WordBits * (w - 1) + i]
  <2>1. Packed(file)
    BY <1>1
  <2> QED
    BY <2>1, GenuineFile
<1> HIDE DEF t, u
<1>6. file' = file /\ Len(file'.words) = l /\ l - Len(left') = 1
  <2> HIDE DEF l
  <2>1. l - (l - 1) = 1
    BY <1>1
  <2>2. file' = file
    BY <1>3
  <2> QED
    BY <1>4, <2>1, <2>2 DEF l
<1>7. Pos' = u
  <2> DEFINE j == Len(file'.words) - Len(left')
  <2>1. Pos' = WordBits * j - bits'
    BY DEF Pos
  <2>2. j = 1
    BY <1>6
  <2> HIDE DEF j
  <2> QED
    BY <1>1, <1>3, <2>1, <2>2
<1>8. ASSUME NEW i \in 1..bits', Pos' + i <= Len(t)
      PROVE  current'[i] = t[Pos' + i]
  <2>1. i \in 1..WordBits /\ i + u <= WordBits /\ i + u \in 1..WordBits /\ i + u = u + i
    BY <1>1, <1>3
  <2>2. current'[i] = file.words[1][u + i]
    BY <1>3, <1>4, <2>1 DEF Shift
  <2>3. 1 \in 1..n /\ WordBits * (1 - 1) + (u + i) = u + i
    BY <1>1, <1>5, <2>1
  <2>4. file.words[1][u + i] = t[WordBits * (1 - 1) + (u + i)]
    BY <1>5, <2>1, <2>3
  <2> QED
    BY <1>7, <2>2, <2>3, <2>4
<1>9. Words'
  <2>1. Len(left') < Len(file'.words) /\ Len(left') <= Len(file'.words)
    <3> HIDE DEF l
    <3> QED
      BY <1>1, <1>4, <1>6
  <2>2. ASSUME NEW w \in 1..Len(left')
        PROVE  left'[w] = file'.words[(Len(file'.words) - Len(left')) + w]
    <3>1. w \in 1..(l - 1) /\ w + 1 = 1 + w
      BY <1>4
    <3> QED
      BY <1>4, <1>6, <3>1
  <2>3. \A i \in 1..bits' : Pos' + i <= Len(t) => current'[i] = t[Pos' + i]
    BY <1>8
  <2>4. Stream(file') = t
    BY <1>6 DEF t
  <2> QED
    BY <2>1, <2>2, <2>3, <2>4 DEF Words
<1> QED
  BY <1>3, <1>6, <1>7, <1>9 DEF u

\* The value that is read next.
LEMMA NextValue ==
    ASSUME NEW v \in Nat, NEW w \in Nat, NEW p \in Nat, v < Values[w],
           At(Stream(file), p, Bits(v, w)), need' = w, data' = 0, Pos' = p, file' = file
    PROVE  Reads(v)' /\ Mark' = p + w
<1>1. Values[w] \in Nat \ {0}
  BY ValuesType
<1>2. v \div Values[w] = 0
  <2> DEFINE m == Values[w]
  <2>1. m \in Nat \ {0} /\ v < m
    BY <1>1
  <2> HIDE DEF m
  <2>2. v \div m = 0
    BY <2>1, DivEnds
  <2> QED
    BY <2>2 DEF m
<1> QED
  BY <1>2 DEF Reads, Mark

\* A value that has been read.
LEMMA ReadOut ==
    ASSUME Inv, Words, pc # "open", need = 0
    PROVE  Mark = Pos /\ \A v \in Nat : Reads(v) => data = v
<1>1. Pos \in Nat /\ Mark = Pos
  BY PosType DEF Mark
<1>2. ASSUME NEW v \in Nat, Reads(v) PROVE data = v
  <2>1. Values[0] = 1 /\ v \div 1 = v
    BY SmallValues
  <2> QED
    BY <1>2, <2>1 DEF Reads
<1> QED
  BY <1>1, <1>2

\* Between two values, nothing is read.
LEMMA NotRead ==
    ASSUME Inv, Words, pc # "open", UNCHANGED <<file, current, bits, left>>
    PROVE  Words' /\ Pos' = Pos /\ file' = file /\ Pos \in Nat
<1>1. Pos' = Pos /\ file' = file /\ Pos \in Nat
  BY PosType DEF Pos
<1> QED
  BY <1>1 DEF Words

-----------------------------------------------------------------------------
(* Decoding such a file: f is the file, r the round.                       *)

AtToken(f, r) ==
    /\ pc = "token"
    /\ Reads(IF Size(f, r) = 0 THEN 1 ELSE 0)
    /\ Mark = Begin(f, r) + 1
    /\ out = Before(f, r)

\* The g-th group of the number of bytes; so far they are three for each group.
AtCount(f, r) ==
    /\ pc = "count" /\ Size(f, r) > 0
    /\ \E g \in 0..Full(Size(f, r) - 1, 2) :
         /\ count = 3 * g
         /\ Reads(Held(Size(f, r) - 1, 2, g))
         /\ Mark = ((Begin(f, r) + 1) + 2 * g) + 2
    /\ out = Before(f, r)

\* The byte behind the first j.
AtByte(f, r) ==
    /\ pc = "byte"
    /\ \E j \in 0..(Size(f, r) - 1) :
         /\ count = Size(f, r) - j
         /\ Reads(f.rounds[r].bytes[j + 1])
         /\ Mark = (BytesStart(f, r) + ByteBits * j) + ByteBits
         /\ out = BytesOut(f, r, j)

AtLength(f, r) ==
    /\ pc = "length" /\ f.rounds[r].length # 0
    /\ Reads(IF f.rounds[r].length < 5 THEN f.rounds[r].length - 2 ELSE 3)
    /\ Mark = CopyStart(f, r) + 2
    /\ out = CopyOut(f, r, 0)

AtOffset(f, r) ==
    /\ pc = "offset" /\ f.rounds[r].length \in 2..4
    /\ count = f.rounds[r].length
    /\ Reads(f.rounds[r].far)
    /\ Mark = (CopyStart(f, r) + 2) + f.table[f.rounds[r].length - 2]
    /\ out = CopyOut(f, r, 0)

AtKind(f, r) ==
    /\ pc = "kind" /\ f.rounds[r].length >= 5
    /\ count = 5
    /\ Reads(Choice(f.rounds[r].far))
    /\ Mark = (CopyStart(f, r) + 2) + 1
    /\ out = CopyOut(f, r, 0)

AtLong(f, r) ==
    /\ pc = "long" /\ f.rounds[r].length >= 5
    /\ count = 5
    /\ Reads(f.rounds[r].far)
    /\ Mark = (CopyStart(f, r) + 3) + Width(f.table, f.rounds[r].far)
    /\ out = CopyOut(f, r, 0)

\* The g-th group of the rest of the length; so far it is seven for each group.
AtMore(f, r) ==
    /\ pc = "more" /\ f.rounds[r].length >= 5
    /\ offset = f.rounds[r].far
    /\ \E g \in 0..Full(f.rounds[r].length - 5, 3) :
         /\ count = 5 + 7 * g
         /\ Reads(Held(f.rounds[r].length - 5, 3, g))
         /\ Mark = (MoreStart(f, r) + 3 * g) + 3
    /\ out = CopyOut(f, r, 0)

\* The first j bytes have been copied.
AtCopy(f, r) ==
    /\ pc = "copy"
    /\ offset = f.rounds[r].far
    /\ \E j \in 0..(f.rounds[r].length - 1) :
         count = f.rounds[r].length - j /\ out = CopyOut(f, r, j)
    /\ Pos = Begin(f, r + 1)

InRound(f, r) ==
    \/ AtToken(f, r) \/ AtCount(f, r) \/ AtByte(f, r) \/ AtLength(f, r) \/ AtOffset(f, r)
    \/ AtKind(f, r) \/ AtLong(f, r) \/ AtMore(f, r) \/ AtCopy(f, r)

\* Whatever has been decoded is what the rounds of the file say, and what is
\* decoded next is what they say next.
Decoding(f) ==
    /\ file = f
    /\ Words
    /\ ~ error
    /\ \/ pc = "open" /\ out = <<>>
       \/ \E r \in 1..Len(f.rounds) : InRound(f, r)
       \/ pc = "loaded" /\ out = Outputs(f.rounds)[Len(f.rounds)]

\* A step that reads nothing, when a value has been read.
Between(f) ==
    /\ Inv /\ Packed(f) /\ Genuine(f) /\ file = f
    /\ Words /\ pc # "open" /\ need = 0 /\ ~ error
    /\ UNCHANGED <<file, current, bits, left>>

\* A value is read from where the last one has ended.
LEMMA FromHere ==
    ASSUME NEW f, Between(f), NEW what, NEW v \in Nat, NEW w \in Nat, v < Values[w],
           At(Stream(f), Pos, Bits(v, w)), Read(what, w)
    PROVE  pc' = what /\ Reads(v)' /\ Mark' = Pos + w
<1>1. Pos' = Pos /\ file' = file /\ Pos \in Nat /\ file = f
  BY NotRead DEF Between
<1>2. pc' = what /\ need' = w /\ data' = 0
  BY DEF Read
<1> QED
  BY <1>1, <1>2, NextValue

\* The next round starts where the last one has ended; if there is none, the
\* file is loaded.
LEMMA ToRound ==
    ASSUME NEW f, Between(f), NEW r \in 1..Len(f.rounds), ~ error',
           Pos = Begin(f, r + 1), out' = CopyOut(f, r, f.rounds[r].length), EndRound
    PROVE  Decoding(f)'
<1>1. Words' /\ file' = file /\ file = f /\ Pos \in Nat
  BY NotRead DEF Between
<1>2. /\ out' = Outputs(f.rounds)[r]
      /\ Len(f.rounds) \in Nat /\ f.known /\ f.length > 0
      /\ r < Len(f.rounds) => Len(Outputs(f.rounds)[r]) < f.length
      /\ r = Len(f.rounds) => Len(Outputs(f.rounds)[r]) = f.length
  BY RoundOutput DEF Between
<1>3. f.length \in Nat
  BY DEF Between, Packed
<1>4. CASE r = Len(f.rounds)
  <2>1. ~ (Len(out') < f.length)
    BY <1>2, <1>3, <1>4
  <2>2. pc' = LoadFile(~ error')
    BY <1>1, <2>1 DEF EndRound
  <2>3. pc' = "loaded"
    BY <1>1, <1>2, <2>2 DEF LoadFile
  <2> QED
    BY <1>1, <1>2, <1>4, <2>3 DEF Decoding
<1>5. CASE r # Len(f.rounds)
  <2> DEFINE q == r + 1
             v == IF Size(f, q) = 0 THEN 1 ELSE 0
  <2>1. q \in 1..Len(f.rounds) /\ r < Len(f.rounds) /\ q - 1 = r
    BY <1>2, <1>5
  <2>2. Read("token", 1)
    BY <1>1, <1>2, <2>1 DEF EndRound
  <2> HIDE DEF q
  <2>3. At(Stream(f), Begin(f, q), Bits(v, 1))
    BY <2>1, BytesPlace DEF Between
  <2>4. v \in Nat /\ v < Values[1]
    BY SmallValues
  <2> HIDE DEF v
  <2>5. At(Stream(f), Pos, Bits(v, 1))
    BY <2>3 DEF q
  <2>6. pc' = "token" /\ Reads(v)' /\ Mark' = Pos + 1
    BY <2>2, <2>4, <2>5, FromHere
  <2>7. out' = Before(f, q) /\ Mark' = Begin(f, q) + 1
    BY <1>2, <2>1, <2>6 DEF Before, q
  <2>8. AtToken(f, q)'
    BY <2>6, <2>7 DEF AtToken, v
  <2> QED
    BY <1>1, <2>1, <2>8 DEF Decoding, InRound
<1> QED
  BY <1>4, <1>5

\* The copy of a round, or its end, follows its bytes.
LEMMA ToLength ==
    ASSUME NEW f, Between(f), NEW r \in 1..Len(f.rounds), ~ error',
           Pos = CopyStart(f, r), out' = CopyOut(f, r, 0), EndBytes
    PROVE  Decoding(f)'
<1> DEFINE length == f.rounds[r].length
<1>1. Words' /\ file' = file /\ file = f /\ Pos \in Nat
  BY NotRead DEF Between
<1>2. /\ length \in Nat /\ (length = 0 \/ length >= 2)
      /\ length = 0 => r = Len(f.rounds) /\ Begin(f, r + 1) = CopyStart(f, r)
      /\ length \in 2..4 => At(Stream(f), CopyStart(f, r), Bits(length - 2, 2))
      /\ length >= 5 => At(Stream(f), CopyStart(f, r), Bits(3, 2))
  BY CopyPlace DEF Between
<1>3. /\ CopyOut(f, r, length) = Outputs(f.rounds)[r]
      /\ \A j \in 0..(length - 1) : Len(CopyOut(f, r, j)) < f.length
      /\ r = Len(f.rounds) => Len(Outputs(f.rounds)[r]) = f.length
      /\ f.length \in Nat
  <2>1. f.length \in Nat
    BY DEF Between, Packed
  <2> QED
    BY <2>1, RoundOutput DEF Between
<1>4. CASE length = 0
  <2>1. out' = CopyOut(f, r, length) /\ Len(out') = f.length
    BY <1>2, <1>3, <1>4
  <2>2. EndRound
    BY <1>1, <1>3, <2>1 DEF EndBytes
  <2>3. Pos = Begin(f, r + 1)
    BY <1>2, <1>4
  <2> QED
    BY <2>1, <2>2, <2>3, ToRound
<1>5. CASE length # 0
  <2> DEFINE v == IF length < 5 THEN length - 2 ELSE 3
  <2>1. Len(out') < f.length
    <3>1. 0 \in 0..(length - 1)
      BY <1>2, <1>5
    <3> QED
      BY <1>3, <3>1
  <2>2. Read("length", 2)
    BY <1>1, <2>1 DEF EndBytes
  <2>3. v \in Nat /\ v < Values[2] /\ At(Stream(f), Pos, Bits(v, 2))
    <3> HIDE DEF length
    <3>1. CASE length < 5
      <4>1. length \in 2..4 /\ v = length - 2 /\ v \in Nat /\ v < 4
        BY <1>2, <1>5, <3>1
      <4> QED
        BY <1>2, <4>1, SmallValues
    <3>2. CASE ~ (length < 5)
      <4>1. length >= 5 /\ v = 3
        BY <1>2, <3>2
      <4> QED
        BY <1>2, <4>1, SmallValues
    <3> QED
      BY <3>1, <3>2
  <2> HIDE DEF v
  <2>4. pc' = "length" /\ Reads(v)' /\ Mark' = Pos + 2
    BY <2>2, <2>3, FromHere
  <2>5. AtLength(f, r)'
    BY <1>5, <2>4 DEF AtLength, v
  <2> QED
    BY <1>1, <2>5 DEF Decoding, InRound
<1> QED
  BY <1>4, <1>5

\* The byte behind the first j, or what follows the last.
LEMMA ToByte ==
    ASSUME NEW f, Between(f), NEW r \in 1..Len(f.rounds), NEW j \in 0..Size(f, r),
           Size(f, r) > 0, count' = Size(f, r) - j, MoreBytes(count'),
           Pos = BytesStart(f, r) + ByteBits * j, out' = BytesOut(f, r, j)
    PROVE  Decoding(f)'
<1> DEFINE size == Size(f, r)
           bytes == f.rounds[r].bytes
<1>1. Words' /\ file' = file /\ file = f /\ Pos \in Nat /\ ~ error
  BY NotRead DEF Between
<1>2. /\ size \in Nat
      /\ \A i \in 0..(size - 1) :
           At(Stream(f), BytesStart(f, r) + ByteBits * i, Bits(bytes[i + 1], ByteBits))
      /\ CopyStart(f, r) = BytesStart(f, r) + ByteBits * size
  BY BytesPlace DEF Between
<1>3. /\ bytes \in Seq(Byte)
      /\ BytesOut(f, r, size) = CopyOut(f, r, 0)
      /\ \A i \in 0..(size - 1) : Len(BytesOut(f, r, i)) < f.length
  BY RoundOutput DEF Between
<1>4. size = Len(bytes)
  BY DEF Size
<1> HIDE DEF bytes
<1>5. CASE j = size
  <2>1. count' = 0
    BY <1>2, <1>5
  <2>2. ~ error' /\ EndBytes
    BY <1>1, <2>1 DEF MoreBytes
  <2>3. Pos = CopyStart(f, r) /\ out' = CopyOut(f, r, 0)
    BY <1>2, <1>3, <1>5
  <2> QED
    BY <2>2, <2>3, ToLength
<1>6. CASE j # size
  <2>1. j \in 0..(size - 1) /\ count' # 0 /\ j + 1 \in 1..size
    <3> HIDE DEF size
    <3>1. count' = size - j
      BY DEF size
    <3>2. j \in 0..size
      BY DEF size
    <3> QED
      BY <1>2, <1>6, <3>1, <3>2
  <2>2. Len(out') < f.length
    BY <1>3, <2>1
  <2>3. ~ error' /\ Read("byte", ByteBits)
    BY <1>1, <2>1, <2>2 DEF MoreBytes
  <2> DEFINE v == bytes[j + 1]
  <2>4. v \in Nat /\ v < Values[ByteBits] /\ ByteBits \in Nat
    <3>1. v \in Byte
      BY <1>3, <1>4, <2>1
    <3>2. ByteBits \in Nat /\ Values[ByteBits] \in Nat \ {0}
      BY WidthAssumption, ValuesType
    <3> QED
      BY <3>1, <3>2 DEF Byte
  <2>5. At(Stream(f), Pos, Bits(v, ByteBits))
    BY <1>2, <2>1
  <2> HIDE DEF v
  <2>6. pc' = "byte" /\ Reads(v)' /\ Mark' = Pos + ByteBits
    BY <2>3, <2>4, <2>5, FromHere
  <2>7. AtByte(f, r)'
    BY <2>1, <2>6 DEF AtByte, v, bytes
  <2> QED
    BY <1>1, <2>3, <2>7 DEF Decoding, InRound
<1> QED
  BY <1>5, <1>6

\* The byte of a copy behind the first j, or what follows the last.
LEMMA ToCopy ==
    ASSUME NEW f, Between(f), NEW r \in 1..Len(f.rounds), NEW j \in 0..f.rounds[r].length,
           count' = f.rounds[r].length - j, MoreCopies(count'), offset' = f.rounds[r].far,
           Pos = Begin(f, r + 1), out' = CopyOut(f, r, j)
    PROVE  Decoding(f)'
<1> DEFINE length == f.rounds[r].length
<1>1. Words' /\ file' = file /\ file = f /\ Pos' = Pos /\ ~ error
  BY NotRead DEF Between
<1>2. length \in Nat /\ \A i \in 0..(length - 1) : Len(CopyOut(f, r, i)) < f.length
  <2>1. length \in Nat
    BY CopyPlace DEF Between
  <2> QED
    BY <2>1, RoundOutput DEF Between
<1>3. count' = length - j /\ j \in 0..length
  OBVIOUS
<1>4. CASE j = length
  <2>1. count' = 0
    BY <1>2, <1>4
  <2>2. ~ error' /\ EndRound
    BY <1>1, <2>1 DEF MoreCopies
  <2> QED
    BY <1>4, <2>2, ToRound
<1>5. CASE j # length
  <2>1. j \in 0..(length - 1) /\ count' # 0
    <3> HIDE DEF length
    <3> QED
      BY <1>2, <1>3, <1>5
  <2>2. Len(out') < f.length
    BY <1>2, <2>1
  <2>3. pc' = "copy" /\ ~ error'
    BY <1>1, <2>1, <2>2 DEF MoreCopies
  <2>4. AtCopy(f, r)'
    BY <1>1, <2>1, <2>3 DEF AtCopy
  <2> QED
    BY <1>1, <2>3, <2>4 DEF Decoding, InRound
<1> QED
  BY <1>4, <1>5

\* A bit more of a value changes nothing else.
LEMMA BitKeeps ==
    ASSUME NEW f, Packed(f), Genuine(f), Inv, Decoding(f), ReadBit
    PROVE  Decoding(f)'
<1>1. /\ file = f /\ Words /\ ~ error /\ Genuine(file)
      /\ need > 0 /\ pc' = pc /\ file' = f /\ count' = count /\ offset' = offset /\ out' = out
  BY DEF Decoding, ReadBit, writer
<1>2. ASSUME NEW v \in Nat, Reads(v)
      PROVE  Words' /\ ~ error' /\ Reads(v)' /\ Mark' = Mark
  BY <1>1, <1>2, NextBit
<1>3. need \in Nat /\ pc \notin {"open", "loaded", "copy"}
  BY <1>1 DEF Inv, TypeOK, Fits, Ended
<1>4. PICK r \in 1..Len(f.rounds) : InRound(f, r)
  BY <1>3 DEF Decoding
<1> DEFINE round == f.rounds[r]
           size == Size(f, r)
<1>5. /\ size \in Nat /\ round.bytes \in Seq(Byte) /\ size = Len(round.bytes)
      /\ round.length \in Nat /\ round.far \in Nat
      /\ round.length = 0 \/ round.length >= 2
  BY RoundOutput, CopyPlace DEF Size
<1>6. ASSUME NEW n \in Nat, NEW k \in {2, 3}, NEW g PROVE Held(n, k, g) \in Nat
  <2>1. Values[k] - 1 \in Nat
    BY SmallValues
  <2> QED
    BY <2>1, GroupsType DEF Held
<1>7. SUFFICES Words' /\ ~ error' /\ InRound(f, r)'
  BY <1>1 DEF Decoding
<1>8. CASE AtToken(f, r)
  <2> DEFINE v == IF size = 0 THEN 1 ELSE 0
  <2>1. v \in Nat /\ Reads(v)
    BY <1>8 DEF AtToken
  <2> HIDE DEF v
  <2>2. Words' /\ ~ error' /\ Reads(v)' /\ Mark' = Mark
    BY <1>2, <2>1
  <2>3. AtToken(f, r)'
    BY <1>1, <1>8, <2>2 DEF AtToken, v
  <2> QED
    BY <2>2, <2>3 DEF InRound
<1>9. CASE AtCount(f, r)
  <2>1. PICK g \in 0..Full(size - 1, 2) :
          /\ count = 3 * g
          /\ Reads(Held(size - 1, 2, g))
          /\ Mark = ((Begin(f, r) + 1) + 2 * g) + 2
    BY <1>9 DEF AtCount
  <2> DEFINE v == Held(size - 1, 2, g)
  <2>2. v \in Nat
    <3>1. size - 1 \in Nat
      BY <1>5, <1>9 DEF AtCount
    <3> QED
      BY <1>6, <3>1
  <2> HIDE DEF v
  <2>3. Words' /\ ~ error' /\ Reads(v)' /\ Mark' = Mark
    <3>1. Reads(v)
      BY <2>1 DEF v
    <3> QED
      BY <1>2, <2>2, <3>1
  <2>4. AtCount(f, r)'
    BY <1>1, <1>9, <2>1, <2>3 DEF AtCount, v
  <2> QED
    BY <2>3, <2>4 DEF InRound
<1>10. CASE AtByte(f, r)
  <2>1. PICK j \in 0..(size - 1) :
          /\ count = size - j
          /\ Reads(round.bytes[j + 1])
          /\ Mark = (BytesStart(f, r) + ByteBits * j) + ByteBits
          /\ out = BytesOut(f, r, j)
    BY <1>10 DEF AtByte
  <2> DEFINE v == round.bytes[j + 1]
  <2>2. v \in Nat
    <3>1. j + 1 \in 1..Len(round.bytes) /\ Values[ByteBits] \in Nat
      BY <1>5, WidthAssumption, ValuesType
    <3>2. v \in Byte
      BY <1>5, <3>1
    <3> QED
      BY <3>1, <3>2 DEF Byte
  <2> HIDE DEF v
  <2>3. Words' /\ ~ error' /\ Reads(v)' /\ Mark' = Mark
    <3>1. Reads(v)
      BY <2>1 DEF v
    <3> QED
      BY <1>2, <2>2, <3>1
  <2>4. AtByte(f, r)'
    BY <1>1, <1>10, <2>1, <2>3 DEF AtByte, v
  <2> QED
    BY <2>3, <2>4 DEF InRound
<1>11. CASE AtLength(f, r)
  <2> DEFINE v == IF round.length < 5 THEN round.length - 2 ELSE 3
  <2>1. v \in Nat /\ Reads(v)
    BY <1>5, <1>11 DEF AtLength
  <2> HIDE DEF v
  <2>2. Words' /\ ~ error' /\ Reads(v)' /\ Mark' = Mark
    BY <1>2, <2>1
  <2>3. AtLength(f, r)'
    BY <1>1, <1>11, <2>2 DEF AtLength, v
  <2> QED
    BY <2>2, <2>3 DEF InRound
<1>12. CASE AtOffset(f, r)
  <2>1. Words' /\ ~ error' /\ Reads(round.far)' /\ Mark' = Mark
    BY <1>2, <1>5, <1>12 DEF AtOffset
  <2>2. AtOffset(f, r)'
    BY <1>1, <1>12, <2>1 DEF AtOffset
  <2> QED
    BY <2>1, <2>2 DEF InRound
<1>13. CASE AtKind(f, r)
  <2>1. Choice(round.far) \in Nat
    BY DEF Choice
  <2>2. Words' /\ ~ error' /\ Reads(Choice(round.far))' /\ Mark' = Mark
    BY <1>2, <1>13, <2>1 DEF AtKind
  <2>3. AtKind(f, r)'
    BY <1>1, <1>13, <2>2 DEF AtKind
  <2> QED
    BY <2>2, <2>3 DEF InRound
<1>14. CASE AtLong(f, r)
  <2>1. Words' /\ ~ error' /\ Reads(round.far)' /\ Mark' = Mark
    BY <1>2, <1>5, <1>14 DEF AtLong
  <2>2. AtLong(f, r)'
    BY <1>1, <1>14, <2>1 DEF AtLong
  <2> QED
    BY <2>1, <2>2 DEF InRound
<1>15. CASE AtMore(f, r)
  <2>1. PICK g \in 0..Full(round.length - 5, 3) :
          /\ count = 5 + 7 * g
          /\ Reads(Held(round.length - 5, 3, g))
          /\ Mark = (MoreStart(f, r) + 3 * g) + 3
    BY <1>15 DEF AtMore
  <2> DEFINE v == Held(round.length - 5, 3, g)
  <2>2. v \in Nat
    <3>1. round.length - 5 \in Nat
      BY <1>5, <1>15 DEF AtMore
    <3> QED
      BY <1>6, <3>1
  <2> HIDE DEF v
  <2>3. Words' /\ ~ error' /\ Reads(v)' /\ Mark' = Mark
    <3>1. Reads(v)
      BY <2>1 DEF v
    <3> QED
      BY <1>2, <2>2, <3>1
  <2>4. AtMore(f, r)'
    BY <1>1, <1>15, <2>1, <2>3 DEF AtMore, v
  <2> QED
    BY <2>3, <2>4 DEF InRound
<1>16. ~ AtCopy(f, r)
  BY <1>3 DEF AtCopy
<1> QED
  BY <1>4, <1>8, <1>9, <1>10, <1>11, <1>12, <1>13, <1>14, <1>15, <1>16 DEF InRound

\* The first word.
LEMMA OpenDecodes ==
    ASSUME NEW f, Packed(f), Genuine(f), Inv, Decoding(f), Open
    PROVE  Decoding(f)'
<1> DEFINE v == IF Size(f, 1) = 0 THEN 1 ELSE 0
<1>1. /\ file = f /\ Words' /\ Pos' = f.unused /\ file' = file
      /\ Read("token", 1) /\ out' = out /\ ~ error'
  BY FirstBit DEF Decoding
<1>2. out = <<>>
  <2>1. pc = "open"
    BY DEF Open
  <2> QED
    BY <2>1 DEF Decoding, InRound, AtToken, AtCount, AtByte, AtLength, AtOffset, AtKind,
                AtLong, AtMore, AtCopy
<1>3. 1 \in 1..Len(f.rounds) /\ Outputs(f.rounds)[0] = <<>>
  <2>1. f.rounds # <<>> /\ f.rounds \in Seq([bytes : Seq(Byte), length : Nat, far : Nat])
    BY DEF Genuine, Writable
  <2>2. Outputs(f.rounds)[0] = <<>>
    BY <2>1, OutputsStep
  <2> QED
    BY <2>1, <2>2
<1>4. Begin(f, 1) = f.unused /\ Begin(f, 1) \in Nat
  BY <1>3, GenuineRound
<1>5. At(Stream(f), Begin(f, 1), Bits(v, 1))
  BY <1>3, BytesPlace
<1>6. v \in Nat /\ v < Values[1]
  BY SmallValues
<1> HIDE DEF v
<1>7. Reads(v)' /\ Mark' = Begin(f, 1) + 1
  BY <1>1, <1>4, <1>5, <1>6, NextValue DEF Read
<1>8. AtToken(f, 1)'
  BY <1>1, <1>2, <1>3, <1>7 DEF AtToken, Read, Before, v
<1> QED
  BY <1>1, <1>3, <1>8 DEF Decoding, InRound

\* What is decoded between two values.
LEMMA BetweenValues ==
    ASSUME NEW f, Packed(f), Genuine(f), Inv, Decoding(f), need = 0,
           pc \notin {"open", "loaded"}, UNCHANGED <<file, current, bits, left>>
    PROVE  /\ Between(f) /\ ~ error /\ file = f /\ Pos = Mark /\ Words' /\ file' = file
           /\ \A v \in Nat : Reads(v) => data = v
           /\ \E r \in 1..Len(f.rounds) : InRound(f, r)
<1>1. Between(f)
  BY DEF Between, Decoding
<1> QED
  BY <1>1, ReadOut, NotRead DEF Decoding, Between

\* The bit that announces bytes or a copy.
LEMMA TokenDecodes ==
    ASSUME NEW f, Packed(f), Genuine(f), Inv, Decoding(f), Token
    PROVE  Decoding(f)'
<1>1. /\ pc = "token" /\ need = 0 /\ UNCHANGED <<file, current, bits, left>>
      /\ out' = out /\ error' = error /\ count' = 0
      /\ IF data = 0 THEN Read("count", 2) ELSE EndBytes
  BY DEF Token
<1>2. /\ Between(f) /\ ~ error /\ file = f /\ Pos = Mark /\ Words' /\ file' = file
      /\ \A v \in Nat : Reads(v) => data = v
      /\ \E r \in 1..Len(f.rounds) : InRound(f, r)
  BY <1>1, BetweenValues
<1>3. PICK r \in 1..Len(f.rounds) : InRound(f, r)
  BY <1>2
<1>4. AtToken(f, r)
  BY <1>1, <1>3 DEF InRound, AtToken, AtCount, AtByte, AtLength, AtOffset, AtKind, AtLong,
                    AtMore, AtCopy
<1> DEFINE size == Size(f, r)
<1>5. /\ size \in Nat /\ Begin(f, r) \in Nat
      /\ size = 0 => CopyStart(f, r) = Begin(f, r) + 1
      /\ size > 0 => \A g \in 0..Full(size - 1, 2) :
           At(Stream(f), (Begin(f, r) + 1) + 2 * g, Bits(Held(size - 1, 2, g), 2))
  BY BytesPlace
<1>6. /\ BytesOut(f, r, 0) = Before(f, r)
      /\ BytesOut(f, r, size) = CopyOut(f, r, 0)
  BY RoundOutput
<1>7. data = (IF size = 0 THEN 1 ELSE 0) /\ Pos = Begin(f, r) + 1 /\ out = Before(f, r)
  BY <1>2, <1>4 DEF AtToken
<1> HIDE DEF size
<1>8. CASE size = 0
  <2>1. EndBytes /\ ~ error' /\ Pos = CopyStart(f, r) /\ out' = CopyOut(f, r, 0)
    BY <1>1, <1>2, <1>5, <1>6, <1>7, <1>8
  <2> QED
    BY <1>2, <2>1, ToLength
<1>9. CASE size # 0
  <2> DEFINE m == size - 1
             v == Held(m, 2, 0)
  <2>1. m \in Nat /\ size > 0
    BY <1>5, <1>9
  <2> HIDE DEF m
  <2>2. Full(m, 2) \in Nat /\ 0 \in 0..Full(m, 2) /\ v \in Nat /\ v < Values[2]
    <3>1. /\ Full(m, 2) \in Nat /\ Rest(m, 2) \in Nat /\ Rest(m, 2) < Values[2] - 1
      BY <2>1, GroupsType
    <3> QED
      BY <3>1, SmallValues DEF Held
  <2>3. At(Stream(f), Pos, Bits(v, 2))
    <3>1. At(Stream(f), (Begin(f, r) + 1) + 2 * 0, Bits(v, 2))
      BY <1>5, <2>1, <2>2 DEF m
    <3>2. (Begin(f, r) + 1) + 2 * 0 = Pos
      BY <1>5, <1>7
    <3> QED
      BY <3>1, <3>2
  <2>4. Read("count", 2)
    BY <1>1, <1>7, <1>9
  <2> HIDE DEF v
  <2>5. pc' = "count" /\ Reads(v)' /\ Mark' = Pos + 2
    BY <1>2, <2>2, <2>3, <2>4, FromHere
  <2>6. count' = 3 * 0 /\ Mark' = ((Begin(f, r) + 1) + 2 * 0) + 2
    BY <1>1, <1>5, <1>7, <2>5
  <2>7. AtCount(f, r)'
    BY <1>1, <1>7, <2>1, <2>2, <2>5, <2>6 DEF AtCount, v, m, size
  <2> QED
    BY <1>1, <1>2, <2>7 DEF Decoding, InRound
<1> QED
  BY <1>8, <1>9

\* A group of the number of bytes: another follows a full one.
LEMMA CountDecodes ==
    ASSUME NEW f, Packed(f), Genuine(f), Inv, Decoding(f), Count
    PROVE  Decoding(f)'
<1>1. /\ pc = "count" /\ need = 0 /\ UNCHANGED <<file, current, bits, left>>
      /\ out' = out
      /\ IF data = 3
         THEN count' = Long(count + 3) /\ Read("count", 2) /\ error' = error
         ELSE count' = Long(count + data + 1) /\ MoreBytes(count')
  BY DEF Count
<1>2. /\ Between(f) /\ ~ error /\ file = f /\ Pos = Mark /\ Words' /\ file' = file
      /\ \A v \in Nat : Reads(v) => data = v
      /\ \E r \in 1..Len(f.rounds) : InRound(f, r)
  BY <1>1, BetweenValues
<1>3. PICK r \in 1..Len(f.rounds) : InRound(f, r)
  BY <1>2
<1>4. AtCount(f, r)
  BY <1>1, <1>3 DEF InRound, AtToken, AtCount, AtByte, AtLength, AtOffset, AtKind, AtLong,
                    AtMore, AtCopy
<1> DEFINE size == Size(f, r)
           m == size - 1
<1>5. /\ size \in Nat /\ Begin(f, r) \in Nat /\ size > 0
      /\ \A g \in 0..Full(m, 2) :
           At(Stream(f), (Begin(f, r) + 1) + 2 * g, Bits(Held(m, 2, g), 2))
      /\ BytesStart(f, r) \in Nat
      /\ BytesStart(f, r) = (Begin(f, r) + 1) + (2 * Full(m, 2) + 2)
  BY <1>4, BytesPlace DEF AtCount
<1>6. BytesOut(f, r, 0) = Before(f, r) /\ size < Values[LongBits]
  BY RoundOutput
<1>7. PICK g \in 0..Full(m, 2) :
        /\ count = 3 * g
        /\ Reads(Held(m, 2, g))
        /\ Mark = ((Begin(f, r) + 1) + 2 * g) + 2
  BY <1>4 DEF AtCount
<1>8. out = Before(f, r)
  BY <1>4 DEF AtCount
<1> HIDE DEF size
<1>9. m \in Nat
  BY <1>5
<1> DEFINE full == Full(m, 2)
           rest == Rest(m, 2)
<1>10. full \in Nat /\ rest \in Nat /\ rest < 3 /\ m = 3 * full + rest
  <2> HIDE DEF m
  <2>1. /\ Full(m, 2) \in Nat /\ Rest(m, 2) \in Nat /\ Rest(m, 2) < Values[2] - 1
        /\ m = (Values[2] - 1) * Full(m, 2) + Rest(m, 2)
    BY <1>9, GroupsType
  <2>2. Values[2] - 1 = 3
    BY SmallValues
  <2> QED
    BY <2>1, <2>2
<1>11. \A i : Held(m, 2, i) = IF i < full THEN 3 ELSE rest
  <2>1. Values[2] - 1 = 3
    BY SmallValues
  <2> QED
    BY <2>1 DEF Held
<1>12. data = (IF g < full THEN 3 ELSE rest) /\ Pos = ((Begin(f, r) + 1) + 2 * g) + 2
       /\ g \in Nat
  <2>1. Held(m, 2, g) \in Nat
    BY <1>10, <1>11
  <2> QED
    BY <1>2, <1>7, <1>11, <2>1
<1>13. Values[LongBits] \in Nat
  BY LongHolds
<1>14. size = m + 1
  BY <1>5
<1>15. ASSUME NEW n \in Nat, n <= size PROVE Long(n) = n
  <2>1. n < Values[LongBits]
    BY <1>5, <1>6, <1>13, <1>15
  <2> DEFINE lim == Values[LongBits]
  <2>2. lim \in Nat /\ n < lim
    BY <1>13, <2>1
  <2> HIDE DEF lim
  <2>3. n % lim = n
    BY <2>2
  <2> QED
    BY <2>3 DEF Long, lim
<1> HIDE DEF m, full, rest
<1>16. CASE g < full
  <2> DEFINE h == g + 1
             v == Held(m, 2, h)
  <2>1. h \in 0..full /\ h \in Nat /\ 3 * h = 3 * g + 3 /\ 3 * h \in Nat /\ 3 * h <= size
    BY <1>10, <1>12, <1>14, <1>16
  <2>2. data = 3 /\ count' = 3 * h /\ Read("count", 2) /\ ~ error'
    <3>1. data = 3
      BY <1>12, <1>16
    <3>2. count' = Long(count + 3) /\ count + 3 = 3 * h
      BY <1>1, <1>7, <2>1, <3>1
    <3> QED
      BY <1>1, <1>2, <1>15, <2>1, <3>1, <3>2
  <2>3. v \in Nat /\ v < Values[2]
    BY <1>10, <1>11, SmallValues
  <2>4. (Begin(f, r) + 1) + 2 * h = Pos
    BY <1>5, <1>12
  <2>5. At(Stream(f), Pos, Bits(v, 2))
    <3>1. At(Stream(f), (Begin(f, r) + 1) + 2 * h, Bits(v, 2))
      BY <1>5, <2>1 DEF full
    <3> QED
      BY <2>4, <3>1
  <2> HIDE DEF v, h
  <2>6. pc' = "count" /\ Reads(v)' /\ Mark' = Pos + 2
    BY <1>2, <2>2, <2>3, <2>5, FromHere
  <2>7. Mark' = ((Begin(f, r) + 1) + 2 * h) + 2
    BY <2>4, <2>6
  <2>8. AtCount(f, r)'
    BY <1>1, <1>5, <1>8, <2>1, <2>2, <2>6, <2>7 DEF AtCount, v, m, full, size
  <2> QED
    BY <1>1, <1>2, <2>2, <2>8 DEF Decoding, InRound
<1>17. CASE ~ (g < full)
  <2>1. g = full
    BY <1>7, <1>10, <1>12, <1>17 DEF full
  <2>2. data = rest /\ data # 3
    BY <1>10, <1>12, <1>17
  <2>3. count' = size
    <3>1. count' = Long(count + data + 1) /\ count + data + 1 = size
      BY <1>1, <1>7, <1>10, <1>14, <2>1, <2>2
    <3>2. Long(size) = size
      BY <1>5, <1>15
    <3> QED
      BY <3>1, <3>2
  <2>4. count' = size - 0 /\ MoreBytes(count') /\ 0 \in 0..size
    BY <1>1, <1>5, <2>2, <2>3
  <2>5. Pos = BytesStart(f, r) + ByteBits * 0
    <3>1. ByteBits * 0 = 0
      BY WidthAssumption
    <3>2. BytesStart(f, r) = (Begin(f, r) + 1) + (2 * full + 2)
      BY <1>5 DEF full
    <3> QED
      BY <1>5, <1>10, <1>12, <2>1, <3>1, <3>2
  <2>6. out' = BytesOut(f, r, 0)
    BY <1>1, <1>6, <1>8
  <2> QED
    BY <1>2, <1>5, <2>4, <2>5, <2>6, ToByte DEF size
<1> QED
  BY <1>16, <1>17

\* A byte.
LEMMA ByteDecodes ==
    ASSUME NEW f, Packed(f), Genuine(f), Inv, Decoding(f), ReadByte
    PROVE  Decoding(f)'
<1>1. /\ pc = "byte" /\ need = 0 /\ UNCHANGED <<file, current, bits, left>>
      /\ out' = Append(out, data) /\ count' = count - 1 /\ MoreBytes(count')
  BY DEF ReadByte
<1>2. /\ Between(f) /\ ~ error /\ file = f /\ Pos = Mark /\ Words' /\ file' = file
      /\ \A v \in Nat : Reads(v) => data = v
      /\ \E r \in 1..Len(f.rounds) : InRound(f, r)
  BY <1>1, BetweenValues
<1>3. PICK r \in 1..Len(f.rounds) : InRound(f, r)
  BY <1>2
<1>4. AtByte(f, r)
  BY <1>1, <1>3 DEF InRound, AtToken, AtCount, AtByte, AtLength, AtOffset, AtKind, AtLong,
                    AtMore, AtCopy
<1> DEFINE size == Size(f, r)
           bytes == f.rounds[r].bytes
<1>5. PICK j \in 0..(size - 1) :
        /\ count = size - j
        /\ Reads(bytes[j + 1])
        /\ Mark = (BytesStart(f, r) + ByteBits * j) + ByteBits
        /\ out = BytesOut(f, r, j)
  BY <1>4 DEF AtByte
<1>6. /\ size \in Nat /\ bytes \in Seq(Byte) /\ size = Len(bytes)
      /\ \A i \in 0..(size - 1) : Append(BytesOut(f, r, i), bytes[i + 1]) = BytesOut(f, r, i + 1)
  BY RoundOutput DEF Size
<1>7. size > 0 => BytesStart(f, r) \in Nat
  BY BytesPlace
<1> HIDE DEF size, bytes
<1>8. j \in Nat /\ size > 0 /\ j + 1 \in 0..size /\ j + 1 \in 1..size
  BY <1>6
<1>9. bytes[j + 1] \in Nat
  <2>1. bytes[j + 1] \in Byte /\ Values[ByteBits] \in Nat
    BY <1>6, <1>8, WidthAssumption, ValuesType
  <2> QED
    BY <2>1 DEF Byte
<1>10. out' = BytesOut(f, r, j + 1)
  BY <1>1, <1>2, <1>5, <1>6, <1>9
<1>11. count' = size - (j + 1)
  BY <1>1, <1>5, <1>6, <1>8
<1>12. Pos = BytesStart(f, r) + ByteBits * (j + 1)
  <2> DEFINE a == ByteBits * j
  <2>1. ByteBits * (j + 1) = a + ByteBits /\ a \in Nat /\ ByteBits \in Nat
    <3>1. ByteBits \in Nat
      BY WidthAssumption
    <3>2. \A x, y \in Nat : x * (y + 1) = x * y + x /\ x * y \in Nat
      OBVIOUS
    <3> QED
      BY <1>8, <3>1, <3>2
  <2>2. Pos = (BytesStart(f, r) + a) + ByteBits
    BY <1>2, <1>5
  <2> HIDE DEF a
  <2> QED
    BY <1>7, <1>8, <2>1, <2>2
<1> QED
  BY <1>1, <1>2, <1>8, <1>10, <1>11, <1>12, ToByte DEF size

\* The length of a copy, or the sign that it is a long one.
LEMMA LengthDecodes ==
    ASSUME NEW f, Packed(f), Genuine(f), Inv, Decoding(f), ReadLength
    PROVE  Decoding(f)'
<1>1. /\ pc = "length" /\ need = 0 /\ UNCHANGED <<file, current, bits, left, out, error>>
      /\ count' = data + 2
      /\ IF data = 3 THEN Read("kind", 1) ELSE Read("offset", file.table[data])
  BY DEF ReadLength
<1>2. /\ Between(f) /\ ~ error /\ file = f /\ Pos = Mark /\ Words' /\ file' = file
      /\ \A v \in Nat : Reads(v) => data = v
      /\ \E r \in 1..Len(f.rounds) : InRound(f, r)
  BY <1>1, BetweenValues
<1>3. PICK r \in 1..Len(f.rounds) : InRound(f, r)
  BY <1>2
<1>4. AtLength(f, r)
  BY <1>1, <1>3 DEF InRound, AtToken, AtCount, AtByte, AtLength, AtOffset, AtKind, AtLong,
                    AtMore, AtCopy
<1> DEFINE length == f.rounds[r].length
           far == f.rounds[r].far
           start == CopyStart(f, r)
<1>5. /\ length \in Nat /\ far \in Nat /\ (length = 0 \/ length >= 2) /\ start \in Nat
      /\ length \in 2..4 =>
           /\ At(Stream(f), start + 2, Bits(far, f.table[length - 2]))
           /\ f.table[length - 2] \in Nat /\ far < Values[f.table[length - 2]]
      /\ length >= 5 => At(Stream(f), start + 2, Bits(Choice(far), 1))
  BY CopyPlace
<1>6. length # 0 /\ Pos = start + 2 /\ out' = CopyOut(f, r, 0)
      /\ Reads(IF length < 5 THEN length - 2 ELSE 3)
  BY <1>1, <1>2, <1>4 DEF AtLength
<1>7. data = IF length < 5 THEN length - 2 ELSE 3
  <2>1. (IF length < 5 THEN length - 2 ELSE 3) \in Nat
    <3> HIDE DEF length
    <3> QED
      BY <1>5, <1>6
  <2> QED
    BY <1>2, <1>6, <2>1
<1>8. file.table = f.table
  BY <1>2
<1> HIDE DEF length, far, start
<1>9. CASE length < 5
  <2> DEFINE w == f.table[length - 2]
  <2>1. length \in 2..4 /\ data = length - 2 /\ data # 3 /\ count' = length
    BY <1>1, <1>5, <1>6, <1>7, <1>9
  <2>2. Read("offset", w) /\ w \in Nat /\ far < Values[w] /\ At(Stream(f), Pos, Bits(far, w))
    BY <1>1, <1>5, <1>6, <1>8, <2>1
  <2> HIDE DEF w
  <2>3. pc' = "offset" /\ Reads(far)' /\ Mark' = Pos + w
    BY <1>2, <1>5, <2>2, FromHere
  <2>4. AtOffset(f, r)'
    BY <1>6, <2>1, <2>3 DEF AtOffset, length, far, start, w
  <2> QED
    BY <1>1, <1>2, <2>4 DEF Decoding, InRound
<1>10. CASE ~ (length < 5)
  <2> DEFINE v == Choice(far)
  <2>1. length >= 5 /\ data = 3 /\ count' = 5
    BY <1>1, <1>5, <1>7, <1>10
  <2>2. Read("kind", 1) /\ v \in Nat /\ v < Values[1] /\ At(Stream(f), Pos, Bits(v, 1))
    <3>1. v \in {0, 1} /\ Values[1] = 2
      BY SmallValues DEF Choice
    <3> QED
      BY <1>1, <1>5, <1>6, <2>1, <3>1
  <2> HIDE DEF v
  <2>3. pc' = "kind" /\ Reads(v)' /\ Mark' = Pos + 1
    BY <1>2, <2>2, FromHere
  <2>4. AtKind(f, r)'
    BY <1>6, <2>1, <2>3 DEF AtKind, length, far, start, v
  <2> QED
    BY <1>1, <1>2, <2>4 DEF Decoding, InRound
<1> QED
  BY <1>9, <1>10

\* The offset of a short copy.
LEMMA OffsetDecodes ==
    ASSUME NEW f, Packed(f), Genuine(f), Inv, Decoding(f), ReadOffset
    PROVE  Decoding(f)'
<1>1. /\ pc = "offset" /\ need = 0 /\ UNCHANGED <<file, current, bits, left, out, count>>
      /\ offset' = data /\ MoreCopies(count')
  BY DEF ReadOffset, StartCopy
<1>2. /\ Between(f) /\ ~ error /\ file = f /\ Pos = Mark /\ Words' /\ file' = file
      /\ \A v \in Nat : Reads(v) => data = v
      /\ \E r \in 1..Len(f.rounds) : InRound(f, r)
  BY <1>1, BetweenValues
<1>3. PICK r \in 1..Len(f.rounds) : InRound(f, r)
  BY <1>2
<1>4. AtOffset(f, r)
  BY <1>1, <1>3 DEF InRound, AtToken, AtCount, AtByte, AtLength, AtOffset, AtKind, AtLong,
                    AtMore, AtCopy
<1> DEFINE length == f.rounds[r].length
           far == f.rounds[r].far
<1>5. /\ length \in Nat /\ far \in Nat
      /\ length \in 2..4 => Begin(f, r + 1) = (CopyStart(f, r) + 2) + f.table[length - 2]
  BY CopyPlace
<1>6. /\ length \in 2..4 /\ count = length /\ Reads(far)
      /\ Mark = (CopyStart(f, r) + 2) + f.table[length - 2]
      /\ out = CopyOut(f, r, 0)
  BY <1>4 DEF AtOffset
<1>7. data = far
  BY <1>2, <1>5, <1>6
<1>8. 0 \in 0..length /\ count' = length - 0
  BY <1>1, <1>5, <1>6
<1>9. Pos = Begin(f, r + 1) /\ out' = CopyOut(f, r, 0) /\ offset' = far
  BY <1>1, <1>2, <1>5, <1>6, <1>7
<1> QED
  BY <1>1, <1>2, <1>8, <1>9, ToCopy

\* How wide the offset of a long copy is.
LEMMA KindDecodes ==
    ASSUME NEW f, Packed(f), Genuine(f), Inv, Decoding(f), Kind
    PROVE  Decoding(f)'
<1>1. /\ pc = "kind" /\ need = 0 /\ UNCHANGED <<file, current, bits, left, out, count, error>>
      /\ Read("long", IF data = 0 THEN ShortOffset ELSE file.table[3])
  BY DEF Kind, writer
<1>2. /\ Between(f) /\ ~ error /\ file = f /\ Pos = Mark /\ Words' /\ file' = file
      /\ \A v \in Nat : Reads(v) => data = v
      /\ \E r \in 1..Len(f.rounds) : InRound(f, r)
  BY <1>1, BetweenValues
<1>3. PICK r \in 1..Len(f.rounds) : InRound(f, r)
  BY <1>2
<1>4. AtKind(f, r)
  BY <1>1, <1>3 DEF InRound, AtToken, AtCount, AtByte, AtLength, AtOffset, AtKind, AtLong,
                    AtMore, AtCopy
<1> DEFINE length == f.rounds[r].length
           far == f.rounds[r].far
           start == CopyStart(f, r)
           w == Width(f.table, far)
<1>5. /\ length >= 5 /\ count = 5 /\ Reads(Choice(far)) /\ Mark = (start + 2) + 1
      /\ out = CopyOut(f, r, 0)
  BY <1>4 DEF AtKind
<1>6. /\ far \in Nat /\ start \in Nat /\ w \in Nat /\ far < Values[w]
      /\ At(Stream(f), start + 3, Bits(far, w))
  BY <1>5, CopyPlace
<1>7. data = Choice(far) /\ Choice(far) \in {0, 1}
  <2>1. Choice(far) \in {0, 1}
    BY DEF Choice
  <2> QED
    BY <1>2, <1>5, <2>1
<1>8. Read("long", w)
  <2>1. w = IF data = 0 THEN ShortOffset ELSE file.table[3]
    BY <1>2, <1>7 DEF Width, Choice
  <2> QED
    BY <1>1, <2>1
<1> HIDE DEF w, start, far
<1>9. Pos = start + 3
  BY <1>2, <1>5, <1>6
<1>10. pc' = "long" /\ Reads(far)' /\ Mark' = Pos + w
  BY <1>2, <1>6, <1>8, <1>9, FromHere
<1>11. AtLong(f, r)'
  BY <1>1, <1>5, <1>9, <1>10 DEF AtLong, w, start, far
<1> QED
  BY <1>1, <1>2, <1>11 DEF Decoding, InRound

\* The offset of a long copy.
LEMMA LongDecodes ==
    ASSUME NEW f, Packed(f), Genuine(f), Inv, Decoding(f), LongOffset
    PROVE  Decoding(f)'
<1>1. /\ pc = "long" /\ need = 0 /\ UNCHANGED <<file, current, bits, left, out, count, error>>
      /\ offset' = data /\ Read("more", 3)
  BY DEF LongOffset
<1>2. /\ Between(f) /\ ~ error /\ file = f /\ Pos = Mark /\ Words' /\ file' = file
      /\ \A v \in Nat : Reads(v) => data = v
      /\ \E r \in 1..Len(f.rounds) : InRound(f, r)
  BY <1>1, BetweenValues
<1>3. PICK r \in 1..Len(f.rounds) : InRound(f, r)
  BY <1>2
<1>4. AtLong(f, r)
  BY <1>1, <1>3 DEF InRound, AtToken, AtCount, AtByte, AtLength, AtOffset, AtKind, AtLong,
                    AtMore, AtCopy
<1> DEFINE length == f.rounds[r].length
           far == f.rounds[r].far
           m == length - 5
           v == Held(m, 3, 0)
           start == MoreStart(f, r)
<1>5. /\ length >= 5 /\ count = 5 /\ Reads(far)
      /\ Mark = (CopyStart(f, r) + 3) + Width(f.table, far)
      /\ out = CopyOut(f, r, 0)
  BY <1>4 DEF AtLong
<1>6. /\ far \in Nat /\ length \in Nat /\ start \in Nat
      /\ \A g \in 0..Full(m, 3) : At(Stream(f), start + 3 * g, Bits(Held(m, 3, g), 3))
  BY <1>5, CopyPlace
<1>7. data = far /\ Pos = start
  BY <1>2, <1>5, <1>6 DEF MoreStart
<1> HIDE DEF length, start, far
<1>8. m \in Nat
  BY <1>5, <1>6
<1> HIDE DEF m
<1>9. Full(m, 3) \in Nat /\ 0 \in 0..Full(m, 3) /\ v \in Nat /\ v < Values[3]
  <2>1. Full(m, 3) \in Nat /\ Rest(m, 3) \in Nat /\ Rest(m, 3) < Values[3] - 1
    BY <1>8, GroupsType
  <2> QED
    BY <2>1, SmallValues DEF Held
<1>10. At(Stream(f), Pos, Bits(v, 3))
  <2>1. start + 3 * 0 = Pos
    BY <1>6, <1>7
  <2>2. At(Stream(f), start + 3 * 0, Bits(v, 3))
    BY <1>6, <1>9
  <2> QED
    BY <2>1, <2>2
<1> HIDE DEF v
<1>11. pc' = "more" /\ Reads(v)' /\ Mark' = Pos + 3
  BY <1>1, <1>2, <1>9, <1>10, FromHere
<1>12. count' = 5 + 7 * 0 /\ Mark' = (start + 3 * 0) + 3
  BY <1>1, <1>5, <1>6, <1>7, <1>11
<1>13. AtMore(f, r)'
  BY <1>1, <1>5, <1>7, <1>9, <1>11, <1>12 DEF AtMore, v, m, length, start, far
<1> QED
  BY <1>1, <1>2, <1>13 DEF Decoding, InRound

\* A group of the rest of its length: another follows a full one.
LEMMA MoreDecodes ==
    ASSUME NEW f, Packed(f), Genuine(f), Inv, Decoding(f), MoreLength
    PROVE  Decoding(f)'
<1>1. /\ pc = "more" /\ need = 0 /\ UNCHANGED <<file, current, bits, left, out, offset>>
      /\ count' = Long(count + data)
      /\ IF data = 7 THEN Read("more", 3) /\ error' = error ELSE MoreCopies(count')
  BY DEF MoreLength, StartCopy
<1>2. /\ Between(f) /\ ~ error /\ file = f /\ Pos = Mark /\ Words' /\ file' = file
      /\ \A v \in Nat : Reads(v) => data = v
      /\ \E r \in 1..Len(f.rounds) : InRound(f, r)
  BY <1>1, BetweenValues
<1>3. PICK r \in 1..Len(f.rounds) : InRound(f, r)
  BY <1>2
<1>4. AtMore(f, r)
  BY <1>1, <1>3 DEF InRound, AtToken, AtCount, AtByte, AtLength, AtOffset, AtKind, AtLong,
                    AtMore, AtCopy
<1> DEFINE length == f.rounds[r].length
           far == f.rounds[r].far
           m == length - 5
           start == MoreStart(f, r)
<1>5. length >= 5 /\ offset = far /\ out = CopyOut(f, r, 0)
  BY <1>4 DEF AtMore
<1>6. /\ far \in Nat /\ length \in Nat /\ length < Values[LongBits] /\ start \in Nat
      /\ \A g \in 0..Full(m, 3) : At(Stream(f), start + 3 * g, Bits(Held(m, 3, g), 3))
      /\ Begin(f, r + 1) = start + (3 * Full(m, 3) + 3)
  BY <1>5, CopyPlace
<1>7. PICK g \in 0..Full(m, 3) :
        /\ count = 5 + 7 * g
        /\ Reads(Held(m, 3, g))
        /\ Mark = (start + 3 * g) + 3
  BY <1>4 DEF AtMore
<1> HIDE DEF length, far, start
<1>8. m \in Nat /\ length = m + 5
  BY <1>5, <1>6
<1> DEFINE full == Full(m, 3)
           rest == Rest(m, 3)
<1>9. full \in Nat /\ rest \in Nat /\ rest < 7 /\ m = 7 * full + rest
  <2> HIDE DEF m
  <2>1. /\ Full(m, 3) \in Nat /\ Rest(m, 3) \in Nat /\ Rest(m, 3) < Values[3] - 1
        /\ m = (Values[3] - 1) * Full(m, 3) + Rest(m, 3)
    BY <1>8, GroupsType
  <2>2. Values[3] - 1 = 7
    BY SmallValues
  <2> QED
    BY <2>1, <2>2
<1>10. \A i : Held(m, 3, i) = IF i < full THEN 7 ELSE rest
  <2>1. Values[3] - 1 = 7
    BY SmallValues
  <2> QED
    BY <2>1 DEF Held
<1>11. data = (IF g < full THEN 7 ELSE rest) /\ Pos = (start + 3 * g) + 3 /\ g \in Nat
  <2>1. Held(m, 3, g) \in Nat
    BY <1>9, <1>10
  <2> QED
    BY <1>2, <1>7, <1>10, <2>1
<1>12. ASSUME NEW n \in Nat, n <= length PROVE Long(n) = n
  <2> DEFINE lim == Values[LongBits]
  <2>1. lim \in Nat
    BY LongHolds
  <2>2. n < lim
    BY <1>6, <1>12, <2>1
  <2> HIDE DEF lim
  <2>3. n % lim = n
    BY <2>1, <2>2
  <2> QED
    BY <2>3 DEF Long, lim
<1> HIDE DEF m, full, rest
<1>13. CASE g < full
  <2> DEFINE h == g + 1
             v == Held(m, 3, h)
  <2>1. h \in 0..full /\ h \in Nat /\ 5 + 7 * h = (5 + 7 * g) + 7 /\ 5 + 7 * h \in Nat
        /\ 5 + 7 * h <= length
    BY <1>8, <1>9, <1>11, <1>13
  <2>2. data = 7 /\ count' = 5 + 7 * h /\ Read("more", 3) /\ ~ error'
    <3>1. data = 7
      BY <1>11, <1>13
    <3>2. count' = Long(count + data) /\ count + data = 5 + 7 * h
      BY <1>1, <1>7, <2>1, <3>1
    <3> QED
      BY <1>1, <1>2, <1>12, <2>1, <3>1, <3>2
  <2>3. v \in Nat /\ v < Values[3]
    BY <1>9, <1>10, SmallValues
  <2>4. start + 3 * h = Pos
    BY <1>6, <1>11
  <2>5. At(Stream(f), Pos, Bits(v, 3))
    <3>1. At(Stream(f), start + 3 * h, Bits(v, 3))
      BY <1>6, <2>1 DEF full
    <3> QED
      BY <2>4, <3>1
  <2> HIDE DEF v, h
  <2>6. pc' = "more" /\ Reads(v)' /\ Mark' = Pos + 3
    BY <1>2, <2>2, <2>3, <2>5, FromHere
  <2>7. Mark' = (start + 3 * h) + 3
    BY <2>4, <2>6
  <2>8. AtMore(f, r)'
    BY <1>1, <1>5, <2>1, <2>2, <2>6, <2>7 DEF AtMore, v, m, full, length, far, start
  <2> QED
    BY <1>1, <1>2, <2>2, <2>8 DEF Decoding, InRound
<1>14. CASE ~ (g < full)
  <2>1. g = full
    BY <1>7, <1>9, <1>11, <1>14 DEF full
  <2>2. data = rest /\ data # 7
    BY <1>9, <1>11, <1>14
  <2>3. count' = length
    <3>1. count' = Long(count + data) /\ count + data = length
      BY <1>1, <1>7, <1>8, <1>9, <2>1, <2>2
    <3>2. Long(length) = length
      BY <1>6, <1>12
    <3> QED
      BY <3>1, <3>2
  <2>4. count' = length - 0 /\ MoreCopies(count') /\ 0 \in 0..length
    BY <1>1, <1>6, <2>2, <2>3
  <2>5. Pos = Begin(f, r + 1)
    <3>1. Begin(f, r + 1) = start + (3 * full + 3)
      BY <1>6 DEF full
    <3> QED
      BY <1>6, <1>9, <1>11, <2>1, <3>1
  <2>6. out' = CopyOut(f, r, 0) /\ offset' = far
    BY <1>1, <1>5
  <2> QED
    BY <1>2, <2>4, <2>5, <2>6, ToCopy DEF length, far
<1> QED
  BY <1>13, <1>14

\* A byte of a copy is one that the rounds before it have written.
LEMMA CopyDecodes ==
    ASSUME NEW f, Packed(f), Genuine(f), Inv, Decoding(f), CopyByte
    PROVE  Decoding(f)'
<1>1. /\ pc = "copy" /\ UNCHANGED <<file, current, bits, left, offset>>
      /\ \E b \in Behind(offset) : out' = Append(out, b)
      /\ count' = count - 1 /\ MoreCopies(count')
  BY DEF CopyByte
<1>2. need = 0
  BY <1>1 DEF Inv, Fits
<1>3. /\ Between(f) /\ ~ error /\ file = f /\ file' = file
      /\ \E r \in 1..Len(f.rounds) : InRound(f, r)
  BY <1>1, <1>2, BetweenValues
<1>4. PICK r \in 1..Len(f.rounds) : InRound(f, r)
  BY <1>3
<1>5. AtCopy(f, r)
  BY <1>1, <1>4 DEF InRound, AtToken, AtCount, AtByte, AtLength, AtOffset, AtKind, AtLong,
                    AtMore, AtCopy
<1> DEFINE length == f.rounds[r].length
           far == f.rounds[r].far
<1>6. PICK j \in 0..(length - 1) : count = length - j /\ out = CopyOut(f, r, j)
  BY <1>5 DEF AtCopy
<1>7. offset = far /\ Pos = Begin(f, r + 1)
  BY <1>5 DEF AtCopy
<1>8. length \in Nat /\ far \in Nat
  BY CopyPlace
<1> DEFINE o == CopyOut(f, r, j)
<1>9. /\ Len(o) \in Nat /\ Len(o) > far
      /\ CopyOut(f, r, j + 1) = Append(o, o[Len(o) - far])
  BY RoundOutput
<1> HIDE DEF length, far, o
<1>10. out' = CopyOut(f, r, j + 1)
  <2>1. out = o /\ offset < Len(out)
    BY <1>6, <1>7, <1>8, <1>9 DEF o
  <2>2. Behind(offset) = {out[Len(out) - offset]}
    BY <2>1 DEF Behind
  <2>3. out' = Append(out, out[Len(out) - offset])
    BY <1>1, <2>2
  <2> QED
    BY <1>7, <1>9, <2>1, <2>3
<1>11. j + 1 \in 0..length /\ count' = length - (j + 1)
  BY <1>1, <1>6, <1>8
<1> QED
  BY <1>1, <1>3, <1>7, <1>10, <1>11, ToCopy DEF length, far

\* Every step decodes what the rounds say.
LEMMA DecodingStep ==
    ASSUME NEW f, Packed(f), Genuine(f), Inv, Decoding(f), [Decode]_vars
    PROVE  Decoding(f)'
<1>1. CASE Open
  BY <1>1, OpenDecodes
<1>2. CASE ReadBit
  BY <1>2, BitKeeps
<1>3. CASE Token
  BY <1>3, TokenDecodes
<1>4. CASE Count
  BY <1>4, CountDecodes
<1>5. CASE ReadByte
  BY <1>5, ByteDecodes
<1>6. CASE ReadLength
  BY <1>6, LengthDecodes
<1>7. CASE Kind
  BY <1>7, KindDecodes
<1>8. CASE ReadOffset
  BY <1>8, OffsetDecodes
<1>9. CASE LongOffset
  BY <1>9, LongDecodes
<1>10. CASE MoreLength
  BY <1>10, MoreDecodes
<1>11. CASE CopyByte
  BY <1>11, CopyDecodes
<1>12. CASE UNCHANGED vars
  <2>1. /\ file' = file /\ pc' = pc /\ need' = need /\ data' = data /\ current' = current
        /\ bits' = bits /\ left' = left /\ count' = count /\ offset' = offset /\ out' = out
        /\ error' = error
    BY <1>12 DEF vars
  <2>2. Pos' = Pos
    BY <2>1 DEF Pos
  <2>3. Mark' = Mark
    BY <2>1, <2>2 DEF Mark
  <2>4. Words'
    BY <2>1, <2>2 DEF Decoding, Words
  <2>5. \A v : Reads(v) => Reads(v)'
    BY <2>1, <2>2 DEF Reads
  <2>6. ASSUME NEW r, InRound(f, r) PROVE InRound(f, r)'
    <3>1. AtToken(f, r) => AtToken(f, r)'
      BY <2>1, <2>3, <2>5 DEF AtToken
    <3>2. AtCount(f, r) => AtCount(f, r)'
      BY <2>1, <2>3, <2>5 DEF AtCount
    <3>3. AtByte(f, r) => AtByte(f, r)'
      BY <2>1, <2>3, <2>5 DEF AtByte
    <3>4. AtLength(f, r) => AtLength(f, r)'
      BY <2>1, <2>3, <2>5 DEF AtLength
    <3>5. AtOffset(f, r) => AtOffset(f, r)'
      BY <2>1, <2>3, <2>5 DEF AtOffset
    <3>6. AtKind(f, r) => AtKind(f, r)'
      BY <2>1, <2>3, <2>5 DEF AtKind
    <3>7. AtLong(f, r) => AtLong(f, r)'
      BY <2>1, <2>3, <2>5 DEF AtLong
    <3>8. AtMore(f, r) => AtMore(f, r)'
      BY <2>1, <2>3, <2>5 DEF AtMore
    <3>9. AtCopy(f, r) => AtCopy(f, r)'
      BY <2>1, <2>2 DEF AtCopy
    <3> QED
      BY <2>6, <3>1, <3>2, <3>3, <3>4, <3>5, <3>6, <3>7, <3>8, <3>9 DEF InRound
  <2> QED
    BY <2>1, <2>4, <2>6 DEF Decoding
<1> QED
  BY <1>1, <1>2, <1>3, <1>4, <1>5, <1>6, <1>7, <1>8, <1>9, <1>10, <1>11, <1>12 DEF Decode

\* The file that is loaded is decoded as its rounds say, if a compressor has
\* written it.
Faithful == Genuine(file) => \E f : file = f /\ Decoding(f)

\* It is so at the beginning, ...
LEMMA FaithfulInit == Init => Faithful
<1> SUFFICES ASSUME Init PROVE Decoding(file)
  BY DEF Faithful
<1>1. file.words \in Seq(Word)
  BY FileAssumption DEF Init, Packed
<1>2. Len(left) = Len(file.words) /\ Len(file.words) \in Nat
  BY <1>1 DEF Init
<1>3. \A w \in 1..Len(left) : left[w] = file.words[(Len(file.words) - Len(left)) + w]
  BY <1>2 DEF Init
<1> QED
  BY <1>2, <1>3 DEF Init, Decoding, Words

\* ... every step keeps it, ...
LEMMA FaithfulStep == Inv /\ Faithful /\ [Decode]_vars => Faithful'
<1> SUFFICES ASSUME Inv, Faithful, [Decode]_vars, Genuine(file')
             PROVE  \E f : file' = f /\ Decoding(f)'
  BY DEF Faithful
<1>1. file' = file
  BY DEF Decode, vars, Open, ReadBit, Token, Count, ReadByte, ReadLength, Kind, ReadOffset,
         LongOffset, MoreLength, CopyByte
<1>2. PICK f : file = f /\ Decoding(f)
  BY <1>1 DEF Faithful
<1>3. Packed(f) /\ Genuine(f)
  BY <1>1, <1>2 DEF Inv, TypeOK
<1> QED
  BY <1>1, <1>2, <1>3, DecodingStep

\* ... and it is what loading such a file means.
LEMMA FaithfulLoads == Faithful => (Genuine(file) => CompressedFilesLoad)
<1> SUFFICES ASSUME Faithful, Genuine(file) PROVE CompressedFilesLoad
  OBVIOUS
<1>1. PICK f : file = f /\ Decoding(f)
  BY DEF Faithful
<1>2. pc # "refused"
  BY <1>1 DEF Decoding, InRound, AtToken, AtCount, AtByte, AtLength, AtOffset, AtKind, AtLong,
              AtMore, AtCopy
<1>3. pc = "loaded" => out = Outputs(file.rounds)[Len(file.rounds)]
  BY <1>1 DEF Decoding, InRound, AtToken, AtCount, AtByte, AtLength, AtOffset, AtKind, AtLong,
              AtMore, AtCopy
<1> QED
  BY <1>2, <1>3, ExpandedIsLast DEF CompressedFilesLoad

\* A file that a compressor has written is never refused, and when it has been
\* loaded it is what it was made from: CompressedFilesLoad, for words, bytes and
\* counters of any width, however many rounds there are and however the data lie
\* in the words (depp, and what loadFile makes of its result).
THEOREM CompressedLoads == Spec => [](Genuine(file) => CompressedFilesLoad)
<1>1. Init => Faithful
  BY FaithfulInit
<1>2. Inv /\ Faithful /\ [Decode]_vars => Faithful'
  BY FaithfulStep
<1>3. Faithful => (Genuine(file) => CompressedFilesLoad)
  BY FaithfulLoads
<1>4. Spec => []Inv
  BY InvHolds
<1> QED
  BY <1>1, <1>2, <1>3, <1>4, PTL DEF Spec
===============================================================================
