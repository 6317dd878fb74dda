-------------------------- MODULE UpdateScriptProofs --------------------------
(***************************************************************************)
(* A script is read for its versions, and again for its commands.  The     *)
(* loop over the lines keeps in step with the format, for every script:    *)
(* its types, the blocks and parameters it takes, what it counts, and what *)
(* a count of zero means.  Then what header mode makes of the versions,    *)
(* for every set of files; and command mode within a run of both.          *)
(***************************************************************************)
EXTENDS UpdateScript, TLAPS, WellFoundedInduction, NaturalsInduction,
        FiniteSetTheorems

\* A set of naturals with a member has a least one.
LEMMA LeastNumber ==
    ASSUME NEW T, T \subseteq Nat, T # {}
    PROVE  \E x \in T : \A y \in T : ~ (y < x)
<1>1. IsWellFoundedOn(OpToRel(<, Nat), Nat)
  BY NatLessThanWellFounded
<1>2. \E x \in T : \A y \in T : <<y, x>> \notin OpToRel(<, Nat)
  BY <1>1, WFMin
<1> QED
  BY <1>2 DEF OpToRel

-----------------------------------------------------------------------------
(* The next line of a script.                                              *)

Later(s, i, kinds) == {j \in (i + 1)..Len(s) : Meant(s[j]) \notin kinds}

\* LineAfter is the first line behind i that is none of the kinds, or 0.
LEMMA LineAfterProperty ==
    ASSUME NEW s \in Seq(ScriptLine), NEW i \in 0..Len(s), NEW kinds
    PROVE  \/ LineAfter(s, i, kinds) = 0 /\ Later(s, i, kinds) = {}
           \/ /\ LineAfter(s, i, kinds) \in (i + 1)..Len(s)
              /\ Meant(s[LineAfter(s, i, kinds)]) \notin kinds
              /\ \A j \in Later(s, i, kinds) : LineAfter(s, i, kinds) <= j
<1> DEFINE later == Later(s, i, kinds)
<1>1. Len(s) \in Nat /\ later \subseteq Nat
  BY DEF Later
<1>2. CASE later = {}
  BY <1>2 DEF LineAfter, Later
<1>3. CASE later # {}
  <2>1. \E j \in later : \A k \in later : j <= k
    <3>1. PICK j \in later : \A k \in later : ~ (k < j)
      BY <1>1, <1>3, LeastNumber
    <3> QED
      BY <1>1, <3>1
  <2>2. LineAfter(s, i, kinds) = CHOOSE j \in later : \A k \in later : j <= k
    BY <1>3 DEF LineAfter, Later
  <2>3. LineAfter(s, i, kinds) \in later /\ \A k \in later : LineAfter(s, i, kinds) <= k
    BY <2>1, <2>2
  <2> QED
    BY <2>3 DEF Later
<1> QED
  BY <1>2, <1>3

\* The first of the lines behind i is the line after i.
LEMMA LineAfterIs ==
    ASSUME NEW s \in Seq(ScriptLine), NEW i \in 0..Len(s), NEW kinds,
           NEW j \in Later(s, i, kinds), \A k \in Later(s, i, kinds) : j <= k
    PROVE  LineAfter(s, i, kinds) = j
<1>1. LineAfter(s, i, kinds) \in Later(s, i, kinds)
  BY LineAfterProperty DEF Later
<1>2. LineAfter(s, i, kinds) <= j /\ j <= LineAfter(s, i, kinds)
  BY <1>1, LineAfterProperty
<1> QED
  BY <1>1, <1>2 DEF Later

-----------------------------------------------------------------------------
(* The block that starts at a line.                                        *)

\* One line more, from the lines f[k - 1] taken before.
TakeStep(s, i, f, k) ==
    IF k <= 1 THEN <<i>>
    ELSE LET next == LineAfter(s, Last(f[k - 1]), {"blank"})
         IN  IF next = 0 THEN f[k - 1] ELSE Append(f[k - 1], next)

\* There is a function that takes the lines of a block one by one ...
LEMMA TakenUpTo ==
    ASSUME NEW s, NEW i, NEW n \in Nat
    PROVE  \E f : f = [k \in 0..n |-> TakeStep(s, i, f, k)]
<1> DEFINE Has(m) == \E f : f = [k \in 0..m |-> TakeStep(s, i, f, k)]
           Bad == {m \in Nat : ~ Has(m)}
<1>1. SUFFICES ASSUME Bad # {} PROVE FALSE
  OBVIOUS
<1>2. PICK m \in Bad : \A k \in Bad : ~ (k < m)
  BY <1>1, LeastNumber
<1>3. CASE m = 0
  <2> DEFINE f == [k \in 0..0 |-> <<i>>]
  <2>1. f = [k \in 0..0 |-> TakeStep(s, i, f, k)]
    BY DEF TakeStep
  <2> QED
    BY <2>1, <1>3, <1>2
<1>4. CASE m # 0
  <2>1. PICK g : g = [k \in 0..(m - 1) |-> TakeStep(s, i, g, k)]
    BY <1>2, <1>4
  <2> DEFINE h == [k \in 0..m |-> IF k < m THEN g[k] ELSE TakeStep(s, i, g, m)]
  <2>2. ASSUME NEW k \in 0..m PROVE h[k] = TakeStep(s, i, h, k)
    <3>1. k > 1 => h[k - 1] = g[k - 1]
      OBVIOUS
    <3>2. TakeStep(s, i, h, k) = TakeStep(s, i, g, k)
      <4> HIDE DEF h
      <4> QED
        BY <3>1 DEF TakeStep
    <3>3. k < m => g[k] = TakeStep(s, i, g, k)
      BY <2>1
    <3>4. h[k] = TakeStep(s, i, g, k)
      BY <3>3
    <3> QED
      BY <3>2, <3>4
  <2>3. h = [k \in 0..m |-> TakeStep(s, i, h, k)]
    BY <2>2
  <2> QED
    BY <2>3, <1>2
<1> QED
  BY <1>3, <1>4

\* The lines taken for a block up to the n-th.
Upto(s, i, n) == CHOOSE f : f = [k \in 0..n |-> TakeStep(s, i, f, k)]

\* ... namely Upto, whose values keep to the recursion ...
LEMMA UptoStep ==
    ASSUME NEW s, NEW i, NEW n \in Nat
    PROVE  \A k \in 0..n : Upto(s, i, n)[k] = TakeStep(s, i, Upto(s, i, n), k)
<1>1. Upto(s, i, n) = [k \in 0..n |-> TakeStep(s, i, Upto(s, i, n), k)]
  BY TakenUpTo DEF Upto
<1> QED
  BY <1>1

\* ... and do not depend on how far it goes.
LEMMA UptoOnce ==
    ASSUME NEW s, NEW i, NEW n \in Nat
    PROVE  \A k \in 0..n : Upto(s, i, n)[k] = Upto(s, i, n + 1)[k]
<1> DEFINE f == Upto(s, i, n)
           g == Upto(s, i, n + 1)
           Bad == {k \in 0..n : f[k] # g[k]}
<1>1. \A k \in 0..n : f[k] = TakeStep(s, i, f, k) /\ g[k] = TakeStep(s, i, g, k)
  <2>1. n + 1 \in Nat /\ \A k \in 0..n : k \in 0..(n + 1)
    OBVIOUS
  <2> QED
    BY <2>1, UptoStep
<1> HIDE DEF f, g
<1>2. SUFFICES ASSUME Bad # {} PROVE FALSE
  BY DEF f, g
<1>3. PICK k \in Bad : \A j \in Bad : ~ (j < k)
  <2>1. Bad \subseteq Nat
    OBVIOUS
  <2> QED
    BY <1>2, <2>1, LeastNumber
<1>4. k > 1 => f[k - 1] = g[k - 1]
  BY <1>3
<1>5. TakeStep(s, i, f, k) = TakeStep(s, i, g, k)
  BY <1>4 DEF TakeStep
<1> QED
  BY <1>1, <1>3, <1>5

\* BlockAt is what its recursive definition says.
LEMMA BlockAtStep ==
    ASSUME NEW s, NEW i, NEW k \in Nat
    PROVE  /\ k <= 1 => BlockAt(s, i, k) = <<i>>
           /\ k >= 1 => BlockAt(s, i, k + 1) =
                LET next == LineAfter(s, Last(BlockAt(s, i, k)), {"blank"})
                IN  IF next = 0 THEN BlockAt(s, i, k) ELSE Append(BlockAt(s, i, k), next)
<1> DEFINE F == [n \in Nat |-> Upto(s, i, n)[n]]
           taken == CHOOSE f : f = [n \in Nat |-> TakeStep(s, i, f, n)]
<1>1. ASSUME NEW n \in Nat PROVE F[n] = TakeStep(s, i, F, n)
  <2>1. F[n] = TakeStep(s, i, Upto(s, i, n), n)
    BY UptoStep, n \in 0..n
  <2>2. n > 1 => F[n - 1] = Upto(s, i, n)[n - 1]
    <3>1. SUFFICES ASSUME n > 1 PROVE F[n - 1] = Upto(s, i, n)[n - 1]
      OBVIOUS
    <3>2. n - 1 \in Nat /\ (n - 1) + 1 = n /\ n - 1 \in 0..(n - 1)
      BY <3>1
    <3>3. Upto(s, i, n - 1)[n - 1] = Upto(s, i, (n - 1) + 1)[n - 1]
      BY <3>2, UptoOnce
    <3> QED
      BY <3>2, <3>3
  <2> HIDE DEF F
  <2>3. TakeStep(s, i, F, n) = TakeStep(s, i, Upto(s, i, n), n)
    BY <2>2 DEF TakeStep
  <2> QED
    BY <2>1, <2>3
<1>2. F = [n \in Nat |-> TakeStep(s, i, F, n)]
  BY <1>1
<1>3. taken = [n \in Nat |-> TakeStep(s, i, taken, n)]
  BY <1>2
<1>4. \A n : BlockAt(s, i, n) = taken[n]
  BY DEF BlockAt, TakeStep
<1> HIDE DEF taken
<1>5. \A n \in Nat : taken[n] = TakeStep(s, i, taken, n)
  BY <1>3
<1>6. taken[k] = TakeStep(s, i, taken, k) /\ taken[k + 1] = TakeStep(s, i, taken, k + 1)
  BY <1>5
<1>7. (k + 1) - 1 = k
  OBVIOUS
<1> QED
  BY <1>4, <1>6, <1>7 DEF TakeStep

\* A block has as many lines as wanted, or there are no more.
Taking(s, i, k) ==
    /\ BlockAt(s, i, k) \in Seq(1..Len(s))
    /\ Len(BlockAt(s, i, k)) \in 1..k
    /\ BlockAt(s, i, k)[1] = i
    /\ Last(BlockAt(s, i, k)) \in i..Len(s)
    /\ \A j \in 1..Len(BlockAt(s, i, k)) :
         BlockAt(s, i, k)[j] <= Last(BlockAt(s, i, k)) /\ (j # 1 => BlockAt(s, i, k)[j] > i)
    /\ Len(BlockAt(s, i, k)) < k => LineAfter(s, Last(BlockAt(s, i, k)), {"blank"}) = 0

\* What holds of the lines taken holds of every block, by least counterexample.
LEMMA BlockAtTaking ==
    ASSUME NEW s \in Seq(ScriptLine), NEW i \in 1..Len(s), NEW n \in Nat \ {0}
    PROVE  Taking(s, i, n)
<1>1. Len(s) \in Nat
  OBVIOUS
<1>2. Taking(s, i, 1)
  <2>1. BlockAt(s, i, 1) = <<i>>
    BY BlockAtStep
  <2> QED
    BY <1>1, <2>1 DEF Taking, Last
<1>3. ASSUME NEW k \in Nat \ {0}, Taking(s, i, k) PROVE Taking(s, i, k + 1)
  <2> DEFINE b == BlockAt(s, i, k)
             next == LineAfter(s, Last(b), {"blank"})
  <2>1. BlockAt(s, i, k + 1) = IF next = 0 THEN b ELSE Append(b, next)
    BY BlockAtStep
  <2>2. b \in Seq(1..Len(s)) /\ Len(b) \in 1..k /\ b[1] = i /\ Last(b) \in i..Len(s)
        /\ (Len(b) < k => next = 0)
        /\ \A j \in 1..Len(b) : b[j] <= Last(b) /\ (j # 1 => b[j] > i)
    BY <1>3 DEF Taking
  <2>3. next = 0 \/ next \in (Last(b) + 1)..Len(s)
    <3>1. Last(b) \in 0..Len(s)
      BY <1>1, <2>2
    <3> QED
      BY <3>1, LineAfterProperty
  <2> HIDE DEF b
  <2>4. CASE next = 0
    BY <2>1, <2>2, <2>4 DEF Taking
  <2>5. CASE next # 0
    <3>1. next \in 1..Len(s) /\ next \in i..Len(s) /\ next > i /\ next > Last(b)
          /\ Last(b) \in Nat
      BY <1>1, <2>2, <2>3, <2>5
    <3>2. Len(b) = k
      BY <2>2, <2>5
    <3> HIDE DEF next
    <3> DEFINE c == Append(b, next)
    <3>3. c \in Seq(1..Len(s)) /\ Len(c) = k + 1 /\ c[1] = i /\ c[k + 1] = next
          /\ \A j \in 1..k : c[j] = b[j] /\ c[j] \in 1..Len(s)
      BY <2>2, <3>1, <3>2
    <3>4. BlockAt(s, i, k + 1) = c
      BY <2>1, <2>5
    <3> HIDE DEF c
    <3>5. Last(c) = next
      BY <3>3 DEF Last
    <3>6. ASSUME NEW j \in 1..(k + 1) PROVE c[j] <= next /\ (j # 1 => c[j] > i)
      <4>1. CASE j = k + 1
        BY <1>1, <3>1, <3>3, <4>1
      <4>2. CASE j # k + 1
        <5>1. j \in 1..k /\ j \in 1..Len(b)
          BY <3>2, <4>2
        <5>2. c[j] = b[j] /\ c[j] \in 1..Len(s) /\ b[j] <= Last(b) /\ (j # 1 => b[j] > i)
          BY <2>2, <3>3, <5>1
        <5> QED
          BY <1>1, <3>1, <5>2
      <4> QED
        BY <4>1, <4>2
    <3> QED
      BY <3>1, <3>3, <3>4, <3>5, <3>6 DEF Taking
  <2> QED
    BY <2>4, <2>5
<1> DEFINE Bad == {k \in Nat \ {0} : ~ Taking(s, i, k)}
<1>4. SUFFICES ASSUME Bad # {} PROVE FALSE
  OBVIOUS
<1>5. PICK m \in Bad : \A k \in Bad : ~ (k < m)
  BY <1>4, LeastNumber, Bad \subseteq Nat
<1>6. m # 1
  BY <1>2, <1>5
<1>7. m - 1 \in Nat \ {0} /\ Taking(s, i, m - 1) /\ (m - 1) + 1 = m
  BY <1>5, <1>6
<1> QED
  BY <1>3, <1>5, <1>7

\* The first lines of a block are the block of these many lines.
LEMMA BlockAtGrows ==
    ASSUME NEW s \in Seq(ScriptLine), NEW i \in 1..Len(s), NEW k \in Nat \ {0},
           NEW n \in Nat, k <= n
    PROVE  /\ Len(BlockAt(s, i, k)) <= Len(BlockAt(s, i, n))
           /\ \A j \in 1..Len(BlockAt(s, i, k)) : BlockAt(s, i, n)[j] = BlockAt(s, i, k)[j]
           /\ Len(BlockAt(s, i, k)) < k => BlockAt(s, i, n) = BlockAt(s, i, k)
<1> DEFINE b == BlockAt(s, i, k)
           Grown(m) == /\ Len(b) <= Len(BlockAt(s, i, m))
                       /\ \A j \in 1..Len(b) : BlockAt(s, i, m)[j] = b[j]
                       /\ Len(b) < k => BlockAt(s, i, m) = b
           Bad == {m \in Nat : k <= m /\ ~ Grown(m)}
<1>1. SUFFICES ASSUME Bad # {} PROVE FALSE
  OBVIOUS
<1>2. PICK m \in Bad : \A l \in Bad : ~ (l < m)
  BY <1>1, LeastNumber, Bad \subseteq Nat
<1>3. b \in Seq(1..Len(s)) /\ Len(b) \in Nat
  BY BlockAtTaking DEF Taking
<1>4. m # k
  BY <1>2, <1>3
<1>5. m - 1 \in Nat \ {0} /\ k <= m - 1 /\ (m - 1) + 1 = m
  BY <1>2, <1>4
<1>6. Grown(m - 1)
  BY <1>2, <1>5
<1> DEFINE c == BlockAt(s, i, m - 1)
           next == LineAfter(s, Last(c), {"blank"})
<1>7. BlockAt(s, i, m) = IF next = 0 THEN c ELSE Append(c, next)
  <2> DEFINE l == m - 1
  <2>1. l \in Nat /\ l >= 1 /\ l + 1 = m
    BY <1>5
  <2> HIDE DEF l
  <2>2. BlockAt(s, i, l + 1) =
          LET after == LineAfter(s, Last(BlockAt(s, i, l)), {"blank"})
          IN  IF after = 0 THEN BlockAt(s, i, l) ELSE Append(BlockAt(s, i, l), after)
    BY <2>1, BlockAtStep
  <2> QED
    BY <2>1, <2>2 DEF l
<1>8. c \in Seq(1..Len(s)) /\ Len(c) \in Nat
  BY <1>5, BlockAtTaking DEF Taking
<1>9. Len(b) < k => next = 0
  BY <1>6, BlockAtTaking DEF Taking
<1>10. Len(b) <= Len(c) /\ \A j \in 1..Len(b) : c[j] = b[j]
  BY <1>6
<1> HIDE DEF next, c, b
<1>11. CASE next = 0
  BY <1>2, <1>5, <1>6, <1>7, <1>11 DEF b, c
<1>12. CASE next # 0
  <2>1. \A j \in 1..Len(b) : Append(c, next)[j] = b[j]
    BY <1>3, <1>8, <1>10
  <2>2. Len(b) <= Len(Append(c, next))
    BY <1>3, <1>8, <1>10
  <2> QED
    BY <1>2, <1>7, <1>9, <1>12, <2>1, <2>2 DEF b
<1> QED
  BY <1>11, <1>12

-----------------------------------------------------------------------------
(* The blocks of a script.                                                 *)

FromStep(s, f, i) ==
    LET top == LineAfter(s, i, {"blank", "comment"})
        taken(m) == BlockAt(s, top, DocumentedLines(m))
    IN  [m \in Mode |->
           IF top = 0 THEN <<>>
           ELSE IF Meant(s[top]) \in Mode THEN f[top][Meant(s[top])]
           ELSE IF m = "NO_MODE" THEN f[top][m]
           ELSE <<[mode |-> m, lines |-> taken(m)]>> \o f[Last(taken(m))][m]]

\* A block has one to five lines.
LEMMA DocumentedLinesType ==
    \A m : DocumentedLines(m) \in 1..5 /\ DocumentedLines(m) \in Nat \ {0}
BY DEF DocumentedLines

\* The block of a line behind line i ends behind line i.
LEMMA BlockLiesBehind ==
    ASSUME NEW s \in Seq(ScriptLine), NEW i \in 0..Len(s), NEW top \in (i + 1)..Len(s), NEW m
    PROVE  /\ Taking(s, top, DocumentedLines(m))
           /\ Last(BlockAt(s, top, DocumentedLines(m))) \in (i + 1)..Len(s)
<1>1. top \in 1..Len(s) /\ Len(s) \in Nat
  OBVIOUS
<1>2. Taking(s, top, DocumentedLines(m))
  BY <1>1, DocumentedLinesType, BlockAtTaking
<1>3. Last(BlockAt(s, top, DocumentedLines(m))) \in top..Len(s)
  BY <1>2 DEF Taking
<1> QED
  BY <1>1, <1>2, <1>3

\* A step looks only at what lies behind its line.
LEMMA FromStepLocal ==
    ASSUME NEW s \in Seq(ScriptLine), NEW i \in 0..Len(s), NEW f, NEW g,
           \A j \in (i + 1)..Len(s) : f[j] = g[j]
    PROVE  FromStep(s, f, i) = FromStep(s, g, i)
<1> DEFINE top == LineAfter(s, i, {"blank", "comment"})
           taken(m) == BlockAt(s, top, DocumentedLines(m))
<1>1. top = 0 \/ top \in (i + 1)..Len(s)
  BY LineAfterProperty
<1>2. top # 0 => f[top] = g[top]
  BY <1>1
<1>3. \A m \in Mode : top # 0 => f[Last(taken(m))] = g[Last(taken(m))]
  BY <1>1, BlockLiesBehind
<1> QED
  BY <1>2, <1>3 DEF FromStep

\* There is a function that gives the blocks behind each of the last n lines.
LEMMA BlocksUpTo ==
    ASSUME NEW s \in Seq(ScriptLine), NEW n \in 0..Len(s)
    PROVE  \E f : f = [i \in (Len(s) - n)..Len(s) |-> FromStep(s, f, i)]
<1> DEFINE Has(k) == \E f : f = [i \in (Len(s) - k)..Len(s) |-> FromStep(s, f, i)]
           Bad == {k \in 0..Len(s) : ~ Has(k)}
<1>1. SUFFICES ASSUME Bad # {} PROVE FALSE
  OBVIOUS
<1>2. PICK k \in Bad : \A l \in Bad : ~ (l < k)
  <2>1. Bad \subseteq Nat
    OBVIOUS
  <2> QED
    BY <1>1, <2>1, LeastNumber
<1> DEFINE first == Len(s) - k
<1>3. Len(s) \in Nat /\ first \in 0..Len(s)
  OBVIOUS
<1>4. \E g : \A i \in (first + 1)..Len(s) : g[i] = FromStep(s, g, i)
  <2>1. CASE k = 0
    BY <1>3, <2>1
  <2>2. CASE k # 0
    <3>1. Len(s) - (k - 1) = first + 1
      BY <1>3
    <3>2. Has(k - 1)
      <4>1. k - 1 \in 0..Len(s) /\ k - 1 < k
        BY <1>3, <2>2
      <4> HIDE DEF Has
      <4> QED
        BY <1>2, <4>1
    <3>3. PICK g : g = [i \in (first + 1)..Len(s) |-> FromStep(s, g, i)]
      BY <3>1, <3>2
    <3> QED
      BY <3>3
  <2> QED
    BY <2>1, <2>2
<1>5. PICK g : \A i \in (first + 1)..Len(s) : g[i] = FromStep(s, g, i)
  BY <1>4
<1> DEFINE h == [i \in first..Len(s) |-> IF i = first THEN FromStep(s, g, i) ELSE g[i]]
<1>6. \A j \in (first + 1)..Len(s) : h[j] = g[j]
  BY <1>3
<1>7. \A i \in first..Len(s) : h[i] = IF i = first THEN FromStep(s, g, i) ELSE g[i]
  OBVIOUS
<1>8. h = [i \in first..Len(s) |-> h[i]]
  OBVIOUS
<1> HIDE DEF h
<1>9. ASSUME NEW i \in first..Len(s) PROVE h[i] = FromStep(s, h, i)
  <2>1. i \in 0..Len(s) /\ \A j \in (i + 1)..Len(s) : j \in (first + 1)..Len(s)
    BY <1>3
  <2>2. FromStep(s, h, i) = FromStep(s, g, i)
    BY <1>6, <2>1, FromStepLocal
  <2>3. i # first => i \in (first + 1)..Len(s)
    BY <1>3
  <2> QED
    BY <1>5, <1>7, <2>2, <2>3
<1>10. h = [i \in first..Len(s) |-> FromStep(s, h, i)]
  BY <1>8, <1>9
<1> QED
  BY <1>2, <1>10

\* BlocksFrom is what its recursive definition says.
LEMMA BlocksFromStep ==
    ASSUME NEW s \in Seq(ScriptLine), NEW i \in 0..Len(s)
    PROVE  BlocksFrom(s)[i] = FromStep(s, BlocksFrom(s), i)
<1> DEFINE from == CHOOSE f : f = [j \in 0..Len(s) |-> FromStep(s, f, j)]
<1>1. Len(s) \in 0..Len(s) /\ Len(s) - Len(s) = 0
  OBVIOUS
<1>2. from = [j \in 0..Len(s) |-> FromStep(s, from, j)]
  <2>1. \E f : f = [j \in (Len(s) - Len(s))..Len(s) |-> FromStep(s, f, j)]
    BY <1>1, BlocksUpTo
  <2>2. \E f : f = [j \in 0..Len(s) |-> FromStep(s, f, j)]
    BY <1>1, <2>1
  <2> QED
    BY <2>2
<1>3. BlocksFrom(s) = from
  BY DEF BlocksFrom, FromStep
<1> HIDE DEF from
<1> QED
  BY <1>2, <1>3

\* A block the format knows of has at least one line.
DocumentedBlock(s) == {b \in [mode : Mode, lines : Seq(1..Len(s))] : b.lines # <<>>}

\* The blocks behind a line are blocks of lines of the script.
LEMMA BlocksFromType ==
    ASSUME NEW s \in Seq(ScriptLine), NEW i \in 0..Len(s), NEW m \in Mode
    PROVE  BlocksFrom(s)[i][m] \in Seq(DocumentedBlock(s))
<1> DEFINE Typed(j) == \A k \in Mode : BlocksFrom(s)[j][k] \in Seq(DocumentedBlock(s))
           Bad == {n \in 0..Len(s) : ~ Typed(Len(s) - n)}
<1>1. SUFFICES Bad = {}
  <2>1. Len(s) - i \in 0..Len(s) /\ Len(s) - (Len(s) - i) = i
    OBVIOUS
  <2> QED
    BY <2>1
<1>2. SUFFICES ASSUME Bad # {} PROVE FALSE
  OBVIOUS
<1>3. PICK n \in Bad : \A l \in Bad : ~ (l < n)
  <2>1. Bad \subseteq Nat
    OBVIOUS
  <2> QED
    BY <1>2, <2>1, LeastNumber
<1> DEFINE first == Len(s) - n
           top == LineAfter(s, first, {"blank", "comment"})
<1>4. first \in 0..Len(s) /\ Len(s) \in Nat
  OBVIOUS
<1>5. ASSUME NEW j \in (first + 1)..Len(s), NEW k \in Mode
      PROVE  BlocksFrom(s)[j][k] \in Seq(DocumentedBlock(s))
  <2>1. Len(s) - j \in 0..Len(s) /\ Len(s) - j < n /\ Len(s) - (Len(s) - j) = j
    BY <1>4
  <2>2. Typed(Len(s) - (Len(s) - j))
    <3> HIDE DEF Typed
    <3> QED
      BY <1>3, <2>1
  <2> QED
    BY <2>1, <2>2
<1>6. top = 0 \/ top \in (first + 1)..Len(s)
  BY <1>4, LineAfterProperty
<1>7. BlocksFrom(s)[first] = FromStep(s, BlocksFrom(s), first)
  BY <1>4, BlocksFromStep
<1> HIDE DEF first
<1>8. ASSUME NEW k \in Mode PROVE BlocksFrom(s)[first][k] \in Seq(DocumentedBlock(s))
  <2> DEFINE taken == BlockAt(s, top, DocumentedLines(k))
  <2>1. BlocksFrom(s)[first][k] =
          IF top = 0 THEN <<>>
          ELSE IF Meant(s[top]) \in Mode THEN BlocksFrom(s)[top][Meant(s[top])]
          ELSE IF k = "NO_MODE" THEN BlocksFrom(s)[top][k]
          ELSE <<[mode |-> k, lines |-> taken]>> \o BlocksFrom(s)[Last(taken)][k]
    BY <1>7 DEF FromStep
  <2>2. CASE top = 0
    BY <2>1, <2>2
  <2>3. CASE top # 0 /\ (Meant(s[top]) \in Mode \/ k = "NO_MODE")
    BY <1>5, <1>6, <2>1, <2>3
  <2>4. CASE top # 0 /\ Meant(s[top]) \notin Mode /\ k # "NO_MODE"
    <3>1. top \in (first + 1)..Len(s)
      BY <1>6, <2>4
    <3>2. Taking(s, top, DocumentedLines(k)) /\ Last(taken) \in (first + 1)..Len(s)
      BY <1>4, <3>1, BlockLiesBehind
    <3>3. taken \in Seq(1..Len(s)) /\ taken # <<>>
      BY <3>2 DEF Taking
    <3> HIDE DEF taken, top
    <3>4. [mode |-> k, lines |-> taken] \in DocumentedBlock(s)
      BY <3>3 DEF DocumentedBlock
    <3>5. BlocksFrom(s)[Last(taken)][k] \in Seq(DocumentedBlock(s))
      BY <1>5, <3>2
    <3>6. <<[mode |-> k, lines |-> taken]>> \o BlocksFrom(s)[Last(taken)][k]
            \in Seq(DocumentedBlock(s))
      BY <3>4, <3>5
    <3> QED
      BY <2>1, <2>4, <3>6
  <2> QED
    BY <2>2, <2>3, <2>4
<1> QED
  BY <1>3, <1>8 DEF first

\* What is at a place of a sequence.
LEMMA ElementType == ASSUME NEW S, NEW q \in Seq(S), NEW l \in 1..Len(q) PROVE q[l] \in S
OBVIOUS

\* The blocks behind a line begin at the next line that counts, and all their other
\* lines come later.
LEMMA BlocksLieBehind ==
    ASSUME NEW s \in Seq(ScriptLine), NEW i \in 0..Len(s), NEW m \in Mode,
           NEW j \in 1..Len(BlocksFrom(s)[i][m]),
           NEW k \in 1..Len(BlocksFrom(s)[i][m][j].lines),
           NEW top, top = LineAfter(s, i, {"blank", "comment"})
    PROVE  /\ top \in (i + 1)..Len(s)
           /\ BlocksFrom(s)[i][m][j].lines[k] \in top..Len(s)
           /\ k # 1 => BlocksFrom(s)[i][m][j].lines[k] > top
<1> DEFINE Next0(f) == LineAfter(s, f, {"blank", "comment"})
           Ahead(f) ==
             \A x \in Mode : \A b \in 1..Len(BlocksFrom(s)[f][x]) :
               \A l \in 1..Len(BlocksFrom(s)[f][x][b].lines) :
                 /\ Next0(f) \in (f + 1)..Len(s)
                 /\ BlocksFrom(s)[f][x][b].lines[l] \in Next0(f)..Len(s)
                 /\ l # 1 => BlocksFrom(s)[f][x][b].lines[l] > Next0(f)
           Bad == {n \in 0..Len(s) : ~ Ahead(Len(s) - n)}
<1>1. SUFFICES Bad = {}
  <2>1. Len(s) - i \in 0..Len(s) /\ Len(s) - (Len(s) - i) = i
    OBVIOUS
  <2>2. Ahead(i)
    <3> HIDE DEF Ahead
    <3> QED
      BY <2>1
  <2> QED
    BY <2>2
<1>2. SUFFICES ASSUME Bad # {} PROVE FALSE
  OBVIOUS
<1>3. PICK n \in Bad : \A l \in Bad : ~ (l < n)
  <2>1. Bad \subseteq Nat
    OBVIOUS
  <2> QED
    BY <1>2, <2>1, LeastNumber
<1> DEFINE first == Len(s) - n
           t == Next0(first)
<1>4. first \in 0..Len(s) /\ Len(s) \in Nat
  OBVIOUS
<1>5. ASSUME NEW f \in (first + 1)..Len(s) PROVE Ahead(f)
  <2>1. Len(s) - f \in 0..Len(s) /\ Len(s) - f < n /\ Len(s) - (Len(s) - f) = f
    BY <1>4
  <2> HIDE DEF Ahead
  <2> QED
    BY <1>3, <2>1
<1>6. t = 0 \/ t \in (first + 1)..Len(s)
  BY <1>4, LineAfterProperty
<1>7. BlocksFrom(s)[first] = FromStep(s, BlocksFrom(s), first)
  BY <1>4, BlocksFromStep
<1>8. ~ Ahead(first)
  BY <1>3
<1> HIDE DEF first
<1>9. ASSUME NEW f \in (first + 1)..Len(s), t # 0, f >= t, NEW x \in Mode,
             NEW b \in 1..Len(BlocksFrom(s)[f][x]),
             NEW l \in 1..Len(BlocksFrom(s)[f][x][b].lines)
      PROVE  BlocksFrom(s)[f][x][b].lines[l] \in t..Len(s)
             /\ BlocksFrom(s)[f][x][b].lines[l] > t
  <2>1. Next0(f) \in (f + 1)..Len(s) /\ BlocksFrom(s)[f][x][b].lines[l] \in Next0(f)..Len(s)
    BY <1>5, <1>9
  <2>2. t \in Nat /\ f \in Nat /\ f >= t
    BY <1>4, <1>6, <1>9
  <2> DEFINE u == Next0(f)
             v == BlocksFrom(s)[f][x][b].lines[l]
  <2>3. u \in (f + 1)..Len(s) /\ v \in u..Len(s)
    BY <2>1
  <2> HIDE DEF t, u, v
  <2>4. v \in t..Len(s) /\ v > t
    BY <1>4, <2>2, <2>3
  <2> QED
    BY <2>4 DEF v
<1>10. ASSUME NEW x \in Mode, NEW b \in 1..Len(BlocksFrom(s)[first][x]),
              NEW l \in 1..Len(BlocksFrom(s)[first][x][b].lines)
       PROVE  /\ t \in (first + 1)..Len(s)
              /\ BlocksFrom(s)[first][x][b].lines[l] \in t..Len(s)
              /\ l # 1 => BlocksFrom(s)[first][x][b].lines[l] > t
  <2> DEFINE taken == BlockAt(s, t, DocumentedLines(x))
             d == [mode |-> x, lines |-> taken]
             rest == BlocksFrom(s)[Last(taken)][x]
  <2>1. BlocksFrom(s)[first][x] =
          IF t = 0 THEN <<>>
          ELSE IF Meant(s[t]) \in Mode THEN BlocksFrom(s)[t][Meant(s[t])]
          ELSE IF x = "NO_MODE" THEN BlocksFrom(s)[t][x]
          ELSE <<d>> \o rest
    BY <1>7 DEF FromStep
  <2>2. t # 0 /\ t \in (first + 1)..Len(s)
    BY <1>6, <1>10, <2>1
  <2> HIDE DEF t
  <2>3. CASE Meant(s[t]) \in Mode \/ x = "NO_MODE"
    <3>1. PICK y \in Mode : BlocksFrom(s)[first][x] = BlocksFrom(s)[t][y]
      BY <2>1, <2>2, <2>3
    <3>2. b \in 1..Len(BlocksFrom(s)[t][y]) /\ l \in 1..Len(BlocksFrom(s)[t][y][b].lines)
      BY <1>10, <3>1
    <3>3. t >= t
      BY <1>4, <2>2
    <3>4. BlocksFrom(s)[t][y][b].lines[l] \in t..Len(s) /\ BlocksFrom(s)[t][y][b].lines[l] > t
      BY <1>9, <2>2, <3>2, <3>3
    <3> QED
      BY <2>2, <3>1, <3>4
  <2>4. CASE Meant(s[t]) \notin Mode /\ x # "NO_MODE"
    <3>1. Taking(s, t, DocumentedLines(x)) /\ Last(taken) \in (first + 1)..Len(s)
      BY <1>4, <2>2, BlockLiesBehind
    <3>2. taken \in Seq(1..Len(s)) /\ Last(taken) \in t..Len(s) /\ taken[1] = t
          /\ \A y \in 1..Len(taken) : taken[y] <= Last(taken) /\ (y # 1 => taken[y] > t)
      BY <3>1 DEF Taking
    <3>3. rest \in Seq(DocumentedBlock(s))
      <4>1. Last(taken) \in 0..Len(s)
        BY <1>4, <3>1
      <4> HIDE DEF taken
      <4> QED
        BY <4>1, BlocksFromType DEF rest
    <3>4. BlocksFrom(s)[first][x] = <<d>> \o rest
      BY <2>1, <2>2, <2>4
    <3> HIDE DEF rest
    <3>5. CASE b = 1
      <4>1. BlocksFrom(s)[first][x][b] = d
        <5> HIDE DEF d
        <5> QED
          BY <3>3, <3>4, <3>5
      <4>2. BlocksFrom(s)[first][x][b].lines = taken
        BY <4>1
      <4> HIDE DEF taken, d
      <4>3. l \in 1..Len(taken)
        BY <1>10, <4>2
      <4>4. taken[l] \in 1..Len(s)
        <5>1. taken \in Seq(1..Len(s))
          BY <3>2
        <5> QED
          BY <4>3, <5>1, ElementType
      <4>5. l # 1 => taken[l] > t
        BY <3>2, <4>3
      <4>6. taken[l] \in t..Len(s)
        BY <1>4, <2>2, <3>2, <4>4, <4>5
      <4> QED
        BY <2>2, <4>2, <4>5, <4>6
    <3>6. CASE b # 1
      <4>1. b - 1 \in 1..Len(rest) /\ BlocksFrom(s)[first][x][b] = rest[b - 1]
        <5> HIDE DEF d
        <5>1. Len(<<d>> \o rest) = Len(rest) + 1 /\ Len(rest) \in Nat
              /\ \A y \in 1..Len(rest) : (<<d>> \o rest)[y + 1] = rest[y]
          BY <3>3
        <5>2. b \in 1..(Len(rest) + 1)
          BY <1>10, <3>4, <5>1
        <5>3. b - 1 \in 1..Len(rest) /\ (b - 1) + 1 = b
          BY <3>6, <5>1, <5>2
        <5> QED
          BY <3>4, <5>1, <5>3
      <4>2. Last(taken) >= t
        BY <1>4, <2>2, <3>2
      <4>3. rest[b - 1].lines[l] \in t..Len(s) /\ rest[b - 1].lines[l] > t
        <5>1. l \in 1..Len(rest[b - 1].lines)
          BY <1>10, <4>1
        <5> HIDE DEF taken
        <5> QED
          BY <1>9, <2>2, <3>1, <4>1, <4>2, <5>1 DEF rest
      <4> QED
        BY <2>2, <4>1, <4>3
    <3> QED
      BY <3>5, <3>6
  <2> QED
    BY <2>3, <2>4
<1> QED
  BY <1>8, <1>10

-----------------------------------------------------------------------------
(* Where the loop is.                                                      *)

InBlock == pc \in {"lookup", "parameters", "skip", "aborted"}

\* The lines of the current block that have been read or skipped.
Count == IF pc = "lookup" THEN 1 ELSE DocumentedLines(mode) - left

\* The current block goes with the keyword in force; the counters count down
\* to nothing exactly where the format ends the block.
Placed ==
    /\ InBlock =>
         /\ mode \notin UnusedMode
         /\ block.mode = mode
         /\ Len(block.lines) >= 1
         /\ buf >= 1
         /\ Count \in 1..DocumentedLines(mode)
    /\ ~ InBlock => block = NoBlock /\ left = 0
    /\ pc = "lookup" => left = 0 /\ ~ block.failed /\ Len(block.lines) = 1
    /\ pc = "aborted" => left = 0
    /\ pc = "skip" => block.failed
    /\ pc = "end" => line = Len(script)

Shape == TypeOK /\ Placed

\* The script is a finite sequence of lines.
LEMMA ScriptIsSequence == TypeOK => script \in Seq(ScriptLine) /\ Len(script) \in Nat
BY ScriptAssumption DEF TypeOK

\* Loop and format agree on what is blank, indented or not.
LEMMA BlankForBoth ==
    ASSUME NEW s \in Seq(ScriptLine), NEW i \in 1..Len(s)
    PROVE  /\ Seen(s[i]) = "blank" <=> Meant(s[i]) = "blank"
           /\ Meant(s[i]) # "NO_MODE"
BY DEF ScriptLine, Seen, Meant

\* NextLine delivers the first line it does not skip.
LEMMA NextLineIs ==
    ASSUME TypeOK, NextLine
    PROVE  /\ line' = buf' /\ buf' \in (line + 1)..Len(script)
           /\ Seen(script[buf']) \notin {"blank", "comment"}
           /\ \A j \in (line + 1)..Len(script) :
                Seen(script[j]) \notin {"blank", "comment"} => buf' <= j
<1>1. script \in Seq(ScriptLine) /\ line \in 0..Len(script)
  BY ScriptIsSequence DEF TypeOK
<1>2. Readable \subseteq Nat /\ Readable # {}
  BY <1>1 DEF Readable, NextLine
<1>3. PICK x \in Readable : \A y \in Readable : ~ (y < x)
  BY <1>2, LeastNumber
<1>4. x \in Readable /\ \A j \in Readable : x <= j
  BY <1>2, <1>3
<1>5. buf' \in Readable /\ \A j \in Readable : buf' <= j
  BY <1>4 DEF NextLine
<1> QED
  BY <1>5 DEF NextLine, Readable

\* NextLine returns false where it would skip all that is left; the buffer stays.
LEMMA NoNextLineIs ==
    ASSUME TypeOK, NoNextLine
    PROVE  /\ line' = Len(script) /\ buf' = buf
           /\ \A j \in (line + 1)..Len(script) : Seen(script[j]) \in {"blank", "comment"}
BY DEF NoNextLine, Readable

-----------------------------------------------------------------------------
(* Types and places.                                                       *)

BlockType == [mode : Mode, lines : Seq(1..Len(script)), failed : BOOLEAN]

\* The loop counts the lines the format gives each keyword.
LEMMA CountersFit ==
    \A m \in Mode \ UnusedMode :
      /\ m \in SidMode => /\ ParameterLines(m) = DocumentedLines(m) - 1
                          /\ SkippedLines(m) = DocumentedLines(m) - 1
      /\ m \in {"MOVE", "REPLACE"} => DocumentedLines(m) = 2
      /\ m \in {"DELETE", "MKDIR"} => DocumentedLines(m) = 1
BY DEF ParameterLines, SkippedLines, DocumentedLines, Mode, SidMode, CreditMode,
       ValueMode, PathMode, UnusedMode

\* The cases of the switch do not overlap, and there is no other.
LEMMA ModeKinds ==
    \A m \in Mode \ UnusedMode :
      /\ m \in SidMode => m \notin {"MOVE", "REPLACE", "DELETE", "MKDIR"}
      /\ m \in SidMode \/ m \in {"MOVE", "REPLACE"} \/ m \in {"DELETE", "MKDIR"}
BY DEF Mode, SidMode, CreditMode, ValueMode, PathMode, UnusedMode

\* The block in hand is put down: what Finish leaves.
LEMMA FinishType ==
    ASSUME TypeOK, NEW failed \in BOOLEAN, Finish(failed), script' = script
    PROVE  /\ blocks' \in Seq(BlockType) /\ block' = NoBlock /\ left' = 0 /\ pc' = "top"
           /\ NoBlock \in BlockType
<1>1. [block EXCEPT !.failed = failed] \in BlockType
  BY DEF TypeOK, BlockType
<1>2. NoBlock \in BlockType
  BY DEF NoBlock, BlockType, Mode, UnusedMode
<1> QED
  BY <1>1, <1>2 DEF Finish, TypeOK, BlockType

\* One line less is left, one more of the block is read or skipped.
LEMMA CountsDown ==
    ASSUME TypeOK, Placed, pc \in {"parameters", "skip"}, left > 0,
           left' = left - 1, mode' = mode, pc' = pc
    PROVE  left' \in 0..4 /\ Count' = Count + 1 /\ Count' \in 1..DocumentedLines(mode)
<1>1. DocumentedLines(mode) \in 1..5 /\ left \in 0..4
  BY DocumentedLinesType DEF TypeOK
<1>2. Count = DocumentedLines(mode) - left /\ Count \in 1..DocumentedLines(mode)
  BY DEF Count, Placed, InBlock
<1>3. Count' = DocumentedLines(mode) - left'
  BY DEF Count
<1> QED
  BY <1>1, <1>2, <1>3

\* A line is added to the block in hand.
LEMMA LineAdded ==
    ASSUME TypeOK, Placed, NEW n \in 1..Len(script),
           block' = [block EXCEPT !.lines = Append(@, n)]
    PROVE  /\ block' \in BlockType /\ block'.mode = block.mode /\ block'.failed = block.failed
           /\ block'.lines = Append(block.lines, n)
           /\ Len(block'.lines) >= 1
<1>1. block \in BlockType /\ block.lines \in Seq(1..Len(script))
  BY DEF TypeOK, BlockType
<1>2. Append(block.lines, n) \in Seq(1..Len(script)) /\ Len(Append(block.lines, n)) >= 1
  BY <1>1
<1> QED
  BY <1>1, <1>2 DEF BlockType

\* After the first line of a block the others are left, however it went.
LEMMA LookedUp ==
    ASSUME TypeOK, Placed, FoundPath \/ PathNotFound
    PROVE  left' = DocumentedLines(mode) - 1
<1>1. mode \in Mode \ UnusedMode
  BY DEF FoundPath, PathNotFound, TypeOK, Placed, InBlock
<1>2. CASE FoundPath
  <2>1. CASE mode \in SidMode
    BY <1>1, <1>2, <2>1, CountersFit DEF FoundPath
  <2>2. CASE mode \in {"MOVE", "REPLACE"}
    BY <1>1, <1>2, <2>2, CountersFit, ModeKinds DEF FoundPath
  <2>3. CASE mode \in {"DELETE", "MKDIR"}
    BY <1>1, <1>2, <2>3, CountersFit, ModeKinds DEF FoundPath
  <2> QED
    BY <1>1, <2>1, <2>2, <2>3, ModeKinds
<1>3. CASE PathNotFound
  BY <1>1, <1>3, CountersFit, ModeKinds DEF PathNotFound
<1> QED
  BY <1>2, <1>3

\* No block is begun before the first line.
LEMMA ShapeInit == Init => Shape
<1> SUFFICES ASSUME Init PROVE Shape
  OBVIOUS
<1>1. script \in Script /\ script \in Seq(ScriptLine) /\ Len(script) \in Nat
  BY ScriptAssumption DEF Init
<1>2. NoBlock \in BlockType
  BY DEF NoBlock, BlockType, Mode, UnusedMode
<1>3. TypeOK
  BY <1>1, <1>2 DEF Init, TypeOK, BlockType, Mode, UnusedMode
<1>4. Placed
  BY DEF Init, Placed, InBlock
<1> QED
  BY <1>3, <1>4 DEF Shape

\* Every turn of the loop leaves its variables what they are said to be.
LEMMA ShapeStep == Shape /\ [Next]_vars => Shape'
<1> SUFFICES ASSUME Shape, [Next]_vars PROVE Shape'
  OBVIOUS
<1>1. TypeOK /\ Placed /\ script \in Seq(ScriptLine) /\ Len(script) \in Nat
  BY ScriptIsSequence DEF Shape
<1>2. Shape' <=> TypeOK' /\ Placed'
  BY DEF Shape
<1>3. \A m : DocumentedLines(m) \in 1..5
  BY DocumentedLinesType
<1>4. CASE EndOfScript
  <2>1. line' = Len(script) /\ buf' = buf
    BY <1>1, <1>4, NoNextLineIs DEF EndOfScript
  <2>2. TypeOK'
    BY <1>1, <1>4, <2>1 DEF EndOfScript, TypeOK
  <2>3. Placed'
    BY <1>1, <1>4, <2>1 DEF EndOfScript, Placed, InBlock, Count
  <2> QED
    BY <1>2, <2>2, <2>3
<1>5. CASE ReadTop
  <2>1. line' = buf' /\ buf' \in (line + 1)..Len(script) /\ script' = script
        /\ left' = left /\ blocks' = blocks
    BY <1>1, <1>5, NextLineIs DEF ReadTop
  <2>2. buf' \in 1..Len(script) /\ line' \in 0..Len(script) /\ buf' \in 0..line'
    BY <1>1, <2>1 DEF TypeOK
  <2>3. CASE Seen(script[buf']) \in Mode /\ mode' = Seen(script[buf'])
             /\ UNCHANGED <<pc, block, errors>>
    <3>1. TypeOK'
      BY <1>1, <2>1, <2>2, <2>3 DEF TypeOK
    <3>2. Placed'
      BY <1>1, <1>5, <2>1, <2>3 DEF ReadTop, Placed, InBlock, Count
    <3> QED
      BY <1>2, <3>1, <3>2
  <2>4. CASE errors' = errors + 1 /\ UNCHANGED <<mode, pc, block>>
    <3>1. TypeOK'
      BY <1>1, <2>1, <2>2, <2>4 DEF TypeOK
    <3>2. Placed'
      BY <1>1, <1>5, <2>1, <2>4 DEF ReadTop, Placed, InBlock, Count
    <3> QED
      BY <1>2, <3>1, <3>2
  <2>5. CASE /\ mode \notin UnusedMode /\ pc' = "lookup" /\ UNCHANGED <<mode, errors>>
             /\ block' = [mode |-> mode, lines |-> <<buf'>>, failed |-> FALSE]
    <3>1. block' \in [mode : Mode, lines : Seq(1..Len(script)), failed : BOOLEAN]
          /\ Len(block'.lines) = 1 /\ block'.mode = mode /\ ~ block'.failed
      BY <1>1, <2>2, <2>5 DEF TypeOK
    <3>2. TypeOK'
      BY <1>1, <2>1, <2>2, <2>5, <3>1 DEF TypeOK
    <3>3. left = 0
      BY <1>1, <1>5 DEF ReadTop, Placed, InBlock
    <3>4. Placed'
      BY <1>1, <1>3, <2>1, <2>2, <2>5, <3>1, <3>3 DEF Placed, InBlock, Count
    <3> QED
      BY <1>2, <3>2, <3>4
  <2> QED
    BY <1>5, <2>3, <2>4, <2>5 DEF ReadTop
<1>6. CASE FoundPath
  <2>1. mode \in Mode \ UnusedMode /\ left' \in 0..4 /\ Count' = 1
    <3>1. mode \in Mode \ UnusedMode
      BY <1>1, <1>6 DEF FoundPath, TypeOK, Placed, InBlock
    <3>2. left' = DocumentedLines(mode) - 1 /\ mode' = mode /\ pc' = "parameters"
      BY <1>1, <1>6, LookedUp DEF FoundPath
    <3>3. left' \in 0..4
      BY <1>3, <3>2
    <3> QED
      BY <1>3, <3>1, <3>2, <3>3 DEF Count
  <2>2. TypeOK'
    BY <1>1, <1>6, <2>1 DEF FoundPath, TypeOK
  <2>3. Placed'
    BY <1>1, <1>3, <1>6, <2>1 DEF FoundPath, Placed, InBlock
  <2> QED
    BY <1>2, <2>2, <2>3
<1>7. CASE PathNotFound
  <2>1. mode \in Mode \ UnusedMode /\ pc' \in {"parameters", "skip"} /\ mode' = mode
    BY <1>1, <1>7 DEF PathNotFound, TypeOK, Placed, InBlock
  <2>2. left' \in 0..4 /\ Count' = 1
    <3>1. left' = DocumentedLines(mode) - 1
      BY <1>1, <1>7, LookedUp
    <3>2. left' \in 0..4
      BY <1>3, <3>1
    <3> QED
      BY <1>3, <2>1, <3>1, <3>2 DEF Count
  <2>3. block' \in BlockType /\ block'.failed /\ block'.lines = block.lines
        /\ block'.mode = block.mode
    BY <1>1, <1>7 DEF PathNotFound, TypeOK, BlockType
  <2>4. TypeOK'
    BY <1>1, <1>7, <2>1, <2>2, <2>3 DEF PathNotFound, TypeOK, BlockType
  <2>5. Placed'
    BY <1>1, <1>3, <1>7, <2>1, <2>2, <2>3 DEF PathNotFound, Placed, InBlock
  <2> QED
    BY <1>2, <2>4, <2>5
<1>8. CASE ReadParameter
  <2>1. line' = buf' /\ buf' \in 1..Len(script)
    BY <1>1, <1>8, NextLineIs DEF ReadParameter, TypeOK
  <2>2. block' \in BlockType /\ Len(block'.lines) >= 1 /\ block'.mode = block.mode
    BY <1>1, <1>8, <2>1, LineAdded DEF ReadParameter
  <2>3. errors' \in Nat /\ left' \in 0..4 /\ mode' = mode /\ Count' \in 1..DocumentedLines(mode)
    BY <1>1, <1>8, CountsDown DEF ReadParameter, TypeOK
  <2>4. TypeOK'
    BY <1>1, <1>8, <2>1, <2>2, <2>3 DEF ReadParameter, TypeOK, BlockType
  <2>5. Placed'
    BY <1>1, <1>8, <2>1, <2>2, <2>3 DEF ReadParameter, Placed, InBlock
  <2> QED
    BY <1>2, <2>4, <2>5
<1>9. CASE MissingParameter
  <2>1. line' = Len(script) /\ buf' = buf /\ buf' \in 1..Len(script) /\ errors' \in Nat
        /\ mode' = mode /\ script' = script
    BY <1>1, <1>9, NoNextLineIs DEF MissingParameter, TypeOK, Placed, InBlock
  <2>2. CASE mode \in SidMode
    <3>1. block' \in BlockType /\ Len(block'.lines) >= 1 /\ block'.mode = block.mode
          /\ UNCHANGED <<pc, blocks>>
      BY <1>1, <1>9, <2>1, <2>2, LineAdded DEF MissingParameter
    <3>2. left' \in 0..4 /\ Count' \in 1..DocumentedLines(mode)
      BY <1>1, <1>9, <2>1, <2>2, CountsDown DEF MissingParameter
    <3>3. TypeOK'
      BY <1>1, <2>1, <3>1, <3>2 DEF TypeOK, BlockType
    <3>4. Placed'
      BY <1>1, <1>9, <2>1, <3>1, <3>2 DEF MissingParameter, Placed, InBlock
    <3> QED
      BY <1>2, <3>3, <3>4
  <2>3. CASE mode \notin SidMode
    <3>1. Finish(TRUE)
      BY <1>9, <2>3 DEF MissingParameter
    <3>2. blocks' \in Seq(BlockType) /\ block' = NoBlock /\ left' = 0 /\ pc' = "top"
          /\ NoBlock \in BlockType
      BY <1>1, <2>1, <3>1, FinishType
    <3>3. TypeOK'
      BY <1>1, <2>1, <3>2 DEF TypeOK, BlockType
    <3>4. Placed'
      BY <3>2 DEF Placed, InBlock
    <3> QED
      BY <1>2, <3>3, <3>4
  <2> QED
    BY <2>2, <2>3
<1>10. ASSUME NEW failed \in BOOLEAN, Finish(failed), UNCHANGED <<script, mode>>,
              line' \in 0..Len(script), buf' \in 0..line', errors' \in Nat
       PROVE  Shape'
  <2>1. blocks' \in Seq(BlockType) /\ block' = NoBlock /\ left' = 0 /\ pc' = "top"
        /\ NoBlock \in BlockType
    BY <1>1, <1>10, FinishType
  <2>2. TypeOK'
    BY <1>1, <1>10, <2>1 DEF TypeOK, BlockType
  <2>3. Placed'
    BY <2>1 DEF Placed, InBlock
  <2> QED
    BY <1>2, <2>2, <2>3
<1>11. CASE ExecuteBlock
  <2>1. UNCHANGED <<script, line, buf, mode>> /\ line \in 0..Len(script) /\ buf \in 0..line
        /\ block.failed \in BOOLEAN /\ errors \in Nat
    BY <1>1, <1>11 DEF ExecuteBlock, TypeOK
  <2>2. CASE Finish(block.failed) /\ UNCHANGED errors
    BY <1>10, <2>1, <2>2
  <2>3. CASE Finish(TRUE) /\ errors' \in {errors + 1, errors + 2}
    <3>1. errors' \in Nat /\ line' \in 0..Len(script) /\ buf' \in 0..line'
          /\ UNCHANGED <<script, mode>>
      BY <2>1, <2>3
    <3> QED
      BY <1>10, <2>3, <3>1
  <2>4. CASE pc' = "aborted" /\ UNCHANGED <<left, block, blocks, errors>>
    <3>1. TypeOK'
      BY <1>1, <2>1, <2>4 DEF TypeOK
    <3>2. Placed'
      BY <1>1, <1>11, <2>1, <2>4 DEF ExecuteBlock, Placed, InBlock, Count
    <3> QED
      BY <1>2, <3>1, <3>2
  <2> QED
    BY <1>11, <2>2, <2>3, <2>4 DEF ExecuteBlock
<1>12. CASE SkipLine
  <2>1. line' \in 0..Len(script) /\ buf' \in 0..line' /\ buf' >= 1
    <3>1. buf >= 1
      BY <1>1, <1>12 DEF SkipLine, Placed, InBlock
    <3>2. CASE NextLine
      BY <1>1, <3>2, NextLineIs DEF TypeOK
    <3>3. CASE NoNextLine
      BY <1>1, <3>1, <3>3, NoNextLineIs DEF TypeOK
    <3> QED
      BY <1>12, <3>2, <3>3 DEF SkipLine
  <2>2. left' \in 0..4 /\ mode' = mode /\ Count' \in 1..DocumentedLines(mode)
    BY <1>1, <1>12, CountsDown DEF SkipLine
  <2>3. TypeOK'
    BY <1>1, <1>12, <2>1, <2>2 DEF SkipLine, TypeOK
  <2>4. Placed'
    BY <1>1, <1>12, <2>1, <2>2 DEF SkipLine, Placed, InBlock
  <2> QED
    BY <1>2, <2>3, <2>4
<1>13. CASE EndSkip
  BY <1>1, <1>10, <1>13 DEF EndSkip, TypeOK
<1>14. CASE UNCHANGED vars
  <2>1. TypeOK'
    BY <1>1, <1>14 DEF vars, TypeOK
  <2>2. Placed'
    BY <1>1, <1>14 DEF vars, Placed, InBlock, Count
  <2> QED
    BY <1>2, <2>1, <2>2
<1> QED
  BY <1>4, <1>5, <1>6, <1>7, <1>8, <1>9, <1>11, <1>12, <1>13, <1>14 DEF Next

\* So they always are.
LEMMA ShapeHolds == Spec => []Shape
BY ShapeInit, ShapeStep, PTL DEF Spec

\* The loop is always at a place where its variables are what they are said to
\* be, and no line number is beyond the end of the script.
THEOREM TypesHold == Spec => []TypeOK
<1>1. Shape => TypeOK
  BY DEF Shape
<1> QED
  BY <1>1, ShapeHolds, PTL

-----------------------------------------------------------------------------
(* Counting.                                                               *)

Failed(dealt) == {i \in DOMAIN dealt : dealt[i].failed}

\* The block in hand counts as soon as it has failed.
Counted == errors >= Cardinality(Failed(blocks)) + (IF block.failed THEN 1 ELSE 0)

\* Only finitely many blocks have failed.
LEMMA FailedIsFinite ==
    ASSUME NEW T, NEW dealt \in Seq(T)
    PROVE  IsFiniteSet(Failed(dealt)) /\ Cardinality(Failed(dealt)) \in Nat
<1>1. IsFiniteSet(1..Len(dealt)) /\ Failed(dealt) \subseteq 1..Len(dealt)
  <2>1. Len(dealt) \in Nat /\ DOMAIN dealt = 1..Len(dealt)
    OBVIOUS
  <2> QED
    BY <2>1, FS_Interval DEF Failed
<1>2. IsFiniteSet(Failed(dealt))
  BY <1>1, FS_Subset
<1> QED
  BY <1>2, FS_CardinalityType

\* One more block is one more failure at most, and none if it has not failed.
LEMMA FailedWithAnother ==
    ASSUME NEW dealt \in Seq(BlockType), NEW b \in BlockType
    PROVE  Cardinality(Failed(Append(dealt, b)))
             <= Cardinality(Failed(dealt)) + (IF b.failed THEN 1 ELSE 0)
<1> DEFINE more == Append(dealt, b)
           last == Len(dealt) + 1
<1>1. Len(dealt) \in Nat /\ DOMAIN more = 1..last /\ more[last] = b
      /\ \A i \in 1..Len(dealt) : more[i] = dealt[i]
  OBVIOUS
<1>2. IsFiniteSet(Failed(dealt)) /\ Cardinality(Failed(dealt)) \in Nat
  BY FailedIsFinite
<1> HIDE DEF more
<1>3. CASE b.failed
  <2>1. Failed(more) = Failed(dealt) \cup {last} /\ last \notin Failed(dealt)
    BY <1>1, <1>3 DEF Failed
  <2>2. Cardinality(Failed(more)) = Cardinality(Failed(dealt)) + 1
    BY <1>2, <2>1, FS_AddElement
  <2> QED
    BY <1>2, <1>3, <2>2 DEF more
<1>4. CASE ~ b.failed
  <2>1. Failed(more) = Failed(dealt)
    BY <1>1, <1>4 DEF Failed
  <2> QED
    BY <1>2, <1>4, <2>1 DEF more
<1> QED
  BY <1>3, <1>4

\* No block fails without an error, in whatever turn of the loop it does.
LEMMA CountedStep == Shape /\ Counted /\ [Next]_vars => Counted'
<1> SUFFICES ASSUME Shape, Counted, [Next]_vars PROVE Counted'
  OBVIOUS
<1> DEFINE count == Cardinality(Failed(blocks))
<1>1. TypeOK /\ Placed /\ blocks \in Seq(BlockType) /\ block \in BlockType
      /\ errors \in Nat
  BY DEF Shape, TypeOK, BlockType
<1>2. count \in Nat /\ errors >= count /\ (block.failed => errors >= count + 1)
  BY <1>1, FailedIsFinite DEF Counted
<1>3. ASSUME NEW failed \in BOOLEAN, Finish(failed), errors' \in Nat,
             errors' >= count + (IF failed THEN 1 ELSE 0)
      PROVE  Counted'
  <2> DEFINE b == [block EXCEPT !.failed = failed]
  <2>1. b \in BlockType /\ b.failed = failed
    BY <1>1 DEF BlockType
  <2>2. blocks' = Append(blocks, b) /\ ~ block'.failed
    BY <1>3 DEF Finish, NoBlock
  <2> HIDE DEF b
  <2>3. Cardinality(Failed(blocks')) <= count + (IF failed THEN 1 ELSE 0)
    BY <1>1, <2>1, <2>2, FailedWithAnother
  <2>4. Cardinality(Failed(blocks')) \in Nat
    <3>1. blocks' \in Seq(BlockType)
      BY <1>1, <2>1, <2>2
    <3> QED
      BY <3>1, FailedIsFinite
  <2> QED
    BY <1>2, <1>3, <2>2, <2>3, <2>4 DEF Counted
<1>4. ASSUME UNCHANGED blocks, errors' \in Nat, errors' >= errors,
             block'.failed => block.failed \/ errors' > errors
      PROVE  Counted'
  <2> HIDE DEF count
  <2>1. Cardinality(Failed(blocks)) = count /\ Cardinality(Failed(blocks')) = count
    BY <1>4 DEF count
  <2> QED
    BY <1>1, <1>2, <1>4, <2>1 DEF Counted
<1>5. CASE EndOfScript \/ FoundPath \/ SkipLine \/ UNCHANGED vars
  BY <1>1, <1>4, <1>5 DEF EndOfScript, FoundPath, SkipLine, vars
<1>6. CASE ReadTop
  <2>1. UNCHANGED blocks /\ errors' \in Nat /\ errors' >= errors
    BY <1>1, <1>6 DEF ReadTop
  <2>2. block'.failed => block.failed
    BY <1>6 DEF ReadTop
  <2> QED
    BY <1>4, <2>1, <2>2
<1>7. CASE PathNotFound
  BY <1>1, <1>4, <1>7 DEF PathNotFound
<1>8. CASE ReadParameter
  <2>1. block'.failed = block.failed
    BY <1>1, <1>8 DEF ReadParameter, BlockType
  <2>2. UNCHANGED blocks /\ errors' \in Nat /\ errors' >= errors
    BY <1>1, <1>8 DEF ReadParameter
  <2> QED
    BY <1>4, <2>1, <2>2
<1>9. CASE MissingParameter
  <2>1. errors' \in Nat /\ errors' > errors
    BY <1>1, <1>9 DEF MissingParameter
  <2>2. CASE Finish(TRUE)
    <3>1. errors' >= count + 1
      BY <1>1, <1>2, <2>1
    <3> HIDE DEF count
    <3> QED
      BY <1>3, <2>1, <2>2, <3>1
  <2>3. CASE UNCHANGED blocks
    BY <1>1, <1>4, <2>1, <2>3
  <2> QED
    BY <1>9, <2>2, <2>3 DEF MissingParameter
<1>10. CASE ExecuteBlock
  <2>1. CASE Finish(block.failed) /\ UNCHANGED errors
    <3>1. block.failed \in BOOLEAN
      BY <1>1 DEF BlockType
    <3> QED
      BY <1>1, <1>2, <1>3, <2>1, <3>1
  <2>2. CASE Finish(TRUE) /\ errors' \in {errors + 1, errors + 2}
    <3>1. errors' \in Nat /\ errors' >= count + 1
      BY <1>1, <1>2, <2>2
    <3> HIDE DEF count
    <3> QED
      BY <1>3, <2>2, <3>1
  <2>3. CASE UNCHANGED <<left, block, blocks, errors>>
    BY <1>1, <1>4, <2>3
  <2> QED
    BY <1>10, <2>1, <2>2, <2>3 DEF ExecuteBlock
<1>11. CASE EndSkip
  BY <1>1, <1>2, <1>3, <1>11 DEF EndSkip, Placed
<1> QED
  BY <1>5, <1>6, <1>7, <1>8, <1>9, <1>10, <1>11 DEF Next

\* So the count never falls behind.
LEMMA CountedHolds == Spec => []Counted
<1>1. Init => Counted
  <2> SUFFICES ASSUME Init PROVE Counted
    OBVIOUS
  <2>1. blocks = <<>> /\ ~ block.failed /\ errors = 0
    BY DEF Init, NoBlock
  <2>2. Failed(blocks) = {}
    BY <2>1 DEF Failed
  <2> QED
    BY <2>1, <2>2, FS_EmptySet DEF Counted
<1>2. Shape /\ Counted /\ [Next]_vars => Counted'
  BY CountedStep
<1> QED
  BY <1>1, <1>2, ShapeHolds, PTL DEF Spec

\* Whatever goes wrong, there are at least as many errors as blocks that failed.
THEOREM FailuresCount == Spec => []FailuresAreCounted
<1>1. Shape /\ Counted => FailuresAreCounted
  <2> SUFFICES ASSUME Shape, Counted PROVE FailuresAreCounted
    OBVIOUS
  <2>1. blocks \in Seq(BlockType) /\ errors \in Nat
    BY DEF Shape, TypeOK, BlockType
  <2>2. Cardinality(Failed(blocks)) \in Nat
    BY <2>1, FailedIsFinite
  <2> QED
    BY <2>1, <2>2 DEF Counted, FailuresAreCounted, Failed
<1> QED
  BY <1>1, ShapeHolds, CountedHolds, PTL

-----------------------------------------------------------------------------
(* Staying in step with the format.                                        *)

Doc == DocumentedBlocks(script)

\* What the format makes of the lines behind i.
Rest(i, m) == BlocksFrom(script)[i][m]

\* The first k lines of the current block, and all of them, as the format has it.
Taken(k) == BlockAt(script, block.lines[1], k)
Whole == Taken(DocumentedLines(mode))

\* The blocks the format knows of and the loop has still to deal with.
Pending ==
    IF InBlock THEN <<[mode |-> mode, lines |-> Whole]>> \o Rest(Last(Whole), mode)
    ELSE Rest(line, mode)

\* The loop is at the line of the block it has counted to, or the script has
\* run out, which was an error.
InSync ==
    InBlock =>
      \/ Len(Taken(Count)) = Count /\ line = Last(Taken(Count))
      \/ Len(Taken(Count)) < Count /\ line = Len(script) /\ errors > 0

BlockRight ==
    InBlock /\ ~ block.failed /\ Len(Taken(Count)) = Count => block.lines = Taken(Count)

Split ==
    /\ Len(Doc) = Len(blocks) + Len(Pending)
    /\ \A j \in 1..Len(Pending) : Doc[Len(blocks) + j] = Pending[j]

\* A block dealt with is the one the format has at its place.
Matches(b, d) ==
    /\ d.mode = b.mode
    /\ d.lines[1] = b.lines[1]
    /\ ~ b.failed /\ Len(d.lines) = DocumentedLines(d.mode) => b.lines = d.lines
    /\ errors = 0 => b.lines = d.lines

Done == \A i \in 1..Len(blocks) : Matches(blocks[i], Doc[i])

Tracked == InSync /\ BlockRight /\ Split /\ Done

\* The blocks behind a line, by the next line that counts.
LEMMA RestStep ==
    ASSUME TypeOK, NEW i \in 0..Len(script), NEW m \in Mode,
           NEW top, top = LineAfter(script, i, {"blank", "comment"})
    PROVE  /\ top = 0 => Rest(i, m) = <<>>
           /\ top # 0 /\ Meant(script[top]) \in Mode => Rest(i, m) = Rest(top, Meant(script[top]))
           /\ top # 0 /\ Meant(script[top]) \notin Mode /\ m = "NO_MODE" =>
                Rest(i, m) = Rest(top, m)
           /\ top # 0 /\ Meant(script[top]) \notin Mode /\ m # "NO_MODE" =>
                Rest(i, m) = <<[mode |-> m, lines |-> BlockAt(script, top, DocumentedLines(m))]>>
                               \o Rest(Last(BlockAt(script, top, DocumentedLines(m))), m)
<1>1. BlocksFrom(script)[i] = FromStep(script, BlocksFrom(script), i)
  BY ScriptIsSequence, BlocksFromStep
<1> QED
  BY <1>1 DEF Rest, FromStep

\* The blocks behind a line are finitely many.
LEMMA RestType ==
    ASSUME TypeOK, NEW i \in 0..Len(script), NEW m \in Mode
    PROVE  Rest(i, m) \in Seq(DocumentedBlock(script)) /\ Len(Rest(i, m)) \in Nat
BY ScriptIsSequence, BlocksFromType DEF Rest

\* So are the blocks of the whole script.
LEMMA DocType ==
    ASSUME TypeOK
    PROVE  Doc = Rest(0, "NO_MODE") /\ Doc \in Seq(DocumentedBlock(script)) /\ Len(Doc) \in Nat
<1>1. Doc = Rest(0, "NO_MODE")
  BY DEF Doc, DocumentedBlocks, Rest
<1>2. "NO_MODE" \in Mode /\ 0 \in 0..Len(script)
  BY ScriptIsSequence DEF Mode, UnusedMode
<1> QED
  BY <1>1, <1>2, RestType

\* The line after a line that no other line of a script follows.
LEMMA NothingBehind ==
    ASSUME TypeOK, NEW i \in 0..Len(script), NEW m \in Mode,
           i = Len(script) \/ LineAfter(script, i, {"blank"}) = 0
    PROVE  LineAfter(script, i, {"blank", "comment"}) = 0 /\ Rest(i, m) = <<>>
<1>1. script \in Seq(ScriptLine) /\ Len(script) \in Nat
  BY ScriptIsSequence
<1>2. LineAfter(script, i, {"blank", "comment"}) = 0
  <2>1. CASE i = Len(script)
    BY <1>1, <2>1, LineAfterProperty
  <2>2. CASE LineAfter(script, i, {"blank"}) = 0
    <3>1. Later(script, i, {"blank"}) = {}
      BY <1>1, <2>2, LineAfterProperty
    <3>2. Later(script, i, {"blank", "comment"}) = {}
      BY <3>1 DEF Later
    <3> QED
      BY <1>1, <3>2, LineAfterProperty DEF Later
  <2> QED
    BY <2>1, <2>2
<1> QED
  BY <1>2, RestStep

\* The lines of the current block.
LEMMA CurrentBlock ==
    ASSUME Shape, InBlock
    PROVE  /\ block.lines[1] \in 1..Len(script)
           /\ mode \in Mode /\ mode \notin UnusedMode
           /\ Count \in 1..DocumentedLines(mode) /\ DocumentedLines(mode) \in 1..5
           /\ \A k \in Nat \ {0} : Taking(script, block.lines[1], k)
           /\ Whole \in Seq(1..Len(script)) /\ Len(Whole) \in 1..DocumentedLines(mode)
           /\ Whole[1] = block.lines[1]
           /\ Last(Whole) \in 1..Len(script)
           /\ Len(Whole) < DocumentedLines(mode) => LineAfter(script, Last(Whole), {"blank"}) = 0
<1>1. TypeOK /\ Placed /\ script \in Seq(ScriptLine) /\ Len(script) \in Nat
  BY ScriptIsSequence DEF Shape
<1>2. block.lines[1] \in 1..Len(script)
  <2>1. block.lines \in Seq(1..Len(script)) /\ Len(block.lines) >= 1
    BY <1>1 DEF TypeOK, Placed
  <2> QED
    BY <2>1
<1>3. \A k \in Nat \ {0} : Taking(script, block.lines[1], k)
  BY <1>1, <1>2, BlockAtTaking
<1>4. Taking(script, block.lines[1], DocumentedLines(mode))
  BY <1>3, DocumentedLinesType
<1>5. mode \in Mode /\ mode \notin UnusedMode /\ Count \in 1..DocumentedLines(mode)
  BY <1>1 DEF TypeOK, Placed
<1>6. Last(Whole) \in 1..Len(script)
  <2>1. Last(Whole) \in block.lines[1]..Len(script)
    BY <1>4 DEF Taking, Whole, Taken
  <2> QED
    BY <1>1, <1>2, <2>1
<1> QED
  BY <1>2, <1>3, <1>4, <1>5, <1>6, DocumentedLinesType DEF Taking, Whole, Taken

\* And those that are not dealt with.
LEMMA PendingType ==
    ASSUME Shape
    PROVE  Pending \in Seq(DocumentedBlock(script)) /\ Len(Pending) \in Nat
<1>1. TypeOK /\ mode \in Mode /\ line \in 0..Len(script)
  BY DEF Shape, TypeOK
<1>2. CASE InBlock
  <2>1. Whole \in Seq(1..Len(script)) /\ Len(Whole) >= 1 /\ Last(Whole) \in 0..Len(script)
    BY <1>2, CurrentBlock
  <2>2. Rest(Last(Whole), mode) \in Seq(DocumentedBlock(script))
    BY <1>1, <2>1, RestType
  <2>3. [mode |-> mode, lines |-> Whole] \in DocumentedBlock(script)
    BY <1>1, <2>1 DEF DocumentedBlock
  <2> QED
    BY <1>2, <2>2, <2>3 DEF Pending
<1>3. CASE ~ InBlock
  BY <1>1, <1>3, RestType DEF Pending
<1> QED
  BY <1>2, <1>3

\* Each block pending is the one the format has at its place.
LEMMA PendingIsDocumented ==
    ASSUME Shape, Split, NEW j \in 1..Len(Pending)
    PROVE  Len(blocks) + j \in DOMAIN Doc /\ Doc[Len(blocks) + j] = Pending[j]
<1>1. Len(blocks) \in Nat /\ Len(Pending) \in Nat /\ Doc \in Seq(DocumentedBlock(script))
  BY PendingType, DocType DEF Shape, TypeOK
<1>2. Len(blocks) + j \in 1..Len(Doc)
  BY <1>1 DEF Split
<1> QED
  BY <1>1, <1>2 DEF Split

\* The first of them is the block in hand.
LEMMA BlockInHand ==
    ASSUME Shape, Split, InBlock
    PROVE  /\ 1 \in 1..Len(Pending) /\ Pending[1] = [mode |-> mode, lines |-> Whole]
           /\ Len(blocks) + 1 \in DOMAIN Doc
           /\ Doc[Len(blocks) + 1] = [mode |-> mode, lines |-> Whole]
<1>1. Last(Whole) \in 0..Len(script) /\ mode \in Mode
  BY CurrentBlock, ScriptIsSequence DEF Shape
<1>2. Rest(Last(Whole), mode) \in Seq(DocumentedBlock(script))
  BY <1>1, RestType DEF Shape
<1> DEFINE r == Rest(Last(Whole), mode)
           b == [mode |-> mode, lines |-> Whole]
<1>3. Pending = <<b>> \o r
  BY DEF Pending
<1> HIDE DEF r, b
<1>4. r \in Seq(DocumentedBlock(script))
  BY <1>2 DEF r
<1>5. (<<b>> \o r)[1] = b /\ 1 \in 1..Len(<<b>> \o r)
  BY <1>4
<1>6. Pending[1] = b /\ 1 \in 1..Len(Pending)
  BY <1>3, <1>5
<1> QED
  BY <1>6, PendingIsDocumented DEF b

\* Regular scripts have no block of a keyword the loop does not know ...
LEMMA PendingRegular ==
    ASSUME Shape, Split, Regular(script), NEW j \in 1..Len(Pending)
    PROVE  Pending[j].mode # "COPYRIGHT"
BY PendingIsDocumented DEF Regular, Doc

\* ... nor a parameter that it skips.
LEMMA ParameterRegular ==
    ASSUME Shape, Split, Regular(script), InBlock, NEW k \in 2..Len(Whole)
    PROVE  Seen(script[Whole[k]]) # "comment"
<1>1. Whole \in Seq(1..Len(script)) /\ Len(Whole) \in Nat
  BY CurrentBlock
<1>2. k \in (DOMAIN Doc[Len(blocks) + 1].lines) \ {1} /\ Doc[Len(blocks) + 1].lines[k] = Whole[k]
  <2>1. Doc[Len(blocks) + 1].lines = Whole
    BY BlockInHand
  <2>2. k \in (DOMAIN Whole) \ {1}
    BY <1>1
  <2> QED
    BY <2>1, <2>2
<1>3. Whole[k] \in FurtherLines(Doc)
  BY <1>2, BlockInHand DEF FurtherLines
<1> QED
  BY <1>3 DEF Regular, Doc

\* In a block of a regular script the format goes on with the line that NextLine
\* goes on with.
LEMMA NextInBlock ==
    ASSUME Shape, Split, Regular(script), InBlock, Count < DocumentedLines(mode),
           Len(Taken(Count)) = Count, line = Last(Taken(Count))
    PROVE  /\ NextLine => LineAfter(script, line, {"blank"}) = buf'
           /\ NoNextLine => LineAfter(script, line, {"blank"}) = 0
<1> DEFINE n == LineAfter(script, line, {"blank"})
           c == Count
           i == block.lines[1]
<1>1. script \in Seq(ScriptLine) /\ line \in 0..Len(script) /\ Len(script) \in Nat /\ TypeOK
  BY ScriptIsSequence DEF Shape, TypeOK
<1>2. c \in Nat \ {0} /\ c + 1 <= DocumentedLines(mode) /\ DocumentedLines(mode) \in Nat
      /\ i \in 1..Len(script) /\ Taking(script, i, c)
  BY CurrentBlock
<1>3. ASSUME NEW j \in (line + 1)..Len(script), Seen(script[j]) # "blank"
      PROVE  j \in Later(script, line, {"blank"})
  <2>1. j \in 1..Len(script)
    BY <1>1
  <2> QED
    BY <1>1, <1>3, <2>1, BlankForBoth DEF Later
<1>4. CASE n = 0
  <2>1. Later(script, line, {"blank"}) = {}
    BY <1>1, <1>4, LineAfterProperty
  <2>2. ~ NextLine
    <3>1. SUFFICES ASSUME NextLine PROVE FALSE
      OBVIOUS
    <3>2. buf' \in (line + 1)..Len(script) /\ Seen(script[buf']) # "blank"
      BY <1>1, <3>1, NextLineIs
    <3> QED
      BY <1>3, <2>1, <3>2
  <2> QED
    BY <1>4, <2>2
<1>5. CASE n # 0
  <2>1. n \in (line + 1)..Len(script) /\ Meant(script[n]) # "blank"
        /\ \A j \in Later(script, line, {"blank"}) : n <= j
    BY <1>1, <1>5, LineAfterProperty
  <2>2. BlockAt(script, i, c + 1) = Append(BlockAt(script, i, c), n)
    <3>1. Taken(c) = BlockAt(script, i, c)
      BY DEF Taken
    <3> HIDE DEF c, i
    <3>2. c >= 1
      BY <1>2
    <3>3. line = Last(BlockAt(script, i, c))
      BY <3>1 DEF c
    <3> QED
      BY <1>2, <1>5, <3>2, <3>3, BlockAtStep
  <2>3. Len(BlockAt(script, i, c + 1)) = c + 1 /\ BlockAt(script, i, c + 1)[c + 1] = n
    <3>1. BlockAt(script, i, c) \in Seq(1..Len(script)) /\ Len(BlockAt(script, i, c)) = c
      BY <1>2 DEF Taking, Taken
    <3> HIDE DEF n, c, i
    <3> QED
      BY <1>2, <2>2, <3>1
  <2>4. Whole[c + 1] = n /\ c + 1 \in 2..Len(Whole)
    <3> DEFINE d == c + 1
    <3>1. d \in Nat \ {0} /\ d <= DocumentedLines(mode) /\ d >= 2
      BY <1>2
    <3> HIDE DEF d
    <3>2. /\ Len(BlockAt(script, i, d)) <= Len(BlockAt(script, i, DocumentedLines(mode)))
          /\ \A j \in 1..Len(BlockAt(script, i, d)) :
               BlockAt(script, i, DocumentedLines(mode))[j] = BlockAt(script, i, d)[j]
      BY <1>1, <1>2, <3>1, BlockAtGrows
    <3>3. Whole = BlockAt(script, i, DocumentedLines(mode)) /\ Len(Whole) \in Nat
      BY CurrentBlock DEF Whole, Taken
    <3> HIDE DEF n, c, i
    <3> QED
      BY <1>2, <2>3, <3>1, <3>2, <3>3 DEF d
  <2>5. Seen(script[n]) \notin {"blank", "comment"}
    <3>1. Seen(script[n]) # "comment"
      BY <2>4, ParameterRegular
    <3>2. n \in 1..Len(script)
      BY <1>1, <2>1
    <3> QED
      BY <1>1, <2>1, <3>1, <3>2, BlankForBoth
  <2> HIDE DEF n
  <2>6. ~ NoNextLine
    BY <1>1, <2>1, <2>5, NoNextLineIs
  <2>7. NextLine => n = buf'
    <3>1. SUFFICES ASSUME NextLine PROVE n = buf'
      OBVIOUS
    <3>2. buf' \in (line + 1)..Len(script) /\ Seen(script[buf']) # "blank" /\ buf' <= n
      BY <1>1, <2>1, <2>5, <3>1, NextLineIs
    <3>3. n <= buf'
      BY <1>3, <2>1, <3>2
    <3> QED
      BY <1>1, <2>1, <3>2, <3>3
  <2> QED
    BY <2>6, <2>7 DEF n
<1> QED
  BY <1>4, <1>5

\* The lines of the blocks dealt with have been read.
Past ==
    \A i \in 1..Len(blocks) : \A k \in 1..Len(Doc[i].lines) : Doc[i].lines[k] <= line

\* So, outside of blocks, the next line for the format is one that loop and format
\* agree on, as they do on the lines in front of it.
LEMMA Agreed ==
    ASSUME Shape, Split, Past, Regular(script), ~ InBlock, NEW j \in (line + 1)..Len(script),
           NEW n, n = LineAfter(script, line, {"blank", "comment"}), n = 0 \/ j <= n
    PROVE  Seen(script[j]) = Meant(script[j])
<1>1. script \in Seq(ScriptLine) /\ line \in 0..Len(script) /\ Len(script) \in Nat
      /\ mode \in Mode /\ Len(blocks) \in Nat /\ TypeOK
  BY ScriptIsSequence DEF Shape, TypeOK
<1>2. j \in 1..Len(script)
  BY <1>1
<1>3. Doc \in Seq(DocumentedBlock(script)) /\ Len(Doc) \in Nat
  BY <1>1, DocType
<1>4. SUFFICES ASSUME j \in FurtherLines(Doc) PROVE FALSE
  BY <1>1, <1>2 DEF Regular, Doc
<1>5a. PICK i \in 1..Len(Doc) : \E k \in (DOMAIN Doc[i].lines) \ {1} : Doc[i].lines[k] = j
  BY <1>3, <1>4 DEF FurtherLines
<1>5. PICK k \in (DOMAIN Doc[i].lines) \ {1} : Doc[i].lines[k] = j
  BY <1>5a
<1>6. Doc[i].lines \in Seq(1..Len(script))
  BY <1>3 DEF DocumentedBlock
<1>7. k \in 1..Len(Doc[i].lines) /\ k # 1
  BY <1>5, <1>6
<1>8. CASE i \in 1..Len(blocks)
  <2>1. j <= line
    BY <1>5, <1>7, <1>8 DEF Past
  <2> QED
    BY <1>1, <2>1
<1>9. CASE i \notin 1..Len(blocks)
  <2> DEFINE p == i - Len(blocks)
  <2>1. p \in 1..Len(Pending) /\ Len(blocks) + p = i
    BY <1>1, <1>3, <1>9, PendingType DEF Split
  <2>2. Pending[p] = Doc[i]
    BY <2>1, PendingIsDocumented
  <2>3. Pending = BlocksFrom(script)[line][mode]
    BY DEF Pending, Rest
  <2>4. n \in (line + 1)..Len(script) /\ j > n
    <3> HIDE DEF p
    <3>1. p \in 1..Len(BlocksFrom(script)[line][mode])
          /\ k \in 1..Len(BlocksFrom(script)[line][mode][p].lines)
          /\ BlocksFrom(script)[line][mode][p].lines[k] = j
      BY <1>5, <1>7, <2>1, <2>2, <2>3
    <3> QED
      BY <1>1, <1>7, <3>1, BlocksLieBehind
  <2> QED
    BY <1>1, <2>4
<1> QED
  BY <1>8, <1>9

\* There the format goes on with the line that NextLine goes on with as well.
LEMMA NextAtTop ==
    ASSUME Shape, Split, Past, Regular(script), ~ InBlock
    PROVE  /\ NextLine => /\ LineAfter(script, line, {"blank", "comment"}) = buf'
                          /\ Seen(script[buf']) = Meant(script[buf'])
           /\ NoNextLine => LineAfter(script, line, {"blank", "comment"}) = 0
<1> DEFINE n == LineAfter(script, line, {"blank", "comment"})
<1>1. script \in Seq(ScriptLine) /\ line \in 0..Len(script) /\ Len(script) \in Nat /\ TypeOK
  BY ScriptIsSequence DEF Shape, TypeOK
<1>2. ASSUME NEW j \in (line + 1)..Len(script), n = 0 \/ j <= n
      PROVE  Seen(script[j]) = Meant(script[j])
  BY <1>2, Agreed
<1>3. CASE n = 0
  <2>1. Later(script, line, {"blank", "comment"}) = {}
    BY <1>1, <1>3, LineAfterProperty
  <2>2. \A j \in (line + 1)..Len(script) : Seen(script[j]) \in {"blank", "comment"}
    BY <1>2, <1>3, <2>1 DEF Later
  <2>3. ~ NextLine
    BY <1>1, <2>2, NextLineIs
  <2> QED
    BY <1>3, <2>3
<1>4. CASE n # 0
  <2>1. n \in (line + 1)..Len(script) /\ Meant(script[n]) \notin {"blank", "comment"}
        /\ \A j \in Later(script, line, {"blank", "comment"}) : n <= j
    BY <1>1, <1>4, LineAfterProperty
  <2>2. Seen(script[n]) = Meant(script[n])
    BY <1>1, <1>2, <2>1
  <2> HIDE DEF n
  <2>3. ~ NoNextLine
    BY <1>1, <2>1, <2>2, NoNextLineIs
  <2>4. NextLine => n = buf'
    <3>1. SUFFICES ASSUME NextLine PROVE n = buf'
      OBVIOUS
    <3>2. buf' \in (line + 1)..Len(script) /\ Seen(script[buf']) \notin {"blank", "comment"}
          /\ buf' <= n
      BY <1>1, <2>1, <2>2, <3>1, NextLineIs
    <3>3. buf' \in Later(script, line, {"blank", "comment"})
      BY <1>2, <3>2 DEF Later
    <3>4. n <= buf'
      BY <2>1, <3>3
    <3> QED
      BY <1>1, <2>1, <3>2, <3>4
  <2> QED
    BY <2>2, <2>3, <2>4 DEF n
<1> QED
  BY <1>3, <1>4

\* What the format takes for the block once one line more has been counted.
LEMMA OneLineMore ==
    ASSUME Shape, Split, Regular(script), InBlock, InSync, Count < DocumentedLines(mode)
    PROVE  /\ NextLine => /\ Len(Taken(Count)) = Count
                          /\ Taken(Count + 1) = Append(Taken(Count), buf')
           /\ NoNextLine => /\ Taken(Count + 1) = Taken(Count)
                            /\ Len(Taken(Count + 1)) < Count + 1
           /\ Taken(Count) \in Seq(1..Len(script)) /\ Count \in Nat \ {0}
<1> DEFINE c == Count
           i == block.lines[1]
           next == LineAfter(script, Last(Taken(c)), {"blank"})
<1>1. TypeOK /\ script \in Seq(ScriptLine) /\ Len(script) \in Nat
  BY ScriptIsSequence DEF Shape
<1>2. c \in Nat \ {0} /\ i \in 1..Len(script) /\ Taking(script, i, c)
  BY CurrentBlock
<1>3. Taken(c) = BlockAt(script, i, c) /\ Taken(c + 1) = BlockAt(script, i, c + 1)
  BY DEF Taken
<1>4. Taken(c) \in Seq(1..Len(script)) /\ Len(Taken(c)) \in 1..c
      /\ (Len(Taken(c)) < c => next = 0)
  BY <1>2, <1>3 DEF Taking
<1>5. Taken(c + 1) = IF next = 0 THEN Taken(c) ELSE Append(Taken(c), next)
  <2> HIDE DEF c, i
  <2>1. c >= 1
    BY <1>2
  <2> QED
    BY <1>2, <1>3, <2>1, BlockAtStep
<1>6. NextLine => Len(Taken(c)) = c /\ next = buf'
  <2> SUFFICES ASSUME NextLine PROVE Len(Taken(c)) = c /\ next = buf'
    OBVIOUS
  <2>1. buf' \in (line + 1)..Len(script)
    BY <1>1, NextLineIs
  <2>2. line # Len(script)
    BY <1>1, <2>1
  <2>3. Len(Taken(c)) = c /\ line = Last(Taken(c))
    BY <2>2 DEF InSync
  <2> QED
    BY <2>1, <2>3, NextInBlock
<1>7. NoNextLine => next = 0
  <2> SUFFICES ASSUME NoNextLine PROVE next = 0
    OBVIOUS
  <2>1. CASE Len(Taken(c)) = c /\ line = Last(Taken(c))
    BY <2>1, NextInBlock
  <2>2. CASE Len(Taken(c)) < c
    BY <1>4, <2>2
  <2> QED
    BY <2>1, <2>2 DEF InSync
<1>8. NextLine => buf' # 0
  <2>1. NextLine => buf' \in (line + 1)..Len(script) /\ line \in Nat
    BY <1>1, NextLineIs DEF TypeOK
  <2> QED
    BY <2>1
<1> HIDE DEF next
<1>9. NoNextLine => Len(Taken(c + 1)) < c + 1
  BY <1>2, <1>4, <1>5, <1>7
<1> QED
  BY <1>2, <1>4, <1>5, <1>6, <1>7, <1>8, <1>9

\* Reading or skipping a line of a block keeps the loop in step.
LEMMA LineInSync ==
    ASSUME Shape, Split, Regular(script), InBlock, InSync, Count < DocumentedLines(mode),
           Count' = Count + 1, UNCHANGED script, block'.lines[1] = block.lines[1],
           NextLine \/ (NoNextLine /\ errors' > 0)
    PROVE  InSync'
<1> DEFINE c == Count
<1>1. Taken(Count)' = Taken(c + 1) /\ Count' = c + 1
  BY DEF Taken
<1>2. TypeOK /\ Taken(c) \in Seq(1..Len(script)) /\ c \in Nat \ {0}
  BY OneLineMore DEF Shape
<1>3. CASE NextLine
  <2>1. Taken(c + 1) = Append(Taken(c), buf') /\ Len(Taken(c)) = c
    BY <1>3, OneLineMore
  <2>2. line' = buf' /\ buf' \in 1..Len(script)
    BY <1>2, <1>3, NextLineIs DEF TypeOK
  <2> DEFINE t == Taken(c)
  <2>3. t \in Seq(1..Len(script)) /\ Taken(c + 1) = Append(t, buf') /\ Len(t) = c
    BY <1>2, <2>1
  <2> HIDE DEF t
  <2>4. Len(Taken(c + 1)) = c + 1 /\ Last(Taken(c + 1)) = buf'
    BY <2>2, <2>3 DEF Last
  <2> QED
    BY <1>1, <2>2, <2>4 DEF InSync
<1>4. CASE NoNextLine /\ errors' > 0
  <2>1. Len(Taken(c + 1)) < c + 1
    BY <1>4, OneLineMore
  <2>2. line' = Len(script')
    BY <1>2, <1>4, NoNextLineIs
  <2> QED
    BY <1>1, <1>4, <2>1, <2>2 DEF InSync
<1> QED
  BY <1>3, <1>4

\* Nothing is dealt with as long as the same blocks are left.
LEMMA SamePending ==
    ASSUME Split, Done, UNCHANGED <<script, blocks>>, Pending' = Pending,
           errors' = 0 => errors = 0
    PROVE  Split' /\ Done'
<1>1. Doc' = Doc
  BY DEF Doc
<1> QED
  BY <1>1 DEF Split, Done, Matches

\* A step within a block moves none of the blocks.
LEMMA StillInBlock ==
    ASSUME Split, Done, InBlock, InBlock', UNCHANGED <<script, mode, blocks>>,
           block'.lines[1] = block.lines[1], errors' = 0 => errors = 0
    PROVE  Split' /\ Done'
<1>1. Whole' = Whole
  BY DEF Whole, Taken
<1>2. Rest(Last(Whole), mode)' = Rest(Last(Whole), mode)
  BY <1>1 DEF Rest
<1>3. Pending' = Pending
  BY <1>1, <1>2 DEF Pending
<1> QED
  BY <1>3, SamePending

\* A block is done with: the format goes on behind it where the loop does.
LEMMA BlockFinished ==
    ASSUME Shape, Split, Done, InBlock, NEW failed \in BOOLEAN, Finish(failed),
           UNCHANGED <<script, mode>>, errors' = 0 => errors = 0,
           Rest(line', mode) = Rest(Last(Whole), mode),
           ~ failed /\ Len(Whole) = DocumentedLines(mode) => block.lines = Whole,
           errors' = 0 => block.lines = Whole
    PROVE  Tracked'
<1> DEFINE b == [block EXCEPT !.failed = failed]
           n == Len(blocks) + 1
           r == Rest(line', mode)
           d == [mode |-> mode, lines |-> Whole]
<1>1. blocks \in Seq(BlockType) /\ Len(blocks) \in Nat /\ block \in BlockType
      /\ block.mode = mode /\ mode \in Mode /\ Whole \in Seq(1..Len(script))
      /\ Whole[1] = block.lines[1] /\ Len(Doc) \in Nat /\ Last(Whole) \in 0..Len(script)
  BY CurrentBlock, DocType DEF Shape, TypeOK, Placed, BlockType
<1>2. ~ InBlock' /\ Doc' = Doc /\ blocks' = Append(blocks, b)
  BY DEF Finish, InBlock, Doc
<1>3. Pending' = r
  BY <1>2 DEF Pending, Rest
<1>4. Pending = <<d>> \o r /\ r \in Seq(DocumentedBlock(script))
  BY <1>1, RestType DEF Pending, Shape
<1> HIDE DEF r
<1>5. Len(Pending) = Len(r) + 1 /\ Len(r) \in Nat /\ Pending[1] = d
      /\ \A j \in 1..Len(r) : Pending[j + 1] = r[j]
  <2> HIDE DEF d
  <2> QED
    BY <1>4
<1>6. b \in BlockType /\ b.mode = mode /\ b.lines = block.lines /\ b.failed = failed
  BY <1>1 DEF BlockType
<1> HIDE DEF b, d
<1>7. Len(blocks') = n /\ blocks'[n] = b /\ \A j \in 1..Len(blocks) : blocks'[j] = blocks[j]
  BY <1>1, <1>2, <1>6
<1>8. Split'
  <2>1. Len(Doc) = n + Len(r)
    BY <1>1, <1>5 DEF Split
  <2>2. ASSUME NEW j \in 1..Len(r) PROVE Doc[n + j] = r[j]
    <3>1. j + 1 \in 1..Len(Pending)
      BY <1>5
    <3>2. Doc[Len(blocks) + (j + 1)] = Pending[j + 1]
      BY <3>1 DEF Split
    <3>3. Len(blocks) + (j + 1) = n + j
      BY <1>1, <1>5
    <3> QED
      BY <1>5, <3>2, <3>3
  <2> HIDE DEF n
  <2> QED
    BY <1>2, <1>3, <1>7, <2>1, <2>2 DEF Split
<1>9. Doc[n] = d
  <2>1. 1 \in 1..Len(Pending)
    BY <1>5
  <2> QED
    BY <1>5, <2>1 DEF Split
<1>10. Done'
  <2> SUFFICES ASSUME NEW j \in 1..n PROVE Matches(blocks[j], Doc[j])'
    BY <1>7 DEF Done
  <2>1. CASE j = n
    <3>1. d.mode = b.mode /\ d.lines = Whole /\ d.mode = mode
      BY <1>6 DEF d
    <3>2. blocks'[j] = b /\ Doc'[j] = d
      BY <1>2, <1>7, <1>9, <2>1
    <3> QED
      BY <1>1, <1>6, <3>1, <3>2 DEF Matches
  <2>2. CASE j # n
    <3>1. j \in 1..Len(blocks)
      <4>1. Len(blocks) \in Nat
        BY <1>1
      <4> QED
        BY <2>2, <4>1
    <3>2. blocks'[j] = blocks[j] /\ Doc'[j] = Doc[j]
      BY <1>2, <1>7, <3>1
    <3> QED
      BY <3>1, <3>2 DEF Done, Matches
  <2> QED
    BY <2>1, <2>2
<1> QED
  BY <1>2, <1>8, <1>10 DEF Tracked, InSync, BlockRight

\* The loop learns something of its block without reading.
LEMMA SamePlace ==
    ASSUME Tracked, InBlock, InBlock', UNCHANGED <<script, mode, line, blocks>>,
           block'.lines = block.lines, Count' = Count, errors \in Nat, errors' \in Nat,
           errors' >= errors, ~ block'.failed => ~ block.failed
    PROVE  Tracked'
<1>1. Taken(Count)' = Taken(Count)
  BY DEF Taken
<1>2. InSync' /\ BlockRight'
  BY <1>1 DEF Tracked, InSync, BlockRight
<1> QED
  BY <1>2, StillInBlock DEF Tracked

\* At the end of a block the format goes on where the loop is.
LEMMA BehindBlock ==
    ASSUME Shape, InSync, InBlock, Count = DocumentedLines(mode)
    PROVE  Rest(line, mode) = Rest(Last(Whole), mode)
<1>1. TypeOK /\ line \in 0..Len(script) /\ mode \in Mode /\ Last(Whole) \in 0..Len(script)
  BY CurrentBlock DEF Shape, TypeOK
<1>2. Whole = Taken(Count)
  BY DEF Whole
<1>3. CASE line = Last(Whole)
  BY <1>3
<1>4. CASE Len(Whole) < DocumentedLines(mode) /\ line = Len(script)
  <2>1. Rest(line, mode) = <<>>
    BY <1>1, <1>4, NothingBehind
  <2>2. Rest(Last(Whole), mode) = <<>>
    BY <1>1, <1>4, CurrentBlock, NothingBehind
  <2> QED
    BY <2>1, <2>2
<1> QED
  BY <1>2, <1>3, <1>4 DEF InSync

\* Every turn of the loop keeps it in step with the format.
LEMMA TrackedStep ==
    ASSUME Shape, Shape', Counted, Tracked, Past, Regular(script), [Next]_vars
    PROVE  Tracked'
<1>1. TypeOK /\ Placed /\ Split /\ Done /\ InSync /\ BlockRight /\ errors \in Nat
      /\ line \in 0..Len(script) /\ mode \in Mode /\ Len(script) \in Nat
      /\ script \in Seq(ScriptLine)
  BY ScriptIsSequence DEF Shape, Tracked, TypeOK
<1>2. block.failed => errors > 0
  <2>1. Cardinality(Failed(blocks)) \in Nat
    BY <1>1, FailedIsFinite DEF TypeOK
  <2> QED
    BY <1>1, <2>1 DEF Counted
<1>3. ASSUME ~ InBlock', Split', Done' PROVE Tracked'
  BY <1>3 DEF Tracked, InSync, BlockRight
<1>4. CASE EndOfScript
  <2>1. ~ InBlock /\ ~ InBlock' /\ UNCHANGED <<script, mode, blocks, errors>>
    BY <1>4 DEF EndOfScript, InBlock
  <2>2. line' = Len(script) /\ LineAfter(script, line, {"blank", "comment"}) = 0
    BY <1>1, <1>4, <2>1, NoNextLineIs, NextAtTop DEF EndOfScript
  <2>3. Rest(line, mode) = <<>>
    BY <1>1, <2>2, RestStep
  <2>4. Rest(Len(script), mode) = <<>>
    BY <1>1, NothingBehind
  <2>5. Pending' = Pending
    BY <2>1, <2>2, <2>3, <2>4 DEF Pending, Rest
  <2> QED
    BY <1>1, <1>3, <2>1, <2>5, SamePending
<1>5. CASE ReadTop
  <2>1. ~ InBlock /\ UNCHANGED <<script, left, blocks>> /\ Pending = Rest(line, mode)
    BY <1>5 DEF ReadTop, InBlock, Pending
  <2>2. /\ line' = buf' /\ buf' = LineAfter(script, line, {"blank", "comment"})
        /\ buf' # 0 /\ buf' \in 1..Len(script) /\ Seen(script[buf']) = Meant(script[buf'])
    <3>1. line' = buf' /\ buf' = LineAfter(script, line, {"blank", "comment"})
          /\ buf' \in (line + 1)..Len(script) /\ Seen(script[buf']) = Meant(script[buf'])
      BY <1>1, <1>5, <2>1, NextLineIs, NextAtTop DEF ReadTop
    <3> QED
      BY <1>1, <3>1
  <2>3. CASE Seen(script[buf']) \in Mode /\ mode' = Seen(script[buf'])
             /\ UNCHANGED <<pc, block, errors>>
    <3>1. Rest(line, mode) = Rest(buf', Seen(script[buf']))
      <4>1. Meant(script[buf']) \in Mode
        BY <2>2, <2>3
      <4>2. Rest(line, mode) = Rest(buf', Meant(script[buf']))
        BY <1>1, <2>2, <4>1, RestStep
      <4> QED
        BY <2>2, <4>2
    <3>2. ~ InBlock' /\ Pending' = Pending
      BY <2>1, <2>2, <2>3, <3>1 DEF InBlock, Pending, Rest
    <3> QED
      BY <1>1, <1>3, <2>1, <2>3, <3>2, SamePending
  <2>4. CASE Seen(script[buf']) \notin Mode /\ mode \in UnusedMode /\ errors' = errors + 1
             /\ UNCHANGED <<mode, pc, block>>
    <3>1. mode = "NO_MODE"
      <4>1. SUFFICES ASSUME mode = "COPYRIGHT" PROVE FALSE
        BY <2>4 DEF UnusedMode
      <4> DEFINE r == Rest(Last(BlockAt(script, buf', DocumentedLines(mode))), mode)
                 b == [mode |-> mode, lines |-> BlockAt(script, buf', DocumentedLines(mode))]
      <4>2. Pending = <<b>> \o r
        BY <1>1, <2>1, <2>2, <2>4, <4>1, RestStep
      <4>3. r \in Seq(DocumentedBlock(script))
        <5>1. Last(BlockAt(script, buf', DocumentedLines(mode))) \in 0..Len(script)
          <6>1. Last(BlockAt(script, buf', DocumentedLines(mode))) \in (0 + 1)..Len(script)
            BY <1>1, <2>2, BlockLiesBehind, 0 \in 0..Len(script), buf' \in (0 + 1)..Len(script)
          <6> QED
            BY <1>1, <6>1
        <5> QED
          BY <1>1, <5>1, RestType
      <4>4. b.mode = "COPYRIGHT"
        BY <4>1
      <4> HIDE DEF r, b
      <4>5. Pending[1] = b /\ 1 \in 1..Len(Pending)
        BY <4>2, <4>3
      <4> QED
        BY <1>1, <4>4, <4>5, PendingRegular
    <3>2. Rest(line, mode) = Rest(buf', mode)
      BY <1>1, <2>2, <2>4, <3>1, RestStep
    <3>3. ~ InBlock' /\ Pending' = Pending /\ (errors' = 0 => errors = 0)
      BY <1>1, <2>1, <2>2, <2>4, <3>2 DEF InBlock, Pending, Rest
    <3> QED
      BY <1>1, <1>3, <2>1, <3>3, SamePending
  <2>5. CASE /\ Seen(script[buf']) \notin Mode /\ mode \notin UnusedMode /\ pc' = "lookup"
             /\ block' = [mode |-> mode, lines |-> <<buf'>>, failed |-> FALSE]
             /\ UNCHANGED <<mode, errors>>
    <3>1. block'.lines = <<buf'>> /\ block'.lines[1] = buf' /\ InBlock' /\ Count' = 1
      BY <2>5 DEF InBlock, Count
    <3>2. Taken(Count)' = <<buf'>>
      BY <2>1, <3>1, BlockAtStep DEF Taken
    <3>3. InSync' /\ BlockRight'
      BY <2>2, <3>1, <3>2 DEF InSync, BlockRight, Last
    <3>4. Whole' = BlockAt(script, buf', DocumentedLines(mode))
      BY <2>1, <2>5, <3>1 DEF Whole, Taken
    <3>5. Rest(line, mode) = <<[mode |-> mode, lines |-> Whole']>> \o Rest(Last(Whole'), mode)
      BY <1>1, <2>2, <2>5, <3>4, RestStep DEF UnusedMode
    <3>6. Pending' = Pending
      BY <2>1, <2>5, <3>1, <3>5 DEF Pending, Rest
    <3> QED
      BY <1>1, <2>1, <2>5, <3>3, <3>6, SamePending DEF Tracked
  <2> QED
    BY <1>5, <2>3, <2>4, <2>5 DEF ReadTop
<1>6. CASE FoundPath \/ PathNotFound
  <2>1. InBlock /\ InBlock' /\ UNCHANGED <<script, mode, line, blocks>> /\ Count = 1
    BY <1>6 DEF FoundPath, PathNotFound, InBlock, Count
  <2>2. Count' = 1
    <3>1. left' = DocumentedLines(mode) - 1 /\ pc' # "lookup"
      BY <1>1, <1>6, LookedUp DEF FoundPath, PathNotFound
    <3> QED
      BY <2>1, <3>1, DocumentedLinesType DEF Count
  <2>3. block'.lines = block.lines /\ (~ block'.failed => ~ block.failed)
        /\ errors' \in Nat /\ errors' >= errors
    BY <1>1, <1>6 DEF FoundPath, PathNotFound, TypeOK
  <2> QED
    BY <1>1, <2>1, <2>2, <2>3, SamePlace
<1>7. ASSUME pc \in {"parameters", "skip"}, left > 0, left' = left - 1,
             UNCHANGED <<script, mode, pc, blocks>>, errors' \in Nat, errors' >= errors,
             block'.lines[1] = block.lines[1],
             NextLine \/ (NoNextLine /\ errors' > 0),
             block'.failed \/ (block'.lines = Append(block.lines, buf') /\ ~ block.failed)
      PROVE  Tracked'
  <2>1. InBlock /\ InBlock' /\ Count' = Count + 1 /\ Count < DocumentedLines(mode)
    <3>1. Count' = Count + 1 /\ Count' \in 1..DocumentedLines(mode)
      BY <1>1, <1>7, CountsDown
    <3>2. InBlock /\ InBlock'
      BY <1>7 DEF InBlock
    <3>3. Count \in 1..DocumentedLines(mode) /\ DocumentedLines(mode) \in 1..5
      BY <3>2, CurrentBlock
    <3> QED
      BY <3>1, <3>2, <3>3
  <2>2. Taken(Count)' = Taken(Count + 1)
    BY <1>7, <2>1 DEF Taken
  <2>3. InSync'
    BY <1>1, <1>7, <2>1, LineInSync
  <2>4. BlockRight'
    <3>1. CASE block'.failed
      BY <3>1 DEF BlockRight
    <3>2. CASE NextLine /\ block'.lines = Append(block.lines, buf') /\ ~ block.failed
      <4>1. Len(Taken(Count)) = Count /\ Taken(Count + 1) = Append(Taken(Count), buf')
        BY <1>1, <2>1, <3>2, OneLineMore
      <4>2. block.lines = Taken(Count)
        BY <1>1, <2>1, <3>2, <4>1 DEF BlockRight
      <4> QED
        BY <2>2, <3>2, <4>1, <4>2 DEF BlockRight
    <3>3. CASE NoNextLine
      <4>1. Len(Taken(Count + 1)) < Count + 1 /\ Taken(Count + 1) = Taken(Count)
            /\ Taken(Count) \in Seq(1..Len(script)) /\ Count \in Nat
        BY <1>1, <2>1, <3>3, OneLineMore
      <4>2. Len(Taken(Count + 1)) # Count + 1
        BY <4>1
      <4> QED
        BY <2>1, <2>2, <4>2 DEF BlockRight
    <3> QED
      BY <1>7, <3>1, <3>2, <3>3
  <2>5. Split' /\ Done'
    BY <1>1, <1>7, <2>1, StillInBlock
  <2> QED
    BY <2>3, <2>4, <2>5 DEF Tracked
<1>8. ASSUME InBlock, NEW n \in 1..Len(script), block' = [block EXCEPT !.lines = Append(@, n)]
      PROVE  block'.lines = Append(block.lines, n) /\ block'.lines[1] = block.lines[1]
             /\ block'.failed = block.failed
  <2>1. block.lines \in Seq(1..Len(script)) /\ Len(block.lines) >= 1
    BY <1>1, <1>8 DEF TypeOK, Placed
  <2>2. block'.lines = Append(block.lines, n) /\ block'.failed = block.failed
    BY <1>1, <1>8, LineAdded
  <2>3. Append(block.lines, n)[1] = block.lines[1]
    BY <2>1
  <2> QED
    BY <2>2, <2>3
<1>9. CASE ReadParameter
  <2>1. InBlock /\ pc = "parameters" /\ left > 0 /\ left' = left - 1 /\ NextLine
        /\ UNCHANGED <<script, mode, pc, blocks>> /\ errors' \in Nat /\ errors' >= errors
    BY <1>1, <1>9 DEF ReadParameter, InBlock
  <2>2. buf' \in 1..Len(script)
    BY <1>1, <2>1, NextLineIs
  <2>3. block'.lines = Append(block.lines, buf') /\ block'.lines[1] = block.lines[1]
        /\ block'.failed = block.failed
    BY <1>1, <1>8, <1>9, <2>1, <2>2 DEF ReadParameter
  <2>4. block'.failed \/ (block'.lines = Append(block.lines, buf') /\ ~ block.failed)
    BY <2>3
  <2>5. pc \in {"parameters", "skip"} /\ (NextLine \/ (NoNextLine /\ errors' > 0))
    BY <2>1
  <2> QED
    BY <1>7, <2>1, <2>3, <2>4, <2>5
<1>10. CASE MissingParameter
  <2>1. InBlock /\ pc = "parameters" /\ left > 0 /\ NoNextLine /\ UNCHANGED <<script, mode>>
        /\ errors' \in Nat /\ errors' > errors /\ errors' > 0
    BY <1>1, <1>10 DEF MissingParameter, InBlock
  <2>2. buf' = buf /\ buf \in 1..Len(script) /\ line' = Len(script)
    BY <1>1, <2>1, NoNextLineIs DEF TypeOK, Placed
  <2>3. CASE mode \in SidMode
    <3>1. left' = left - 1 /\ UNCHANGED <<pc, blocks>>
          /\ block' = [block EXCEPT !.lines = Append(@, buf)]
      BY <1>10, <2>3 DEF MissingParameter
    <3>2. block'.lines = Append(block.lines, buf') /\ block'.lines[1] = block.lines[1]
          /\ block'.failed = block.failed
      BY <1>8, <2>1, <2>2, <3>1
    <3>3. block'.failed \/ (block'.lines = Append(block.lines, buf') /\ ~ block.failed)
      BY <3>2
    <3>4. pc \in {"parameters", "skip"} /\ (NextLine \/ (NoNextLine /\ errors' > 0))
          /\ errors' >= errors /\ UNCHANGED <<script, mode, pc, blocks>>
      BY <1>1, <2>1, <3>1
    <3> QED
      BY <1>7, <2>1, <3>1, <3>2, <3>3, <3>4
  <2>4. CASE mode \notin SidMode
    <3>1. Finish(TRUE)
      BY <1>10, <2>4 DEF MissingParameter
    <3>2. Count = 1 /\ DocumentedLines(mode) = 2
      <4>1. Count = DocumentedLines(mode) - left /\ Count >= 1 /\ left \in 1..4
        BY <1>1, <2>1, CurrentBlock DEF Count, TypeOK
      <4>2. mode \in Mode \ UnusedMode
        BY <2>1, CurrentBlock
      <4>3. DocumentedLines(mode) \in {1, 2}
        BY <2>4, <4>2, CountersFit, ModeKinds
      <4> QED
        BY <4>1, <4>3
    <3>3. Len(Whole) < DocumentedLines(mode)
      <4>1. Len(Taken(Count + 1)) < Count + 1
        BY <1>1, <2>1, <3>2, OneLineMore
      <4> QED
        BY <3>2, <4>1 DEF Whole
    <3>4. Rest(Last(Whole), mode) = <<>>
      <4>1. Last(Whole) \in 0..Len(script) /\ LineAfter(script, Last(Whole), {"blank"}) = 0
        BY <2>1, <3>3, CurrentBlock
      <4> QED
        BY <1>1, <4>1, NothingBehind
    <3>5. Rest(line', mode) = <<>>
      BY <1>1, <2>2, NothingBehind
    <3> QED
      <4>1. TRUE \in BOOLEAN /\ (errors' = 0 => errors = 0) /\ (errors' = 0 => block.lines = Whole)
        BY <1>1, <2>1
      <4>2. Len(Whole) # DocumentedLines(mode)
        <5>1. Len(Whole) \in 1..DocumentedLines(mode)
          BY <2>1, CurrentBlock
        <5> QED
          BY <3>2, <3>3, <5>1
      <4> QED
        BY <1>1, <2>1, <3>1, <3>4, <3>5, <4>1, <4>2, BlockFinished
  <2> QED
    BY <2>3, <2>4
<1>11. CASE ExecuteBlock
  <2>1. InBlock /\ Count = DocumentedLines(mode) /\ UNCHANGED <<script, line, buf, mode>>
    BY <1>11, DocumentedLinesType DEF ExecuteBlock, InBlock, Count
  <2>2. Rest(line', mode) = Rest(Last(Whole), mode)
    BY <1>1, <2>1, BehindBlock
  <2>3. ~ block.failed /\ Len(Whole) = DocumentedLines(mode) => block.lines = Whole
    BY <1>1, <2>1 DEF BlockRight, Whole
  <2>4. errors = 0 => ~ block.failed /\ Len(Whole) = DocumentedLines(mode)
    BY <1>1, <1>2, <2>1 DEF InSync, Whole
  <2>5. CASE Finish(block.failed) /\ UNCHANGED errors
    <3>1. block.failed \in BOOLEAN
      BY <1>1 DEF TypeOK
    <3> QED
      BY <1>1, <2>1, <2>2, <2>3, <2>4, <2>5, <3>1, BlockFinished
  <2>6. CASE Finish(TRUE) /\ errors' \in {errors + 1, errors + 2}
    <3>1. errors' # 0
      BY <1>1, <2>6
    <3> QED
      BY <1>1, <2>1, <2>2, <2>6, <3>1, BlockFinished
  <2>7. CASE pc' = "aborted" /\ UNCHANGED <<left, block, blocks, errors>>
    <3>1. InBlock' /\ Count' = Count
      BY <1>11, <2>1, <2>7 DEF ExecuteBlock, InBlock, Count
    <3> QED
      BY <1>1, <2>1, <2>7, <3>1, SamePlace
  <2> QED
    BY <1>11, <2>5, <2>6, <2>7 DEF ExecuteBlock
<1>12. CASE SkipLine
  <2>1. block.failed /\ errors' = errors /\ errors' > 0
    BY <1>1, <1>2, <1>12 DEF SkipLine, Placed
  <2>2. pc \in {"parameters", "skip"} /\ left > 0 /\ left' = left - 1 /\ (NextLine \/ NoNextLine)
        /\ UNCHANGED <<script, mode, pc, block, blocks, errors>>
    BY <1>12 DEF SkipLine
  <2>3. errors' \in Nat /\ errors' >= errors /\ block'.failed
        /\ (NextLine \/ (NoNextLine /\ errors' > 0))
        /\ block'.lines[1] = block.lines[1]
        /\ UNCHANGED <<script, mode, pc, blocks>>
    BY <1>1, <2>1, <2>2
  <2> QED
    BY <1>7, <2>2, <2>3
<1>13. CASE EndSkip
  <2>1. InBlock /\ Count = DocumentedLines(mode) /\ UNCHANGED <<script, line, buf, mode, errors>>
        /\ Finish(TRUE) /\ block.failed
    <3>1. InBlock /\ Count = DocumentedLines(mode)
      BY <1>13, DocumentedLinesType DEF EndSkip, InBlock, Count
    <3> QED
      BY <1>1, <1>13, <3>1 DEF EndSkip, Placed
  <2>2. Rest(line', mode) = Rest(Last(Whole), mode)
    BY <1>1, <2>1, BehindBlock
  <2>3. errors' # 0
    BY <1>2, <2>1
  <2> QED
    BY <1>1, <2>1, <2>2, <2>3, BlockFinished
<1>14. CASE UNCHANGED vars
  <2>1. UNCHANGED <<script, line, mode, pc, left, block, blocks, errors>>
    BY <1>14 DEF vars
  <2>2. Count' = Count /\ (InBlock' <=> InBlock)
    BY <2>1 DEF Count, InBlock
  <2>3. CASE InBlock
    BY <1>1, <2>1, <2>2, <2>3, SamePlace
  <2>4. CASE ~ InBlock
    <3>1. Pending' = Pending
      BY <2>1, <2>2, <2>4 DEF Pending, Rest
    <3> QED
      BY <1>1, <1>3, <2>1, <2>2, <2>4, <3>1, SamePending
  <2> QED
    BY <2>3, <2>4
<1> QED
  BY <1>4, <1>5, <1>6, <1>9, <1>10, <1>11, <1>12, <1>13, <1>14 DEF Next

\* A block that is done with lies behind the loop.
LEMMA PastStep ==
    ASSUME Shape, Tracked, Past, [Next]_vars
    PROVE  Past'
<1>1. TypeOK /\ Placed /\ Split /\ InSync /\ line \in 0..Len(script) /\ Len(script) \in Nat
      /\ blocks \in Seq(BlockType) /\ Len(blocks) \in Nat /\ Len(Doc) \in Nat
      /\ Doc \in Seq(DocumentedBlock(script)) /\ Len(Pending) \in Nat /\ mode \in Mode
  BY ScriptIsSequence, DocType, PendingType DEF Shape, Tracked, TypeOK, BlockType
<1>2. script' = script /\ Doc' = Doc
  <2>1. script' = script
    BY DEF Next, vars, EndOfScript, ReadTop, FoundPath, PathNotFound, ReadParameter,
           MissingParameter, ExecuteBlock, SkipLine, EndSkip
  <2> QED
    BY <2>1 DEF Doc
<1>3. line' \in line..Len(script)
  <2>1. NextLine => line' \in line..Len(script)
    BY <1>1, NextLineIs
  <2>2. NoNextLine => line' \in line..Len(script)
    BY <1>1, NoNextLineIs
  <2>3. line' = line => line' \in line..Len(script)
    BY <1>1
  <2> QED
    BY <2>1, <2>2, <2>3 DEF Next, vars, EndOfScript, ReadTop, FoundPath, PathNotFound,
                ReadParameter, MissingParameter, ExecuteBlock, SkipLine, EndSkip
<1>4. ASSUME NEW i \in 1..Len(Doc), NEW k \in 1..Len(Doc[i].lines)
      PROVE  Doc[i].lines[k] \in 1..Len(script)
  <2>1. Doc[i] \in DocumentedBlock(script)
    BY <1>1, <1>4, ElementType
  <2>2. Doc[i].lines \in Seq(1..Len(script))
    BY <2>1 DEF DocumentedBlock
  <2> QED
    BY <1>4, <2>2, ElementType
<1>5. CASE blocks' = blocks
  <2> SUFFICES ASSUME NEW i \in 1..Len(blocks), NEW k \in 1..Len(Doc[i].lines)
               PROVE  Doc[i].lines[k] <= line'
    BY <1>2, <1>5 DEF Past
  <2>1. i \in 1..Len(Doc)
    BY <1>1 DEF Split
  <2>2. Doc[i].lines[k] \in 1..Len(script) /\ Doc[i].lines[k] <= line
    BY <1>4, <2>1 DEF Past
  <2> QED
    BY <1>1, <1>3, <2>2
<1>6. ASSUME InBlock, NEW failed, Finish(failed),
             line' = Len(script) \/ (line' = line /\ Count = DocumentedLines(mode))
      PROVE  Past'
  <2> DEFINE b == [block EXCEPT !.failed = failed]
  <2>1. blocks' = Append(blocks, b) /\ Len(blocks') = Len(blocks) + 1
    BY <1>1, <1>6 DEF Finish
  <2> SUFFICES ASSUME NEW i \in 1..(Len(blocks) + 1), NEW k \in 1..Len(Doc[i].lines)
               PROVE  Doc[i].lines[k] <= line'
    BY <1>2, <2>1 DEF Past
  <2>2. Len(blocks) + 1 \in DOMAIN Doc /\ Doc[Len(blocks) + 1] = [mode |-> mode, lines |-> Whole]
    BY <1>1, <1>6, BlockInHand
  <2>3. i \in 1..Len(Doc)
    BY <1>1, <2>2
  <2>4. Doc[i].lines[k] \in 1..Len(script)
    BY <1>4, <2>3
  <2>5. CASE line' = Len(script)
    BY <1>1, <2>4, <2>5
  <2>6. CASE line' = line /\ i # Len(blocks) + 1
    <3>1. i \in 1..Len(blocks)
      BY <1>1, <2>6
    <3> QED
      BY <2>6, <3>1 DEF Past
  <2>7. CASE line' = line /\ i = Len(blocks) + 1 /\ Count = DocumentedLines(mode)
    <3>1. Doc[i].lines = Whole /\ k \in 1..Len(Whole)
      BY <2>2, <2>7
    <3>2. Whole[k] <= Last(Whole) /\ Len(Whole) \in Nat
      <4>1. Taking(script, block.lines[1], DocumentedLines(mode))
        BY <1>6, CurrentBlock, DocumentedLinesType
      <4> QED
        BY <3>1, <4>1 DEF Taking, Whole, Taken
    <3>3. line = Last(Whole) \/ line = Len(script)
      BY <1>1, <1>6, <2>7 DEF InSync, Whole
    <3> QED
      BY <1>1, <2>4, <2>7, <3>1, <3>2, <3>3
  <2> QED
    BY <1>6, <2>5, <2>6, <2>7
<1>7. CASE MissingParameter
  <2>1. InBlock /\ NoNextLine /\ (blocks' = blocks \/ Finish(TRUE))
    BY <1>7 DEF MissingParameter, InBlock
  <2>2. line' = Len(script)
    BY <1>1, <2>1, NoNextLineIs
  <2> QED
    BY <1>5, <1>6, <2>1, <2>2
<1>8. CASE ExecuteBlock \/ EndSkip
  <2>1. InBlock /\ line' = line /\ Count = DocumentedLines(mode)
    <3>1. DocumentedLines(mode) \in Nat
      BY <1>1, DocumentedLinesType
    <3>2. pc \in {"parameters", "skip"} /\ left = 0 /\ line' = line
      BY <1>8 DEF ExecuteBlock, EndSkip
    <3>3. Count = DocumentedLines(mode)
      BY <3>1, <3>2 DEF Count
    <3> QED
      BY <3>2, <3>3 DEF InBlock
  <2>2. blocks' = blocks \/ Finish(TRUE) \/ Finish(block.failed)
    BY <1>8 DEF ExecuteBlock, EndSkip
  <2> QED
    BY <1>5, <1>6, <2>1, <2>2
<1>9. CASE EndOfScript \/ ReadTop \/ FoundPath \/ PathNotFound \/ ReadParameter \/ SkipLine
           \/ UNCHANGED vars
  BY <1>5, <1>9 DEF vars, EndOfScript, ReadTop, FoundPath, PathNotFound, ReadParameter, SkipLine
<1> QED
  BY <1>7, <1>8, <1>9 DEF Next

\* So a regular script is followed block by block to its end.
LEMMA TrackedHolds == Spec => [](Regular(script) => Tracked /\ Past)
<1>1. Init => Tracked /\ Past
  <2> SUFFICES ASSUME Init PROVE Tracked /\ Past
    OBVIOUS
  <2>1. TypeOK /\ line = 0 /\ mode = "NO_MODE" /\ blocks = <<>> /\ ~ InBlock
    BY ShapeInit DEF Shape, Init, InBlock
  <2>2. Pending = Doc /\ Len(Doc) \in Nat
    BY <2>1, DocType DEF Pending
  <2> QED
    BY <2>1, <2>2 DEF Tracked, InSync, BlockRight, Split, Done, Past
<1>2. ASSUME Shape, Shape', Counted, Regular(script) => Tracked /\ Past, [Next]_vars
      PROVE  (Regular(script) => Tracked /\ Past)'
  <2>1. script' = script
    BY <1>2 DEF Next, vars, EndOfScript, ReadTop, FoundPath, PathNotFound, ReadParameter,
                MissingParameter, ExecuteBlock, SkipLine, EndSkip
  <2>2. Regular(script)' => Regular(script)
    BY <2>1
  <2> QED
    BY <1>2, <2>2, TrackedStep, PastStep
<1> QED
  BY <1>1, <1>2, ShapeHolds, CountedHolds, PTL DEF Spec

\* No missing file, failing command or premature end makes the loop take a line
\* of a regular script for something it is not.
THEOREM BlocksStayInSync == Spec => []BlocksInSync
<1>1. ASSUME Shape, Regular(script) => Tracked PROVE BlocksInSync
  <2> SUFFICES ASSUME Regular(script) PROVE IsPrefix(Started, DocumentedStarts)
    BY DEF BlocksInSync
  <2>1. Len(blocks) \in Nat /\ DOMAIN blocks = 1..Len(blocks) /\ Len(Doc) \in Nat
        /\ DOMAIN Doc = 1..Len(Doc) /\ Len(Pending) \in Nat /\ Tracked
    BY <1>1, DocType, PendingType DEF Shape, TypeOK
  <2>2. Len(blocks) <= Len(Doc)
    BY <2>1 DEF Tracked, Split
  <2>3. /\ Started = [i \in 1..Len(blocks) |-> <<blocks[i].mode, blocks[i].lines[1]>>]
        /\ DocumentedStarts = [i \in 1..Len(Doc) |-> <<Doc[i].mode, Doc[i].lines[1]>>]
    BY <2>1 DEF Started, DocumentedStarts, Doc
  <2>4. \A i \in 1..Len(blocks) : Started[i] = DocumentedStarts[i]
    <3> SUFFICES ASSUME NEW i \in 1..Len(blocks) PROVE Started[i] = DocumentedStarts[i]
      OBVIOUS
    <3>1. Matches(blocks[i], Doc[i])
      BY <2>1 DEF Tracked, Done
    <3>2. i \in 1..Len(Doc)
      BY <2>1, <2>2
    <3> QED
      BY <2>3, <3>1, <3>2 DEF Matches
  <2>5. Len(Started) = Len(blocks) /\ Len(DocumentedStarts) = Len(Doc)
    BY <2>1, <2>3
  <2>6. SubSeq(Started, 1, Len(Started)) = SubSeq(DocumentedStarts, 1, Len(Started))
    BY <2>1, <2>2, <2>4, <2>5
  <2> QED
    BY <2>2, <2>5, <2>6 DEF IsPrefix
<1> QED
  BY <1>1, ShapeHolds, TrackedHolds, PTL

\* What a command of a regular script succeeds on are the lines of its block.
THEOREM ParametersStayInSync == Spec => []ParametersInSync
<1>1. ASSUME Shape, Regular(script) => Tracked PROVE ParametersInSync
  <2> SUFFICES ASSUME Regular(script), NEW i \in DOMAIN blocks, ~ blocks[i].failed,
                      Len(Doc[i].lines) = DocumentedLines(Doc[i].mode)
               PROVE  blocks[i].lines = Doc[i].lines
    BY DEF ParametersInSync, Doc
  <2>1. i \in 1..Len(blocks)
    BY <1>1 DEF Shape, TypeOK
  <2>2. Matches(blocks[i], Doc[i])
    BY <1>1, <2>1 DEF Tracked, Done
  <2> QED
    BY <2>2 DEF Matches
<1> QED
  BY <1>1, ShapeHolds, TrackedHolds, PTL

\* A regular script that ends without an error has been executed, all of it and
\* nothing else.
THEOREM CleanEndTellsTheTruth == Spec => []CleanEndMeansAllDone
<1>1. ASSUME Shape, Regular(script) => Tracked PROVE CleanEndMeansAllDone
  <2> DEFINE dealt == [i \in DOMAIN blocks |->
                         [mode |-> blocks[i].mode, lines |-> blocks[i].lines]]
  <2> SUFFICES ASSUME pc = "end", errors = 0, Regular(script) PROVE dealt = Doc
    BY DEF CleanEndMeansAllDone, Doc
  <2>1. Len(blocks) \in Nat /\ DOMAIN blocks = 1..Len(blocks)
        /\ Doc \in Seq(DocumentedBlock(script)) /\ Tracked /\ TypeOK /\ mode \in Mode
    BY <1>1, DocType DEF Shape, TypeOK
  <2>2. line = Len(script) /\ ~ InBlock /\ Len(script) \in 0..Len(script)
    BY <1>1, ScriptIsSequence DEF Shape, Placed, InBlock
  <2>3. Pending = <<>>
    BY <2>1, <2>2, NothingBehind DEF Pending
  <2>4. Len(Doc) = Len(blocks)
    BY <2>1, <2>3 DEF Tracked, Split
  <2>5. \A i \in 1..Len(blocks) : Doc[i] = [mode |-> blocks[i].mode, lines |-> blocks[i].lines]
    <3> SUFFICES ASSUME NEW i \in 1..Len(blocks)
                 PROVE  Doc[i] = [mode |-> blocks[i].mode, lines |-> blocks[i].lines]
      OBVIOUS
    <3>1. Matches(blocks[i], Doc[i])
      BY <2>1 DEF Tracked, Done
    <3>2. Doc[i] \in [mode : Mode, lines : Seq(1..Len(script))]
      BY <2>1, <2>4 DEF DocumentedBlock
    <3> QED
      BY <3>1, <3>2 DEF Matches
  <2>6. Doc = [i \in 1..Len(blocks) |-> Doc[i]]
    BY <2>1, <2>4
  <2> QED
    BY <2>1, <2>5, <2>6
<1> QED
  BY <1>1, ShapeHolds, TrackedHolds, PTL


-----------------------------------------------------------------------------
(* Numbers of versions.                                                    *)

\* The number of a version fits its width.
LEMMA NumberType ==
    ASSUME NEW text \in Version
    PROVE  atohvscver(text) \in 0..MaxUnsigned
<1>1. MaxUnsigned \in Nat \ {0} /\ text.major \in Nat /\ text.minor \in Nat
  BY HeaderAssumption DEF Version
<1>2. ASSUME NEW major \in Nat, NEW minor \in Nat
      PROVE  MAKE_HVSCVER(major, minor) \in 0..MaxUnsigned
  BY <1>1 DEF MAKE_HVSCVER
<1> QED
  BY <1>1, <1>2 DEF atohvscver

\* The number of a proper version is not cut.
LEMMA ProperNumber ==
    ASSUME NEW text \in Version, Proper(text)
    PROVE  atohvscver(text) = text.major * 10 + text.minor /\ atohvscver(text) \in 10..MaxUnsigned
<1> DEFINE major == text.major
           minor == text.minor
<1>1. MaxUnsigned \in Nat \ {0} /\ major \in 1..(MaxUnsigned \div 10 - 1) /\ minor \in 0..9
  BY HeaderAssumption DEF Proper
<1> HIDE DEF major, minor
<1>2. major * 10 + 9 < MaxUnsigned /\ major <= MaxUnsigned /\ minor <= MaxUnsigned
  BY <1>1
<1>3. minor % 10 = minor
  BY <1>1
<1>4. (major * 10 + minor) % (MaxUnsigned + 1) = major * 10 + minor
  <2> DEFINE number == major * 10 + minor
  <2>1. number \in Nat /\ number <= MaxUnsigned
    BY <1>1, <1>2
  <2> HIDE DEF number
  <2>2. number % (MaxUnsigned + 1) = number
    BY <1>1, <2>1
  <2> QED
    BY <2>2 DEF number
<1>5. atohvscver(text) = major * 10 + minor
  BY <1>1, <1>2, <1>3, <1>4 DEF atohvscver, MAKE_HVSCVER, major, minor
<1> QED
  BY <1>1, <1>2, <1>5 DEF major, minor

\* Proper versions are told from each other, put in order and displayed rightly.
LEMMA ProperOrder ==
    ASSUME NEW a \in Version, NEW b \in Version, Proper(a), Proper(b)
    PROVE  /\ hvscvertoa(atohvscver(a)) = a
           /\ hvscvercmp(atohvscver(a), atohvscver(b)) = -1 <=>
                a.major < b.major \/ (a.major = b.major /\ a.minor < b.minor)
           /\ atohvscver(a) = atohvscver(b) => a = b
<1>1. /\ a.major \in Nat /\ a.minor \in 0..9 /\ b.major \in Nat /\ b.minor \in 0..9
      /\ a = [major |-> a.major, minor |-> a.minor]
      /\ b = [major |-> b.major, minor |-> b.minor]
  BY DEF Version, Proper
<1>2. /\ atohvscver(a) = a.major * 10 + a.minor
      /\ atohvscver(b) = b.major * 10 + b.minor
  BY ProperNumber
<1>3. hvscvertoa(atohvscver(a)) = a
  <2>1. (a.major * 10 + a.minor) \div 10 = a.major /\ (a.major * 10 + a.minor) % 10 = a.minor
    BY <1>1
  <2> QED
    BY <1>1, <1>2, <2>1 DEF hvscvertoa
<1>4. atohvscver(a) < atohvscver(b) <=>
        a.major < b.major \/ (a.major = b.major /\ a.minor < b.minor)
  BY <1>1, <1>2
<1>5. hvscvercmp(atohvscver(a), atohvscver(b)) = -1 <=> atohvscver(a) < atohvscver(b)
  <2>1. atohvscver(a) \in Nat /\ atohvscver(b) \in Nat
    BY <1>1, <1>2
  <2> QED
    BY <2>1 DEF hvscvercmp
<1>6. atohvscver(a) = atohvscver(b) => a.major = b.major /\ a.minor = b.minor
  BY <1>1, <1>2
<1> QED
  BY <1>1, <1>3, <1>4, <1>5, <1>6

\* Versions are compared as their numbers; the number 0 counts for none.
LEMMA CheckIs ==
    ASSUME NEW a \in Nat, NEW b \in Nat
    PROVE  /\ hvscvercmp(a, b) # 0 <=> a # b
           /\ hvscvercmp(a, MAKE_HVSCVER(0, 0)) > 0 <=> a > 0
<1>1. MAKE_HVSCVER(0, 0) = 0
  BY HeaderAssumption DEF MAKE_HVSCVER
<1> QED
  BY <1>1 DEF hvscvercmp

-----------------------------------------------------------------------------
(* Reading the versions.                                                   *)

Key == {"release", "#PreviousVersion:", "#ResultingVersion:", "none"}

HeaderShape ==
    /\ texts \in Texts
    /\ stage \in {"docs", "script", "check", "commands", "exit1"}
    /\ doc \in 1..Len(texts.docs)
    /\ read \in Nat
    /\ found \in Nat /\ required \in Nat /\ resulting \in Nat
    /\ seen \subseteq Key
    /\ warning \in BOOLEAN

\* A version is that of some line which has one.
IsTold(number, told) ==
    \E version \in told : version.major # 0 /\ number = atohvscver(version)

Heard ==
    /\ "release" \in seen => IsTold(found, DocVersions)
    /\ "#PreviousVersion:" \in seen =>
         IsTold(required, ToldVersions(texts.script, "#PreviousVersion:"))
    /\ "#ResultingVersion:" \in seen =>
         IsTold(resulting, ToldVersions(texts.script, "#ResultingVersion:"))

Warned ==
    /\ stage # "docs" /\ ~ warning => "release" \in seen
    /\ stage \in {"check", "commands"} => HeaderComplete
    /\ stage = "commands" /\ ~ warning => required = 0 \/ resulting = 0 \/ found = required

HeaderInv == HeaderShape /\ Heard /\ Warned

\* All the files are sequences of lines.
LEMMA TextsType ==
    ASSUME texts \in Texts
    PROVE  /\ texts.docs \in Seq(Seq(Line)) /\ Len(texts.docs) \in Nat \ {0}
           /\ texts.script \in Seq(Line)
           /\ \A d \in 1..Len(texts.docs) : texts.docs[d] \in Seq(Line)
BY TextsAssumption

\* The lines of a file that header mode looks at are those it can tell versions from.
LEMMA LineTells ==
    ASSUME NEW file \in Seq(Line), read \in Nat, HasNextLine(file)
    PROVE  /\ read + 1 \in 1..Len(file) /\ file[read + 1] \in Line
           /\ file[read + 1].text \in Version
           /\ read + 1 \in Told(file, file[read + 1].key)
           /\ file[read + 1].text \in ToldVersions(file, file[read + 1].key)
<1>1. read + 1 \in 1..Len(file) /\ read + 1 <= HeaderLines
  BY HeaderAssumption DEF HasNextLine
<1>2. file[read + 1] \in Line
  BY <1>1
<1>3. read + 1 \in Told(file, file[read + 1].key)
  BY <1>1 DEF Told
<1> QED
  BY <1>1, <1>2, <1>3 DEF ToldVersions, Line

\* A line tells its version, or none; nothing of other keys is learnt or unlearnt.
LEMMA TakeTells ==
    ASSUME NEW file \in Seq(Line), read \in Nat, HasNextLine(file),
           NEW key, file[read + 1].key = key, NEW before \in Nat, NEW after,
           \/ /\ file[read + 1].text.major = 0
              /\ seen' = seen \ {key} /\ after = before
           \/ /\ file[read + 1].text.major # 0
              /\ seen' = seen \cup {key} /\ after = atohvscver(file[read + 1].text)
    PROVE  /\ after \in Nat
           /\ key \in seen' => IsTold(after, ToldVersions(file, key))
           /\ \A other \in Key \ {key} : other \in seen' <=> other \in seen
           /\ file[read + 1].text.major # 0 => key \in seen'
<1>1. file[read + 1].text \in ToldVersions(file, key) /\ file[read + 1].text \in Version
  BY LineTells
<1>2. after \in Nat
  BY <1>1, NumberType, HeaderAssumption
<1> QED
  BY <1>1, <1>2 DEF IsTold

\* The versions of one document are versions of the documents.
LEMMA DocTells ==
    ASSUME texts \in Texts, NEW d \in 1..Len(texts.docs)
    PROVE  ToldVersions(texts.docs[d], "release") \subseteq DocVersions
<1>1. DOMAIN texts.docs = 1..Len(texts.docs)
  BY TextsType
<1> QED
  BY <1>1 DEF DocVersions

\* The next document, or the script.
LEMMA NextDocIs ==
    ASSUME HeaderShape, NextDoc
    PROVE  /\ read' = 0
           /\ \/ doc < Len(texts.docs) /\ doc' = doc + 1 /\ UNCHANGED <<stage, warning>>
              \/ doc = Len(texts.docs) /\ doc' = doc /\ stage' = "script"
                   /\ warning' = ("release" \notin seen')
           /\ doc' \in 1..Len(texts.docs) /\ stage' \in {stage, "script"} /\ warning' \in BOOLEAN
<1>1. Len(texts.docs) \in Nat /\ doc \in 1..Len(texts.docs) /\ warning \in BOOLEAN
  BY TextsType DEF HeaderShape
<1>2. CASE doc < Len(texts.docs)
  BY <1>1, <1>2 DEF NextDoc
<1>3. CASE ~ (doc < Len(texts.docs))
  BY <1>1, <1>3 DEF NextDoc
<1> QED
  BY <1>2, <1>3

\* No version is known before the first line.
LEMMA HeaderInvInit == HeaderInit => HeaderInv
<1> SUFFICES ASSUME HeaderInit PROVE HeaderInv
  OBVIOUS
<1>1. HeaderShape
  <2>1. texts \in Texts
    BY DEF HeaderInit
  <2>2. Len(texts.docs) \in Nat \ {0}
    BY <2>1, TextsType
  <2>3. 1 \in 1..Len(texts.docs)
    BY <2>2
  <2> QED
    BY <2>1, <2>3 DEF HeaderInit, HeaderShape
<1>2. Heard /\ Warned
  BY DEF HeaderInit, Heard, Warned
<1> QED
  BY <1>1, <1>2 DEF HeaderInv

\* A line read, a file ended or a comparison made: the numbers are still those of
\* lines.
LEMMA HeaderInvStep == HeaderInv /\ [HeaderNext]_headerVars => HeaderInv'
<1> SUFFICES ASSUME HeaderInv, [HeaderNext]_headerVars PROVE HeaderInv'
  OBVIOUS
<1>1. HeaderShape /\ Heard /\ Warned
  BY DEF HeaderInv
<1>2. CASE ReadDocLine
  <2> DEFINE file == texts.docs[doc]
  <2>1. stage = "docs" /\ texts' = texts /\ UNCHANGED <<required, resulting>>
        /\ HasNextLine(file) /\ file \in Seq(Line) /\ read \in Nat
    BY <1>1, <1>2, TextsType DEF ReadDocLine, HeaderShape
  <2>2. CASE file[read + 1].key = "release"
    <3>1. Take(file[read + 1], found) /\ NextDoc
      BY <1>2, <2>2 DEF ReadDocLine
    <3>2. /\ found' \in Nat
          /\ "release" \in seen' => IsTold(found', ToldVersions(file, "release"))
          /\ \A other \in Key \ {"release"} : other \in seen' <=> other \in seen
          /\ seen' \subseteq Key
      <4>1. \/ /\ file[read + 1].text.major = 0
               /\ seen' = seen \ {"release"} /\ found' = found
            \/ /\ file[read + 1].text.major # 0
               /\ seen' = seen \cup {"release"} /\ found' = atohvscver(file[read + 1].text)
        BY <2>2, <3>1 DEF Take
      <4>2. seen' \subseteq Key
        BY <1>1, <4>1 DEF HeaderShape, Key
      <4>3. found \in Nat
        BY <1>1 DEF HeaderShape
      <4> HIDE DEF file
      <4> QED
        BY <2>1, <2>2, <4>1, <4>2, <4>3, TakeTells
    <3>3. read' = 0 /\ doc' \in 1..Len(texts.docs) /\ stage' \in {"docs", "script"}
          /\ warning' \in BOOLEAN
          /\ (stage' # "docs" => warning' = ("release" \notin seen'))
      BY <1>1, <2>1, <3>1, NextDocIs
    <3>4. HeaderShape'
      BY <1>1, <2>1, <3>2, <3>3 DEF HeaderShape
    <3>5. Heard'
      <4>1. "release" \in seen' => IsTold(found', DocVersions)
        <5>1. ToldVersions(file, "release") \subseteq DocVersions
          BY <1>1, DocTells DEF HeaderShape
        <5> QED
          BY <3>2, <5>1 DEF IsTold
      <4>2. DocVersions' = DocVersions
        BY <2>1 DEF DocVersions
      <4> QED
        BY <1>1, <2>1, <3>2, <4>1, <4>2 DEF Heard, Key, IsTold
    <3>6. Warned'
      BY <3>3 DEF Warned
    <3> QED
      BY <3>4, <3>5, <3>6 DEF HeaderInv
  <2>3. CASE file[read + 1].key # "release"
    <3>1. read' = read + 1 /\ UNCHANGED <<stage, doc, found, seen, warning>>
      BY <1>2, <2>3 DEF ReadDocLine
    <3>2. HeaderShape'
      BY <1>1, <2>1, <3>1 DEF HeaderShape
    <3>3. Heard' /\ Warned'
      BY <1>1, <2>1, <3>1 DEF Heard, Warned, IsTold, DocVersions, HeaderComplete
    <3> QED
      BY <3>2, <3>3 DEF HeaderInv
  <2> QED
    BY <2>2, <2>3
<1>3. CASE EndOfDoc
  <2>1. stage = "docs" /\ UNCHANGED <<texts, found, required, resulting, seen>> /\ NextDoc
    BY <1>3 DEF EndOfDoc, versions
  <2>2. read' = 0 /\ doc' \in 1..Len(texts.docs) /\ stage' \in {"docs", "script"}
        /\ warning' \in BOOLEAN
        /\ (stage' # "docs" => warning' = ("release" \notin seen'))
    BY <1>1, <2>1, NextDocIs
  <2>3. HeaderShape'
    BY <1>1, <2>1, <2>2 DEF HeaderShape
  <2>4. Heard' /\ Warned'
    BY <1>1, <2>1, <2>2 DEF Heard, Warned, IsTold, DocVersions
  <2> QED
    BY <2>3, <2>4 DEF HeaderInv
<1>4. CASE ReadHeaderLine
  <2> DEFINE file == texts.script
  <2>1. stage = "script" /\ UNCHANGED <<texts, stage, doc, found, warning>> /\ read' = read + 1
        /\ HasNextLine(file) /\ file \in Seq(Line) /\ read \in Nat
        /\ required \in Nat /\ resulting \in Nat
    BY <1>1, <1>4, TextsType DEF ReadHeaderLine, HeaderShape
  <2>2. ASSUME required' \in Nat, resulting' \in Nat, seen' \subseteq Key,
               "release" \in seen' <=> "release" \in seen,
               "#PreviousVersion:" \in seen' =>
                 IsTold(required', ToldVersions(file, "#PreviousVersion:")),
               "#ResultingVersion:" \in seen' =>
                 IsTold(resulting', ToldVersions(file, "#ResultingVersion:"))
        PROVE  HeaderInv'
    <3>1. HeaderShape'
      BY <1>1, <2>1, <2>2 DEF HeaderShape
    <3>2. Heard' /\ Warned'
      BY <1>1, <2>1, <2>2 DEF Heard, Warned, IsTold, DocVersions
    <3> QED
      BY <3>1, <3>2 DEF HeaderInv
  <2>3. CASE file[read + 1].key = "#PreviousVersion:"
    <3>1. \/ /\ file[read + 1].text.major = 0
             /\ seen' = seen \ {"#PreviousVersion:"} /\ required' = required
          \/ /\ file[read + 1].text.major # 0
             /\ seen' = seen \cup {"#PreviousVersion:"}
             /\ required' = atohvscver(file[read + 1].text)
      BY <1>4, <2>1, <2>3 DEF ReadHeaderLine, Take
    <3>2. resulting' = resulting
      BY <1>4, <2>1, <2>3 DEF ReadHeaderLine
    <3>3. seen' \subseteq Key
      BY <1>1, <3>1 DEF HeaderShape, Key
    <3> HIDE DEF file
    <3>4. /\ required' \in Nat
          /\ "#PreviousVersion:" \in seen' =>
               IsTold(required', ToldVersions(file, "#PreviousVersion:"))
          /\ \A other \in Key \ {"#PreviousVersion:"} : other \in seen' <=> other \in seen
      BY <2>1, <2>3, <3>1, TakeTells
    <3> QED
      BY <1>1, <2>1, <2>2, <3>2, <3>3, <3>4 DEF Key, Heard, file
  <2>4. CASE file[read + 1].key = "#ResultingVersion:"
    <3>1. \/ /\ file[read + 1].text.major = 0
             /\ seen' = seen \ {"#ResultingVersion:"} /\ resulting' = resulting
          \/ /\ file[read + 1].text.major # 0
             /\ seen' = seen \cup {"#ResultingVersion:"}
             /\ resulting' = atohvscver(file[read + 1].text)
      BY <1>4, <2>1, <2>4 DEF ReadHeaderLine, Take
    <3>2. required' = required
      BY <1>4, <2>1, <2>4 DEF ReadHeaderLine
    <3>3. seen' \subseteq Key
      BY <1>1, <3>1 DEF HeaderShape, Key
    <3> HIDE DEF file
    <3>4. /\ resulting' \in Nat
          /\ "#ResultingVersion:" \in seen' =>
               IsTold(resulting', ToldVersions(file, "#ResultingVersion:"))
          /\ \A other \in Key \ {"#ResultingVersion:"} : other \in seen' <=> other \in seen
      BY <2>1, <2>4, <3>1, TakeTells
    <3> QED
      BY <1>1, <2>1, <2>2, <3>2, <3>3, <3>4 DEF Key, Heard, file
  <2>5. CASE file[read + 1].key \notin {"#PreviousVersion:", "#ResultingVersion:"}
    <3>1. UNCHANGED <<required, resulting, seen>>
      BY <1>4, <2>1, <2>5 DEF ReadHeaderLine
    <3> QED
      BY <1>1, <2>1, <2>2, <3>1 DEF Heard, HeaderShape
  <2> QED
    BY <2>3, <2>4, <2>5
<1>5. CASE EndHeader
  <2>1. UNCHANGED <<texts, doc, read, found, required, resulting, seen, warning>>
        /\ stage = "script" /\ stage' \in {"check", "exit1"}
        /\ (stage' = "check" => HeaderComplete)
    BY <1>5 DEF EndHeader, versions
  <2>2. HeaderShape'
    BY <1>1, <2>1 DEF HeaderShape
  <2>3. Heard' /\ Warned'
    BY <1>1, <2>1 DEF Heard, Warned, IsTold, DocVersions, HeaderComplete
  <2> QED
    BY <2>2, <2>3 DEF HeaderInv
<1>6. CASE CheckVersion
  <2>1. UNCHANGED <<texts, doc, read, found, required, resulting, seen>>
        /\ stage = "check" /\ stage' = "commands"
        /\ warning' = (warning \/ (/\ hvscvercmp(required, MAKE_HVSCVER(0, 0)) > 0
                                   /\ hvscvercmp(resulting, MAKE_HVSCVER(0, 0)) > 0
                                   /\ hvscvercmp(found, required) # 0))
    BY <1>6 DEF CheckVersion, versions
  <2>2. HeaderShape'
    BY <1>1, <2>1 DEF HeaderShape
  <2>3. warning' <=> warning \/ (required > 0 /\ resulting > 0 /\ found # required)
    BY <1>1, <2>1, CheckIs DEF HeaderShape
  <2>4. Heard' /\ Warned'
    <3>1. Heard'
      BY <1>1, <2>1 DEF Heard, IsTold, DocVersions
    <3>2. Warned'
      BY <1>1, <2>1, <2>3 DEF Warned, HeaderComplete, HeaderShape
    <3> QED
      BY <3>1, <3>2
  <2> QED
    BY <2>2, <2>4 DEF HeaderInv
<1>7. CASE UNCHANGED headerVars
  <2>1. UNCHANGED <<texts, stage, doc, read, found, required, resulting, seen, warning>>
    BY <1>7 DEF headerVars, versions
  <2>2. HeaderShape'
    BY <1>1, <2>1 DEF HeaderShape
  <2>3. Heard' /\ Warned'
    BY <1>1, <2>1 DEF Heard, Warned, IsTold, DocVersions, HeaderComplete
  <2> QED
    BY <2>2, <2>3 DEF HeaderInv
<1> QED
  BY <1>2, <1>3, <1>4, <1>5, <1>6, <1>7 DEF HeaderNext

-----------------------------------------------------------------------------
(* Files as the format has them.                                           *)

ScriptKey == {"#PreviousVersion:", "#ResultingVersion:"}

\* The lines behind the one reached are those that can still tell something.
Behind ==
    /\ stage = "docs" => \A i \in 1..read : texts.docs[doc][i].key # "release"
    /\ stage = "docs" =>
         \A d \in 1..(doc - 1) :
           ToldVersions(texts.docs[d], "release") # {} => "release" \in seen
    /\ stage # "docs" /\ DocVersions # {} => "release" \in seen
    /\ stage = "script" =>
         \A key \in ScriptKey : \A i \in Told(texts.script, key) : i <= read => key \in seen
    /\ stage = "exit1" => \E key \in ScriptKey : Told(texts.script, key) = {}

\* There is no reason to warn but these.
Exact ==
    /\ stage \in {"script", "check"} => (warning <=> "release" \notin seen)
    /\ stage = "commands" => (warning <=> "release" \notin seen \/ found # required)

\* Nothing more of a file is looked at: all of its versions have been told.
LEMMA AllLooked ==
    ASSUME NEW file \in Seq(Line), read \in Nat, ~ HasNextLine(file), NEW key
    PROVE  \A i \in Told(file, key) : i \in 1..read
BY HeaderAssumption DEF Told, HasNextLine

\* The files do not change while they are read.
LEMMA WellFormedStays ==
    ASSUME texts' = texts, WellFormed'
    PROVE  WellFormed
<1>1. DocVersions' = DocVersions
  BY DEF DocVersions
<1> QED
  BY <1>1 DEF WellFormed

\* Nothing is behind the reader.
LEMMA BehindInit == HeaderInit => Behind /\ Exact
BY DEF HeaderInit, Behind, Exact

\* A document has been read as far as it is looked at.
LEMMA DocDone ==
    ASSUME HeaderShape, Behind, stage = "docs", NextDoc, UNCHANGED texts,
           "release" \in seen => "release" \in seen',
           ToldVersions(texts.docs[doc], "release") # {} => "release" \in seen'
    PROVE  Behind' /\ Exact'
<1>1. read' = 0 /\ doc \in Nat /\ stage' \in {"docs", "script"} /\ Len(texts.docs) \in Nat
  BY NextDocIs, TextsType DEF HeaderShape
<1>2. \A d \in 1..doc : ToldVersions(texts.docs[d], "release") # {} => "release" \in seen'
  <2> SUFFICES ASSUME NEW d \in 1..doc, ToldVersions(texts.docs[d], "release") # {}
               PROVE  "release" \in seen'
    OBVIOUS
  <2>1. CASE d = doc
    BY <2>1
  <2>2. CASE d # doc
    <3>1. d \in 1..(doc - 1)
      BY <1>1, <2>2
    <3> QED
      BY <3>1 DEF Behind
  <2> QED
    BY <2>1, <2>2
<1>3. CASE doc' = doc + 1 /\ UNCHANGED <<stage, warning>>
  <2>1. 1..(doc' - 1) = 1..doc /\ 1..read' = {} /\ stage' = "docs"
    BY <1>1, <1>3
  <2>2. Behind'
    BY <1>2, <2>1 DEF Behind
  <2>3. Exact'
    BY <2>1 DEF Exact
  <2> QED
    BY <2>2, <2>3
<1>4. CASE doc = Len(texts.docs) /\ stage' = "script" /\ warning' = ("release" \notin seen')
  <2>1. DocVersions # {} => "release" \in seen'
    <3>1. DOMAIN texts.docs = 1..doc
      BY <1>4, TextsType DEF HeaderShape
    <3> QED
      BY <1>2, <3>1 DEF DocVersions
  <2>2. DocVersions' = DocVersions
    BY DEF DocVersions
  <2>3. \A key \in ScriptKey : \A i \in Told(texts.script, key) : ~ (i <= read')
    <3>1. texts.script \in Seq(Line)
      BY TextsType DEF HeaderShape
    <3> QED
      BY <1>1, <3>1 DEF Told
  <2>4. stage' = "script" /\ texts'.script = texts.script
    BY <1>4
  <2>5. Behind'
    BY <2>1, <2>2, <2>3, <2>4 DEF Behind
  <2>6. Exact'
    BY <1>4 DEF Exact
  <2> QED
    BY <2>5, <2>6
<1> QED
  BY <1>3, <1>4, NextDocIs

\* No line read and no file ended leaves a version behind that is not known.
LEMMA BehindStep ==
    ASSUME HeaderInv, Behind, Exact, WellFormed, [HeaderNext]_headerVars
    PROVE  Behind' /\ Exact'
<1>1. HeaderShape /\ Heard /\ Warned /\ texts \in Texts /\ read \in Nat
  BY DEF HeaderInv, HeaderShape
<1>2. ASSUME NEW version, Proper(version) PROVE version.major # 0
  BY <1>2, HeaderAssumption DEF Proper
<1>3. CASE ReadDocLine
  <2> DEFINE file == texts.docs[doc]
  <2>1. stage = "docs" /\ texts' = texts /\ HasNextLine(file) /\ file \in Seq(Line)
    BY <1>1, <1>3, TextsType DEF ReadDocLine, HeaderShape
  <2>2. CASE file[read + 1].key = "release"
    <3>1. Take(file[read + 1], found) /\ NextDoc
      BY <1>3, <2>2 DEF ReadDocLine
    <3>2. file[read + 1].text \in DocVersions
      <4>1. file[read + 1].text \in ToldVersions(file, "release")
        <5> HIDE DEF file
        <5> QED
          BY <1>1, <2>1, <2>2, LineTells
      <4>2. ToldVersions(file, "release") \subseteq DocVersions
        BY <1>1, DocTells DEF HeaderShape
      <4> QED
        BY <4>1, <4>2
    <3>3. file[read + 1].text.major # 0
      BY <1>2, <3>2 DEF WellFormed
    <3>4. "release" \in seen'
      BY <2>2, <3>1, <3>3 DEF Take
    <3> QED
      BY <1>1, <2>1, <3>1, <3>4, DocDone
  <2>3. CASE file[read + 1].key # "release"
    <3>1. read' = read + 1 /\ UNCHANGED <<stage, doc, found, seen, warning>>
      BY <1>3, <2>3 DEF ReadDocLine
    <3>2. \A i \in 1..read' : file[i].key # "release"
      <4> SUFFICES ASSUME NEW i \in 1..read' PROVE file[i].key # "release"
        OBVIOUS
      <4>1. i \in 1..read \/ i = read + 1
        BY <1>1, <3>1
      <4> QED
        BY <2>1, <2>3, <4>1 DEF Behind
    <3>3. Behind'
      BY <2>1, <3>1, <3>2 DEF Behind
    <3>4. Exact'
      BY <2>1, <3>1 DEF Exact
    <3> QED
      BY <3>3, <3>4
  <2> QED
    BY <2>2, <2>3
<1>4. CASE EndOfDoc
  <2> DEFINE file == texts.docs[doc]
  <2>1. stage = "docs" /\ UNCHANGED <<texts, seen>> /\ NextDoc /\ ~ HasNextLine(file)
        /\ file \in Seq(Line)
    BY <1>1, <1>4, TextsType DEF EndOfDoc, HeaderShape
  <2>2. \A i \in 1..read : file[i].key # "release"
    BY <2>1 DEF Behind
  <2>3. Told(file, "release") = {}
    <3> HIDE DEF file
    <3>1. \A i \in Told(file, "release") : i \in 1..read
      BY <1>1, <2>1, AllLooked
    <3> QED
      BY <2>2, <3>1 DEF Told
  <2>4. ToldVersions(file, "release") = {}
    BY <2>3 DEF ToldVersions
  <2> QED
    BY <1>1, <2>1, <2>4, DocDone
<1>5. CASE ReadHeaderLine
  <2> DEFINE file == texts.script
  <2>1. stage = "script" /\ UNCHANGED <<texts, stage, doc, found, warning>> /\ read' = read + 1
        /\ HasNextLine(file) /\ file \in Seq(Line)
    BY <1>1, <1>5, TextsType DEF ReadHeaderLine
  <2>2. ASSUME NEW key \in ScriptKey, file[read + 1].key = key
        PROVE  seen' = seen \cup {key}
    <3>1. file[read + 1].text \in ToldVersions(file, key)
      <4> HIDE DEF file
      <4> QED
        BY <1>1, <2>1, <2>2, LineTells
    <3>2. file[read + 1].text.major # 0
      BY <1>2, <3>1 DEF WellFormed, ScriptKey
    <3> QED
      BY <1>5, <2>1, <2>2, <3>2 DEF ReadHeaderLine, Take, ScriptKey
  <2>3. file[read + 1].key \notin ScriptKey => seen' = seen
    BY <1>5, <2>1 DEF ReadHeaderLine, ScriptKey
  <2>4. /\ "release" \in seen' <=> "release" \in seen
        /\ seen \subseteq seen'
        /\ \A key \in ScriptKey : file[read + 1].key = key => key \in seen'
    BY <2>2, <2>3 DEF ScriptKey
  <2>5. \A key \in ScriptKey : \A i \in Told(file, key) : i <= read' => key \in seen'
    <3> SUFFICES ASSUME NEW key \in ScriptKey, NEW i \in Told(file, key), i <= read'
                 PROVE  key \in seen'
      OBVIOUS
    <3>1. i \in Nat /\ file[i].key = key
      BY <2>1 DEF Told
    <3>2. CASE i <= read
      BY <2>1, <2>4, <3>2 DEF Behind
    <3>3. CASE i = read + 1
      BY <2>4, <3>1, <3>3
    <3> QED
      BY <1>1, <2>1, <3>1, <3>2, <3>3
  <2>6. Behind'
    <3>1. DocVersions' = DocVersions
      BY <2>1 DEF DocVersions
    <3> QED
      BY <2>1, <2>4, <2>5, <3>1 DEF Behind
  <2>7. Exact'
    BY <2>1, <2>4 DEF Exact
  <2> QED
    BY <2>6, <2>7
<1>6. CASE EndHeader
  <2>1. UNCHANGED <<texts, doc, read, found, required, resulting, seen, warning>>
        /\ stage = "script" /\ stage' = (IF HeaderComplete THEN "check" ELSE "exit1")
        /\ (HeaderComplete \/ ~ HasNextLine(texts.script)) /\ texts.script \in Seq(Line)
    BY <1>1, <1>6, TextsType DEF EndHeader, versions
  <2>2. ~ HeaderComplete => \E key \in ScriptKey : Told(texts.script, key) = {}
    <3> SUFFICES ASSUME ~ HeaderComplete PROVE \E key \in ScriptKey : Told(texts.script, key) = {}
      OBVIOUS
    <3>1. PICK key \in ScriptKey : key \notin seen
      BY DEF HeaderComplete, ScriptKey
    <3>2. \A i \in Told(texts.script, key) : i \in 1..read
      BY <1>1, <2>1, AllLooked
    <3>3. \A i \in Told(texts.script, key) : ~ (i <= read)
      BY <2>1, <3>1 DEF Behind
    <3> QED
      BY <1>1, <3>2, <3>3
  <2>3. Behind'
    BY <2>1, <2>2 DEF Behind, DocVersions
  <2>4. Exact'
    BY <2>1 DEF Exact
  <2> QED
    BY <2>3, <2>4
<1>7. CASE CheckVersion
  <2>1. UNCHANGED <<texts, doc, read, found, required, resulting, seen>>
        /\ stage = "check" /\ stage' = "commands"
        /\ warning' = (warning \/ (/\ hvscvercmp(required, MAKE_HVSCVER(0, 0)) > 0
                                   /\ hvscvercmp(resulting, MAKE_HVSCVER(0, 0)) > 0
                                   /\ hvscvercmp(found, required) # 0))
    BY <1>7 DEF CheckVersion, versions
  <2>2. required > 0 /\ resulting > 0
    <3>1. ASSUME NEW key \in ScriptKey, NEW number, IsTold(number, ToldVersions(texts.script, key))
          PROVE  number \in Nat /\ number > 0
      <4>1. PICK version \in ToldVersions(texts.script, key) : number = atohvscver(version)
        BY <3>1 DEF IsTold
      <4>2. Proper(version) /\ version \in Version
        <5>1. Proper(version)
          BY <4>1, <3>1 DEF WellFormed, ScriptKey
        <5>2. texts.script \in Seq(Line)
          BY <1>1, TextsType
        <5>3. PICK i \in Told(texts.script, key) : version = texts.script[i].text
          BY <4>1 DEF ToldVersions
        <5>4. texts.script[i] \in Line
          BY <5>2, <5>3 DEF Told
        <5> QED
          BY <5>1, <5>3, <5>4 DEF Line
      <4>3. atohvscver(version) \in 10..MaxUnsigned
        BY <4>2, ProperNumber
      <4> QED
        BY <4>1, <4>3, HeaderAssumption
    <3>2. ScriptKey \subseteq seen
      BY <1>1, <2>1 DEF Warned, HeaderComplete, ScriptKey
    <3> QED
      BY <1>1, <3>1, <3>2 DEF Heard, ScriptKey
  <2>3. warning' <=> "release" \notin seen \/ found # required
    BY <1>1, <2>1, <2>2, CheckIs DEF HeaderShape, Exact
  <2>4. Behind'
    BY <2>1 DEF Behind, DocVersions
  <2>5. Exact'
    BY <2>1, <2>3 DEF Exact
  <2> QED
    BY <2>4, <2>5
<1>8. CASE UNCHANGED headerVars
  <2>1. UNCHANGED <<texts, stage, doc, read, found, required, resulting, seen, warning>>
    BY <1>8 DEF headerVars, versions
  <2> QED
    BY <2>1 DEF Behind, Exact, DocVersions
<1> QED
  BY <1>3, <1>4, <1>5, <1>6, <1>7, <1>8 DEF HeaderNext

-----------------------------------------------------------------------------
(* The reading of a script as a whole.                                     *)

\* Both readings start at the beginning.
LEMMA HeaderFirst == ScriptInit => HeaderInit /\ Init
BY DEF ScriptInit

\* A step of the whole is one of either reading, or none.
LEMMA HeaderSteps ==
    [ScriptNext]_<<headerVars, vars>> => [HeaderNext]_headerVars /\ [Next]_vars
BY DEF ScriptNext, ReadHeader, ReadCommands

\* So every number known is that of a line, in every behaviour.
LEMMA HeaderInvHolds == ScriptSpec => []HeaderInv
<1>1. ScriptInit => HeaderInv
  BY HeaderFirst, HeaderInvInit
<1>2. HeaderInv /\ [ScriptNext]_<<headerVars, vars>> => HeaderInv'
  BY HeaderSteps, HeaderInvStep
<1> QED
  BY <1>1, <1>2, PTL DEF ScriptSpec

\* So with files as the format has them nothing is missed.
LEMMA BehindHolds == ScriptSpec => [](WellFormed => Behind /\ Exact)
<1>1. ScriptInit => Behind /\ Exact
  BY HeaderFirst, BehindInit
<1>2. HeaderInv /\ (WellFormed => Behind /\ Exact) /\ [ScriptNext]_<<headerVars, vars>>
        => (WellFormed => Behind /\ Exact)'
  <2> SUFFICES ASSUME HeaderInv, WellFormed => Behind /\ Exact,
                      [ScriptNext]_<<headerVars, vars>>, WellFormed'
               PROVE  Behind' /\ Exact'
    OBVIOUS
  <2>1. [HeaderNext]_headerVars
    BY HeaderSteps
  <2>2. texts' = texts
    BY <2>1 DEF HeaderNext, headerVars, ReadDocLine, EndOfDoc, ReadHeaderLine, EndHeader,
                CheckVersion
  <2>3. WellFormed
    BY <2>2, WellFormedStays
  <2> QED
    BY <2>1, <2>3, BehindStep
<1> QED
  BY <1>1, <1>2, HeaderInvHolds, PTL DEF ScriptSpec

\* Whatever the files are: who is not warned has a collection that some document
\* gives the number of the version that the update starts from.
THEOREM UnwarnedAgree == ScriptSpec => []UnwarnedVersionsAgree
<1>1. ASSUME HeaderInv PROVE UnwarnedVersionsAgree
  <2> DEFINE told == ToldVersions(texts.script, "#PreviousVersion:")
             next == ToldVersions(texts.script, "#ResultingVersion:")
  <2> SUFFICES ASSUME stage = "commands", ~ warning, NonzeroHeader
               PROVE  \E version \in DocVersions, previous \in told :
                        atohvscver(version) = atohvscver(previous) /\ version.major # 0
    BY DEF UnwarnedVersionsAgree
  <2>1. "release" \in seen /\ HeaderComplete
        /\ (required = 0 \/ resulting = 0 \/ found = required)
    BY <1>1 DEF HeaderInv, Warned
  <2>2. IsTold(found, DocVersions) /\ IsTold(required, told) /\ IsTold(resulting, next)
    BY <1>1, <2>1 DEF HeaderInv, Heard, HeaderComplete
  <2>3. required # 0 /\ resulting # 0
    BY <2>2 DEF IsTold, NonzeroHeader
  <2> QED
    BY <2>1, <2>2, <2>3 DEF IsTold
<1> QED
  BY <1>1, HeaderInvHolds, PTL

\* With files as the format has them the script is refused exactly if it lacks a
\* version, and there is no warning exactly if the collection has the version that
\* the update starts from.
THEOREM CheckExact == ScriptSpec => []VersionCheckIsExact
<1>1. ASSUME HeaderInv, WellFormed => Behind /\ Exact PROVE VersionCheckIsExact
  <2> DEFINE previous == ToldVersions(texts.script, "#PreviousVersion:")
             next == ToldVersions(texts.script, "#ResultingVersion:")
  <2> SUFFICES ASSUME WellFormed
               PROVE  /\ stage = "exit1" => {} \in {previous, next}
                      /\ stage = "commands" =>
                           {} \notin {previous, next} /\ (warning <=> DocVersions # previous)
    BY DEF VersionCheckIsExact
  <2>1. Behind /\ Exact /\ HeaderShape /\ Heard /\ Warned /\ texts \in Texts
    BY <1>1 DEF HeaderInv, HeaderShape
  <2>2. stage = "exit1" => {} \in {previous, next}
    BY <2>1 DEF Behind, ScriptKey, ToldVersions
  <2>3. ASSUME stage = "commands"
        PROVE  {} \notin {previous, next} /\ (warning <=> DocVersions # previous)
    <3>1. IsTold(required, previous) /\ IsTold(resulting, next)
      BY <2>1, <2>3 DEF Warned, Heard, HeaderComplete
    <3>2. {} \notin {previous, next}
      BY <3>1 DEF IsTold
    <3>3. PICK p \in previous : required = atohvscver(p)
      BY <3>1 DEF IsTold
    <3>4. previous = {p}
      <4>1. \A i, j \in Told(texts.script, "#PreviousVersion:") : i = j
        BY DEF WellFormed
      <4> QED
        BY <3>3, <4>1 DEF ToldVersions
    <3>5. Proper(p) /\ p \in Version
      <4>1. texts.script \in Seq(Line)
        BY <2>1, TextsType
      <4>2. PICK i \in Told(texts.script, "#PreviousVersion:") : p = texts.script[i].text
        BY <3>3 DEF ToldVersions
      <4>3. texts.script[i] \in Line
        BY <4>1, <4>2 DEF Told
      <4>4. Proper(p)
        BY <3>3 DEF WellFormed
      <4> QED
        BY <4>2, <4>3, <4>4 DEF Line
    <3>6. warning <=> "release" \notin seen \/ found # required
      BY <2>1, <2>3 DEF Exact
    <3>7. CASE "release" \notin seen
      <4>1. DocVersions = {}
        BY <2>1, <2>3, <3>7 DEF Behind
      <4> QED
        BY <3>2, <3>4, <3>6, <3>7, <4>1
    <3>8. CASE "release" \in seen
      <4>1. PICK v \in DocVersions : found = atohvscver(v)
        BY <2>1, <3>8 DEF Heard, IsTold
      <4>2. DocVersions = {v}
        BY <4>1 DEF WellFormed
      <4>3. Proper(v) /\ v \in Version
        <5>1. PICK d \in DOMAIN texts.docs : v \in ToldVersions(texts.docs[d], "release")
          BY <4>1 DEF DocVersions
        <5>2. texts.docs[d] \in Seq(Line)
          BY <2>1, <5>1, TextsType
        <5>3. PICK i \in Told(texts.docs[d], "release") : v = texts.docs[d][i].text
          BY <5>1 DEF ToldVersions
        <5>4. texts.docs[d][i] \in Line
          BY <5>2, <5>3 DEF Told
        <5>5. Proper(v)
          BY <4>1 DEF WellFormed
        <5> QED
          BY <5>3, <5>4, <5>5 DEF Line
      <4>4. found = required <=> v = p
        BY <3>3, <3>5, <4>1, <4>3, ProperOrder
      <4> QED
        BY <3>2, <3>4, <3>6, <3>8, <4>2, <4>4
    <3> QED
      BY <3>7, <3>8
  <2> QED
    BY <2>2, <2>3
<1> QED
  BY <1>1, HeaderInvHolds, BehindHolds, PTL

\* The numbers of proper versions are in their order and are displayed as they are.
THEOREM NumbersInOrder == ScriptSpec => []NumbersKeepTheOrder
<1>1. ASSUME HeaderInv PROVE NumbersKeepTheOrder
  <2> DEFINE told == DocVersions \cup ToldVersions(texts.script, "#PreviousVersion:")
  <2>1. told \subseteq Version
    <3> SUFFICES ASSUME NEW v \in told PROVE v \in Version
      OBVIOUS
    <3>1. texts \in Texts
      BY <1>1 DEF HeaderInv, HeaderShape
    <3>2. ASSUME NEW file \in Seq(Line), NEW key, v \in ToldVersions(file, key)
          PROVE  v \in Version
      <4>1. PICK i \in Told(file, key) : v = file[i].text
        BY <3>2 DEF ToldVersions
      <4>2. file[i] \in Line
        BY <4>1 DEF Told
      <4> QED
        BY <4>1, <4>2 DEF Line
    <3>3. CASE v \in ToldVersions(texts.script, "#PreviousVersion:")
      BY <3>1, <3>2, <3>3, TextsType
    <3>4. CASE v \in DocVersions
      <4>1. PICK d \in DOMAIN texts.docs : v \in ToldVersions(texts.docs[d], "release")
        BY <3>4 DEF DocVersions
      <4>2. texts.docs[d] \in Seq(Line)
        BY <3>1, <4>1, TextsType
      <4> QED
        BY <3>2, <4>1, <4>2
    <3> QED
      BY <3>3, <3>4
  <2> QED
    BY <2>1, ProperOrder DEF NumbersKeepTheOrder
<1> QED
  BY <1>1, HeaderInvHolds, PTL

\* The second reading of a script is one of the loop of ScriptReader: what is
\* proved of the loop holds of the whole.
THEOREM ScriptImplementsReader == ScriptSpec => Spec
<1> QED
  BY HeaderFirst, HeaderSteps, PTL DEF ScriptSpec, Spec

\* So the two readings together leave no block out, and take no line for another.
THEOREM ScriptReadInSync ==
    ScriptSpec => []BlocksInSync /\ []ParametersInSync /\ []CleanEndMeansAllDone
BY ScriptImplementsReader, BlocksStayInSync, ParametersStayInSync, CleanEndTellsTheTruth, PTL
===============================================================================
