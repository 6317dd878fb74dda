--------------------------- MODULE HvscTreeProofs ---------------------------
(***************************************************************************)
(* Facts about the file tree and the path lookup, for every set of names   *)
(* and every tree.  The lookup is a recursive function of the number of    *)
(* names walked; facts about it are proved from a least counterexample.    *)
(***************************************************************************)
EXTENDS HvscTree, TLAPS, WellFoundedInduction, NaturalsInduction

\* A set of naturals with a member has a least one.
LEMMA LeastNatural ==
    ASSUME NEW T, T \subseteq Nat, T # {}
    PROVE  \E x \in T : \A y \in T : ~ (y < x)
<1>1. IsWellFoundedOn(OpToRel(<, Nat), Nat)
  BY NatLessThanWellFounded
<1>2. \E x \in T : \A y \in T : <<y, x>> \notin OpToRel(<, Nat)
  BY <1>1, WFMin
<1> QED
  BY <1>2 DEF OpToRel

-----------------------------------------------------------------------------
(* The walk of getHVSCpath.                                                *)

\* One iteration of the loop, from the result f[i - 1] of the one before.
WalkStep(tree, names, f, i) ==
    IF i = 0 THEN Found(Root)
    ELSE IF f[i - 1].status # "found" THEN f[i - 1]
    ELSE LookupName(tree, f[i - 1].path, names[i])

\* The recursive definition has a solution.
LEMMA WalkExists ==
    ASSUME NEW tree, NEW names, NEW n \in Nat
    PROVE  \E f : f = [i \in 0..n |-> WalkStep(tree, names, f, i)]
<1> DEFINE Has(m) == \E f : f = [i \in 0..m |-> WalkStep(tree, names, f, i)]
           Bad == {m \in Nat : ~ Has(m)}
<1>1. SUFFICES ASSUME Bad # {} PROVE FALSE
  OBVIOUS
<1>2. PICK m \in Bad : \A k \in Bad : ~ (k < m)
  BY <1>1, LeastNatural
<1>3. CASE m = 0
  <2> DEFINE f == [i \in 0..0 |-> Found(Root)]
  <2>1. f = [i \in 0..0 |-> WalkStep(tree, names, f, i)]
    BY DEF WalkStep
  <2> QED
    BY <2>1, <1>3
<1>4. CASE m # 0
  <2>1. Has(m - 1)
    BY <1>2, <1>4
  <2>2. PICK g : g = [i \in 0..(m - 1) |-> WalkStep(tree, names, g, i)]
    BY <2>1
  <2> DEFINE h == [i \in 0..m |-> IF i < m THEN g[i] ELSE WalkStep(tree, names, g, m)]
  <2>3. \A i \in 0..m : h[i] = WalkStep(tree, names, h, i)
    <3> SUFFICES ASSUME NEW i \in 0..m PROVE h[i] = WalkStep(tree, names, h, i)
      OBVIOUS
    <3>1. m \in Nat /\ i \in Int /\ 0 <= i /\ i <= m
      OBVIOUS
    <3>2. i # 0 => h[i - 1] = g[i - 1]
      BY <3>1
    <3>3. WalkStep(tree, names, h, i) = WalkStep(tree, names, g, i)
      BY <3>2 DEF WalkStep
    <3>4. h[i] = WalkStep(tree, names, g, i)
      <4>1. CASE i < m
        <5>1. i \in 0..(m - 1)
          BY <3>1, <4>1
        <5>2. g[i] = WalkStep(tree, names, g, i)
          BY <2>2, <5>1
        <5> QED
          BY <5>2, <4>1
      <4>2. CASE i = m
        BY <4>2
      <4> QED
        BY <4>1, <4>2, <3>1
    <3> HIDE DEF h
    <3> QED
      BY <3>3, <3>4
  <2>4. h = [i \in 0..m |-> h[i]]
    OBVIOUS
  <2>5. h = [i \in 0..m |-> WalkStep(tree, names, h, i)]
    BY <2>3, <2>4
  <2> QED
    BY <2>5
<1> QED
  BY <1>3, <1>4

\* Resolve is the last value of a walk.
LEMMA ResolveIsWalk ==
    ASSUME NEW tree, NEW names \in Path
    PROVE  \E f : /\ \A i \in 0..Len(names) : f[i] = WalkStep(tree, names, f, i)
                  /\ Resolve(tree, names) = f[Len(names)]
<1> DEFINE w == CHOOSE f : f = [i \in 0..Len(names) |-> WalkStep(tree, names, f, i)]
<1>1. Len(names) \in Nat
  BY DEF Path
<1>2. w = [i \in 0..Len(names) |-> WalkStep(tree, names, w, i)]
  BY <1>1, WalkExists
<1>3. Resolve(tree, names) = w[Len(names)]
  BY DEF Resolve, WalkStep
<1> HIDE DEF w
<1>4. \A i \in 0..Len(names) : w[i] = WalkStep(tree, names, w, i)
  BY <1>2
<1> QED
  BY <1>3, <1>4

Result == {Found(p) : p \in Path} \cup {Missing, Throws}

\* Looking one name up has one of the three outcomes.
LEMMA LookupNameType ==
    ASSUME NEW tree, NEW dir \in Path, NEW name
    PROVE  LookupName(tree, dir, name) \in Result
<1>1. Matches(tree, dir, name) \in SUBSET Name
  BY DEF Matches, Children
<1>2. Listing[Matches(tree, dir, name)] \in Seq(Name)
  BY <1>1, ListingAssumption
<1>3. dir \o Listing[Matches(tree, dir, name)] \in Path
  BY <1>2 DEF Path
<1> QED
  BY <1>3 DEF LookupName, Result

\* What getHVSCpath returns is a path, or says that there is none.
THEOREM ResolveType ==
    ASSUME NEW tree, NEW names \in Path
    PROVE  Resolve(tree, names) \in Result
<1>1. PICK f : /\ \A i \in 0..Len(names) : f[i] = WalkStep(tree, names, f, i)
               /\ Resolve(tree, names) = f[Len(names)]
  BY ResolveIsWalk
<1>2. Len(names) \in Nat
  BY DEF Path
<1> DEFINE Bad == {i \in 0..Len(names) : f[i] \notin Result}
<1>3. SUFFICES ASSUME Bad # {} PROVE FALSE
  BY <1>1, <1>2
<1>4. PICK m \in Bad : \A k \in Bad : ~ (k < m)
  <2>1. Bad \subseteq Nat
    BY <1>2
  <2> QED
    BY <2>1, <1>3, LeastNatural
<1>5. CASE m = 0
  <2>1. f[m] = Found(Root)
    BY <1>1, <1>2, <1>5 DEF WalkStep
  <2>2. Root \in Path
    BY DEF Root, Path
  <2> QED
    BY <2>1, <2>2, <1>4 DEF Result
<1>6. CASE m # 0
  <2>1. m - 1 \in 0..Len(names) /\ m - 1 < m
    BY <1>2, <1>6
  <2>2. f[m - 1] \in Result
    BY <2>1, <1>4
  <2>3. f[m] = IF f[m - 1].status # "found" THEN f[m - 1]
               ELSE LookupName(tree, f[m - 1].path, names[m])
    BY <1>1, <1>2, <1>6 DEF WalkStep
  <2>4. CASE f[m - 1].status = "found"
    <3>1. f[m - 1].path \in Path
      <4>1. f[m - 1] # Missing /\ f[m - 1] # Throws
        BY <2>4 DEF Missing, Throws
      <4>2. PICK p \in Path : f[m - 1] = Found(p)
        BY <2>2, <4>1 DEF Result
      <4> QED
        BY <4>2 DEF Found
    <3> QED
      BY <3>1, <2>3, <2>4, LookupNameType, <1>4
  <2>5. CASE f[m - 1].status # "found"
    BY <2>2, <2>3, <2>5, <1>4
  <2> QED
    BY <2>4, <2>5
<1> QED
  BY <1>5, <1>6

-----------------------------------------------------------------------------
(* Entries are made and removed one at a time.                             *)

\* An entry, its directory and the root are different paths.
LEMMA AppendParent ==
    ASSUME NEW d \in Path, NEW n \in Name
    PROVE  /\ Append(d, n) \in Path
           /\ Parent(Append(d, n)) = d
           /\ Append(d, n) # Root
           /\ Append(d, n) # d
<1>1. Append(d, n) \in Path
  BY DEF Path
<1>2. Len(Append(d, n)) = Len(d) + 1 /\ Len(d) \in Nat
  BY DEF Path
<1>3. Append(d, n) # Root /\ Append(d, n) # d
  BY <1>2 DEF Root
<1>4. Parent(Append(d, n)) = d
  BY DEF Parent, Path
<1> QED
  BY <1>1, <1>3, <1>4

\* Each path but the root is an entry of the path above it.
LEMMA ParentType ==
    ASSUME NEW p \in Path
    PROVE  /\ Parent(p) \in Path
           /\ p # Root => LastName(p) \in Name /\ p = Append(Parent(p), LastName(p))
<1>1. Len(p) \in Nat
  BY DEF Path
<1>2. CASE p = Root
  <2>1. Parent(p) = Root
    BY <1>2 DEF Parent, Root
  <2> QED
    BY <1>2, <2>1
<1>3. CASE p # Root
  <2>1. Len(p) > 0
    BY <1>1, <1>3 DEF Path, Root
  <2>2. Parent(p) \in Path
    BY <2>1, <1>1 DEF Parent, Path
  <2>3. LastName(p) \in Name
    BY <2>1, <1>1 DEF LastName, Path
  <2>4. p = Append(Parent(p), LastName(p))
    BY <2>1, <1>1 DEF Parent, LastName, Path
  <2> QED
    BY <2>2, <2>3, <2>4
<1> QED
  BY <1>2, <1>3

\* A node made in an existing directory under a free name, or a file that is
\* written to, leaves a tree.
LEMMA WithWellFormed ==
    ASSUME NEW tree, WellFormed(tree), NEW d, NEW n \in Name, IsDirectory(tree, d),
           ~ IsDirectory(tree, Append(d, n)),
           NEW node \in Tune \cup {Partial, Directory}
    PROVE  WellFormed(With(tree, Append(d, n), node))
<1> DEFINE p == Append(d, n)
           t == With(tree, p, node)
<1>1. d \in Path /\ p \in Path /\ Parent(p) = d /\ p # Root /\ p # d
  BY AppendParent DEF WellFormed, IsDirectory
<1>2. DOMAIN t = DOMAIN tree \cup {p}
  BY DEF With
<1>3. \A q \in DOMAIN tree : q # p => t[q] = tree[q]
  BY DEF With
<1>4. t[p] = node
  BY DEF With
<1>5. \A q : IsDirectory(tree, q) => IsDirectory(t, q)
  BY <1>2, <1>3 DEF IsDirectory
<1>6. t \in [DOMAIN t -> Tune \cup {Partial, Directory}]
  BY DEF With, WellFormed
<1> HIDE DEF t, p
<1>7. \A q \in DOMAIN t \ {Root} : IsDirectory(t, Parent(q))
  <2> TAKE q \in DOMAIN t \ {Root}
  <2>1. CASE q = p
    BY <1>1, <1>5, <2>1
  <2>2. CASE q # p
    BY <1>2, <1>5, <2>2 DEF WellFormed
  <2> QED
    BY <2>1, <2>2
<1>8. WellFormed(t)
  BY <1>1, <1>2, <1>5, <1>6, <1>7 DEF WellFormed
<1> QED
  BY <1>8 DEF t, p

\* What fs::remove takes away leaves a tree.
LEMMA WithoutWellFormed ==
    ASSUME NEW tree, WellFormed(tree), NEW p, ~ RemoveThrows(tree, p)
    PROVE  WellFormed(Without(tree, p))
<1> DEFINE t == Without(tree, p)
<1>1. DOMAIN t = DOMAIN tree \ {p} /\ \A q \in DOMAIN t : t[q] = tree[q]
  BY DEF Without
<1>2. t \in [DOMAIN t -> Tune \cup {Partial, Directory}]
  BY DEF Without, WellFormed
<1>3. p # Root
  BY DEF WellFormed, RemoveThrows
<1> HIDE DEF t
<1>4. IsDirectory(t, Root)
  BY <1>1, <1>3 DEF IsDirectory, WellFormed
<1>5. \A q \in DOMAIN t \ {Root} : IsDirectory(t, Parent(q))
  <2> TAKE q \in DOMAIN t \ {Root}
  <2>1. q \in Path /\ IsDirectory(tree, Parent(q))
    BY <1>1 DEF WellFormed
  <2>2. LastName(q) \in Name /\ q = Append(Parent(q), LastName(q))
    BY <2>1, ParentType
  <2>3. Parent(q) # p
    BY <1>1, <2>1, <2>2 DEF RemoveThrows, Children
  <2> QED
    BY <1>1, <2>1, <2>3 DEF IsDirectory
<1>6. WellFormed(t)
  BY <1>1, <1>2, <1>4, <1>5 DEF WellFormed
<1> QED
  BY <1>6 DEF t

-----------------------------------------------------------------------------
(* The lookup is right about a collection without two spellings of a name. *)

\* Every directory on the way to an entry exists.
LEMMA PrefixClosed ==
    ASSUME NEW tree, WellFormed(tree), NEW p \in DOMAIN tree
    PROVE  \A k \in 0..Len(p) :
             /\ SubSeq(p, 1, k) \in DOMAIN tree
             /\ k < Len(p) => IsDirectory(tree, SubSeq(p, 1, k))
<1>1. p \in Seq(Name) /\ Len(p) \in Nat
  BY DEF WellFormed, Path
<1> DEFINE Bad == {j \in 0..Len(p) : SubSeq(p, 1, Len(p) - j) \notin DOMAIN tree}
<1>2. \A k \in 0..Len(p) : SubSeq(p, 1, k) \in DOMAIN tree => k < Len(p) \/ SubSeq(p, 1, k) = p
  BY <1>1
<1>3. \A k \in 0..(Len(p) - 1) :
        SubSeq(p, 1, k + 1) \in DOMAIN tree => IsDirectory(tree, SubSeq(p, 1, k))
  <2> SUFFICES ASSUME NEW k \in 0..(Len(p) - 1), SubSeq(p, 1, k + 1) \in DOMAIN tree
               PROVE  IsDirectory(tree, SubSeq(p, 1, k))
    OBVIOUS
  <2> DEFINE q == SubSeq(p, 1, k + 1)
  <2>1. Len(q) = k + 1 /\ q # Root
    BY <1>1 DEF Root
  <2>2. Parent(q) = SubSeq(p, 1, k)
    BY <1>1, <2>1 DEF Parent
  <2> QED
    BY <2>1, <2>2 DEF WellFormed
<1>4. Bad = {}
  <2>1. SUFFICES ASSUME Bad # {} PROVE FALSE
    OBVIOUS
  <2>2. PICK m \in Bad : \A j \in Bad : ~ (j < m)
    <3>1. Bad \subseteq Nat
      BY <1>1
    <3> QED
      BY <2>1, <3>1, LeastNatural
  <2>3. m # 0
    <3>1. SubSeq(p, 1, Len(p) - 0) = p
      BY <1>1
    <3> QED
      BY <3>1, <2>2
  <2>4. m - 1 \in 0..Len(p) /\ m - 1 \notin Bad
    BY <1>1, <2>2, <2>3
  <2>5. SubSeq(p, 1, (Len(p) - m) + 1) \in DOMAIN tree
    BY <1>1, <2>4
  <2>6. Len(p) - m \in 0..(Len(p) - 1)
    BY <1>1, <2>2, <2>3
  <2> QED
    BY <2>2, <2>5, <2>6, <1>3 DEF IsDirectory
<1>5. \A k \in 0..Len(p) : SubSeq(p, 1, k) \in DOMAIN tree
  <2> TAKE k \in 0..Len(p)
  <2>1. Len(p) - k \in 0..Len(p) /\ Len(p) - (Len(p) - k) = k
    BY <1>1
  <2> QED
    BY <1>4, <2>1
<1>6. \A k \in 0..Len(p) : k < Len(p) => IsDirectory(tree, SubSeq(p, 1, k))
  <2> SUFFICES ASSUME NEW k \in 0..Len(p), k < Len(p)
               PROVE  IsDirectory(tree, SubSeq(p, 1, k))
    OBVIOUS
  <2>1. k \in 0..(Len(p) - 1) /\ k + 1 \in 0..Len(p)
    BY <1>1
  <2> QED
    BY <2>1, <1>3, <1>5
<1> QED
  BY <1>5, <1>6

\* Where names are unambiguous at most one entry matches, so its listing is its
\* name.
LEMMA UniqueMatch ==
    ASSUME NEW tree, WellFormed(tree), Unambiguous(tree), NEW dir \in DOMAIN tree,
           NEW name, NEW m \in Matches(tree, dir, name)
    PROVE  /\ Matches(tree, dir, name) = {m}
           /\ dir \o Listing[Matches(tree, dir, name)] = Append(dir, m)
<1>1. dir \in Seq(Name) /\ m \in Name
  BY DEF WellFormed, Path, Matches, Children
<1>2. \A n \in Matches(tree, dir, name) : n = m
  <2> SUFFICES ASSUME NEW n \in Matches(tree, dir, name) PROVE n = m
    OBVIOUS
  <2>1. n \in Name /\ Lower[n] = Lower[m]
        /\ Append(dir, n) \in DOMAIN tree /\ Append(dir, m) \in DOMAIN tree
    BY DEF Matches, Children
  <2>2. SameButForCase(Append(dir, n), Append(dir, m))
    BY <1>1, <2>1 DEF SameButForCase
  <2>3. Append(dir, n) = Append(dir, m)
    BY <2>1, <2>2 DEF Unambiguous
  <2>4. Append(dir, n)[Len(dir) + 1] = n /\ Append(dir, m)[Len(dir) + 1] = m
    BY <1>1, <2>1
  <2> QED
    BY <2>3, <2>4
<1>3. Matches(tree, dir, name) = {m}
  BY <1>2
<1>4. Listing[{m}] = <<m>>
  <2> DEFINE l == Listing[{m}]
  <2>1. /\ l \in Seq({m})
        /\ \E i \in 1..Len(l) : l[i] = m
        /\ \A i, j \in 1..Len(l) : l[i] = l[j] => i = j
    BY <1>1, ListingAssumption
  <2> HIDE DEF l
  <2>2. Len(l) \in Nat /\ \A i \in 1..Len(l) : l[i] = m
    BY <2>1
  <2>3. Len(l) = 1
    <3>1. Len(l) >= 1
      BY <2>1, <2>2
    <3>2. Len(l) >= 2 => 1 \in 1..Len(l) /\ 2 \in 1..Len(l)
      BY <2>2
    <3>3. ~ (Len(l) >= 2)
      BY <3>2, <2>1, <2>2
    <3>4. \A n \in Nat : n >= 1 /\ ~ (n >= 2) => n = 1
      OBVIOUS
    <3> QED
      BY <2>2, <3>1, <3>3, <3>4
  <2>4. l = <<m>>
    BY <2>1, <2>2, <2>3
  <2> QED
    BY <2>4 DEF l
<1>5. dir \o <<m>> = Append(dir, m)
  BY <1>1
<1> QED
  BY <1>3, <1>4, <1>5

\* What is found under one name is an entry that differs at most in case.
LEMMA LookupNameSound ==
    ASSUME NEW tree, WellFormed(tree), Unambiguous(tree), NEW dir \in Path, NEW name,
           LookupName(tree, dir, name).status = "found"
    PROVE  \E m \in Name : /\ LookupName(tree, dir, name) = Found(Append(dir, m))
                           /\ Append(dir, m) \in DOMAIN tree
                           /\ Lower[m] = Lower[name]
<1>1. /\ dir \in DOMAIN tree /\ Matches(tree, dir, name) # {}
      /\ LookupName(tree, dir, name) = Found(dir \o Listing[Matches(tree, dir, name)])
  BY DEF LookupName, Exists, IsDirectory, Missing, Throws
<1>2. PICK m : m \in Matches(tree, dir, name)
  BY <1>1
<1>3. m \in Name /\ Append(dir, m) \in DOMAIN tree /\ Lower[m] = Lower[name]
  BY <1>2 DEF Matches, Children
<1> QED
  BY <1>1, <1>2, <1>3, UniqueMatch

\* What getHVSCpath finds exists, and is what was asked for but for case.
THEOREM LookupSound ==
    ASSUME NEW tree, WellFormed(tree), Unambiguous(tree), NEW names \in Path,
           Resolve(tree, names).status = "found"
    PROVE  /\ Resolve(tree, names).path \in DOMAIN tree
           /\ SameButForCase(Resolve(tree, names).path, names)
<1>1. PICK f : /\ \A i \in 0..Len(names) : f[i] = WalkStep(tree, names, f, i)
               /\ Resolve(tree, names) = f[Len(names)]
  BY ResolveIsWalk
<1>2. Len(names) \in Nat
  BY DEF Path
<1> DEFINE Good(i) == f[i].status = "found" =>
             /\ f[i].path \in DOMAIN tree /\ Len(f[i].path) = i
             /\ \A j \in 1..i : Lower[f[i].path[j]] = Lower[names[j]]
           Bad == {i \in 0..Len(names) : ~ Good(i)}
<1>3. Bad = {}
  <2>1. SUFFICES ASSUME Bad # {} PROVE FALSE
    OBVIOUS
  <2>2. PICK m \in Bad : \A j \in Bad : ~ (j < m)
    <3>1. Bad \subseteq Nat
      BY <1>2
    <3> QED
      BY <2>1, <3>1, LeastNatural
  <2>3. CASE m = 0
    <3>1. f[m] = Found(Root)
      BY <1>1, <1>2, <2>3 DEF WalkStep
    <3>2. Good(m)
      BY <3>1, <2>3 DEF Found, WellFormed, IsDirectory, Root
    <3> QED
      BY <3>2, <2>2
  <2>4. CASE m # 0
    <3>1. m - 1 \in 0..Len(names) /\ m - 1 < m /\ m \in 1..Len(names)
      BY <1>2, <2>4
    <3>2. Good(m - 1)
      BY <3>1, <2>2
    <3>3. f[m] = IF f[m - 1].status # "found" THEN f[m - 1]
                 ELSE LookupName(tree, f[m - 1].path, names[m])
      BY <1>1, <1>2, <2>4 DEF WalkStep
    <3>4. CASE f[m - 1].status # "found" \/ f[m].status # "found"
      BY <3>3, <3>4, <2>2
    <3>5. CASE f[m - 1].status = "found" /\ f[m].status = "found"
      <4> DEFINE d == f[m - 1].path
      <4>1. /\ d \in Path /\ Len(d) = m - 1
            /\ \A j \in 1..(m - 1) : Lower[d[j]] = Lower[names[j]]
        BY <3>2, <3>5 DEF WellFormed
      <4> HIDE DEF d
      <4>2. f[m] = LookupName(tree, d, names[m])
        BY <3>3, <3>5 DEF d
      <4>3. PICK n \in Name : /\ f[m] = Found(Append(d, n))
                             /\ Append(d, n) \in DOMAIN tree
                             /\ Lower[n] = Lower[names[m]]
        BY <3>5, <4>1, <4>2, LookupNameSound
      <4>4. f[m].path = Append(d, n)
        BY <4>3 DEF Found
      <4>5. Len(Append(d, n)) = m
        BY <4>1, <3>1 DEF Path
      <4>6. \A j \in 1..m : Lower[Append(d, n)[j]] = Lower[names[j]]
        BY <4>1, <4>3, <3>1 DEF Path
      <4>7. Good(m)
        BY <4>3, <4>4, <4>5, <4>6
      <4> QED
        BY <4>7, <2>2
    <3> QED
      BY <3>4, <3>5
  <2> QED
    BY <2>3, <2>4
<1>4. Good(Len(names))
  BY <1>2, <1>3
<1> QED
  BY <1>1, <1>4 DEF SameButForCase

\* getHVSCpath finds every entry, in whatever case its path is written.
THEOREM LookupComplete ==
    ASSUME NEW tree, WellFormed(tree), Unambiguous(tree), NEW names \in Path,
           NEW p \in DOMAIN tree, SameButForCase(p, names)
    PROVE  Resolve(tree, names) = Found(p)
<1>1. PICK f : /\ \A i \in 0..Len(names) : f[i] = WalkStep(tree, names, f, i)
               /\ Resolve(tree, names) = f[Len(names)]
  BY ResolveIsWalk
<1>2. p \in Seq(Name) /\ Len(p) = Len(names) /\ Len(names) \in Nat
  BY DEF Path, WellFormed, SameButForCase
<1> DEFINE Bad == {i \in 0..Len(names) : f[i] # Found(SubSeq(p, 1, i))}
<1>3. Bad = {}
  <2>1. SUFFICES ASSUME Bad # {} PROVE FALSE
    OBVIOUS
  <2>2. PICK m \in Bad : \A j \in Bad : ~ (j < m)
    <3>1. Bad \subseteq Nat
      BY <1>2
    <3> QED
      BY <2>1, <3>1, LeastNatural
  <2>3. CASE m = 0
    <3>1. f[m] = Found(Root)
      BY <1>1, <1>2, <2>3 DEF WalkStep
    <3>2. SubSeq(p, 1, 0) = Root
      BY <1>2 DEF Root
    <3> QED
      BY <3>1, <3>2, <2>2, <2>3
  <2>4. CASE m # 0
    <3>1. m - 1 \in 0..Len(names) /\ m - 1 < m /\ m \in 1..Len(p)
      BY <1>2, <2>4
    <3> DEFINE d == SubSeq(p, 1, m - 1)
    <3>2. f[m - 1] = Found(d)
      BY <3>1, <2>2
    <3>3. f[m] = LookupName(tree, d, names[m])
      <4>1. f[m] = IF f[m - 1].status # "found" THEN f[m - 1]
                   ELSE LookupName(tree, f[m - 1].path, names[m])
        BY <1>1, <1>2, <2>4 DEF WalkStep
      <4> HIDE DEF d
      <4>2. f[m - 1].status = "found" /\ f[m - 1].path = d
        BY <3>2 DEF Found
      <4> QED
        BY <4>1, <4>2
    <3>4. IsDirectory(tree, d)
      BY <3>1, <1>2, PrefixClosed
    <3>5. d \in Seq(Name) /\ p[m] \in Name /\ Append(d, p[m]) = SubSeq(p, 1, m)
      BY <3>1, <1>2
    <3>6. SubSeq(p, 1, m) \in DOMAIN tree
      BY <3>1, <1>2, PrefixClosed
    <3>7. Lower[p[m]] = Lower[names[m]]
      BY <3>1 DEF SameButForCase
    <3> HIDE DEF d
    <3>8. p[m] \in Matches(tree, d, names[m])
      BY <3>5, <3>6, <3>7 DEF Matches, Children
    <3>9. d \o Listing[Matches(tree, d, names[m])] = Append(d, p[m])
      BY <3>4, <3>8, UniqueMatch DEF IsDirectory
    <3>10. f[m] = Found(SubSeq(p, 1, m))
      BY <3>3, <3>4, <3>5, <3>8, <3>9 DEF LookupName, Exists, IsDirectory
    <3> QED
      BY <3>10, <2>2
  <2> QED
    BY <2>3, <2>4
<1>4. f[Len(names)] = Found(SubSeq(p, 1, Len(names)))
  BY <1>2, <1>3
<1>5. SubSeq(p, 1, Len(names)) = p
  BY <1>2
<1> QED
  BY <1>1, <1>4, <1>5

=============================================================================
