-------------------------- MODULE ChannelCatalogProofs --------------------------
(* Proofs about ChannelCatalog, for any file systems, any directories and names, any   *)
(* texts and any answers of the resolver.                                              *)
EXTENDS ChannelCatalog, SumFacts, SequenceTheorems

---------------------------------------------------------------------------------
(* Sequences: recursion over prefixes, and what FlattenSeq yields.                    *)

\* g is defined by recursion on the numbers up to m.
Recurs(m, X, base, step, g) ==
  /\ g \in [0 .. m -> X] /\ g[0] = base
  /\ \A i \in 1 .. m : g[i] = step[i][g[i - 1]]

\* Such functions exist.
LEMMA Recursion ==
  ASSUME NEW n \in Nat, NEW X, NEW base \in X, NEW step \in [1 .. n -> [X -> X]]
  PROVE  \E g : Recurs(n, X, base, step, g)
<1> DEFINE S == {m \in Nat : m <= n => \E g : Recurs(m, X, base, step, g)}
<1>1. 0 \in S
  <2> DEFINE g == [i \in 0 .. 0 |-> base]
  <2>1. Recurs(0, X, base, step, g)
    BY DEF Recurs
  <2> QED
    BY <2>1
<1>2. ASSUME NEW m \in S PROVE m + 1 \in S
  <2>1. CASE m + 1 <= n
    <3>1. m \in Nat /\ m <= n
      BY <2>1
    <3>2. PICK g : Recurs(m, X, base, step, g)
      BY <3>1
    <3> DEFINE h == [i \in 0 .. m + 1 |-> IF i <= m THEN g[i] ELSE step[m + 1][g[m]]]
    <3>3. g[m] \in X /\ step[m + 1] \in [X -> X]
      BY <2>1, <3>1, <3>2 DEF Recurs
    <3>4. \A i \in 0 .. m + 1 : h[i] = IF i <= m THEN g[i] ELSE step[m + 1][g[m]]
      OBVIOUS
    <3>5. h \in [0 .. m + 1 -> X]
      BY <3>1, <3>2, <3>3 DEF Recurs
    <3> HIDE DEF h
    <3>6. Recurs(m + 1, X, base, step, h)
      BY <3>1, <3>2, <3>4, <3>5 DEF Recurs
    <3> QED
      BY <3>1, <3>6
  <2>2. CASE ~(m + 1 <= n)
    BY <2>2
  <2> QED
    BY <2>1, <2>2
<1>3. S \in SUBSET Nat
  OBVIOUS
<1> HIDE DEF S
<1>4. n \in S
  BY <1>1, <1>2, <1>3, SetInduction
<1> QED
  BY <1>4 DEF S

\* The concatenation of the first i sequences, for every i.
Flattens(seqs, flatten) ==
  flatten = [i \in 1 .. Len(seqs) |-> IF i = 1 THEN seqs[i] ELSE flatten[i - 1] \o seqs[i]]

\* There is such a function, which FlattenSeq takes its last value from.
LEMMA FlattenExists ==
  ASSUME NEW X, NEW seqs \in Seq(Seq(X)), Len(seqs) # 0
  PROVE  \E flatten : Flattens(seqs, flatten) /\ FlattenSeq(seqs) = flatten[Len(seqs)]
<1>1. Len(seqs) \in Nat /\ \A i \in 1 .. Len(seqs) : seqs[i] \in Seq(X)
  BY ElementOfSeq
<1> DEFINE step == [i \in 1 .. Len(seqs) |-> [x \in Seq(X) |-> x \o seqs[i]]]
<1>2. step \in [1 .. Len(seqs) -> [Seq(X) -> Seq(X)]]
  <2>1. \A i \in 1 .. Len(seqs) : \A x \in Seq(X) : x \o seqs[i] \in Seq(X)
    BY <1>1, ConcatProperties
  <2> QED
    BY <2>1
<1>3. <<>> \in Seq(X)
  BY EmptySeq
<1>4. PICK g : Recurs(Len(seqs), Seq(X), <<>>, step, g)
  <2> HIDE DEF step
  <2> QED
    BY <1>1, <1>2, <1>3, Recursion
<1>5. /\ g \in [0 .. Len(seqs) -> Seq(X)] /\ g[0] = <<>>
      /\ \A i \in 1 .. Len(seqs) : g[i] = step[i][g[i - 1]]
  BY <1>4 DEF Recurs
<1>6. ASSUME NEW i \in 1 .. Len(seqs), NEW k \in 0 .. Len(seqs), i = k + 1
      PROVE  g[i] = g[k] \o seqs[i]
  <2>1. k \in Int /\ i \in Int
    BY <1>1
  <2>2. i - 1 = k
    BY <1>6, <2>1
  <2>3. g[k] \in Seq(X)
    BY <1>5
  <2>4. g[i] = step[i][g[i - 1]]
    BY <1>5
  <2>5. g[i] = step[i][g[k]]
    BY <2>2, <2>4
  <2> QED
    BY <2>3, <2>5
<1>7. g[1] = seqs[1]
  <2>1. 1 \in 1 .. Len(seqs) /\ 0 \in 0 .. Len(seqs) /\ 1 = 0 + 1
    BY <1>1
  <2>2. seqs[1] \in Seq(X)
    BY <1>1, <2>1
  <2>3. g[1] = g[0] \o seqs[1]
    BY <1>6, <2>1
  <2> QED
    BY <1>5, <2>2, <2>3, ConcatEmptySeq
<1> HIDE DEF step
<1> DEFINE h == [i \in 1 .. Len(seqs) |-> g[i]]
<1>8. Flattens(seqs, h)
  <2>1. ASSUME NEW i \in 1 .. Len(seqs)
        PROVE  h[i] = IF i = 1 THEN seqs[i] ELSE h[i - 1] \o seqs[i]
    <3>1. CASE i = 1
      BY <1>7, <3>1
    <3>2. CASE i # 1
      <4>1. i - 1 \in 1 .. Len(seqs) /\ i - 1 \in 0 .. Len(seqs) /\ i = (i - 1) + 1
        BY <1>1, <3>2
      <4>2. g[i] = g[i - 1] \o seqs[i]
        BY <1>6, <4>1
      <4> QED
        BY <3>2, <4>1, <4>2
    <3> QED
      BY <3>1, <3>2
  <2> QED
    BY <2>1 DEF Flattens
<1>9. FlattenSeq(seqs) = (CHOOSE f : Flattens(seqs, f))[Len(seqs)]
  BY DEF FlattenSeq, Flattens
<1> QED
  BY <1>8, <1>9

\* The first n of seqs one after the other are r, the i-th one from at[i] on.
Laid(X, seqs, n, at, r) ==
  /\ r \in Seq(X)
  /\ \A i \in 1 .. n : at[i] \in Nat /\ at[i] + Len(seqs[i]) <= Len(r)
  /\ \A h \in 1 .. n : \A i \in 1 .. h - 1 : at[i] + Len(seqs[i]) <= at[h]
  /\ \A i \in 1 .. n : \A j \in 1 .. Len(seqs[i]) : r[at[i] + j] = seqs[i][j]
  /\ \A k \in 1 .. Len(r) : \E i \in 1 .. n : \E j \in 1 .. Len(seqs[i]) : k = at[i] + j

\* It does not matter what at says of others.
LEMMA LaidAt ==
  ASSUME NEW X, NEW seqs, NEW n \in Nat, NEW at, NEW r, Laid(X, seqs, n, at, r),
         NEW at2, \A i \in 1 .. n : at2[i] = at[i]
  PROVE  Laid(X, seqs, n, at2, r)
<1>1. \A h \in 1 .. n : \A i \in 1 .. h - 1 : i \in 1 .. n
  OBVIOUS
<1>2. \A h \in 1 .. n : \A i \in 1 .. h - 1 : at2[i] + Len(seqs[i]) <= at2[h]
  BY <1>1 DEF Laid
<1>3. \A k \in 1 .. Len(r) : \E i \in 1 .. n : \E j \in 1 .. Len(seqs[i]) : k = at2[i] + j
  <2> SUFFICES ASSUME NEW k \in 1 .. Len(r)
               PROVE  \E i \in 1 .. n : \E j \in 1 .. Len(seqs[i]) : k = at2[i] + j
    OBVIOUS
  <2>1. PICK i \in 1 .. n : \E j \in 1 .. Len(seqs[i]) : k = at[i] + j
    BY DEF Laid
  <2> QED
    BY <2>1
<1> QED
  BY <1>2, <1>3 DEF Laid

\* One more is appended.
LEMMA LaidOneMore ==
  ASSUME NEW X, NEW seqs, NEW n \in Nat, NEW at, NEW r, Laid(X, seqs, n, at, r),
         \A i \in 1 .. n + 1 : Len(seqs[i]) \in Nat,
         seqs[n + 1] \in Seq(X), at[n + 1] = Len(r)
  PROVE  Laid(X, seqs, n + 1, at, r \o seqs[n + 1])
<1> DEFINE s == seqs[n + 1]
           t == r \o s
<1>1. r \in Seq(X) /\ Len(r) \in Nat /\ s \in Seq(X) /\ Len(s) \in Nat /\ n + 1 \in 1 .. n + 1
  BY LenProperties DEF Laid
<1>2. /\ t \in Seq(X) /\ Len(t) = Len(r) + Len(s)
      /\ \A k \in 1 .. Len(r) + Len(s) : t[k] = IF k <= Len(r) THEN r[k] ELSE s[k - Len(r)]
  BY <1>1, ConcatProperties
<1> HIDE DEF t
<1>3. \A i \in 1 .. n + 1 : at[i] \in Nat /\ at[i] + Len(seqs[i]) <= Len(t)
  <2> SUFFICES ASSUME NEW i \in 1 .. n + 1 PROVE at[i] \in Nat /\ at[i] + Len(seqs[i]) <= Len(t)
    OBVIOUS
  <2>1. CASE i = n + 1
    BY <1>1, <1>2, <2>1
  <2>2. CASE i # n + 1
    <3>1. at[i] \in Nat /\ at[i] + Len(seqs[i]) <= Len(r) /\ Len(seqs[i]) \in Nat
      BY <2>2 DEF Laid
    <3> QED
      BY <1>1, <1>2, <3>1
  <2> QED
    BY <2>1, <2>2
<1>4. \A h \in 1 .. n + 1 : \A i \in 1 .. h - 1 : at[i] + Len(seqs[i]) <= at[h]
  <2> SUFFICES ASSUME NEW h \in 1 .. n + 1, NEW i \in 1 .. h - 1
               PROVE  at[i] + Len(seqs[i]) <= at[h]
    OBVIOUS
  <2>1. CASE h = n + 1
    BY <2>1 DEF Laid
  <2>2. CASE h # n + 1
    BY <2>2 DEF Laid
  <2> QED
    BY <2>1, <2>2
<1>5. \A i \in 1 .. n + 1 : \A j \in 1 .. Len(seqs[i]) : t[at[i] + j] = seqs[i][j]
  <2> SUFFICES ASSUME NEW i \in 1 .. n + 1, NEW j \in 1 .. Len(seqs[i])
               PROVE  t[at[i] + j] = seqs[i][j]
    OBVIOUS
  <2>1. CASE i = n + 1
    <3>1. at[i] + j \in 1 .. Len(r) + Len(s) /\ ~(at[i] + j <= Len(r))
          /\ (at[i] + j) - Len(r) = j
      BY <1>1, <2>1
    <3> QED
      BY <1>2, <2>1, <3>1
  <2>2. CASE i # n + 1
    <3>1. at[i] \in Nat /\ at[i] + Len(seqs[i]) <= Len(r) /\ r[at[i] + j] = seqs[i][j]
      BY <2>2 DEF Laid
    <3>2. at[i] + j \in 1 .. Len(r) + Len(s) /\ at[i] + j <= Len(r)
      BY <1>1, <3>1
    <3> QED
      BY <1>2, <3>1, <3>2
  <2> QED
    BY <2>1, <2>2
<1>6. \A k \in 1 .. Len(t) : \E i \in 1 .. n + 1 : \E j \in 1 .. Len(seqs[i]) : k = at[i] + j
  <2> SUFFICES ASSUME NEW k \in 1 .. Len(t)
               PROVE  \E i \in 1 .. n + 1 : \E j \in 1 .. Len(seqs[i]) : k = at[i] + j
    OBVIOUS
  <2>1. CASE k <= Len(r)
    <3>1. k \in 1 .. Len(r)
      BY <1>1, <1>2, <2>1
    <3>2. \E i \in 1 .. n : \E j \in 1 .. Len(seqs[i]) : k = at[i] + j
      BY <3>1 DEF Laid
    <3>3. \A i \in 1 .. n : i \in 1 .. n + 1
      OBVIOUS
    <3> QED
      BY <3>2, <3>3
  <2>2. CASE ~(k <= Len(r))
    <3> DEFINE j == k - Len(r)
    <3>1. j \in 1 .. Len(s) /\ k = at[n + 1] + j
      BY <1>1, <1>2, <2>2
    <3> QED
      BY <1>1, <3>1
  <2> QED
    BY <2>1, <2>2
<1> QED
  BY <1>2, <1>3, <1>4, <1>5, <1>6 DEF Laid, t

\* What FlattenSeq yields.
LEMMA Flattened ==
  ASSUME NEW X, NEW seqs \in Seq(Seq(X))
  PROVE  \E at : Laid(X, seqs, Len(seqs), at, FlattenSeq(seqs))
<1>1. Len(seqs) \in Nat /\ \A i \in 1 .. Len(seqs) : seqs[i] \in Seq(X) /\ Len(seqs[i]) \in Nat
  BY ElementOfSeq, LenProperties
<1>2. CASE Len(seqs) = 0
  <2>1. FlattenSeq(seqs) = <<>>
    BY <1>2, EmptySeq DEF FlattenSeq
  <2>2. FlattenSeq(seqs) \in Seq(X) /\ Len(FlattenSeq(seqs)) = 0
    BY <2>1, EmptySeq
  <2>3. 1 .. 0 = {}
    OBVIOUS
  <2> QED
    BY <1>2, <2>2, <2>3 DEF Laid
<1>3. CASE Len(seqs) # 0
  <2>1. PICK f : Flattens(seqs, f) /\ FlattenSeq(seqs) = f[Len(seqs)]
    BY <1>3, FlattenExists
  <2>2. \A i \in 1 .. Len(seqs) : f[i] = IF i = 1 THEN seqs[i] ELSE f[i - 1] \o seqs[i]
    <3> DEFINE g == [i \in 1 .. Len(seqs) |-> IF i = 1 THEN seqs[i] ELSE f[i - 1] \o seqs[i]]
    <3>1. f = g
      BY <2>1 DEF Flattens
    <3>2. \A i \in 1 .. Len(seqs) : g[i] = IF i = 1 THEN seqs[i] ELSE f[i - 1] \o seqs[i]
      OBVIOUS
    <3> QED
      BY <3>1, <3>2
  <2> DEFINE at == [i \in 1 .. Len(seqs) |-> IF i = 1 THEN 0 ELSE Len(f[i - 1])]
             S == {n \in Nat : n + 1 <= Len(seqs) => Laid(X, seqs, n + 1, at, f[n + 1])}
  <2>3. at[1] = 0 /\ \A n \in Nat : n + 2 <= Len(seqs) => at[n + 2] = Len(f[n + 1])
    BY <1>1, <1>3
  <2> HIDE DEF at
  <2>4. 0 \in S
    <3>1. f[1] = seqs[1] /\ seqs[1] \in Seq(X) /\ Len(seqs[1]) \in Nat
      BY <1>1, <1>3, <2>2
    <3>2. Laid(X, seqs, 1, at, f[1])
      BY <2>3, <3>1 DEF Laid
    <3> QED
      BY <3>2
  <2>5. ASSUME NEW n \in S PROVE n + 1 \in S
    <3>0. n \in Nat /\ (n + 1 <= Len(seqs) => Laid(X, seqs, n + 1, at, f[n + 1]))
      OBVIOUS
    <3>1. CASE n + 2 <= Len(seqs)
      <4>1. Laid(X, seqs, n + 1, at, f[n + 1])
        BY <1>1, <3>0, <3>1
      <4>2. n + 2 \in 1 .. Len(seqs) /\ n + 2 # 1 /\ (n + 2) - 1 = n + 1
        BY <1>1, <3>0, <3>1
      <4>3. f[n + 2] = f[n + 1] \o seqs[n + 2] /\ at[n + 2] = Len(f[n + 1])
        BY <2>2, <2>3, <3>0, <3>1, <4>2
      <4>4. n + 1 \in Nat /\ (n + 1) + 1 = n + 2 /\ seqs[n + 2] \in Seq(X)
            /\ \A i \in 1 .. n + 2 : Len(seqs[i]) \in Nat
        BY <1>1, <3>0, <3>1, <4>2
      <4>5. Laid(X, seqs, n + 2, at, f[n + 2])
        BY <4>1, <4>3, <4>4, LaidOneMore
      <4> QED
        BY <3>0, <4>4, <4>5
    <3>2. CASE ~(n + 2 <= Len(seqs))
      BY <1>1, <3>0, <3>2
    <3> QED
      BY <3>1, <3>2
  <2>6. S \in SUBSET Nat
    OBVIOUS
  <2> HIDE DEF S
  <2>7. Len(seqs) - 1 \in S
    <3>1. Len(seqs) - 1 \in Nat
      BY <1>1, <1>3
    <3> QED
      BY <2>4, <2>5, <2>6, <3>1, SetInduction
  <2>8. (Len(seqs) - 1) + 1 = Len(seqs)
    BY <1>1
  <2> QED
    BY <1>1, <2>1, <2>7, <2>8 DEF S
<1> QED
  BY <1>2, <1>3

\* The members of a sequence of sequences' concatenation.
LEMMA FlattenMembers ==
  ASSUME NEW X, NEW seqs \in Seq(Seq(X))
  PROVE  /\ FlattenSeq(seqs) \in Seq(X)
         /\ Range(FlattenSeq(seqs)) = UNION {Range(seqs[i]) : i \in 1 .. Len(seqs)}
<1>1. PICK at : Laid(X, seqs, Len(seqs), at, FlattenSeq(seqs))
  BY Flattened
<1> DEFINE r == FlattenSeq(seqs)
<1>2. Len(seqs) \in Nat /\ \A i \in 1 .. Len(seqs) : seqs[i] \in Seq(X) /\ Len(seqs[i]) \in Nat
  BY ElementOfSeq, LenProperties
<1>3. r \in Seq(X) /\ Len(r) \in Nat /\ DOMAIN r = 1 .. Len(r)
  BY <1>1, LenProperties DEF Laid
<1> HIDE DEF r
<1>4. ASSUME NEW k \in DOMAIN r PROVE \E i \in 1 .. Len(seqs) : r[k] \in Range(seqs[i])
  <2>0. PICK i \in 1 .. Len(seqs) : \E j \in 1 .. Len(seqs[i]) : k = at[i] + j
    BY <1>1, <1>3 DEF Laid, r
  <2>1. PICK j \in 1 .. Len(seqs[i]) : k = at[i] + j
    BY <2>0
  <2>2. r[k] = seqs[i][j]
    BY <1>1, <2>1 DEF Laid, r
  <2>3. j \in DOMAIN seqs[i]
    BY <1>2, LenProperties
  <2> QED
    BY <2>2, <2>3 DEF Range
<1>5. ASSUME NEW i \in 1 .. Len(seqs), NEW x \in Range(seqs[i]) PROVE x \in Range(r)
  <2>1. PICK j \in 1 .. Len(seqs[i]) : x = seqs[i][j]
    BY <1>2, LenProperties DEF Range
  <2>2. r[at[i] + j] = x /\ at[i] \in Nat /\ at[i] + Len(seqs[i]) <= Len(r)
    BY <1>1, <2>1 DEF Laid, r
  <2>3. at[i] + j \in 1 .. Len(r)
    BY <1>2, <1>3, <2>2
  <2> QED
    BY <1>3, <2>2, <2>3 DEF Range
<1>6. Range(r) = UNION {Range(seqs[i]) : i \in 1 .. Len(seqs)}
  <2>1. \A x \in Range(r) : \E i \in 1 .. Len(seqs) : x \in Range(seqs[i])
    BY <1>4 DEF Range
  <2> QED
    BY <1>5, <2>1
<1> QED
  BY <1>3, <1>6 DEF r

\* One by one, a sequence's members that are in a set.
Singles(seq, set) == [i \in 1 .. Len(seq) |-> IF seq[i] \in set THEN <<seq[i]>> ELSE <<>>]

\* They are sequences of at most one member.
LEMMA SinglesFacts ==
  ASSUME NEW X, NEW seq \in Seq(X), NEW set
  PROVE  /\ Singles(seq, set) \in Seq(Seq(X)) /\ Len(Singles(seq, set)) = Len(seq)
         /\ Len(seq) \in Nat
         /\ \A i \in 1 .. Len(seq) :
              /\ seq[i] \in X
              /\ seq[i] \in set => Len(Singles(seq, set)[i]) = 1 /\ Singles(seq, set)[i][1] = seq[i]
              /\ seq[i] \notin set => Len(Singles(seq, set)[i]) = 0
         /\ Those(seq, set) = FlattenSeq(Singles(seq, set))
<1>1. Len(seq) \in Nat /\ \A i \in 1 .. Len(seq) : seq[i] \in X
  BY ElementOfSeq, LenProperties
<1>2. \A x \in X : <<x>> \in Seq(X) /\ Len(<<x>>) = 1 /\ <<x>>[1] = x
  OBVIOUS
<1>3. <<>> \in Seq(X) /\ Len(<<>>) = 0
  BY EmptySeq
<1> DEFINE s == Singles(seq, set)
<1>4. s \in [1 .. Len(seq) -> Seq(X)]
  BY <1>1, <1>2, <1>3 DEF Singles
<1>5. s \in Seq(Seq(X)) /\ Len(s) = Len(seq)
  BY <1>1, <1>4
<1>6. \A i \in 1 .. Len(seq) : s[i] = IF seq[i] \in set THEN <<seq[i]>> ELSE <<>>
  BY DEF Singles
<1> QED
  BY <1>1, <1>2, <1>3, <1>5, <1>6 DEF Those, Singles

\* Those yields them all.
LEMMA ThoseMembers ==
  ASSUME NEW X, NEW seq \in Seq(X), NEW set
  PROVE  Those(seq, set) \in Seq(X) /\ Range(Those(seq, set)) = Range(seq) \cap set
<1> DEFINE s == Singles(seq, set)
<1>1. /\ s \in Seq(Seq(X)) /\ Len(s) = Len(seq) /\ Len(seq) \in Nat
      /\ \A i \in 1 .. Len(seq) :
           /\ s[i] \in Seq(X)
           /\ seq[i] \in set => Len(s[i]) = 1 /\ s[i][1] = seq[i]
           /\ seq[i] \notin set => Len(s[i]) = 0
      /\ Those(seq, set) = FlattenSeq(s)
  BY SinglesFacts, ElementOfSeq
<1> HIDE DEF s
<1>2. \A i \in 1 .. Len(seq) : Range(s[i]) = IF seq[i] \in set THEN {seq[i]} ELSE {}
  <2> SUFFICES ASSUME NEW i \in 1 .. Len(seq)
               PROVE  Range(s[i]) = IF seq[i] \in set THEN {seq[i]} ELSE {}
    OBVIOUS
  <2>1. DOMAIN s[i] = 1 .. Len(s[i])
    BY <1>1, LenProperties
  <2>2. 1 .. 1 = {1} /\ 1 .. 0 = {}
    OBVIOUS
  <2> QED
    BY <1>1, <2>1, <2>2 DEF Range
<1>3. Range(seq) = {seq[i] : i \in 1 .. Len(seq)}
  BY LenProperties DEF Range
<1>4. UNION {Range(s[i]) : i \in 1 .. Len(seq)} = Range(seq) \cap set
  BY <1>2, <1>3
<1> QED
  BY <1>1, <1>4, FlattenMembers

---------------------------------------------------------------------------------
(* Texts: what joining the lines yields.                                              *)

Acc == [lines : Seq(Lines), pending : Lines \cup {NoLine}]
NoneJoined == [lines |-> <<>>, pending |-> NoLine]

\* g[n] is what the first n lines of a text give.
Joins(text, g) ==
  /\ g \in [0 .. Len(text) -> Acc] /\ g[0] = NoneJoined
  /\ \A n \in 0 .. Len(text) - 1 : g[n + 1] = Joining(g[n], text[n + 1])

JoinedAll(acc) == IF acc.pending = NoLine THEN acc.lines ELSE Append(acc.lines, acc.pending)

\* A line is not NoLine.
LEMMA LineFacts == NoLine \notin Lines /\ NoneJoined \in Acc /\ NoFile \in FileSpec
<1>1. <<>> \in Seq(Lines)
  BY EmptySeq
<1>2. \A line \in Lines : line.key # "none"
  BY DEF Lines, Keys
<1> QED
  BY <1>1, <1>2 DEF NoLine, NoneJoined, Acc, FileSpec

\* A line that another continues, field by field.
LEMMA Continued ==
  ASSUME NEW p \in Lines, NEW x \in SUBSET Urls
  PROVE  [p EXCEPT !.urls = @ \cup x, !.file = NoFile] =
           [key |-> p.key, more |-> p.more, urls |-> p.urls \cup x, file |-> NoFile]
<1> DEFINE q == [p EXCEPT !.urls = @ \cup x, !.file = NoFile]
<1>1. q \in Lines
  BY LineFacts DEF Lines
<1>2. q.key = p.key /\ q.more = p.more /\ q.urls = p.urls \cup x /\ q.file = NoFile
  BY DEF Lines
<1> HIDE DEF q
<1>3. q = [key |-> q.key, more |-> q.more, urls |-> q.urls, file |-> q.file]
  BY <1>1 DEF Lines
<1> QED
  BY <1>2, <1>3 DEF q

\* Joining one more line.
LEMMA JoiningLine ==
  ASSUME NEW acc \in Acc, NEW line \in Lines
  PROVE  LET last == IF acc.pending = NoLine THEN line
                     ELSE [key |-> acc.pending.key, more |-> acc.pending.more,
                           urls |-> acc.pending.urls \cup line.urls, file |-> NoFile]
         IN /\ Joining(acc, line) \in Acc /\ last \in Lines
            /\ line.more => Joining(acc, line) = [lines |-> acc.lines, pending |-> last]
            /\ ~line.more =>
                 Joining(acc, line) = [lines |-> Append(acc.lines, last), pending |-> NoLine]
<1> DEFINE last == IF acc.pending = NoLine THEN line
                   ELSE [key |-> acc.pending.key, more |-> acc.pending.more,
                         urls |-> acc.pending.urls \cup line.urls, file |-> NoFile]
           line2 == IF acc.pending = NoLine THEN line
                    ELSE [acc.pending EXCEPT !.urls = @ \cup line.urls, !.file = NoFile]
<1>1. acc.lines \in Seq(Lines) /\ (acc.pending # NoLine => acc.pending \in Lines)
  BY DEF Acc
<1>2. last \in Lines
  BY <1>1, LineFacts DEF Lines
<1>3. line2 = last
  <2>1. CASE acc.pending = NoLine
    BY <2>1
  <2>2. CASE acc.pending # NoLine
    <3>1. acc.pending \in Lines /\ line.urls \in SUBSET Urls
      BY <1>1, <2>2 DEF Lines
    <3> QED
      BY <2>2, <3>1, Continued
  <2> QED
    BY <2>1, <2>2
<1>4. Joining(acc, line) = IF line.more THEN [lines |-> acc.lines, pending |-> line2]
                           ELSE [lines |-> Append(acc.lines, line2), pending |-> NoLine]
  BY DEF Joining
<1> HIDE DEF last, line2
<1>5. Append(acc.lines, last) \in Seq(Lines)
  BY <1>1, <1>2, AppendProperties
<1>6. Joining(acc, line) \in Acc
  BY <1>1, <1>2, <1>3, <1>4, <1>5 DEF Acc
<1> QED
  BY <1>2, <1>3, <1>4, <1>6 DEF last

\* A text's lines can be joined one by one, and this is what joining it yields.
LEMMA JoinExists ==
  ASSUME NEW text \in Seq(Lines)
  PROVE  \E g : Joins(text, g) /\ join_systemd_continuations(text) = JoinedAll(g[Len(text)])
<1>1. Len(text) \in Nat /\ \A i \in 1 .. Len(text) : text[i] \in Lines
  BY ElementOfSeq, LenProperties
<1> DEFINE step == [i \in 1 .. Len(text) |-> [acc \in Acc |-> Joining(acc, text[i])]]
<1>2. step \in [1 .. Len(text) -> [Acc -> Acc]]
  <2>1. \A i \in 1 .. Len(text) : \A acc \in Acc : Joining(acc, text[i]) \in Acc
    BY <1>1, JoiningLine
  <2> QED
    BY <2>1
<1>3. PICK h : Recurs(Len(text), Acc, NoneJoined, step, h)
  <2> HIDE DEF step
  <2> QED
    BY <1>1, <1>2, LineFacts, Recursion
<1> DEFINE F(g) == [n \in 0 .. Len(text) |->
                      IF n = 0 THEN NoneJoined ELSE Joining(g[n - 1], text[n])]
<1>4. h = F(h)
  <2>1. h \in [0 .. Len(text) -> Acc] /\ h[0] = NoneJoined
        /\ \A i \in 1 .. Len(text) : h[i] = step[i][h[i - 1]]
    BY <1>3 DEF Recurs
  <2>2. ASSUME NEW n \in 0 .. Len(text) PROVE h[n] = F(h)[n]
    <3>1. CASE n = 0
      BY <2>1, <3>1
    <3>2. CASE n # 0
      <4>1. n \in 1 .. Len(text) /\ n - 1 \in 0 .. Len(text)
        BY <1>1, <3>2
      <4>2. h[n] = step[n][h[n - 1]] /\ h[n - 1] \in Acc
        BY <2>1, <4>1
      <4>3. step[n][h[n - 1]] = Joining(h[n - 1], text[n])
        BY <4>1, <4>2
      <4> QED
        BY <3>2, <4>2, <4>3
    <3> QED
      BY <3>1, <3>2
  <2> QED
    BY <2>1, <2>2
<1> DEFINE g == CHOOSE g : g = F(g)
<1>5. g = F(g)
  BY <1>4
<1>6. join_systemd_continuations(text) = JoinedAll(g[Len(text)])
  BY DEF join_systemd_continuations, JoinedAll, NoneJoined
<1> HIDE DEF g
<1>7. \A n \in 0 .. Len(text) : g[n] = IF n = 0 THEN NoneJoined ELSE Joining(g[n - 1], text[n])
  <2>1. \A n \in 0 .. Len(text) : F(g)[n] = IF n = 0 THEN NoneJoined ELSE Joining(g[n - 1], text[n])
    OBVIOUS
  <2> HIDE DEF F
  <2> QED
    BY <1>5, <2>1
<1>8. g[0] = NoneJoined
  BY <1>1, <1>7
<1>9. ASSUME NEW n \in 0 .. Len(text) - 1 PROVE g[n + 1] = Joining(g[n], text[n + 1])
  <2>1. n + 1 \in 0 .. Len(text) /\ n + 1 # 0 /\ (n + 1) - 1 = n
    BY <1>1
  <2> QED
    BY <1>7, <2>1
<1> DEFINE S == {n \in Nat : n <= Len(text) => g[n] \in Acc}
<1>10. 0 \in S
  BY <1>8, LineFacts
<1>11. ASSUME NEW n \in S PROVE n + 1 \in S
  <2>1. CASE n + 1 <= Len(text)
    <3>1. n \in 0 .. Len(text) - 1 /\ g[n] \in Acc /\ text[n + 1] \in Lines
      BY <1>1, <2>1
    <3>2. g[n + 1] \in Acc
      BY <1>9, <3>1, JoiningLine
    <3> QED
      BY <3>2
  <2>2. CASE ~(n + 1 <= Len(text))
    BY <2>2
  <2> QED
    BY <2>1, <2>2
<1>12. S = Nat
  <2>1. S \in SUBSET Nat
    OBVIOUS
  <2> HIDE DEF S
  <2> QED
    BY <1>10, <1>11, <2>1, SetInduction
<1>13. \A n \in 0 .. Len(text) : g[n] \in Acc
  BY <1>1, <1>12
<1>14. g \in [0 .. Len(text) -> Acc]
  <2>1. g = [n \in 0 .. Len(text) |-> g[n]]
    BY <1>5
  <2> HIDE DEF F
  <2> QED
    BY <1>13, <2>1
<1> QED
  BY <1>6, <1>8, <1>9, <1>14 DEF Joins

\* Where a line begins.
IsStart(text, i, s) ==
  /\ s \in 1 .. i
  /\ s = 1 \/ ~text[s - 1].more
  /\ \A k \in s .. i - 1 : text[k].more

\* A line that continues another begins where that one does.
LEMMA StartFacts ==
  ASSUME NEW text, NEW n \in Nat
  PROVE  \A i \in 1 .. n :
           /\ StartOf(text, i) \in 1 .. i
           /\ StartOf(text, i) = IF i = 1 \/ ~text[i - 1].more THEN i ELSE StartOf(text, i - 1)
<1>1. ASSUME NEW i \in Nat, NEW s, NEW t, IsStart(text, i, s), IsStart(text, i, t)
      PROVE  ~(s < t)
  <2> SUFFICES ASSUME s < t PROVE FALSE
    OBVIOUS
  <2>1. t # 1 /\ t - 1 \in s .. i - 1 /\ ~text[t - 1].more
    BY <1>1 DEF IsStart
  <2> QED
    BY <1>1, <2>1 DEF IsStart
<1>2. \A i \in Nat : i # 0 /\ (i = 1 \/ ~text[i - 1].more) => IsStart(text, i, i)
  <2> SUFFICES ASSUME NEW i \in Nat, i # 0, i = 1 \/ ~text[i - 1].more
               PROVE  IsStart(text, i, i)
    OBVIOUS
  <2>1. i \in 1 .. i /\ i .. i - 1 = {}
    OBVIOUS
  <2> QED
    BY <2>1 DEF IsStart
<1>3. ASSUME NEW i \in Nat, NEW s, i # 0, text[i].more, IsStart(text, i, s)
      PROVE  IsStart(text, i + 1, s)
  <2>1. s \in 1 .. i /\ s \in 1 .. i + 1
    BY <1>3 DEF IsStart
  <2>2. \A k \in s .. (i + 1) - 1 : k \in s .. i - 1 \/ k = i
    BY <2>1
  <2> QED
    BY <1>3, <2>1, <2>2 DEF IsStart
<1> DEFINE S == {i \in Nat : \E s : IsStart(text, i + 1, s)}
<1>4. S = Nat
  <2>1. 0 \in S
    BY <1>2
  <2>2. ASSUME NEW i \in S PROVE i + 1 \in S
    <3>1. i \in Nat /\ i + 1 \in Nat /\ i + 1 # 0 /\ i + 2 \in Nat /\ i + 2 # 0
          /\ (i + 1) + 1 = i + 2 /\ (i + 2) - 1 = i + 1
      OBVIOUS
    <3>2. PICK s : IsStart(text, i + 1, s)
      OBVIOUS
    <3>3. CASE text[i + 1].more
      BY <1>3, <3>1, <3>2, <3>3
    <3>4. CASE ~text[i + 1].more
      BY <1>2, <3>1, <3>4
    <3> QED
      BY <3>3, <3>4
  <2>3. S \in SUBSET Nat
    OBVIOUS
  <2> HIDE DEF S
  <2> QED
    BY <2>1, <2>2, <2>3, SetInduction
<1>5. ASSUME NEW i \in Nat, i # 0 PROVE IsStart(text, i, StartOf(text, i))
  <2>1. i - 1 \in Nat /\ (i - 1) + 1 = i
    BY <1>5
  <2>2. \E s : IsStart(text, i, s)
    BY <1>4, <2>1
  <2>3. \E s \in 1 .. i : (s = 1 \/ ~text[s - 1].more) /\ \A k \in s .. i - 1 : text[k].more
    BY <2>2 DEF IsStart
  <2> QED
    BY <2>3 DEF StartOf, IsStart
<1>6. ASSUME NEW i \in Nat, i # 0, NEW s, IsStart(text, i, s) PROVE StartOf(text, i) = s
  <2>1. IsStart(text, i, StartOf(text, i))
    BY <1>5, <1>6
  <2>2. ~(s < StartOf(text, i)) /\ ~(StartOf(text, i) < s)
    BY <1>1, <1>6, <2>1
  <2>3. s \in 1 .. i /\ StartOf(text, i) \in 1 .. i
    BY <1>6, <2>1 DEF IsStart
  <2> QED
    BY <2>2, <2>3
<1> SUFFICES ASSUME NEW i \in 1 .. n
             PROVE  /\ StartOf(text, i) \in 1 .. i
                    /\ StartOf(text, i) = IF i = 1 \/ ~text[i - 1].more THEN i
                                          ELSE StartOf(text, i - 1)
  OBVIOUS
<1>7. i \in Nat /\ i # 0
  OBVIOUS
<1>8. StartOf(text, i) \in 1 .. i
  BY <1>5, <1>7 DEF IsStart
<1>9. CASE i = 1 \/ ~text[i - 1].more
  BY <1>2, <1>6, <1>7, <1>8, <1>9
<1>10. CASE ~(i = 1 \/ ~text[i - 1].more)
  <2>1. i - 1 \in Nat /\ i - 1 # 0 /\ (i - 1) + 1 = i
    BY <1>7, <1>10
  <2>2. IsStart(text, i, StartOf(text, i - 1))
    BY <1>3, <1>5, <1>10, <2>1
  <2> QED
    BY <1>6, <1>7, <1>8, <1>10, <2>2
<1> QED
  BY <1>9, <1>10

\* What a sequence has, with one more member.
LEMMA RangeAppend ==
  ASSUME NEW X, NEW seq \in Seq(X), NEW x \in X
  PROVE  Append(seq, x) \in Seq(X) /\ Range(Append(seq, x)) = Range(seq) \cup {x}
<1>1. /\ Append(seq, x) \in Seq(X) /\ Len(Append(seq, x)) = Len(seq) + 1
      /\ Len(seq) \in Nat
      /\ \A i \in 1 .. Len(seq) : Append(seq, x)[i] = seq[i]
      /\ Append(seq, x)[Len(seq) + 1] = x
  BY AppendProperties, LenProperties
<1>2. Range(seq) = {seq[i] : i \in 1 .. Len(seq)}
  BY LenProperties DEF Range
<1>3. Range(Append(seq, x)) = {Append(seq, x)[i] : i \in 1 .. Len(seq) + 1}
  BY <1>1, LenProperties DEF Range
<1>4. \A i \in 1 .. Len(seq) + 1 : i \in 1 .. Len(seq) \/ i = Len(seq) + 1
  BY <1>1
<1>5. Len(seq) + 1 \in 1 .. Len(seq) + 1 /\ \A i \in 1 .. Len(seq) : i \in 1 .. Len(seq) + 1
  BY <1>1
<1> HIDE DEF Range
<1>6. \A y : y \in Range(Append(seq, x)) <=> y \in Range(seq) \cup {x}
  BY <1>1, <1>2, <1>3, <1>4, <1>5
<1> QED
  BY <1>1, <1>6

Begins(text, i) == i = 1 \/ ~text[i - 1].more

\* The URLs of lines that are no comments.
LiveOf(line) == IF line.key # "#" THEN line.urls ELSE {}
LiveOfAll(lines) == UNION {LiveOf(line) : line \in lines}
PendingLive(acc) == IF acc.pending = NoLine THEN {} ELSE LiveOf(acc.pending)
LiveAt(text, i) == IF text[StartOf(text, i)].key # "#" THEN text[i].urls ELSE {}

Naming(lines) == {line \in lines : line.file # NoFile}
Ends(text, n) == {text[i] : i \in {j \in 1 .. n : Begins(text, j) /\ ~text[j].more}}

\* What the first n lines give: their URLs, the files that whole lines name, and a line
\* that waits for its continuation.
JoinInv(text, n, acc) ==
  /\ acc.pending = NoLine <=> n = 0 \/ ~text[n].more
  /\ acc.pending # NoLine =>
       /\ acc.pending.key = text[StartOf(text, n)].key
       /\ IF Begins(text, n) THEN acc.pending = text[n] ELSE acc.pending.file = NoFile
  /\ LiveOfAll(Range(acc.lines)) \cup PendingLive(acc) = UNION {LiveAt(text, i) : i \in 1 .. n}
  /\ Naming(Range(acc.lines)) = Naming(Ends(text, n))

\* One more line.
LEMMA JoinInvStep ==
  ASSUME NEW text \in Seq(Lines), NEW n \in 0 .. Len(text) - 1, NEW acc \in Acc,
         JoinInv(text, n, acc)
  PROVE  JoinInv(text, n + 1, Joining(acc, text[n + 1]))
<1> DEFINE line == text[n + 1]
           next == Joining(acc, line)
           last == IF acc.pending = NoLine THEN line
                   ELSE [key |-> acc.pending.key, more |-> acc.pending.more,
                         urls |-> acc.pending.urls \cup line.urls, file |-> NoFile]
<1>0. /\ Len(text) \in Nat /\ n \in Nat /\ n + 1 \in Nat /\ n + 1 # 0 /\ (n + 1) - 1 = n
      /\ n + 1 \in 1 .. n + 1 /\ n + 1 \in 1 .. Len(text)
      /\ n + 1 = 1 <=> n = 0
      /\ \A i : i \in 1 .. n + 1 <=> i \in 1 .. n \/ i = n + 1
  BY LenProperties
<1>1. line \in Lines /\ acc.lines \in Seq(Lines)
      /\ (acc.pending # NoLine => acc.pending \in Lines)
  BY <1>0, ElementOfSeq DEF Acc
<1>2. /\ last \in Lines
      /\ line.more => next = [lines |-> acc.lines, pending |-> last]
      /\ ~line.more => next = [lines |-> Append(acc.lines, last), pending |-> NoLine]
  BY <1>1, JoiningLine
<1> HIDE DEF line, next
<1>3. line.more \in BOOLEAN /\ last # NoLine
  BY <1>1, <1>2, LineFacts DEF Lines
<1>4. Begins(text, n + 1) <=> acc.pending = NoLine
  BY <1>0 DEF Begins, JoinInv
<1>5. StartOf(text, n + 1) = IF acc.pending = NoLine THEN n + 1 ELSE StartOf(text, n)
  BY <1>0, <1>4, StartFacts DEF Begins
<1>6. last.key = text[StartOf(text, n + 1)].key
  BY <1>5 DEF JoinInv, line
<1>7. LiveOf(last) = PendingLive(acc) \cup LiveAt(text, n + 1)
  BY <1>5, <1>6 DEF LiveOf, PendingLive, LiveAt, JoinInv, line
<1>8. UNION {LiveAt(text, i) : i \in 1 .. n + 1} =
        (UNION {LiveAt(text, i) : i \in 1 .. n}) \cup LiveAt(text, n + 1)
  BY <1>0
<1>9. Ends(text, n + 1) =
        Ends(text, n) \cup (IF acc.pending = NoLine /\ ~line.more THEN {line} ELSE {})
  BY <1>0, <1>4 DEF Ends, line
<1>10. IF Begins(text, n + 1) THEN last = line ELSE last.file = NoFile
  BY <1>4
<1> HIDE DEF last
<1>11. CASE line.more
  <2>1. next.lines = acc.lines /\ next.pending = last
    BY <1>2, <1>11
  <2>2. PendingLive(next) = LiveOf(last)
    BY <1>3, <2>1 DEF PendingLive
  <2>3. LiveOfAll(Range(next.lines)) \cup PendingLive(next) =
          UNION {LiveAt(text, i) : i \in 1 .. n + 1}
    BY <1>7, <1>8, <2>1, <2>2 DEF JoinInv
  <2>4. Naming(Range(next.lines)) = Naming(Ends(text, n + 1))
    BY <1>9, <1>11, <2>1 DEF JoinInv
  <2> QED
    BY <1>0, <1>3, <1>6, <1>10, <1>11, <2>1, <2>3, <2>4 DEF JoinInv, line, next
<1>12. CASE ~line.more
  <2>1. next.lines = Append(acc.lines, last) /\ next.pending = NoLine
    BY <1>2, <1>12
  <2>2. Range(next.lines) = Range(acc.lines) \cup {last}
    BY <1>1, <1>2, <2>1, RangeAppend
  <2>3. LiveOfAll(Range(next.lines)) = LiveOfAll(Range(acc.lines)) \cup LiveOf(last)
    BY <2>2 DEF LiveOfAll
  <2>4. PendingLive(next) = {}
    BY <2>1 DEF PendingLive
  <2>5. LiveOfAll(Range(next.lines)) \cup PendingLive(next) =
          UNION {LiveAt(text, i) : i \in 1 .. n + 1}
    BY <1>7, <1>8, <2>3, <2>4 DEF JoinInv
  <2>6. Naming(Range(next.lines)) = Naming(Range(acc.lines)) \cup Naming({last})
    BY <2>2 DEF Naming
  <2>7. Naming(Ends(text, n + 1)) =
          Naming(Ends(text, n)) \cup (IF acc.pending = NoLine THEN Naming({line}) ELSE {})
    BY <1>9, <1>12 DEF Naming
  <2>8. Naming({last}) = IF acc.pending = NoLine THEN Naming({line}) ELSE {}
    BY <1>4, <1>10 DEF Naming
  <2>9. Naming(Range(next.lines)) = Naming(Ends(text, n + 1))
    BY <2>6, <2>7, <2>8 DEF JoinInv
  <2> QED
    BY <1>0, <1>12, <2>1, <2>5, <2>9 DEF JoinInv, line, next
<1> QED
  BY <1>11, <1>12

\* The lines that stand alone, apart from a backslash that ends the text.
Alone(text) ==
  {text[i] : i \in {j \in DOMAIN text : Begins(text, j) /\ (text[j].more => j = Len(text))}}

\* A text's URLs and the files it names, read from its joined lines, are those of its
\* own lines.
LEMMA TextFacts ==
  ASSUME NEW text \in Seq(Lines)
  PROVE  /\ join_systemd_continuations(text) \in Seq(Lines)
         /\ extract_urls_from_unit(text) = UNION {text[i].urls : i \in Live(text)}
         /\ Naming(Range(join_systemd_continuations(text))) = Naming(Alone(text))
<1>1. /\ Len(text) \in Nat /\ DOMAIN text = 1 .. Len(text)
      /\ \A i \in 1 .. Len(text) : text[i].more \in BOOLEAN
  <2>1. Len(text) \in Nat /\ DOMAIN text = 1 .. Len(text)
    BY LenProperties
  <2>2. \A i \in 1 .. Len(text) : text[i] \in Lines
    BY ElementOfSeq
  <2> QED
    BY <2>1, <2>2 DEF Lines
<1>2. PICK g : Joins(text, g) /\ join_systemd_continuations(text) = JoinedAll(g[Len(text)])
  BY JoinExists
<1> DEFINE S == {n \in Nat : n <= Len(text) => JoinInv(text, n, g[n])}
           join == join_systemd_continuations(text)
<1>3. 0 \in S
  <2>1. g[0] = [lines |-> <<>>, pending |-> NoLine] /\ 1 .. 0 = {}
    BY <1>2 DEF Joins, NoneJoined
  <2>2. Range(<<>>) = {}
    BY EmptySeq DEF Range
  <2>3. LiveOfAll(Range(g[0].lines)) = {} /\ PendingLive(g[0]) = {}
        /\ Naming(Range(g[0].lines)) = {} /\ Naming(Ends(text, 0)) = {}
    BY <2>1, <2>2 DEF LiveOfAll, PendingLive, Naming, Ends
  <2>4. g[0].pending = NoLine /\ UNION {LiveAt(text, i) : i \in 1 .. 0} = {}
    BY <2>1
  <2>5. JoinInv(text, 0, g[0])
    BY <2>3, <2>4 DEF JoinInv
  <2> QED
    BY <2>5
<1>4. ASSUME NEW n \in S PROVE n + 1 \in S
  <2>1. CASE n + 1 <= Len(text)
    <3>1. n \in 0 .. Len(text) - 1 /\ n \in 0 .. Len(text) /\ JoinInv(text, n, g[n])
      BY <1>1, <2>1
    <3>2. g[n] \in Acc /\ g[n + 1] = Joining(g[n], text[n + 1])
      BY <1>2, <3>1 DEF Joins
    <3> QED
      BY <3>1, <3>2, JoinInvStep
  <2>2. CASE ~(n + 1 <= Len(text))
    BY <2>2
  <2> QED
    BY <2>1, <2>2
<1>5. JoinInv(text, Len(text), g[Len(text)])
  <2>1. S \in SUBSET Nat
    OBVIOUS
  <2> HIDE DEF S
  <2>2. S = Nat
    BY <1>3, <1>4, <2>1, SetInduction
  <2> QED
    BY <1>1, <2>2 DEF S
<1> DEFINE acc == g[Len(text)]
<1>6. acc \in Acc /\ join = JoinedAll(acc)
  BY <1>1, <1>2 DEF Joins
<1> HIDE DEF join, acc
<1>7. /\ join \in Seq(Lines)
      /\ Range(join) = Range(acc.lines) \cup (IF acc.pending = NoLine THEN {} ELSE {acc.pending})
  <2>1. acc.lines \in Seq(Lines) /\ (acc.pending # NoLine => acc.pending \in Lines)
    BY <1>6 DEF Acc
  <2> QED
    BY <1>6, <2>1, RangeAppend DEF JoinedAll
<1>8. extract_urls_from_unit(text) = UNION {text[i].urls : i \in Live(text)}
  <2>1. extract_urls_from_unit(text) = LiveOfAll(Range(join))
    BY DEF extract_urls_from_unit, LiveOfAll, LiveOf, join
  <2>2. LiveOfAll(Range(join)) = LiveOfAll(Range(acc.lines)) \cup PendingLive(acc)
    BY <1>7 DEF LiveOfAll, PendingLive
  <2>3. LiveOfAll(Range(join)) = UNION {LiveAt(text, i) : i \in 1 .. Len(text)}
    BY <1>5, <2>2 DEF JoinInv, acc
  <2>4. UNION {LiveAt(text, i) : i \in 1 .. Len(text)} = UNION {text[i].urls : i \in Live(text)}
    BY <1>1 DEF LiveAt, Live
  <2> QED
    BY <2>1, <2>3, <2>4
<1>9. Naming(Range(join)) = Naming(Alone(text))
  <2> DEFINE n == Len(text)
  <2>1. Naming(Range(join)) = Naming(Range(acc.lines))
           \cup (IF acc.pending = NoLine THEN {} ELSE Naming({acc.pending}))
    BY <1>7 DEF Naming
  <2>2. Naming(Range(acc.lines)) = Naming(Ends(text, n))
    BY <1>5 DEF JoinInv, acc
  <2>3. acc.pending # NoLine =>
          /\ n \in DOMAIN text /\ text[n].more
          /\ Naming({acc.pending}) = IF Begins(text, n) THEN Naming({text[n]}) ELSE {}
    BY <1>1, <1>5 DEF JoinInv, acc, Naming
  <2>4. acc.pending = NoLine => n = 0 \/ ~text[n].more
    BY <1>5 DEF JoinInv, acc
  <2>5. Alone(text) = Ends(text, n)
          \cup (IF acc.pending # NoLine /\ Begins(text, n) THEN {text[n]} ELSE {})
    <3>1. CASE acc.pending = NoLine
      BY <1>1, <2>4, <3>1 DEF Alone, Ends
    <3>2. CASE acc.pending # NoLine
      BY <1>1, <2>3, <3>2 DEF Alone, Ends
    <3> QED
      BY <3>1, <3>2
  <2>6. Naming(Alone(text)) = Naming(Ends(text, n))
          \cup (IF acc.pending # NoLine /\ Begins(text, n) THEN Naming({text[n]}) ELSE {})
    BY <2>5 DEF Naming
  <2> QED
    BY <2>1, <2>2, <2>3, <2>6
<1> QED
  BY <1>7, <1>8, <1>9 DEF join

---------------------------------------------------------------------------------
(* Files: which a unit names, and what they say.                                      *)

\* SetToSeq lists a finite set.
LEMMA Listing ==
  ASSUME NEW S, IsFiniteSet(S)
  PROVE  SetToSeq(S) \in Seq(S) /\ Range(SetToSeq(S)) = S
<1> DEFINE n == Cardinality(S)
<1>1. n \in Nat /\ \E f \in [1 .. n -> S] : IsInjective(f)
  <2>1. n \in Nat /\ \E f : f \in Bijection(1 .. n, S)
    BY FS_CardinalityType DEF ExistsBijection
  <2> QED
    BY <2>1 DEF Bijection, Injection
<1>2. SetToSeq(S) \in [1 .. n -> S] /\ IsInjective(SetToSeq(S))
  BY <1>1 DEF SetToSeq
<1>3. SetToSeq(S) \in Surjection(1 .. n, S)
  <2>1. SetToSeq(S) \in Injection(1 .. n, S)
    BY <1>2 DEF Injection
  <2>2. Cardinality(1 .. n) = n
    BY <1>1, FS_Interval
  <2> QED
    BY <2>1, <2>2, FS_Injection
<1> HIDE DEF n
<1>4. SetToSeq(S) \in Seq(S)
  BY <1>1, <1>2
<1> QED
  BY <1>2, <1>3, <1>4 DEF Surjection, Range

\* The text of a unit.
LEMMA UnitText ==
  ASSUME tree \in Trees, NEW path \in DOMAIN tree.unit
  PROVE  /\ path \in Paths
         /\ tree.unit[path].text \in Seq(Lines)
         /\ tree.unit[path].state \in {"text", "unreadable", "undecodable"}
<1>1. tree.unit[path] \in Contents /\ DOMAIN tree.unit \subseteq Paths
  BY CatalogAssumption DEF CatalogAssumption
<1> QED
  BY <1>1 DEF Contents

\* What urls_from_env_file reads is what the file's lines assign.
LEMMA AssignedFacts ==
  ASSUME tree \in Trees, NEW file
  PROVE  urls_from_env_file(file) = Assigned(file) /\ Assigned(file) \subseteq Urls
<1>1. CASE ~(file \in DOMAIN tree.env /\ tree.env[file].state = "text")
  BY <1>1 DEF urls_from_env_file, Assigned
<1>2. CASE file \in DOMAIN tree.env /\ tree.env[file].state = "text"
  <2> DEFINE text == tree.env[file].text
  <2>1. text \in Seq(Lines)
    <3>1. tree.env[file] \in Contents
      BY <1>2, CatalogAssumption DEF CatalogAssumption
    <3> QED
      BY <3>1 DEF Contents
  <2>2. /\ urls_from_env_file(file) =
             UNION {line.urls : line \in {l \in Range(text) : l.key = "assign"}}
        /\ Assigned(file) =
             UNION {text[i].urls : i \in {j \in DOMAIN text : text[j].key = "assign"}}
    BY <1>2 DEF urls_from_env_file, Assigned
  <2> HIDE DEF text
  <2>3. DOMAIN text = 1 .. Len(text) /\ \A i \in DOMAIN text : text[i] \in Lines
    BY <2>1, ElementOfSeq, LenProperties
  <2>4. \A i \in DOMAIN text : text[i].urls \subseteq Urls
    BY <2>3 DEF Lines
  <2> QED
    BY <2>2, <2>4 DEF Range
<1> QED
  BY <1>1, <1>2

\* The lines that name environment files.
LEMMA EnvironmentLines ==
  ASSUME tree \in Trees, NEW path \in DOMAIN tree.unit, NEW inst \in BOOLEAN
  PROVE  LET text == tree.unit[path].text
             named == {text[i] : i \in {j \in DOMAIN text : Names1(text, j, inst)}}
         IN /\ EnvironmentFiles(path, inst) \in Seq(Lines)
            /\ Range(EnvironmentFiles(path, inst)) = named
            /\ \A i \in DOMAIN text : text[i] \in Lines
<1> DEFINE text == tree.unit[path].text
           join == join_systemd_continuations(text)
           named == {text[i] : i \in {j \in DOMAIN text : Names1(text, j, inst)}}
           such == {l \in Range(join) : /\ l.key = "EnvironmentFile" /\ l.file # NoFile
                                        /\ l.file.inst = inst}
<1>1. text \in Seq(Lines)
  BY UnitText
<1>2. EnvironmentFiles(path, inst) = Those(join, such)
  BY DEF EnvironmentFiles
<1> HIDE DEF text
<1>3. join \in Seq(Lines) /\ Naming(Range(join)) = Naming(Alone(text))
  BY <1>1, TextFacts
<1> HIDE DEF join
<1>4. such = {l \in Naming(Range(join)) : l.key = "EnvironmentFile" /\ l.file.inst = inst}
  BY DEF Naming
<1>5. such = named
  <2>1. DOMAIN text = 1 .. Len(text) /\ Len(text) \in Nat
    BY <1>1, LenProperties
  <2>2. \A i \in DOMAIN text : Begins(text, i) <=> (i > 1 => ~text[i - 1].more)
    BY <2>1 DEF Begins
  <2> QED
    BY <1>3, <1>4, <2>2 DEF Naming, Alone, Names1
<1>6. EnvironmentFiles(path, inst) \in Seq(Lines) /\ Range(EnvironmentFiles(path, inst)) = such
  <2>1. such \subseteq Range(join)
    OBVIOUS
  <2> HIDE DEF such
  <2>2. /\ Those(join, such) \in Seq(Lines)
        /\ Range(Those(join, such)) = Range(join) \cap such
    BY <1>3, ThoseMembers
  <2> QED
    BY <1>2, <2>1, <2>2
<1>7. \A i \in DOMAIN text : text[i] \in Lines
  BY <1>1, ElementOfSeq, LenProperties
<1> QED
  BY <1>5, <1>6, <1>7 DEF text

\* Where the file is that a line names.
LEMMA PlaceFacts ==
  ASSUME NEW path, NEW line, NEW name
  PROVE  FileOf(path, line, name) = <<expand_home_specifier(line.file.place, path), name>>
BY DEF FileOf, expand_home_specifier, Owner

\* A set of URLs has one member or not.
LEMMA OneUrl ==
  ASSUME NEW urls \in SUBSET Urls
  PROVE  /\ Cardinality(urls) = 1 <=> \E url \in Urls : urls = {url}
         /\ \A url : urls = {url} => TheUrl(urls) = url
<1>1. IsFiniteSet(urls)
  BY CatalogAssumption, FS_Subset DEF CatalogAssumption
<1>2. Cardinality(urls) = 1 <=> \E url : urls = {url}
  BY <1>1, FS_Singleton
<1> QED
  BY <1>2 DEF TheUrl

\* The URLs of a unit and of its environment files, line by line.
LinesUrls(path) ==
  LET text == tree.unit[path].text IN
  UNION ({text[i].urls : i \in Live(text)}
           \cup {Assigned(FileOf(path, text[i], "plain")) :
                   i \in {j \in DOMAIN text : Names1(text, j, FALSE)}})

LEMMA UnitFacts ==
  ASSUME tree \in Trees, NEW path \in DOMAIN tree.unit
  PROVE  LET text == tree.unit[path].text
         IN /\ environment_file_paths(path) =
                 {FileOf(path, text[i], "plain") :
                    i \in {j \in DOMAIN text : Names1(text, j, FALSE)}}
            /\ UnitUrls(path) = LinesUrls(path) /\ UnitUrls(path) \subseteq Urls
<1> DEFINE text == tree.unit[path].text
           files == {FileOf(path, text[i], "plain") :
                       i \in {j \in DOMAIN text : Names1(text, j, FALSE)}}
<1>1. environment_file_paths(path) = files
  <2>1. Range(EnvironmentFiles(path, FALSE)) =
          {text[i] : i \in {j \in DOMAIN text : Names1(text, j, FALSE)}}
    BY EnvironmentLines
  <2>2. environment_file_paths(path) =
          {FileOf(path, l, "plain") : l \in Range(EnvironmentFiles(path, FALSE))}
    BY PlaceFacts DEF environment_file_paths
  <2> HIDE DEF text
  <2> QED
    BY <2>1, <2>2
<1>2. text \in Seq(Lines)
  BY UnitText
<1>3. extract_urls_from_unit(text) = UNION {text[i].urls : i \in Live(text)}
  <2> HIDE DEF text
  <2> QED
    BY <1>2, TextFacts
<1>4. UnitUrls(path) = extract_urls_from_unit(text) \cup UNION {Assigned(f) : f \in files}
  <2>1. UnitUrls(path) = extract_urls_from_unit(text) \cup
                           UNION {urls_from_env_file(f) : f \in files}
    BY <1>1 DEF UnitUrls
  <2> HIDE DEF text, files
  <2>2. UNION {urls_from_env_file(f) : f \in files} = UNION {Assigned(f) : f \in files}
    BY AssignedFacts
  <2> QED
    BY <2>1, <2>2
<1>5. UnitUrls(path) = LinesUrls(path)
  <2> DEFINE own == {text[i].urls : i \in Live(text)}
             env == {Assigned(FileOf(path, text[i], "plain")) :
                       i \in {j \in DOMAIN text : Names1(text, j, FALSE)}}
  <2>1. LinesUrls(path) = UNION (own \cup env)
    BY DEF LinesUrls
  <2>2. env = {Assigned(f) : f \in files}
    <3> HIDE DEF text
    <3> QED
      OBVIOUS
  <2>3. UnitUrls(path) = (UNION own) \cup (UNION env)
    BY <1>3, <1>4, <2>2
  <2> HIDE DEF own, env
  <2> QED
    BY <2>1, <2>3
<1>6. UnitUrls(path) \subseteq Urls
  <2>1. \A i \in DOMAIN text : text[i] \in Lines
    BY EnvironmentLines
  <2> HIDE DEF text, files
  <2>2. \A i \in Live(text) : text[i].urls \subseteq Urls
    BY <2>1 DEF Live, Lines
  <2>3. \A f \in files : Assigned(f) \subseteq Urls
    BY AssignedFacts
  <2> QED
    BY <1>3, <1>4, <2>2, <2>3
<1> QED
  BY <1>1, <1>5, <1>6

\* The environment files of a template's instances, line by line.
LinesInstances(path) ==
  LET text == tree.unit[path].text IN
  {f \in DOMAIN tree.env :
     /\ f[2] \in Instances
     /\ \E i \in DOMAIN text : Names1(text, i, TRUE) /\ f = FileOf(path, text[i], f[2])}

LEMMA InstanceFacts ==
  ASSUME tree \in Trees, NEW path \in DOMAIN tree.unit
  PROVE  /\ InstanceFiles(path) \in Seq(DOMAIN tree.env)
         /\ Range(InstanceFiles(path)) = LinesInstances(path)
<1> DEFINE text == tree.unit[path].text
           lines == EnvironmentFiles(path, TRUE)
           D == DOMAIN tree.env
           found(l) == {f \in D : /\ f[1] = expand_home_specifier(l.file.place, path)
                                  /\ f[2] \in Instances}
           lists == [i \in 1 .. Len(lines) |-> SetToSeq(found(lines[i]))]
<1>1. lines \in Seq(Lines)
      /\ Range(lines) = {text[i] : i \in {j \in DOMAIN text : Names1(text, j, TRUE)}}
  BY EnvironmentLines
<1>2. IsFiniteSet(D) /\ \A f \in D : f = <<f[1], f[2]>>
  BY CatalogAssumption DEF CatalogAssumption, EnvPaths
<1>3. InstanceFiles(path) = FlattenSeq(lists)
  BY DEF InstanceFiles
<1>4. \A l : SetToSeq(found(l)) \in Seq(D) /\ Range(SetToSeq(found(l))) = found(l)
  <2> SUFFICES ASSUME NEW l
               PROVE  SetToSeq(found(l)) \in Seq(D) /\ Range(SetToSeq(found(l))) = found(l)
    OBVIOUS
  <2>1. found(l) \subseteq D
    OBVIOUS
  <2> HIDE DEF found, D
  <2>2. IsFiniteSet(found(l))
    BY <1>2, <2>1, FS_Subset
  <2>3. SetToSeq(found(l)) \in Seq(found(l)) /\ Range(SetToSeq(found(l))) = found(l)
    BY <2>2, Listing
  <2> QED
    BY <2>1, <2>3
<1> HIDE DEF lines
<1>5. Len(lines) \in Nat /\ Range(lines) = {lines[i] : i \in 1 .. Len(lines)}
  BY <1>1, LenProperties DEF Range
<1>6. lists \in Seq(Seq(D)) /\ Len(lists) = Len(lines)
      /\ \A i \in 1 .. Len(lines) : Range(lists[i]) = found(lines[i])
  <2> HIDE DEF found, D
  <2>1. lists \in [1 .. Len(lines) -> Seq(D)]
    BY <1>4
  <2>2. \A i \in 1 .. Len(lines) : lists[i] = SetToSeq(found(lines[i]))
    OBVIOUS
  <2> HIDE DEF lists
  <2> QED
    BY <1>4, <1>5, <2>1, <2>2
<1> HIDE DEF lists
<1>7. FlattenSeq(lists) \in Seq(D)
      /\ Range(FlattenSeq(lists)) = UNION {Range(lists[i]) : i \in 1 .. Len(lists)}
  <2> HIDE DEF D
  <2> QED
    BY <1>6, FlattenMembers
<1>8. UNION {Range(lists[i]) : i \in 1 .. Len(lists)} = UNION {found(l) : l \in Range(lines)}
  <2> HIDE DEF found
  <2> QED
    BY <1>5, <1>6
<1>9. \A l : found(l) = {f \in D : f[2] \in Instances /\ f = FileOf(path, l, f[2])}
  <2> SUFFICES ASSUME NEW l, NEW f \in D
               PROVE  f[1] = expand_home_specifier(l.file.place, path) <=>
                        f = FileOf(path, l, f[2])
    OBVIOUS
  <2>1. FileOf(path, l, f[2]) = <<expand_home_specifier(l.file.place, path), f[2]>>
    BY PlaceFacts
  <2> QED
    BY <1>2, <2>1
<1>10. UNION {found(l) : l \in Range(lines)} = LinesInstances(path)
  <2>1. LinesInstances(path) =
          {f \in D : f[2] \in Instances
                     /\ \E i \in DOMAIN text : Names1(text, i, TRUE) /\ f = FileOf(path, text[i], f[2])}
    BY DEF LinesInstances
  <2> HIDE DEF text, D, found
  <2>2. \A f : f \in UNION {found(l) : l \in Range(lines)} <=>
                 \E i \in DOMAIN text : Names1(text, i, TRUE) /\ f \in found(text[i])
    BY <1>1
  <2>3. \A f, l : f \in found(l) <=> f \in D /\ f[2] \in Instances /\ f = FileOf(path, l, f[2])
    BY <1>9
  <2> HIDE DEF LinesInstances
  <2>4. \A f : f \in UNION {found(l) : l \in Range(lines)} <=> f \in LinesInstances(path)
    BY <2>1, <2>2, <2>3
  <2> QED
    BY <2>4
<1> QED
  BY <1>3, <1>7, <1>8, <1>10

---------------------------------------------------------------------------------
(* Paths: the targets of each, and whether it stops the load.                         *)

Channels == {name[1] : name \in Names} \cup Instances

Target == [unit : UnitNames, channel : Channels, host : Hosts,
           addresses : SUBSET Addresses, port : TargetPorts]

PortOf(url) ==
  IF url.port # NoPort THEN url.port ELSE IF url.scheme = "http" THEN 80 ELSE 443

BadUrl(url) ==
  \/ url.host = "" \/ url.port = BadPort
  \/ url.scheme \notin {"http", "https"} /\ url.port = NoPort

\* A URL is rejected, or makes a target.
LEMMA UrlFacts ==
  ASSUME NEW url \in Urls, NEW unit \in UnitNames, NEW channel \in Channels
  PROVE  LET target == channel_target_from_url(unit, channel, url)
         IN /\ Rejected(url) <=> BadUrl(url)
            /\ ~Rejected(url) => target \in Target
            /\ target.unit = unit /\ target.host = url.host
            /\ ~Rejected(url) => target.port = PortOf(url)
<1>1. /\ url.scheme \in {"http", "https", "udp", "rtp"} /\ url.host \in Hosts \cup {""}
      /\ url.port \in Ports
  <2>1. url \in Url
    BY CatalogAssumption DEF CatalogAssumption
  <2> QED
    BY <2>1 DEF Url
<1>2. Rejected(url) <=> BadUrl(url)
  BY <1>1 DEF Rejected, BadUrl
<1> DEFINE port == IF url.port # NoPort THEN url.port
                   ELSE IF url.scheme = "https" THEN 443 ELSE 80
<1>3. ~Rejected(url) => port = PortOf(url) /\ port \in TargetPorts /\ url.host \in Hosts
  <2> SUFFICES ASSUME ~Rejected(url)
               PROVE  port = PortOf(url) /\ port \in TargetPorts /\ url.host \in Hosts
    OBVIOUS
  <2>1. url.host # "" /\ url.port # BadPort
        /\ (url.port = NoPort => url.scheme = "http" \/ url.scheme = "https")
    BY <1>1 DEF Rejected
  <2>2. url.host \in Hosts
    BY <1>1, <2>1
  <2>3. CASE url.port # NoPort
    <3>1. port = url.port /\ PortOf(url) = url.port
      BY <2>3 DEF PortOf
    <3>2. url.port \in TargetPorts
      <4> DEFINE p == url.port
      <4>1. p \in Ports /\ p # NoPort /\ p # BadPort
        BY <1>1, <2>1, <2>3
      <4> HIDE DEF p
      <4>2. p \in TargetPorts
        BY <4>1 DEF Ports, NoPort, BadPort, TargetPorts
      <4> QED
        BY <4>2 DEF p
    <3> QED
      BY <2>2, <3>1, <3>2
  <2>4. CASE url.port = NoPort
    <3>1. port = PortOf(url) /\ (port = 80 \/ port = 443)
      <4>1. /\ port = IF url.scheme = "https" THEN 443 ELSE 80
            /\ PortOf(url) = IF url.scheme = "http" THEN 80 ELSE 443
        BY <2>4 DEF PortOf
      <4> HIDE DEF port
      <4>2. CASE url.scheme = "http"
        BY <4>1, <4>2
      <4>3. CASE url.scheme = "https"
        BY <4>1, <4>3
      <4> QED
        BY <2>1, <2>4, <4>2, <4>3
    <3>2. 80 \in TargetPorts /\ 443 \in TargetPorts
      BY DEF TargetPorts
    <3> QED
      BY <2>2, <3>1, <3>2
  <2> QED
    BY <2>3, <2>4
<1>4. channel_target_from_url(unit, channel, url) =
        [unit |-> unit, channel |-> channel, host |-> url.host, addresses |-> {}, port |-> port]
  BY DEF channel_target_from_url
<1> HIDE DEF port
<1> QED
  BY <1>2, <1>3, <1>4 DEF Target

\* What a template's files give its instances.
LEMMA TemplateGives ==
  ASSUME tree \in Trees, NEW path \in DOMAIN tree.unit, tree.unit[path].state = "text",
         IsTemplate(path), NEW unit, NEW url
  PROVE  Gives(path, unit, url) <=>
           /\ unit[1] = path[2][1]
           /\ \E f \in LinesInstances(path) : f[2] = unit[2] /\ Assigned(f) = {url}
<1> DEFINE text == tree.unit[path].text
<1>1. Gives(path, unit, url) <=>
        \E i \in DOMAIN text : /\ Names1(text, i, TRUE) /\ unit[1] = path[2][1]
                               /\ Assigned(FileOf(path, text[i], unit[2])) = {url}
                               /\ unit[2] \in Instances
  BY DEF Gives
<1>2. \A f : f \in LinesInstances(path) <=>
        /\ f \in DOMAIN tree.env /\ f[2] \in Instances
        /\ \E i \in DOMAIN text : Names1(text, i, TRUE) /\ f = FileOf(path, text[i], f[2])
  BY DEF LinesInstances
<1> HIDE DEF text
<1>3. \A i \in DOMAIN text : FileOf(path, text[i], unit[2])[2] = unit[2]
  BY DEF FileOf
<1>4. \A f : Assigned(f) = {url} => f \in DOMAIN tree.env
  BY DEF Assigned
<1>5. ASSUME NEW i \in DOMAIN text, Names1(text, i, TRUE), unit[2] \in Instances,
             Assigned(FileOf(path, text[i], unit[2])) = {url}
      PROVE  \E f \in LinesInstances(path) : f[2] = unit[2] /\ Assigned(f) = {url}
  <2> DEFINE f == FileOf(path, text[i], unit[2])
  <2>1. f[2] = unit[2] /\ f \in DOMAIN tree.env
    BY <1>3, <1>4, <1>5
  <2>2. f = FileOf(path, text[i], f[2])
    BY <2>1
  <2>3. Assigned(f) = {url}
    BY <1>5
  <2> HIDE DEF f
  <2> QED
    BY <1>2, <1>5, <2>1, <2>2, <2>3
<1>6. ASSUME NEW f \in LinesInstances(path), f[2] = unit[2], Assigned(f) = {url}
      PROVE  /\ unit[2] \in Instances
             /\ \E i \in DOMAIN text : /\ Names1(text, i, TRUE)
                                       /\ Assigned(FileOf(path, text[i], unit[2])) = {url}
  BY <1>2, <1>6
<1> QED
  BY <1>1, <1>5, <1>6

\* What a target says has been given its unit by the path.
Told(path, target) ==
  \E url \in Urls : /\ Gives(path, target.unit, url)
                    /\ target.host = url.host /\ target.port = PortOf(url)

\* Sequences of at most one member.
LEMMA AtMostOne ==
  ASSUME NEW X
  PROVE  /\ <<>> \in Seq(X) /\ Range(<<>>) = {}
         /\ \A x \in X : <<x>> \in Seq(X) /\ Range(<<x>>) = {x}
<1>1. <<>> \in Seq(X) /\ DOMAIN <<>> = {}
  BY EmptySeq
<1>2. \A x \in X : <<x>> \in Seq(X) /\ DOMAIN <<x>> = {1} /\ <<x>>[1] = x
  <2> SUFFICES ASSUME NEW x \in X PROVE <<x>> \in Seq(X) /\ DOMAIN <<x>> = {1} /\ <<x>>[1] = x
    OBVIOUS
  <2>1. <<x>> \in Seq(X) /\ Len(<<x>>) = 1 /\ <<x>>[1] = x
    OBVIOUS
  <2>2. 1 .. 1 = {1}
    OBVIOUS
  <2> QED
    BY <2>1, <2>2, LenProperties
<1> QED
  BY <1>1, <1>2 DEF Range

\* A path lies in a directory and has a name.
LEMMA PathFacts ==
  ASSUME NEW path \in Paths
  PROVE  /\ path[2] \in Names /\ path[2] = <<path[2][1], path[2][2]>>
         /\ path[2] \in UnitNames /\ path[2][1] \in Channels
         /\ \A inst \in Instances : <<path[2][1], inst>> \in UnitNames /\ inst \in Channels
<1>1. path[2] \in Names
  BY DEF Paths
<1>2. path[2] = <<path[2][1], path[2][2]>>
  BY <1>1, CatalogAssumption DEF CatalogAssumption
<1> QED
  BY <1>1, <1>2 DEF UnitNames, Channels

\* The targets of a template.
LEMMA TemplateTargets ==
  ASSUME tree \in Trees, NEW path \in DOMAIN tree.unit, tree.unit[path].state = "text",
         IsTemplate(path), ~TemplateRaises(path)
  PROVE  /\ template_instance_targets(path) \in Seq(Target)
         /\ \A target \in Range(template_instance_targets(path)) : Told(path, target)
         /\ \A unit \in UnitNames : \A url : Gives(path, unit, url) =>
              \E target \in Range(template_instance_targets(path)) : target.unit = unit
<1> DEFINE files == InstanceFiles(path)
           made(f) == channel_target_from_url(<<path[2][1], f[2]>>, f[2],
                                              TheUrl(urls_from_env_file(f)))
           one(f) == Cardinality(urls_from_env_file(f)) = 1
           lists == [i \in 1 .. Len(files) |-> IF one(files[i]) THEN <<made(files[i])>> ELSE <<>>]
<1>1. files \in Seq(DOMAIN tree.env) /\ Range(files) = LinesInstances(path)
  BY InstanceFacts
<1>2. path \in Paths
  BY UnitText
<1>3. template_instance_targets(path) = FlattenSeq(lists)
  <2>1. template_instance_targets(path) = FlattenSeq([i \in 1 .. Len(files) |->
          IF ~one(files[i]) THEN <<>> ELSE <<made(files[i])>>])
    BY DEF template_instance_targets
  <2> HIDE DEF files, made, one
  <2>2. [i \in 1 .. Len(files) |-> IF ~one(files[i]) THEN <<>> ELSE <<made(files[i])>>] = lists
    OBVIOUS
  <2> QED
    BY <2>1, <2>2
<1>4. ASSUME NEW f \in LinesInstances(path), one(f)
      PROVE  \E url \in Urls :
               /\ Assigned(f) = {url} /\ ~Rejected(url) /\ made(f) \in Target
               /\ made(f).unit = <<path[2][1], f[2]>>
               /\ made(f).host = url.host /\ made(f).port = PortOf(url)
  <2>1. urls_from_env_file(f) = Assigned(f) /\ Assigned(f) \subseteq Urls
    BY AssignedFacts
  <2>2. PICK url \in Urls : Assigned(f) = {url} /\ TheUrl(Assigned(f)) = url
    BY <1>4, <2>1, OneUrl
  <2>3. ~Rejected(url)
    BY <1>1, <1>4, <2>1, <2>2 DEF TemplateRaises
  <2>4. f[2] \in Instances
    BY DEF LinesInstances
  <2>5. <<path[2][1], f[2]>> \in UnitNames /\ f[2] \in Channels
    BY <1>2, <2>4, PathFacts
  <2>6. made(f) = channel_target_from_url(<<path[2][1], f[2]>>, f[2], url)
    BY <2>1, <2>2
  <2> HIDE DEF made
  <2> QED
    BY <2>2, <2>3, <2>5, <2>6, UrlFacts
<1> HIDE DEF made
<1>5. \A f : one(f) <=> \E url \in Urls : Assigned(f) = {url}
  BY AssignedFacts, OneUrl
<1> HIDE DEF files, one
<1>6. Len(files) \in Nat /\ Range(files) = {files[i] : i \in 1 .. Len(files)}
  BY <1>1, LenProperties DEF Range
<1>7. ASSUME NEW i \in 1 .. Len(files)
      PROVE  /\ lists[i] \in Seq(Target)
             /\ Range(lists[i]) = IF one(files[i]) THEN {made(files[i])} ELSE {}
  <2>1. lists[i] = IF one(files[i]) THEN <<made(files[i])>> ELSE <<>>
    OBVIOUS
  <2>2. one(files[i]) => made(files[i]) \in Target
    BY <1>1, <1>4, <1>6
  <2> HIDE DEF lists
  <2> QED
    BY <2>1, <2>2, AtMostOne
<1>8. lists \in Seq(Seq(Target)) /\ Len(lists) = Len(files)
  <2>1. lists = [i \in 1 .. Len(files) |-> lists[i]]
    OBVIOUS
  <2> HIDE DEF lists
  <2>2. lists \in [1 .. Len(files) -> Seq(Target)]
    BY <1>7, <2>1
  <2> QED
    BY <1>6, <2>2
<1> HIDE DEF lists
<1>9. FlattenSeq(lists) \in Seq(Target)
      /\ Range(FlattenSeq(lists)) = UNION {Range(lists[i]) : i \in 1 .. Len(files)}
  BY <1>8, FlattenMembers
<1>10. \A target : target \in Range(FlattenSeq(lists)) <=>
         \E f \in LinesInstances(path) : one(f) /\ target = made(f)
  <2>1. \A target : target \in Range(FlattenSeq(lists)) <=>
          \E i \in 1 .. Len(files) : target \in Range(lists[i])
    BY <1>9
  <2>2. \A target : \A i \in 1 .. Len(files) :
          target \in Range(lists[i]) <=> one(files[i]) /\ target = made(files[i])
    BY <1>7
  <2>3. LinesInstances(path) = {files[i] : i \in 1 .. Len(files)}
    BY <1>1, <1>6
  <2> SUFFICES ASSUME NEW target
               PROVE  target \in Range(FlattenSeq(lists)) <=>
                        \E f \in LinesInstances(path) : one(f) /\ target = made(f)
    OBVIOUS
  <2>4. target \in Range(FlattenSeq(lists)) <=>
          \E i \in 1 .. Len(files) : one(files[i]) /\ target = made(files[i])
    BY <2>1, <2>2
  <2> QED
    BY <2>3, <2>4
<1>11. ASSUME NEW f \in LinesInstances(path), one(f) PROVE Told(path, made(f))
  <2>1. PICK url \in Urls : /\ Assigned(f) = {url} /\ made(f).unit = <<path[2][1], f[2]>>
                            /\ made(f).host = url.host /\ made(f).port = PortOf(url)
    BY <1>4, <1>11
  <2>2. Gives(path, <<path[2][1], f[2]>>, url)
    BY <2>1, TemplateGives
  <2> QED
    BY <2>1, <2>2 DEF Told
<1>12. ASSUME NEW unit \in UnitNames, NEW url, Gives(path, unit, url)
       PROVE  \E f \in LinesInstances(path) : one(f) /\ made(f).unit = unit
  <2>1. PICK f \in LinesInstances(path) : f[2] = unit[2] /\ Assigned(f) = {url}
    BY <1>12, TemplateGives
  <2>2. unit[1] = path[2][1]
    BY <1>12, TemplateGives
  <2>3. one(f)
    BY <1>5, <2>1, AssignedFacts
  <2>4. unit = <<unit[1], unit[2]>>
    BY CatalogAssumption DEF CatalogAssumption, UnitNames
  <2> QED
    BY <1>4, <2>1, <2>2, <2>3, <2>4
<1> QED
  BY <1>3, <1>9, <1>10, <1>11, <1>12

\* The targets of a unit that is no template.
LEMMA PlainTargets ==
  ASSUME tree \in Trees, NEW path \in DOMAIN tree.unit, tree.unit[path].state = "text",
         ~IsTemplate(path), ~UnitRaises(path)
  PROVE  /\ UnitTargets(path) \in Seq(Target)
         /\ \A target \in Range(UnitTargets(path)) : Told(path, target)
         /\ \A unit \in UnitNames : \A url : Gives(path, unit, url) =>
              \E target \in Range(UnitTargets(path)) : target.unit = unit
<1>1. UnitUrls(path) = LinesUrls(path) /\ UnitUrls(path) \subseteq Urls
  BY UnitFacts
<1>2. \A unit, url : Gives(path, unit, url) <=> unit = path[2] /\ LinesUrls(path) = {url}
  BY DEF Gives, LinesUrls
<1>3. path \in Paths
  BY UnitText
<1>4. CASE Cardinality(UnitUrls(path)) # 1
  <2>1. UnitTargets(path) = <<>>
    BY <1>4 DEF UnitTargets
  <2>2. \A url : LinesUrls(path) # {url}
    <3> SUFFICES ASSUME NEW url, LinesUrls(path) = {url} PROVE FALSE
      OBVIOUS
    <3>1. url \in Urls /\ UnitUrls(path) = {url}
      BY <1>1
    <3> QED
      BY <1>1, <1>4, <3>1, OneUrl
  <2> QED
    BY <1>2, <2>1, <2>2, AtMostOne
<1>5. CASE Cardinality(UnitUrls(path)) = 1
  <2>1. PICK url \in Urls : UnitUrls(path) = {url} /\ TheUrl(UnitUrls(path)) = url
    BY <1>1, <1>5, OneUrl
  <2>2. ~Rejected(url)
    BY <1>5, <2>1 DEF UnitRaises
  <2> DEFINE target == channel_target_from_url(path[2], path[2][1], url)
  <2>3. UnitTargets(path) = <<target>>
    BY <1>5, <2>1 DEF UnitTargets
  <2>4. /\ target \in Target /\ target.unit = path[2]
        /\ target.host = url.host /\ target.port = PortOf(url)
    BY <1>3, <2>2, PathFacts, UrlFacts
  <2> HIDE DEF target
  <2>5. UnitTargets(path) \in Seq(Target) /\ Range(UnitTargets(path)) = {target}
    BY <2>3, <2>4, AtMostOne
  <2>6. Gives(path, target.unit, url)
    BY <1>1, <1>2, <2>1, <2>4
  <2> QED
    BY <1>2, <2>4, <2>5, <2>6 DEF Told
<1> QED
  BY <1>4, <1>5

\* The targets of a path that does not stop the load.
LEMMA TargetsOfPath ==
  ASSUME tree \in Trees, NEW path \in Paths, ~Raises(path)
  PROVE  /\ PathTargets(path) \in Seq(Target)
         /\ \A target \in Range(PathTargets(path)) : Told(path, target)
         /\ \A unit \in UnitNames : \A url : Gives(path, unit, url) =>
              \E target \in Range(PathTargets(path)) : target.unit = unit
<1>1. CASE Unreadable(path)
  <2>1. PathTargets(path) = <<>>
    BY <1>1 DEF PathTargets
  <2>2. \A unit, url : ~Gives(path, unit, url)
    BY <1>1 DEF Unreadable, Gives
  <2> QED
    BY <2>1, <2>2, AtMostOne
<1>2. CASE ~Unreadable(path)
  <2>1. path \in DOMAIN tree.unit /\ tree.unit[path].state = "text"
    BY <1>2, UnitText DEF Unreadable, Raises
  <2>2. CASE IsTemplate(path)
    <3>1. PathTargets(path) = template_instance_targets(path) /\ ~TemplateRaises(path)
      BY <1>2, <2>2 DEF PathTargets, Raises
    <3> QED
      BY <2>1, <2>2, <3>1, TemplateTargets
  <2>3. CASE ~IsTemplate(path)
    <3>1. PathTargets(path) = UnitTargets(path) /\ ~UnitRaises(path)
      BY <1>2, <2>3 DEF PathTargets, Raises
    <3> QED
      BY <2>1, <2>3, <3>1, PlainTargets
  <2> QED
    BY <2>2, <2>3
<1> QED
  BY <1>1, <1>2

\* A path stops the load exactly if it is bad, once it is listed.
LEMMA RaisesIsBad ==
  ASSUME tree \in Trees, NEW path \in Paths
  PROVE  Raises(path) /\ Listed(path) <=> Bad(path)
<1> DEFINE text == tree.unit[path].text
           undecoded == \E i \in DOMAIN text : \E file \in DOMAIN tree.env :
             /\ tree.env[file].state = "undecodable"
             /\ Names1(text, i, IsTemplate(path))
             /\ file[2] \in (IF IsTemplate(path) THEN Instances ELSE {"plain"})
             /\ file = FileOf(path, text[i], file[2])
           badUrl == \E unit \in UnitNames : \E url \in Urls : Gives(path, unit, url) /\ BadUrl(url)
<1>1. Bad(path) <=>
        /\ Listed(path) /\ path \in DOMAIN tree.unit
        /\ \/ tree.unit[path].state = "undecodable"
           \/ tree.unit[path].state = "text" /\ undecoded
           \/ badUrl
  BY DEF Bad, BadUrl
<1>2. badUrl => path \in DOMAIN tree.unit /\ tree.unit[path].state = "text"
  BY DEF Gives
<1>3. \A url \in Urls : Rejected(url) <=> BadUrl(url)
  <2>1. \A url \in Urls : url.scheme \in {"http", "https", "udp", "rtp"}
    <3>1. \A url \in Urls : url \in Url
      BY CatalogAssumption DEF CatalogAssumption
    <3> QED
      BY <3>1 DEF Url
  <2> QED
    BY <2>1 DEF Rejected, BadUrl
<1>4. ASSUME path \in DOMAIN tree.unit, tree.unit[path].state = "text", IsTemplate(path)
      PROVE  TemplateRaises(path) <=> undecoded \/ badUrl
  <2>1. Range(InstanceFiles(path)) = LinesInstances(path)
    BY <1>4, InstanceFacts
  <2>2. TemplateRaises(path) <=>
          \/ Undecodable(LinesInstances(path))
          \/ \E f \in LinesInstances(path) : /\ Cardinality(Assigned(f)) = 1
                                             /\ Rejected(TheUrl(Assigned(f)))
    BY <2>1, AssignedFacts DEF TemplateRaises
  <2>3. Undecodable(LinesInstances(path)) <=> undecoded
    <3>1. \A f : f \in LinesInstances(path) <=>
            /\ f \in DOMAIN tree.env /\ f[2] \in Instances
            /\ \E i \in DOMAIN text : Names1(text, i, TRUE) /\ f = FileOf(path, text[i], f[2])
      BY DEF LinesInstances
    <3> HIDE DEF text
    <3> QED
      BY <1>4, <3>1 DEF Undecodable
  <2>4. ASSUME NEW f \in LinesInstances(path), Cardinality(Assigned(f)) = 1,
               Rejected(TheUrl(Assigned(f)))
        PROVE  badUrl
    <3>1. PICK url \in Urls : Assigned(f) = {url} /\ TheUrl(Assigned(f)) = url
      BY <2>4, AssignedFacts, OneUrl
    <3>2. BadUrl(url)
      BY <1>3, <2>4, <3>1
    <3>3. f[2] \in Instances
      BY DEF LinesInstances
    <3>4. <<path[2][1], f[2]>> \in UnitNames
      BY <3>3, PathFacts
    <3>5. Gives(path, <<path[2][1], f[2]>>, url)
      BY <1>4, <3>1, TemplateGives
    <3> QED
      BY <3>2, <3>4, <3>5
  <2>5. ASSUME NEW unit \in UnitNames, NEW url \in Urls, Gives(path, unit, url), BadUrl(url)
        PROVE  \E f \in LinesInstances(path) : /\ Cardinality(Assigned(f)) = 1
                                               /\ Rejected(TheUrl(Assigned(f)))
    <3>1. PICK f \in LinesInstances(path) : Assigned(f) = {url}
      BY <1>4, <2>5, TemplateGives
    <3>2. Cardinality(Assigned(f)) = 1 /\ TheUrl(Assigned(f)) = url
      BY <3>1, AssignedFacts, OneUrl
    <3> QED
      BY <1>3, <2>5, <3>2
  <2> HIDE DEF undecoded, text
  <2> QED
    BY <2>2, <2>3, <2>4, <2>5
<1>5. ASSUME path \in DOMAIN tree.unit, tree.unit[path].state = "text", ~IsTemplate(path)
      PROVE  UnitRaises(path) <=> undecoded \/ badUrl
  <2>1. /\ environment_file_paths(path) =
             {FileOf(path, text[i], "plain") :
                i \in {j \in DOMAIN text : Names1(text, j, FALSE)}}
        /\ UnitUrls(path) = LinesUrls(path) /\ UnitUrls(path) \subseteq Urls
    BY <1>5, UnitFacts
  <2>2. Undecodable(environment_file_paths(path)) <=> undecoded
    <3>1. \A i \in DOMAIN text : FileOf(path, text[i], "plain")[2] = "plain"
      BY DEF FileOf
    <3>2. undecoded <=>
            \E i \in DOMAIN text : \E file \in DOMAIN tree.env :
              /\ tree.env[file].state = "undecodable" /\ Names1(text, i, FALSE)
              /\ file[2] = "plain" /\ file = FileOf(path, text[i], file[2])
      <4> HIDE DEF text
      <4> QED
        BY <1>5 DEF IsTemplate
    <3> HIDE DEF text, undecoded
    <3>3. undecoded <=>
            \E i \in DOMAIN text : \E file \in DOMAIN tree.env :
              /\ tree.env[file].state = "undecodable" /\ Names1(text, i, FALSE)
              /\ file = FileOf(path, text[i], "plain")
      BY <3>1, <3>2
    <3> QED
      BY <2>1, <3>3 DEF Undecodable
  <2>3. \A unit, url : Gives(path, unit, url) <=> unit = path[2] /\ LinesUrls(path) = {url}
    BY <1>5 DEF Gives, LinesUrls
  <2>4. path[2] \in UnitNames
    BY PathFacts
  <2>5. ASSUME Cardinality(UnitUrls(path)) = 1, Rejected(TheUrl(UnitUrls(path)))
        PROVE  badUrl
    <3>1. PICK url \in Urls : UnitUrls(path) = {url} /\ TheUrl(UnitUrls(path)) = url
      BY <2>1, <2>5, OneUrl
    <3> QED
      BY <1>3, <2>1, <2>3, <2>4, <2>5, <3>1
  <2>6. ASSUME NEW unit \in UnitNames, NEW url \in Urls, Gives(path, unit, url), BadUrl(url)
        PROVE  Cardinality(UnitUrls(path)) = 1 /\ Rejected(TheUrl(UnitUrls(path)))
    <3>1. UnitUrls(path) = {url}
      BY <2>1, <2>3, <2>6
    <3>2. Cardinality(UnitUrls(path)) = 1 /\ TheUrl(UnitUrls(path)) = url
      BY <2>1, <3>1, OneUrl
    <3> QED
      BY <1>3, <2>6, <3>2
  <2> HIDE DEF undecoded, text
  <2> QED
    BY <2>2, <2>5, <2>6 DEF UnitRaises
<1>6. path \in DOMAIN tree.unit => tree.unit[path].state \in {"text", "unreadable", "undecodable"}
  BY UnitText
<1>7. Raises(path) <=>
        /\ path \in DOMAIN tree.unit /\ tree.unit[path].state # "unreadable"
        /\ \/ tree.unit[path].state = "undecodable"
           \/ IsTemplate(path) /\ TemplateRaises(path)
           \/ ~IsTemplate(path) /\ UnitRaises(path)
  BY DEF Raises, Unreadable
<1> HIDE DEF undecoded, badUrl, text
<1> QED
  BY <1>1, <1>2, <1>4, <1>5, <1>6, <1>7

---------------------------------------------------------------------------------
(* The order in which paths are loaded.                                               *)

\* Some occurrence of q comes after all of p.
After(seq, p, q) ==
  \E k \in 1 .. Len(seq) : seq[k] = q /\ \A h \in 1 .. Len(seq) : seq[h] = p => h < k

\* A place in a concatenation comes after those in earlier sequences, and after earlier
\* ones in its own.
LEMMA AfterFlatten ==
  ASSUME NEW X, NEW seqs \in Seq(Seq(X)), NEW p, NEW i \in 1 .. Len(seqs),
         NEW j \in 1 .. Len(seqs[i]),
         \A h \in 1 .. Len(seqs) : \A l \in 1 .. Len(seqs[h]) :
           seqs[h][l] = p => h < i \/ (h = i /\ l < j)
  PROVE  After(FlattenSeq(seqs), p, seqs[i][j])
<1>1. PICK at : Laid(X, seqs, Len(seqs), at, FlattenSeq(seqs))
  BY Flattened
<1> DEFINE r == FlattenSeq(seqs)
           n == Len(seqs)
<1>2. /\ n \in Nat /\ \A h \in 1 .. n : Len(seqs[h]) \in Nat
      /\ r \in Seq(X) /\ Len(r) \in Nat
  BY <1>1, ElementOfSeq, LenProperties DEF Laid
<1>3. /\ \A h \in 1 .. n : at[h] \in Nat /\ at[h] + Len(seqs[h]) <= Len(r)
      /\ \A m \in 1 .. n : \A h \in 1 .. m - 1 : at[h] + Len(seqs[h]) <= at[m]
      /\ \A h \in 1 .. n : \A l \in 1 .. Len(seqs[h]) : r[at[h] + l] = seqs[h][l]
      /\ \A k \in 1 .. Len(r) : \E h \in 1 .. n : \E l \in 1 .. Len(seqs[h]) : k = at[h] + l
  BY <1>1 DEF Laid
<1> HIDE DEF r
<1> DEFINE k == at[i] + j
<1>4. k \in 1 .. Len(r) /\ r[k] = seqs[i][j]
  BY <1>2, <1>3
<1>5. ASSUME NEW g \in 1 .. Len(r), r[g] = p PROVE g < k
  <2>1. PICK h \in 1 .. n : \E l \in 1 .. Len(seqs[h]) : g = at[h] + l
    BY <1>3
  <2>2. PICK l \in 1 .. Len(seqs[h]) : g = at[h] + l
    BY <2>1
  <2>3. h < i \/ (h = i /\ l < j)
    BY <1>3, <1>5, <2>2
  <2>4. CASE h < i
    <3>1. at[h] + Len(seqs[h]) <= at[i] /\ at[h] \in Nat /\ at[i] \in Nat /\ Len(seqs[h]) \in Nat
      BY <1>2, <1>3, <2>4
    <3> QED
      BY <2>2, <3>1
  <2>5. CASE h = i /\ l < j
    BY <1>2, <1>3, <2>2, <2>5
  <2> QED
    BY <2>3, <2>4, <2>5
<1> QED
  BY <1>4, <1>5 DEF After, r

\* What comes after something in a sequence still does when more is put before it, or
\* something else after it.
LEMMA AfterConcat ==
  ASSUME NEW X, NEW s \in Seq(X), NEW t \in Seq(X), NEW p, NEW q
  PROVE  /\ After(t, p, q) => After(s \o t, p, q)
         /\ After(s, p, q) /\ p \notin Range(t) => After(s \o t, p, q)
         /\ s \o t \in Seq(X) /\ Range(s \o t) = Range(s) \cup Range(t)
<1> DEFINE r == s \o t
<1>1. /\ r \in Seq(X) /\ Len(s) \in Nat /\ Len(t) \in Nat /\ Len(r) = Len(s) + Len(t)
      /\ \A k \in 1 .. Len(s) + Len(t) : r[k] = IF k <= Len(s) THEN s[k] ELSE t[k - Len(s)]
  BY ConcatProperties, LenProperties
<1> HIDE DEF r
<1>2. /\ \A k \in 1 .. Len(s) : k \in 1 .. Len(r) /\ r[k] = s[k]
      /\ \A k \in 1 .. Len(t) : Len(s) + k \in 1 .. Len(r) /\ r[Len(s) + k] = t[k]
      /\ \A k \in 1 .. Len(r) :
           k \in 1 .. Len(s) \/ (k - Len(s) \in 1 .. Len(t) /\ k = Len(s) + (k - Len(s)))
  <2>1. ASSUME NEW k \in 1 .. Len(t)
        PROVE  Len(s) + k \in 1 .. Len(r) /\ r[Len(s) + k] = t[k]
    <3>1. Len(s) + k \in 1 .. Len(s) + Len(t) /\ ~(Len(s) + k <= Len(s))
          /\ (Len(s) + k) - Len(s) = k
      BY <1>1
    <3> QED
      BY <1>1, <3>1
  <2> QED
    BY <1>1, <2>1
<1>3. Range(s) = {s[k] : k \in 1 .. Len(s)} /\ Range(t) = {t[k] : k \in 1 .. Len(t)}
      /\ Range(r) = {r[k] : k \in 1 .. Len(r)}
  BY <1>1, LenProperties DEF Range
<1>4. Range(r) = Range(s) \cup Range(t)
  <2>1. \A k \in 1 .. Len(r) : r[k] \in Range(s) \cup Range(t)
    <3> SUFFICES ASSUME NEW k \in 1 .. Len(r) PROVE r[k] \in Range(s) \cup Range(t)
      OBVIOUS
    <3>1. CASE k \in 1 .. Len(s)
      BY <1>2, <1>3, <3>1
    <3>2. CASE k - Len(s) \in 1 .. Len(t) /\ k = Len(s) + (k - Len(s))
      <4>1. r[k] = t[k - Len(s)]
        BY <1>2, <3>2
      <4> QED
        BY <1>3, <3>2, <4>1
    <3> QED
      BY <1>2, <3>1, <3>2
  <2>2. \A x : x \in Range(s) \cup Range(t) => x \in Range(r)
    BY <1>2, <1>3
  <2> QED
    BY <1>3, <2>1, <2>2
<1>5. ASSUME After(t, p, q) PROVE After(r, p, q)
  <2>1. PICK k \in 1 .. Len(t) : t[k] = q /\ \A h \in 1 .. Len(t) : t[h] = p => h < k
    BY <1>5 DEF After
  <2>2. ASSUME NEW h \in 1 .. Len(r), r[h] = p PROVE h < Len(s) + k
    <3>1. CASE h \in 1 .. Len(s)
      BY <1>1, <3>1
    <3>2. CASE h - Len(s) \in 1 .. Len(t) /\ h = Len(s) + (h - Len(s))
      <4>1. h - Len(s) < k
        BY <1>2, <2>1, <2>2, <3>2
      <4> QED
        BY <1>1, <4>1
    <3> QED
      BY <1>2, <3>1, <3>2
  <2> QED
    BY <1>2, <2>1, <2>2 DEF After
<1>6. ASSUME After(s, p, q), p \notin Range(t) PROVE After(r, p, q)
  <2>1. PICK k \in 1 .. Len(s) : s[k] = q /\ \A h \in 1 .. Len(s) : s[h] = p => h < k
    BY <1>6 DEF After
  <2>2. \A h \in 1 .. Len(r) : r[h] = p => h \in 1 .. Len(s) /\ s[h] = p
    BY <1>2, <1>3, <1>6
  <2> QED
    BY <1>2, <2>1, <2>2 DEF After
<1> QED
  BY <1>1, <1>4, <1>5, <1>6 DEF r

\* The service files of a directory, by name.
LEMMA SortedFacts ==
  ASSUME tree \in Trees, NEW dir \in Dirs
  PROVE  /\ SortedDir(dir) \in Seq(Paths)
         /\ Range(SortedDir(dir)) = {path \in DOMAIN tree.unit : path[1] = dir}
         /\ \A h, k \in 1 .. Len(SortedDir(dir)) :
              NameBefore(SortedDir(dir)[h], SortedDir(dir)[k]) => h < k
<1> DEFINE D == DOMAIN tree.unit
           all == [i \in 1 .. Len(NameOrder) |-> <<dir, NameOrder[i]>>]
           r == SortedDir(dir)
           n == Len(NameOrder)
<1>1. /\ n \in Nat /\ DOMAIN NameOrder = 1 .. n
      /\ \A i, j \in 1 .. n : NameOrder[i] = NameOrder[j] => i = j
      /\ D \subseteq Paths
  BY CatalogAssumption, LenProperties DEF CatalogAssumption, IsInjective
<1>2. all \in Seq(Paths) /\ Len(all) = n /\ \A i \in 1 .. n : all[i] = <<dir, NameOrder[i]>>
  <2>1. \A i \in 1 .. n : <<dir, NameOrder[i]>> \in Paths
    BY <1>1 DEF Paths, Names
  <2>2. all \in [1 .. n -> Paths]
    BY <2>1
  <2> QED
    BY <1>1, <2>2
<1>3. r = Those(all, D)
  BY DEF SortedDir
<1> HIDE DEF all, r
<1>4. r \in Seq(Paths) /\ Range(r) = Range(all) \cap D
  <2> HIDE DEF D
  <2> QED
    BY <1>2, <1>3, ThoseMembers
<1>5. Range(all) = {<<dir, NameOrder[i]>> : i \in 1 .. n}
  BY <1>2, LenProperties DEF Range
<1>6. Range(r) = {path \in D : path[1] = dir}
  <2>1. \A path \in Paths : path[1] = dir => path \in Range(all)
    BY <1>1, <1>5 DEF Paths, Names
  <2>2. \A path \in Range(all) : path[1] = dir
    BY <1>5
  <2> QED
    BY <1>1, <1>4, <2>1, <2>2
<1> DEFINE s == Singles(all, D)
<1>7. /\ s \in Seq(Seq(Paths)) /\ Len(s) = n /\ r = FlattenSeq(s)
      /\ \A i \in 1 .. n : \A j \in 1 .. Len(s[i]) : j = 1 /\ Len(s[i]) = 1 /\ s[i][j] = all[i]
  <2> HIDE DEF D
  <2>1. /\ s \in Seq(Seq(Paths)) /\ Len(s) = n /\ r = FlattenSeq(s)
        /\ \A i \in 1 .. n : /\ all[i] \in D => Len(s[i]) = 1 /\ s[i][1] = all[i]
                             /\ all[i] \notin D => Len(s[i]) = 0
    BY <1>2, <1>3, SinglesFacts
  <2> HIDE DEF s
  <2>2. ASSUME NEW i \in 1 .. n, NEW j \in 1 .. Len(s[i])
        PROVE  j = 1 /\ Len(s[i]) = 1 /\ s[i][j] = all[i]
    <3>1. Len(s[i]) # 0
      BY <2>1
    <3>2. Len(s[i]) = 1 /\ s[i][1] = all[i]
      BY <2>1, <3>1
    <3> QED
      BY <3>2
  <2> QED
    BY <2>1, <2>2
<1> HIDE DEF s
<1>8. PICK at : Laid(Paths, s, n, at, r)
  BY <1>7, Flattened
<1>9. \A k \in 1 .. Len(r) : \E i \in 1 .. n :
        Len(s[i]) = 1 /\ at[i] \in Nat /\ k = at[i] + 1 /\ r[k] = <<dir, NameOrder[i]>>
  <2> SUFFICES ASSUME NEW k \in 1 .. Len(r)
               PROVE  \E i \in 1 .. n : /\ Len(s[i]) = 1 /\ at[i] \in Nat /\ k = at[i] + 1
                                        /\ r[k] = <<dir, NameOrder[i]>>
    OBVIOUS
  <2>1. PICK i \in 1 .. n : \E j \in 1 .. Len(s[i]) : k = at[i] + j
    BY <1>8 DEF Laid
  <2>2. PICK j \in 1 .. Len(s[i]) : k = at[i] + j
    BY <2>1
  <2>3. r[at[i] + j] = s[i][j] /\ at[i] \in Nat
    BY <1>8 DEF Laid
  <2> QED
    BY <1>2, <1>7, <2>2, <2>3
<1>10. ASSUME NEW h \in 1 .. Len(r), NEW k \in 1 .. Len(r), NameBefore(r[h], r[k])
       PROVE  h < k
  <2>1. PICK i \in 1 .. n : /\ Len(s[i]) = 1 /\ at[i] \in Nat /\ h = at[i] + 1
                            /\ r[h] = <<dir, NameOrder[i]>>
    BY <1>9
  <2>2. PICK m \in 1 .. n : /\ Len(s[m]) = 1 /\ at[m] \in Nat /\ k = at[m] + 1
                            /\ r[k] = <<dir, NameOrder[m]>>
    BY <1>9
  <2>3. i < m
    BY <1>1, <1>10, <2>1, <2>2 DEF NameBefore
  <2>4. at[i] + Len(s[i]) <= at[m]
    BY <1>1, <1>8, <2>3 DEF Laid
  <2> QED
    BY <2>1, <2>2, <2>4
<1> QED
  BY <1>4, <1>6, <1>10 DEF r

\* q lies in a directory listed after p's, or has a later name in the same.
Later(p, q, act, dirOf) ==
  \E i \in act : /\ dirOf[i] = q[1]
                 /\ \A j \in act : dirOf[j] = p[1] => j < i \/ (j = i /\ NameBefore(p, q))

\* The service files of several directories, one directory after the other.
LEMMA DirectoriesFacts ==
  ASSUME tree \in Trees, NEW n \in Nat, NEW act \in SUBSET (1 .. n),
         NEW dirOf \in [1 .. n -> Dirs], NEW seqs,
         seqs = [i \in 1 .. n |-> IF i \in act THEN SortedDir(dirOf[i]) ELSE <<>>]
  PROVE  /\ FlattenSeq(seqs) \in Seq(Paths)
         /\ Range(FlattenSeq(seqs)) = {p \in DOMAIN tree.unit : \E i \in act : p[1] = dirOf[i]}
         /\ \A p : \A q \in DOMAIN tree.unit :
              Later(p, q, act, dirOf) => After(FlattenSeq(seqs), p, q)
<1> DEFINE D == DOMAIN tree.unit
<1>1. \A i \in 1 .. n : seqs[i] \in Seq(Paths)
  <2>1. \A i \in 1 .. n : SortedDir(dirOf[i]) \in Seq(Paths) /\ <<>> \in Seq(Paths)
    BY SortedFacts, EmptySeq
  <2>2. \A i \in 1 .. n : seqs[i] = IF i \in act THEN SortedDir(dirOf[i]) ELSE <<>>
    OBVIOUS
  <2> QED
    BY <2>1, <2>2
<1>2. seqs \in Seq(Seq(Paths)) /\ Len(seqs) = n
  <2>1. seqs = [i \in 1 .. n |-> seqs[i]]
    OBVIOUS
  <2>2. seqs \in [1 .. n -> Seq(Paths)]
    BY <1>1, <2>1
  <2> QED
    BY <2>2
<1>3. \A i \in 1 .. n :
        /\ Len(seqs[i]) \in Nat
        /\ i \in act => seqs[i] = SortedDir(dirOf[i])
        /\ Range(seqs[i]) = IF i \in act THEN {p \in D : p[1] = dirOf[i]} ELSE {}
        /\ Range(seqs[i]) = {seqs[i][j] : j \in 1 .. Len(seqs[i])}
  <2> SUFFICES ASSUME NEW i \in 1 .. n
               PROVE  /\ Len(seqs[i]) \in Nat
                      /\ i \in act => seqs[i] = SortedDir(dirOf[i])
                      /\ Range(seqs[i]) = IF i \in act THEN {p \in D : p[1] = dirOf[i]} ELSE {}
                      /\ Range(seqs[i]) = {seqs[i][j] : j \in 1 .. Len(seqs[i])}
    OBVIOUS
  <2>1. seqs[i] = IF i \in act THEN SortedDir(dirOf[i]) ELSE <<>>
    OBVIOUS
  <2>2. Range(SortedDir(dirOf[i])) = {p \in D : p[1] = dirOf[i]}
    BY SortedFacts
  <2>3. Len(seqs[i]) \in Nat /\ DOMAIN seqs[i] = 1 .. Len(seqs[i])
    BY <1>1, LenProperties
  <2>4. Range(seqs[i]) = {seqs[i][j] : j \in 1 .. Len(seqs[i])}
    BY <2>3 DEF Range
  <2> HIDE DEF D
  <2> QED
    BY <2>1, <2>2, <2>3, <2>4, AtMostOne
<1>4. FlattenSeq(seqs) \in Seq(Paths)
      /\ Range(FlattenSeq(seqs)) = UNION {Range(seqs[i]) : i \in 1 .. n}
  BY <1>2, FlattenMembers
<1> HIDE DEF D
<1>5. /\ \A i \in 1 .. n : \A p :
           p \in Range(seqs[i]) <=> i \in act /\ p \in D /\ p[1] = dirOf[i]
      /\ \A i \in 1 .. n : \A p : p \in Range(seqs[i]) <=> \E l \in 1 .. Len(seqs[i]) : seqs[i][l] = p
  <2>1. ASSUME NEW i \in 1 .. n, NEW p
        PROVE  p \in Range(seqs[i]) <=> i \in act /\ p \in D /\ p[1] = dirOf[i]
    <3>1. Range(seqs[i]) = IF i \in act THEN {x \in D : x[1] = dirOf[i]} ELSE {}
      BY <1>3
    <3> HIDE DEF Range
    <3> QED
      BY <3>1
  <2>2. ASSUME NEW i \in 1 .. n, NEW p
        PROVE  p \in Range(seqs[i]) <=> \E l \in 1 .. Len(seqs[i]) : seqs[i][l] = p
    <3>1. Range(seqs[i]) = {seqs[i][j] : j \in 1 .. Len(seqs[i])}
      BY <1>3
    <3> QED
      BY <3>1
  <2> QED
    BY <2>1, <2>2
<1>6. UNION {Range(seqs[i]) : i \in 1 .. n} = {p \in D : \E i \in act : p[1] = dirOf[i]}
  <2>1. \A p : p \in UNION {Range(seqs[i]) : i \in 1 .. n} <=>
                 \E i \in act : p \in D /\ p[1] = dirOf[i]
    BY <1>5
  <2> QED
    BY <2>1
<1>7. ASSUME NEW p, NEW q \in D, NEW i \in act, dirOf[i] = q[1],
             \A j \in act : dirOf[j] = p[1] => j < i \/ (j = i /\ NameBefore(p, q))
      PROVE  After(FlattenSeq(seqs), p, q)
  <2>1. q \in Range(seqs[i])
    BY <1>5, <1>7
  <2>2. PICK j \in 1 .. Len(seqs[i]) : seqs[i][j] = q
    BY <1>5, <2>1
  <2>3. ASSUME NEW h \in 1 .. Len(seqs), NEW l \in 1 .. Len(seqs[h]), seqs[h][l] = p
        PROVE  h < i \/ (h = i /\ l < j)
    <3>1. h \in 1 .. n /\ p \in Range(seqs[h])
      BY <1>2, <1>5, <2>3
    <3>2. h \in act /\ p[1] = dirOf[h]
      BY <1>5, <3>1
    <3>3. CASE h < i
      BY <3>3
    <3>4. CASE h = i /\ NameBefore(p, q)
      <4>1. seqs[i] = SortedDir(dirOf[i]) /\ dirOf[i] \in Dirs
        BY <1>3
      <4>2. \A g, k \in 1 .. Len(seqs[i]) : NameBefore(seqs[i][g], seqs[i][k]) => g < k
        BY <4>1, SortedFacts
      <4> QED
        BY <2>2, <2>3, <3>4, <4>2
    <3> QED
      BY <1>7, <3>2, <3>3, <3>4
  <2>4. i \in 1 .. Len(seqs)
    BY <1>2
  <2> QED
    BY <1>2, <2>2, <2>3, <2>4, AfterFlatten
<1> QED
  BY <1>4, <1>6, <1>7 DEF Later, D

\* The paths that are loaded are those that are listed, in the order in which they
\* override each other.
LEMMA LoadOrderFacts ==
  ASSUME tree \in Trees
  PROVE  /\ LoadOrder \in Seq(Paths)
         /\ \A p \in Range(LoadOrder) : Listed(p)
         /\ \A p \in DOMAIN tree.unit : Listed(p) => p \in Range(LoadOrder)
         /\ \A p \in Paths : \A q \in DOMAIN tree.unit : Overrides(q, p) => After(LoadOrder, p, q)
<1> DEFINE named == FlattenSeq([i \in 1 .. Len(UnitDirs) |-> SortedDir(UnitDirs[i])])
           default == default_user_unit_paths
<1>1. /\ UnitFiles \in Seq(Paths) /\ UnitDirs \in Seq(Dirs) /\ DefaultDirs \subseteq Dirs
      /\ HomeOf \in Seq(Homes) /\ DOMAIN tree.unit \subseteq Paths
  BY CatalogAssumption DEF CatalogAssumption
<1>2. /\ Len(UnitDirs) \in Nat /\ UnitDirs \in [1 .. Len(UnitDirs) -> Dirs]
      /\ Range(UnitDirs) = {UnitDirs[i] : i \in 1 .. Len(UnitDirs)}
      /\ DOMAIN UnitDirs = 1 .. Len(UnitDirs)
  BY <1>1, LenProperties, ElementOfSeq DEF Range
<1>3. Len(HomeOf) \in Nat /\ Dirs = 1 .. Len(HomeOf)
  BY <1>1, LenProperties DEF Dirs
<1>4. /\ Len(UnitFiles) \in Nat /\ DOMAIN UnitFiles = 1 .. Len(UnitFiles)
      /\ Range(UnitFiles) = {UnitFiles[i] : i \in 1 .. Len(UnitFiles)}
  BY <1>1, LenProperties DEF Range
<1>5. /\ named \in Seq(Paths)
      /\ Range(named) = {p \in DOMAIN tree.unit : p[1] \in Range(UnitDirs)}
      /\ \A p : \A q \in DOMAIN tree.unit :
           Later(p, q, DOMAIN UnitDirs, UnitDirs) => After(named, p, q)
  <2> DEFINE n == Len(UnitDirs)
             act == DOMAIN UnitDirs
             seqs == [i \in 1 .. n |-> SortedDir(UnitDirs[i])]
  <2>1. seqs = [i \in 1 .. n |-> IF i \in act THEN SortedDir(UnitDirs[i]) ELSE <<>>]
    BY <1>2
  <2>2. named = FlattenSeq(seqs)
    OBVIOUS
  <2>3. n \in Nat /\ act \in SUBSET (1 .. n) /\ UnitDirs \in [1 .. n -> Dirs]
    BY <1>2
  <2>4. Range(UnitDirs) = {UnitDirs[i] : i \in act}
    BY <1>2
  <2> HIDE DEF n, act, seqs, named
  <2>5. /\ FlattenSeq(seqs) \in Seq(Paths)
        /\ Range(FlattenSeq(seqs)) = {p \in DOMAIN tree.unit : \E i \in act : p[1] = UnitDirs[i]}
        /\ \A p : \A q \in DOMAIN tree.unit :
             Later(p, q, act, UnitDirs) => After(FlattenSeq(seqs), p, q)
    BY <2>1, <2>3, DirectoriesFacts
  <2>6. \A p : (\E i \in act : p[1] = UnitDirs[i]) <=> p[1] \in Range(UnitDirs)
    BY <2>4
  <2>7. Range(named) = {p \in DOMAIN tree.unit : p[1] \in Range(UnitDirs)}
    BY <2>2, <2>5, <2>6
  <2> QED
    BY <2>2, <2>5, <2>7 DEF act
<1>6. /\ default \in Seq(Paths)
      /\ Range(default) = {p \in DOMAIN tree.unit : p[1] \in DefaultDirs}
      /\ \A p \in Paths : \A q \in DOMAIN tree.unit :
           /\ q[1] \in DefaultDirs
           /\ p[1] \in DefaultDirs => p[1] < q[1] \/ (p[1] = q[1] /\ NameBefore(p, q))
           => After(default, p, q)
  <2> DEFINE n == Len(HomeOf)
             self == [d \in 1 .. n |-> d]
             seqs == [d \in 1 .. n |-> IF d \in DefaultDirs THEN SortedDir(d) ELSE <<>>]
  <2>1. seqs = [d \in 1 .. n |-> IF d \in DefaultDirs THEN SortedDir(self[d]) ELSE <<>>]
    OBVIOUS
  <2>2. default = FlattenSeq(seqs)
    BY DEF default_user_unit_paths
  <2>3. /\ n \in Nat /\ self \in [1 .. n -> Dirs] /\ DefaultDirs \in SUBSET (1 .. n)
        /\ \A d \in DefaultDirs : self[d] = d
    BY <1>1, <1>3
  <2> HIDE DEF n, self, seqs, default
  <2>4. /\ FlattenSeq(seqs) \in Seq(Paths)
        /\ Range(FlattenSeq(seqs)) =
             {p \in DOMAIN tree.unit : \E d \in DefaultDirs : p[1] = self[d]}
        /\ \A p : \A q \in DOMAIN tree.unit :
             Later(p, q, DefaultDirs, self) => After(FlattenSeq(seqs), p, q)
    BY <2>1, <2>3, DirectoriesFacts
  <2>5. \A p : (\E d \in DefaultDirs : p[1] = self[d]) <=> p[1] \in DefaultDirs
    BY <2>3
  <2>6. Range(default) = {p \in DOMAIN tree.unit : p[1] \in DefaultDirs}
    BY <2>2, <2>4, <2>5
  <2>7. ASSUME NEW p \in Paths, NEW q \in DOMAIN tree.unit, q[1] \in DefaultDirs,
               p[1] \in DefaultDirs => p[1] < q[1] \/ (p[1] = q[1] /\ NameBefore(p, q))
        PROVE  Later(p, q, DefaultDirs, self)
    BY <2>3, <2>7 DEF Later
  <2> QED
    BY <2>2, <2>4, <2>6, <2>7
<1> DEFINE first == UnitFiles \o named
<1>7. LoadOrder = first \o default
  BY DEF LoadOrder
<1> HIDE DEF named, default
<1>8. /\ first \in Seq(Paths) /\ Range(first) = Range(UnitFiles) \cup Range(named)
      /\ \A p, q : /\ After(named, p, q) => After(first, p, q)
                   /\ After(UnitFiles, p, q) /\ p \notin Range(named) => After(first, p, q)
  BY <1>1, <1>5, AfterConcat
<1> HIDE DEF first
<1>9. /\ LoadOrder \in Seq(Paths) /\ Range(LoadOrder) = Range(first) \cup Range(default)
      /\ \A p, q : /\ After(default, p, q) => After(LoadOrder, p, q)
                   /\ After(first, p, q) /\ p \notin Range(default) => After(LoadOrder, p, q)
  <2> DEFINE all == first \o default
  <2>1. default \in Seq(Paths) /\ first \in Seq(Paths)
    BY <1>6, <1>8
  <2>2. /\ all \in Seq(Paths) /\ Range(all) = Range(first) \cup Range(default)
        /\ \A p, q : /\ After(default, p, q) => After(all, p, q)
                     /\ After(first, p, q) /\ p \notin Range(default) => After(all, p, q)
    BY <2>1, AfterConcat
  <2>3. LoadOrder = all
    BY <1>7
  <2> HIDE DEF all
  <2> QED
    BY <2>2, <2>3
<1>10. \A p \in Range(LoadOrder) : Listed(p)
  BY <1>5, <1>6, <1>8, <1>9 DEF Listed
<1>11. \A p \in DOMAIN tree.unit : Listed(p) => p \in Range(LoadOrder)
  BY <1>5, <1>6, <1>8, <1>9 DEF Listed
<1>12. ASSUME NEW p \in Paths, NEW q \in DOMAIN tree.unit, Overrides(q, p) PROVE After(LoadOrder, p, q)
  <2>1. CASE /\ q[1] \in DefaultDirs
             /\ p[1] \in DefaultDirs => p[1] < q[1] \/ (p[1] = q[1] /\ NameBefore(p, q))
    BY <1>6, <1>9, <2>1
  <2>2. CASE /\ {p[1], q[1]} \cap DefaultDirs = {}
             /\ \E i \in DOMAIN UnitDirs :
                  /\ UnitDirs[i] = q[1]
                  /\ \A j \in DOMAIN UnitDirs :
                       UnitDirs[j] = p[1] => j < i \/ (j = i /\ NameBefore(p, q))
    <3>0. Later(p, q, DOMAIN UnitDirs, UnitDirs)
      BY <2>2 DEF Later
    <3>1. After(first, p, q)
      BY <1>5, <1>8, <3>0
    <3>2. p \notin Range(default)
      BY <1>6, <2>2
    <3> QED
      BY <1>9, <3>1, <3>2
  <2>3. CASE /\ {p[1], q[1]} \cap (DefaultDirs \cup Range(UnitDirs)) = {}
             /\ \E i \in DOMAIN UnitFiles :
                  /\ UnitFiles[i] = q
                  /\ \A j \in DOMAIN UnitFiles : UnitFiles[j] = p => j < i
    <3>1. After(UnitFiles, p, q)
      BY <1>4, <2>3 DEF After
    <3>2. p \notin Range(named) /\ p \notin Range(default)
      BY <1>5, <1>6, <2>3
    <3> QED
      BY <1>8, <1>9, <3>1, <3>2
  <2> QED
    BY <1>12, <2>1, <2>2, <2>3 DEF Overrides
<1> QED
  BY <1>9, <1>10, <1>11, <1>12

---------------------------------------------------------------------------------
(* The files do not change, nor what has been said of them.                           *)

\* What is read from the files.
LEMMA SameTree ==
  ASSUME tree' = tree
  PROVE  /\ LoadOrder' = LoadOrder
         /\ \A path : Raises(path)' <=> Raises(path)
         /\ \A path : PathTargets(path)' = PathTargets(path)
<1>1. LoadOrder' = LoadOrder
  BY DEF LoadOrder, default_user_unit_paths, SortedDir
<1>2. \A path : Raises(path)' <=> Raises(path)
  BY DEF Raises, Unreadable, IsTemplate, TemplateRaises, UnitRaises, Undecodable,
         InstanceFiles, EnvironmentFiles, environment_file_paths, urls_from_env_file,
         UnitUrls
<1>3. \A path : PathTargets(path)' = PathTargets(path)
  BY DEF PathTargets, template_instance_targets, UnitTargets, Unreadable, IsTemplate,
         InstanceFiles, EnvironmentFiles, environment_file_paths, urls_from_env_file,
         UnitUrls
<1> QED
  BY <1>1, <1>2, <1>3

---------------------------------------------------------------------------------
(* The inductive invariant.                                                           *)

\* The targets of each path, in the order of the paths.
PathLists == [i \in 1 .. Len(LoadOrder) |-> PathTargets(LoadOrder[i])]

\* n paths have been loaded: the targets are theirs, one path after the other.
Progress(n, at) ==
  /\ n <= Len(LoadOrder) /\ Len(todo) = Len(LoadOrder) - n
  /\ \A k \in 1 .. Len(todo) : todo[k] = LoadOrder[n + k]
  /\ \A i \in 1 .. n : ~Raises(LoadOrder[i])
  /\ Laid(Target, PathLists, n, at, targets)

LoadInv ==
  /\ pc = "load" => \E n \in Nat : \E at : Progress(n, at)
  /\ pc = "failed" => \E path \in Range(LoadOrder) : Raises(path)

TypesInv ==
  /\ tree \in Trees /\ pc \in {"load", "resolve", "ready", "failed"}
  /\ todo \in Seq(Paths) /\ targets \in Seq(Target)
  /\ asked \subseteq DOMAIN targets /\ moved \subseteq asked
  /\ dns \in [Hosts -> SUBSET Addresses] /\ moves \in 0 .. MaxMoves

\* What has been asked and has not moved since is what the resolver answers.
ResolveInv ==
  /\ pc \in {"load", "failed"} => asked = {}
  /\ \A i \in asked : i \notin moved => targets[i].addresses = dns[targets[i].host]
  /\ pc = "ready" /\ Resolve => asked = DOMAIN targets

CatalogInv == TypesInv /\ ResolveInv /\ LoadInv

LEMMA InitInv == Init => CatalogInv
<1> SUFFICES ASSUME Init PROVE CatalogInv
  OBVIOUS
<1>1. LoadOrder \in Seq(Paths) /\ Len(LoadOrder) \in Nat
  BY LoadOrderFacts, LenProperties DEF Init
<1>2. <<>> \in Seq(Target) /\ Len(<<>>) = 0 /\ 1 .. 0 = {}
  BY EmptySeq
<1>3. MaxMoves \in Nat
  BY CatalogAssumption DEF CatalogAssumption
<1>4. TypesInv
  BY <1>1, <1>2, <1>3 DEF Init, TypesInv
<1>5. ResolveInv
  BY DEF Init, ResolveInv
<1>6. Laid(Target, PathLists, 0, [i \in {} |-> 0], <<>>)
  BY <1>2 DEF Laid
<1>7. Progress(0, [i \in {} |-> 0])
  BY <1>1, <1>2, <1>6 DEF Init, Progress
<1>8. LoadInv
  BY <1>7 DEF Init, LoadInv
<1> QED
  BY <1>4, <1>5, <1>8 DEF CatalogInv

\* A step that leaves the files and the load alone.
LEMMA LoadInvKept ==
  ASSUME LoadInv, tree' = tree,
         pc' \in {"load", "failed"} => UNCHANGED <<pc, todo, targets>>
  PROVE  LoadInv'
<1>1. /\ LoadOrder' = LoadOrder /\ PathLists' = PathLists
      /\ \A path : Raises(path)' <=> Raises(path)
  BY SameTree DEF PathLists
<1>2. CASE pc' \in {"load", "failed"}
  <2>1. UNCHANGED <<pc, todo, targets>>
    BY <1>2
  <2>2. \A n, at : Progress(n, at)' <=> Progress(n, at)
    BY <1>1, <2>1 DEF Progress, Laid
  <2> QED
    BY <1>1, <2>1, <2>2 DEF LoadInv
<1>3. CASE pc' \notin {"load", "failed"}
  BY <1>3 DEF LoadInv
<1> QED
  BY <1>2, <1>3

\* One more path.
LEMMA LoadPathStep == CatalogInv /\ LoadPath => CatalogInv'
<1> SUFFICES ASSUME CatalogInv, LoadPath PROVE CatalogInv'
  OBVIOUS
<1>1. /\ LoadOrder' = LoadOrder
      /\ \A path : Raises(path)' <=> Raises(path)
      /\ \A path : PathTargets(path)' = PathTargets(path)
      /\ PathLists' = PathLists
  <2>1. tree' = tree
    BY DEF LoadPath
  <2> QED
    BY <2>1, SameTree DEF PathLists
<1>2. /\ tree \in Trees /\ pc = "load" /\ todo \in Seq(Paths) /\ todo # <<>>
      /\ targets \in Seq(Target) /\ asked = {} /\ moved = {}
      /\ dns \in [Hosts -> SUBSET Addresses] /\ moves \in 0 .. MaxMoves
      /\ UNCHANGED <<tree, asked, dns, moved, moves>>
  BY DEF CatalogInv, TypesInv, ResolveInv, LoadPath
<1>3. PICK n \in Nat : \E at : Progress(n, at)
  BY <1>2 DEF CatalogInv, LoadInv
<1>4. PICK at : Progress(n, at)
  BY <1>3
<1>5. LoadOrder \in Seq(Paths) /\ Len(LoadOrder) \in Nat /\ DOMAIN LoadOrder = 1 .. Len(LoadOrder)
  BY <1>2, LoadOrderFacts, LenProperties
<1>6. /\ Len(todo) \in Nat /\ Len(todo) # 0 /\ Head(todo) = todo[1] /\ todo[1] \in Paths
      /\ Tail(todo) \in Seq(Paths) /\ Len(Tail(todo)) = Len(todo) - 1
      /\ \A k \in 1 .. Len(todo) - 1 : Tail(todo)[k] = todo[k + 1]
  <2>1. Len(todo) \in Nat /\ Len(todo) # 0
    BY <1>2, LenProperties, EmptySeq
  <2>2. 1 \in 1 .. Len(todo)
    BY <2>1
  <2>3. Head(todo) = todo[1] /\ todo[1] \in Paths
    BY <1>2, <2>2, ElementOfSeq, HeadTailProperties
  <2> QED
    BY <1>2, <2>1, <2>3, HeadTailProperties
<1> DEFINE path == Head(todo)
<1>7. n + 1 \in 1 .. Len(LoadOrder) /\ path = LoadOrder[n + 1] /\ path \in Paths
  BY <1>4, <1>5, <1>6 DEF Progress
<1> HIDE DEF path
<1>8. CASE Raises(path)
  <2>1. pc' = "failed" /\ UNCHANGED <<todo, targets>>
    BY <1>8 DEF LoadPath, path
  <2>2. path \in Range(LoadOrder)
    BY <1>5, <1>7 DEF Range
  <2>3. LoadInv'
    BY <1>1, <1>8, <2>1, <2>2 DEF LoadInv
  <2>4. TypesInv' /\ ResolveInv'
    BY <1>2, <2>1 DEF TypesInv, ResolveInv
  <2> QED
    BY <2>3, <2>4 DEF CatalogInv
<1>9. CASE ~Raises(path)
  <2>1. pc' = "load" /\ todo' = Tail(todo) /\ targets' = targets \o PathTargets(path)
    BY <1>2, <1>9 DEF LoadPath, path
  <2>2. PathTargets(path) \in Seq(Target)
    BY <1>2, <1>7, <1>9, TargetsOfPath
  <2>3. targets' \in Seq(Target)
    BY <1>2, <2>1, <2>2, ConcatProperties
  <2>4. TypesInv' /\ ResolveInv'
    BY <1>2, <1>6, <2>1, <2>3 DEF TypesInv, ResolveInv
  <2>5. PICK at2 : at2[n + 1] = Len(targets) /\ \A i \in 1 .. n : at2[i] = at[i]
    <3> DEFINE at3 == [i \in 1 .. n + 1 |-> IF i = n + 1 THEN Len(targets) ELSE at[i]]
    <3>1. at3[n + 1] = Len(targets) /\ \A i \in 1 .. n : at3[i] = at[i]
      OBVIOUS
    <3> QED
      BY <3>1
  <2>6. /\ \A i \in 1 .. n + 1 : ~Raises(LoadOrder[i])
        /\ \A i \in 1 .. n + 1 : i \in 1 .. Len(LoadOrder)
    BY <1>4, <1>5, <1>7, <1>9 DEF Progress
  <2>7. \A i \in 1 .. n + 1 : PathLists[i] = PathTargets(LoadOrder[i])
    BY <2>6 DEF PathLists
  <2>8. \A i \in 1 .. n + 1 : Len(PathLists[i]) \in Nat
    <3>1. \A i \in 1 .. n + 1 : LoadOrder[i] \in Paths
      BY <1>5, <2>6, ElementOfSeq
    <3>2. \A i \in 1 .. n + 1 : PathLists[i] \in Seq(Target)
      BY <1>2, <2>6, <2>7, <3>1, TargetsOfPath
    <3> QED
      BY <3>2, LenProperties
  <2>9. Laid(Target, PathLists, n, at2, targets)
    <3>1. Laid(Target, PathLists, n, at, targets)
      BY <1>4 DEF Progress
    <3> QED
      BY <2>5, <3>1, LaidAt
  <2>10. PathLists[n + 1] = PathTargets(path)
    BY <1>7, <2>7
  <2>11. Laid(Target, PathLists, n + 1, at2, targets')
    <3>1. Laid(Target, PathLists, n + 1, at2, targets \o PathLists[n + 1])
      BY <2>2, <2>5, <2>8, <2>9, <2>10, LaidOneMore
    <3> QED
      BY <2>1, <2>10, <3>1
  <2>12. /\ n + 1 <= Len(LoadOrder) /\ Len(todo') = Len(LoadOrder) - (n + 1)
         /\ \A k \in 1 .. Len(todo') : todo'[k] = LoadOrder[n + 1 + k]
    BY <1>4, <1>5, <1>6, <1>7, <2>1 DEF Progress
  <2>13. Progress(n + 1, at2)'
    BY <1>1, <2>6, <2>11, <2>12 DEF Progress, Laid
  <2>14. LoadInv'
    BY <2>1, <2>13 DEF LoadInv
  <2> QED
    BY <2>4, <2>14 DEF CatalogInv
<1> QED
  BY <1>8, <1>9

\* A target's host is asked for: what has been asked before keeps what it got, or moves.
LEMMA ResolveStep == CatalogInv /\ resolve_channel_targets => CatalogInv'
<1> SUFFICES ASSUME CatalogInv, resolve_channel_targets PROVE CatalogInv'
  OBVIOUS
<1>1. PICK i \in DOMAIN targets \ asked : \E answer \in SUBSET Addresses :
        /\ pc = "resolve"
        /\ asked' = asked \cup {i} /\ Answers(targets[i].host, answer)
        /\ targets' = [targets EXCEPT ![i].addresses =
                         {a \in answer : a[1] \in {"AF_INET", "AF_INET6"}}]
        /\ UNCHANGED <<tree, pc, todo, moves>>
  BY DEF resolve_channel_targets
<1>2. PICK answer \in SUBSET Addresses :
        /\ pc = "resolve"
        /\ asked' = asked \cup {i} /\ Answers(targets[i].host, answer)
        /\ targets' = [targets EXCEPT ![i].addresses =
                         {a \in answer : a[1] \in {"AF_INET", "AF_INET6"}}]
        /\ UNCHANGED <<tree, pc, todo, moves>>
  BY <1>1
<1>3. {a \in answer : a[1] \in {"AF_INET", "AF_INET6"}} = answer
  BY CatalogAssumption DEF CatalogAssumption
<1>4. /\ targets \in Seq(Target) /\ Len(targets) \in Nat /\ DOMAIN targets = 1 .. Len(targets)
      /\ targets \in [1 .. Len(targets) -> Target]
      /\ \A k \in DOMAIN targets : targets[k] \in Target
  BY ElementOfSeq, LenProperties DEF CatalogInv, TypesInv
<1> DEFINE got == [targets[i] EXCEPT !.addresses = answer]
<1>5. targets' = [targets EXCEPT ![i] = got]
  BY <1>2, <1>3
<1>6. got \in Target /\ got.addresses = answer /\ got.host = targets[i].host
  <2>1. targets[i] \in Target
    BY <1>4
  <2> QED
    BY <2>1 DEF Target
<1> HIDE DEF got
<1>7. /\ targets' \in Seq(Target) /\ DOMAIN targets' = DOMAIN targets
      /\ targets'[i] = got
      /\ \A k \in DOMAIN targets : k # i => targets'[k] = targets[k]
  <2>1. targets' \in [1 .. Len(targets) -> Target]
    BY <1>4, <1>5, <1>6
  <2>2. targets' \in Seq(Target)
    BY <1>4, <2>1
  <2> QED
    BY <1>4, <1>5, <2>2
<1> DEFINE host == targets[i].host
<1>8. host \in Hosts /\ dns \in [Hosts -> SUBSET Addresses]
  <2>1. targets[i] \in Target
    BY <1>4
  <2> QED
    BY <2>1 DEF Target, CatalogInv, TypesInv
<1>9. /\ dns' = [dns EXCEPT ![host] = answer]
      /\ moved' = IF answer = dns[host] THEN moved
                  ELSE moved \cup {k \in asked : targets[k].host = host}
  BY <1>2 DEF Answers
<1> HIDE DEF host
<1>10. TypesInv'
  <2>1. dns' \in [Hosts -> SUBSET Addresses]
    BY <1>8, <1>9
  <2>2. asked' \subseteq DOMAIN targets' /\ moved' \subseteq asked'
    BY <1>2, <1>7, <1>9 DEF CatalogInv, TypesInv
  <2> QED
    BY <1>2, <1>7, <2>1, <2>2 DEF CatalogInv, TypesInv
<1>11. ResolveInv'
  <2>1. ASSUME NEW k \in asked', k \notin moved'
        PROVE  targets'[k].addresses = dns'[targets'[k].host]
    <3>1. CASE k = i
      <4>1. targets'[k].addresses = answer /\ targets'[k].host = host
        BY <1>6, <1>7, <3>1 DEF host
      <4> QED
        BY <1>8, <1>9, <4>1
    <3>2. CASE k # i
      <4>1. k \in asked /\ k \notin moved /\ k \in DOMAIN targets
        BY <1>2, <1>9, <2>1, <3>2 DEF CatalogInv, TypesInv
      <4>2. targets'[k] = targets[k] /\ targets[k].addresses = dns[targets[k].host]
        BY <1>7, <3>2, <4>1 DEF CatalogInv, ResolveInv
      <4>3. targets[k].host \in Hosts
        BY <1>4, <4>1 DEF Target
      <4>4. dns'[targets[k].host] = dns[targets[k].host]
        BY <1>8, <1>9, <2>1, <4>1, <4>3
      <4> QED
        BY <4>2, <4>4
    <3> QED
      BY <3>1, <3>2
  <2> QED
    BY <1>2, <2>1 DEF ResolveInv
<1>12. LoadInv'
  BY <1>2, LoadInvKept DEF CatalogInv
<1> QED
  BY <1>10, <1>11, <1>12 DEF CatalogInv

\* A host's addresses change: its targets have moved.
LEMMA MovesStep == CatalogInv /\ Moves => CatalogInv'
<1> SUFFICES ASSUME CatalogInv, Moves PROVE CatalogInv'
  OBVIOUS
<1>1. PICK host \in Hosts : \E answer \in SUBSET Addresses : Answers(host, answer)
  BY DEF Moves
<1>2. PICK answer \in SUBSET Addresses : Answers(host, answer)
  BY <1>1
<1>3. /\ pc = "ready" /\ moves < MaxMoves /\ moves' = moves + 1
      /\ UNCHANGED <<tree, pc, todo, targets, asked>>
  BY DEF Moves
<1>4. /\ dns' = [dns EXCEPT ![host] = answer]
      /\ moved' = IF answer = dns[host] THEN moved
                  ELSE moved \cup {k \in asked : targets[k].host = host}
  BY <1>2 DEF Answers
<1>5. TypesInv /\ MaxMoves \in Nat
  BY CatalogAssumption DEF CatalogInv, CatalogAssumption
<1>6. TypesInv'
  <2>1. dns' \in [Hosts -> SUBSET Addresses] /\ moved' \subseteq asked
    BY <1>4, <1>5 DEF TypesInv
  <2>2. moves' \in 0 .. MaxMoves
    BY <1>3, <1>5 DEF TypesInv
  <2> QED
    BY <1>3, <1>5, <2>1, <2>2 DEF TypesInv
<1>7. ResolveInv'
  <2>1. ASSUME NEW k \in asked, k \notin moved'
        PROVE  targets[k].addresses = dns'[targets[k].host]
    <3>1. k \notin moved /\ targets[k].addresses = dns[targets[k].host]
      BY <1>4, <2>1 DEF CatalogInv, ResolveInv
    <3>2. targets[k].host \in Hosts
      <4>1. targets[k] \in Target
        BY <1>5, ElementOfSeq, LenProperties DEF TypesInv
      <4> QED
        BY <4>1 DEF Target
    <3>3. dns'[targets[k].host] = dns[targets[k].host]
      BY <1>4, <1>5, <2>1, <3>2 DEF TypesInv
    <3> QED
      BY <3>1, <3>3
  <2> QED
    BY <1>3, <2>1 DEF CatalogInv, ResolveInv
<1>8. LoadInv'
  BY <1>3, LoadInvKept DEF CatalogInv
<1> QED
  BY <1>6, <1>7, <1>8 DEF CatalogInv

\* Every reachable state satisfies the invariant.
LEMMA Inductive == Spec => []CatalogInv
<1>1. CatalogInv /\ [Next]_vars => CatalogInv'
  <2> SUFFICES ASSUME CatalogInv, [Next]_vars PROVE CatalogInv'
    OBVIOUS
  <2>1. CASE LoadPath
    BY <2>1, LoadPathStep
  <2>2. CASE Loaded
    <3>1. /\ pc = "load" /\ pc' \in {"resolve", "ready"} /\ (pc' = "ready" => ~Resolve)
          /\ UNCHANGED <<tree, todo, targets, asked, dns, moved, moves>>
      BY <2>2 DEF Loaded
    <3>2. TypesInv' /\ ResolveInv'
      BY <3>1 DEF CatalogInv, TypesInv, ResolveInv
    <3>3. LoadInv'
      BY <3>1, LoadInvKept DEF CatalogInv
    <3> QED
      BY <3>2, <3>3 DEF CatalogInv
  <2>3. CASE resolve_channel_targets
    BY <2>3, ResolveStep
  <2>4. CASE Resolved
    <3>1. /\ pc' = "ready" /\ asked = DOMAIN targets
          /\ UNCHANGED <<tree, todo, targets, asked, dns, moved, moves>>
      BY <2>4 DEF Resolved
    <3>2. TypesInv' /\ ResolveInv'
      BY <3>1 DEF CatalogInv, TypesInv, ResolveInv
    <3>3. LoadInv'
      BY <3>1, LoadInvKept DEF CatalogInv
    <3> QED
      BY <3>2, <3>3 DEF CatalogInv
  <2>5. CASE Moves
    BY <2>5, MovesStep
  <2>6. CASE UNCHANGED vars
    <3>1. UNCHANGED <<tree, pc, todo, targets, asked, dns, moved, moves>>
      BY <2>6 DEF vars
    <3>2. TypesInv' /\ ResolveInv'
      BY <3>1 DEF CatalogInv, TypesInv, ResolveInv
    <3>3. LoadInv'
      BY <3>1, LoadInvKept DEF CatalogInv
    <3> QED
      BY <3>2, <3>3 DEF CatalogInv
  <2> QED
    BY <2>1, <2>2, <2>3, <2>4, <2>5, <2>6 DEF Next
<1> QED
  BY <1>1, InitInv, PTL DEF Spec

---------------------------------------------------------------------------------
(* Type correctness, and what a flow is compared with.                                *)

\* Type correctness: the catalog under construction.
THEOREM TypeCorrect == Spec => []TypeOK
<1>1. CatalogInv => TypeOK
  <2> SUFFICES ASSUME CatalogInv PROVE TypeOK
    OBVIOUS
  <2>1. TypesInv
    BY DEF CatalogInv
  <2>2. \A i \in DOMAIN targets : targets[i] \in Target
    BY <2>1, ElementOfSeq, LenProperties DEF TypesInv
  <2>3. \A i \in DOMAIN targets :
          /\ targets[i].host \in Hosts /\ targets[i].port \in TargetPorts
          /\ targets[i].addresses \subseteq Addresses
    BY <2>2 DEF Target
  <2> QED
    BY <2>1, <2>3 DEF TypesInv, TypeOK
<1> QED
  BY <1>1, Inductive, PTL

\* The target of a unit is the last one that is its.
LEMMA TargetOfFacts ==
  ASSUME targets \in Seq(Target), NEW unit \in Units
  PROVE  /\ TargetOf(unit) \in DOMAIN targets /\ targets[TargetOf(unit)].unit = unit
         /\ \A j \in DOMAIN targets : targets[j].unit = unit => j <= TargetOf(unit)
         /\ by_unit[unit] = targets[TargetOf(unit)]
<1>1. DOMAIN targets = 1 .. Len(targets) /\ Len(targets) \in Nat
  BY LenProperties
<1> DEFINE S == {n \in Nat : \E i \in DOMAIN targets :
                               targets[i].unit = unit /\ n = Len(targets) - i}
<1>2. PICK i \in DOMAIN targets : targets[i].unit = unit
  BY DEF Units
<1>3. Len(targets) - i \in S
  BY <1>1, <1>2
<1>4. PICK n \in S : \A m \in S : n <= m
  BY <1>3, LeastNatural
<1>5. PICK k \in DOMAIN targets : targets[k].unit = unit /\ n = Len(targets) - k
  BY <1>4
<1>6. ASSUME NEW j \in DOMAIN targets, targets[j].unit = unit PROVE j <= k
  <2>1. Len(targets) - j \in S
    BY <1>1, <1>6
  <2>2. n <= Len(targets) - j
    BY <1>4, <2>1
  <2> QED
    BY <1>1, <1>5, <2>2
<1>7. \E h \in DOMAIN targets :
        targets[h].unit = unit /\ \A j \in DOMAIN targets : targets[j].unit = unit => j <= h
  BY <1>5, <1>6
<1> HIDE DEF S
<1>8. /\ TargetOf(unit) \in DOMAIN targets /\ targets[TargetOf(unit)].unit = unit
      /\ \A j \in DOMAIN targets : targets[j].unit = unit => j <= TargetOf(unit)
  BY <1>7 DEF TargetOf
<1> QED
  BY <1>8 DEF by_unit

\* While a unit's host has not moved, a flow of the unit is matched exactly if it goes to
\* the target's port and to what the resolver answers, or the resolver had no answer.
THEOREM MatchFollowsTheResolver == Spec => []MatchIsTheResolversAnswer
<1>1. CatalogInv => MatchIsTheResolversAnswer
  <2> SUFFICES ASSUME CatalogInv, pc = "ready", Resolve, NEW unit \in Units, NEW ip \in Addresses,
                      NEW port \in {url.port : url \in Urls} \cup {80, 443},
                      TargetOf(unit) \notin moved
               PROVE  match(unit, ip, port) = "matched" <=>
                        /\ port = by_unit[unit].port
                        /\ dns[by_unit[unit].host] # {} => ip \in dns[by_unit[unit].host]
    BY DEF MatchIsTheResolversAnswer
  <2> DEFINE i == TargetOf(unit)
             target == by_unit[unit]
  <2>1. i \in DOMAIN targets /\ target = targets[i]
    BY TargetOfFacts DEF CatalogInv, TypesInv
  <2>2. i \in asked /\ i \notin moved
    BY <2>1 DEF CatalogInv, ResolveInv
  <2>3. target.addresses = dns[target.host]
    BY <2>1, <2>2 DEF CatalogInv, ResolveInv
  <2>4. match(unit, ip, port) =
          IF target.port # port THEN "unexpected_flow"
          ELSE IF target.addresses # {} /\ ip \notin target.addresses THEN "unexpected_flow"
          ELSE "matched"
    BY DEF match
  <2> HIDE DEF target
  <2>5. match(unit, ip, port) = "matched" <=>
          ~(target.port # port) /\ ~(target.addresses # {} /\ ip \notin target.addresses)
    BY <2>4
  <2> QED
    BY <2>3, <2>5 DEF target
<1> QED
  BY <1>1, Inductive, PTL

---------------------------------------------------------------------------------
(* Which file decides, and what stops a load.                                         *)

\* Once every path is loaded: the targets of all of them, none of which stopped the load.
LEMMA WhenLoaded ==
  ASSUME CatalogInv, JustLoaded
  PROVE  /\ \A i \in 1 .. Len(LoadOrder) : ~Raises(LoadOrder[i])
         /\ \E at : Laid(Target, PathLists, Len(LoadOrder), at, targets)
<1>1. PICK n \in Nat : \E at : Progress(n, at)
  BY DEF CatalogInv, LoadInv, JustLoaded
<1>2. PICK at : Progress(n, at)
  BY <1>1
<1>3. Len(LoadOrder) \in Nat
  BY LoadOrderFacts, LenProperties DEF CatalogInv, TypesInv
<1>4. Len(todo) = 0
  BY EmptySeq DEF JustLoaded
<1>5. n = Len(LoadOrder)
  BY <1>2, <1>3, <1>4 DEF Progress
<1> QED
  BY <1>2, <1>5 DEF Progress

\* A load fails only for a bad path, and does not succeed with one.
THEOREM StopsExactlyForABadUrl == Spec => []StopsForABadUrlOnly
<1>1. CatalogInv => StopsForABadUrlOnly
  <2> SUFFICES ASSUME CatalogInv PROVE StopsForABadUrlOnly
    OBVIOUS
  <2>1. tree \in Trees
    BY DEF CatalogInv, TypesInv
  <2>2. /\ LoadOrder \in Seq(Paths) /\ DOMAIN LoadOrder = 1 .. Len(LoadOrder)
        /\ Range(LoadOrder) = {LoadOrder[i] : i \in 1 .. Len(LoadOrder)}
        /\ Range(LoadOrder) \subseteq Paths
    BY <2>1, LoadOrderFacts, LenProperties, ElementOfSeq DEF Range
  <2>3. ASSUME pc = "failed" PROVE \E path \in Paths : Bad(path)
    <3>1. PICK path \in Range(LoadOrder) : Raises(path)
      BY <2>3 DEF CatalogInv, LoadInv
    <3>2. path \in Paths /\ Listed(path)
      BY <2>1, <2>2, LoadOrderFacts
    <3> QED
      BY <2>1, <3>1, <3>2, RaisesIsBad
  <2>4. ASSUME JustLoaded, NEW path \in Paths PROVE ~Bad(path)
    <3> SUFFICES ASSUME Bad(path) PROVE FALSE
      OBVIOUS
    <3>1. Raises(path) /\ Listed(path)
      BY <2>1, RaisesIsBad
    <3>2. path \in DOMAIN tree.unit
      BY DEF Bad
    <3>3. path \in Range(LoadOrder)
      BY <2>1, <3>1, <3>2, LoadOrderFacts
    <3>4. \A i \in 1 .. Len(LoadOrder) : ~Raises(LoadOrder[i])
      BY <2>4, WhenLoaded
    <3> QED
      BY <2>2, <3>1, <3>3, <3>4
  <2> QED
    BY <2>3, <2>4 DEF StopsForABadUrlOnly
<1> QED
  BY <1>1, Inductive, PTL

\* Where the targets of each path are, once all are loaded.
LEMMA Placed ==
  ASSUME CatalogInv, NEW at, Laid(Target, PathLists, Len(LoadOrder), at, targets),
         \A i \in 1 .. Len(LoadOrder) : ~Raises(LoadOrder[i])
  PROVE  \A i \in 1 .. Len(LoadOrder) :
           LET list == PathTargets(LoadOrder[i])
           IN /\ LoadOrder[i] \in Paths /\ Len(list) \in Nat /\ at[i] \in Nat
              /\ \A j \in 1 .. Len(list) : /\ list[j] \in Range(list)
                                           /\ at[i] + j \in DOMAIN targets
                                           /\ targets[at[i] + j] = list[j]
              /\ \A h \in 1 .. i - 1 : at[h] + Len(PathTargets(LoadOrder[h])) <= at[i]
              /\ \A target \in Range(list) : \E j \in 1 .. Len(list) : target = list[j]
<1>1. tree \in Trees /\ targets \in Seq(Target)
  BY DEF CatalogInv, TypesInv
<1>2. DOMAIN targets = 1 .. Len(targets) /\ Len(targets) \in Nat
  BY <1>1, LenProperties
<1>3. LoadOrder \in Seq(Paths) /\ Len(LoadOrder) \in Nat
  BY <1>1, LoadOrderFacts, LenProperties
<1>4. \A i \in 1 .. Len(LoadOrder) : PathLists[i] = PathTargets(LoadOrder[i])
  BY DEF PathLists
<1> SUFFICES ASSUME NEW i \in 1 .. Len(LoadOrder)
             PROVE  LET list == PathTargets(LoadOrder[i])
                    IN /\ LoadOrder[i] \in Paths /\ Len(list) \in Nat /\ at[i] \in Nat
                       /\ \A j \in 1 .. Len(list) : /\ list[j] \in Range(list)
                                                    /\ at[i] + j \in DOMAIN targets
                                                    /\ targets[at[i] + j] = list[j]
                       /\ \A h \in 1 .. i - 1 : at[h] + Len(PathTargets(LoadOrder[h])) <= at[i]
                       /\ \A target \in Range(list) : \E j \in 1 .. Len(list) : target = list[j]
  OBVIOUS
<1> DEFINE list == PathTargets(LoadOrder[i])
<1>5. LoadOrder[i] \in Paths
  BY <1>3, ElementOfSeq
<1>6. list \in Seq(Target)
  BY <1>1, <1>5, TargetsOfPath
<1>7. PathLists[i] = list
  BY <1>4
<1>8. \A h \in 1 .. i - 1 : at[h] + Len(PathTargets(LoadOrder[h])) <= at[i]
  <2>1. \A h \in 1 .. i - 1 : h \in 1 .. Len(LoadOrder)
    BY <1>3
  <2> QED
    BY <1>4, <2>1 DEF Laid
<1> HIDE DEF list
<1>9. Len(list) \in Nat /\ Range(list) = {list[j] : j \in 1 .. Len(list)}
  BY <1>6, LenProperties DEF Range
<1>10. at[i] \in Nat /\ at[i] + Len(list) <= Len(targets)
       /\ \A j \in 1 .. Len(list) : targets[at[i] + j] = list[j]
  BY <1>7 DEF Laid
<1>11. \A j \in 1 .. Len(list) : at[i] + j \in DOMAIN targets
  BY <1>2, <1>9, <1>10
<1> QED
  BY <1>5, <1>8, <1>9, <1>10, <1>11 DEF list

\* A unit is in the catalog exactly if some file gives it a URL, and its target is what
\* the last such file says.
THEOREM TheLastFileDecides == Spec => []LastFileDecides
<1>1. CatalogInv => LastFileDecides
  <2> SUFFICES ASSUME CatalogInv, JustLoaded PROVE LastFileDecides
    BY DEF LastFileDecides
  <2> DEFINE n == Len(LoadOrder)
  <2>1. tree \in Trees /\ targets \in Seq(Target)
    BY DEF CatalogInv, TypesInv
  <2>2. /\ LoadOrder \in Seq(Paths) /\ n \in Nat
        /\ Range(LoadOrder) = {LoadOrder[i] : i \in 1 .. n}
    BY <2>1, LoadOrderFacts, LenProperties DEF Range
  <2>3. \A i \in 1 .. n : ~Raises(LoadOrder[i])
    BY WhenLoaded
  <2>4. PICK at : Laid(Target, PathLists, n, at, targets)
    BY WhenLoaded
  <2> DEFINE list(i) == PathTargets(LoadOrder[i])
  <2>5. \A i \in 1 .. n :
          /\ LoadOrder[i] \in Paths /\ Len(list(i)) \in Nat /\ at[i] \in Nat
          /\ \A j \in 1 .. Len(list(i)) : /\ list(i)[j] \in Range(list(i))
                                          /\ at[i] + j \in DOMAIN targets
                                          /\ targets[at[i] + j] = list(i)[j]
          /\ \A h \in 1 .. i - 1 : at[h] + Len(list(h)) <= at[i]
          /\ \A target \in Range(list(i)) : \E j \in 1 .. Len(list(i)) : target = list(i)[j]
    BY <2>3, <2>4, Placed
  <2>6. \A k \in DOMAIN targets : \E i \in 1 .. n : \E j \in 1 .. Len(list(i)) : k = at[i] + j
    <3>1. \A i \in 1 .. n : PathLists[i] = list(i)
      BY DEF PathLists
    <3>2. DOMAIN targets = 1 .. Len(targets)
      BY <2>1, LenProperties
    <3> HIDE DEF list
    <3> QED
      BY <2>4, <3>1, <3>2 DEF Laid
  <2>7. \A i \in 1 .. n : \A target \in Range(list(i)) : Told(LoadOrder[i], target)
    BY <2>1, <2>3, <2>5, TargetsOfPath
  <2>8. ASSUME NEW i \in 1 .. n, NEW unit \in UnitNames, NEW url, Gives(LoadOrder[i], unit, url)
        PROVE  \E j \in 1 .. Len(list(i)) :
                 at[i] + j \in DOMAIN targets /\ targets[at[i] + j].unit = unit
    <3>1. PICK target \in Range(list(i)) : target.unit = unit
      BY <2>1, <2>3, <2>5, <2>8, TargetsOfPath
    <3>2. PICK j \in 1 .. Len(list(i)) : target = list(i)[j]
      BY <2>5
    <3> HIDE DEF list
    <3> QED
      BY <2>5, <3>1, <3>2
  <2> HIDE DEF list, n
  <2>9. ASSUME NEW unit \in Units
        PROVE  \E path \in Paths : \E url \in Urls :
                 /\ Listed(path) /\ Gives(path, unit, url)
                 /\ by_unit[unit].host = url.host /\ by_unit[unit].port = PortOf(url)
                 /\ \A other \in Paths :
                      Listed(other) /\ Overrides(other, path) => \A u \in Urls : ~Gives(other, unit, u)
    <3> DEFINE k == TargetOf(unit)
    <3>1. /\ k \in DOMAIN targets /\ targets[k].unit = unit /\ by_unit[unit] = targets[k]
          /\ \A j \in DOMAIN targets : targets[j].unit = unit => j <= k
      BY <2>1, TargetOfFacts
    <3> HIDE DEF k
    <3>2. PICK i \in 1 .. n : \E j \in 1 .. Len(list(i)) : k = at[i] + j
      BY <2>6, <3>1
    <3>3. PICK j \in 1 .. Len(list(i)) : k = at[i] + j
      BY <3>2
    <3> DEFINE path == LoadOrder[i]
    <3>4. path \in Paths /\ path \in Range(LoadOrder)
      BY <2>2, <2>5
    <3>5. Listed(path)
      BY <2>1, <3>4, LoadOrderFacts
    <3>6. targets[k] = list(i)[j] /\ list(i)[j] \in Range(list(i))
      BY <2>5, <3>3
    <3>7. Told(path, targets[k])
      BY <2>7, <3>6
    <3>8. PICK url \in Urls : /\ Gives(path, unit, url)
                              /\ targets[k].host = url.host /\ targets[k].port = PortOf(url)
      BY <3>1, <3>7 DEF Told
    <3>9. unit \in UnitNames
      <4>1. targets[k] \in Target
        BY <2>1, <3>1, ElementOfSeq, LenProperties
      <4> QED
        BY <3>1, <4>1 DEF Target
    <3>10. ASSUME NEW other \in Paths, Overrides(other, path), NEW u \in Urls,
                  Gives(other, unit, u)
           PROVE  FALSE
      <4>1. other \in DOMAIN tree.unit
        BY <3>10 DEF Gives
      <4>2. After(LoadOrder, path, other)
        BY <2>1, <3>4, <3>10, <4>1, LoadOrderFacts
      <4>3. PICK h \in 1 .. n : LoadOrder[h] = other /\ i < h
        BY <4>2 DEF After, n
      <4>4. PICK l \in 1 .. Len(list(h)) :
              at[h] + l \in DOMAIN targets /\ targets[at[h] + l].unit = unit
        BY <2>8, <3>9, <3>10, <4>3
      <4>5. at[i] + Len(list(i)) <= at[h]
        <5>1. i \in 1 .. h - 1
          BY <2>2, <4>3
        <5>2. \A g \in 1 .. h - 1 : at[g] + Len(list(g)) <= at[h]
          BY <2>5
        <5> QED
          BY <5>1, <5>2
      <4>6. at[h] + l <= k
        BY <3>1, <4>4
      <4>7. at[h] \in Nat /\ at[i] \in Nat /\ Len(list(i)) \in Nat /\ Len(list(h)) \in Nat
        BY <2>5
      <4> QED
        BY <3>3, <4>5, <4>6, <4>7
    <3> QED
      BY <3>1, <3>4, <3>5, <3>8, <3>10
  <2>10. ASSUME NEW path \in Paths, NEW unit \in UnitNames, NEW url \in Urls,
                Listed(path), Gives(path, unit, url)
         PROVE  unit \in Units
    <3>1. path \in DOMAIN tree.unit
      BY <2>10 DEF Gives
    <3>2. path \in Range(LoadOrder)
      BY <2>1, <2>10, <3>1, LoadOrderFacts
    <3>3. PICK i \in 1 .. n : path = LoadOrder[i]
      BY <2>2, <3>2
    <3>4. \E j \in DOMAIN targets : targets[j].unit = unit
      BY <2>8, <2>10, <3>3
    <3> QED
      BY <3>4 DEF Units
  <2> QED
    BY <2>9, <2>10 DEF LastFileDecides, PortOf
<1> QED
  BY <1>1, Inductive, PTL
=================================================================================
