--------------------------- MODULE TimelineProofs ---------------------------
(***************************************************************************)
(* Lemmas about the operators of Timeline: what flattening and selecting   *)
(* make of a sequence, which places a document has, and what an edit does  *)
(* to the elements at those places.                                        *)
(***************************************************************************)
EXTENDS Timeline, FiniteSetTheorems, WellFoundedInduction, TLAPS

-----------------------------------------------------------------------------
(* Induction.                                                              *)

(* A set of numbers that is not empty has a least member. *)
LEMMA LeastNumber ==
    ASSUME NEW S \in SUBSET Nat, S # {}
    PROVE  \E m \in S : \A k \in S : m <= k
<1> DEFINE R == {ss \in Nat \X Nat : ss[1] < ss[2]}
<1>1. IsWellFoundedOn(R, Nat)
  BY NatLessThanWellFounded DEF OpToRel
<1>2. \A x, y \in Nat : <<y, x>> \in R <=> y < x
  OBVIOUS
<1> HIDE DEF R
<1>3. PICK x \in S : \A y \in S : ~(<<y, x>> \in R)
  BY <1>1, WFMin
<1>4. x \in Nat /\ \A y \in S : y \in Nat
  OBVIOUS
<1>5. \A y \in S : ~(y < x)
  BY <1>2, <1>3, <1>4
<1>6. \A y \in S : x <= y
  BY <1>4, <1>5
<1> QED  BY <1>6

(* The induction the proofs below use: over a set of numbers, so that no   *)
(* prover has to guess a predicate.                                        *)
LEMMA Counting ==
    ASSUME NEW S \in SUBSET Nat, 0 \in S, \A n \in S : n + 1 \in S
    PROVE  S = Nat
<1> SUFFICES ASSUME Nat \ S # {} PROVE FALSE
  OBVIOUS
<1>1. PICK m \in Nat \ S : \A k \in Nat \ S : m <= k
  BY LeastNumber
<1>2. m # 0 /\ m - 1 \in Nat
  BY <1>1
<1>3. m - 1 \in S
  BY <1>1, <1>2
<1> QED  BY <1>1, <1>3

(* The first and the last of a bounded set of positions. *)
LEMMA FirstAndLast ==
    ASSUME NEW n \in Nat, NEW S \in SUBSET (1..n), S # {}
    PROVE  /\ Min(S) \in S /\ \A k \in S : Min(S) <= k
           /\ Max(S) \in S /\ \A k \in S : k <= Max(S)
<1>0. \A k \in S : k \in Nat /\ 1 <= k /\ k <= n
  <2>1. \A k \in S : k \in 1..n
    OBVIOUS
  <2> QED  BY <2>1
<1>1. \E m \in S : \A k \in S : m <= k
  <2>1. S \in SUBSET Nat
    BY <1>0
  <2> QED  BY <2>1, LeastNumber
<1>2. \E m \in S : \A k \in S : k <= m
  <2> DEFINE D == {n - k : k \in S}
  <2>1. D \in SUBSET Nat /\ D # {}
    <3>1. \A k \in S : n - k \in Nat
      BY <1>0
    <3>2. PICK k \in S : TRUE
      OBVIOUS
    <3>3. n - k \in D
      OBVIOUS
    <3> QED  BY <3>1, <3>3
  <2>2. PICK m \in D : \A k \in D : m <= k
    BY <2>1, LeastNumber
  <2>3. PICK x \in S : m = n - x
    BY <2>2
  <2>4. \A k \in S : n - x <= n - k
    BY <2>2, <2>3
  <2>5. \A k \in S : k <= x
    BY <1>0, <2>4
  <2> QED  BY <2>5
<1>3. Min(S) \in S /\ \A k \in S : Min(S) <= k
  BY <1>1 DEF Min
<1>4. Max(S) \in S /\ \A k \in S : k <= Max(S)
  BY <1>2 DEF Max
<1> QED  BY <1>3, <1>4

-----------------------------------------------------------------------------
(* Flattening.                                                             *)

(* The recursive function in FlattenSeq exists. *)
LEMMA FlatteningExists ==
    ASSUME NEW seqs, NEW N \in Nat
    PROVE  \E f : f = [i \in 1..N |-> IF i = 1 THEN seqs[i] ELSE f[i-1] \o seqs[i]]
<1> DEFINE P(n) == \E f : f = [i \in 1..n |-> IF i = 1 THEN seqs[i] ELSE f[i-1] \o seqs[i]]
<1> DEFINE S == {n \in Nat : P(n)}
<1>1. P(0)
  <2> DEFINE g == [i \in 1..0 |-> seqs[i]]
  <2>1. g = [i \in 1..0 |-> IF i = 1 THEN seqs[i] ELSE g[i-1] \o seqs[i]]
    OBVIOUS
  <2> QED  BY <2>1
<1>2. ASSUME NEW n \in Nat, P(n) PROVE P(n + 1)
  <2>1. PICK f : f = [i \in 1..n |-> IF i = 1 THEN seqs[i] ELSE f[i-1] \o seqs[i]]
    BY <1>2
  <2> DEFINE g == [i \in 1..(n+1) |-> IF i = 1 THEN seqs[i] ELSE f[i-1] \o seqs[i]]
  <2>2. ASSUME NEW i \in 1..n PROVE g[i] = f[i]
    <3>1. i \in 1..(n + 1)
      OBVIOUS
    <3>2. g[i] = IF i = 1 THEN seqs[i] ELSE f[i-1] \o seqs[i]
      BY <3>1
    <3> HIDE DEF g
    <3> QED  BY <3>2, <2>1
  <2>3. \A i \in 1..(n+1) : i # 1 => i - 1 \in 1..n
    OBVIOUS
  <2>4. g = [i \in 1..(n+1) |-> IF i = 1 THEN seqs[i] ELSE g[i-1] \o seqs[i]]
    <3> SUFFICES ASSUME NEW i \in 1..(n+1)
                 PROVE  g[i] = IF i = 1 THEN seqs[i] ELSE g[i-1] \o seqs[i]
      OBVIOUS
    <3>1. i # 1 => g[i - 1] = f[i - 1]
      BY <2>2, <2>3
    <3> HIDE DEF g
    <3>2. g[i] = IF i = 1 THEN seqs[i] ELSE f[i-1] \o seqs[i]
      BY DEF g
    <3> QED  BY <3>1, <3>2
  <2> HIDE DEF g
  <2> QED  BY <2>4
<1> HIDE DEF P
<1>3. 0 \in S /\ \A n \in S : n + 1 \in S
  BY <1>1, <1>2
<1>4. S = Nat
  <2> HIDE DEF S
  <2>1. S \in SUBSET Nat
    BY DEF S
  <2> QED  BY <2>1, <1>3, Counting
<1>5. P(N)
  BY <1>4
<1> QED  BY <1>5 DEF P

(* What the recursion of FlattenSeq builds, step by step.                  *)
LEMMA FlatteningRecurs ==
    ASSUME NEW seqs, NEW N \in Nat \ {0}, Len(seqs) = N
    PROVE  \E f : /\ FlattenSeq(seqs) = f[N]
                  /\ f[1] = seqs[1]
                  /\ \A i \in 2..N : f[i] = f[i-1] \o seqs[i]
<1> DEFINE F == CHOOSE f : f = [i \in 1..N |-> IF i = 1 THEN seqs[i] ELSE f[i-1] \o seqs[i]]
<1> DEFINE G(i) == IF i = 1 THEN seqs[i] ELSE F[i-1] \o seqs[i]
<1>1. F = [i \in 1..N |-> G(i)]
  <2>1. \E f : f = [i \in 1..N |-> IF i = 1 THEN seqs[i] ELSE f[i-1] \o seqs[i]]
    BY FlatteningExists
  <2> QED  BY <2>1
<1>2. FlattenSeq(seqs) = F[N]
  BY DEF FlattenSeq
<1> HIDE DEF F, G
<1>3. \A i \in 1..N : F[i] = G(i)
  BY <1>1
<1>4. 1 \in 1..N /\ \A i \in 2..N : i \in 1..N /\ i # 1
  OBVIOUS
<1>5. F[1] = seqs[1]
  BY <1>3, <1>4 DEF G
<1>6. ASSUME NEW i \in 2..N PROVE F[i] = F[i-1] \o seqs[i]
  <2>1. F[i] = G(i) /\ i # 1
    BY <1>3, <1>4
  <2> QED  BY <2>1 DEF G
<1> QED  BY <1>2, <1>5, <1>6

(* The numbers of a concatenation: those of the first part, then those of  *)
(* the second moved up.                                                    *)
LEMMA Beyond ==
    ASSUME NEW a \in Nat, NEW b \in Nat
    PROVE  /\ \A j \in 1..b : a + j \in 1..(a + b)
           /\ \A j \in 1..a : j \in 1..(a + b)
           /\ \A m \in 1..(a + b) : m \in 1..a \/ \E j \in 1..b : m = a + j
<1>1. ASSUME NEW m \in 1..(a + b), m \notin 1..a PROVE m - a \in 1..b /\ m = a + (m - a)
  BY <1>1
<1> QED  BY <1>1

(* Two sequences one after the other.                                      *)
LEMMA Concatenated ==
    ASSUME NEW T, NEW a \in Seq(T), NEW b \in Seq(T)
    PROVE  /\ a \o b \in Seq(T)
           /\ Len(a \o b) = Len(a) + Len(b)
           /\ \A j \in 1..Len(a) : (a \o b)[j] = a[j]
           /\ \A j \in 1..Len(b) : (a \o b)[Len(a) + j] = b[j]
<1>1. a \o b \in Seq(T) /\ Len(a \o b) = Len(a) + Len(b) /\ Len(a) \in Nat /\ Len(b) \in Nat
  OBVIOUS
<1>2. \A j \in 1..Len(a) : (a \o b)[j] = a[j]
  OBVIOUS
<1>3. ASSUME NEW j \in 1..Len(b) PROVE (a \o b)[Len(a) + j] = b[j]
  <2>1. Len(a) + j \in 1..(Len(a) + Len(b)) /\ Len(a) + j > Len(a) /\ (Len(a) + j) - Len(a) = j
    BY <1>1
  <2> QED  BY <2>1
<1> QED  BY <1>1, <1>2, <1>3

(* Where the sequences begin in what they flatten to. *)
Layout(seqs, at) ==
    /\ at \in [1..(Len(seqs) + 1) -> Nat]
    /\ at[1] = 0
    /\ \A i \in 1..Len(seqs) : at[i + 1] = at[i] + Len(seqs[i])

(* flat is the sequences one after the other, and nothing else. *)
LaidOut(seqs, flat, at) ==
    /\ Layout(seqs, at)
    /\ Len(flat) = at[Len(seqs) + 1]
    /\ \A i \in 1..Len(seqs) : \A j \in 1..Len(seqs[i]) :
          at[i] + j \in 1..Len(flat) /\ flat[at[i] + j] = seqs[i][j]
    /\ \A m \in 1..Len(flat) : \E i \in 1..Len(seqs) : \E j \in 1..Len(seqs[i]) : m = at[i] + j

(* A flattened sequence holds its parts one after the other.               *)
LEMMA FlatteningFits ==
    ASSUME NEW T, NEW N \in Nat, N # 0, NEW seqs, Len(seqs) = N,
           \A i \in 1..N : seqs[i] \in Seq(T) /\ Len(seqs[i]) \in Nat
    PROVE  FlattenSeq(seqs) \in Seq(T) /\ \E at : LaidOut(seqs, FlattenSeq(seqs), at)
<1>1. PICK f : /\ FlattenSeq(seqs) = f[N]
               /\ f[1] = seqs[1]
               /\ \A i \in 2..N : f[i] = f[i-1] \o seqs[i]
  <2>1. N \in Nat \ {0}
    OBVIOUS
  <2> QED  BY <2>1, FlatteningRecurs
<1>2. 1 \in 1..N /\ \A i \in 1..N : i # 1 => i \in 2..N /\ i - 1 \in 1..N
  OBVIOUS
<1>3. \A i \in 1..N : f[i] \in Seq(T)
  <2> DEFINE S == {n \in Nat : n + 1 \in 1..N => f[n + 1] \in Seq(T)}
  <2>1. 0 \in S
    BY <1>1, <1>2
  <2>2. ASSUME NEW n \in S PROVE n + 1 \in S
    <3> SUFFICES ASSUME (n + 1) + 1 \in 1..N PROVE f[(n + 1) + 1] \in Seq(T)
      OBVIOUS
    <3>1. n \in Nat /\ n + 1 \in 1..N /\ ((n + 1) + 1) - 1 = n + 1 /\ (n + 1) + 1 \in 2..N
      OBVIOUS
    <3>2. f[n + 1] \in Seq(T)
      BY <3>1
    <3>3. f[(n + 1) + 1] = f[n + 1] \o seqs[(n + 1) + 1]
      BY <1>1, <3>1
    <3> HIDE DEF S
    <3> QED  BY <3>2, <3>3
  <2> HIDE DEF S
  <2>3. S \in SUBSET Nat
    BY DEF S
  <2>4. S = Nat
    BY <2>1, <2>2, <2>3, Counting
  <2>5. ASSUME NEW i \in 1..N PROVE f[i] \in Seq(T)
    <3>1. i - 1 \in Nat /\ (i - 1) + 1 = i
      OBVIOUS
    <3>2. i - 1 \in S
      BY <3>1, <2>4
    <3> QED  BY <3>1, <3>2 DEF S
  <2> QED  BY <2>5
<1>4. \A i \in 1..N : Len(f[i]) \in Nat
  BY <1>3
<1> DEFINE at == [i \in 1..(N + 1) |-> IF i = 1 THEN 0 ELSE Len(f[i - 1])]
<1>5. at[1] = 0 /\ at \in [1..(N + 1) -> Nat]
  BY <1>4
<1>5a. ASSUME NEW i \in 1..N PROVE at[i + 1] = Len(f[i])
  <2>1. i + 1 \in 1..(N + 1) /\ i + 1 # 1 /\ (i + 1) - 1 = i
    OBVIOUS
  <2> QED  BY <2>1
<1> HIDE DEF at
<1>6. ASSUME NEW i \in 1..N
      PROVE  /\ Len(f[i]) = at[i] + Len(seqs[i])
             /\ \A j \in 1..Len(seqs[i]) : f[i][at[i] + j] = seqs[i][j]
             /\ i # 1 => at[i] = Len(f[i - 1]) /\ \A j \in 1..Len(f[i - 1]) : f[i][j] = f[i - 1][j]
  <2>0. seqs[i] \in Seq(T)
    OBVIOUS
  <2>1. CASE i = 1
    BY <2>0, <2>1, <1>1, <1>5
  <2>2. CASE i # 1
    <3>1. i \in 2..N /\ i - 1 \in 1..N /\ (i - 1) + 1 = i
      BY <2>2
    <3>2. f[i] = f[i - 1] \o seqs[i] /\ f[i - 1] \in Seq(T)
      BY <3>1, <1>1, <1>3
    <3>3. at[i] = Len(f[i - 1])
      BY <3>1, <1>5a
    <3> DEFINE c == f[i - 1] \o seqs[i]
    <3>4. /\ Len(c) = Len(f[i - 1]) + Len(seqs[i])
          /\ \A j \in 1..Len(seqs[i]) : c[Len(f[i - 1]) + j] = seqs[i][j]
          /\ \A j \in 1..Len(f[i - 1]) : c[j] = f[i - 1][j]
      BY <2>0, <3>2, Concatenated
    <3> HIDE DEF c
    <3>5. f[i] = c
      BY <3>2 DEF c
    <3> QED  BY <3>3, <3>4, <3>5
  <2> QED  BY <2>1, <2>2
<1>7. Layout(seqs, at)
  BY <1>5, <1>5a, <1>6 DEF Layout
<1> DEFINE Fits(n) == /\ \A i \in 1..n : \A j \in 1..Len(seqs[i]) :
                             at[i] + j \in 1..Len(f[n]) /\ f[n][at[i] + j] = seqs[i][j]
                      /\ \A m \in 1..Len(f[n]) :
                             \E i \in 1..n : \E j \in 1..Len(seqs[i]) : m = at[i] + j
<1>8. Fits(1)
  <2>1. f[1] = seqs[1] /\ at[1] = 0 /\ Len(seqs[1]) \in Nat
    BY <1>1, <1>2, <1>5
  <2>2. \A j \in 1..Len(seqs[1]) : 0 + j = j
    BY <2>1
  <2>3. \A i \in 1..1 : i = 1
    OBVIOUS
  <2> QED  BY <2>1, <2>2, <2>3
<1>9. ASSUME NEW n \in 1..N, n + 1 \in 1..N, Fits(n) PROVE Fits(n + 1)
  <2>0. /\ Len(f[n + 1]) = at[n + 1] + Len(seqs[n + 1])
        /\ at[n + 1] = Len(f[(n + 1) - 1])
        /\ \A j \in 1..Len(seqs[n + 1]) : f[n + 1][at[n + 1] + j] = seqs[n + 1][j]
        /\ \A j \in 1..Len(f[(n + 1) - 1]) : f[n + 1][j] = f[(n + 1) - 1][j]
    <3>1. n + 1 # 1
      OBVIOUS
    <3> HIDE DEF Fits
    <3> QED  BY <1>6, <1>9, <3>1
  <2>a. (n + 1) - 1 = n
    OBVIOUS
  <2>1. Len(f[n + 1]) = Len(f[n]) + Len(seqs[n + 1]) /\ at[n + 1] = Len(f[n])
    BY <2>0, <2>a
  <2>b. \A j \in 1..Len(seqs[n + 1]) : f[n + 1][at[n + 1] + j] = seqs[n + 1][j]
    BY <2>0
  <2>c. \A j \in 1..Len(f[n]) : f[n + 1][j] = f[n][j]
    BY <2>0, <2>a
  <2>2. Len(f[n]) \in Nat /\ Len(seqs[n + 1]) \in Nat /\ Len(f[n + 1]) \in Nat
    BY <1>4, <1>9
  <2>3. ASSUME NEW i \in 1..(n + 1), NEW j \in 1..Len(seqs[i])
        PROVE  at[i] + j \in 1..Len(f[n + 1]) /\ f[n + 1][at[i] + j] = seqs[i][j]
    <3>1. CASE i = n + 1
      <4>1. j \in Nat /\ 1 <= j /\ j <= Len(seqs[n + 1])
        BY <3>1, <2>2
      <4> HIDE DEF Fits
      <4>2. at[n + 1] + j \in 1..Len(f[n + 1])
        <5>1. j \in 1..Len(seqs[n + 1])
          BY <3>1
        <5> QED  BY <5>1, <2>1, <2>2, Beyond
      <4> QED  BY <3>1, <4>1, <4>2, <2>b
    <3>2. CASE i \in 1..n
      <4>1. at[i] + j \in 1..Len(f[n]) /\ f[n][at[i] + j] = seqs[i][j]
        BY <1>9, <3>2
      <4> HIDE DEF Fits
      <4>2. at[i] + j \in 1..Len(f[n + 1])
        BY <4>1, <2>1, <2>2, Beyond
      <4>3. f[n + 1][at[i] + j] = f[n][at[i] + j]
        BY <4>1, <2>c
      <4> QED  BY <4>1, <4>2, <4>3
    <3> QED  BY <3>1, <3>2
  <2>4. ASSUME NEW m \in 1..Len(f[n + 1])
        PROVE  \E i \in 1..(n + 1) : \E j \in 1..Len(seqs[i]) : m = at[i] + j
    <3>1. CASE m \in 1..Len(f[n])
      <4>2. PICK i \in 1..n : \E j \in 1..Len(seqs[i]) : m = at[i] + j
        BY <3>1, <1>9
      <4>3. i \in 1..(n + 1)
        OBVIOUS
      <4> QED  BY <4>2, <4>3
    <3>2. CASE \E j \in 1..Len(seqs[n + 1]) : m = Len(f[n]) + j
      <4> HIDE DEF Fits
      <4>2. n + 1 \in 1..(n + 1)
        OBVIOUS
      <4> QED  BY <3>2, <4>2, <2>1
    <3> HIDE DEF Fits
    <3>3. m \in 1..Len(f[n]) \/ \E j \in 1..Len(seqs[n + 1]) : m = Len(f[n]) + j
      <4>1. \A x \in 1..(Len(f[n]) + Len(seqs[n + 1])) :
               x \in 1..Len(f[n]) \/ \E j \in 1..Len(seqs[n + 1]) : x = Len(f[n]) + j
        BY <2>2, Beyond
      <4> QED  BY <4>1, <2>1
    <3> QED  BY <3>1, <3>2, <3>3
  <2> QED  BY <2>3, <2>4
<1> HIDE DEF Fits
<1>11. Fits(N)
  <2> DEFINE S == {n \in Nat : n + 1 \in 1..N => Fits(n + 1)}
  <2>1. 0 \in S
    BY <1>8
  <2>2. ASSUME NEW n \in S PROVE n + 1 \in S
    <3> SUFFICES ASSUME (n + 1) + 1 \in 1..N PROVE Fits((n + 1) + 1)
      OBVIOUS
    <3>1. n \in Nat /\ n + 1 \in 1..N
      OBVIOUS
    <3>2. Fits(n + 1)
      BY <3>1
    <3> QED  BY <3>1, <3>2, <1>9
  <2> HIDE DEF S
  <2>3. S \in SUBSET Nat
    BY DEF S
  <2>4. S = Nat
    BY <2>1, <2>2, <2>3, Counting
  <2>5. N - 1 \in Nat /\ (N - 1) + 1 = N /\ N \in 1..N
    OBVIOUS
  <2>6. N - 1 \in S
    BY <2>4, <2>5
  <2> QED  BY <2>5, <2>6 DEF S
<1>12. f[N] \in Seq(T) /\ Len(f[N]) = at[N + 1]
  BY <1>2, <1>3, <1>5a
<1>13. /\ \A i \in 1..N : \A j \in 1..Len(seqs[i]) :
             at[i] + j \in 1..Len(f[N]) /\ f[N][at[i] + j] = seqs[i][j]
       /\ \A m \in 1..Len(f[N]) :
             \E i \in 1..N : \E j \in 1..Len(seqs[i]) : m = at[i] + j
  BY <1>11 DEF Fits
<1>14. LaidOut(seqs, f[N], at)
  BY <1>7, <1>12, <1>13 DEF LaidOut
<1> QED  BY <1>1, <1>12, <1>14

(* The same of a sequence of sequences.                                    *)
LEMMA FlattenedLayout ==
    ASSUME NEW T, NEW seqs \in Seq(Seq(T))
    PROVE  FlattenSeq(seqs) \in Seq(T) /\ \E at : LaidOut(seqs, FlattenSeq(seqs), at)
<1>0. PICK N \in Nat : Len(seqs) = N
  OBVIOUS
<1>a. \A i \in 1..N : seqs[i] \in Seq(T) /\ Len(seqs[i]) \in Nat
  BY <1>0
<1>1. CASE N = 0
  <2>1. FlattenSeq(seqs) = seqs /\ seqs = <<>>
    BY <1>0, <1>1 DEF FlattenSeq
  <2> DEFINE at == [i \in 1..1 |-> 0]
  <2>2. Layout(seqs, at) /\ at[1] = 0
    BY <1>0, <1>1 DEF Layout
  <2> HIDE DEF at
  <2>3. <<>> \in Seq(T) /\ Len(<<>>) = 0
    OBVIOUS
  <2>4. LaidOut(seqs, <<>>, at)
    BY <2>1, <2>2, <2>3 DEF LaidOut
  <2> QED  BY <2>1, <2>3, <2>4
<1>2. CASE N # 0
  <2>1. FlattenSeq(seqs) \in Seq(T) /\ \E at : LaidOut(seqs, FlattenSeq(seqs), at)
    BY <1>0, <1>a, <1>2, FlatteningFits
  <2> QED  BY <2>1
<1> QED  BY <1>1, <1>2

(* The parts of a layout start one after the other.                        *)
LEMMA LayoutRises ==
    ASSUME NEW seqs, NEW at, NEW N \in Nat, Len(seqs) = N, Layout(seqs, at),
           \A i \in 1..N : Len(seqs[i]) \in Nat
    PROVE  \A i, j \in 1..(N + 1) : i <= j => at[i] <= at[j]
<1>0. at \in [1..(N + 1) -> Nat] /\ \A i \in 1..N : at[i + 1] = at[i] + Len(seqs[i])
  BY DEF Layout
<1> SUFFICES ASSUME NEW i \in 1..(N + 1) PROVE \A j \in 1..(N + 1) : i <= j => at[i] <= at[j]
  OBVIOUS
<1> DEFINE S == {n \in Nat : i + n \in 1..(N + 1) => at[i] <= at[i + n]}
<1>1. 0 \in S
  <2>1. i + 0 = i /\ at[i] \in Nat
    BY <1>0
  <2> QED  BY <2>1
<1>2. ASSUME NEW n \in S PROVE n + 1 \in S
  <2> SUFFICES ASSUME i + (n + 1) \in 1..(N + 1) PROVE at[i] <= at[i + (n + 1)]
    OBVIOUS
  <2>1. n \in Nat /\ i + n \in 1..N /\ i + n \in 1..(N + 1) /\ i + (n + 1) = (i + n) + 1
    OBVIOUS
  <2>2. at[i] <= at[i + n]
    BY <2>1
  <2>3. at[(i + n) + 1] = at[i + n] + Len(seqs[i + n]) /\ Len(seqs[i + n]) \in Nat
    BY <1>0, <2>1
  <2>4. at[i] \in Nat /\ at[i + n] \in Nat
    BY <1>0, <2>1
  <2> HIDE DEF S
  <2>5. at[i] <= at[(i + n) + 1]
    BY <2>2, <2>3, <2>4
  <2> QED  BY <2>1, <2>5
<1> HIDE DEF S
<1>3. S \in SUBSET Nat
  BY DEF S
<1>4. S = Nat
  BY <1>1, <1>2, <1>3, Counting
<1>5. ASSUME NEW j \in 1..(N + 1), i <= j PROVE at[i] <= at[j]
  <2>1. j - i \in Nat /\ i + (j - i) = j
    BY <1>5
  <2>2. j - i \in S
    BY <1>4, <2>1
  <2> QED  BY <2>1, <2>2 DEF S
<1> QED  BY <1>5

(* The first items of those that have one keep their order. *)
LEMMA FirstItems ==
    ASSUME NEW seqs, NEW flat, NEW at, LaidOut(seqs, flat, at), NEW N \in Nat, Len(seqs) = N,
           \A i \in 1..N : Len(seqs[i]) \in Nat, Len(flat) \in Nat,
           NEW I \in SUBSET (1..N), \A i \in I : Len(seqs[i]) # 0
    PROVE  /\ \A i \in I : at[i] + 1 \in 1..Len(flat) /\ flat[at[i] + 1] = seqs[i][1]
           /\ \A i, j \in I : i < j => at[i] + 1 < at[j] + 1
<1>1. Layout(seqs, at) /\ \A i \in 1..N : \A j \in 1..Len(seqs[i]) :
          at[i] + j \in 1..Len(flat) /\ flat[at[i] + j] = seqs[i][j]
  BY DEF LaidOut
<1>2. ASSUME NEW i \in I PROVE i \in 1..N /\ 1 \in 1..Len(seqs[i])
  OBVIOUS
<1>3. ASSUME NEW i \in I, NEW j \in I, i < j PROVE at[i] + 1 < at[j] + 1
  <2>1. i \in 1..N /\ j \in 1..N
    BY <1>2
  <2>2. at[i + 1] = at[i] + Len(seqs[i]) /\ at \in [1..(N + 1) -> Nat]
    BY <2>1, <1>1 DEF Layout
  <2>3. i + 1 \in 1..(N + 1) /\ j \in 1..(N + 1) /\ i \in 1..(N + 1) /\ i + 1 <= j
    BY <2>1, <1>3
  <2>4. at[i + 1] <= at[j]
    BY <2>3, <1>1, LayoutRises
  <2>5. Len(seqs[i]) \in Nat /\ Len(seqs[i]) # 0 /\ at[i] \in Nat /\ at[j] \in Nat
    BY <2>1, <2>2, <2>3
  <2>6. \A x, y, l \in Nat : l # 0 /\ x + l <= y => x + 1 < y + 1
    OBVIOUS
  <2>7. at[i] + Len(seqs[i]) <= at[j]
    BY <2>2, <2>4
  <2> QED  BY <2>5, <2>6, <2>7
<1> QED  BY <1>1, <1>2, <1>3

(* h says where the selected items of s are in the selection. *)
Picks(s, I, h) ==
    LET b == Selected(s, I)
    IN  /\ DOMAIN h = I \cap DOMAIN s
        /\ \A k \in DOMAIN h : h[k] \in DOMAIN b /\ b[h[k]] = s[k]
        /\ \A j, k \in DOMAIN h : j < k => h[j] < h[k]
        /\ \A m \in DOMAIN b : \E k \in DOMAIN h : h[k] = m

(* What is selected is there, in its order, and nothing else. *)
LEMMA Selecting ==
    ASSUME NEW T, NEW s \in Seq(T), NEW I
    PROVE  Selected(s, I) \in Seq(T) /\ \E h : Picks(s, I, h)
<1> DEFINE seqs == [k \in DOMAIN s |-> IF k \in I THEN <<s[k]>> ELSE <<>>]
<1> DEFINE flat == FlattenSeq(seqs)
<1>1. PICK N \in Nat : Len(s) = N /\ DOMAIN s = 1..N
  OBVIOUS
<1>2. \A k \in 1..N : s[k] \in T
  BY <1>1
<1>3. seqs \in Seq(Seq(T))
  <2>1. \A k \in 1..N : (IF k \in I THEN <<s[k]>> ELSE <<>>) \in Seq(T)
    BY <1>2
  <2> QED  BY <1>1, <2>1
<1>4. Len(seqs) = N /\ \A k \in 1..N : seqs[k] = IF k \in I THEN <<s[k]>> ELSE <<>>
  BY <1>1
<1>5. Selected(s, I) = flat
  BY DEF Selected
<1> HIDE DEF seqs, flat
<1>6. flat \in Seq(T) /\ \E at : LaidOut(seqs, flat, at)
  BY <1>3, FlattenedLayout DEF flat
<1>7. PICK at : LaidOut(seqs, flat, at)
  BY <1>6
<1>8. \A k \in 1..N : Len(seqs[k]) = (IF k \in I THEN 1 ELSE 0) /\ Len(seqs[k]) \in Nat
  BY <1>4
<1>9. Len(flat) \in Nat /\ DOMAIN flat = 1..Len(flat)
  BY <1>6
<1> DEFINE J == I \cap DOMAIN s
<1>10. J \in SUBSET (1..N) /\ \A i \in J : Len(seqs[i]) # 0 /\ seqs[i][1] = s[i]
  <2>1. ASSUME NEW i \in J PROVE i \in 1..N /\ i \in I
    BY <1>1
  <2> HIDE DEF J
  <2>2. \A i \in J : seqs[i] = <<s[i]>> /\ Len(seqs[i]) = 1
    BY <1>4, <1>8, <2>1
  <2>3. J \in SUBSET (1..N)
    BY <2>1
  <2>4. ASSUME NEW i \in J PROVE Len(seqs[i]) # 0 /\ seqs[i][1] = s[i]
    <3>1. seqs[i] = <<s[i]>>
      BY <2>2
    <3>2. <<s[i]>>[1] = s[i] /\ Len(<<s[i]>>) = 1
      OBVIOUS
    <3> QED  BY <3>1, <3>2
  <2> QED  BY <2>3, <2>4
<1> HIDE DEF J
<1>11. /\ \A i \in J : at[i] + 1 \in 1..Len(flat) /\ flat[at[i] + 1] = seqs[i][1]
       /\ \A i, j \in J : i < j => at[i] + 1 < at[j] + 1
  <2>1. \A k \in 1..N : Len(seqs[k]) \in Nat
    BY <1>8
  <2>2. /\ Len(seqs) = N /\ Len(flat) \in Nat /\ J \in SUBSET (1..N)
        /\ \A i \in J : Len(seqs[i]) # 0
    BY <1>4, <1>9, <1>10
  <2> QED  BY <1>7, <2>1, <2>2, FirstItems
<1>12. ASSUME NEW m \in 1..Len(flat) PROVE \E k \in J : at[k] + 1 = m
  <2>1. PICK i \in 1..N : \E j \in 1..Len(seqs[i]) : m = at[i] + j
    BY <1>4, <1>7 DEF LaidOut
  <2>2. i \in J
    BY <1>1, <1>8, <2>1 DEF J
  <2>3. \A j \in 1..Len(seqs[i]) : j = 1
    BY <1>8
  <2> QED  BY <2>1, <2>2, <2>3
<1> DEFINE h == [k \in J |-> at[k] + 1]
<1>13. h \in [J -> DOMAIN flat]
  BY <1>9, <1>11
<1>14. \A k \in J : h[k] = at[k] + 1
  OBVIOUS
<1> HIDE DEF h
<1>15. /\ \A k \in J : flat[h[k]] = s[k]
       /\ \A j, k \in J : j < k => h[j] < h[k]
       /\ \A m \in DOMAIN flat : \E k \in J : h[k] = m
  <2>1. \A k \in J : flat[h[k]] = s[k]
    BY <1>10, <1>11, <1>14
  <2>2. \A j, k \in J : j < k => h[j] < h[k]
    BY <1>11, <1>14
  <2>3. \A m \in DOMAIN flat : \E k \in J : h[k] = m
    BY <1>9, <1>12, <1>14
  <2> QED  BY <2>1, <2>2, <2>3
<1>16. Picks(s, I, h)
  <2>1. DOMAIN h = J /\ \A k \in J : h[k] \in DOMAIN flat
    BY <1>13
  <2> QED  BY <1>5, <1>15, <2>1 DEF J, Picks
<1> QED  BY <1>5, <1>6, <1>16

(* A place is an item of a spine, or a clip connected to one.              *)
LEMMA InPlaces ==
    ASSUME NEW d, NEW p
    PROVE  p \in PlacesIn(d) <=>
              \E s \in DOMAIN d.spines : \E i \in DOMAIN d.spines[s].items :
                 \E k \in 0..Len(d.spines[s].items[i].kids) : p = <<s, i, k>>
BY DEF PlacesIn

(* A sequence is a function on the numbers up to its length.               *)
LEMMA Sequences ==
    ASSUME NEW s, IsSequence(s)
    PROVE  Len(s) \in Nat /\ DOMAIN s = 1..Len(s)
BY DEF IsSequence, ToSet

(* A sequence over some set is a sequence.                                 *)
LEMMA SequenceOf ==
    ASSUME NEW T, NEW s \in Seq(T)
    PROVE  IsSequence(s)
BY DEF IsSequence, ToSet

(* What a spine is made of.                                                *)
LEMMA Spines ==
    ASSUME NEW spine, IsSpine(spine)
    PROVE  /\ Len(spine.items) \in Nat /\ DOMAIN spine.items = 1..Len(spine.items)
           /\ \A i \in DOMAIN spine.items :
                 LET e == spine.items[i]
                 IN  /\ IsItem(e)
                     /\ Len(e.kids) \in Nat /\ DOMAIN e.kids = 1..Len(e.kids)
                     /\ \A k \in DOMAIN e.kids : IsElement(e.kids[k])
<1>1. IsSequence(spine.items) /\ \A i \in DOMAIN spine.items : IsItem(spine.items[i])
  BY DEF IsSpine
<1>2. ASSUME NEW e, IsItem(e)
      PROVE  /\ Len(e.kids) \in Nat /\ DOMAIN e.kids = 1..Len(e.kids)
             /\ \A k \in DOMAIN e.kids : IsElement(e.kids[k])
  BY <1>2, Sequences DEF IsItem, IsElement
<1> QED  BY <1>1, <1>2, Sequences

(* What a document is made of, down to its connected clips.                *)
LEMMA DocumentParts ==
    ASSUME NEW d, IsDocument(d)
    PROVE  /\ Len(d.spines) \in Nat /\ DOMAIN d.spines = 1..Len(d.spines)
           /\ \A s \in DOMAIN d.spines :
                 LET items == d.spines[s].items
                 IN  /\ IsSpine(d.spines[s])
                     /\ Len(items) \in Nat /\ DOMAIN items = 1..Len(items)
                     /\ \A i \in DOMAIN items :
                           /\ IsItem(items[i])
                           /\ Len(items[i].kids) \in Nat
                           /\ DOMAIN items[i].kids = 1..Len(items[i].kids)
                           /\ \A k \in DOMAIN items[i].kids : IsElement(items[i].kids[k])
<1>1. IsSequence(d.spines) /\ \A s \in DOMAIN d.spines : IsSpine(d.spines[s])
  BY DEF IsDocument
<1> QED  BY <1>1, Sequences, Spines

(* An image of the numbers up to n is finite. *)
LEMMA ImageFinite ==
    ASSUME NEW n \in Nat, NEW f, DOMAIN f = 1..n
    PROVE  IsFiniteSet({f[i] : i \in 1..n})
<1> DEFINE T == {f[i] : i \in 1..n}
<1> DEFINE g == [i \in 1..n |-> f[i]]
<1>1. g \in [1..n -> T] /\ \A x \in T : \E i \in 1..n : g[i] = x
  OBVIOUS
<1> HIDE DEF g
<1>2. g \in Surjection(1..n, T)
  BY <1>1 DEF Surjection
<1>4. IsFiniteSet(1..n)
  BY FS_Interval
<1> HIDE DEF T
<1>5. IsFiniteSet(T)
  BY <1>2, <1>4, FS_Surjection
<1> QED  BY <1>5 DEF T

(* A document has finitely many places.                                    *)
LEMMA PlacesFinite ==
    ASSUME NEW d, IsDocument(d)
    PROVE  IsFiniteSet(PlacesIn(d))
<1> DEFINE K(s, i) == {<<s, i, k>> : k \in 0..Len(d.spines[s].items[i].kids)}
<1> DEFINE J(s) == UNION {K(s, i) : i \in DOMAIN d.spines[s].items}
<1>1. ASSUME NEW s \in DOMAIN d.spines, NEW i \in DOMAIN d.spines[s].items
      PROVE  IsFiniteSet(K(s, i))
  <2> DEFINE n == Len(d.spines[s].items[i].kids)
  <2>1. n \in Nat
    BY DocumentParts
  <2> DEFINE f == [k \in 1..(n + 1) |-> <<s, i, k - 1>>]
  <2>2. K(s, i) = {f[k] : k \in 1..(n + 1)}
    <3> HIDE DEF n
    <3>1. \A k \in 0..n : k + 1 \in 1..(n + 1) /\ (k + 1) - 1 = k
      BY <2>1
    <3>2. \A k \in 1..(n + 1) : k - 1 \in 0..n
      BY <2>1
    <3>3. \A k \in 0..n : f[k + 1] = <<s, i, k>>
      BY <3>1
    <3>4. \A k \in 1..(n + 1) : f[k] = <<s, i, k - 1>>
      OBVIOUS
    <3>5. K(s, i) = {<<s, i, k>> : k \in 0..n}
      BY DEF n
    <3> HIDE DEF f, K
    <3> QED  BY <3>1, <3>2, <3>3, <3>4, <3>5
  <2>3. DOMAIN f = 1..(n + 1) /\ n + 1 \in Nat
    BY <2>1
  <2> HIDE DEF f, n, K
  <2> QED  BY <2>2, <2>3, ImageFinite
<1>2. ASSUME NEW s \in DOMAIN d.spines PROVE IsFiniteSet(J(s))
  <2> DEFINE n == Len(d.spines[s].items)
  <2>1. n \in Nat /\ DOMAIN d.spines[s].items = 1..n
    BY DocumentParts
  <2> DEFINE f == [i \in 1..n |-> K(s, i)]
  <2> HIDE DEF n
  <2>2. {K(s, i) : i \in DOMAIN d.spines[s].items} = {f[i] : i \in 1..n}
    BY <2>1
  <2>3. DOMAIN f = 1..n
    OBVIOUS
  <2> HIDE DEF f
  <2>4. IsFiniteSet({f[i] : i \in 1..n})
    BY <2>1, <2>3, ImageFinite
  <2> HIDE DEF K
  <2> QED  BY <1>1, <2>2, <2>4, FS_UNION
<1> DEFINE n == Len(d.spines)
<1>3. n \in Nat /\ DOMAIN d.spines = 1..n
  BY DocumentParts
<1> DEFINE f == [s \in 1..n |-> J(s)]
<1> HIDE DEF n
<1>4. PlacesIn(d) = UNION {f[s] : s \in 1..n}
  BY <1>3 DEF PlacesIn
<1>5. \A s \in 1..n : f[s] = J(s)
  OBVIOUS
<1>6. DOMAIN f = 1..n
  OBVIOUS
<1> HIDE DEF f, J
<1>7. IsFiniteSet({f[i] : i \in 1..n})
  BY <1>3, <1>6, ImageFinite
<1> QED  BY <1>2, <1>3, <1>4, <1>5, <1>7, FS_UNION

(* The first of some places. *)
LEMMA FirstPlace ==
    ASSUME NEW d, IsDocument(d), NEW S \in SUBSET PlacesIn(d), S # {}
    PROVE  FirstOf(S) \in S /\ \A q \in S \ {FirstOf(S)} : Before(FirstOf(S), q)
<1>1. ASSUME NEW p \in S
      PROVE  /\ p = <<p[1], p[2], p[3]>>
             /\ p[1] \in Nat /\ p[2] \in Nat /\ p[3] \in Nat
  <2>0. PICK s \in DOMAIN d.spines : \E i \in DOMAIN d.spines[s].items :
            \E k \in 0..Len(d.spines[s].items[i].kids) : p = <<s, i, k>>
    BY InPlaces
  <2>1. PICK i \in DOMAIN d.spines[s].items :
            \E k \in 0..Len(d.spines[s].items[i].kids) : p = <<s, i, k>>
    BY <2>0
  <2>2. PICK k \in 0..Len(d.spines[s].items[i].kids) : p = <<s, i, k>>
    BY <2>1
  <2>3. s \in Nat /\ i \in Nat /\ k \in Nat
    BY DocumentParts
  <2> QED  BY <2>2, <2>3
<1> DEFINE S1 == {p[1] : p \in S}
<1>2. PICK a \in S1 : \A x \in S1 : a <= x
  <2>1. S1 \in SUBSET Nat /\ S1 # {}
    BY <1>1
  <2> QED  BY <2>1, LeastNumber
<1> DEFINE S2 == {p[2] : p \in {q \in S : q[1] = a}}
<1>3. PICK b \in S2 : \A x \in S2 : b <= x
  <2>1. S2 \in SUBSET Nat /\ S2 # {}
    BY <1>1, <1>2
  <2> QED  BY <2>1, LeastNumber
<1> DEFINE S3 == {p[3] : p \in {q \in S : q[1] = a /\ q[2] = b}}
<1>4. PICK c \in S3 : \A x \in S3 : c <= x
  <2>1. S3 \in SUBSET Nat /\ S3 # {}
    BY <1>1, <1>3
  <2> QED  BY <2>1, LeastNumber
<1>5. PICK p \in S : p[1] = a /\ p[2] = b /\ p[3] = c
  BY <1>4
<1>6. ASSUME NEW q \in S \ {p} PROVE Before(p, q)
  <2>1. q \in S /\ p # q
    OBVIOUS
  <2>2. a <= q[1] /\ (q[1] = a => b <= q[2]) /\ (q[1] = a /\ q[2] = b => c <= q[3])
    BY <2>1, <1>2, <1>3, <1>4
  <2>3. ~(q[1] = a /\ q[2] = b /\ q[3] = c)
    BY <2>1, <1>1, <1>5
  <2>4. a \in Nat /\ b \in Nat /\ c \in Nat /\ q[1] \in Nat /\ q[2] \in Nat /\ q[3] \in Nat
    BY <2>1, <1>1, <1>5
  <2>5. a < q[1] \/ (a = q[1] /\ b < q[2]) \/ (a = q[1] /\ b = q[2] /\ c < q[3])
    BY <2>2, <2>3, <2>4
  <2> QED  BY <2>5, <1>5 DEF Before
<1>7. \E x \in S : \A q \in S \ {x} : Before(x, q)
  BY <1>6
<1> QED  BY <1>7 DEF FirstOf

(* A lookup that succeeds names a place with a clip of that name.          *)
LEMMA FoundPlace ==
    ASSUME NEW d, IsDocument(d), NEW name, Found(d, name)
    PROVE  /\ Find(d, name) \in PlacesIn(d)
           /\ ElementAt(d, Find(d, name)).name = name
           /\ ElementAt(d, Find(d, name)).tag \in ClipTags
<1> DEFINE S == {p \in PlacesIn(d) : ElementAt(d, p).tag \in ClipTags /\ ElementAt(d, p).name = name}
<1>1. Find(d, name) = FirstOf(S)
  BY DEF Find
<1>2. S # {}
  BY <1>1 DEF Found, FirstOf
<1>3. FirstOf(S) \in S
  BY <1>2, FirstPlace
<1> QED  BY <1>1, <1>3

-----------------------------------------------------------------------------
(* What plays.                                                             *)

KidsPlay(e, r, t) == {k \in DOMAIN e.kids : Plays(e.kids[k], r, t)}

Silent(e, r, t) == ~Plays(e, r, t) /\ KidsPlay(e, r, t) = {}

Alike(e, x, r, t) ==
    /\ Plays(e, r, t) <=> Plays(x, r, t)
    /\ ExistsBijection(KidsPlay(e, r, t), KidsPlay(x, r, t))

(* h says where the items of one sequence are in the other; the others of  *)
(* both do not play the frame.                                             *)
Kept(a, b, h, r, t) ==
    /\ DOMAIN h \subseteq DOMAIN a
    /\ \A i \in DOMAIN h : h[i] \in DOMAIN b /\ Alike(a[i], b[h[i]], r, t)
    /\ \A i, j \in DOMAIN h : h[i] = h[j] => i = j
    /\ \A i \in DOMAIN a \ DOMAIN h : Silent(a[i], r, t)
    /\ \A m \in DOMAIN b : (\E i \in DOMAIN h : h[i] = m) \/ Silent(b[m], r, t)

(* A map that is one to one between two sets. *)
LEMMA OneToOne ==
    ASSUME NEW S, NEW T, NEW f, S \subseteq DOMAIN f, \A x \in S : f[x] \in T,
           \A x, y \in S : f[x] = f[y] => x = y,
           \A z \in T : \E x \in S : f[x] = z
    PROVE  ExistsBijection(S, T)
<1> DEFINE g == [x \in S |-> f[x]]
<1>1. g \in [S -> T] /\ \A x \in S : g[x] = f[x]
  OBVIOUS
<1> HIDE DEF g
<1>2. g \in Injection(S, T)
  BY <1>1 DEF Injection, IsInjective
<1>3. g \in Surjection(S, T)
  BY <1>1 DEF Surjection
<1> QED  BY <1>2, <1>3 DEF ExistsBijection, Bijection

(* How often frame t of a resource plays. *)
Played(d, r, t) == Cardinality({p \in PlacesIn(d) : Plays(ElementAt(d, p), r, t)})

(* Two documents whose playing places correspond play a frame equally      *)
(* often.                                                                  *)
LEMMA SamePlayed ==
    ASSUME NEW d, IsDocument(d), NEW x, NEW r, NEW t,
           ExistsBijection({p \in PlacesIn(d) : Plays(ElementAt(d, p), r, t)},
                           {p \in PlacesIn(x) : Plays(ElementAt(x, p), r, t)})
    PROVE  Played(d, r, t) = Played(x, r, t)
<1> DEFINE S == {p \in PlacesIn(d) : Plays(ElementAt(d, p), r, t)}
<1> DEFINE T == {p \in PlacesIn(x) : Plays(ElementAt(x, p), r, t)}
<1>1. IsFiniteSet(S)
  <2>1. S \in SUBSET PlacesIn(d)
    OBVIOUS
  <2> HIDE DEF S
  <2> QED  BY <2>1, PlacesFinite, FS_Subset
<1>2. ExistsBijection(S, T)
  OBVIOUS
<1>3. Played(d, r, t) = Cardinality(S) /\ Played(x, r, t) = Cardinality(T)
  BY DEF Played
<1> HIDE DEF S, T
<1>4. Cardinality(T) = Cardinality(S)
  BY <1>1, <1>2, FS_Bijection
<1> QED  BY <1>3, <1>4

(* The places that play a frame, item by item.                             *)
LEMMA PlayingPlaces ==
    ASSUME NEW d, IsDocument(d), NEW r, NEW t, NEW p
    PROVE  p \in {q \in PlacesIn(d) : Plays(ElementAt(d, q), r, t)} <=>
              \E s \in DOMAIN d.spines : \E i \in DOMAIN d.spines[s].items :
                 LET e == d.spines[s].items[i]
                 IN  \/ p = <<s, i, 0>> /\ Plays(e, r, t)
                     \/ \E k \in KidsPlay(e, r, t) : p = <<s, i, k>> /\ k # 0
<1> DEFINE P == {q \in PlacesIn(d) : Plays(ElementAt(d, q), r, t)}
<1>1. ASSUME NEW s \in DOMAIN d.spines, NEW i \in DOMAIN d.spines[s].items, NEW k
      PROVE  /\ <<s, i, k>> \in PlacesIn(d) <=> k \in 0..Len(d.spines[s].items[i].kids)
             /\ ElementAt(d, <<s, i, k>>) = IF k = 0 THEN d.spines[s].items[i]
                                            ELSE d.spines[s].items[i].kids[k]
             /\ k # 0 => (k \in 0..Len(d.spines[s].items[i].kids)
                             <=> k \in DOMAIN d.spines[s].items[i].kids)
             /\ 0 \in 0..Len(d.spines[s].items[i].kids)
             /\ 0 \notin DOMAIN d.spines[s].items[i].kids
  <2>1. <<s, i, k>> \in PlacesIn(d) <=> k \in 0..Len(d.spines[s].items[i].kids)
    BY InPlaces
  <2>2. /\ Len(d.spines[s].items[i].kids) \in Nat
        /\ DOMAIN d.spines[s].items[i].kids = 1..Len(d.spines[s].items[i].kids)
    BY DocumentParts
  <2> QED  BY <2>1, <2>2 DEF ElementAt
<1>2. ASSUME p \in P
      PROVE  \E s \in DOMAIN d.spines : \E i \in DOMAIN d.spines[s].items :
                 \/ p = <<s, i, 0>> /\ Plays(d.spines[s].items[i], r, t)
                 \/ \E k \in KidsPlay(d.spines[s].items[i], r, t) : p = <<s, i, k>> /\ k # 0
  <2>1. PICK s \in DOMAIN d.spines : \E i \in DOMAIN d.spines[s].items :
            \E k \in 0..Len(d.spines[s].items[i].kids) : p = <<s, i, k>>
    BY <1>2, InPlaces
  <2>2. PICK i \in DOMAIN d.spines[s].items :
            \E k \in 0..Len(d.spines[s].items[i].kids) : p = <<s, i, k>>
    BY <2>1
  <2>3. PICK k \in 0..Len(d.spines[s].items[i].kids) : p = <<s, i, k>>
    BY <2>2
  <2>4. Plays(ElementAt(d, <<s, i, k>>), r, t)
    BY <1>2, <2>3
  <2>5. CASE k = 0
    BY <2>3, <2>4, <2>5, <1>1
  <2>6. CASE k # 0
    <3>1. k \in KidsPlay(d.spines[s].items[i], r, t)
      BY <2>4, <2>6, <1>1 DEF KidsPlay
    <3> QED  BY <3>1, <2>3, <2>6
  <2> QED  BY <2>5, <2>6
<1>3. ASSUME NEW s \in DOMAIN d.spines, NEW i \in DOMAIN d.spines[s].items,
             \/ p = <<s, i, 0>> /\ Plays(d.spines[s].items[i], r, t)
             \/ \E k \in KidsPlay(d.spines[s].items[i], r, t) : p = <<s, i, k>> /\ k # 0
      PROVE  p \in P
  <2>1. CASE p = <<s, i, 0>> /\ Plays(d.spines[s].items[i], r, t)
    <3>1. <<s, i, 0>> \in PlacesIn(d) /\ ElementAt(d, <<s, i, 0>>) = d.spines[s].items[i]
      BY <1>1
    <3> QED  BY <2>1, <3>1
  <2>2. CASE \E k \in KidsPlay(d.spines[s].items[i], r, t) : p = <<s, i, k>> /\ k # 0
    <3>1. PICK k \in KidsPlay(d.spines[s].items[i], r, t) : p = <<s, i, k>> /\ k # 0
      BY <2>2
    <3>2. k \in DOMAIN d.spines[s].items[i].kids /\ Plays(d.spines[s].items[i].kids[k], r, t)
      BY DEF KidsPlay
    <3>3. k # 0 /\ k \in 0..Len(d.spines[s].items[i].kids)
      BY <1>1, <3>1, <3>2
    <3>4. <<s, i, k>> \in PlacesIn(d)
      BY <1>1, <3>3
    <3>5. ElementAt(d, <<s, i, k>>) = d.spines[s].items[i].kids[k]
      BY <1>1, <3>3
    <3> QED  BY <3>1, <3>2, <3>4, <3>5
  <2> QED  BY <1>3, <2>1, <2>2
<1> HIDE DEF P
<1>4. p \in P <=>
         \E s \in DOMAIN d.spines : \E i \in DOMAIN d.spines[s].items :
                 \/ p = <<s, i, 0>> /\ Plays(d.spines[s].items[i], r, t)
                 \/ \E k \in KidsPlay(d.spines[s].items[i], r, t) : p = <<s, i, k>> /\ k # 0
  BY <1>2, <1>3
<1> QED  BY <1>4 DEF P

(* If every spine keeps its items, wherever they go, a frame plays as      *)
(* often as before.                                                        *)
LEMMA KeptPlays ==
    ASSUME NEW d, IsDocument(d), NEW x, IsDocument(x), DOMAIN x.spines = DOMAIN d.spines,
           NEW r, NEW t,
           \A s \in DOMAIN d.spines : \E h : Kept(d.spines[s].items, x.spines[s].items, h, r, t)
    PROVE  Played(d, r, t) = Played(x, r, t)
<1> DEFINE P == {p \in PlacesIn(d) : Plays(ElementAt(d, p), r, t)}
<1> DEFINE Q == {p \in PlacesIn(x) : Plays(ElementAt(x, p), r, t)}
<1> DEFINE a(s) == d.spines[s].items
<1> DEFINE b(s) == x.spines[s].items
<1> DEFINE H(s) == CHOOSE h : Kept(a(s), b(s), h, r, t)
<1> DEFINE G(s, i) == CHOOSE g : g \in Bijection(KidsPlay(a(s)[i], r, t),
                                                KidsPlay(b(s)[H(s)[i]], r, t))
<1>1. ASSUME NEW s \in DOMAIN d.spines PROVE Kept(a(s), b(s), H(s), r, t)
  OBVIOUS
<1> HIDE DEF H
<1>2. ASSUME NEW s \in DOMAIN d.spines, NEW i \in DOMAIN H(s)
      PROVE  /\ \A k \in KidsPlay(a(s)[i], r, t) : G(s, i)[k] \in KidsPlay(b(s)[H(s)[i]], r, t)
             /\ \A k, m \in KidsPlay(a(s)[i], r, t) : G(s, i)[k] = G(s, i)[m] => k = m
             /\ \A m \in KidsPlay(b(s)[H(s)[i]], r, t) :
                   \E k \in KidsPlay(a(s)[i], r, t) : G(s, i)[k] = m
  <2> DEFINE K == KidsPlay(a(s)[i], r, t)
  <2> DEFINE L == KidsPlay(b(s)[H(s)[i]], r, t)
  <2>1. ExistsBijection(K, L)
    BY <1>1 DEF Kept, Alike
  <2>2. G(s, i) \in Bijection(K, L)
    BY <2>1 DEF ExistsBijection
  <2> HIDE DEF G, K, L
  <2>3. /\ \A k \in K : G(s, i)[k] \in L
        /\ \A k, m \in K : G(s, i)[k] = G(s, i)[m] => k = m
        /\ \A m \in L : \E k \in K : G(s, i)[k] = m
    BY <2>2 DEF Bijection, Injection, Surjection, IsInjective
  <2> QED  BY <2>3 DEF K, L
<1> HIDE DEF G
<1> DEFINE From(p, s, i) == \/ p = <<s, i, 0>> /\ Plays(a(s)[i], r, t)
                           \/ \E k \in KidsPlay(a(s)[i], r, t) : p = <<s, i, k>> /\ k # 0
<1>3. \A p \in P : \E s \in DOMAIN d.spines : \E i \in DOMAIN a(s) : From(p, s, i)
  BY PlayingPlaces
<1>4. \A p : \A s \in DOMAIN d.spines : \A i \in DOMAIN a(s) : From(p, s, i) => p \in P
  BY PlayingPlaces
<1> DEFINE To(q, s, m) == \/ q = <<s, m, 0>> /\ Plays(b(s)[m], r, t)
                         \/ \E k \in KidsPlay(b(s)[m], r, t) : q = <<s, m, k>> /\ k # 0
<1>5. \A q \in Q : \E s \in DOMAIN d.spines : \E m \in DOMAIN b(s) : To(q, s, m)
  BY PlayingPlaces
<1>6. ASSUME NEW q, NEW s \in DOMAIN d.spines, NEW m \in DOMAIN b(s), To(q, s, m) PROVE q \in Q
  <2>1. \E s2 \in DOMAIN x.spines : \E m2 \in DOMAIN b(s2) : To(q, s2, m2)
    BY <1>6
  <2>2. q \in Q <=> \E s2 \in DOMAIN x.spines : \E m2 \in DOMAIN b(s2) : To(q, s2, m2)
    BY PlayingPlaces
  <2> QED  BY <2>1, <2>2
<1> HIDE DEF P, Q
<1>7. ASSUME NEW s \in DOMAIN d.spines, NEW i \in DOMAIN b(s), NEW k \in KidsPlay(b(s)[i], r, t)
      PROVE  k # 0
  <2>1. s \in DOMAIN x.spines /\ i \in DOMAIN x.spines[s].items
    OBVIOUS
  <2>2. k \in DOMAIN x.spines[s].items[i].kids
    BY DEF KidsPlay
  <2>3. /\ Len(x.spines[s].items[i].kids) \in Nat
        /\ DOMAIN x.spines[s].items[i].kids = 1..Len(x.spines[s].items[i].kids)
    BY <2>1, DocumentParts
  <2> QED  BY <2>2, <2>3
<1>8. ASSUME NEW s \in DOMAIN d.spines, NEW i \in DOMAIN a(s), NEW p, From(p, s, i)
      PROVE  i \in DOMAIN H(s)
  <2> SUFFICES ASSUME i \notin DOMAIN H(s) PROVE FALSE
    OBVIOUS
  <2>1. Silent(a(s)[i], r, t)
    BY <1>1 DEF Kept
  <2> QED  BY <2>1, <1>8 DEF Silent
<1> DEFINE f == [p \in P |-> <<p[1], H(p[1])[p[2]],
                             IF p[3] = 0 THEN 0 ELSE G(p[1], p[2])[p[3]]>>]
<1>9. \A p \in P : f[p] = <<p[1], H(p[1])[p[2]], IF p[3] = 0 THEN 0 ELSE G(p[1], p[2])[p[3]]>>
  OBVIOUS
<1>10. P \subseteq DOMAIN f
  OBVIOUS
<1> HIDE DEF f
<1>11. ASSUME NEW p \in P PROVE f[p] \in Q
  <2>1. PICK s \in DOMAIN d.spines : \E i \in DOMAIN a(s) : From(p, s, i)
    BY <1>3
  <2>2. PICK i \in DOMAIN a(s) : From(p, s, i)
    BY <2>1
  <2>3. i \in DOMAIN H(s)
    BY <2>2, <1>8
  <2>4. H(s)[i] \in DOMAIN b(s) /\ (Plays(a(s)[i], r, t) <=> Plays(b(s)[H(s)[i]], r, t))
    BY <2>3, <1>1 DEF Kept, Alike
  <2>5. CASE p = <<s, i, 0>> /\ Plays(a(s)[i], r, t)
    <3>1. f[p] = <<s, H(s)[i], 0>>
      BY <2>5, <1>9
    <3> QED  BY <3>1, <2>4, <2>5, <1>6
  <2>6. CASE \E k \in KidsPlay(a(s)[i], r, t) : p = <<s, i, k>> /\ k # 0
    <3>1. PICK k \in KidsPlay(a(s)[i], r, t) : p = <<s, i, k>> /\ k # 0
      BY <2>6
    <3>2. f[p] = <<s, H(s)[i], G(s, i)[k]>>
      BY <3>1, <1>9
    <3>3. G(s, i)[k] \in KidsPlay(b(s)[H(s)[i]], r, t)
      BY <2>3, <1>2
    <3>4. G(s, i)[k] # 0
      BY <3>3, <2>4, <1>7
    <3> QED  BY <3>2, <3>3, <3>4, <2>4, <1>6
  <2> QED  BY <2>2, <2>5, <2>6
<1>12. ASSUME NEW p \in P, NEW q \in P, f[p] = f[q] PROVE p = q
  <2>1. PICK s \in DOMAIN d.spines : \E i \in DOMAIN a(s) : From(p, s, i)
    BY <1>3
  <2>2. PICK i \in DOMAIN a(s) : From(p, s, i)
    BY <2>1
  <2>3. PICK s2 \in DOMAIN d.spines : \E i2 \in DOMAIN a(s2) : From(q, s2, i2)
    BY <1>3
  <2>4. PICK i2 \in DOMAIN a(s2) : From(q, s2, i2)
    BY <2>3
  <2>5. i \in DOMAIN H(s) /\ i2 \in DOMAIN H(s2)
    BY <2>2, <2>4, <1>8
  <2>6. p[1] = s /\ p[2] = i /\ q[1] = s2 /\ q[2] = i2
    BY <2>2, <2>4
  <2>7. s = s2 /\ H(s)[i] = H(s2)[i2]
    BY <2>6, <1>9, <1>12
  <2>8. i = i2
    BY <2>5, <2>7, <1>1 DEF Kept
  <2>9. (IF p[3] = 0 THEN 0 ELSE G(s, i)[p[3]]) = IF q[3] = 0 THEN 0 ELSE G(s, i)[q[3]]
    BY <2>6, <2>7, <2>8, <1>9, <1>12
  <2>10. /\ p = <<s, i, p[3]>> /\ q = <<s, i, q[3]>>
         /\ p[3] # 0 => p[3] \in KidsPlay(a(s)[i], r, t)
         /\ q[3] # 0 => q[3] \in KidsPlay(a(s)[i], r, t)
    BY <2>2, <2>4, <2>7, <2>8
  <2>11. \A k \in KidsPlay(a(s)[i], r, t) : G(s, i)[k] # 0
    <3>1. H(s)[i] \in DOMAIN b(s)
      BY <2>5, <1>1 DEF Kept
    <3> QED  BY <3>1, <2>5, <1>2, <1>7
  <2>12. \A k, m \in KidsPlay(a(s)[i], r, t) : G(s, i)[k] = G(s, i)[m] => k = m
    BY <2>5, <1>2
  <2>13. p[3] = q[3]
    BY <2>9, <2>10, <2>11, <2>12
  <2> QED  BY <2>10, <2>13
<1>13. ASSUME NEW q \in Q PROVE \E p \in P : f[p] = q
  <2>1. PICK s \in DOMAIN d.spines : \E m \in DOMAIN b(s) : To(q, s, m)
    BY <1>5
  <2>2. PICK m \in DOMAIN b(s) : To(q, s, m)
    BY <2>1
  <2>3. PICK i \in DOMAIN H(s) : H(s)[i] = m
    <3> SUFFICES ASSUME Silent(b(s)[m], r, t) PROVE FALSE
      BY <1>1 DEF Kept
    <3> QED  BY <2>2 DEF Silent
  <2>4. i \in DOMAIN a(s) /\ (Plays(a(s)[i], r, t) <=> Plays(b(s)[m], r, t))
    BY <2>3, <1>1 DEF Kept, Alike
  <2>5. CASE q = <<s, m, 0>> /\ Plays(b(s)[m], r, t)
    <3>1. <<s, i, 0>> \in P
      BY <2>4, <2>5, <1>4
    <3>2. f[<<s, i, 0>>] = <<s, m, 0>>
      BY <3>1, <2>3, <1>9
    <3> QED  BY <3>1, <3>2, <2>5
  <2>6. CASE \E k \in KidsPlay(b(s)[m], r, t) : q = <<s, m, k>> /\ k # 0
    <3>1. PICK n \in KidsPlay(b(s)[m], r, t) : q = <<s, m, n>> /\ n # 0
      BY <2>6
    <3>2. PICK k \in KidsPlay(a(s)[i], r, t) : G(s, i)[k] = n
      BY <2>3, <3>1, <1>2
    <3>3. k # 0
      <4>1. k \in DOMAIN a(s)[i].kids
        BY DEF KidsPlay
      <4>2. DOMAIN a(s)[i].kids = 1..Len(a(s)[i].kids) /\ Len(a(s)[i].kids) \in Nat
        BY <2>4, DocumentParts
      <4> QED  BY <4>1, <4>2
    <3>4. <<s, i, k>> \in P
      BY <2>4, <3>2, <3>3, <1>4
    <3>5. f[<<s, i, k>>] = <<s, m, n>>
      BY <3>2, <3>3, <3>4, <2>3, <1>9
    <3> QED  BY <3>1, <3>4, <3>5
  <2> QED  BY <2>2, <2>5, <2>6
<1>14. ExistsBijection(P, Q)
  BY <1>10, <1>11, <1>12, <1>13, OneToOne
<1> QED  BY <1>14, SamePlayed DEF P, Q

-----------------------------------------------------------------------------
(* Documents that play the same.                                               *)

SamePlay(d, x) == IsDocument(x) /\ \A r : \A t \in Int : Played(d, r, t) = Played(x, r, t)

SameLook(e, x) == e.tag = x.tag /\ e.ref = x.ref /\ e.start = x.start /\ e.dur = x.dur

SameBranch(e, x) ==
    /\ SameLook(e, x)
    /\ DOMAIN e.kids = DOMAIN x.kids
    /\ \A k \in DOMAIN e.kids : SameLook(e.kids[k], x.kids[k])

Mute(e) == ~IsClip(e) /\ \A k \in DOMAIN e.kids : ~IsClip(e.kids[k])

Rearranged(a, b, h) ==
    /\ DOMAIN h \subseteq DOMAIN a
    /\ \A i \in DOMAIN h : h[i] \in DOMAIN b /\ SameBranch(a[i], b[h[i]])
    /\ \A i, j \in DOMAIN h : h[i] = h[j] => i = j
    /\ \A i \in DOMAIN a \ DOMAIN h : Mute(a[i])
    /\ \A m \in DOMAIN b : (\E i \in DOMAIN h : h[i] = m) \/ Mute(b[m])

(* Two elements that look the same play the same frames.                   *)
LEMMA SameLookPlays ==
    ASSUME NEW e, NEW x, SameLook(e, x), NEW r, NEW t
    PROVE  Plays(e, r, t) <=> Plays(x, r, t)
BY DEF SameLook, Plays, IsClip

(* Items whose connected clips look the same play alike.                   *)
LEMMA BranchAlike ==
    ASSUME NEW e, NEW x, SameBranch(e, x), NEW r, NEW t
    PROVE  Alike(e, x, r, t)
<1>1. Plays(e, r, t) <=> Plays(x, r, t)
  BY SameLookPlays DEF SameBranch
<1>2. \A k \in DOMAIN e.kids : Plays(e.kids[k], r, t) <=> Plays(x.kids[k], r, t)
  BY SameLookPlays DEF SameBranch
<1>3. KidsPlay(e, r, t) = KidsPlay(x, r, t)
  BY <1>2 DEF KidsPlay, SameBranch
<1>4. ExistsBijection(KidsPlay(e, r, t), KidsPlay(x, r, t))
  <2> DEFINE f == [k \in KidsPlay(e, r, t) |-> k]
  <2>1. DOMAIN f = KidsPlay(e, r, t) /\ \A k \in KidsPlay(e, r, t) : f[k] = k
    OBVIOUS
  <2> HIDE DEF f
  <2> QED  BY <1>3, <2>1, OneToOne
<1> QED  BY <1>1, <1>4 DEF Alike

(* An item that is no clip and carries none plays nothing.                 *)
LEMMA MuteSilent ==
    ASSUME NEW e, Mute(e), NEW r, NEW t
    PROVE  Silent(e, r, t)
BY DEF Mute, Silent, KidsPlay, Plays

(* A spine rearranged keeps what every frame is played by.                 *)
LEMMA RearrangedKept ==
    ASSUME NEW a, NEW b, NEW h, Rearranged(a, b, h), NEW r, NEW t
    PROVE  Kept(a, b, h, r, t)
<1>1. \A i \in DOMAIN h : Alike(a[i], b[h[i]], r, t)
  BY BranchAlike DEF Rearranged
<1>2. \A i \in DOMAIN a \ DOMAIN h : Silent(a[i], r, t)
  BY MuteSilent DEF Rearranged
<1>3. \A m \in DOMAIN b : (\E i \in DOMAIN h : h[i] = m) \/ Silent(b[m], r, t)
  BY MuteSilent DEF Rearranged
<1> QED  BY <1>1, <1>2, <1>3 DEF Rearranged, Kept

(* An item is a branch like itself.                                        *)
LEMMA SameBranchReflexive ==
    ASSUME NEW e
    PROVE  SameBranch(e, e)
BY DEF SameBranch, SameLook

(* A spine left alone is rearranged.                                       *)
LEMMA Untouched ==
    ASSUME NEW a
    PROVE  \E h : Rearranged(a, a, h)
<1> DEFINE h == [i \in DOMAIN a |-> i]
<1>1. DOMAIN h = DOMAIN a /\ \A i \in DOMAIN a : h[i] = i
  OBVIOUS
<1> HIDE DEF h
<1>2. Rearranged(a, a, h)
  BY <1>1, SameBranchReflexive DEF Rearranged
<1> QED  BY <1>2

(* If every spine keeps what plays, so does the document. *)
LEMMA SpinesKept ==
    ASSUME NEW d, IsDocument(d), NEW x, IsDocument(x), DOMAIN x.spines = DOMAIN d.spines,
           \A s \in DOMAIN d.spines : \A r : \A t \in Int :
               \E h : Kept(d.spines[s].items, x.spines[s].items, h, r, t)
    PROVE  SamePlay(d, x)
<1> SUFFICES ASSUME NEW r, NEW t \in Int PROVE Played(d, r, t) = Played(x, r, t)
  BY DEF SamePlay
<1>1. \A s \in DOMAIN d.spines : \E h : Kept(d.spines[s].items, x.spines[s].items, h, r, t)
  OBVIOUS
<1> QED  BY <1>1, KeptPlays

(* A document whose spines are each rearranged plays the same.             *)
LEMMA SpinesRearranged ==
    ASSUME NEW d, IsDocument(d), NEW x, IsDocument(x), DOMAIN x.spines = DOMAIN d.spines,
           \A s \in DOMAIN d.spines : \E h : Rearranged(d.spines[s].items, x.spines[s].items, h)
    PROVE  SamePlay(d, x)
<1>1. ASSUME NEW s \in DOMAIN d.spines, NEW r, NEW t \in Int
      PROVE  \E h : Kept(d.spines[s].items, x.spines[s].items, h, r, t)
  <2>1. PICK h : Rearranged(d.spines[s].items, x.spines[s].items, h)
    OBVIOUS
  <2>2. Kept(d.spines[s].items, x.spines[s].items, h, r, t)
    BY <2>1, RearrangedKept
  <2> QED  BY <2>2
<1> QED  BY <1>1, SpinesKept

(* Playing the same is transitive.                                         *)
LEMMA SamePlayTransitive ==
    ASSUME NEW d, NEW x, NEW y, SamePlay(d, x), SamePlay(x, y)
    PROVE  SamePlay(d, y)
BY DEF SamePlay

(* Other items in one spine. *)
LEMMA NewItems ==
    ASSUME NEW d, IsDocument(d), NEW s \in DOMAIN d.spines,
           NEW c, IsSequence(c), \A i \in DOMAIN c : IsItem(c[i])
    PROVE  LET x == [d EXCEPT !.spines[s].items = c]
           IN  /\ IsDocument(x)
               /\ DOMAIN x.spines = DOMAIN d.spines
               /\ x.spines[s].items = c
               /\ \A y \in DOMAIN d.spines : y # s => x.spines[y] = d.spines[y]
               /\ x.labels = d.labels /\ x.format = d.format
<1> DEFINE x == [d EXCEPT !.spines[s].items = c]
<1>1. /\ DOMAIN x.spines = DOMAIN d.spines
      /\ x.spines[s].items = c
      /\ \A y \in DOMAIN d.spines : y # s => x.spines[y] = d.spines[y]
      /\ x.labels = d.labels /\ x.format = d.format
      /\ x = [spines |-> x.spines, labels |-> x.labels, format |-> x.format]
  BY DEF IsDocument, IsSpine
<1>2. IsSpine(x.spines[s])
  BY DEF IsDocument, IsSpine
<1>3. IsSequence(x.spines)
  <2>1. DOMAIN x.spines = 1..Len(d.spines) /\ Len(d.spines) \in Nat
    BY <1>1, DocumentParts
  <2>2. x.spines = [i \in DOMAIN d.spines |-> x.spines[i]]
    BY DEF IsDocument
  <2> HIDE DEF x
  <2>3. x.spines \in Seq({x.spines[i] : i \in DOMAIN x.spines})
    BY <2>1, <2>2
  <2> QED  BY <2>3, SequenceOf
<1>4. IsDocument(x)
  <2>1. \A y \in DOMAIN x.spines : IsSpine(x.spines[y])
    BY <1>1, <1>2 DEF IsDocument
  <2> HIDE DEF x
  <2> QED  BY <1>1, <1>3, <2>1 DEF IsDocument
<1> QED  BY <1>1, <1>4

(* A function on 1..n is a sequence of length n.                           *)
LEMMA SequenceFrom ==
    ASSUME NEW s, NEW n \in Nat, s = [i \in 1..n |-> s[i]]
    PROVE  IsSequence(s) /\ Len(s) = n /\ DOMAIN s = 1..n
<1>1. s \in Seq({s[i] : i \in 1..n}) /\ Len(s) = n /\ DOMAIN s = 1..n
  OBVIOUS
<1> QED  BY <1>1, SequenceOf

(* A sequence with one member more at its end.                             *)
LEMMA Appended ==
    ASSUME NEW s, IsSequence(s), NEW e
    PROVE  LET c == Append(s, e)
           IN  /\ IsSequence(c) /\ DOMAIN c = 1..(Len(s) + 1) /\ Len(c) = Len(s) + 1
               /\ c[Len(s) + 1] = e /\ \A j \in DOMAIN s : c[j] = s[j]
<1> DEFINE T == ToSet(s) \cup {e}
<1>1. s \in Seq(T)
  <2>1. s \in Seq(ToSet(s))
    BY DEF IsSequence
  <2> QED  BY <2>1
<1> HIDE DEF T
<1>2. e \in T
  BY DEF T
<1>3. /\ Append(s, e) \in Seq(T) /\ Len(Append(s, e)) = Len(s) + 1
      /\ Append(s, e)[Len(s) + 1] = e
  BY <1>1, <1>2
<1>4. Len(s) \in Nat /\ DOMAIN s = 1..Len(s) /\ DOMAIN Append(s, e) = 1..(Len(s) + 1)
  BY <1>1, <1>3
<1>5. \A j \in DOMAIN s : Append(s, e)[j] = s[j]
  BY <1>1, <1>2
<1>6. IsSequence(Append(s, e))
  BY <1>3, SequenceOf
<1> QED  BY <1>3, <1>4, <1>5, <1>6

(* A sequence with no member.                                              *)
LEMMA NoMembers == IsSequence(<<>>)
<1>1. <<>> \in Seq({})
  OBVIOUS
<1> QED  BY <1>1, SequenceOf

(* A sequence with one member replaced.                                    *)
LEMMA Replacing ==
    ASSUME NEW s, IsSequence(s), NEW i \in DOMAIN s, NEW e
    PROVE  LET c == [s EXCEPT ![i] = e]
           IN  /\ IsSequence(c) /\ DOMAIN c = DOMAIN s /\ Len(c) = Len(s)
               /\ c[i] = e /\ \A j \in DOMAIN s : j # i => c[j] = s[j]
<1> DEFINE c == [s EXCEPT ![i] = e]
<1>1. DOMAIN s = 1..Len(s) /\ Len(s) \in Nat
  BY Sequences
<1>2. DOMAIN c = DOMAIN s /\ c[i] = e /\ \A j \in DOMAIN s : j # i => c[j] = s[j]
  OBVIOUS
<1>3. c = [j \in DOMAIN s |-> c[j]]
  OBVIOUS
<1> HIDE DEF c
<1>4. IsSequence(c) /\ Len(c) = Len(s)
  BY <1>1, <1>3, SequenceFrom
<1> QED  BY <1>2, <1>4 DEF c

(* An item of a document with other connected clips is still an item.      *)
LEMMA NewKids ==
    ASSUME NEW d, IsDocument(d), NEW s \in DOMAIN d.spines, NEW i \in DOMAIN d.spines[s].items,
           NEW c, IsSequence(c), \A k \in DOMAIN c : IsElement(c[k])
    PROVE  LET x == [d EXCEPT !.spines[s].items[i].kids = c]
               a == d.spines[s].items
           IN  /\ x = [d EXCEPT !.spines[s].items = [a EXCEPT ![i] = [a[i] EXCEPT !.kids = c]]]
               /\ IsSequence([a EXCEPT ![i] = [a[i] EXCEPT !.kids = c]])
               /\ \A j \in DOMAIN a : IsItem([a EXCEPT ![i] = [a[i] EXCEPT !.kids = c]][j])
<1> DEFINE a == d.spines[s].items
<1> DEFINE b == [a EXCEPT ![i] = [a[i] EXCEPT !.kids = c]]
<1>1. [d EXCEPT !.spines[s].items[i].kids = c] = [d EXCEPT !.spines[s].items = b]
  BY DEF IsDocument, IsSpine
<1>2. IsSequence(b)
  <2>1. IsSequence(a) /\ i \in DOMAIN a
    BY DEF IsDocument, IsSpine
  <2> HIDE DEF a
  <2> QED  BY <2>1, Replacing
<1>3. IsItem([a[i] EXCEPT !.kids = c])
  <2>1. IsElement(a[i])
    BY DocumentParts DEF IsItem
  <2> HIDE DEF a
  <2> QED  BY <2>1 DEF IsItem, IsElement
<1>4. \A j \in DOMAIN a : IsItem(b[j])
  <2>1. \A j \in DOMAIN a : IsItem(a[j])
    BY DocumentParts
  <2> HIDE DEF a
  <2> QED  BY <1>3, <2>1
<1> QED  BY <1>1, <1>2, <1>4

(* A document with one spine whose playing is kept plays the same.         *)
LEMMA SpineKept ==
    ASSUME NEW d, IsDocument(d), NEW s \in DOMAIN d.spines,
           NEW c, IsSequence(c), \A i \in DOMAIN c : IsItem(c[i]),
           \A r : \A t \in Int : \E h : Kept(d.spines[s].items, c, h, r, t)
    PROVE  SamePlay(d, [d EXCEPT !.spines[s].items = c])
<1> DEFINE x == [d EXCEPT !.spines[s].items = c]
<1>1. /\ IsDocument(x)
      /\ DOMAIN x.spines = DOMAIN d.spines
      /\ x.spines[s].items = c
      /\ \A y \in DOMAIN d.spines : y # s => x.spines[y] = d.spines[y]
  BY NewItems
<1> HIDE DEF x
<1>2. ASSUME NEW y \in DOMAIN d.spines, NEW r, NEW t \in Int
      PROVE  \E h : Kept(d.spines[y].items, x.spines[y].items, h, r, t)
  <2>1. CASE y = s
    BY <1>1, <2>1
  <2>2. CASE y # s
    BY <1>1, <2>2, Untouched, RearrangedKept
  <2> QED  BY <2>1, <2>2
<1>3. SamePlay(d, x)
  BY <1>1, <1>2, SpinesKept
<1> QED  BY <1>3 DEF x

PlayingIn(a, r, t) == {k \in DOMAIN a : Plays(a[k], r, t)}

(* Other connected clips of one item. *)
LEMMA KidsKept ==
    ASSUME NEW d, IsDocument(d), NEW s \in DOMAIN d.spines, NEW i \in DOMAIN d.spines[s].items,
           NEW c, IsSequence(c), \A k \in DOMAIN c : IsElement(c[k]),
           \A r : \A t \in Int :
              ExistsBijection(PlayingIn(d.spines[s].items[i].kids, r, t), PlayingIn(c, r, t))
    PROVE  SamePlay(d, [d EXCEPT !.spines[s].items[i].kids = c])
<1> DEFINE a == d.spines[s].items
<1> DEFINE e == [a[i] EXCEPT !.kids = c]
<1> DEFINE b == [a EXCEPT ![i] = e]
<1>1. /\ [d EXCEPT !.spines[s].items[i].kids = c] = [d EXCEPT !.spines[s].items = b]
      /\ IsSequence(b)
      /\ \A j \in DOMAIN b : IsItem(b[j])
  BY NewKids
<1>2. /\ e.kids = c
      /\ e.tag = a[i].tag /\ e.ref = a[i].ref /\ e.start = a[i].start /\ e.dur = a[i].dur
  <2>1. IsElement(a[i])
    BY DocumentParts DEF IsItem
  <2> HIDE DEF a
  <2> QED  BY <2>1 DEF IsElement
<1> HIDE DEF e
<1>3. ASSUME NEW r, NEW t \in Int PROVE \E h : Kept(a, b, h, r, t)
  <2> DEFINE h == [j \in DOMAIN a |-> j]
  <2>1. DOMAIN h = DOMAIN a /\ \A j \in DOMAIN a : h[j] = j
    OBVIOUS
  <2> HIDE DEF h
  <2>2. Alike(a[i], e, r, t)
    <3>1. Plays(a[i], r, t) <=> Plays(e, r, t)
      BY <1>2 DEF Plays, IsClip
    <3>2. ExistsBijection(KidsPlay(a[i], r, t), KidsPlay(e, r, t))
      BY <1>2 DEF KidsPlay, PlayingIn
    <3> QED  BY <3>1, <3>2 DEF Alike
  <2>3. \A j \in DOMAIN a : Alike(a[j], a[j], r, t)
    BY BranchAlike, SameBranchReflexive
  <2>4. DOMAIN b = DOMAIN a /\ \A j \in DOMAIN a : Alike(a[j], b[j], r, t)
    <3> HIDE DEF a
    <3> QED  BY <2>2, <2>3
  <2> HIDE DEF a, b
  <2>5. Kept(a, b, h, r, t)
    BY <2>1, <2>4 DEF Kept
  <2> QED  BY <2>5
<1> HIDE DEF b
<1> QED  BY <1>1, <1>3, SpineKept

-----------------------------------------------------------------------------
(* One element.                                                            *)

(* A sequence with one member inserted after its i-th.                     *)
LEMMA Inserting ==
    ASSUME NEW s, IsSequence(s), NEW i \in DOMAIN s, NEW e
    PROVE  LET c == InsertAt(s, i + 1, e)
           IN  /\ IsSequence(c) /\ Len(c) = Len(s) + 1 /\ DOMAIN c = 1..(Len(s) + 1)
               /\ \A j \in 1..i : c[j] = s[j]
               /\ c[i + 1] = e
               /\ \A j \in (i + 1)..Len(s) : c[j + 1] = s[j]
<1> DEFINE T == ToSet(s) \cup {e}
<1>1. s \in Seq(T)
  BY DEF IsSequence
<1>2. PICK n \in Nat : Len(s) = n /\ DOMAIN s = 1..n
  BY <1>1
<1> HIDE DEF T
<1> DEFINE a == SubSeq(s, 1, i)
<1> DEFINE b == SubSeq(s, i + 1, n)
<1>3. /\ a \in Seq(T) /\ Len(a) = i /\ \A j \in 1..i : a[j] = s[j]
      /\ b \in Seq(T) /\ Len(b) = n - i /\ \A j \in 1..(n - i) : b[j] = s[i + j]
  BY <1>1, <1>2
<1>4. <<e>> \in Seq(T) /\ Len(<<e>>) = 1 /\ <<e>>[1] = e
  BY DEF T
<1> HIDE DEF a, b
<1>5. i \in 1..n /\ i \in Nat /\ n - i \in Nat
  BY <1>2
<1> DEFINE x == a \o <<e>>
<1>6. /\ x \in Seq(T) /\ Len(x) = i + 1
      /\ \A j \in 1..i : x[j] = s[j]
      /\ x[i + 1] = e
  <2>1. /\ x \in Seq(T) /\ Len(x) = Len(a) + 1
        /\ \A j \in 1..Len(a) : x[j] = a[j]
        /\ \A j \in 1..1 : x[Len(a) + j] = <<e>>[j]
    BY <1>3, <1>4, Concatenated
  <2>2. 1 \in 1..1
    OBVIOUS
  <2> HIDE DEF x
  <2> QED  BY <2>1, <2>2, <1>3, <1>4
<1> HIDE DEF x
<1> DEFINE c == x \o b
<1>7. /\ c \in Seq(T) /\ Len(c) = Len(x) + Len(b)
      /\ \A j \in 1..Len(x) : c[j] = x[j]
      /\ \A j \in 1..Len(b) : c[Len(x) + j] = b[j]
  <2>1. x \in Seq(T) /\ b \in Seq(T)
    BY <1>3, <1>6
  <2> QED  BY <2>1, Concatenated
<1>8. c = InsertAt(s, i + 1, e)
  <2>1. (i + 1) - 1 = i
    BY <1>5
  <2> QED  BY <2>1, <1>2 DEF c, x, a, b, InsertAt
<1> HIDE DEF c
<1>9. Len(c) = n + 1 /\ DOMAIN c = 1..(n + 1) /\ IsSequence(c)
  <2>1. Len(c) = n + 1
    BY <1>3, <1>5, <1>6, <1>7
  <2> QED  BY <2>1, <1>7, SequenceOf
<1>10. \A j \in 1..i : c[j] = s[j]
  <2>1. \A j \in 1..i : j \in 1..(i + 1)
    BY <1>5
  <2> QED  BY <2>1, <1>6, <1>7
<1>11. c[i + 1] = e
  <2>1. i + 1 \in 1..(i + 1)
    BY <1>5
  <2> QED  BY <2>1, <1>6, <1>7
<1>12. ASSUME NEW j \in (i + 1)..n PROVE c[j + 1] = s[j]
  <2>1. j - i \in 1..(n - i) /\ (i + 1) + (j - i) = j + 1 /\ i + (j - i) = j
    BY <1>5
  <2>2. c[(i + 1) + (j - i)] = b[j - i]
    BY <2>1, <1>3, <1>6, <1>7
  <2> QED  BY <2>1, <2>2, <1>3
<1> QED  BY <1>2, <1>8, <1>9, <1>10, <1>11, <1>12

(* Its members are the old ones and the new one.                           *)
LEMMA InsertedMember ==
    ASSUME NEW s, IsSequence(s), NEW i \in DOMAIN s, NEW e, NEW k \in DOMAIN InsertAt(s, i + 1, e)
    PROVE  LET c == InsertAt(s, i + 1, e)
           IN  c[k] = e \/ \E j \in DOMAIN s : c[k] = s[j]
<1> DEFINE c == InsertAt(s, i + 1, e)
<1> SUFFICES c[k] = e \/ \E j \in DOMAIN s : c[k] = s[j]
  OBVIOUS
<1>1. PICK n \in Nat : Len(s) = n /\ DOMAIN s = 1..n
  BY Sequences
<1>2. /\ DOMAIN c = 1..(n + 1)
      /\ \A j \in 1..i : c[j] = s[j]
      /\ c[i + 1] = e
      /\ \A j \in (i + 1)..n : c[j + 1] = s[j]
  <2>1. /\ DOMAIN c = 1..(Len(s) + 1)
        /\ \A j \in 1..i : c[j] = s[j]
        /\ c[i + 1] = e
        /\ \A j \in (i + 1)..Len(s) : c[j + 1] = s[j]
    BY Inserting
  <2> HIDE DEF c
  <2> QED  BY <1>1, <2>1
<1> HIDE DEF c
<1>3. i \in 1..n /\ k \in 1..(n + 1)
  BY <1>1, <1>2 DEF c
<1>4. CASE k <= i
  BY <1>1, <1>2, <1>3, <1>4
<1>5. CASE k = i + 1
  BY <1>2, <1>5
<1>6. CASE k > i + 1
  <2>1. k - 1 \in (i + 1)..n /\ (k - 1) + 1 = k /\ k - 1 \in DOMAIN s
    BY <1>1, <1>3, <1>6
  <2>2. c[k] = s[k - 1]
    BY <2>1, <1>2
  <2> QED  BY <2>1, <2>2
<1> QED  BY <1>3, <1>4, <1>5, <1>6

(* An item plays like itself.                                              *)
LEMMA AlikeReflexive ==
    ASSUME NEW e, NEW r, NEW t
    PROVE  Alike(e, e, r, t)
BY BranchAlike, SameBranchReflexive

(* Replacing an item by one that plays alike keeps what a spine plays.     *)
LEMMA ReplacedKept ==
    ASSUME NEW a, IsSequence(a), NEW i \in DOMAIN a, NEW e, NEW r, NEW t, Alike(a[i], e, r, t)
    PROVE  \E h : Kept(a, ReplaceAt(a, i, e), h, r, t)
<1> DEFINE c == ReplaceAt(a, i, e)
<1>1. DOMAIN c = DOMAIN a /\ c[i] = e /\ \A j \in DOMAIN a : j # i => c[j] = a[j]
  BY DEF ReplaceAt
<1> DEFINE h == [j \in DOMAIN a |-> j]
<1>2. DOMAIN h = DOMAIN a /\ \A j \in DOMAIN a : h[j] = j
  OBVIOUS
<1> HIDE DEF c, h
<1>3. \A j \in DOMAIN a : Alike(a[j], c[j], r, t)
  BY <1>1, AlikeReflexive
<1>4. Kept(a, c, h, r, t)
  BY <1>1, <1>2, <1>3 DEF Kept
<1> QED  BY <1>4 DEF c

(* Inserting an item that plays nothing keeps what a spine plays.          *)
LEMMA InsertedKept ==
    ASSUME NEW a, IsSequence(a), NEW i \in DOMAIN a, NEW e, NEW r, NEW t, Silent(e, r, t)
    PROVE  \E h : Kept(a, InsertAt(a, i + 1, e), h, r, t)
<1> DEFINE c == InsertAt(a, i + 1, e)
<1>1. PICK n \in Nat : Len(a) = n /\ DOMAIN a = 1..n
  BY Sequences
<1>2. /\ DOMAIN c = 1..(n + 1)
      /\ \A j \in 1..i : c[j] = a[j]
      /\ c[i + 1] = e
      /\ \A j \in (i + 1)..n : c[j + 1] = a[j]
  <2>1. /\ DOMAIN c = 1..(Len(a) + 1)
        /\ \A j \in 1..i : c[j] = a[j]
        /\ c[i + 1] = e
        /\ \A j \in (i + 1)..Len(a) : c[j + 1] = a[j]
    BY Inserting
  <2> HIDE DEF c
  <2> QED  BY <1>1, <2>1
<1> HIDE DEF c
<1> DEFINE h == [j \in 1..n |-> IF j <= i THEN j ELSE j + 1]
<1>3. DOMAIN h = 1..n /\ \A j \in 1..n : h[j] = IF j <= i THEN j ELSE j + 1
  OBVIOUS
<1> HIDE DEF h
<1>4. i \in 1..n
  BY <1>1
<1>5. \A j \in 1..n : h[j] \in DOMAIN c /\ c[h[j]] = a[j]
  BY SMTT(30), <1>2, <1>3, <1>4
<1>6. \A j, k \in 1..n : h[j] = h[k] => j = k
  BY <1>3, <1>4
<1>7. ASSUME NEW m \in DOMAIN c PROVE (\E j \in 1..n : h[j] = m) \/ Silent(c[m], r, t)
  <2>1. CASE m <= i
    <3>1. m \in 1..n /\ h[m] = m
      BY <2>1, <1>2, <1>3, <1>4
    <3> QED  BY <3>1
  <2>2. CASE m = i + 1
    BY <2>2, <1>2
  <2>3. CASE m > i + 1
    <3>1. m - 1 \in 1..n /\ h[m - 1] = m
      BY <2>3, <1>2, <1>3, <1>4
    <3> QED  BY <3>1
  <2>4. m \in Int /\ i \in Int
    BY <1>2, <1>4
  <2> QED  BY <2>1, <2>2, <2>3, <2>4
<1>8. Kept(a, c, h, r, t)
  BY <1>1, <1>3, <1>5, <1>6, <1>7, AlikeReflexive DEF Kept
<1> QED  BY <1>8 DEF c

(* A clip without connected clips that is cut in two. *)
LEMMA SplitKept ==
    ASSUME NEW a, IsSequence(a), NEW i \in DOMAIN a, NEW first, NEW second, NEW r, NEW t,
           DOMAIN a[i].kids = {}, DOMAIN first.kids = {}, DOMAIN second.kids = {},
           Plays(a[i], r, t) <=> (Plays(first, r, t) \/ Plays(second, r, t)),
           ~(Plays(first, r, t) /\ Plays(second, r, t))
    PROVE  \E h : Kept(a, InsertAt(ReplaceAt(a, i, first), i + 1, second), h, r, t)
<1> DEFINE b == ReplaceAt(a, i, first)
<1> DEFINE c == InsertAt(b, i + 1, second)
<1>1. PICK n \in Nat : Len(a) = n /\ DOMAIN a = 1..n
  BY Sequences
<1>2. /\ IsSequence(b) /\ DOMAIN b = 1..n /\ Len(b) = n
      /\ b[i] = first /\ \A j \in 1..n : j # i => b[j] = a[j]
  <2>1. /\ IsSequence(b) /\ DOMAIN b = DOMAIN a /\ Len(b) = Len(a)
        /\ b[i] = first /\ \A j \in DOMAIN a : j # i => b[j] = a[j]
    <3> HIDE DEF c
    <3> QED  BY Replacing DEF ReplaceAt
  <2> HIDE DEF b, c
  <2> QED  BY <1>1, <2>1
<1> HIDE DEF b
<1>3. i \in 1..n /\ i \in DOMAIN b
  BY <1>1, <1>2
<1>4. /\ DOMAIN c = 1..(n + 1)
      /\ \A j \in 1..i : c[j] = b[j]
      /\ c[i + 1] = second
      /\ \A j \in (i + 1)..n : c[j + 1] = b[j]
  <2>1. /\ DOMAIN c = 1..(Len(b) + 1)
        /\ \A j \in 1..i : c[j] = b[j]
        /\ c[i + 1] = second
        /\ \A j \in (i + 1)..Len(b) : c[j + 1] = b[j]
    <3>1. IsSequence(b) /\ i \in DOMAIN b
      BY <1>2, <1>3
    <3> QED  BY <3>1, Inserting
  <2> HIDE DEF c
  <2> QED  BY <1>2, <2>1
<1> HIDE DEF c
<1>5. c[i] = first
  BY <1>2, <1>3, <1>4
<1> DEFINE mid == IF Plays(second, r, t) THEN i + 1 ELSE i
<1> DEFINE h == [j \in 1..n |-> IF j < i THEN j ELSE IF j = i THEN mid ELSE j + 1]
<1>6. DOMAIN h = 1..n /\ \A j \in 1..n : h[j] = IF j < i THEN j ELSE IF j = i THEN mid ELSE j + 1
  OBVIOUS
<1> HIDE DEF h
<1>7. mid \in {i, i + 1}
  OBVIOUS
<1>8. \A e : DOMAIN e.kids = {} => KidsPlay(e, r, t) = {}
  BY DEF KidsPlay
<1>9. \A e, x : DOMAIN e.kids = {} /\ DOMAIN x.kids = {} /\ (Plays(e, r, t) <=> Plays(x, r, t))
                   => Alike(e, x, r, t)
  <2>1. ExistsBijection({}, {})
    <3> DEFINE f == [x \in {} |-> x]
    <3>1. DOMAIN f = {}
      OBVIOUS
    <3> HIDE DEF f
    <3> QED  BY <3>1, OneToOne
  <2> QED  BY <2>1, <1>8 DEF Alike
<1>10. Alike(a[i], c[mid], r, t)
  BY <1>4, <1>5, <1>9
<1>11. mid # i => Silent(c[i], r, t)
  BY <1>5, <1>8 DEF Silent
<1>12. mid # i + 1 => Silent(c[i + 1], r, t)
  BY <1>4, <1>8 DEF Silent
<1> HIDE DEF mid
<1>13. ASSUME NEW j \in 1..n PROVE h[j] \in DOMAIN c /\ Alike(a[j], c[h[j]], r, t)
  <2>1. CASE j < i
    <3>1. h[j] = j /\ j \in 1..(n + 1) /\ c[j] = a[j]
      BY <2>1, <1>2, <1>3, <1>4, <1>6
    <3> QED  BY <3>1, <1>4, AlikeReflexive
  <2>2. CASE j = i
    BY <2>2, <1>3, <1>4, <1>6, <1>7, <1>10
  <2>3. CASE j > i
    <3>1. h[j] = j + 1 /\ j + 1 \in 1..(n + 1) /\ c[j + 1] = a[j]
      BY <2>3, <1>2, <1>3, <1>4, <1>6
    <3> QED  BY <3>1, <1>4, AlikeReflexive
  <2> QED  BY <2>1, <2>2, <2>3, <1>3
<1>14. \A j, k \in 1..n : h[j] = h[k] => j = k
  BY <1>3, <1>6, <1>7
<1>15. ASSUME NEW m \in DOMAIN c PROVE (\E j \in 1..n : h[j] = m) \/ Silent(c[m], r, t)
  <2>1. CASE m < i
    <3>1. m \in 1..n /\ h[m] = m
      BY <2>1, <1>3, <1>4, <1>6
    <3> QED  BY <3>1
  <2>2. CASE m = i \/ m = i + 1
    <3>1. h[i] = mid
      BY <1>3, <1>6
    <3> QED  BY <2>2, <3>1, <1>3, <1>7, <1>11, <1>12
  <2>3. CASE m > i + 1
    <3>1. m - 1 \in 1..n /\ h[m - 1] = m
      BY <2>3, <1>3, <1>4, <1>6
    <3> QED  BY <3>1
  <2>4. m \in Int /\ i \in Int
    BY <1>3, <1>4
  <2> QED  BY <2>1, <2>2, <2>3, <2>4
<1>16. Kept(a, c, h, r, t)
  BY <1>1, <1>6, <1>13, <1>14, <1>15 DEF Kept
<1> QED  BY <1>16 DEF b, c

-----------------------------------------------------------------------------
(* A place and its siblings.                                               *)

(* The siblings of a place, where it stands among them and what they are.  *)
LEMMA PlaceParts ==
    ASSUME NEW d, IsDocument(d), NEW p \in PlacesIn(d)
    PROVE  /\ p[1] \in DOMAIN d.spines /\ p[2] \in DOMAIN d.spines[p[1]].items
           /\ p[3] # 0 => p[3] \in DOMAIN d.spines[p[1]].items[p[2]].kids
           /\ IsSequence(Siblings(d, p))
           /\ Position(p) \in DOMAIN Siblings(d, p)
           /\ Siblings(d, p)[Position(p)] = ElementAt(d, p)
           /\ \A j \in DOMAIN Siblings(d, p) :
                 IsElement(Siblings(d, p)[j]) /\ (p[3] = 0 => IsItem(Siblings(d, p)[j]))
<1>1. PICK s \in DOMAIN d.spines : \E i \in DOMAIN d.spines[s].items :
          \E k \in 0..Len(d.spines[s].items[i].kids) : p = <<s, i, k>>
  BY InPlaces
<1>2. PICK i \in DOMAIN d.spines[s].items :
          \E k \in 0..Len(d.spines[s].items[i].kids) : p = <<s, i, k>>
  BY <1>1
<1>3. PICK k \in 0..Len(d.spines[s].items[i].kids) : p = <<s, i, k>>
  BY <1>2
<1> DEFINE a == d.spines[s].items
<1>4. /\ IsSequence(a) /\ \A j \in DOMAIN a : IsItem(a[j])
      /\ Len(a[i].kids) \in Nat /\ DOMAIN a[i].kids = 1..Len(a[i].kids)
  BY DocumentParts DEF IsDocument, IsSpine
<1>5. IsItem(a[i])
  BY <1>4
<1>6. p[1] = s /\ p[2] = i /\ p[3] = k
  BY <1>3
<1>7. CASE k = 0
  <2>1. Siblings(d, p) = a /\ Position(p) = i /\ ElementAt(d, p) = a[i]
    BY <1>6, <1>7 DEF Siblings, Position, ElementAt
  <2> QED  BY <2>1, <1>4, <1>6, <1>7 DEF IsItem
<1>8. CASE k # 0
  <2>1. Siblings(d, p) = a[i].kids /\ Position(p) = k /\ ElementAt(d, p) = a[i].kids[k]
    BY <1>6, <1>8 DEF Siblings, Position, ElementAt
  <2>2. k \in DOMAIN a[i].kids
    BY <1>4, <1>8
  <2>3. IsSequence(a[i].kids) /\ \A j \in DOMAIN a[i].kids : IsElement(a[i].kids[j])
    BY <1>5 DEF IsItem, IsElement
  <2> HIDE DEF a
  <2>4. p[3] # 0 /\ (p[3] = 0 => FALSE)
    BY <1>6, <1>8
  <2>5. i \in DOMAIN d.spines[s].items /\ a = d.spines[s].items
    BY DEF a
  <2> QED  BY <2>1, <2>2, <2>3, <2>4, <2>5, <1>6
<1> QED  BY <1>7, <1>8

(* Among connected clips, which have none of their own: what is kept is a  *)
(* bijection of those that play.                                           *)
LEMMA KeptMap ==
    ASSUME NEW a, NEW b, NEW h, NEW r, NEW t, Kept(a, b, h, r, t)
    PROVE  ExistsBijection(PlayingIn(a, r, t), PlayingIn(b, r, t))
<1> DEFINE S == {k \in DOMAIN a : Plays(a[k], r, t)}
<1> DEFINE T == {k \in DOMAIN b : Plays(b[k], r, t)}
<1>1. S \subseteq DOMAIN h
  BY DEF Kept, Silent
<1>2. \A x \in S : h[x] \in T
  BY <1>1 DEF Kept, Alike
<1>3. \A x, y \in S : h[x] = h[y] => x = y
  BY <1>1 DEF Kept
<1>4. \A z \in T : \E x \in S : h[x] = z
  BY DEF Kept, Alike, Silent
<1> HIDE DEF S, T
<1>5. ExistsBijection(S, T)
  BY <1>1, <1>2, <1>3, <1>4, OneToOne
<1> QED  BY <1>5 DEF S, T, PlayingIn

(* Other siblings of a place, of which as much plays. *)
LEMMA SiblingsKept ==
    ASSUME NEW d, IsDocument(d), NEW p \in PlacesIn(d), NEW c, IsSequence(c),
           \A k \in DOMAIN c : IsElement(c[k]) /\ (p[3] = 0 => IsItem(c[k])),
           \A r : \A t \in Int : \E h : Kept(Siblings(d, p), c, h, r, t)
    PROVE  SamePlay(d, WithSiblings(d, p, c))
<1>0. PICK s, i : s = p[1] /\ i = p[2]
  OBVIOUS
<1>1. CASE p[3] = 0
  <2>1. WithSiblings(d, p, c) = [d EXCEPT !.spines[s].items = c]
    BY <1>0, <1>1 DEF WithSiblings
  <2>2. Siblings(d, p) = d.spines[s].items
    BY <1>0, <1>1 DEF Siblings
  <2>3. s \in DOMAIN d.spines
    BY <1>0, PlaceParts
  <2>4. \A k \in DOMAIN c : IsItem(c[k])
    BY <1>1
  <2>5. SamePlay(d, [d EXCEPT !.spines[s].items = c])
    BY SMTT(30), <2>2, <2>3, <2>4, SpineKept
  <2> QED  BY <2>1, <2>5
<1>2. CASE p[3] # 0
  <2>1. WithSiblings(d, p, c) = [d EXCEPT !.spines[s].items[i].kids = c]
    BY <1>0, <1>2 DEF WithSiblings
  <2> DEFINE a == Siblings(d, p)
  <2>2. a = d.spines[s].items[i].kids
    BY <1>0, <1>2 DEF Siblings
  <2>3. s \in DOMAIN d.spines /\ i \in DOMAIN d.spines[s].items
    BY <1>0, PlaceParts
  <2>4. ASSUME NEW r, NEW t \in Int
        PROVE  ExistsBijection(PlayingIn(a, r, t), PlayingIn(c, r, t))
    <3>1. PICK h : Kept(a, c, h, r, t)
      OBVIOUS
    <3> HIDE DEF a
    <3> QED  BY <3>1, KeptMap
  <2> HIDE DEF a
  <2>5. SamePlay(d, [d EXCEPT !.spines[s].items[i].kids = c])
    BY <2>2, <2>3, <2>4, KidsKept
  <2> QED  BY <2>1, <2>5
<1> QED  BY <1>1, <1>2

(* An element in the place of another that looks the same. *)
LEMMA ElementChanged ==
    ASSUME NEW d, IsDocument(d), NEW p \in PlacesIn(d), NEW e, IsElement(e),
           SameLook(ElementAt(d, p), e), e.kids = ElementAt(d, p).kids
    PROVE  SamePlay(d, WithElement(d, p, e))
<1> DEFINE a == Siblings(d, p)
<1> DEFINE i == Position(p)
<1> DEFINE c == ReplaceAt(a, i, e)
<1>1. /\ IsSequence(a) /\ i \in DOMAIN a /\ a[i] = ElementAt(d, p)
      /\ \A j \in DOMAIN a : IsElement(a[j]) /\ (p[3] = 0 => IsItem(a[j]))
  BY PlaceParts
<1>2. WithElement(d, p, e) = WithSiblings(d, p, c)
  BY DEF WithElement
<1> HIDE DEF a, i
<1>3. IsSequence(c) /\ DOMAIN c = DOMAIN a /\ c[i] = e /\ \A j \in DOMAIN a : j # i => c[j] = a[j]
  BY <1>1, Replacing DEF ReplaceAt
<1>4. p[3] = 0 => IsItem(e)
  BY <1>1 DEF IsItem
<1>5. \A k \in DOMAIN c : IsElement(c[k]) /\ (p[3] = 0 => IsItem(c[k]))
  <2> HIDE DEF c
  <2> QED  BY <1>1, <1>3, <1>4
<1>6. ASSUME NEW r, NEW t \in Int PROVE \E h : Kept(a, c, h, r, t)
  <2>1. SameBranch(a[i], e)
    BY <1>1 DEF SameBranch, SameLook
  <2>2. Alike(a[i], e, r, t)
    BY <2>1, BranchAlike
  <2> QED  BY <2>2, <1>1, ReplacedKept
<1> HIDE DEF c
<1>7. SamePlay(d, WithSiblings(d, p, c))
  BY <1>3, <1>5, <1>6, SiblingsKept DEF a
<1> QED  BY <1>2, <1>7

(* An element that is no clip and holds none, after another. *)
LEMMA ElementInserted ==
    ASSUME NEW d, IsDocument(d), NEW p \in PlacesIn(d), NEW e, IsItem(e), Mute(e)
    PROVE  SamePlay(d, InsertAfter(d, p, e))
<1> DEFINE a == Siblings(d, p)
<1> DEFINE i == Position(p)
<1> DEFINE c == InsertAt(a, i + 1, e)
<1>1. /\ IsSequence(a) /\ i \in DOMAIN a
      /\ \A j \in DOMAIN a : IsElement(a[j]) /\ (p[3] = 0 => IsItem(a[j]))
  BY PlaceParts
<1>2. InsertAfter(d, p, e) = WithSiblings(d, p, c)
  BY DEF InsertAfter
<1> HIDE DEF a, i
<1>3. IsSequence(c)
  BY <1>1, Inserting
<1>4. ASSUME NEW k \in DOMAIN c PROVE c[k] = e \/ \E j \in DOMAIN a : c[k] = a[j]
  BY <1>1, InsertedMember
<1>5. \A k \in DOMAIN c : IsElement(c[k]) /\ (p[3] = 0 => IsItem(c[k]))
  BY <1>1, <1>4 DEF IsItem
<1>6. ASSUME NEW r, NEW t \in Int PROVE \E h : Kept(a, c, h, r, t)
  BY <1>1, MuteSilent, InsertedKept
<1> HIDE DEF c
<1>7. SamePlay(d, WithSiblings(d, p, c))
  BY <1>3, <1>5, <1>6, SiblingsKept DEF a
<1> QED  BY <1>2, <1>7

Carries(d, x) == SamePlay(d, x) /\ (Flat(d) => Flat(x))

(* A document carries itself.                                              *)
LEMMA CarriesReflexive ==
    ASSUME NEW d, IsDocument(d)
    PROVE  Carries(d, d)
BY DEF Carries, SamePlay

(* What a carried document carries is carried.                             *)
LEMMA CarriesTransitive ==
    ASSUME NEW d, NEW x, NEW y, Carries(d, x), Carries(x, y)
    PROVE  Carries(d, y)
BY SamePlayTransitive DEF Carries

(* A document without connected clips stays one. *)
LEMMA SiblingsFlat ==
    ASSUME NEW d, IsDocument(d), Flat(d), NEW p \in PlacesIn(d),
           NEW c, IsSequence(c), \A k \in DOMAIN c : IsItem(c[k]) /\ c[k].kids = <<>>
    PROVE  p[3] = 0 /\ Flat(WithSiblings(d, p, c))
<1>0. PICK s, i : s = p[1] /\ i = p[2]
  OBVIOUS
<1>1. /\ s \in DOMAIN d.spines /\ i \in DOMAIN d.spines[s].items
      /\ p[3] # 0 => p[3] \in DOMAIN d.spines[s].items[i].kids
  BY <1>0, PlaceParts
<1>2. d.spines[s].items[i].kids = <<>>
  BY <1>1 DEF Flat
<1>3. p[3] = 0
  BY <1>1, <1>2
<1> DEFINE x == [d EXCEPT !.spines[s].items = c]
<1>4. WithSiblings(d, p, c) = x
  BY <1>0, <1>3 DEF WithSiblings
<1>5. /\ DOMAIN x.spines = DOMAIN d.spines /\ x.spines[s].items = c
      /\ \A y \in DOMAIN d.spines : y # s => x.spines[y] = d.spines[y]
  BY <1>1, NewItems
<1> HIDE DEF x
<1>6. Flat(x)
  BY <1>5 DEF Flat
<1> QED  BY <1>3, <1>4, <1>6

(* In a flat document no sibling of a place carries connected clips.       *)
LEMMA FlatElements ==
    ASSUME NEW d, IsDocument(d), Flat(d), NEW p \in PlacesIn(d)
    PROVE  \A j \in DOMAIN Siblings(d, p) : Siblings(d, p)[j].kids = <<>>
<1>0. PICK s, i : s = p[1] /\ i = p[2]
  OBVIOUS
<1>1. /\ s \in DOMAIN d.spines /\ i \in DOMAIN d.spines[s].items
      /\ p[3] # 0 => p[3] \in DOMAIN d.spines[s].items[i].kids
  BY <1>0, PlaceParts
<1>2. d.spines[s].items[i].kids = <<>>
  BY <1>1 DEF Flat
<1>3. p[3] = 0
  BY <1>1, <1>2
<1> QED  BY <1>0, <1>1, <1>3 DEF Siblings, Flat

(* Changing what does not play of an element keeps what the document       *)
(* plays.                                                                  *)
LEMMA ChangeCarried ==
    ASSUME NEW d, IsDocument(d), NEW p \in PlacesIn(d), NEW e, IsElement(e),
           SameLook(ElementAt(d, p), e), e.kids = ElementAt(d, p).kids
    PROVE  Carries(d, WithElement(d, p, e))
<1>1. SamePlay(d, WithElement(d, p, e))
  BY ElementChanged
<1>2. ASSUME Flat(d) PROVE Flat(WithElement(d, p, e))
  <2> DEFINE a == Siblings(d, p)
  <2> DEFINE i == Position(p)
  <2> DEFINE c == ReplaceAt(a, i, e)
  <2>1. /\ IsSequence(a) /\ i \in DOMAIN a /\ a[i] = ElementAt(d, p)
        /\ \A j \in DOMAIN a : IsElement(a[j]) /\ a[j].kids = <<>>
    BY <1>2, PlaceParts, FlatElements
  <2>2. WithElement(d, p, e) = WithSiblings(d, p, c)
    BY DEF WithElement
  <2> HIDE DEF a, i
  <2>3. IsSequence(c) /\ DOMAIN c = DOMAIN a /\ c[i] = e /\ \A j \in DOMAIN a : j # i => c[j] = a[j]
    BY <2>1, Replacing DEF ReplaceAt
  <2> HIDE DEF c
  <2>4. \A k \in DOMAIN c : IsElement(c[k]) /\ c[k].kids = <<>>
    BY <2>1, <2>3
  <2>5. \A k \in DOMAIN c : IsItem(c[k])
    BY <2>4 DEF IsItem
  <2> QED  BY <1>2, <2>2, <2>3, <2>4, <2>5, SiblingsFlat
<1> QED  BY <1>1, <1>2 DEF Carries

(* So does inserting an element that is no clip.                           *)
LEMMA InsertCarried ==
    ASSUME NEW d, IsDocument(d), NEW p \in PlacesIn(d), NEW e, IsElement(e),
           ~IsClip(e), e.kids = <<>>
    PROVE  Carries(d, InsertAfter(d, p, e))
<1>0. IsItem(e) /\ Mute(e)
  BY DEF IsItem, Mute
<1>1. SamePlay(d, InsertAfter(d, p, e))
  BY <1>0, ElementInserted
<1>2. ASSUME Flat(d) PROVE Flat(InsertAfter(d, p, e))
  <2> DEFINE a == Siblings(d, p)
  <2> DEFINE i == Position(p)
  <2> DEFINE c == InsertAt(a, i + 1, e)
  <2>1. /\ IsSequence(a) /\ i \in DOMAIN a
        /\ \A j \in DOMAIN a : IsElement(a[j]) /\ a[j].kids = <<>>
    BY <1>2, PlaceParts, FlatElements
  <2>2. InsertAfter(d, p, e) = WithSiblings(d, p, c)
    BY DEF InsertAfter
  <2> HIDE DEF a, i
  <2>3. IsSequence(c) /\ \A k \in DOMAIN c : c[k] = e \/ \E j \in DOMAIN a : c[k] = a[j]
    BY <2>1, Inserting, InsertedMember
  <2> HIDE DEF c
  <2>4. \A k \in DOMAIN c : IsElement(c[k]) /\ c[k].kids = <<>>
    BY <2>1, <2>3
  <2>5. \A k \in DOMAIN c : IsItem(c[k])
    BY <2>4 DEF IsItem
  <2> QED  BY <1>2, <2>2, <2>3, <2>4, <2>5, SiblingsFlat
<1> QED  BY <1>1, <1>2 DEF Carries

-----------------------------------------------------------------------------
(* Edits of one clip.                                                      *)

(* A marker or a keyword changes nothing that plays.                       *)
LEMMA AddNoteCarries ==
    ASSUME NEW d, IsDocument(d), NEW name, NEW note
    PROVE  Carries(d, AddNote(d, name, note).doc)
<1> DEFINE p == Find(d, name)
<1> DEFINE e == ElementAt(d, p)
<1> DEFINE new == [e EXCEPT !.notes = Append(@, note)]
<1>1. CASE p = NoPlace
  <2>1. AddNote(d, name, note).doc = d
    BY <1>1 DEF AddNote, EditClip, Edited
  <2> QED  BY <2>1, CarriesReflexive
<1>2. CASE p # NoPlace
  <2>1. AddNote(d, name, note).doc = WithElement(d, p, new)
    BY <1>2 DEF AddNote, EditClip, Edited
  <2>2. p \in PlacesIn(d)
    BY <1>2, FoundPlace DEF Found
  <2>3. IsElement(e)
    BY <2>2, PlaceParts
  <2> HIDE DEF p, e
  <2>4. /\ IsElement(new) /\ SameLook(e, new) /\ new.kids = e.kids
    <3> DEFINE notes == Append(e.notes, note)
    <3> DEFINE x == [e EXCEPT !.notes = notes]
    <3>1. new = x
      OBVIOUS
    <3>2. IsSequence(notes)
      BY <2>3, Appended DEF IsElement
    <3> HIDE DEF new, notes
    <3>3. IsElement(x) /\ SameLook(e, x) /\ x.kids = e.kids
      BY <2>3, <3>2 DEF IsElement, SameLook
    <3> QED  BY <3>1, <3>3
  <2> HIDE DEF new
  <2> QED  BY <2>1, <2>2, <2>4, ChangeCarried DEF e
<1> QED  BY <1>1, <1>2

(* Nor does a role.                                                        *)
LEMMA AssignRoleCarries ==
    ASSUME NEW d, IsDocument(d), NEW name, NEW role
    PROVE  Carries(d, AssignRole(d, name, role).doc)
<1> DEFINE p == Find(d, name)
<1> DEFINE e == ElementAt(d, p)
<1> DEFINE new == [e EXCEPT !.role = role]
<1>1. CASE p = NoPlace \/ e.tag \notin RoleTags
  <2>1. AssignRole(d, name, role).doc = d
    BY <1>1 DEF AssignRole, Edited, Found
  <2> QED  BY <2>1, CarriesReflexive
<1>2. CASE p # NoPlace /\ e.tag \in RoleTags
  <2>1. AssignRole(d, name, role).doc = WithElement(d, p, new)
    BY <1>2 DEF AssignRole, EditClip, Edited, Found
  <2>2. p \in PlacesIn(d)
    BY <1>2, FoundPlace DEF Found
  <2>3. IsElement(e)
    BY <2>2, PlaceParts
  <2> HIDE DEF p, e
  <2>4. /\ IsElement(new) /\ SameLook(e, new) /\ new.kids = e.kids
    BY <2>3 DEF IsElement, SameLook
  <2> HIDE DEF new
  <2> QED  BY <2>1, <2>2, <2>4, ChangeCarried DEF e
<1> QED  BY <1>1, <1>2

(* A new element is one, with what it was made of.                         *)
LEMMA NewElement ==
    ASSUME NEW tag, NEW name, NEW ref, NEW start \in Int, NEW off, NEW dur \in Int
    PROVE  LET e == Element(tag, name, ref, start, off, dur)
           IN  /\ IsElement(e) /\ IsItem(e) /\ e.tag = tag /\ e.name = name /\ e.kids = <<>>
               /\ e.ref = ref /\ e.start = start /\ e.dur = dur
<1> DEFINE e == Element(tag, name, ref, start, off, dur)
<1>1. /\ e = [tag |-> e.tag, name |-> e.name, ref |-> e.ref, start |-> e.start,
            off |-> e.off, dur |-> e.dur, role |-> e.role, notes |-> e.notes,
            remap |-> e.remap, kids |-> e.kids]
      /\ e.tag = tag /\ e.name = name /\ e.kids = <<>>
      /\ e.ref = ref /\ e.start = start /\ e.dur = dur /\ e.notes = <<>>
  BY DEF Element
<1>2. IsSequence(<<>>)
  BY NoMembers
<1> HIDE DEF e
<1>3. IsElement(e)
  BY <1>1, <1>2 DEF IsElement
<1>4. IsItem(e)
  BY <1>1, <1>3 DEF IsItem
<1> QED  BY <1>1, <1>3, <1>4 DEF e

(* A transition is no clip: adding one changes nothing that plays.         *)
LEMMA AddTransitionCarries ==
    ASSUME NEW d, IsDocument(d), NEW name, NEW dur \in Int, NEW ref
    PROVE  Carries(d, AddTransition(d, name, dur, ref).doc)
<1> DEFINE p == Find(d, name)
<1> DEFINE e == ElementAt(d, p)
<1> DEFINE new == Element("transition", <<"Dissolve">>, ref, 0, e.off + e.dur, dur)
<1>1. CASE p = NoPlace
  <2>1. AddTransition(d, name, dur, ref).doc = d
    BY <1>1 DEF AddTransition, Found, Edited
  <2> QED  BY <2>1, CarriesReflexive
<1>2. CASE p # NoPlace
  <2>1. AddTransition(d, name, dur, ref).doc = InsertAfter(d, p, new)
    BY <1>2 DEF AddTransition, Found, Edited
  <2>2. p \in PlacesIn(d)
    BY <1>2, FoundPlace DEF Found
  <2> HIDE DEF p, e
  <2>3. IsElement(new) /\ new.tag = "transition" /\ new.kids = <<>>
    BY NewElement
  <2> HIDE DEF new
  <2>4. ~IsClip(new)
    BY <2>3 DEF IsClip
  <2> QED  BY <2>1, <2>2, <2>3, <2>4, InsertCarried
<1> QED  BY <1>1, <1>2

(* Replacing the siblings of a place twice is replacing them once.         *)
LEMMA SiblingsTwice ==
    ASSUME NEW d, IsDocument(d), NEW p \in PlacesIn(d), NEW c, NEW e
    PROVE  /\ p[3] = 0 => Siblings(WithSiblings(d, p, c), p) = c
           /\ p[3] = 0 => WithSiblings(WithSiblings(d, p, c), p, e) = WithSiblings(d, p, e)
           /\ p[3] # 0 => Siblings(WithSiblings(d, p, c), p) = c
           /\ p[3] # 0 => WithSiblings(WithSiblings(d, p, c), p, e) = WithSiblings(d, p, e)
<1>0. PICK s, i : s = p[1] /\ i = p[2]
  OBVIOUS
<1>1. s \in DOMAIN d.spines /\ i \in DOMAIN d.spines[s].items
  BY <1>0, PlaceParts
<1>2. /\ d = [spines |-> d.spines, labels |-> d.labels, format |-> d.format]
      /\ d.spines[s] = [tc |-> d.spines[s].tc, dur |-> d.spines[s].dur, items |-> d.spines[s].items]
  BY <1>1 DEF IsDocument, IsSpine
<1>3. IsElement(d.spines[s].items[i])
  BY <1>1, DocumentParts DEF IsItem
<1>4. CASE p[3] = 0
  <2>1. WithSiblings(d, p, c) = [d EXCEPT !.spines[s].items = c]
    BY <1>0, <1>4 DEF WithSiblings
  <2>2. [d EXCEPT !.spines[s].items = c].spines[s].items = c
    BY <1>1, <1>2
  <2>3. [[d EXCEPT !.spines[s].items = c] EXCEPT !.spines[s].items = e] = [d EXCEPT !.spines[s].items = e]
    BY <1>1, <1>2
  <2> QED  BY <1>0, <1>4, <2>1, <2>2, <2>3 DEF WithSiblings, Siblings
<1>5. CASE p[3] # 0
  <2>1. WithSiblings(d, p, c) = [d EXCEPT !.spines[s].items[i].kids = c]
    BY <1>0, <1>5 DEF WithSiblings
  <2>2. [d EXCEPT !.spines[s].items[i].kids = c].spines[s].items[i].kids = c
    BY <1>1, <1>2, <1>3 DEF IsElement
  <2>3. [[d EXCEPT !.spines[s].items[i].kids = c] EXCEPT !.spines[s].items[i].kids = e]
            = [d EXCEPT !.spines[s].items[i].kids = e]
    <3> DEFINE a == d.spines[s].items
    <3> DEFINE K(z) == [a[i] EXCEPT !.kids = z]
    <3> DEFINE A(z) == [a EXCEPT ![i] = K(z)]
    <3> DEFINE X(z) == [d EXCEPT !.spines[s].items = A(z)]
    <3>1. ASSUME NEW x, x = [spines |-> x.spines, labels |-> x.labels, format |-> x.format],
                 s \in DOMAIN x.spines, NEW z,
                 x.spines[s] = [tc |-> x.spines[s].tc, dur |-> x.spines[s].dur,
                                items |-> x.spines[s].items]
          PROVE  [x EXCEPT !.spines[s].items[i].kids = z]
                    = [x EXCEPT !.spines[s].items = [x.spines[s].items EXCEPT ![i] =
                            [x.spines[s].items[i] EXCEPT !.kids = z]]]
      BY <3>1
    <3>2. \A z : [d EXCEPT !.spines[s].items[i].kids = z] = X(z)
      BY <1>1, <1>2, <3>1
    <3>3. \A z : [K(c) EXCEPT !.kids = z] = K(z)
      BY <1>3 DEF IsElement
    <3>4. \A z : A(c)[i] = K(c) /\ [A(c) EXCEPT ![i] = z] = [a EXCEPT ![i] = z]
      BY <1>1
    <3>5. /\ X(c).spines[s].items = A(c) /\ s \in DOMAIN X(c).spines
          /\ X(c) = [spines |-> X(c).spines, labels |-> X(c).labels, format |-> X(c).format]
          /\ X(c).spines[s] = [tc |-> X(c).spines[s].tc, dur |-> X(c).spines[s].dur,
                                items |-> X(c).spines[s].items]
      <4> HIDE DEF A
      <4> QED  BY <1>1, <1>2
    <3>6. [X(c) EXCEPT !.spines[s].items = A(e)] = X(e)
      <4> HIDE DEF A
      <4> QED  BY <1>1, <1>2
    <3> HIDE DEF X
    <3>7. [X(c) EXCEPT !.spines[s].items[i].kids = e]
            = [X(c) EXCEPT !.spines[s].items = [X(c).spines[s].items EXCEPT ![i] =
                            [X(c).spines[s].items[i] EXCEPT !.kids = e]]]
      BY <3>1, <3>5
    <3>8. [X(c).spines[s].items EXCEPT ![i] = [X(c).spines[s].items[i] EXCEPT !.kids = e]] = A(e)
      <4>1. [A(c) EXCEPT ![i] = [A(c)[i] EXCEPT !.kids = e]] = A(e)
        <5> HIDE DEF K
        <5>1. A(c)[i] = K(c)
          BY <3>4
        <5>2. [A(c)[i] EXCEPT !.kids = e] = K(e)
          BY <3>3, <5>1
        <5> HIDE DEF A
        <5>3. [A(c) EXCEPT ![i] = K(e)] = [a EXCEPT ![i] = K(e)]
          BY <3>4
        <5> QED  BY <5>2, <5>3 DEF A
      <4> HIDE DEF A
      <4> QED  BY <3>5, <4>1
    <3> HIDE DEF A
    <3> QED  BY <3>2, <3>6, <3>7, <3>8
  <2> QED  BY <1>0, <1>5, <2>1, <2>2, <2>3 DEF WithSiblings, Siblings
<1> QED  BY <1>4, <1>5

(* The halves of a split play what the clip played, unless it carries      *)
(* connected clips: both halves keep those (_server_runtime.py copies the  *)
(* element).                                                               *)
LEMMA SplitCarries ==
    ASSUME NEW d, IsDocument(d), NEW name, NEW at \in Int, at > 0,
           Found(d, name) => ElementAt(d, Find(d, name)).kids = <<>>
    PROVE  Carries(d, SplitClip(d, name, at).doc)
<1> DEFINE p == Find(d, name)
<1> DEFINE e == ElementAt(d, p)
<1> DEFINE first == [e EXCEPT !.dur = at]
<1> DEFINE second == [e EXCEPT !.start = @ + at, !.dur = @ - at, !.off = @ + at,
                               !.name = Append(name, "split"), !.notes = <<>>]
<1>1. CASE ~SplitFits(d, name, at)
  <2>1. SplitClip(d, name, at).doc = d
    BY <1>1 DEF SplitClip, Edited
  <2> QED  BY <2>1, CarriesReflexive
<1>2. CASE SplitFits(d, name, at)
  <2>1. SplitClip(d, name, at).doc = InsertAfter(WithElement(d, p, first), p, second)
    BY <1>2 DEF SplitClip, Edited
  <2>2. p \in PlacesIn(d) /\ at < e.dur /\ e.kids = <<>>
    BY <1>2, FoundPlace DEF SplitFits
  <2>3. IsElement(e)
    BY <2>2, PlaceParts
  <2> DEFINE a == Siblings(d, p)
  <2> DEFINE i == Position(p)
  <2>4. /\ IsSequence(a) /\ i \in DOMAIN a /\ a[i] = e
        /\ \A j \in DOMAIN a : IsElement(a[j]) /\ (p[3] = 0 => IsItem(a[j]))
    BY <2>2, PlaceParts
  <2> HIDE DEF e
  <2>5. /\ IsElement(first) /\ first.kids = <<>> /\ first.tag = e.tag /\ first.ref = e.ref
        /\ first.start = e.start /\ first.dur = at
    BY <2>2, <2>3 DEF IsElement
  <2>6. /\ IsElement(second) /\ second.kids = <<>> /\ second.tag = e.tag /\ second.ref = e.ref
        /\ second.start = e.start + at /\ second.dur = e.dur - at
    <3> DEFINE start == e.start + at
    <3> DEFINE dur == e.dur - at
    <3> DEFINE off == e.off + at
    <3> DEFINE new == Append(name, "split")
    <3>1. start \in Int /\ dur \in Int
      BY <2>3 DEF IsElement
    <3> DEFINE e1 == [e EXCEPT !.start = start]
    <3> DEFINE e2 == [e1 EXCEPT !.dur = dur]
    <3> DEFINE e3 == [e2 EXCEPT !.off = off]
    <3> DEFINE e4 == [e3 EXCEPT !.name = new]
    <3> DEFINE e5 == [e4 EXCEPT !.notes = <<>>]
    <3>2. second = e5
      <4>1. e1.dur = e.dur /\ e2.off = e.off
        BY <2>3 DEF IsElement
      <4>2. second = [e EXCEPT !.start = start, !.dur = dur, !.off = off, !.name = new, !.notes = <<>>]
        OBVIOUS
      <4> QED  BY <4>2
    <3>3. start = e.start + at /\ dur = e.dur - at
      OBVIOUS
    <3> HIDE DEF start, dur, off, new, second
    <3>4. e1 = [tag |-> e.tag, name |-> e.name, ref |-> e.ref, start |-> start, off |-> e.off,
                dur |-> e.dur, role |-> e.role, notes |-> e.notes, remap |-> e.remap,
                kids |-> e.kids]
      BY <2>3 DEF IsElement
    <3> HIDE DEF e1
    <3>5. e2 = [tag |-> e.tag, name |-> e.name, ref |-> e.ref, start |-> start, off |-> e.off,
                dur |-> dur, role |-> e.role, notes |-> e.notes, remap |-> e.remap,
                kids |-> e.kids]
      BY <3>4
    <3> HIDE DEF e2
    <3>6. e3 = [tag |-> e.tag, name |-> e.name, ref |-> e.ref, start |-> start, off |-> off,
                dur |-> dur, role |-> e.role, notes |-> e.notes, remap |-> e.remap,
                kids |-> e.kids]
      BY <3>5
    <3> HIDE DEF e3
    <3>7. e4 = [tag |-> e.tag, name |-> new, ref |-> e.ref, start |-> start, off |-> off,
                dur |-> dur, role |-> e.role, notes |-> e.notes, remap |-> e.remap,
                kids |-> e.kids]
      BY <3>6
    <3> HIDE DEF e4
    <3>8. e5 = [tag |-> e.tag, name |-> new, ref |-> e.ref, start |-> start, off |-> off,
                dur |-> dur, role |-> e.role, notes |-> <<>>, remap |-> e.remap,
                kids |-> e.kids]
      BY <3>7
    <3> HIDE DEF e5
    <3>9. /\ IsElement(e5) /\ e5.kids = <<>> /\ e5.tag = e.tag /\ e5.ref = e.ref
          /\ e5.start = start /\ e5.dur = dur
      BY <2>2, <2>3, <3>1, <3>8 DEF IsElement
    <3> QED  BY <3>2, <3>3, <3>9
  <2> HIDE DEF first, second
  <2> DEFINE b == ReplaceAt(a, i, first)
  <2> DEFINE c == InsertAt(b, i + 1, second)
  <2>7. InsertAfter(WithElement(d, p, first), p, second) = WithSiblings(d, p, c)
    <3>1. WithElement(d, p, first) = WithSiblings(d, p, b)
      BY DEF WithElement
    <3>2. Siblings(WithSiblings(d, p, b), p) = b
      BY <2>2, SiblingsTwice
    <3>3. InsertAfter(WithSiblings(d, p, b), p, second) = WithSiblings(WithSiblings(d, p, b), p, c)
      BY <3>2 DEF InsertAfter
    <3> HIDE DEF b, c, p
    <3>4. WithSiblings(WithSiblings(d, p, b), p, c) = WithSiblings(d, p, c)
      BY <2>2, SiblingsTwice
    <3> QED  BY <3>1, <3>3, <3>4
  <2> HIDE DEF p, a, i
  <2>8. IsSequence(b) /\ DOMAIN b = DOMAIN a /\ b[i] = first /\ \A j \in DOMAIN a : j # i => b[j] = a[j]
    BY <2>4, Replacing DEF ReplaceAt
  <2> HIDE DEF b
  <2>9. IsSequence(c) /\ \A k \in DOMAIN c : c[k] = second \/ \E j \in DOMAIN a : c[k] = b[j]
    BY <2>4, <2>8, Inserting, InsertedMember
  <2>10. IsItem(first) /\ IsItem(second)
    BY <2>5, <2>6 DEF IsItem
  <2>11. ASSUME NEW k \in DOMAIN c
         PROVE  /\ c[k] = first \/ c[k] = second \/ \E j \in DOMAIN a : c[k] = a[j]
                /\ IsElement(c[k]) /\ (p[3] = 0 => IsItem(c[k]))
    <3> HIDE DEF c
    <3> QED  BY <2>4, <2>5, <2>6, <2>8, <2>9, <2>10
  <2>12. ASSUME NEW r, NEW t \in Int PROVE \E h : Kept(a, c, h, r, t)
    <3>1. e.start \in Int /\ e.dur \in Int
      BY <2>3 DEF IsElement
    <3>2. Plays(e, r, t) <=> (Plays(first, r, t) \/ Plays(second, r, t))
      BY <2>2, <2>5, <2>6, <3>1 DEF Plays, IsClip
    <3>3. ~(Plays(first, r, t) /\ Plays(second, r, t))
      BY <2>2, <2>5, <2>6, <3>1 DEF Plays, IsClip
    <3>4. DOMAIN a[i].kids = {} /\ DOMAIN first.kids = {} /\ DOMAIN second.kids = {}
      BY <2>2, <2>4, <2>5, <2>6
    <3>5. Plays(a[i], r, t) <=> (Plays(first, r, t) \/ Plays(second, r, t))
      BY <2>4, <3>2
    <3> QED  BY <2>4, <3>3, <3>4, <3>5, SplitKept DEF b
  <2> HIDE DEF c
  <2>13. SamePlay(d, WithSiblings(d, p, c))
    BY <2>2, <2>9, <2>11, <2>12, SiblingsKept DEF a
  <2>14. ASSUME Flat(d) PROVE Flat(WithSiblings(d, p, c))
    <3>1. \A j \in DOMAIN a : a[j].kids = <<>>
      BY <2>2, <2>14, FlatElements DEF a
    <3>2. \A k \in DOMAIN c : c[k].kids = <<>>
      BY <2>5, <2>6, <2>11, <3>1
    <3>3. \A k \in DOMAIN c : IsItem(c[k])
      BY <2>11, <3>2 DEF IsItem
    <3> QED  BY <2>2, <2>9, <2>14, <3>2, <3>3, SiblingsFlat
  <2> QED  BY <2>1, <2>7, <2>13, <2>14 DEF Carries
<1> QED  BY <1>1, <1>2

(* Another format changes nothing that plays.                              *)
LEMMA ReformatCarries ==
    ASSUME NEW d, IsDocument(d), NEW format
    PROVE  Carries(d, Reformat(d, format).doc)
<1> DEFINE x == [d EXCEPT !.format = format]
<1>1. x.spines = d.spines /\ IsDocument(x)
  BY DEF IsDocument
<1>2. Carries(d, x)
  <2> HIDE DEF x
  <2>1. SamePlay(d, x)
    BY <1>1, Untouched, SpinesRearranged
  <2> QED  BY <1>1, <2>1 DEF Carries, Flat
<1>3. Reformat(d, format).doc \in {d, x}
  BY DEF Reformat, Edited
<1> QED  BY <1>2, <1>3, CarriesReflexive

(* The document with other items in its spines. *)
LEMMA OtherSpines ==
    ASSUME NEW d, IsDocument(d), NEW new,
           \A s \in DOMAIN d.spines : IsSequence(new[s]) /\ \A i \in DOMAIN new[s] : IsItem(new[s][i])
    PROVE  LET x == [d EXCEPT !.spines = [s \in DOMAIN d.spines |-> [d.spines[s] EXCEPT !.items = new[s]]]]
           IN  /\ IsDocument(x)
               /\ DOMAIN x.spines = DOMAIN d.spines
               /\ \A s \in DOMAIN d.spines : x.spines[s].items = new[s]
<1> DEFINE sp == [s \in DOMAIN d.spines |-> [d.spines[s] EXCEPT !.items = new[s]]]
<1> DEFINE x == [d EXCEPT !.spines = sp]
<1>1. /\ x.spines = sp /\ x = [spines |-> x.spines, labels |-> x.labels, format |-> x.format]
      /\ IsSequence(x.labels)
  <2> HIDE DEF sp
  <2> QED  BY DEF IsDocument
<1>2. \A s \in DOMAIN d.spines : sp[s].items = new[s] /\ IsSpine(sp[s])
  BY DEF IsDocument, IsSpine
<1>3. DOMAIN sp = DOMAIN d.spines
  OBVIOUS
<1>4. IsSequence(sp)
  <2>1. DOMAIN d.spines = 1..Len(d.spines) /\ Len(d.spines) \in Nat
    BY DocumentParts
  <2>2. sp = [s \in 1..Len(d.spines) |-> sp[s]]
    BY <2>1
  <2> HIDE DEF sp
  <2> QED  BY <2>1, <2>2, SequenceFrom
<1> HIDE DEF sp
<1>5. IsDocument(x)
  <2> HIDE DEF x
  <2> QED  BY <1>1, <1>2, <1>3, <1>4 DEF IsDocument
<1> QED  BY <1>1, <1>2, <1>3, <1>5 DEF sp

(* Nor do other labels.                                                    *)
LEMMA OtherLabels ==
    ASSUME NEW d, IsDocument(d), NEW labels, IsSequence(labels)
    PROVE  LET x == [d EXCEPT !.labels = labels]
           IN  IsDocument(x) /\ x.spines = d.spines /\ Carries(d, x)
<1> DEFINE x == [d EXCEPT !.labels = labels]
<1>1. x.spines = d.spines /\ IsDocument(x)
  BY DEF IsDocument
<1> HIDE DEF x
<1>2. SamePlay(d, x)
  BY <1>1, Untouched, SpinesRearranged
<1>3. Carries(d, x)
  BY <1>1, <1>2 DEF Carries, Flat
<1> QED  BY <1>1, <1>3 DEF x

(* Every spine rearranged. *)
LEMMA SpinesCarried ==
    ASSUME NEW d, IsDocument(d), NEW new,
           \A s \in DOMAIN d.spines : IsSequence(new[s]) /\ \A i \in DOMAIN new[s] : IsItem(new[s][i]),
           \A s \in DOMAIN d.spines : \E h : Rearranged(d.spines[s].items, new[s], h),
           \A s \in DOMAIN d.spines :
              (\A i \in DOMAIN d.spines[s].items : d.spines[s].items[i].kids = <<>>)
                 => \A i \in DOMAIN new[s] : new[s][i].kids = <<>>
    PROVE  Carries(d, [d EXCEPT !.spines = [s \in DOMAIN d.spines |-> [d.spines[s] EXCEPT !.items = new[s]]]])
<1> DEFINE x == [d EXCEPT !.spines = [s \in DOMAIN d.spines |-> [d.spines[s] EXCEPT !.items = new[s]]]]
<1>1. /\ IsDocument(x)
      /\ DOMAIN x.spines = DOMAIN d.spines
      /\ \A s \in DOMAIN d.spines : x.spines[s].items = new[s]
  BY OtherSpines
<1> HIDE DEF x
<1>2. SamePlay(d, x)
  BY <1>1, SpinesRearranged
<1>3. Flat(d) => Flat(x)
  BY <1>1 DEF Flat
<1>4. Carries(d, x)
  BY <1>2, <1>3 DEF Carries
<1> QED  BY <1>4 DEF x

(* Every element changed where it is, none of them in what it plays. *)
LEMMA MappedCarries ==
    ASSUME NEW d, IsDocument(d), NEW new,
           \A s \in DOMAIN d.spines : new[s] = [i \in DOMAIN d.spines[s].items |-> new[s][i]],
           \A s \in DOMAIN d.spines : \A i \in DOMAIN d.spines[s].items :
              LET e == d.spines[s].items[i]
                  x == new[s][i]
              IN  IsItem(x) /\ SameBranch(e, x) /\ (e.kids = <<>> => x.kids = <<>>)
    PROVE  Carries(d, [d EXCEPT !.spines = [s \in DOMAIN d.spines |-> [d.spines[s] EXCEPT !.items = new[s]]]])
<1> DEFINE x == [d EXCEPT !.spines = [s \in DOMAIN d.spines |-> [d.spines[s] EXCEPT !.items = new[s]]]]
<1>1. ASSUME NEW s \in DOMAIN d.spines
      PROVE  IsSequence(new[s]) /\ DOMAIN new[s] = DOMAIN d.spines[s].items
  <2>1. PICK n \in Nat : DOMAIN d.spines[s].items = 1..n
    BY DocumentParts
  <2>2. new[s] = [i \in 1..n |-> new[s][i]]
    BY <2>1
  <2> QED  BY <2>1, <2>2, SequenceFrom
<1>2. \A s \in DOMAIN d.spines : \A i \in DOMAIN new[s] : IsItem(new[s][i])
  BY <1>1
<1> HIDE DEF x
<1>4. ASSUME NEW s \in DOMAIN d.spines
      PROVE  \E h : Rearranged(d.spines[s].items, new[s], h)
  <2> DEFINE a == d.spines[s].items
  <2> DEFINE h == [i \in DOMAIN a |-> i]
  <2>1. DOMAIN h = DOMAIN a /\ \A i \in DOMAIN a : h[i] = i
    OBVIOUS
  <2>2. DOMAIN new[s] = DOMAIN a /\ \A i \in DOMAIN a : SameBranch(a[i], new[s][i])
    BY <1>1
  <2> HIDE DEF a, h
  <2>3. Rearranged(a, new[s], h)
    BY <2>1, <2>2 DEF Rearranged
  <2> QED  BY <2>3 DEF a
<1>6. ASSUME NEW s \in DOMAIN d.spines,
             \A i \in DOMAIN d.spines[s].items : d.spines[s].items[i].kids = <<>>
      PROVE  \A i \in DOMAIN new[s] : new[s][i].kids = <<>>
  BY <1>1, <1>6
<1>7. \A s \in DOMAIN d.spines : IsSequence(new[s]) /\ \A i \in DOMAIN new[s] : IsItem(new[s][i])
  BY <1>1, <1>2
<1>5. Carries(d, x)
  BY <1>4, <1>6, <1>7, SpinesCarried DEF x
<1> QED  BY <1>5 DEF x

(* An item and its connected clips, each with another role or name. *)
LEMMA Dressed ==
    ASSUME NEW e, IsItem(e), NEW f, IsElement(f), SameLook(e, f), f.kids = e.kids,
           NEW kids, kids = [k \in DOMAIN e.kids |-> kids[k]],
           \A k \in DOMAIN e.kids : IsElement(kids[k]) /\ SameLook(e.kids[k], kids[k])
    PROVE  LET x == [f EXCEPT !.kids = kids]
           IN  IsItem(x) /\ SameBranch(e, x) /\ (e.kids = <<>> => x.kids = <<>>)
<1> DEFINE x == [f EXCEPT !.kids = kids]
<1>1. PICK n \in Nat : DOMAIN e.kids = 1..n
  BY Sequences DEF IsItem, IsElement
<1>2. IsSequence(kids) /\ DOMAIN kids = DOMAIN e.kids
  BY <1>1, SequenceFrom
<1>3. /\ IsElement(x) /\ x.kids = kids
      /\ x.tag = f.tag /\ x.ref = f.ref /\ x.start = f.start /\ x.dur = f.dur
  BY <1>2 DEF IsElement
<1> HIDE DEF x
<1>4. IsItem(x) /\ SameBranch(e, x)
  BY <1>2, <1>3 DEF IsItem, SameBranch, SameLook
<1>5. e.kids = <<>> => kids = <<>>
  BY <1>2
<1> QED  BY <1>3, <1>4, <1>5 DEF x

(* The roles of a batch are labels and roles.                              *)
LEMMA BatchAssignRolesCarries ==
    ASSUME NEW d, IsDocument(d), NEW rules
    PROVE  Carries(d, BatchAssignRoles(d, rules).doc)
<1> DEFINE Dress(e) == IF e.tag \in RoleTags /\ RuleFor(e.name, rules) # 0
                       THEN [e EXCEPT !.role = rules[RuleFor(e.name, rules)].role] ELSE e
<1>1. ASSUME NEW e, IsElement(e)
      PROVE  IsElement(Dress(e)) /\ SameLook(e, Dress(e)) /\ Dress(e).kids = e.kids
  BY <1>1 DEF IsElement, SameLook
<1> DEFINE New(e) == [Dress(e) EXCEPT !.kids = [k \in DOMAIN e.kids |-> Dress(e.kids[k])]]
<1> DEFINE new == [s \in DOMAIN d.spines |->
                      [i \in DOMAIN d.spines[s].items |-> New(d.spines[s].items[i])]]
<1>2. BatchAssignRoles(d, rules).doc
         = [d EXCEPT !.spines = [s \in DOMAIN d.spines |-> [d.spines[s] EXCEPT !.items = new[s]]]]
  BY DEF BatchAssignRoles, Edited, MapElements, MapSpines
<1> HIDE DEF Dress
<1>3. ASSUME NEW e, IsItem(e)
      PROVE  IsItem(New(e)) /\ SameBranch(e, New(e)) /\ (e.kids = <<>> => New(e).kids = <<>>)
  <2> DEFINE kids == [k \in DOMAIN e.kids |-> Dress(e.kids[k])]
  <2>1. Dress(e).kids = e.kids /\ IsElement(Dress(e)) /\ SameLook(e, Dress(e))
    BY <1>1, <1>3 DEF IsItem
  <2>2. New(e) = [Dress(e) EXCEPT !.kids = kids]
    BY <2>1
  <2>3. kids = [k \in DOMAIN e.kids |-> kids[k]]
    OBVIOUS
  <2>4. \A k \in DOMAIN e.kids : IsElement(kids[k]) /\ SameLook(e.kids[k], kids[k])
    BY <1>1, <1>3 DEF IsItem
  <2> HIDE DEF kids
  <2> QED  BY <1>3, <2>1, <2>2, <2>3, <2>4, Dressed
<1> HIDE DEF New
<1>4. \A s \in DOMAIN d.spines : new[s] = [i \in DOMAIN d.spines[s].items |-> new[s][i]]
  OBVIOUS
<1>5. \A s \in DOMAIN d.spines : \A i \in DOMAIN d.spines[s].items :
         LET e == d.spines[s].items[i]
             x == new[s][i]
         IN  IsItem(x) /\ SameBranch(e, x) /\ (e.kids = <<>> => x.kids = <<>>)
  BY <1>3, DocumentParts
<1> HIDE DEF new
<1> DEFINE x == [d EXCEPT !.spines = [s \in DOMAIN d.spines |-> [d.spines[s] EXCEPT !.items = new[s]]]]
<1>6. Carries(d, x)
  BY <1>4, <1>5, MappedCarries
<1> QED  BY <1>2, <1>6

(* Another name changes nothing that plays.                                *)
LEMMA BatchRenameCarries ==
    ASSUME NEW d, IsDocument(d), NEW pattern, NEW replacement
    PROVE  Carries(d, BatchRename(d, pattern, replacement).doc)
<1> DEFINE Dress(e) == [e EXCEPT !.name = Renamed(@, pattern, replacement)]
<1>1. ASSUME NEW e, IsElement(e)
      PROVE  IsElement(Dress(e)) /\ SameLook(e, Dress(e)) /\ Dress(e).kids = e.kids
  BY <1>1 DEF IsElement, SameLook
<1> DEFINE New(e) == [Dress(e) EXCEPT !.kids = [k \in DOMAIN e.kids |-> Dress(e.kids[k])]]
<1> DEFINE new == [s \in DOMAIN d.spines |->
                      [i \in DOMAIN d.spines[s].items |-> New(d.spines[s].items[i])]]
<1> DEFINE x == [d EXCEPT !.spines = [s \in DOMAIN d.spines |-> [d.spines[s] EXCEPT !.items = new[s]]]]
<1>2. BatchRename(d, pattern, replacement).doc
         = [x EXCEPT !.labels = [k \in DOMAIN @ |-> Renamed(@[k], pattern, replacement)]]
  BY DEF BatchRename, Edited, MapElements, MapSpines
<1> HIDE DEF Dress
<1>3. ASSUME NEW e, IsItem(e)
      PROVE  IsItem(New(e)) /\ SameBranch(e, New(e)) /\ (e.kids = <<>> => New(e).kids = <<>>)
  <2> DEFINE kids == [k \in DOMAIN e.kids |-> Dress(e.kids[k])]
  <2>1. Dress(e).kids = e.kids /\ IsElement(Dress(e)) /\ SameLook(e, Dress(e))
    BY <1>1, <1>3 DEF IsItem
  <2>2. New(e) = [Dress(e) EXCEPT !.kids = kids]
    BY <2>1
  <2>3. kids = [k \in DOMAIN e.kids |-> kids[k]]
    OBVIOUS
  <2>4. \A k \in DOMAIN e.kids : IsElement(kids[k]) /\ SameLook(e.kids[k], kids[k])
    BY <1>1, <1>3 DEF IsItem
  <2> HIDE DEF kids
  <2> QED  BY <1>3, <2>1, <2>2, <2>3, <2>4, Dressed
<1> HIDE DEF New
<1>4. \A s \in DOMAIN d.spines : new[s] = [i \in DOMAIN d.spines[s].items |-> new[s][i]]
  OBVIOUS
<1>5. \A s \in DOMAIN d.spines : \A i \in DOMAIN d.spines[s].items :
         LET e == d.spines[s].items[i]
             y == new[s][i]
         IN  IsItem(y) /\ SameBranch(e, y) /\ (e.kids = <<>> => y.kids = <<>>)
  BY <1>3, DocumentParts
<1> HIDE DEF new
<1>6. Carries(d, x)
  BY <1>4, <1>5, MappedCarries
<1> HIDE DEF x
<1> DEFINE labels == [k \in DOMAIN x.labels |-> Renamed(x.labels[k], pattern, replacement)]
<1>7. BatchRename(d, pattern, replacement).doc = [x EXCEPT !.labels = labels]
  BY <1>2
<1>8. IsSequence(labels)
  <2>1. Len(x.labels) \in Nat /\ DOMAIN x.labels = 1..Len(x.labels)
    BY <1>6, Sequences DEF Carries, SamePlay, IsDocument
  <2>2. labels = [k \in 1..Len(x.labels) |-> labels[k]]
    BY <2>1
  <2> HIDE DEF labels
  <2> QED  BY <2>1, <2>2, SequenceFrom
<1> HIDE DEF labels
<1>9. Carries(x, [x EXCEPT !.labels = labels])
  BY <1>6, <1>8, OtherLabels DEF Carries, SamePlay
<1> QED  BY <1>6, <1>7, <1>9, CarriesTransitive

(* Laying a spine again moves offsets only. *)
LEMMA Relaid ==
    ASSUME NEW b, IsSequence(b), \A i \in DOMAIN b : IsItem(b[i])
    PROVE  LET c == Relay(b)
           IN  /\ IsSequence(c) /\ Len(c) = Len(b) /\ DOMAIN c = DOMAIN b
               /\ \A i \in DOMAIN b : \E off :
                     /\ c[i] = [b[i] EXCEPT !.off = off]
                     /\ IsItem(c[i]) /\ SameBranch(b[i], c[i]) /\ c[i].kids = b[i].kids
<1> DEFINE c == Relay(b)
<1> DEFINE Off(i) == RunTime(SubSeq(b, 1, i - 1))
<1>1. c = [i \in DOMAIN b |-> [b[i] EXCEPT !.off = Off(i)]]
  BY DEF Relay
<1> HIDE DEF c, Off
<1>2. DOMAIN c = DOMAIN b /\ \A i \in DOMAIN b : c[i] = [b[i] EXCEPT !.off = Off(i)]
  BY <1>1
<1>3. PICK n \in Nat : DOMAIN b = 1..n /\ Len(b) = n
  BY Sequences
<1>4. IsSequence(c) /\ Len(c) = n
  BY <1>1, <1>2, <1>3, SequenceFrom
<1>5. ASSUME NEW e, IsItem(e), NEW off
      PROVE  LET x == [e EXCEPT !.off = off]
             IN  IsItem(x) /\ SameBranch(e, x) /\ x.kids = e.kids
  BY <1>5 DEF IsItem, IsElement, SameBranch, SameLook
<1>6. ASSUME NEW i \in DOMAIN b
      PROVE  \E off : /\ c[i] = [b[i] EXCEPT !.off = off]
                      /\ IsItem(c[i]) /\ SameBranch(b[i], c[i]) /\ c[i].kids = b[i].kids
  <2> DEFINE e == b[i]
  <2> DEFINE off == Off(i)
  <2> DEFINE x == [e EXCEPT !.off = off]
  <2>1. c[i] = x /\ IsItem(e)
    BY <1>2
  <2> HIDE DEF e, off
  <2>2. IsItem(x) /\ SameBranch(e, x) /\ x.kids = e.kids
    BY <2>1, <1>5
  <2>3. c[i] = [e EXCEPT !.off = off]
    BY <2>1
  <2> HIDE DEF x
  <2> QED  BY <2>1, <2>2, <2>3 DEF e
<1> QED  BY <1>2, <1>3, <1>4, <1>6 DEF c

(* Being a branch alike is transitive.                                     *)
LEMMA SameBranchTransitive ==
    ASSUME NEW e, NEW x, NEW y, SameBranch(e, x), SameBranch(x, y)
    PROVE  SameBranch(e, y)
BY DEF SameBranch, SameLook

(* A rearranged spine laid again is rearranged.                            *)
LEMMA RearrangedRelaid ==
    ASSUME NEW a, NEW b, NEW h, Rearranged(a, b, h),
           IsSequence(b), \A i \in DOMAIN b : IsItem(b[i])
    PROVE  Rearranged(a, Relay(b), h)
<1> DEFINE c == Relay(b)
<1>1. DOMAIN c = DOMAIN b /\ \A i \in DOMAIN b : SameBranch(b[i], c[i])
  BY Relaid
<1> HIDE DEF c
<1>2. \A i \in DOMAIN h : h[i] \in DOMAIN c /\ SameBranch(a[i], c[h[i]])
  BY <1>1, SameBranchTransitive DEF Rearranged
<1>3. ASSUME NEW m \in DOMAIN c PROVE (\E i \in DOMAIN h : h[i] = m) \/ Mute(c[m])
  <2>1. Mute(b[m]) => Mute(c[m])
    BY <1>1 DEF Mute, SameBranch, SameLook, IsClip
  <2> QED  BY <1>1, <2>1 DEF Rearranged
<1>4. Rearranged(a, c, h)
  BY <1>2, <1>3 DEF Rearranged
<1> QED  BY <1>4 DEF c

(* A sequence of items is one over the set of its members.                 *)
LEMMA ItemsOf ==
    ASSUME NEW a, IsSequence(a), \A i \in DOMAIN a : IsItem(a[i])
    PROVE  a \in Seq(ToSet(a)) /\ (\A e \in ToSet(a) : IsItem(e)) /\ \A i \in DOMAIN a : a[i] \in ToSet(a)
BY DEF IsSequence, ToSet

(* A selection picks no member twice.                                      *)
LEMMA PicksOnce ==
    ASSUME NEW T, NEW s \in Seq(T), NEW I, NEW h, Picks(s, I, h)
    PROVE  \A j, k \in DOMAIN h : h[j] = h[k] => j = k
<1> DEFINE b == Selected(s, I)
<1>1. /\ DOMAIN h = I \cap DOMAIN s
      /\ \A k \in DOMAIN h : h[k] \in DOMAIN b
      /\ \A j, k \in DOMAIN h : j < k => h[j] < h[k]
  BY DEF Picks
<1>2. b \in Seq(T)
  BY Selecting
<1> HIDE DEF b
<1>3. \A k \in DOMAIN h : k \in Int /\ h[k] \in Int
  BY <1>1, <1>2
<1> QED  BY <1>1, <1>3

(* What is left of a spine when gaps are taken out. *)
LEMMA SilenceCut ==
    ASSUME NEW a, IsSequence(a), \A i \in DOMAIN a : IsItem(a[i]), NEW I,
           \A i \in DOMAIN a \ I : Mute(a[i])
    PROVE  LET b == Selected(a, I)
           IN  /\ IsSequence(b) /\ \A m \in DOMAIN b : \E i \in DOMAIN a : b[m] = a[i]
               /\ \E h : Rearranged(a, b, h)
<1> DEFINE b == Selected(a, I)
<1> DEFINE T == ToSet(a)
<1>1. a \in Seq(T)
  BY ItemsOf
<1> HIDE DEF b, T
<1>2. b \in Seq(T)
  BY <1>1, Selecting DEF b
<1>3. PICK h : Picks(a, I, h)
  BY <1>1, Selecting
<1>4. /\ DOMAIN h = I \cap DOMAIN a
      /\ \A k \in DOMAIN h : h[k] \in DOMAIN b /\ b[h[k]] = a[k]
      /\ \A j, k \in DOMAIN h : j < k => h[j] < h[k]
      /\ \A m \in DOMAIN b : \E k \in DOMAIN h : h[k] = m
  BY <1>3 DEF Picks, b
<1>5. \A j, k \in DOMAIN h : h[j] = h[k] => j = k
  BY <1>1, <1>3, PicksOnce
<1>6. Rearranged(a, b, h)
  BY <1>4, <1>5, SameBranchReflexive DEF Rearranged
<1>7. \A m \in DOMAIN b : \E i \in DOMAIN a : b[m] = a[i]
  BY <1>4
<1>8. IsSequence(b)
  BY <1>2, SequenceOf
<1> QED  BY <1>6, <1>7, <1>8 DEF b

(* Long gaps without connected clips play nothing: removing them keeps     *)
(* what plays.                                                             *)
LEMMA RemoveSilenceCarries ==
    ASSUME NEW d, IsDocument(d), NEW min,
           \A s \in DOMAIN d.spines : \A i \in DOMAIN d.spines[s].items :
              IsLongGap(d.spines[s].items[i], min) => d.spines[s].items[i].kids = <<>>
    PROVE  Carries(d, RemoveSilence(d, min).doc)
<1> DEFINE Long(e) == IsLongGap(e, min)
<1> DEFINE RemovedUpTo(s) == CountAt(d, {p \in ItemPlaces(d) : p[1] <= s}, Long)
<1> DEFINE Left(s) == Selected(d.spines[s].items, {i \in DOMAIN d.spines[s].items : ~Long(d.spines[s].items[i])})
<1> DEFINE Cut(s) == IF RemovedUpTo(s) > 0 THEN Relay(Left(s)) ELSE Left(s)
<1> DEFINE new == [s \in DOMAIN d.spines |-> Cut(s)]
<1> DEFINE x == [d EXCEPT !.spines = [s \in DOMAIN d.spines |-> [d.spines[s] EXCEPT !.items = new[s]]]]
<1>1. RemoveSilence(d, min).doc = x
  BY DEF RemoveSilence, Edited
<1>2. \A s \in DOMAIN d.spines : new[s] = Left(s) \/ new[s] = Relay(Left(s))
  <2> HIDE DEF RemovedUpTo, Left
  <2> QED  OBVIOUS
<1>3. ASSUME NEW s \in DOMAIN d.spines
      PROVE  LET a == d.spines[s].items
             IN  /\ IsSequence(Left(s))
                 /\ \A m \in DOMAIN Left(s) : \E i \in DOMAIN a : Left(s)[m] = a[i]
                 /\ \E h : Rearranged(a, Left(s), h)
  <2> DEFINE a == d.spines[s].items
  <2> DEFINE I == {i \in DOMAIN a : ~Long(a[i])}
  <2>1. IsSequence(a) /\ \A i \in DOMAIN a : IsItem(a[i])
    BY DEF IsDocument, IsSpine
  <2>2. \A i \in DOMAIN a \ I : Mute(a[i])
    BY DEF Mute, IsLongGap, IsGap, IsClip
  <2> HIDE DEF a, I
  <2>3. /\ IsSequence(Selected(a, I)) /\ \A m \in DOMAIN Selected(a, I) : \E i \in DOMAIN a : Selected(a, I)[m] = a[i]
        /\ \E h : Rearranged(a, Selected(a, I), h)
    BY <2>1, <2>2, SilenceCut
  <2> QED  BY <2>3 DEF a, I
<1> HIDE DEF Left, new
<1>4. ASSUME NEW s \in DOMAIN d.spines
      PROVE  /\ \A m \in DOMAIN Left(s) : IsItem(Left(s)[m])
             /\ IsSequence(new[s]) /\ \A i \in DOMAIN new[s] : IsItem(new[s][i])
             /\ \E h : Rearranged(d.spines[s].items, new[s], h)
             /\ (\A i \in DOMAIN d.spines[s].items : d.spines[s].items[i].kids = <<>>)
                 => \A i \in DOMAIN new[s] : new[s][i].kids = <<>>
  <2>1. \A m \in DOMAIN Left(s) : IsItem(Left(s)[m])
    BY <1>3, DocumentParts
  <2>2. PICK h : Rearranged(d.spines[s].items, Left(s), h)
    BY <1>3
  <2>3. CASE new[s] = Left(s)
    BY <1>3, <2>1, <2>2, <2>3
  <2>4. CASE new[s] = Relay(Left(s))
    <3>1. Rearranged(d.spines[s].items, new[s], h)
      BY <1>3, <2>1, <2>2, <2>4, RearrangedRelaid
    <3>2. /\ IsSequence(new[s]) /\ DOMAIN new[s] = DOMAIN Left(s)
          /\ \A i \in DOMAIN new[s] : IsItem(new[s][i]) /\ new[s][i].kids = Left(s)[i].kids
      <4> DEFINE c == Left(s)
      <4>1. IsSequence(c) /\ \A i \in DOMAIN c : IsItem(c[i])
        BY <1>3, <2>1
      <4> HIDE DEF c
      <4>2. /\ IsSequence(Relay(c)) /\ DOMAIN Relay(c) = DOMAIN c
            /\ \A i \in DOMAIN c : IsItem(Relay(c)[i]) /\ Relay(c)[i].kids = c[i].kids
        BY <4>1, Relaid
      <4> QED  BY <2>4, <4>2 DEF c
    <3> QED  BY <1>3, <2>1, <3>1, <3>2
  <2> QED  BY <1>2, <2>3, <2>4
<1>5. Carries(d, x)
  BY <1>4, SpinesCarried
<1> QED  BY <1>1, <1>5

(* A spine in which some items are followed by a new one that is no clip. *)
LEMMA Joined ==
    ASSUME NEW a, IsSequence(a), \A i \in DOMAIN a : IsItem(a[i]),
           NEW C, NEW J, \A i \in DOMAIN a : IsItem(J[i]) /\ ~IsClip(J[i]) /\ J[i].kids = <<>>
    PROVE  LET b == FlattenSeq([i \in DOMAIN a |-> IF i \in C THEN <<a[i], J[i]>> ELSE <<a[i]>>])
           IN  /\ IsSequence(b)
               /\ \A m \in DOMAIN b : \E i \in DOMAIN a : b[m] = a[i] \/ b[m] = J[i]
               /\ \E h : Rearranged(a, b, h)
<1> DEFINE seqs == [i \in DOMAIN a |-> IF i \in C THEN <<a[i], J[i]>> ELSE <<a[i]>>]
<1> DEFINE T == {a[i] : i \in DOMAIN a} \cup {J[i] : i \in DOMAIN a}
<1> DEFINE b == FlattenSeq(seqs)
<1>1. PICK N \in Nat : Len(a) = N /\ DOMAIN a = 1..N
  BY Sequences
<1>2. \A i \in 1..N : a[i] \in T /\ J[i] \in T
  BY <1>1
<1>3. seqs \in Seq(Seq(T)) /\ Len(seqs) = N
  <2> HIDE DEF T
  <2>1. \A i \in 1..N : (IF i \in C THEN <<a[i], J[i]>> ELSE <<a[i]>>) \in Seq(T)
    BY <1>2
  <2> QED  BY <1>1, <2>1
<1>4. \A i \in 1..N : seqs[i] = IF i \in C THEN <<a[i], J[i]>> ELSE <<a[i]>>
  BY <1>1
<1> HIDE DEF seqs, T
<1>5. ASSUME NEW i \in 1..N
      PROVE  /\ Len(seqs[i]) = (IF i \in C THEN 2 ELSE 1)
             /\ seqs[i][1] = a[i] /\ (i \in C => seqs[i][2] = J[i])
  <2>1. CASE i \in C
    <3>1. seqs[i] = <<a[i], J[i]>>
      BY <2>1, <1>4
    <3>2. \A x, y : Len(<<x, y>>) = 2 /\ <<x, y>>[1] = x /\ <<x, y>>[2] = y
      OBVIOUS
    <3> QED  BY <2>1, <3>1, <3>2
  <2>2. CASE i \notin C
    <3>1. seqs[i] = <<a[i]>>
      BY <2>2, <1>4
    <3>2. \A x : Len(<<x>>) = 1 /\ <<x>>[1] = x
      OBVIOUS
    <3> QED  BY <2>2, <3>1, <3>2
  <2> QED  BY <2>1, <2>2
<1>6. b \in Seq(T) /\ \E at : LaidOut(seqs, b, at)
  BY <1>3, FlattenedLayout
<1>7. PICK at : LaidOut(seqs, b, at)
  BY <1>6
<1> HIDE DEF b
<1>8. Len(b) \in Nat /\ DOMAIN b = 1..Len(b)
  BY <1>6
<1>9. /\ \A i \in 1..N : at[i] + 1 \in 1..Len(b) /\ b[at[i] + 1] = a[i]
      /\ \A i, j \in 1..N : i < j => at[i] + 1 < at[j] + 1
  <2>1. \A i \in 1..N : Len(seqs[i]) \in Nat /\ Len(seqs[i]) # 0
    BY <1>5
  <2> DEFINE I == 1..N
  <2>2. I \in SUBSET (1..N) /\ \A i \in I : Len(seqs[i]) # 0
    BY <2>1
  <2> HIDE DEF I
  <2>4. Len(seqs) = N
    BY <1>3
  <2>3. /\ \A i \in I : at[i] + 1 \in 1..Len(b) /\ b[at[i] + 1] = seqs[i][1]
        /\ \A i, j \in I : i < j => at[i] + 1 < at[j] + 1
    BY <1>7, <1>8, <2>1, <2>2, <2>4, FirstItems
  <2> USE DEF I
  <2> QED  BY <1>5, <2>3
<1>10. ASSUME NEW m \in 1..Len(b)
       PROVE  \E i \in 1..N : at[i] + 1 = m \/ (i \in C /\ b[m] = J[i])
  <2>1. PICK i \in 1..N : \E j \in 1..Len(seqs[i]) : m = at[i] + j
    BY <1>3, <1>7 DEF LaidOut
  <2>2. PICK j \in 1..Len(seqs[i]) : m = at[i] + j
    BY <2>1
  <2>3. b[m] = seqs[i][j]
    BY <1>3, <1>7, <2>2 DEF LaidOut
  <2>4. j = 1 \/ (j = 2 /\ i \in C)
    BY <1>5
  <2> QED  BY <1>5, <2>2, <2>3, <2>4
<1> DEFINE h == [i \in 1..N |-> at[i] + 1]
<1>11. DOMAIN h = 1..N /\ \A i \in 1..N : h[i] = at[i] + 1
  OBVIOUS
<1> HIDE DEF h
<1>12. \A i, j \in 1..N : h[i] = h[j] => i = j
  <2>1. \A i \in 1..N : h[i] \in Int
    BY <1>8, <1>9, <1>11
  <2>2. \A i, j \in 1..N : i < j \/ j < i \/ i = j
    OBVIOUS
  <2> QED  BY <1>9, <1>11, <2>1, <2>2
<1>13. \A i \in 1..N : Mute(J[i])
  BY <1>1 DEF Mute
<1>14. \A i \in 1..N : h[i] \in DOMAIN b /\ SameBranch(a[i], b[h[i]])
  BY <1>8, <1>9, <1>11, SameBranchReflexive
<1>15. \A m \in DOMAIN b : (\E i \in 1..N : h[i] = m) \/ Mute(b[m])
  BY <1>8, <1>10, <1>11, <1>13
<1>16. Rearranged(a, b, h)
  BY <1>1, <1>11, <1>12, <1>14, <1>15 DEF Rearranged
<1>17. \A m \in DOMAIN b : \E i \in DOMAIN a : b[m] = a[i] \/ b[m] = J[i]
  BY <1>1, <1>8, <1>9, <1>10
<1>18. IsSequence(b)
  BY <1>6, SequenceOf
<1> QED  BY <1>16, <1>17, <1>18 DEF b, seqs

(* Transitions between all clips change nothing that plays.                *)
LEMMA BatchApplyTransitionCarries ==
    ASSUME NEW d, IsDocument(d), NEW dur \in Int, NEW ref
    PROVE  Carries(d, BatchApplyTransition(d, dur, ref).doc)
<1> DEFINE Joint(e) == Element("transition", <<"Dissolve">>, ref, 0, e.off + e.dur, dur)
<1> DEFINE Join(items) == FlattenSeq([i \in DOMAIN items |->
              IF CutAfter(items, i) THEN <<items[i], Joint(items[i])>> ELSE <<items[i]>>])
<1> DEFINE new == [s \in DOMAIN d.spines |-> Join(d.spines[s].items)]
<1> DEFINE x == [d EXCEPT !.spines = [s \in DOMAIN d.spines |-> [d.spines[s] EXCEPT !.items = new[s]]]]
<1>1. BatchApplyTransition(d, dur, ref).doc = x
  BY DEF BatchApplyTransition, MapSpines, Edited
<1>2. \A e : IsItem(Joint(e)) /\ ~IsClip(Joint(e)) /\ Joint(e).kids = <<>>
  BY NewElement DEF IsClip
<1> HIDE DEF Joint
<1>3. ASSUME NEW a, IsSequence(a), \A i \in DOMAIN a : IsItem(a[i])
      PROVE  /\ IsSequence(Join(a))
             /\ \A m \in DOMAIN Join(a) : \E i \in DOMAIN a : Join(a)[m] = a[i] \/ Join(a)[m] = Joint(a[i])
             /\ \E h : Rearranged(a, Join(a), h)
  <2> DEFINE C == {i \in DOMAIN a : CutAfter(a, i)}
  <2> DEFINE J == [i \in DOMAIN a |-> Joint(a[i])]
  <2> DEFINE b == FlattenSeq([i \in DOMAIN a |-> IF i \in C THEN <<a[i], J[i]>> ELSE <<a[i]>>])
  <2>1. \A i \in DOMAIN a : J[i] = Joint(a[i]) /\ (i \in C <=> CutAfter(a, i))
    OBVIOUS
  <2> HIDE DEF J, C
  <2>2. [i \in DOMAIN a |-> IF i \in C THEN <<a[i], J[i]>> ELSE <<a[i]>>]
          = [i \in DOMAIN a |-> IF CutAfter(a, i) THEN <<a[i], Joint(a[i])>> ELSE <<a[i]>>]
    BY <2>1
  <2>3. Join(a) = b
    BY <2>2
  <2>4. \A i \in DOMAIN a : IsItem(J[i]) /\ ~IsClip(J[i]) /\ J[i].kids = <<>>
    BY <1>2, <2>1
  <2>5. /\ IsSequence(b)
        /\ \A m \in DOMAIN b : \E i \in DOMAIN a : b[m] = a[i] \/ b[m] = J[i]
        /\ \E h : Rearranged(a, b, h)
    BY <1>3, <2>4, Joined
  <2> HIDE DEF b, Join
  <2> QED  BY <2>1, <2>3, <2>5
<1>4. \A s \in DOMAIN d.spines : new[s] = Join(d.spines[s].items)
  OBVIOUS
<1> HIDE DEF Join, new
<1>5. ASSUME NEW s \in DOMAIN d.spines
      PROVE  LET a == d.spines[s].items
             IN  /\ IsSequence(new[s])
                 /\ \A m \in DOMAIN new[s] : \E i \in DOMAIN a : new[s][m] = a[i] \/ new[s][m] = Joint(a[i])
                 /\ \E h : Rearranged(a, new[s], h)
  <2>1. IsSequence(d.spines[s].items) /\ \A i \in DOMAIN d.spines[s].items : IsItem(d.spines[s].items[i])
    BY DEF IsDocument, IsSpine
  <2> QED  BY <1>3, <1>4, <2>1
<1>6. ASSUME NEW s \in DOMAIN d.spines
      PROVE  /\ \A i \in DOMAIN new[s] : IsItem(new[s][i])
             /\ (\A i \in DOMAIN d.spines[s].items : d.spines[s].items[i].kids = <<>>)
                 => \A i \in DOMAIN new[s] : new[s][i].kids = <<>>
  BY <1>2, <1>5, DocumentParts
<1>7. Carries(d, x)
  BY <1>5, <1>6, SpinesCarried
<1> QED  BY <1>1, <1>7

(* The documents of a batch of markers, one after the other. *)
LEMMA MarkersInTurn ==
    ASSUME NEW d, NEW markers, Len(markers) \in Nat
    PROVE  \E D : /\ D[0] = d /\ D[Len(markers)] = BatchAddMarkers(d, markers).doc
                 /\ \A n \in Nat : n + 1 \in 0..Len(markers) =>
                       D[n + 1] = AddNote(D[n], markers[n + 1].name, markers[n + 1].note).doc
<1> DEFINE N == Len(markers)
<1> DEFINE G(acc, k) == LET r == AddNote(acc.doc, markers[k].name, markers[k].note)
                        IN  Edited(r.doc, acc.n + r.n)
<1> DEFINE P(n) == \E f : f = [k \in 0..n |-> IF k = 0 THEN Edited(d, 0) ELSE G(f[k - 1], k)]
<1> DEFINE F == CHOOSE f : f = [k \in 0..N |-> IF k = 0 THEN Edited(d, 0) ELSE G(f[k - 1], k)]
<1>1. BatchAddMarkers(d, markers) = F[N]
  BY DEF BatchAddMarkers
<1> HIDE DEF G
<1>2. P(N)
  <2> DEFINE S == {n \in Nat : P(n)}
  <2>1. 0 \in S
    <3> DEFINE g == [k \in 0..0 |-> Edited(d, 0)]
    <3>1. g = [k \in 0..0 |-> IF k = 0 THEN Edited(d, 0) ELSE G(g[k - 1], k)]
      OBVIOUS
    <3>2. P(0)
      BY <3>1
    <3> QED  BY <3>2
  <2>2. ASSUME NEW n \in S PROVE n + 1 \in S
    <3>1. PICK f : f = [k \in 0..n |-> IF k = 0 THEN Edited(d, 0) ELSE G(f[k - 1], k)]
      OBVIOUS
    <3>0. n \in Nat
      OBVIOUS
    <3> DEFINE g == [k \in 0..(n + 1) |-> IF k = 0 THEN Edited(d, 0) ELSE G(f[k - 1], k)]
    <3>2. ASSUME NEW k \in 0..n PROVE g[k] = f[k]
      <4>1. k \in 0..(n + 1)
        BY <3>0
      <4>2. g[k] = IF k = 0 THEN Edited(d, 0) ELSE G(f[k - 1], k)
        BY <4>1
      <4> HIDE DEF g
      <4> QED  BY <3>1, <4>2
    <3>3. \A k \in 0..(n + 1) : k # 0 => k - 1 \in 0..n
      BY <3>0
    <3>4. g = [k \in 0..(n + 1) |-> IF k = 0 THEN Edited(d, 0) ELSE G(g[k - 1], k)]
      <4>1. \A k \in 0..(n + 1) : k # 0 => g[k - 1] = f[k - 1]
        BY <3>2, <3>3
      <4> DEFINE y == g
      <4>2. \A k \in 0..(n + 1) : k # 0 => G(f[k - 1], k) = G(y[k - 1], k)
        BY <4>1
      <4> HIDE DEF y
      <4>3. g = [k \in 0..(n + 1) |-> IF k = 0 THEN Edited(d, 0) ELSE G(y[k - 1], k)]
        BY <4>2
      <4> QED  BY <4>3 DEF y
    <3> HIDE DEF g
    <3>5. P(n + 1)
      BY <3>4
    <3> HIDE DEF P
    <3> QED  BY <3>0, <3>5
  <2> HIDE DEF S
  <2>3. S \in SUBSET Nat
    BY DEF S
  <2>4. S = Nat
    BY <2>1, <2>2, <2>3, Counting
  <2> QED  BY <2>4 DEF S
<1>3. F = [k \in 0..N |-> IF k = 0 THEN Edited(d, 0) ELSE G(F[k - 1], k)]
  BY <1>2
<1> HIDE DEF F, P, N
<1>4. N \in Nat
  BY DEF N
<1>5. \A k \in 0..N : F[k] = IF k = 0 THEN Edited(d, 0) ELSE G(F[k - 1], k)
  BY <1>3
<1> DEFINE D == [k \in 0..N |-> F[k].doc]
<1>6. 0 \in 0..N /\ N \in 0..N
  BY <1>4
<1>7. D[0] = d /\ D[N] = F[N].doc
  BY <1>5, <1>6 DEF Edited
<1>8. ASSUME NEW n \in Nat, n + 1 \in 0..N
      PROVE  D[n + 1] = AddNote(D[n], markers[n + 1].name, markers[n + 1].note).doc
  <2>1. n \in 0..N /\ n + 1 # 0 /\ (n + 1) - 1 = n
    BY <1>4, <1>8
  <2>2. F[n + 1] = G(F[n], n + 1)
    BY <1>5, <1>8, <2>1
  <2>3. F[n + 1].doc = AddNote(F[n].doc, markers[n + 1].name, markers[n + 1].note).doc
    BY <2>2 DEF G, Edited
  <2> QED  BY <1>8, <2>1, <2>3
<1> HIDE DEF D
<1> QED  BY <1>1, <1>7, <1>8 DEF N

(* No batch of markers changes what plays.                                 *)
LEMMA BatchAddMarkersCarries ==
    ASSUME NEW d, IsDocument(d), NEW markers, Len(markers) \in Nat
    PROVE  Carries(d, BatchAddMarkers(d, markers).doc)
<1>1. PICK N \in Nat : N = Len(markers)
  OBVIOUS
<1>2. PICK D : /\ D[0] = d /\ D[N] = BatchAddMarkers(d, markers).doc
               /\ \A n \in Nat : n + 1 \in 0..N =>
                     D[n + 1] = AddNote(D[n], markers[n + 1].name, markers[n + 1].note).doc
  <2>1. PICK D : /\ D[0] = d /\ D[Len(markers)] = BatchAddMarkers(d, markers).doc
                 /\ \A n \in Nat : n + 1 \in 0..Len(markers) =>
                       D[n + 1] = AddNote(D[n], markers[n + 1].name, markers[n + 1].note).doc
    BY MarkersInTurn
  <2> QED  BY <1>1, <2>1
<1> DEFINE S == {n \in Nat : n \in 0..N => Carries(d, D[n])}
<1>3. 0 \in S
  BY <1>2, CarriesReflexive
<1>4. ASSUME NEW n \in S PROVE n + 1 \in S
  <2>0. n \in Nat
    OBVIOUS
  <2> SUFFICES ASSUME n + 1 \in 0..N PROVE Carries(d, D[n + 1])
    BY <2>0
  <2>1. n \in 0..N
    BY <2>0
  <2>2. Carries(d, D[n])
    BY <2>1
  <2>3. Carries(D[n], D[n + 1])
    BY <1>2, <2>0, <2>2, AddNoteCarries DEF Carries, SamePlay
  <2> HIDE DEF S
  <2> QED  BY <2>2, <2>3, CarriesTransitive
<1> HIDE DEF S
<1>5. S \in SUBSET Nat
  BY DEF S
<1>6. N \in S /\ N \in 0..N
  <2>1. S = Nat
    BY <1>3, <1>4, <1>5, Counting
  <2> QED  BY <1>2, <2>1
<1> QED  BY <1>2, <1>6 DEF S

-----------------------------------------------------------------------------
(* Reordering.                                                             *)

IsListed(e, names) == ~IsTransition(e) /\ e.name \in ToSet(names)

Slots(a, names, n) == {i \in 1..Len(a) : IsListed(a[i], names) /\ a[i].name = n}

Slot(a, names, n) == IF Slots(a, names, n) # {} THEN Max(Slots(a, names, n)) ELSE 0

(* Every name stands for at most one clip. *)
Clear(a, names) ==
    \A i, j \in DOMAIN a : IsListed(a[i], names) /\ IsListed(a[j], names) /\ a[i].name = a[j].name => i = j

Wanted(a, names) ==
    {k \in DOMAIN names : \E i \in DOMAIN a : IsListed(a[i], names) /\ a[i].name = names[k]}

InOrder(a, names) ==
    LET present == Selected(names, Wanted(a, names))
    IN  [k \in DOMAIN present |-> a[Slot(a, names, present[k])]]

Rest(a, names) == Selected(a, {i \in DOMAIN a : ~IsListed(a[i], names)})

(* The slot of a listed item holds one of its name.                        *)
LEMMA SlotFound ==
    ASSUME NEW a, IsSequence(a), NEW names, NEW i \in DOMAIN a, IsListed(a[i], names)
    PROVE  LET m == Slot(a, names, a[i].name)
           IN  m \in DOMAIN a /\ IsListed(a[m], names) /\ a[m].name = a[i].name
<1> DEFINE S == Slots(a, names, a[i].name)
<1>1. PICK n \in Nat : Len(a) = n /\ DOMAIN a = 1..n
  BY Sequences
<1>2. S \in SUBSET (1..n) /\ S # {}
  BY <1>1 DEF Slots
<1>3. Max(S) \in S
  <2> HIDE DEF S
  <2> QED  BY <1>2, FirstAndLast
<1>4. Slot(a, names, a[i].name) = Max(S)
  BY <1>2 DEF Slot
<1> QED  BY <1>1, <1>3, <1>4 DEF Slots

(* Reordering is a rearrangement when names are clear, and makes only      *)
(* items of the spine in any case.                                         *)
LEMMA Reordered ==
    ASSUME NEW a, IsSequence(a), \A i \in DOMAIN a : IsItem(a[i]), NEW names, IsSequence(names)
    PROVE  LET b == InOrder(a, names) \o Rest(a, names)
           IN  /\ IsSequence(b)
               /\ \A m \in DOMAIN b : \E i \in DOMAIN a : b[m] = a[i]
               /\ IsInjective(names) /\ Clear(a, names) => \E h : Rearranged(a, b, h)
<1> DEFINE K == Wanted(a, names)
<1> DEFINE O == {i \in DOMAIN a : ~IsListed(a[i], names)}
<1> DEFINE T == ToSet(a)
<1> DEFINE present == Selected(names, K)
<1> DEFINE moved == InOrder(a, names)
<1> DEFINE others == Rest(a, names)
<1> DEFINE b == moved \o others
<1>1. a \in Seq(T) /\ \A i \in DOMAIN a : a[i] \in T
  BY ItemsOf
<1>2. names \in Seq(ToSet(names))
  BY DEF IsSequence
<1>3. present \in Seq(ToSet(names)) /\ others \in Seq(T)
  <2> HIDE DEF T, K
  <2> QED  BY <1>1, <1>2, Selecting DEF Rest
<1>4. PICK g : Picks(names, K, g)
  BY <1>2, Selecting
<1>5. PICK f : Picks(a, O, f)
  <2> HIDE DEF T
  <2> QED  BY <1>1, Selecting
<1>6. /\ DOMAIN g = K
      /\ \A k \in K : g[k] \in DOMAIN present /\ present[g[k]] = names[k]
      /\ \A m \in DOMAIN present : \E k \in K : g[k] = m
  <2>1. K \cap DOMAIN names = K
    BY DEF Wanted
  <2> QED  BY <1>4, <2>1 DEF Picks
<1>7. /\ DOMAIN f = O
      /\ \A i \in O : f[i] \in DOMAIN others /\ others[f[i]] = a[i]
      /\ \A m \in DOMAIN others : \E i \in O : f[i] = m
  <2>1. O \cap DOMAIN a = O
    OBVIOUS
  <2> QED  BY <1>5, <2>1 DEF Picks, Rest
<1>8. \A i, j \in O : f[i] = f[j] => i = j
  <2> HIDE DEF T, O
  <2> QED  BY <1>1, <1>5, <1>7, PicksOnce
<1>9. \A k \in K : \E i \in DOMAIN a : IsListed(a[i], names) /\ a[i].name = names[k]
  BY DEF Wanted
<1>10. ASSUME NEW i \in DOMAIN a, IsListed(a[i], names)
       PROVE  \E k \in K : names[k] = a[i].name
  <2>1. PICK k \in DOMAIN names : names[k] = a[i].name
    BY <1>10 DEF IsListed, ToSet
  <2> QED  BY <1>10, <2>1 DEF Wanted
<1>11. moved = [m \in DOMAIN present |-> a[Slot(a, names, present[m])]]
  BY DEF InOrder
<1> HIDE DEF K, moved, others, present
<1>12. ASSUME NEW k \in K
       PROVE  /\ g[k] \in DOMAIN moved
              /\ \E i \in DOMAIN a : /\ IsListed(a[i], names) /\ a[i].name = names[k]
                                     /\ moved[g[k]] = a[i]
  <2>1. PICK j \in DOMAIN a : IsListed(a[j], names) /\ a[j].name = names[k]
    BY <1>9
  <2> DEFINE i == Slot(a, names, names[k])
  <2>2. i \in DOMAIN a /\ IsListed(a[i], names) /\ a[i].name = names[k]
    BY <2>1, SlotFound
  <2>3. g[k] \in DOMAIN moved /\ moved[g[k]] = a[i]
    BY <1>6, <1>11
  <2> HIDE DEF i
  <2> QED  BY <2>2, <2>3
<1>13. DOMAIN moved = DOMAIN present
  BY <1>11
<1>14. ASSUME NEW m \in DOMAIN moved
       PROVE  moved[m] \in T /\ \E i \in DOMAIN a : moved[m] = a[i]
  <2>1. PICK k \in K : g[k] = m
    BY <1>6, <1>13
  <2> QED  BY <1>1, <1>12, <2>1
<1> HIDE DEF T
<1>15. PICK N \in Nat : DOMAIN moved = 1..N /\ Len(moved) = N /\ moved \in Seq(T)
  <2>1. PICK N \in Nat : DOMAIN present = 1..N
    BY <1>3
  <2>2. moved = [m \in 1..N |-> moved[m]]
    BY <1>11, <2>1
  <2>3. \A m \in 1..N : moved[m] \in T
    BY <1>13, <1>14, <2>1
  <2> HIDE DEF T
  <2>4. moved \in Seq(T) /\ Len(moved) = N
    BY <2>2, <2>3
  <2> QED  BY <1>13, <2>1, <2>4
<1>16. PICK M \in Nat : DOMAIN others = 1..M /\ Len(others) = M
  BY <1>3
<1>17. /\ b \in Seq(T) /\ Len(b) = N + M
       /\ \A m \in 1..N : b[m] = moved[m]
       /\ \A m \in 1..M : b[N + m] = others[m]
  <2>1. moved \in Seq(T) /\ others \in Seq(T)
    BY <1>3, <1>15
  <2>2. /\ b \in Seq(T) /\ Len(b) = Len(moved) + Len(others)
        /\ \A j \in 1..Len(moved) : b[j] = moved[j]
        /\ \A j \in 1..Len(others) : b[Len(moved) + j] = others[j]
    BY <2>1, Concatenated
  <2> HIDE DEF b
  <2> QED  BY <1>15, <1>16, <2>2
<1> HIDE DEF b
<1>18. DOMAIN b = 1..(N + M)
  BY <1>17
<1>19. /\ \A m \in 1..M : N + m \in 1..(N + M)
       /\ \A m \in 1..N : m \in 1..(N + M)
       /\ \A m \in 1..(N + M) : m \in 1..N \/ \E j \in 1..M : m = N + j
  BY <1>15, <1>16, Beyond
<1>20. \A m \in DOMAIN b : \E i \in DOMAIN a : b[m] = a[i]
  <2>1. ASSUME NEW m \in 1..M PROVE \E i \in DOMAIN a : b[N + m] = a[i]
    <3>1. PICK i \in O : f[i] = m
      BY <1>7, <1>16
    <3>2. b[N + m] = a[i] /\ i \in DOMAIN a
      BY <3>1, <1>7, <1>17
    <3> QED  BY <3>2
  <2>2. \A m \in 1..N : \E i \in DOMAIN a : b[m] = a[i]
    BY <1>14, <1>15, <1>17
  <2>3. ASSUME NEW m \in 1..(N + M) PROVE \E i \in DOMAIN a : b[m] = a[i]
    <3>1. m \in 1..N \/ \E j \in 1..M : m = N + j
      BY <1>19
    <3> QED  BY <3>1, <2>1, <2>2
  <2> QED  BY <1>18, <2>3
<1>21. ASSUME IsInjective(names), Clear(a, names) PROVE \E h : Rearranged(a, b, h)
  <2> DEFINE Key(i) == CHOOSE k \in K : names[k] = a[i].name
  <2>1. ASSUME NEW i \in DOMAIN a, i \notin O PROVE Key(i) \in K /\ names[Key(i)] = a[i].name
    <3>1. IsListed(a[i], names)
      BY <2>1
    <3> QED  BY <1>10, <3>1
  <2> DEFINE h == [i \in DOMAIN a |-> IF i \in O THEN N + f[i] ELSE g[Key(i)]]
  <2>2. DOMAIN h = DOMAIN a /\ \A i \in DOMAIN a : h[i] = IF i \in O THEN N + f[i] ELSE g[Key(i)]
    OBVIOUS
  <2> HIDE DEF h, Key
  <2>3. ASSUME NEW i \in O
        PROVE  f[i] \in 1..M /\ h[i] = N + f[i] /\ h[i] \in DOMAIN b /\ b[h[i]] = a[i]
    <3>1. f[i] \in 1..M /\ others[f[i]] = a[i] /\ i \in DOMAIN a
      BY <1>7, <1>16
    <3> HIDE DEF O
    <3>2. h[i] = N + f[i]
      BY <2>2, <3>1
    <3> QED  BY <3>1, <3>2, <1>17, <1>18, <1>19
  <2>4. ASSUME NEW i \in DOMAIN a, i \notin O
        PROVE  h[i] \in 1..N /\ h[i] \in DOMAIN b /\ b[h[i]] = a[i]
    <3>1. Key(i) \in K /\ names[Key(i)] = a[i].name /\ h[i] = g[Key(i)]
      BY <2>1, <2>2, <2>4
    <3>2. PICK j \in DOMAIN a : /\ IsListed(a[j], names) /\ a[j].name = names[Key(i)]
                                /\ moved[g[Key(i)]] = a[j]
      BY <1>12, <3>1
    <3>3. i = j
      BY <1>21, <2>4, <3>1, <3>2 DEF Clear
    <3>4. h[i] \in 1..N
      BY <1>12, <1>15, <3>1
    <3> QED  BY <3>1, <3>2, <3>3, <3>4, <1>17, <1>18, <1>19
  <2>5. ASSUME NEW i \in DOMAIN a, NEW j \in DOMAIN a, h[i] = h[j] PROVE i = j
    <3>1. CASE i \in O /\ j \in O
      <4>1. f[i] = f[j]
        BY <2>3, <2>5, <3>1
      <4> QED  BY <1>8, <3>1, <4>1
    <3>2. CASE i \notin O /\ j \notin O
      <4>1. names[Key(i)] = a[i].name /\ names[Key(j)] = a[j].name /\ h[i] = g[Key(i)] /\ h[j] = g[Key(j)]
            /\ Key(i) \in K /\ Key(j) \in K
        BY <2>1, <2>2, <3>2
      <4>3. g[Key(i)] = g[Key(j)]
        BY <2>5, <4>1
      <4>4. \A k, m \in K : g[k] = g[m] => names[k] = names[m]
        BY <1>6
      <4>2. names[Key(i)] = names[Key(j)]
        BY <4>1, <4>3, <4>4
      <4> QED  BY <1>21, <3>2, <4>1, <4>2 DEF Clear
    <3>3. CASE (i \in O /\ j \notin O) \/ (j \in O /\ i \notin O)
      <4>1. \A x \in 1..M, y \in 1..N : N + x # y
        BY <1>15, <1>16
      <4> HIDE DEF O
      <4> QED  BY <2>3, <2>4, <2>5, <3>3, <4>1
    <3> QED  BY <3>1, <3>2, <3>3
  <2>6. ASSUME NEW m \in DOMAIN b PROVE \E i \in DOMAIN a : h[i] = m
    <3>1. CASE m \in 1..N
      <4>1. PICK k \in K : g[k] = m
        BY <1>6, <1>13, <1>15, <3>1
      <4>2. PICK i \in DOMAIN a : IsListed(a[i], names) /\ a[i].name = names[k]
        BY <1>9
      <4>3. i \notin O
        BY <4>2
      <4>4. Key(i) \in K /\ names[Key(i)] = names[k] /\ h[i] = g[Key(i)]
        BY <2>1, <2>2, <4>2, <4>3
      <4>5. K \subseteq DOMAIN names
        BY DEF K, Wanted
      <4>6. Key(i) = k
        BY <1>21, <4>4, <4>5 DEF IsInjective
      <4> QED  BY <4>1, <4>4, <4>6
    <3>2. CASE \E j \in 1..M : m = N + j
      <4>1. PICK j \in 1..M : m = N + j
        BY <3>2
      <4>2. PICK i \in O : f[i] = j
        BY <1>7, <1>16
      <4>3. h[i] = m
        BY <2>3, <4>1, <4>2
      <4> QED  BY <4>3
    <3> QED  BY <1>18, <1>19, <3>1, <3>2
  <2>7. Rearranged(a, b, h)
    <3>1. \A i \in DOMAIN a : h[i] \in DOMAIN b /\ SameBranch(a[i], b[h[i]])
      BY <2>3, <2>4, SameBranchReflexive
    <3> QED  BY <2>2, <2>5, <2>6, <3>1 DEF Rearranged
  <2> QED  BY <2>7
<1>22. IsSequence(b)
  BY <1>17, SequenceOf
<1> QED  BY <1>20, <1>21, <1>22 DEF b, moved, others

(* What reorder_clips leaves, in the terms above.                          *)
LEMMA ReorderClipsMade ==
    ASSUME NEW d, NEW names
    PROVE  ReorderClips(d, names).doc =
              IF d.spines = <<>> THEN d
              ELSE [d EXCEPT !.spines[1].items =
                       Relay(InOrder(d.spines[1].items, names) \o Rest(d.spines[1].items, names))]
<1>1. CASE d.spines = <<>>
  BY <1>1 DEF ReorderClips, Edited
<1>2. CASE d.spines # <<>>
  <2> DEFINE items == d.spines[1].items
  <2> DEFINE Listed(e) == ~IsTransition(e) /\ e.name \in ToSet(names)
  <2> DEFINE Keep(name) == items[SelectLastInSeq(items, LAMBDA e: Listed(e) /\ e.name = name)]
  <2> DEFINE K == {k \in DOMAIN names : \E i \in DOMAIN items :
                                               Listed(items[i]) /\ items[i].name = names[k]}
  <2> DEFINE present == Selected(names, K)
  <2> DEFINE moved == [k \in DOMAIN present |-> Keep(present[k])]
  <2> DEFINE others == Selected(items, {i \in DOMAIN items : ~Listed(items[i])})
  <2>1. ReorderClips(d, names).doc = [d EXCEPT !.spines[1].items = Relay(moved \o others)]
    BY <1>2 DEF ReorderClips, Edited
  <2>2. \A e : Listed(e) <=> IsListed(e, names)
    BY DEF IsListed
  <2>3. \A n : Keep(n) = items[Slot(items, names, n)]
    BY DEF SelectLastInSeq, Slot, Slots, IsListed
  <2>4. K = Wanted(items, names)
    BY <2>2 DEF Wanted
  <2>5. {i \in DOMAIN items : ~Listed(items[i])} = {i \in DOMAIN items : ~IsListed(items[i], names)}
    BY <2>2
  <2> HIDE DEF Listed, Keep, K
  <2>6. others = Rest(items, names)
    BY <2>5 DEF Rest
  <2>7. moved = InOrder(items, names)
    BY <2>3, <2>4 DEF InOrder
  <2> HIDE DEF moved, others
  <2> QED  BY <1>2, <2>1, <2>6, <2>7
<1> QED  BY <1>1, <1>2

(* So reordering clips with clear names keeps what plays.                  *)
LEMMA ReorderClipsCarries ==
    ASSUME NEW d, IsDocument(d), NEW names, IsSequence(names), IsInjective(names),
           d.spines # <<>> => Clear(d.spines[1].items, names)
    PROVE  Carries(d, ReorderClips(d, names).doc)
<1>1. CASE d.spines = <<>>
  BY <1>1, ReorderClipsMade, CarriesReflexive
<1>2. CASE d.spines # <<>>
  <2> DEFINE a == d.spines[1].items
  <2> DEFINE b == InOrder(a, names) \o Rest(a, names)
  <2> DEFINE c == Relay(b)
  <2>1. 1 \in DOMAIN d.spines
    BY <1>2, DocumentParts
  <2>2. IsSequence(a) /\ \A i \in DOMAIN a : IsItem(a[i])
    BY <2>1 DEF IsDocument, IsSpine
  <2>3. ReorderClips(d, names).doc = [d EXCEPT !.spines[1].items = c]
    BY <1>2, ReorderClipsMade
  <2>4. Clear(a, names)
    BY <1>2
  <2> HIDE DEF a
  <2>5. /\ IsSequence(b) /\ \A m \in DOMAIN b : \E i \in DOMAIN a : b[m] = a[i]
        /\ \E h : Rearranged(a, b, h)
    BY <2>2, <2>4, Reordered
  <2> HIDE DEF b
  <2>6. PICK h : Rearranged(a, b, h)
    BY <2>5
  <2>7. \A m \in DOMAIN b : IsItem(b[m])
    BY <2>2, <2>5
  <2>8. /\ IsSequence(c) /\ DOMAIN c = DOMAIN b
        /\ \A i \in DOMAIN b : IsItem(c[i]) /\ c[i].kids = b[i].kids
    BY <2>5, <2>7, Relaid
  <2>9. Rearranged(a, c, h)
    BY <2>5, <2>6, <2>7, RearrangedRelaid
  <2> HIDE DEF c
  <2>10. \A i \in DOMAIN c : IsItem(c[i])
    BY <2>8
  <2>11. \A r : \A t \in Int : \E g : Kept(d.spines[1].items, c, g, r, t)
    BY <2>9, RearrangedKept DEF a
  <2> DEFINE x == [d EXCEPT !.spines[1].items = c]
  <2>12. SamePlay(d, x)
    BY <2>1, <2>8, <2>10, <2>11, SpineKept
  <2>13. /\ DOMAIN x.spines = DOMAIN d.spines /\ x.spines[1].items = c
         /\ \A y \in DOMAIN d.spines : y # 1 => x.spines[y] = d.spines[y]
    BY <2>1, <2>8, <2>10, NewItems
  <2> HIDE DEF x
  <2>14. ASSUME Flat(d) PROVE Flat(x)
    <3>1. \A i \in DOMAIN a : a[i].kids = <<>>
      BY <2>1, <2>14 DEF a, Flat
    <3>2. \A i \in DOMAIN c : c[i].kids = <<>>
      BY <2>5, <2>8, <3>1
    <3> QED  BY <2>13, <2>14, <3>2 DEF Flat
  <2> QED  BY <2>3, <2>12, <2>14 DEF Carries, x
<1> QED  BY <1>1, <1>2

-----------------------------------------------------------------------------
(* Every edit makes a document again.                                      *)

(* A document with other siblings at a place is a document.                *)
LEMMA SiblingsDocument ==
    ASSUME NEW d, IsDocument(d), NEW p \in PlacesIn(d), NEW c, IsSequence(c),
           \A k \in DOMAIN c : IsElement(c[k]) /\ (p[3] = 0 => IsItem(c[k]))
    PROVE  IsDocument(WithSiblings(d, p, c)) /\ DOMAIN WithSiblings(d, p, c).spines = DOMAIN d.spines
<1>0. PICK s, i : s = p[1] /\ i = p[2]
  OBVIOUS
<1>1. s \in DOMAIN d.spines /\ i \in DOMAIN d.spines[s].items
  BY <1>0, PlaceParts
<1>2. CASE p[3] = 0
  <2>1. WithSiblings(d, p, c) = [d EXCEPT !.spines[s].items = c]
    BY <1>0, <1>2 DEF WithSiblings
  <2> QED  BY <1>1, <1>2, <2>1, NewItems
<1>3. CASE p[3] # 0
  <2> DEFINE a == d.spines[s].items
  <2> DEFINE b == [a EXCEPT ![i] = [a[i] EXCEPT !.kids = c]]
  <2>1. WithSiblings(d, p, c) = [d EXCEPT !.spines[s].items[i].kids = c]
    BY <1>0, <1>3 DEF WithSiblings
  <2>2. /\ WithSiblings(d, p, c) = [d EXCEPT !.spines[s].items = b]
        /\ IsSequence(b) /\ \A j \in DOMAIN a : IsItem(b[j])
    BY <1>1, <2>1, NewKids
  <2>3. DOMAIN b = DOMAIN a
    OBVIOUS
  <2> HIDE DEF b
  <2> QED  BY <1>1, <2>2, <2>3, NewItems
<1> QED  BY <1>2, <1>3

(* A document with one element changed is a document.                      *)
LEMMA ChangedDocument ==
    ASSUME NEW d, IsDocument(d), NEW p \in PlacesIn(d), NEW e, IsElement(e),
           p[3] = 0 => IsItem(e)
    PROVE  IsDocument(WithElement(d, p, e))
<1> DEFINE a == Siblings(d, p)
<1> DEFINE i == Position(p)
<1> DEFINE c == ReplaceAt(a, i, e)
<1>1. /\ IsSequence(a) /\ i \in DOMAIN a
      /\ \A j \in DOMAIN a : IsElement(a[j]) /\ (p[3] = 0 => IsItem(a[j]))
  BY PlaceParts
<1>2. WithElement(d, p, e) = WithSiblings(d, p, c)
  BY DEF WithElement
<1> HIDE DEF a, i
<1>3. IsSequence(c) /\ DOMAIN c = DOMAIN a /\ c[i] = e /\ \A j \in DOMAIN a : j # i => c[j] = a[j]
  BY <1>1, Replacing DEF ReplaceAt
<1> HIDE DEF c
<1>4. \A k \in DOMAIN c : IsElement(c[k]) /\ (p[3] = 0 => IsItem(c[k]))
  BY <1>1, <1>3
<1> QED  BY <1>2, <1>3, <1>4, SiblingsDocument

(* A document with one element inserted is a document.                     *)
LEMMA InsertedDocument ==
    ASSUME NEW d, IsDocument(d), NEW p \in PlacesIn(d), NEW e, IsElement(e),
           p[3] = 0 => IsItem(e)
    PROVE  IsDocument(InsertAfter(d, p, e)) /\ DOMAIN InsertAfter(d, p, e).spines = DOMAIN d.spines
<1> DEFINE a == Siblings(d, p)
<1> DEFINE i == Position(p)
<1> DEFINE c == InsertAt(a, i + 1, e)
<1>1. /\ IsSequence(a) /\ i \in DOMAIN a
      /\ \A j \in DOMAIN a : IsElement(a[j]) /\ (p[3] = 0 => IsItem(a[j]))
  BY PlaceParts
<1>2. InsertAfter(d, p, e) = WithSiblings(d, p, c)
  BY DEF InsertAfter
<1> HIDE DEF a, i
<1>3. IsSequence(c) /\ \A k \in DOMAIN c : c[k] = e \/ \E j \in DOMAIN a : c[k] = a[j]
  BY <1>1, Inserting, InsertedMember
<1> HIDE DEF c
<1>4. \A k \in DOMAIN c : IsElement(c[k]) /\ (p[3] = 0 => IsItem(c[k]))
  BY <1>1, <1>3
<1> QED  BY <1>2, <1>3, <1>4, SiblingsDocument

(* The two parts a split makes of a clip. *)
FirstPart(e, at) == [e EXCEPT !.dur = at]

SecondPart(e, name, at) ==
    [e EXCEPT !.start = @ + at, !.dur = @ - at, !.off = @ + at,
              !.name = Append(name, "split"), !.notes = <<>>]

(* What the halves of a split are.                                         *)
LEMMA SplitParts ==
    ASSUME NEW e, IsElement(e), NEW name, NEW at \in Int
    PROVE  LET first  == FirstPart(e, at)
               second == SecondPart(e, name, at)
           IN  /\ IsElement(first) /\ first.kids = e.kids /\ first.tag = e.tag /\ first.ref = e.ref
               /\ first.start = e.start /\ first.dur = at /\ first.name = e.name
               /\ IsElement(second) /\ second.kids = e.kids /\ second.tag = e.tag /\ second.ref = e.ref
               /\ second.start = e.start + at /\ second.dur = e.dur - at
               /\ second.name = Append(name, "split")
<1> DEFINE first == FirstPart(e, at)
<1> DEFINE second == SecondPart(e, name, at)
<1>1. /\ IsElement(first) /\ first.kids = e.kids /\ first.tag = e.tag /\ first.ref = e.ref
      /\ first.start = e.start /\ first.dur = at /\ first.name = e.name
  BY DEF IsElement, FirstPart
<1>2. /\ IsElement(second) /\ second.kids = e.kids /\ second.tag = e.tag /\ second.ref = e.ref
      /\ second.start = e.start + at /\ second.dur = e.dur - at
      /\ second.name = Append(name, "split")
  <2> DEFINE start == e.start + at
  <2> DEFINE dur == e.dur - at
  <2> DEFINE off == e.off + at
  <2> DEFINE new == Append(name, "split")
  <2>1. start \in Int /\ dur \in Int
    BY DEF IsElement
  <2> DEFINE e1 == [e EXCEPT !.start = start]
  <2> DEFINE e2 == [e1 EXCEPT !.dur = dur]
  <2> DEFINE e3 == [e2 EXCEPT !.off = off]
  <2> DEFINE e4 == [e3 EXCEPT !.name = new]
  <2> DEFINE e5 == [e4 EXCEPT !.notes = <<>>]
  <2>2. second = e5
    BY DEF SecondPart
  <2>3. start = e.start + at /\ dur = e.dur - at /\ new = Append(name, "split")
    OBVIOUS
  <2> HIDE DEF start, dur, off, new, second
  <2>4. e1 = [tag |-> e.tag, name |-> e.name, ref |-> e.ref, start |-> start, off |-> e.off,
              dur |-> e.dur, role |-> e.role, notes |-> e.notes, remap |-> e.remap,
              kids |-> e.kids]
    BY DEF IsElement
  <2> HIDE DEF e1
  <2>5. e2 = [tag |-> e.tag, name |-> e.name, ref |-> e.ref, start |-> start, off |-> e.off,
              dur |-> dur, role |-> e.role, notes |-> e.notes, remap |-> e.remap,
              kids |-> e.kids]
    BY <2>4
  <2> HIDE DEF e2
  <2>6. e3 = [tag |-> e.tag, name |-> e.name, ref |-> e.ref, start |-> start, off |-> off,
              dur |-> dur, role |-> e.role, notes |-> e.notes, remap |-> e.remap,
              kids |-> e.kids]
    BY <2>5
  <2> HIDE DEF e3
  <2>7. e4 = [tag |-> e.tag, name |-> new, ref |-> e.ref, start |-> start, off |-> off,
              dur |-> dur, role |-> e.role, notes |-> e.notes, remap |-> e.remap,
              kids |-> e.kids]
    BY <2>6
  <2> HIDE DEF e4
  <2>8. e5 = [tag |-> e.tag, name |-> new, ref |-> e.ref, start |-> start, off |-> off,
              dur |-> dur, role |-> e.role, notes |-> <<>>, remap |-> e.remap,
              kids |-> e.kids]
    BY <2>7
  <2> HIDE DEF e5
  <2>9. /\ IsElement(e5) /\ e5.kids = e.kids /\ e5.tag = e.tag /\ e5.ref = e.ref
        /\ e5.start = start /\ e5.dur = dur /\ e5.name = new
    BY <2>1, <2>8, NoMembers DEF IsElement
  <2> QED  BY <2>2, <2>3, <2>9
<1> HIDE DEF first, second
<1>3. first = FirstPart(e, at) /\ second = SecondPart(e, name, at)
  BY DEF first, second
<1> QED  BY <1>1, <1>2, <1>3

(* What a split that fits makes of a document.                             *)
LEMMA SplitMade ==
    ASSUME NEW d, NEW name, NEW at, SplitFits(d, name, at)
    PROVE  LET p == Find(d, name)
               e == ElementAt(d, p)
           IN  SplitClip(d, name, at).doc =
                  InsertAfter(WithElement(d, p, FirstPart(e, at)), p, SecondPart(e, name, at))
BY DEF SplitClip, Edited, FirstPart, SecondPart

(* What EditClip does where the clip is found; where it is not, nothing. *)
LEMMA EditedDocument ==
    ASSUME NEW d, IsDocument(d), NEW name, NEW new,
           LET e == ElementAt(d, Find(d, name))
           IN  IsElement(e) => IsElement(new) /\ new.kids = e.kids
    PROVE  Found(d, name) => IsDocument(WithElement(d, Find(d, name), new))
<1> SUFFICES ASSUME Found(d, name) PROVE IsDocument(WithElement(d, Find(d, name), new))
  OBVIOUS
<1> DEFINE p == Find(d, name)
<1> DEFINE e == ElementAt(d, p)
<1>1. p \in PlacesIn(d)
  BY FoundPlace
<1>2. IsElement(e) /\ (p[3] = 0 => IsItem(e))
  BY <1>1, PlaceParts
<1>3. IsElement(new) /\ new.kids = e.kids
  BY <1>2
<1>4. p[3] = 0 => IsItem(new)
  BY <1>2, <1>3 DEF IsItem
<1> HIDE DEF p, e
<1> QED  BY <1>1, <1>3, <1>4, ChangedDocument DEF p

(* A speed that is positive makes a number of a number.                    *)
LEMMA ScaledNumber ==
    ASSUME NEW n \in Int, NEW speed, speed[1] \in Nat \ {0}, speed[2] \in Nat \ {0}
    PROVE  Scaled(n, speed) \in Int
<1> DEFINE twice == 2 * n * speed[2]
<1> DEFINE m == 2 * speed[1]
<1> DEFINE down == twice \div m
<1>1. twice \in Int /\ m \in Nat \ {0}
  OBVIOUS
<1>2. \/ Scaled(n, speed) = down \/ Scaled(n, speed) = down + 1
  BY DEF Scaled
<1> HIDE DEF twice, m
<1>3. down \in Int
  BY <1>1
<1> HIDE DEF down
<1> QED  BY <1>2, <1>3

(* An element with another duration and another time map. *)
Sped(e, long, map) == [e EXCEPT !.dur = long, !.remap = map]

(* What it is.                                                             *)
LEMMA SpedElement ==
    ASSUME NEW e, IsElement(e), NEW long \in Int, NEW map
    PROVE  LET new == Sped(e, long, map)
           IN  /\ IsElement(new) /\ new.kids = e.kids /\ new.name = e.name /\ new.tag = e.tag
               /\ new.dur = long /\ new.remap = map
<1> DEFINE e1 == [e EXCEPT !.dur = long]
<1> DEFINE e2 == [e1 EXCEPT !.remap = map]
<1>1. /\ IsElement(e1) /\ e1.kids = e.kids /\ e1.name = e.name /\ e1.tag = e.tag
      /\ e1.dur = long
  BY DEF IsElement
<1> HIDE DEF e1
<1>2. /\ IsElement(e2) /\ e2.kids = e1.kids /\ e2.name = e1.name /\ e2.tag = e1.tag
      /\ e2.dur = e1.dur /\ e2.remap = map
  BY <1>1 DEF IsElement
<1> QED  BY <1>1, <1>2 DEF e1, Sped

(* A speed that is positive makes a document.                              *)
LEMMA SpeedDocument ==
    ASSUME NEW d, IsDocument(d), NEW name, NEW speed,
           speed[1] \in Nat \ {0}, speed[2] \in Nat \ {0}
    PROVE  IsDocument(ChangeSpeed(d, name, speed).doc)
<1> DEFINE p == Find(d, name)
<1> DEFINE e == ElementAt(d, p)
<1>1. CASE p = NoPlace
  BY <1>1 DEF ChangeSpeed, EditClip, Edited
<1>2. CASE p # NoPlace
  <2>1. PICK long, map : long = Scaled(e.dur, speed) /\ map = <<long, e.dur>>
    OBVIOUS
  <2> DEFINE new == Sped(e, long, map)
  <2>2. ChangeSpeed(d, name, speed).doc = WithElement(d, p, new)
    BY <1>2, <2>1 DEF ChangeSpeed, EditClip, Edited, Sped
  <2>3. ASSUME IsElement(e) PROVE IsElement(new) /\ new.kids = e.kids
    <3>1. long \in Int
      BY <2>1, <2>3, ScaledNumber DEF IsElement
    <3> HIDE DEF e
    <3> QED  BY <2>3, <3>1, SpedElement
  <2> HIDE DEF new
  <2>4. IsDocument(WithElement(d, p, new))
    BY <1>2, <2>3, EditedDocument DEF Found
  <2> QED  BY <2>2, <2>4
<1> QED  BY <1>1, <1>2

(* Replacing a member that is not there changes nothing.                   *)
LEMMA OutsideSequence ==
    ASSUME NEW s, IsSequence(s), NEW i, i \notin DOMAIN s, NEW v
    PROVE  [s EXCEPT ![i] = v] = s
<1>1. PICK T : s \in Seq(T)
  BY DEF IsSequence
<1>2. s \in [1..Len(s) -> T]
  BY <1>1
<1>3. s = [j \in DOMAIN s |-> s[j]]
  BY <1>2
<1> QED  BY <1>3

(* An element with another start and another duration.                     *)
LEMMA TrimmedElement ==
    ASSUME NEW e, IsElement(e), NEW from \in Int, NEW long \in Int
    PROVE  LET new == [e EXCEPT !.start = from, !.dur = long]
           IN  IsElement(new) /\ new.kids = e.kids /\ new.name = e.name /\ new.tag = e.tag
<1> DEFINE e1 == [e EXCEPT !.start = from]
<1> DEFINE e2 == [e1 EXCEPT !.dur = long]
<1>1. IsElement(e1) /\ e1.kids = e.kids /\ e1.name = e.name /\ e1.tag = e.tag
  BY DEF IsElement
<1> HIDE DEF e1
<1>2. IsElement(e2) /\ e2.kids = e1.kids /\ e2.name = e1.name /\ e2.tag = e1.tag
  BY <1>1 DEF IsElement
<1> QED  BY <1>1, <1>2 DEF e1

(* The duration a sequence declares is no part of its items.               *)
LEMMA Synced ==
    ASSUME NEW x, IsDocument(x), NEW p
    PROVE  LET y == SyncDuration(x, p)
           IN  /\ IsDocument(y) /\ DOMAIN y.spines = DOMAIN x.spines
               /\ \A s \in DOMAIN x.spines : y.spines[s].items = x.spines[s].items
<1>1. CASE p[3] # 0 \/ p[1] \notin DOMAIN x.spines
  <2>1. CASE p[3] # 0
    BY <2>1 DEF SyncDuration
  <2>2. CASE p[3] = 0 /\ p[1] \notin DOMAIN x.spines
    <3> DEFINE z == x.spines
    <3> DEFINE v == [z[p[1]] EXCEPT !.dur = StorylineDuration(z[p[1]])]
    <3> DEFINE y == [x EXCEPT !.spines = [z EXCEPT ![p[1]] = v]]
    <3>1. SyncDuration(x, p) = y
      BY <2>2 DEF SyncDuration
    <3>2. [z EXCEPT ![p[1]] = v] = z
      <4> HIDE DEF v
      <4> QED  BY <2>2, OutsideSequence DEF IsDocument
    <3>3. y = x
      <4> HIDE DEF v
      <4> QED  BY <3>2 DEF IsDocument
    <3> QED  BY <3>1, <3>3
  <2> QED  BY <1>1, <2>1, <2>2
<1>2. CASE p[3] = 0 /\ p[1] \in DOMAIN x.spines
  <2>0. PICK s, n, sp : /\ s = p[1] /\ n = StorylineDuration(x.spines[p[1]])
                        /\ sp = [x.spines[p[1]] EXCEPT !.dur = n]
    OBVIOUS
  <2>1. PICK q : q = [x.spines EXCEPT ![s] = sp]
    OBVIOUS
  <2> DEFINE y == [x EXCEPT !.spines = q]
  <2>2. SyncDuration(x, p) = y
    BY <1>2, <2>0, <2>1 DEF SyncDuration
  <2>3. /\ y = [spines |-> q, labels |-> x.labels, format |-> x.format]
        /\ IsSequence(x.spines) /\ s \in DOMAIN x.spines
    BY <1>2, <2>0 DEF IsDocument
  <2> HIDE DEF y
  <2>4. IsSequence(q) /\ DOMAIN q = DOMAIN x.spines /\ q[s] = sp
        /\ \A j \in DOMAIN x.spines : j # s => q[j] = x.spines[j]
    BY <2>1, <2>3, Replacing
  <2>5. IsSpine(x.spines[s])
    BY <2>3 DEF IsDocument
  <2>6. sp = [tc |-> x.spines[s].tc, dur |-> n, items |-> x.spines[s].items]
    BY <2>0, <2>5 DEF IsSpine
  <2>7. IsSpine(sp) /\ sp.items = x.spines[s].items
    BY <2>5, <2>6 DEF IsSpine
  <2>8. IsDocument(y)
    BY <2>3, <2>4, <2>7 DEF IsDocument
  <2> QED  BY <2>2, <2>3, <2>4, <2>7, <2>8
<1> QED  BY <1>1, <1>2

(* Trimming to numbers makes a document.                                   *)
LEMMA TrimDocument ==
    ASSUME NEW d, IsDocument(d), NEW name, NEW start, NEW dur,
           \A x \in Int : Given(start, x) \in Int /\ Given(dur, x) \in Int
    PROVE  IsDocument(TrimClip(d, name, start, dur).doc)
<1> DEFINE p == Find(d, name)
<1> DEFINE e == ElementAt(d, p)
<1> DEFINE from == Given(start, e.start)
<1> DEFINE long == Given(dur, e.dur)
<1> DEFINE new == [e EXCEPT !.start = from, !.dur = long]
<1>1. CASE p = NoPlace
  BY <1>1 DEF TrimClip, EditClip, Edited
<1>2. CASE p # NoPlace
  <2>1. PICK x : x = WithElement(d, p, new)
    OBVIOUS
  <2>2. \/ TrimClip(d, name, start, dur).doc = x
        \/ TrimClip(d, name, start, dur).doc = SyncDuration(x, p)
    BY <1>2, <2>1 DEF TrimClip, EditClip, Edited
  <2>3. ASSUME IsElement(e) PROVE IsElement(new) /\ new.kids = e.kids
    <3>1. from \in Int /\ long \in Int
      BY <2>3 DEF IsElement
    <3> HIDE DEF from, long, e
    <3> QED  BY <2>3, <3>1, TrimmedElement
  <2> HIDE DEF new
  <2>4. IsDocument(x)
    BY <1>2, <2>1, <2>3, EditedDocument DEF Found
  <2> QED  BY <2>2, <2>4, Synced
<1> QED  BY <1>1, <1>2

(* The clip and its remainder, among their siblings.                       *)
LEMMA SplitSiblings ==
    ASSUME NEW d, IsDocument(d), NEW name, NEW at \in Int, SplitFits(d, name, at),
           NEW p, p = Find(d, name), NEW e, e = ElementAt(d, p), NEW i, i = Position(p)
    PROVE  /\ p \in PlacesIn(d)
           /\ \E c : /\ SplitClip(d, name, at).doc = WithSiblings(d, p, c)
                    /\ IsSequence(c) /\ i \in DOMAIN c /\ i + 1 \in DOMAIN c
                    /\ c[i] = FirstPart(e, at) /\ c[i + 1] = SecondPart(e, name, at)
                    /\ \A k \in DOMAIN c : IsElement(c[k]) /\ (p[3] = 0 => IsItem(c[k]))
<1>1. PICK first, second : first = FirstPart(e, at) /\ second = SecondPart(e, name, at)
  OBVIOUS
<1>2. SplitClip(d, name, at).doc = InsertAfter(WithElement(d, p, first), p, second)
  BY <1>1, SplitMade
<1>3. p \in PlacesIn(d)
  BY FoundPlace DEF SplitFits
<1>4. IsElement(e) /\ (p[3] = 0 => IsItem(e))
  BY <1>3, PlaceParts
<1>5. PICK a : a = Siblings(d, p)
  OBVIOUS
<1>6. /\ IsSequence(a) /\ i \in DOMAIN a /\ a[i] = e
      /\ \A j \in DOMAIN a : IsElement(a[j]) /\ (p[3] = 0 => IsItem(a[j]))
  BY <1>3, <1>5, PlaceParts
<1>7. IsElement(first) /\ first.kids = e.kids /\ IsElement(second) /\ second.kids = e.kids
  BY <1>1, <1>4, SplitParts
<1>8. p[3] = 0 => IsItem(first) /\ IsItem(second)
  BY <1>4, <1>7 DEF IsItem
<1>9. PICK b : b = ReplaceAt(a, i, first)
  OBVIOUS
<1>10. PICK c : c = InsertAt(b, i + 1, second)
  OBVIOUS
<1>11. InsertAfter(WithElement(d, p, first), p, second) = WithSiblings(d, p, c)
  <2>1. WithElement(d, p, first) = WithSiblings(d, p, b)
    BY <1>5, <1>9 DEF WithElement
  <2>2. Siblings(WithSiblings(d, p, b), p) = b
    BY <1>3, SiblingsTwice
  <2>3. InsertAfter(WithSiblings(d, p, b), p, second) = WithSiblings(WithSiblings(d, p, b), p, c)
    BY <1>10, <2>2 DEF InsertAfter
  <2>4. WithSiblings(WithSiblings(d, p, b), p, c) = WithSiblings(d, p, c)
    BY <1>3, SiblingsTwice
  <2> QED  BY <2>1, <2>3, <2>4
<1>12. IsSequence(b) /\ DOMAIN b = DOMAIN a /\ b[i] = first /\ \A j \in DOMAIN a : j # i => b[j] = a[j]
  BY <1>6, <1>9, Replacing DEF ReplaceAt
<1>13. /\ IsSequence(c) /\ DOMAIN c = 1..(Len(b) + 1) /\ c[i + 1] = second
       /\ \A j \in 1..i : c[j] = b[j]
       /\ \A k \in DOMAIN c : c[k] = second \/ \E j \in DOMAIN b : c[k] = b[j]
  BY <1>6, <1>10, <1>12, Inserting, InsertedMember
<1>14. \A k \in DOMAIN c : IsElement(c[k]) /\ (p[3] = 0 => IsItem(c[k]))
  BY <1>6, <1>7, <1>8, <1>12, <1>13
<1>15. i \in DOMAIN c /\ i + 1 \in DOMAIN c /\ c[i] = first
  <2>1. Len(b) \in Nat /\ DOMAIN b = 1..Len(b) /\ i \in DOMAIN b
    BY <1>6, <1>12, Sequences
  <2> QED  BY <1>12, <1>13, <2>1
<1> QED  BY <1>1, <1>2, <1>3, <1>11, <1>13, <1>14, <1>15

(* Splitting at a number makes a document.                                 *)
LEMMA SplitDocument ==
    ASSUME NEW d, IsDocument(d), NEW name, NEW at \in Int
    PROVE  IsDocument(SplitClip(d, name, at).doc)
<1>1. CASE ~SplitFits(d, name, at)
  BY <1>1 DEF SplitClip, Edited
<1>2. CASE SplitFits(d, name, at)
  <2>1. PICK p : p = Find(d, name)
    OBVIOUS
  <2>2. PICK c : /\ SplitClip(d, name, at).doc = WithSiblings(d, p, c) /\ p \in PlacesIn(d)
                 /\ IsSequence(c)
                 /\ \A k \in DOMAIN c : IsElement(c[k]) /\ (p[3] = 0 => IsItem(c[k]))
    BY <1>2, <2>1, SplitSiblings
  <2> QED  BY <2>2, SiblingsDocument
<1> QED  BY <1>1, <1>2

(* A sequence with one member removed: where the others are.               *)
LEMMA RemovedIndex ==
    ASSUME NEW s, IsSequence(s), NEW i \in DOMAIN s
    PROVE  LET c == RemoveAt(s, i)
           IN  /\ IsSequence(c) /\ DOMAIN c = 1..(Len(s) - 1)
               /\ \A j \in DOMAIN c : c[j] = IF j < i THEN s[j] ELSE s[j + 1]
<1>1. PICK n \in Nat : Len(s) = n /\ DOMAIN s = 1..n
  BY Sequences
<1>2. PICK T : s \in Seq(T)
  BY DEF IsSequence
<1>3. i \in 1..n /\ i - 1 \in Int /\ i + 1 \in Int
  BY <1>1
<1> DEFINE a == SubSeq(s, 1, i - 1)
<1> DEFINE b == SubSeq(s, i + 1, n)
<1>4. a \in Seq(T) /\ Len(a) = i - 1 /\ \A j \in 1..(i - 1) : a[j] = s[j]
  BY <1>1, <1>2, <1>3
<1>5. b \in Seq(T) /\ Len(b) = n - i /\ \A j \in 1..(n - i) : b[j] = s[i + j]
  BY <1>1, <1>2, <1>3
<1> DEFINE c == a \o b
<1>6. RemoveAt(s, i) = c
  BY <1>1 DEF RemoveAt
<1> HIDE DEF a, b
<1>7. /\ c \in Seq(T) /\ Len(c) = Len(a) + Len(b)
      /\ \A j \in 1..Len(a) : c[j] = a[j]
      /\ \A j \in 1..Len(b) : c[Len(a) + j] = b[j]
  <2>1. a \in Seq(T) /\ b \in Seq(T)
    BY <1>4, <1>5
  <2> QED  BY <2>1, Concatenated
<1> HIDE DEF c
<1>8. DOMAIN c = 1..(n - 1)
  BY <1>3, <1>4, <1>5, <1>7
<1>9. ASSUME NEW j \in DOMAIN c PROVE c[j] = IF j < i THEN s[j] ELSE s[j + 1]
  <2>1. CASE j < i
    <3>1. j \in 1..(i - 1)
      BY <1>3, <1>8, <2>1
    <3> QED  BY <1>4, <1>7, <2>1, <3>1
  <2>2. CASE j >= i
    <3>1. PICK k \in 1..(n - i) : k = j - i + 1
      BY <1>3, <1>8, <2>2
    <3>2. (i - 1) + k = j /\ i + k = j + 1 /\ ~(j < i)
      BY SMTT(30), <1>3, <1>8, <2>2, <3>1
    <3>3. c[j] = b[k] /\ b[k] = s[j + 1]
      BY <1>4, <1>5, <1>7, <3>1, <3>2
    <3> QED  BY <3>2, <3>3
  <2> QED  BY <1>3, <1>8, <2>1, <2>2
<1> QED  BY <1>1, <1>6, <1>7, <1>8, <1>9, SequenceOf

(* Deleting a clip makes a document.                                       *)
LEMMA DeleteDocument ==
    ASSUME NEW d, IsDocument(d), NEW name
    PROVE  IsDocument(DeleteClip(d, name).doc)
<1> DEFINE p == Find(d, name)
<1> DEFINE a == Siblings(d, p)
<1> DEFINE c == RemoveAt(a, Position(p))
<1>1. CASE p = NoPlace
  BY <1>1 DEF DeleteClip, Edited
<1>2. CASE p # NoPlace
  <2>1. DeleteClip(d, name).doc = WithSiblings(d, p, c)
    BY <1>2 DEF DeleteClip, Edited
  <2>2. p \in PlacesIn(d)
    BY <1>2, FoundPlace DEF Found
  <2>3. /\ IsSequence(a) /\ Position(p) \in DOMAIN a
        /\ \A j \in DOMAIN a : IsElement(a[j]) /\ (p[3] = 0 => IsItem(a[j]))
    BY <2>2, PlaceParts
  <2> HIDE DEF a, p
  <2>4. IsSequence(c) /\ \A k \in DOMAIN c : \E j \in DOMAIN a : c[k] = a[j]
    <3>1. /\ IsSequence(c) /\ DOMAIN c = 1..(Len(a) - 1)
          /\ \A j \in DOMAIN c : c[j] = IF j < Position(p) THEN a[j] ELSE a[j + 1]
      BY <2>3, RemovedIndex
    <3>2. Len(a) \in Nat /\ DOMAIN a = 1..Len(a)
      BY <2>3, Sequences
    <3> QED  BY <3>1, <3>2
  <2> HIDE DEF c
  <2>5. \A k \in DOMAIN c : IsElement(c[k]) /\ (p[3] = 0 => IsItem(c[k]))
    BY <2>3, <2>4
  <2> QED  BY <2>1, <2>2, <2>4, <2>5, SiblingsDocument
<1> QED  BY <1>1, <1>2

(* The documents of the deletions, one after the other. *)
LEMMA DeletesInTurn ==
    ASSUME NEW d, NEW names, Len(names) \in Nat
    PROVE  \E D : /\ D[0] = d /\ D[Len(names)] = DeleteClips(d, names).doc
                 /\ \A n \in Nat : n + 1 \in 0..Len(names) => D[n + 1] = DeleteClip(D[n], names[n + 1]).doc
<1> DEFINE N == Len(names)
<1> DEFINE G(acc, k) == LET r == DeleteClip(acc.doc, names[k])
                        IN  Edited(r.doc, acc.n + r.n)
<1> DEFINE P(n) == \E f : f = [k \in 0..n |-> IF k = 0 THEN Edited(d, 0) ELSE G(f[k - 1], k)]
<1> DEFINE F == CHOOSE f : f = [k \in 0..N |-> IF k = 0 THEN Edited(d, 0) ELSE G(f[k - 1], k)]
<1>1. DeleteClips(d, names) = F[N]
  BY DEF DeleteClips
<1> HIDE DEF G
<1>2. P(N)
  <2> DEFINE S == {n \in Nat : P(n)}
  <2>1. 0 \in S
    <3> DEFINE g == [k \in 0..0 |-> Edited(d, 0)]
    <3>1. g = [k \in 0..0 |-> IF k = 0 THEN Edited(d, 0) ELSE G(g[k - 1], k)]
      OBVIOUS
    <3>2. P(0)
      BY <3>1
    <3> QED  BY <3>2
  <2>2. ASSUME NEW n \in S PROVE n + 1 \in S
    <3>1. PICK f : f = [k \in 0..n |-> IF k = 0 THEN Edited(d, 0) ELSE G(f[k - 1], k)]
      OBVIOUS
    <3>0. n \in Nat
      OBVIOUS
    <3> DEFINE g == [k \in 0..(n + 1) |-> IF k = 0 THEN Edited(d, 0) ELSE G(f[k - 1], k)]
    <3>2. ASSUME NEW k \in 0..n PROVE g[k] = f[k]
      <4>1. k \in 0..(n + 1)
        BY <3>0
      <4>2. g[k] = IF k = 0 THEN Edited(d, 0) ELSE G(f[k - 1], k)
        BY <4>1
      <4> HIDE DEF g
      <4> QED  BY <3>1, <4>2
    <3>3. \A k \in 0..(n + 1) : k # 0 => k - 1 \in 0..n
      BY <3>0
    <3>4. g = [k \in 0..(n + 1) |-> IF k = 0 THEN Edited(d, 0) ELSE G(g[k - 1], k)]
      <4>1. \A k \in 0..(n + 1) : k # 0 => g[k - 1] = f[k - 1]
        BY <3>2, <3>3
      <4> DEFINE y == g
      <4>2. \A k \in 0..(n + 1) : k # 0 => G(f[k - 1], k) = G(y[k - 1], k)
        BY <4>1
      <4> HIDE DEF y
      <4>3. g = [k \in 0..(n + 1) |-> IF k = 0 THEN Edited(d, 0) ELSE G(y[k - 1], k)]
        BY <4>2
      <4> QED  BY <4>3 DEF y
    <3> HIDE DEF g
    <3>5. P(n + 1)
      BY <3>4
    <3> HIDE DEF P
    <3> QED  BY <3>0, <3>5
  <2> HIDE DEF S
  <2>3. S \in SUBSET Nat
    BY DEF S
  <2>4. S = Nat
    BY <2>1, <2>2, <2>3, Counting
  <2> QED  BY <2>4 DEF S
<1>3. F = [k \in 0..N |-> IF k = 0 THEN Edited(d, 0) ELSE G(F[k - 1], k)]
  BY <1>2
<1> HIDE DEF F, P, N
<1>4. N \in Nat
  BY DEF N
<1>5. \A k \in 0..N : F[k] = IF k = 0 THEN Edited(d, 0) ELSE G(F[k - 1], k)
  BY <1>3
<1> DEFINE D == [k \in 0..N |-> F[k].doc]
<1>6. 0 \in 0..N /\ N \in 0..N
  BY <1>4
<1>7. D[0] = d /\ D[N] = F[N].doc
  BY <1>5, <1>6 DEF Edited
<1>8. ASSUME NEW n \in Nat, n + 1 \in 0..N
      PROVE  D[n + 1] = DeleteClip(D[n], names[n + 1]).doc
  <2>1. n \in 0..N /\ n + 1 # 0 /\ (n + 1) - 1 = n
    BY <1>4, <1>8
  <2>2. F[n + 1] = G(F[n], n + 1)
    BY <1>5, <1>8, <2>1
  <2>3. F[n + 1].doc = DeleteClip(F[n].doc, names[n + 1]).doc
    BY <2>2 DEF G, Edited
  <2> QED  BY <1>8, <2>1, <2>3
<1> HIDE DEF D
<1> QED  BY <1>1, <1>7, <1>8 DEF N

(* Deleting clips one after the other makes a document.                    *)
LEMMA DeletesDocument ==
    ASSUME NEW d, IsDocument(d), NEW names, Len(names) \in Nat
    PROVE  IsDocument(DeleteClips(d, names).doc)
<1>1. PICK N \in Nat : N = Len(names)
  OBVIOUS
<1>2. PICK D : /\ D[0] = d /\ D[N] = DeleteClips(d, names).doc
               /\ \A n \in Nat : n + 1 \in 0..N => D[n + 1] = DeleteClip(D[n], names[n + 1]).doc
  BY <1>1, DeletesInTurn
<1> DEFINE S == {n \in Nat : n \in 0..N => IsDocument(D[n])}
<1>3. 0 \in S
  BY <1>2
<1>4. ASSUME NEW n \in S PROVE n + 1 \in S
  <2>0. n \in Nat
    OBVIOUS
  <2> SUFFICES ASSUME n + 1 \in 0..N PROVE IsDocument(D[n + 1])
    BY <2>0
  <2>1. n \in 0..N
    BY <2>0
  <2>2. IsDocument(D[n])
    BY <2>1
  <2> QED  BY <1>2, <2>0, <2>2, DeleteDocument
<1> HIDE DEF S
<1>5. S \in SUBSET Nat
  BY DEF S
<1>6. N \in S /\ N \in 0..N
  <2>1. S = Nat
    BY <1>3, <1>4, <1>5, Counting
  <2> QED  BY <2>1
<1> QED  BY <1>2, <1>6 DEF S

(* The primary spine laid again. *)
LEMMA PrimaryLaidAgain ==
    ASSUME NEW d, IsDocument(d), d.spines # <<>>,
           NEW c, IsSequence(c), \A i \in DOMAIN c : IsItem(c[i])
    PROVE  IsDocument([d EXCEPT !.spines[1].items = Relay(c)])
<1> DEFINE r == Relay(c)
<1>1. IsSequence(r) /\ \A i \in DOMAIN r : IsItem(r[i])
  BY Relaid
<1> HIDE DEF r
<1>2. 1 \in DOMAIN d.spines
  BY DocumentParts
<1>3. IsDocument([d EXCEPT !.spines[1].items = r])
  BY <1>1, <1>2, NewItems
<1> QED  BY <1>3 DEF r

(* Adding an item to the primary spine makes a document.                   *)
LEMMA AddElementDocument ==
    ASSUME NEW d, IsDocument(d), NEW side \in {"start", "end", "after"}, NEW name,
           NEW e, IsItem(e)
    PROVE  IsDocument(AddElement(d, side, name, e).doc)
<1> DEFINE a == d.spines[1].items
<1> DEFINE first == [d EXCEPT !.spines[1].items = <<e>> \o a]
<1> DEFINE last == [d EXCEPT !.spines[1].items = Append(a, e)]
<1> DEFINE next == InsertAfter(d, Find(d, name), e)
<1> DEFINE none == d.spines = <<>> \/ (side = "after" /\ ~Found(d, name))
<1>1. CASE none
  BY <1>1 DEF AddElement, Edited
<1>2. CASE ~none
  <2>0. 1 \in DOMAIN d.spines
    BY <1>2, DocumentParts
  <2>1. IsSequence(a) /\ \A i \in DOMAIN a : IsItem(a[i])
    BY <2>0 DEF IsDocument, IsSpine
  <2> DEFINE T == {x \in ToSet(a) \cup {e} : IsItem(x)}
  <2>2. a \in Seq(T) /\ <<e>> \in Seq(T)
    <3>1. \A x \in ToSet(a) : IsItem(x)
      BY <2>1 DEF ToSet
    <3>2. ToSet(a) \subseteq T /\ e \in T
      BY <3>1
    <3>3. a \in Seq(ToSet(a))
      BY <2>1 DEF IsSequence
    <3> HIDE DEF T, a
    <3> QED  BY <3>2, <3>3
  <2>3. \A x \in T : IsItem(x)
    OBVIOUS
  <2>4. ASSUME NEW c \in Seq(T) PROVE IsSequence(c) /\ \A i \in DOMAIN c : IsItem(c[i])
    <3> HIDE DEF T
    <3>1. \A i \in DOMAIN c : c[i] \in T
      OBVIOUS
    <3> QED  BY <2>3, <3>1, SequenceOf
  <2> HIDE DEF T
  <2>5. CASE side = "start"
    <3> DEFINE c == <<e>> \o a
    <3>1. AddElement(d, side, name, e).doc = [first EXCEPT !.spines[1].items = Relay(@)]
      BY <1>2, <2>5 DEF AddElement, Edited
    <3>2. c \in Seq(T)
      BY <2>2, Concatenated
    <3> HIDE DEF c
    <3>3. IsSequence(c) /\ \A i \in DOMAIN c : IsItem(c[i])
      BY <2>4, <3>2
    <3> DEFINE x == [d EXCEPT !.spines[1].items = c]
    <3>4. first = x
      BY DEF c
    <3>5. IsDocument(x) /\ x.spines[1].items = c /\ DOMAIN x.spines = DOMAIN d.spines
      BY <2>0, <3>3, NewItems
    <3> HIDE DEF first, x, a
    <3>6. x.spines # <<>>
      BY <2>0, <3>5
    <3>7. IsDocument([x EXCEPT !.spines[1].items = Relay(c)])
      BY <3>3, <3>5, <3>6, PrimaryLaidAgain
    <3>8. [x EXCEPT !.spines[1].items = Relay(@)] = [x EXCEPT !.spines[1].items = Relay(c)]
      BY <3>5
    <3> QED  BY <3>1, <3>4, <3>7, <3>8
  <2>6. CASE side = "end"
    <3> DEFINE c == Append(a, e)
    <3>1. AddElement(d, side, name, e).doc = [last EXCEPT !.spines[1].items = Relay(@)]
      BY <1>2, <2>6 DEF AddElement, Edited
    <3>2. c \in Seq(T)
      <4>1. e \in T
        BY DEF T
      <4> HIDE DEF a
      <4> QED  BY <2>2, <4>1
    <3> HIDE DEF c
    <3>3. IsSequence(c) /\ \A i \in DOMAIN c : IsItem(c[i])
      BY <2>4, <3>2
    <3> DEFINE x == [d EXCEPT !.spines[1].items = c]
    <3>4. last = x
      BY DEF c
    <3>5. IsDocument(x) /\ x.spines[1].items = c /\ DOMAIN x.spines = DOMAIN d.spines
      BY <2>0, <3>3, NewItems
    <3> HIDE DEF last, x, a
    <3>6. x.spines # <<>>
      BY <2>0, <3>5
    <3>7. IsDocument([x EXCEPT !.spines[1].items = Relay(c)])
      BY <3>3, <3>5, <3>6, PrimaryLaidAgain
    <3>8. [x EXCEPT !.spines[1].items = Relay(@)] = [x EXCEPT !.spines[1].items = Relay(c)]
      BY <3>5
    <3> QED  BY <3>1, <3>4, <3>7, <3>8
  <2>7. CASE side = "after"
    <3> DEFINE x == next
    <3>1. AddElement(d, side, name, e).doc = [x EXCEPT !.spines[1].items = Relay(@)]
      BY <1>2, <2>7 DEF AddElement, Edited
    <3>2. Find(d, name) \in PlacesIn(d)
      BY <1>2, <2>7, FoundPlace
    <3>3. IsDocument(x) /\ DOMAIN x.spines = DOMAIN d.spines
      BY <3>2, InsertedDocument DEF IsItem
    <3> HIDE DEF x, a
    <3> DEFINE c == x.spines[1].items
    <3>4. x.spines # <<>>
      BY <2>0, <3>3
    <3>5. IsSequence(c) /\ \A i \in DOMAIN c : IsItem(c[i])
      BY <2>0, <3>3 DEF IsDocument, IsSpine
    <3>6. [x EXCEPT !.spines[1].items = Relay(@)] = [x EXCEPT !.spines[1].items = Relay(c)]
      OBVIOUS
    <3> HIDE DEF c
    <3>7. IsDocument([x EXCEPT !.spines[1].items = Relay(c)])
      BY <3>3, <3>4, <3>5, PrimaryLaidAgain
    <3> QED  BY <3>1, <3>6, <3>7
  <2> QED  BY <2>5, <2>6, <2>7
<1> QED  BY <1>1, <1>2

(* So does adding a title,                                                 *)
LEMMA AddTitleDocument ==
    ASSUME NEW d, IsDocument(d), NEW side \in {"start", "end", "after"}, NEW name,
           NEW text, NEW dur \in Int
    PROVE  IsDocument(AddTitle(d, side, name, text, dur).doc)
<1> DEFINE e == Element("title", text, "title", 0, 0, dur)
<1> DEFINE f == [e EXCEPT !.role = "Titles"]
<1> DEFINE x == [d EXCEPT !.labels = Append(@, <<"Basic", "Title">>)]
<1>1. AddTitle(d, side, name, text, dur) = AddElement(d, side, name, f)
      \/ AddTitle(d, side, name, text, dur) = AddElement(x, side, name, f)
  BY DEF AddTitle
<1>2. IsItem(e)
  BY NewElement
<1> HIDE DEF e
<1>3. IsItem(f)
  BY <1>2 DEF IsItem, IsElement
<1> HIDE DEF f
<1>4. IsDocument(x)
  <2>1. IsSequence(d.labels)
    BY DEF IsDocument
  <2> QED  BY <2>1, Appended, OtherLabels
<1> HIDE DEF x
<1> QED  BY <1>1, <1>3, <1>4, AddElementDocument

(* adding audio,                                                           *)
LEMMA AddAudioDocument ==
    ASSUME NEW d, IsDocument(d), NEW side \in {"start", "end", "after"}, NEW name,
           NEW text, NEW dur, Given(dur, 0) \in Int
    PROVE  IsDocument(AddAudio(d, side, name, text, dur).doc)
<1> DEFINE long == Given(dur, 0)
<1> DEFINE e == Element("asset-clip", text, "audio", 0, 0, long)
<1> DEFINE f == [e EXCEPT !.role = "Music"]
<1> DEFINE x == [d EXCEPT !.labels = Append(@, text)]
<1>1. AddAudio(d, side, name, text, dur) = AddElement(x, side, name, f)
  BY DEF AddAudio
<1>2. IsItem(e)
  <2> HIDE DEF long
  <2>1. long \in Int
    BY DEF long
  <2> QED  BY <2>1, NewElement
<1> HIDE DEF e
<1>3. IsItem(f)
  BY <1>2 DEF IsItem, IsElement
<1> HIDE DEF f
<1>4. IsDocument(x)
  <2>1. IsSequence(d.labels)
    BY DEF IsDocument
  <2> QED  BY <2>1, Appended, OtherLabels
<1> HIDE DEF x
<1> QED  BY <1>1, <1>3, <1>4, AddElementDocument

(* reordering clips, whatever the names,                                   *)
LEMMA ReorderDocument ==
    ASSUME NEW d, IsDocument(d), NEW names, IsSequence(names)
    PROVE  IsDocument(ReorderClips(d, names).doc)
<1>1. CASE d.spines = <<>>
  BY <1>1, ReorderClipsMade
<1>2. CASE d.spines # <<>>
  <2> DEFINE a == d.spines[1].items
  <2> DEFINE b == InOrder(a, names) \o Rest(a, names)
  <2>1. 1 \in DOMAIN d.spines
    BY <1>2, DocumentParts
  <2>2. IsSequence(a) /\ \A i \in DOMAIN a : IsItem(a[i])
    BY <2>1 DEF IsDocument, IsSpine
  <2>3. ReorderClips(d, names).doc = [d EXCEPT !.spines[1].items = Relay(b)]
    BY <1>2, ReorderClipsMade
  <2> HIDE DEF a
  <2>4. IsSequence(b) /\ \A m \in DOMAIN b : \E i \in DOMAIN a : b[m] = a[i]
    BY <2>2, Reordered
  <2> HIDE DEF b
  <2>5. \A m \in DOMAIN b : IsItem(b[m])
    BY <2>2, <2>4
  <2> QED  BY <1>2, <2>3, <2>4, <2>5, PrimaryLaidAgain
<1> QED  BY <1>1, <1>2

(* removing long gaps,                                                     *)
LEMMA SilenceDocument ==
    ASSUME NEW d, IsDocument(d), NEW min
    PROVE  IsDocument(RemoveSilence(d, min).doc)
<1> DEFINE Long(e) == IsLongGap(e, min)
<1> DEFINE RemovedUpTo(s) == CountAt(d, {p \in ItemPlaces(d) : p[1] <= s}, Long)
<1> DEFINE Left(s) == Selected(d.spines[s].items, {i \in DOMAIN d.spines[s].items : ~Long(d.spines[s].items[i])})
<1> DEFINE Cut(s) == IF RemovedUpTo(s) > 0 THEN Relay(Left(s)) ELSE Left(s)
<1> DEFINE new == [s \in DOMAIN d.spines |-> Cut(s)]
<1>1. RemoveSilence(d, min).doc =
         [d EXCEPT !.spines = [s \in DOMAIN d.spines |-> [d.spines[s] EXCEPT !.items = new[s]]]]
  BY DEF RemoveSilence, Edited
<1>2. ASSUME NEW s \in DOMAIN d.spines
      PROVE  IsSequence(new[s]) /\ \A i \in DOMAIN new[s] : IsItem(new[s][i])
  <2> DEFINE a == d.spines[s].items
  <2> DEFINE I == {i \in DOMAIN a : ~Long(a[i])}
  <2> DEFINE c == Selected(a, I)
  <2>1. new[s] = c \/ new[s] = Relay(c)
    <3> HIDE DEF RemovedUpTo
    <3> QED  OBVIOUS
  <2>2. IsSequence(a) /\ \A i \in DOMAIN a : IsItem(a[i])
    BY DEF IsDocument, IsSpine
  <2> HIDE DEF a, I, new
  <2>3. a \in Seq(ToSet(a)) /\ \A e \in ToSet(a) : IsItem(e)
    BY <2>2, ItemsOf
  <2>4. c \in Seq(ToSet(a))
    BY <2>3, Selecting
  <2> HIDE DEF c
  <2> DEFINE T == ToSet(a)
  <2>5. IsSequence(c) /\ \A i \in DOMAIN c : c[i] \in T
    <3>1. c \in Seq(T)
      BY <2>4
    <3> HIDE DEF T
    <3> QED  BY <3>1, SequenceOf
  <2>6. \A i \in DOMAIN c : IsItem(c[i])
    BY <2>3, <2>5
  <2> QED  BY <2>1, <2>5, <2>6, Relaid
<1> HIDE DEF new
<1> QED  BY <1>1, <1>2, OtherSpines

(* filling gaps                                                            *)
LEMMA FillDocument ==
    ASSUME NEW d, IsDocument(d), NEW ref, NEW name
    PROVE  IsDocument(FillGaps(d, ref, name).doc)
<1> DEFINE Fill(e) == IF IsGap(e) THEN Element("asset-clip", name, ref, 0, e.off, e.dur) ELSE e
<1> DEFINE new == [s \in DOMAIN d.spines |-> [i \in DOMAIN d.spines[s].items |-> Fill(d.spines[s].items[i])]]
<1>1. FillGaps(d, ref, name).doc =
         [d EXCEPT !.spines = [s \in DOMAIN d.spines |-> [d.spines[s] EXCEPT !.items = new[s]]]]
  BY DEF FillGaps, Edited, MapSpines
<1>2. ASSUME NEW e, IsItem(e) PROVE IsItem(Fill(e))
  <2>1. e.dur \in Int
    BY <1>2 DEF IsItem, IsElement
  <2>2. IsItem(Element("asset-clip", name, ref, 0, e.off, e.dur))
    BY <2>1, NewElement
  <2> QED  BY <1>2, <2>2
<1> HIDE DEF Fill
<1>3. ASSUME NEW s \in DOMAIN d.spines
      PROVE  IsSequence(new[s]) /\ \A i \in DOMAIN new[s] : IsItem(new[s][i])
  <2> DEFINE a == d.spines[s].items
  <2> DEFINE c == [i \in DOMAIN a |-> Fill(a[i])]
  <2>1. new[s] = c
    OBVIOUS
  <2>2. IsSequence(a) /\ \A i \in DOMAIN a : IsItem(a[i])
    BY DEF IsDocument, IsSpine
  <2>3. PICK n \in Nat : DOMAIN a = 1..n
    BY <2>2, Sequences
  <2> HIDE DEF a
  <2>4. c = [i \in 1..n |-> c[i]] /\ DOMAIN c = DOMAIN a
    BY <2>3
  <2>5. \A i \in DOMAIN a : IsItem(c[i])
    BY <1>2, <2>2
  <2> HIDE DEF c, new
  <2>6. IsSequence(c)
    BY <2>4, SequenceFrom
  <2> QED  BY <2>1, <2>4, <2>5, <2>6
<1> HIDE DEF new
<1> QED  BY <1>1, <1>3, OtherSpines

(* and fixing flash frames.                                                *)
LEMMA FlashDocument ==
    ASSUME NEW d, IsDocument(d), NEW min \in Int
    PROVE  IsDocument(FixFlashFrames(d, min).doc)
<1> DEFINE Extend(e) == IF IsFlash(e, min) THEN [e EXCEPT !.dur = min] ELSE e
<1> DEFINE Longer(a) == [i \in DOMAIN a |-> Extend(a[i])]
<1> DEFINE new == [s \in DOMAIN d.spines |-> Relay(Longer(d.spines[s].items))]
<1> DEFINE x == [d EXCEPT !.spines = [s \in DOMAIN d.spines |-> [d.spines[s] EXCEPT !.items = new[s]]]]
<1>1. FixFlashFrames(d, min).doc = d \/ FixFlashFrames(d, min).doc = x
  <2> DEFINE Flash(e) == IsFlash(e, min)
  <2> DEFINE fixed == CountAt(d, ItemPlaces(d), Flash)
  <2>1. FixFlashFrames(d, min).doc = IF fixed = 0 THEN d ELSE x
    BY DEF FixFlashFrames, Edited, MapSpines
  <2> HIDE DEF fixed, x
  <2> QED  BY <2>1
<1>2. ASSUME NEW e, IsItem(e) PROVE IsItem(Extend(e))
  BY <1>2 DEF IsItem, IsElement
<1> HIDE DEF Extend
<1>3. ASSUME NEW s \in DOMAIN d.spines
      PROVE  IsSequence(new[s]) /\ \A i \in DOMAIN new[s] : IsItem(new[s][i])
  <2> DEFINE a == d.spines[s].items
  <2> DEFINE c == Longer(a)
  <2>1. new[s] = Relay(c)
    OBVIOUS
  <2>2. IsSequence(a) /\ \A i \in DOMAIN a : IsItem(a[i])
    BY DEF IsDocument, IsSpine
  <2>3. PICK n \in Nat : DOMAIN a = 1..n
    BY <2>2, Sequences
  <2> HIDE DEF a
  <2>4. c = [i \in 1..n |-> c[i]] /\ DOMAIN c = DOMAIN a
    BY <2>3
  <2>5. \A i \in DOMAIN a : IsItem(c[i])
    BY <1>2, <2>2
  <2> HIDE DEF c, new
  <2>6. IsSequence(c)
    BY <2>4, SequenceFrom
  <2> QED  BY <2>1, <2>4, <2>5, <2>6, Relaid
<1> HIDE DEF new
<1>4. IsDocument(x)
  BY <1>3, OtherSpines
<1> HIDE DEF x
<1> QED  BY <1>1, <1>4

-----------------------------------------------------------------------------
(* Where an edit leaves the elements of a document.                        *)

(* The items b are the items a, the i-th with the children c.              *)
ParentGiven(a, b, i, c) ==
    /\ DOMAIN b = DOMAIN a
    /\ \A j \in DOMAIN a : j # i => b[j] = a[j]
    /\ b[i].kids = c /\ b[i].name = a[i].name /\ b[i].tag = a[i].tag /\ b[i].notes = a[i].notes

(* What a document is after the children of a parent have changed.         *)
LEMMA NewSiblings ==
    ASSUME NEW d, IsDocument(d), NEW p \in PlacesIn(d), NEW c, IsSequence(c),
           \A k \in DOMAIN c : IsElement(c[k]) /\ (p[3] = 0 => IsItem(c[k])),
           NEW x, x = WithSiblings(d, p, c), NEW s, NEW i
    PROVE  s = p[1] /\ i = p[2] =>
              /\ s \in DOMAIN d.spines /\ i \in DOMAIN d.spines[s].items
              /\ IsDocument(x) /\ DOMAIN x.spines = DOMAIN d.spines
              /\ \A y \in DOMAIN d.spines : y # s => x.spines[y] = d.spines[y]
              /\ p[3] = 0 => x.spines[s].items = c
              /\ p[3] # 0 => ParentGiven(d.spines[s].items, x.spines[s].items, i, c)
<1>0. HAVE s = p[1] /\ i = p[2]
<1>1. s \in DOMAIN d.spines /\ i \in DOMAIN d.spines[s].items
  BY <1>0, PlaceParts
<1>2. IsDocument(x) /\ DOMAIN x.spines = DOMAIN d.spines
  BY SiblingsDocument
<1>3. CASE p[3] = 0
  <2> DEFINE w == [d EXCEPT !.spines[s].items = c]
  <2>1. x = w
    BY <1>0, <1>3 DEF WithSiblings
  <2>2. \A k \in DOMAIN c : IsItem(c[k])
    BY <1>3
  <2>3. w.spines[s].items = c /\ \A y \in DOMAIN d.spines : y # s => w.spines[y] = d.spines[y]
    BY <1>1, <2>2, NewItems
  <2> HIDE DEF w
  <2> QED  BY <1>1, <1>2, <1>3, <2>1, <2>3
<1>4. CASE p[3] # 0
  <2>0. PICK a : a = d.spines[s].items
    OBVIOUS
  <2>1. x = [d EXCEPT !.spines[s].items[i].kids = c]
    BY <1>0, <1>4 DEF WithSiblings
  <2>2. PICK f : f = [a[i] EXCEPT !.kids = c]
    OBVIOUS
  <2>3. PICK b : b = [a EXCEPT ![i] = f]
    OBVIOUS
  <2>4. /\ x = [d EXCEPT !.spines[s].items = b]
        /\ IsSequence(b) /\ \A j \in DOMAIN a : IsItem(b[j])
    BY <1>1, <2>0, <2>1, <2>2, <2>3, NewKids
  <2>5. DOMAIN b = DOMAIN a /\ b[i] = f /\ \A j \in DOMAIN a : j # i => b[j] = a[j]
    BY <1>1, <2>0, <2>3
  <2>6. IsElement(a[i])
    BY <1>1, <2>0, DocumentParts DEF IsItem
  <2>7. f.kids = c /\ f.name = a[i].name /\ f.tag = a[i].tag /\ f.notes = a[i].notes
    BY <2>2, <2>6 DEF IsElement
  <2> DEFINE w == [d EXCEPT !.spines[s].items = b]
  <2>8. w.spines[s].items = b /\ \A y \in DOMAIN d.spines : y # s => w.spines[y] = d.spines[y]
    BY <1>1, <2>4, <2>5, NewItems
  <2>9. ParentGiven(a, b, i, c)
    BY <2>5, <2>7 DEF ParentGiven
  <2>10. x = w
    BY <2>4
  <2> HIDE DEF w
  <2> QED  BY <1>1, <1>2, <1>4, <2>0, <2>8, <2>9, <2>10
<1> QED  BY <1>3, <1>4

(* The place of the j-th child of the parent of p. *)
Sibling(p, j) == IF p[3] = 0 THEN <<p[1], j, 0>> ELSE <<p[1], p[2], j>>

(* The children of the parent of p are where they were put.                *)
LEMMA SiblingPlaces ==
    ASSUME NEW d, IsDocument(d), NEW p \in PlacesIn(d), NEW c, IsSequence(c),
           \A k \in DOMAIN c : IsElement(c[k]) /\ (p[3] = 0 => IsItem(c[k])),
           NEW x, x = WithSiblings(d, p, c), NEW j \in DOMAIN c
    PROVE  Sibling(p, j) \in PlacesIn(x) /\ ElementAt(x, Sibling(p, j)) = c[j]
<1>0. PICK s, i : s = p[1] /\ i = p[2]
  OBVIOUS
<1>1. /\ s \in DOMAIN d.spines /\ i \in DOMAIN d.spines[s].items
      /\ IsDocument(x) /\ DOMAIN x.spines = DOMAIN d.spines
      /\ p[3] = 0 => x.spines[s].items = c
      /\ p[3] # 0 => ParentGiven(d.spines[s].items, x.spines[s].items, i, c)
  BY <1>0, NewSiblings
<1>2. DOMAIN c = 1..Len(c)
  BY Sequences
<1>3. CASE p[3] = 0
  <2>1. x.spines[s].items = c
    BY <1>1, <1>3
  <2>2. Len(x.spines[s].items[j].kids) \in Nat
    BY <1>1, <2>1, DocumentParts
  <2>3. Sibling(p, j) = <<s, j, 0>> /\ 0 \in 0..Len(x.spines[s].items[j].kids)
    BY <1>0, <1>3, <2>2 DEF Sibling
  <2> QED  BY <1>1, <2>1, <2>3, InPlaces DEF ElementAt
<1>4. CASE p[3] # 0
  <2>1. DOMAIN x.spines[s].items = DOMAIN d.spines[s].items /\ x.spines[s].items[i].kids = c
    BY <1>1, <1>4 DEF ParentGiven
  <2>2. Sibling(p, j) = <<s, i, j>> /\ j \in 0..Len(c) /\ j # 0
    BY <1>0, <1>2, <1>4 DEF Sibling
  <2> QED  BY <1>1, <2>1, <2>2, InPlaces DEF ElementAt
<1> QED  BY <1>3, <1>4

(* The items b are the items a, with e at the i-th or at its k-th child.   *)
OneChanged(a, b, i, k, e) ==
    /\ DOMAIN b = DOMAIN a
    /\ \A j \in DOMAIN a : j # i => b[j] = a[j]
    /\ k = 0 => b[i] = e /\ e.kids = a[i].kids
    /\ k # 0 => /\ b[i].name = a[i].name /\ b[i].tag = a[i].tag /\ b[i].notes = a[i].notes
                /\ b[i].kids[k] = e /\ DOMAIN b[i].kids = DOMAIN a[i].kids
                /\ \A m \in DOMAIN a[i].kids : m # k => b[i].kids[m] = a[i].kids[m]

(* Another element at p that has the same connected clips.                 *)
LEMMA ChangedSpine ==
    ASSUME NEW d, IsDocument(d), NEW p \in PlacesIn(d), NEW e, IsElement(e),
           e.kids = ElementAt(d, p).kids, NEW s, NEW i, s = p[1], i = p[2],
           NEW x, x = WithElement(d, p, e)
    PROVE  /\ s \in DOMAIN d.spines /\ i \in DOMAIN d.spines[s].items
           /\ IsDocument(x) /\ DOMAIN x.spines = DOMAIN d.spines
           /\ \A y \in DOMAIN d.spines : y # s => x.spines[y] = d.spines[y]
           /\ OneChanged(d.spines[s].items, x.spines[s].items, i, p[3], e)
<1> DEFINE a == Siblings(d, p)
<1> DEFINE n == Position(p)
<1>1. /\ IsSequence(a) /\ n \in DOMAIN a /\ a[n] = ElementAt(d, p)
      /\ \A j \in DOMAIN a : IsElement(a[j]) /\ (p[3] = 0 => IsItem(a[j]))
  BY PlaceParts
<1>2. PICK c : c = ReplaceAt(a, n, e)
  OBVIOUS
<1>3. x = WithSiblings(d, p, c)
  BY <1>2 DEF WithElement
<1> HIDE DEF a, n
<1>4. IsSequence(c) /\ DOMAIN c = DOMAIN a /\ c[n] = e /\ \A j \in DOMAIN a : j # n => c[j] = a[j]
  BY <1>1, <1>2, Replacing DEF ReplaceAt
<1>5. p[3] = 0 => IsItem(e)
  BY <1>1 DEF IsItem
<1>6. \A k \in DOMAIN c : IsElement(c[k]) /\ (p[3] = 0 => IsItem(c[k]))
  BY <1>1, <1>4, <1>5
<1>7. /\ s \in DOMAIN d.spines /\ i \in DOMAIN d.spines[s].items
      /\ IsDocument(x) /\ DOMAIN x.spines = DOMAIN d.spines
      /\ \A y \in DOMAIN d.spines : y # s => x.spines[y] = d.spines[y]
      /\ p[3] = 0 => x.spines[s].items = c
      /\ p[3] # 0 => ParentGiven(d.spines[s].items, x.spines[s].items, i, c)
  BY <1>3, <1>4, <1>6, NewSiblings
<1>8. CASE p[3] = 0
  <2>1. a = d.spines[s].items /\ n = i
    BY <1>8 DEF a, n, Siblings, Position
  <2> QED  BY ZenonT(40), <1>1, <1>4, <1>7, <1>8, <2>1 DEF OneChanged
<1>9. CASE p[3] # 0
  <2>1. a = d.spines[s].items[i].kids /\ n = p[3]
    BY <1>9 DEF a, n, Siblings, Position
  <2>2. PICK b : b = x.spines[s].items
    OBVIOUS
  <2>3. ParentGiven(d.spines[s].items, b, i, c)
    BY <1>7, <1>9, <2>2
  <2>4. OneChanged(d.spines[s].items, b, i, p[3], e)
    BY <1>4, <1>9, <2>1, <2>3 DEF OneChanged, ParentGiven
  <2> QED  BY <1>7, <2>2, <2>4
<1> QED  BY <1>8, <1>9

(* It is there, and the others are as they were.                           *)
LEMMA ChangedPlaces ==
    ASSUME NEW d, IsDocument(d), NEW p \in PlacesIn(d), NEW e, IsElement(e),
           e.kids = ElementAt(d, p).kids, NEW x, x = WithElement(d, p, e)
    PROVE  /\ IsDocument(x)
           /\ PlacesIn(x) = PlacesIn(d)
           /\ ElementAt(x, p) = e
           /\ \A q \in PlacesIn(d) : q # p => /\ ElementAt(x, q).name = ElementAt(d, q).name
                                              /\ ElementAt(x, q).tag = ElementAt(d, q).tag
                                              /\ ElementAt(x, q).notes = ElementAt(d, q).notes
<1>0. PICK s, i, k : p = <<s, i, k>>
  BY InPlaces
<1>1. /\ s \in DOMAIN d.spines /\ i \in DOMAIN d.spines[s].items
      /\ IsDocument(x) /\ DOMAIN x.spines = DOMAIN d.spines
      /\ \A y \in DOMAIN d.spines : y # s => x.spines[y] = d.spines[y]
      /\ OneChanged(d.spines[s].items, x.spines[s].items, i, k, e)
  BY <1>0, ChangedSpine
<1>2. \A y \in DOMAIN d.spines :
         /\ DOMAIN x.spines[y].items = DOMAIN d.spines[y].items
         /\ \A j \in DOMAIN d.spines[y].items :
               Len(x.spines[y].items[j].kids) = Len(d.spines[y].items[j].kids)
  <2>1. /\ Len(d.spines[s].items[i].kids) \in Nat /\ Len(x.spines[s].items[i].kids) \in Nat
        /\ DOMAIN d.spines[s].items[i].kids = 1..Len(d.spines[s].items[i].kids)
        /\ DOMAIN x.spines[s].items[i].kids = 1..Len(x.spines[s].items[i].kids)
    BY <1>1, DocumentParts DEF OneChanged
  <2>2. DOMAIN d.spines[s].items[i].kids = DOMAIN x.spines[s].items[i].kids
    BY <1>1 DEF OneChanged
  <2>3. \A m, n \in Nat : 1..m = 1..n => m = n
    <3>1. ASSUME NEW m \in Nat, NEW n \in Nat, 1..m = 1..n PROVE m <= n
      BY <3>1
    <3> QED  BY <3>1
  <2>4. Len(x.spines[s].items[i].kids) = Len(d.spines[s].items[i].kids)
    BY <2>1, <2>2, <2>3
  <2> QED  BY <1>1, <2>4 DEF OneChanged
<1>3. PlacesIn(x) = PlacesIn(d)
  <2>1. ASSUME NEW q, q \in PlacesIn(x) PROVE q \in PlacesIn(d)
    <3>1. PICK y \in DOMAIN x.spines : \E j \in DOMAIN x.spines[y].items :
                 \E m \in 0..Len(x.spines[y].items[j].kids) : q = <<y, j, m>>
      BY <2>1, InPlaces
    <3> QED  BY <1>1, <1>2, <3>1, InPlaces
  <2>2. ASSUME NEW q, q \in PlacesIn(d) PROVE q \in PlacesIn(x)
    <3>1. PICK y \in DOMAIN d.spines : \E j \in DOMAIN d.spines[y].items :
                 \E m \in 0..Len(d.spines[y].items[j].kids) : q = <<y, j, m>>
      BY <2>2, InPlaces
    <3> QED  BY <1>1, <1>2, <3>1, InPlaces
  <2> QED  BY <2>1, <2>2
<1>4. ElementAt(x, p) = e
  BY <1>0, <1>1 DEF ElementAt, OneChanged
<1>5. ASSUME NEW q \in PlacesIn(d), q # p
      PROVE  /\ ElementAt(x, q).name = ElementAt(d, q).name
             /\ ElementAt(x, q).tag = ElementAt(d, q).tag
             /\ ElementAt(x, q).notes = ElementAt(d, q).notes
  <2>1. PICK y, j, m : q = <<y, j, m>>
    BY InPlaces
  <2>2. /\ y \in DOMAIN d.spines /\ j \in DOMAIN d.spines[y].items
        /\ m # 0 => m \in DOMAIN d.spines[y].items[j].kids
    BY <2>1, PlaceParts
  <2>3. CASE y # s
    BY <1>1, <2>1, <2>3, <2>2 DEF ElementAt
  <2>4. CASE y = s /\ j # i
    BY <1>1, <2>1, <2>2, <2>4 DEF ElementAt, OneChanged
  <2>5. CASE y = s /\ j = i
    <3>1. m # k
      BY <1>0, <1>5, <2>1, <2>5
    <3> QED  BY <1>1, <2>1, <2>2, <2>5, <3>1 DEF ElementAt, OneChanged
  <2> QED  BY <2>3, <2>4, <2>5
<1> QED  BY <1>1, <1>3, <1>4, <1>5

(* A transition is never looked for by its name. *)
Goes(e, n) == e.name = n /\ ~IsTransition(e)

(* Of the children c that go by the name n, the j-th is the g[j]-th of the *)
(* siblings a.                                                             *)
ComeFrom(c, a, n, g) ==
    \A j \in DOMAIN c :
       \/ ~Goes(c[j], n) /\ c[j].kids = <<>>
       \/ /\ g[j] \in DOMAIN a
          /\ c[j].name = a[g[j]].name /\ c[j].tag = a[g[j]].tag /\ c[j].kids = a[g[j]].kids

Origin(p, g, q) ==
    IF q[1] # p[1] THEN q
    ELSE IF p[3] = 0 THEN <<q[1], g[q[2]], q[3]>>
    ELSE IF q[2] = p[2] /\ q[3] # 0 THEN <<q[1], q[2], g[q[3]]>>
    ELSE q

SameName(e, o) == o.name = e.name /\ o.tag = e.tag

(* What goes by the name after the children of a parent have changed went  *)
(* by it before, at its origin.                                            *)
LEMMA Traced ==
    ASSUME NEW d, IsDocument(d), NEW p \in PlacesIn(d), NEW c, IsSequence(c),
           \A k \in DOMAIN c : IsElement(c[k]) /\ (p[3] = 0 => IsItem(c[k])),
           NEW n, NEW g, ComeFrom(c, Siblings(d, p), n, g),
           NEW x, x = WithSiblings(d, p, c),
           NEW q \in PlacesIn(x), Goes(ElementAt(x, q), n)
    PROVE  /\ Origin(p, g, q) \in PlacesIn(d)
           /\ SameName(ElementAt(x, q), ElementAt(d, Origin(p, g, q)))
           /\ q[1] = p[1] /\ p[3] = 0 => q[2] \in DOMAIN c
           /\ q[1] = p[1] /\ p[3] # 0 /\ q[2] = p[2] /\ q[3] # 0 =>
                 q[3] \in DOMAIN c /\ g[q[3]] \in DOMAIN Siblings(d, p)
<1>0. PICK s, i, k : p = <<s, i, k>>
  BY InPlaces
<1>1. /\ s \in DOMAIN d.spines /\ i \in DOMAIN d.spines[s].items
      /\ IsDocument(x) /\ DOMAIN x.spines = DOMAIN d.spines
      /\ \A y \in DOMAIN d.spines : y # s => x.spines[y] = d.spines[y]
      /\ k = 0 => x.spines[s].items = c
      /\ k # 0 => ParentGiven(d.spines[s].items, x.spines[s].items, i, c)
  BY <1>0, NewSiblings
<1>2. PICK y, j, m : q = <<y, j, m>>
  BY InPlaces
<1>3. /\ y \in DOMAIN x.spines /\ j \in DOMAIN x.spines[y].items
      /\ m \in 0..Len(x.spines[y].items[j].kids)
      /\ m # 0 => m \in DOMAIN x.spines[y].items[j].kids
  <2>1. m # 0 => m \in DOMAIN x.spines[y].items[j].kids
    BY <1>1, <1>2, PlaceParts
  <2> QED  BY <1>2, <2>1, InPlaces
<1>4. CASE y # s
  <2>1. Origin(p, g, q) = q
    BY <1>0, <1>2, <1>4 DEF Origin
  <2>2. q \in PlacesIn(d)
    BY <1>1, <1>2, <1>3, <1>4, InPlaces
  <2>3. ElementAt(x, q) = ElementAt(d, q)
    BY <1>1, <1>2, <1>3, <1>4 DEF ElementAt
  <2> QED  BY <1>0, <1>2, <1>4, <2>1, <2>2, <2>3 DEF SameName
<1>5. CASE y = s /\ k = 0
  <2>0. PICK a : a = d.spines[s].items
    OBVIOUS
  <2>1. Siblings(d, p) = a /\ x.spines[s].items = c
    BY <1>0, <1>1, <1>5, <2>0 DEF Siblings
  <2>2. j \in DOMAIN c /\ m \in 0..Len(c[j].kids) /\ (m # 0 => m \in DOMAIN c[j].kids)
    BY <1>3, <1>5, <2>1
  <2>3. ElementAt(x, q) = IF m = 0 THEN c[j] ELSE c[j].kids[m]
    BY <1>2, <1>5, <2>1 DEF ElementAt
  <2>4. g[j] \in DOMAIN a /\ c[j].name = a[g[j]].name /\ c[j].tag = a[g[j]].tag
        /\ c[j].kids = a[g[j]].kids
    <3>1. ~(~Goes(c[j], n) /\ c[j].kids = <<>>)
      BY <2>2, <2>3
    <3> QED  BY <2>1, <2>2, <3>1 DEF ComeFrom
  <2>5. Origin(p, g, q) = <<s, g[j], m>>
    BY <1>0, <1>2, <1>5 DEF Origin
  <2>6. <<s, g[j], m>> \in PlacesIn(d)
    BY <1>1, <2>0, <2>2, <2>4, InPlaces
  <2>7. ElementAt(d, <<s, g[j], m>>) = IF m = 0 THEN a[g[j]] ELSE a[g[j]].kids[m]
    BY <2>0 DEF ElementAt
  <2>8. SameName(ElementAt(x, q), ElementAt(d, <<s, g[j], m>>))
    BY <2>3, <2>4, <2>7 DEF SameName
  <2> QED  BY <1>0, <1>2, <1>5, <2>2, <2>5, <2>6, <2>8
<1>6. CASE y = s /\ k # 0
  <2>0. PICK a, b : a = d.spines[s].items /\ b = x.spines[s].items
    OBVIOUS
  <2>1. ParentGiven(a, b, i, c) /\ Siblings(d, p) = a[i].kids
    BY <1>0, <1>1, <1>6, <2>0 DEF Siblings
  <2>2. j \in DOMAIN a /\ m \in 0..Len(b[j].kids) /\ (m # 0 => m \in DOMAIN b[j].kids)
    BY <1>3, <1>6, <2>0, <2>1 DEF ParentGiven
  <2>3. ElementAt(x, q) = IF m = 0 THEN b[j] ELSE b[j].kids[m]
    BY <1>2, <1>6, <2>0 DEF ElementAt
  <2>4. CASE j = i /\ m # 0
    <3>1. b[j].kids = c
      BY <2>1, <2>4 DEF ParentGiven
    <3>2. m \in DOMAIN c /\ ElementAt(x, q) = c[m]
      BY <2>2, <2>3, <2>4, <3>1
    <3>3. g[m] \in DOMAIN a[i].kids /\ c[m].name = a[i].kids[g[m]].name /\ c[m].tag = a[i].kids[g[m]].tag
      BY <2>1, <3>2 DEF ComeFrom
    <3>4. Origin(p, g, q) = <<s, i, g[m]>>
      BY <1>0, <1>2, <1>6, <2>4 DEF Origin
    <3>5. DOMAIN a[i].kids = 1..Len(a[i].kids)
      BY <1>1, <2>0, DocumentParts
    <3>6. g[m] \in 0..Len(a[i].kids) /\ g[m] # 0
      BY <3>3, <3>5
    <3>7. <<s, i, g[m]>> \in PlacesIn(d)
      BY <1>1, <2>0, <3>6, InPlaces
    <3>8. ElementAt(d, <<s, i, g[m]>>) = a[i].kids[g[m]]
      BY <2>0, <3>6 DEF ElementAt
    <3>9. SameName(ElementAt(x, q), ElementAt(d, <<s, i, g[m]>>))
      BY <3>2, <3>3, <3>8 DEF SameName
    <3> QED  BY <1>0, <1>2, <1>6, <2>1, <3>2, <3>3, <3>4, <3>7, <3>9
  <2>5. CASE ~(j = i /\ m # 0)
    <3>1. Origin(p, g, q) = q
      BY <1>0, <1>2, <1>6, <2>5 DEF Origin
    <3>2. q \in PlacesIn(d)
      <4>1. CASE m = 0
        <5>1. Len(a[j].kids) \in Nat
          BY <1>1, <2>0, <2>2, DocumentParts
        <5> QED  BY <1>1, <1>2, <1>6, <2>0, <2>2, <4>1, <5>1, InPlaces
      <4>2. CASE m # 0
        <5>1. b[j] = a[j]
          BY <2>1, <2>2, <2>5, <4>2 DEF ParentGiven
        <5> QED  BY <1>1, <1>2, <1>6, <2>0, <2>2, <5>1, InPlaces
      <4> QED  BY <4>1, <4>2
    <3>3. SameName(ElementAt(x, q), ElementAt(d, q))
      <4>1. ElementAt(d, q) = IF m = 0 THEN a[j] ELSE a[j].kids[m]
        BY <1>2, <1>6, <2>0 DEF ElementAt
      <4>2. CASE j = i
        BY <2>1, <2>3, <2>5, <4>1, <4>2 DEF SameName, ParentGiven
      <4>3. CASE j # i
        BY <2>1, <2>2, <2>3, <4>1, <4>3 DEF SameName, ParentGiven
      <4> QED  BY <4>2, <4>3
    <3> QED  BY <1>0, <1>2, <1>6, <2>5, <3>1, <3>2, <3>3
  <2> QED  BY <2>4, <2>5
<1> QED  BY <1>4, <1>5, <1>6

(* And no two have the same origin.                                        *)
LEMMA TracedApart ==
    ASSUME NEW d, IsDocument(d), NEW p \in PlacesIn(d), NEW c, IsSequence(c),
           \A k \in DOMAIN c : IsElement(c[k]) /\ (p[3] = 0 => IsItem(c[k])),
           NEW n, NEW g, ComeFrom(c, Siblings(d, p), n, g),
           \A j, k \in DOMAIN c : g[j] = g[k] => j = k,
           NEW x, x = WithSiblings(d, p, c),
           NEW q \in PlacesIn(x), Goes(ElementAt(x, q), n),
           NEW r \in PlacesIn(x), Goes(ElementAt(x, r), n),
           Origin(p, g, q) = Origin(p, g, r)
    PROVE  q = r
<1>1. /\ q[1] = p[1] /\ p[3] = 0 => q[2] \in DOMAIN c
      /\ q[1] = p[1] /\ p[3] # 0 /\ q[2] = p[2] /\ q[3] # 0 =>
            q[3] \in DOMAIN c /\ g[q[3]] \in DOMAIN Siblings(d, p)
  BY Traced
<1>2. /\ r[1] = p[1] /\ p[3] = 0 => r[2] \in DOMAIN c
      /\ r[1] = p[1] /\ p[3] # 0 /\ r[2] = p[2] /\ r[3] # 0 =>
            r[3] \in DOMAIN c /\ g[r[3]] \in DOMAIN Siblings(d, p)
  BY Traced
<1>3. q = <<q[1], q[2], q[3]>> /\ r = <<r[1], r[2], r[3]>>
  BY InPlaces
<1>4. 0 \notin DOMAIN Siblings(d, p)
  BY PlaceParts, Sequences
<1>5. q[1] = r[1]
  BY <1>3 DEF Origin
<1>6. CASE q[1] # p[1]
  BY <1>5, <1>6 DEF Origin
<1>7. CASE q[1] = p[1] /\ p[3] = 0
  <2>1. q[3] = r[3] /\ g[q[2]] = g[r[2]]
    BY <1>5, <1>7 DEF Origin
  <2> QED  BY <1>1, <1>2, <1>3, <1>5, <1>7, <2>1
<1>8. CASE q[1] = p[1] /\ p[3] # 0
  <2>1. q[2] = r[2]
    BY <1>3, <1>5, <1>8 DEF Origin
  <2>2. q[3] = r[3]
    BY <1>1, <1>2, <1>3, <1>4, <1>5, <1>8, <2>1 DEF Origin
  <2> QED  BY <1>3, <1>5, <2>1, <2>2
<1> QED  BY <1>6, <1>7, <1>8

-----------------------------------------------------------------------------
(* The primary spine, and what is added to it.                             *)

(* Documents with the same items have the same elements.                   *)
LEMMA SameItems ==
    ASSUME NEW x, NEW y, DOMAIN y.spines = DOMAIN x.spines,
           \A s \in DOMAIN x.spines : y.spines[s].items = x.spines[s].items
    PROVE  /\ PlacesIn(y) = PlacesIn(x)
           /\ \A q \in PlacesIn(x) : ElementAt(y, q) = ElementAt(x, q)
<1>1. \A q : q \in PlacesIn(y) <=> q \in PlacesIn(x)
  BY InPlaces
<1>2. ASSUME NEW q \in PlacesIn(x) PROVE ElementAt(y, q) = ElementAt(x, q)
  <2>1. PICK s \in DOMAIN x.spines : q[1] = s
    BY InPlaces
  <2> QED  BY <2>1 DEF ElementAt
<1> QED  BY <1>1, <1>2

(* When the first m members are selected they are the first selected.      *)
LEMMA SelectedPrefix ==
    ASSUME NEW T, NEW s \in Seq(T), NEW I, NEW m \in Nat, 1..m \subseteq I \cap DOMAIN s
    PROVE  LET b == Selected(s, I)
           IN  m <= Len(b) /\ \A k \in 1..m : b[k] = s[k]
<1>1. PICK b, h : b = Selected(s, I) /\ b \in Seq(T) /\ Picks(s, I, h)
  BY Selecting
<1>2. /\ Len(b) \in Nat /\ DOMAIN b = 1..Len(b)
      /\ DOMAIN h = I \cap DOMAIN s
      /\ \A k \in DOMAIN h : h[k] \in DOMAIN b /\ b[h[k]] = s[k]
      /\ \A j, k \in DOMAIN h : j < k => h[j] < h[k]
      /\ \A n \in DOMAIN b : \E k \in DOMAIN h : h[k] = n
  BY <1>1 DEF Picks
<1>3. 1..m \subseteq DOMAIN h /\ DOMAIN h \subseteq Nat
  BY <1>2
<1> DEFINE S == {n \in Nat : \A k \in 1..m : k <= n => h[k] = k}
<1>4. 0 \in S
  OBVIOUS
<1>5. ASSUME NEW n \in S PROVE n + 1 \in S
  <2>0. n \in Nat /\ \A k \in 1..m : k <= n => h[k] = k
    OBVIOUS
  <2> SUFFICES ASSUME n + 1 \in 1..m PROVE h[n + 1] = n + 1
    BY <2>0
  <2>1. PICK k : k = n + 1 /\ k \in 1..m /\ k \in DOMAIN h
    BY <1>3
  <2>2. h[k] \in Nat /\ h[k] >= k /\ k \in DOMAIN b
    <3>1. h[k] \in 1..Len(b)
      BY <1>2, <2>1
    <3>2. CASE n = 0
      BY <1>2, <2>1, <3>1, <3>2
    <3>3. CASE n # 0
      <4>1. n \in 1..m /\ n \in DOMAIN h /\ n < k /\ h[n] = n
        BY <1>3, <2>0, <2>1, <3>3
      <4>2. h[n] < h[k]
        BY <1>2, <2>1, <4>1
      <4> QED  BY <1>2, <2>0, <2>1, <3>1, <4>1, <4>2
    <3> QED  BY <3>2, <3>3
  <2>3. PICK j \in DOMAIN h : h[j] = k
    BY <1>2, <2>2
  <2>4. CASE j < k
    <3>1. j \in DOMAIN h /\ j \in Nat /\ j \in DOMAIN s
      BY <1>2, <1>3, <2>3
    <3>2. j \in 1..m /\ j <= n
      BY <2>0, <2>1, <2>4, <3>1
    <3> QED  BY <2>0, <2>1, <2>3, <2>4, <3>2
  <2>5. CASE j > k
    <3>1. h[k] < h[j]
      BY <1>2, <1>3, <2>1, <2>3, <2>5
    <3> QED  BY <2>1, <2>2, <2>3, <3>1
  <2>6. CASE j = k
    BY <2>1, <2>3, <2>6
  <2> QED  BY <1>3, <2>0, <2>1, <2>3, <2>4, <2>5, <2>6
<1> HIDE DEF S
<1>6. S \in SUBSET Nat
  BY DEF S
<1>7. S = Nat
  BY <1>4, <1>5, <1>6, Counting
<1>8. \A k \in 1..m : h[k] = k
  <2>1. ASSUME NEW k \in 1..m PROVE k \in S
    BY <1>7
  <2>2. ASSUME NEW k \in 1..m PROVE h[k] = k
    BY <2>1 DEF S
  <2> QED  BY <2>2
<1>9. \A k \in 1..m : k \in DOMAIN b /\ b[k] = s[k]
  BY <1>2, <1>3, <1>8
<1>10. m <= Len(b)
  <2>1. CASE m = 0
    BY <1>2, <2>1
  <2>2. CASE m # 0
    BY <1>2, <1>9, <2>2
  <2> QED  BY <2>1, <2>2
<1> QED  BY <1>1, <1>9, <1>10

(* A sequence that begins with the members of another.                     *)
LEMMA Begins ==
    ASSUME NEW s, IsSequence(s), NEW t, IsSequence(t), Len(s) <= Len(t),
           \A k \in DOMAIN s : t[k] = s[k]
    PROVE  IsPrefix(s, t)
<1>1. PICK n \in Nat : Len(s) = n /\ DOMAIN s = 1..n
  BY Sequences
<1>2. PICK T : s \in Seq(T)
  BY DEF IsSequence
<1>3. PICK U : t \in Seq(U)
  BY DEF IsSequence
<1> DEFINE a == SubSeq(s, 1, n)
<1> DEFINE b == SubSeq(t, 1, n)
<1>4. a \in Seq(T) /\ Len(a) = n /\ \A k \in 1..n : a[k] = s[k]
  BY <1>1, <1>2
<1>5. b \in Seq(U) /\ Len(b) = n /\ \A k \in 1..n : b[k] = t[k]
  BY <1>1, <1>3
<1> HIDE DEF a, b
<1>6. a = [k \in 1..n |-> a[k]] /\ b = [k \in 1..n |-> b[k]]
  BY <1>4, <1>5
<1>7. \A k \in 1..n : a[k] = b[k]
  BY <1>1, <1>4, <1>5
<1>8. a = b
  BY <1>6, <1>7
<1> QED  BY <1>1, <1>8 DEF IsPrefix, a, b

(* Items laid again keep their tags, names, resources and durations.       *)
LEMMA RelaidLooks ==
    ASSUME NEW b, IsSequence(b), \A i \in DOMAIN b : IsItem(b[i]), NEW c, c = Relay(b)
    PROVE  /\ IsSequence(c) /\ DOMAIN c = DOMAIN b /\ Len(c) = Len(b)
           /\ \A i \in DOMAIN b : /\ IsItem(c[i]) /\ c[i].tag = b[i].tag /\ c[i].name = b[i].name
                                  /\ c[i].ref = b[i].ref /\ c[i].dur = b[i].dur
<1> DEFINE r == Relay(b)
<1>1. /\ IsSequence(r) /\ DOMAIN r = DOMAIN b /\ Len(r) = Len(b)
      /\ \A i \in DOMAIN b : \E off :
            /\ r[i] = [b[i] EXCEPT !.off = off]
            /\ IsItem(r[i]) /\ SameBranch(b[i], r[i]) /\ r[i].kids = b[i].kids
  BY Relaid
<1>2. c = r
  OBVIOUS
<1> HIDE DEF r
<1>3. \A i \in DOMAIN b : IsItem(r[i]) /\ SameBranch(b[i], r[i])
  BY <1>1
<1>4. \A i \in DOMAIN b : r[i].name = b[i].name
  BY <1>1 DEF IsItem, IsElement
<1> QED  BY <1>1, <1>2, <1>3, <1>4 DEF SameBranch, SameLook

(* The primary spine with the items c, and laid again. *)
WithPrimary(d, c) == [d EXCEPT !.spines[1].items = c]

LaidAgain(w) == [w EXCEPT !.spines[1].items = Relay(@)]

(* What that makes of it.                                                  *)
LEMMA PrimaryReplaced ==
    ASSUME NEW d, IsDocument(d), d.spines # <<>>,
           NEW c, IsSequence(c), \A i \in DOMAIN c : IsItem(c[i]),
           NEW x, x = LaidAgain(WithPrimary(d, c))
    PROVE  x.spines # <<>> /\ x.spines[1].items = Relay(c) /\ x.labels = d.labels
<1>1. 1 \in DOMAIN d.spines
  BY DocumentParts
<1>0. PICK w : w = [d EXCEPT !.spines[1].items = c]
  OBVIOUS
<1>2. /\ IsDocument(w) /\ DOMAIN w.spines = DOMAIN d.spines /\ w.spines[1].items = c
      /\ w.labels = d.labels
  <2> DEFINE y == [d EXCEPT !.spines[1].items = c]
  <2>1. /\ IsDocument(y) /\ DOMAIN y.spines = DOMAIN d.spines /\ y.spines[1].items = c
        /\ y.labels = d.labels
    BY <1>1, NewItems
  <2>2. w = y
    BY <1>0
  <2> HIDE DEF y
  <2> QED  BY <2>1, <2>2
<1>3. PICK r : r = Relay(c)
  OBVIOUS
<1>4. IsSequence(r) /\ \A i \in DOMAIN r : IsItem(r[i])
  BY <1>3, RelaidLooks
<1> DEFINE y == [w EXCEPT !.spines[1].items = r]
<1>5. /\ DOMAIN y.spines = DOMAIN w.spines /\ y.spines[1].items = r /\ y.labels = w.labels
  BY <1>1, <1>2, <1>4, NewItems
<1>6. x = y
  BY <1>0, <1>2, <1>3 DEF LaidAgain, WithPrimary
<1> HIDE DEF y
<1> QED  BY <1>1, <1>2, <1>3, <1>5, <1>6

(* A sequence after one member.                                            *)
LEMMA Prepended ==
    ASSUME NEW s, IsSequence(s), NEW e
    PROVE  LET c == <<e>> \o s
           IN  /\ IsSequence(c) /\ DOMAIN c = 1..(Len(s) + 1) /\ c[1] = e
               /\ \A j \in DOMAIN s : c[j + 1] = s[j]
<1> DEFINE T == ToSet(s) \cup {e}
<1>1. s \in Seq(T)
  BY DEF IsSequence
<1>2. Len(s) \in Nat /\ DOMAIN s = 1..Len(s)
  BY Sequences
<1>3. PICK h : h = <<e>>
  OBVIOUS
<1>4. h \in Seq(T) /\ Len(h) = 1 /\ h[1] = e
  BY <1>3
<1> HIDE DEF T
<1> DEFINE c == h \o s
<1>5. /\ c \in Seq(T) /\ Len(c) = Len(h) + Len(s)
      /\ \A j \in 1..Len(h) : c[j] = h[j]
      /\ \A j \in 1..Len(s) : c[Len(h) + j] = s[j]
  BY <1>1, <1>4, Concatenated
<1> HIDE DEF c
<1>6. 1 \in 1..Len(h) /\ \A j \in DOMAIN s : Len(h) + j = j + 1
  BY <1>2, <1>4
<1>7. Len(c) = Len(s) + 1 /\ DOMAIN c = 1..(Len(s) + 1)
  BY <1>2, <1>4, <1>5
<1>8. /\ IsSequence(c) /\ DOMAIN c = 1..(Len(s) + 1) /\ c[1] = e
      /\ \A j \in DOMAIN s : c[j + 1] = s[j]
  BY <1>2, <1>4, <1>5, <1>6, <1>7, SequenceOf
<1> QED  BY <1>3, <1>8 DEF c

(* The items c are the items a with e added at m, on the side asked for.   *)
Added(a, c, e, m, side, i) ==
    /\ IsSequence(c) /\ m \in DOMAIN c /\ c[m] = e
    /\ \A j \in DOMAIN c : j # m => \E k \in DOMAIN a : c[j] = a[k]
    /\ side = "start" => m = 1
    /\ side = "end" => m = Len(c)
    /\ side = "after" => m = i + 1 /\ c[i] = a[i]

(* After a clip means after the i-th item of the primary spine. *)
AfterItem(d, side, name, i) ==
    side = "after" => i \in DOMAIN d.spines[1].items /\ Find(d, name) = <<1, i, 0>>

(* Where an added item is in the primary spine.                            *)
LEMMA AddedItems ==
    ASSUME NEW d, IsDocument(d), d.spines # <<>>, NEW side \in {"start", "end", "after"}, NEW name,
           NEW e, IsItem(e), NEW a, a = d.spines[1].items, NEW i,
           AfterItem(d, side, name, i),
           NEW x, x = AddElement(d, side, name, e).doc
    PROVE  /\ x.spines # <<>> /\ x.labels = d.labels
           /\ \E c, m : Added(a, c, e, m, side, i) /\ x.spines[1].items = Relay(c)
<1>1. 1 \in DOMAIN d.spines
  BY DocumentParts
<1>2. /\ IsSequence(a) /\ \A j \in DOMAIN a : IsItem(a[j])
      /\ Len(a) \in Nat /\ DOMAIN a = 1..Len(a)
  <2>1. IsSpine(d.spines[1])
    BY <1>1, DocumentParts
  <2> QED  BY <2>1, Sequences DEF IsSpine
<1>3. ASSUME NEW c, NEW m, Added(a, c, e, m, side, i),
             x = LaidAgain(WithPrimary(d, c))
      PROVE  /\ x.spines # <<>> /\ x.labels = d.labels
             /\ \E b, n : Added(a, b, e, n, side, i) /\ x.spines[1].items = Relay(b)
  <2>1. IsSequence(c) /\ \A j \in DOMAIN c : IsItem(c[j])
    BY <1>2, <1>3 DEF Added
  <2>2. x.spines # <<>> /\ x.spines[1].items = Relay(c) /\ x.labels = d.labels
    BY <1>3, <2>1, PrimaryReplaced
  <2> QED  BY <1>3, <2>2
<1>4. CASE side = "start"
  <2>1. PICK c : c = <<e>> \o a
    OBVIOUS
  <2>2. x = LaidAgain(WithPrimary(d, c))
    BY <1>4, <2>1 DEF AddElement, Edited, LaidAgain, WithPrimary
  <2>4. /\ IsSequence(c) /\ DOMAIN c = 1..(Len(a) + 1) /\ c[1] = e
        /\ \A j \in DOMAIN a : c[j + 1] = a[j]
    BY SMTT(30), <1>2, <2>1, Prepended
  <2>5. ASSUME NEW j \in DOMAIN c, j # 1 PROVE \E k \in DOMAIN a : c[j] = a[k]
    <3>1. j - 1 \in DOMAIN a /\ (j - 1) + 1 = j
      BY <1>2, <2>4, <2>5
    <3> QED  BY <2>4, <3>1
  <2>6. 1 \in DOMAIN c
    BY <1>2, <2>4
  <2>7. Added(a, c, e, 1, side, i)
    BY <1>4, <2>4, <2>5, <2>6 DEF Added
  <2> QED  BY <1>3, <2>2, <2>7
<1>5. CASE side = "end"
  <2>1. PICK c : c = Append(a, e)
    OBVIOUS
  <2>2. x = LaidAgain(WithPrimary(d, c))
    BY <1>5, <2>1 DEF AddElement, Edited, LaidAgain, WithPrimary
  <2>4. /\ IsSequence(c) /\ DOMAIN c = 1..(Len(a) + 1) /\ Len(c) = Len(a) + 1
        /\ c[Len(a) + 1] = e /\ \A j \in DOMAIN a : c[j] = a[j]
    BY <1>2, <2>1, Appended
  <2>5. ASSUME NEW j \in DOMAIN c, j # Len(c) PROVE \E k \in DOMAIN a : c[j] = a[k]
    <3>1. j \in DOMAIN a
      BY <1>2, <2>4, <2>5
    <3> QED  BY <2>4, <3>1
  <2>6. Len(c) \in DOMAIN c /\ c[Len(c)] = e
    BY <1>2, <2>4
  <2>7. Added(a, c, e, Len(c), side, i)
    BY <1>5, <2>4, <2>5, <2>6 DEF Added
  <2> QED  BY <1>3, <2>2, <2>7
<1>6. CASE side = "after"
  <2>0. i \in DOMAIN a /\ Find(d, name) = <<1, i, 0>>
    BY <1>6 DEF AfterItem
  <2>1. PICK c : c = InsertAt(a, i + 1, e)
    OBVIOUS
  <2>2. PICK w : w = WithPrimary(d, c)
    OBVIOUS
  <2>3. w = InsertAfter(d, Find(d, name), e)
    BY <2>0, <2>1, <2>2 DEF InsertAfter, WithSiblings, Siblings, Position, WithPrimary
  <2>4. Found(d, name)
    BY <2>0 DEF Found, NoPlace
  <2>5. x = LaidAgain(w)
    BY <1>6, <2>3, <2>4 DEF AddElement, Edited, LaidAgain
  <2>6. /\ IsSequence(c) /\ DOMAIN c = 1..(Len(a) + 1) /\ i \in 1..Len(a)
        /\ \A j \in 1..i : c[j] = a[j]
        /\ c[i + 1] = e
        /\ \A j \in (i + 1)..Len(a) : c[j + 1] = a[j]
    <3> DEFINE b == InsertAt(a, i + 1, e)
    <3>1. /\ IsSequence(b) /\ DOMAIN b = 1..(Len(a) + 1)
          /\ \A j \in 1..i : b[j] = a[j]
          /\ b[i + 1] = e
          /\ \A j \in (i + 1)..Len(a) : b[j + 1] = a[j]
      <4>1. i \in DOMAIN a /\ IsSequence(a)
        BY <1>2, <2>0
      <4> HIDE DEF b
      <4>2. b = InsertAt(a, i + 1, e)
        BY DEF b
      <4> QED  BY SMTT(30), <4>1, <4>2, Inserting
    <3>2. c = b
      BY <2>1
    <3> HIDE DEF b
    <3> QED  BY <1>2, <2>0, <3>1, <3>2
  <2>7. ASSUME NEW j \in DOMAIN c, j # i + 1 PROVE \E k \in DOMAIN a : c[j] = a[k]
    <3>1. CASE j <= i
      BY <1>2, <2>6, <3>1
    <3>2. CASE j > i
      <4>1. PICK k : k \in (i + 1)..Len(a) /\ k + 1 = j /\ k \in DOMAIN a
        <5>1. j - 1 \in (i + 1)..Len(a) /\ (j - 1) + 1 = j /\ j - 1 \in DOMAIN a
          BY <1>2, <2>6, <2>7, <3>2
        <5> QED  BY <5>1
      <4> QED  BY <2>6, <4>1
    <3> QED  BY <1>2, <2>6, <3>1, <3>2
  <2>8. i + 1 \in DOMAIN c /\ c[i] = a[i]
    BY <1>2, <2>6
  <2>9. Added(a, c, e, i + 1, side, i)
    BY <1>6, <2>6, <2>7, <2>8 DEF Added
  <2> QED  BY <1>3, <2>2, <2>5, <2>9
<1> QED  BY <1>4, <1>5, <1>6

=============================================================================
