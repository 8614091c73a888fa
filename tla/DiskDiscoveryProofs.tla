------------------------ MODULE DiskDiscoveryProofs ------------------------
(***************************************************************************)
(* What DiskDiscovery says of discovery with bounded memory, for every     *)
(* input, any sizes of chunks and of buffers and any fan-in: the spools    *)
(* that are open are those the code still owns, so that every exit removes *)
(* its files; memory and runs stay within their limits; and what comes out *)
(* of chunks, spills, carries and merges is what the in-memory discovery   *)
(* selects.                                                                *)
(***************************************************************************)
EXTENDS DiskDiscovery, FiniteSetTheorems, WellFoundedInduction, TLAPS

-----------------------------------------------------------------------------
(* Induction and recursion up to a number.                                 *)

(* A set of naturals that is not empty has a least member.                 *)
LEMMA Least ==
    ASSUME NEW S \in SUBSET Nat, S # {}
    PROVE  \E x \in S : \A y \in S : x <= y
<1> DEFINE R == {p \in Nat \X Nat : p[1] < p[2]}
<1>1. IsWellFoundedOn(R, Nat)
  BY NatLessThanWellFounded DEF OpToRel
<1>2. PICK x \in S : \A y \in S : ~(<<y, x>> \in R)
  <2>1. S \subseteq Nat  OBVIOUS
  <2> HIDE DEF R
  <2> QED  BY <1>1, <2>1, WFMin
<1>3. \A y \in S : <<y, x>> \notin R => x <= y
  OBVIOUS
<1> QED  BY <1>2, <1>3

(* What holds of 0 and of a successor holds up to N.                       *)
LEMMA UpToN ==
    ASSUME NEW N \in Nat, NEW S, 0 \in S,
           \A n \in 0..N : n < N /\ n \in S => n + 1 \in S
    PROVE  \A n \in 0..N : n \in S
<1> DEFINE B == {n \in 0..N : n \notin S}
<1>1. SUFFICES ASSUME B # {} PROVE FALSE
  OBVIOUS
<1>2. PICK x \in B : \A y \in B : x <= y
  <2>1. B \in SUBSET Nat  OBVIOUS
  <2> HIDE DEF B
  <2> QED  BY <1>1, <2>1, Least
<1>3. x \in 1..N /\ x - 1 \in 0..N /\ x - 1 < N /\ (x - 1) + 1 = x
  BY <1>2
<1>4. x - 1 \in S
  BY <1>2, <1>3
<1> QED  BY <1>2, <1>3, <1>4

(* Steps that stay within a set, and the values they lead to.              *)
StaysIn(G, N, V) == \A n \in 1..N : \A v \in V : G[n][v] \in V
Follows(g, N, a, G) == \A n \in 0..N : g[n] = IF n = 0 THEN a ELSE G[n][g[n - 1]]

(* A function on 0..N whose values are given by a first one and a step     *)
(* exists when the step stays within a set.                                *)
LEMMA Recursion ==
    ASSUME NEW N \in Nat, NEW V, NEW a \in V, NEW G, StaysIn(G, N, V)
    PROVE  \E g \in [0..N -> V] : Follows(g, N, a, G)
<1> USE DEF StaysIn
<1> DEFINE Is(g, m) == \A n \in 0..m : g[n] = IF n = 0 THEN a ELSE G[n][g[n - 1]]
           S == {m \in 0..N : \E g \in [0..m -> V] : Is(g, m)}
<1>1. 0 \in S
  <2> DEFINE h == [n \in 0..0 |-> a]
  <2>1. h \in [0..0 -> V]
    OBVIOUS
  <2>2. Is(h, 0)
    OBVIOUS
  <2>3. 0 \in 0..N
    OBVIOUS
  <2> HIDE DEF h, Is
  <2> QED  BY <2>1, <2>2, <2>3
<1>2. ASSUME NEW m \in 0..N, m < N, m \in S
      PROVE  m + 1 \in S
  <2>1. PICK g \in [0..m -> V] : Is(g, m)
    BY <1>2
  <2> DEFINE h == [n \in 0..m + 1 |-> IF n = m + 1 THEN G[m + 1][g[m]] ELSE g[n]]
  <2>2. h \in [0..m + 1 -> V]
    <3>1. g[m] \in V /\ m + 1 \in 1..N
      BY <1>2
    <3>2. G[m + 1][g[m]] \in V
      BY <3>1
    <3> QED  BY <3>2
  <2>3. ASSUME NEW n \in 0..m + 1
        PROVE  h[n] = IF n = 0 THEN a ELSE G[n][h[n - 1]]
    <3>1. CASE n = m + 1
      <4>1. n # 0 /\ n - 1 = m /\ m \in 0..m + 1 /\ m # m + 1
        BY <3>1
      <4>2. h[m] = g[m] /\ h[n] = G[m + 1][g[m]]
        BY <3>1, <4>1
      <4> QED  BY <3>1, <4>1, <4>2
    <3>2. CASE n # m + 1
      <4>1. n \in 0..m /\ h[n] = g[n]
        BY <3>2
      <4>2. n # 0 => n - 1 \in 0..m + 1 /\ n - 1 # m + 1 /\ h[n - 1] = g[n - 1]
        BY <3>2
      <4>3. g[n] = IF n = 0 THEN a ELSE G[n][g[n - 1]]
        BY <2>1, <4>1
      <4> HIDE DEF h
      <4> QED  BY <4>1, <4>2, <4>3
    <3> QED  BY <3>1, <3>2
  <2>4. Is(h, m + 1)
    BY <2>3
  <2> HIDE DEF h, Is
  <2> QED  BY <1>2, <2>2, <2>4
<1>3. N \in S
  <2> HIDE DEF S
  <2> QED  BY <1>1, <1>2, UpToN
<1>4. PICK g \in [0..N -> V] : Is(g, N)
  BY <1>3
<1> QED  BY <1>4 DEF Follows

-----------------------------------------------------------------------------
(* Sequences joined.                                                       *)

(* The first sequences, joined, by their number.                           *)
LEMMA JoiningIs ==
    ASSUME NEW T, NEW seqs \in Seq(Seq(T))
    PROVE  /\ Joining(seqs)[0] = <<>>
           /\ \A n \in 1..Len(seqs) :
                 Joining(seqs)[n] = Joining(seqs)[n - 1] \o seqs[n]
           /\ \A n \in 0..Len(seqs) : Joining(seqs)[n] \in Seq(T)
<1> DEFINE N == Len(seqs)
           V == Seq(T)
           G == [n \in 1..N |-> [v \in V |-> v \o seqs[n]]]
           f == Joining(seqs)
<1>1. N \in Nat /\ <<>> \in V /\ \A n \in 1..N : seqs[n] \in V
  OBVIOUS
<1>2. \A n \in 1..N : \A v \in V : G[n][v] = v \o seqs[n]
  OBVIOUS
<1>3. StaysIn(G, N, V)
  BY <1>1 DEF StaysIn
<1>4. PICK g \in [0..N -> V] : Follows(g, N, <<>>, G)
  <2>1. N \in Nat /\ <<>> \in V
    BY <1>1
  <2> HIDE DEF V, G, N
  <2> QED  BY <1>3, <2>1, Recursion
<1>5. g = [n \in 0..N |-> IF n = 0 THEN <<>> ELSE g[n - 1] \o seqs[n]]
  <2>1. ASSUME NEW n \in 0..N, n # 0
        PROVE  n \in 1..N /\ g[n - 1] \in V
    <3>1. n \in 1..N /\ n - 1 \in 0..N
      BY <1>1, <2>1
    <3> HIDE DEF V
    <3> QED  BY <3>1
  <2>2. \A n \in 0..N : g[n] = IF n = 0 THEN <<>> ELSE g[n - 1] \o seqs[n]
    BY <1>2, <1>4, <2>1 DEF Follows
  <2> HIDE DEF V, G, N
  <2> QED  BY <2>2
<1>6. f = [n \in 0..N |-> IF n = 0 THEN <<>> ELSE f[n - 1] \o seqs[n]]
  BY <1>5 DEF Joining
<1>7. f[0] = <<>> /\ \A n \in 1..N : f[n] = f[n - 1] \o seqs[n]
  <2>1. 0 \in 0..N /\ \A n \in 1..N : n \in 0..N /\ n # 0
    BY <1>1
  <2> HIDE DEF f, N
  <2> QED  BY <1>6, <2>1
<1>8. \A n \in 0..N : n \in {k \in 0..N : f[k] \in V}
  <2>1. 0 \in 0..N /\ f[0] \in V
    <3> HIDE DEF f, V
    <3> QED  BY <1>1, <1>7
  <2>2. ASSUME NEW n \in 0..N, n < N, f[n] \in V
        PROVE  f[n + 1] \in V
    <3>1. n + 1 \in 1..N /\ (n + 1) - 1 = n
      BY <1>1, <2>2
    <3>2. f[n + 1] = f[n] \o seqs[n + 1]
      BY <1>7, <3>1
    <3> QED  BY <1>1, <2>2, <3>1, <3>2
  <2>3. \A n \in 0..N : n < N => n + 1 \in 0..N
    BY <1>1
  <2> HIDE DEF f, V, N
  <2> QED  BY <1>1, <2>1, <2>2, <2>3, UpToN
<1> QED  BY <1>7, <1>8

(* Joining sequences keeps their members.                                  *)
LEMMA JoinedMembers ==
    ASSUME NEW T, NEW seqs \in Seq(Seq(T))
    PROVE  /\ Joined(seqs) \in Seq(T)
           /\ SetOf(Joined(seqs)) = UNION {SetOf(seqs[l]) : l \in DOMAIN seqs}
<1> DEFINE N == Len(seqs)
           f == Joining(seqs)
           First(n) == UNION {SetOf(seqs[l]) : l \in 1..n}
           S == {n \in 0..N : SetOf(f[n]) = First(n)}
<1>1. N \in Nat /\ \A n \in 1..N : seqs[n] \in Seq(T)
  OBVIOUS
<1>2. /\ f[0] = <<>>
      /\ \A n \in 1..N : f[n] = f[n - 1] \o seqs[n]
      /\ \A n \in 0..N : f[n] \in Seq(T)
  BY JoiningIs
<1>3. 0 \in S
  BY <1>1, <1>2 DEF SetOf
<1>4. ASSUME NEW n \in 0..N, n < N, n \in S
      PROVE  n + 1 \in S
  <2>1. n + 1 \in 1..N /\ n + 1 \in 0..N /\ (n + 1) - 1 = n
    BY <1>1, <1>4
  <2>2. f[n + 1] = f[n] \o seqs[n + 1] /\ f[n] \in Seq(T) /\ seqs[n + 1] \in Seq(T)
    BY <1>1, <1>2, <2>1
  <2>3. SetOf(f[n + 1]) = SetOf(f[n]) \cup SetOf(seqs[n + 1])
    <3>1. ASSUME NEW p \in Seq(T), NEW q \in Seq(T)
          PROVE  SetOf(p \o q) = SetOf(p) \cup SetOf(q)
      <4>1. \A i \in 1..Len(q) : Len(p) + i \in 1..Len(p \o q)
                                 /\ (p \o q)[Len(p) + i] = q[i]
        OBVIOUS
      <4>2. \A i \in 1..Len(p) : i \in 1..Len(p \o q) /\ (p \o q)[i] = p[i]
        OBVIOUS
      <4>3. \A i \in 1..Len(p \o q) : i \in 1..Len(p) \/
               (i - Len(p) \in 1..Len(q) /\ (p \o q)[i] = q[i - Len(p)])
        OBVIOUS
      <4>4. DOMAIN p = 1..Len(p) /\ DOMAIN q = 1..Len(q)
            /\ DOMAIN (p \o q) = 1..Len(p \o q)
        OBVIOUS
      <4>5. ASSUME NEW x \in SetOf(p \o q)
            PROVE  x \in SetOf(p) \cup SetOf(q)
        <5>1. PICK i \in 1..Len(p \o q) : x = (p \o q)[i]
          BY <4>4 DEF SetOf
        <5> QED  BY <4>2, <4>3, <4>4, <5>1 DEF SetOf
      <4>6. SetOf(p) \subseteq SetOf(p \o q) /\ SetOf(q) \subseteq SetOf(p \o q)
        <5>1. \A i \in 1..Len(p) : p[i] \in SetOf(p \o q)
          BY <4>2, <4>4, Zenon DEF SetOf
        <5>2. \A i \in 1..Len(q) : q[i] \in SetOf(p \o q)
          BY <4>1, <4>4, Zenon DEF SetOf
        <5> QED  BY <4>4, <5>1, <5>2 DEF SetOf
      <4> QED  BY <4>5, <4>6
    <3> QED  BY <2>2, <3>1
  <2>4. First(n + 1) = First(n) \cup SetOf(seqs[n + 1])
    <3>1. 1..n + 1 = 1..n \cup {n + 1}
      BY <1>1
    <3> QED  BY <3>1
  <2> QED  BY <1>4, <2>1, <2>3, <2>4
<1>5. N \in S
  <2>1. N \in Nat
    OBVIOUS
  <2>2. \A n \in 0..N : n < N /\ n \in S => n + 1 \in S
    BY <1>4
  <2>3. \A n \in 0..N : n \in S
    <3> HIDE DEF S, N
    <3> QED  BY <1>3, <2>1, <2>2, UpToN
  <2>4. N \in 0..N
    BY <2>1
  <2> HIDE DEF S, N
  <2> QED  BY <2>3, <2>4
<1>6. N \in 0..N /\ DOMAIN seqs = 1..N
  OBVIOUS
<1> QED  BY <1>2, <1>5, <1>6 DEF Joined

-----------------------------------------------------------------------------
(* Sequences whose members are told apart by their content.                *)

(* The members of a concatenation.                                         *)
LEMMA ConcatIs ==
    ASSUME NEW T, NEW p \in Seq(T), NEW q \in Seq(T)
    PROVE  /\ p \o q \in Seq(T)
           /\ Len(p \o q) = Len(p) + Len(q)
           /\ \A i \in 1..Len(p) : (p \o q)[i] = p[i]
           /\ \A i \in 1..Len(q) : (p \o q)[Len(p) + i] = q[i]
           /\ \A i \in 1..Len(p \o q) :
                 i \in 1..Len(p) \/ \E j \in 1..Len(q) : i = Len(p) + j
           /\ SetOf(p \o q) = SetOf(p) \cup SetOf(q)
<1> DEFINE r == p \o q
<1>1. /\ r \in Seq(T) /\ Len(r) = Len(p) + Len(q)
      /\ Len(p) \in Nat /\ Len(q) \in Nat
      /\ DOMAIN p = 1..Len(p) /\ DOMAIN q = 1..Len(q) /\ DOMAIN r = 1..Len(r)
  OBVIOUS
<1>2. \A i \in 1..Len(p) : r[i] = p[i]
  OBVIOUS
<1>3. \A i \in 1..Len(q) : r[Len(p) + i] = q[i]
  OBVIOUS
<1> HIDE DEF r
<1>4. \A i \in 1..Len(r) : i \in 1..Len(p) \/ \E j \in 1..Len(q) : i = Len(p) + j
  <2>1. ASSUME NEW i \in 1..Len(r), i \notin 1..Len(p)
        PROVE  i - Len(p) \in 1..Len(q) /\ i = Len(p) + (i - Len(p))
    BY <1>1, <2>1
  <2> QED  BY <2>1
<1>5. \A i \in 1..Len(p) : i \in 1..Len(r)
  BY <1>1
<1>6. \A i \in 1..Len(q) : Len(p) + i \in 1..Len(r)
  BY <1>1
<1>7. SetOf(r) = SetOf(p) \cup SetOf(q)
  <2>1. ASSUME NEW x \in SetOf(r)
        PROVE  x \in SetOf(p) \cup SetOf(q)
    <3>1. PICK i \in 1..Len(r) : x = r[i]
      BY <1>1 DEF SetOf
    <3> QED  BY <1>1, <1>2, <1>3, <1>4, <3>1 DEF SetOf
  <2>2. \A i \in 1..Len(p) : p[i] \in SetOf(r)
    BY <1>1, <1>2, <1>5, Zenon DEF SetOf
  <2>3. \A i \in 1..Len(q) : q[i] \in SetOf(r)
    BY <1>1, <1>3, <1>6, Zenon DEF SetOf
  <2> QED  BY <1>1, <2>1, <2>2, <2>3 DEF SetOf
<1> QED  BY <1>1, <1>2, <1>3, <1>4, <1>7 DEF r

(* The members of a sequence with one more.                                *)
LEMMA AppendIs ==
    ASSUME NEW T, NEW p \in Seq(T), NEW x \in T
    PROVE  /\ Append(p, x) \in Seq(T)
           /\ Len(Append(p, x)) = Len(p) + 1
           /\ \A i \in 1..Len(p) : Append(p, x)[i] = p[i]
           /\ Append(p, x)[Len(p) + 1] = x
           /\ SetOf(Append(p, x)) = SetOf(p) \cup {x}
<1> DEFINE r == Append(p, x)
<1>1. /\ r \in Seq(T) /\ Len(r) = Len(p) + 1 /\ Len(p) \in Nat
      /\ DOMAIN p = 1..Len(p) /\ DOMAIN r = 1..Len(r)
      /\ \A i \in 1..Len(p) : r[i] = p[i]
      /\ r[Len(p) + 1] = x
  OBVIOUS
<1> HIDE DEF r
<1>2. DOMAIN r = 1..Len(p) \cup {Len(p) + 1}
  BY <1>1
<1>3. SetOf(r) = SetOf(p) \cup {x}
  BY <1>1, <1>2 DEF SetOf
<1> QED  BY <1>1, <1>3 DEF r

(* Distinct members are as many as there are positions.                    *)
LEMMA DistinctIs ==
    ASSUME NEW T, NEW s \in Seq(T)
    PROVE  /\ IsFiniteSet(SetOf(s))
           /\ Cardinality(SetOf(s)) \in Nat
           /\ Cardinality(SetOf(s)) <= Len(s)
           /\ Cardinality(SetOf(s)) = Len(s) <=> Distinct(s)
<1> DEFINE D == 1..Len(s)
<1>1. Len(s) \in Nat /\ DOMAIN s = D /\ s \in [D -> SetOf(s)]
  BY DEF SetOf
<1>2. IsFiniteSet(D) /\ Cardinality(D) = Len(s)
  <2>1. /\ 1 \in Int /\ Len(s) \in Int
        /\ (IF 1 > Len(s) THEN 0 ELSE Len(s) - 1 + 1) = Len(s)
    BY <1>1
  <2> QED  BY <2>1, FS_Interval
<1>3. \A x \in SetOf(s) : \E i \in D : s[i] = x
  BY <1>1 DEF SetOf
<1> HIDE DEF D
<1>4. s \in Surjection(D, SetOf(s))
  BY <1>1, <1>3 DEF Surjection
<1>5. s \in Injection(D, SetOf(s)) <=> Distinct(s)
  BY <1>1 DEF Injection, IsInjective, Distinct
<1>6. /\ IsFiniteSet(SetOf(s))
      /\ Cardinality(SetOf(s)) <= Cardinality(D)
      /\ Cardinality(SetOf(s)) = Cardinality(D) <=> s \in Injection(D, SetOf(s))
  BY <1>2, <1>4, FS_Surjection
<1>7. Cardinality(SetOf(s)) \in Nat
  BY <1>6, FS_CardinalityType
<1> QED  BY <1>2, <1>5, <1>6, <1>7

(* Two sequences with the same members and of the same length are distinct *)
(* together.                                                               *)
LEMMA DistinctSame ==
    ASSUME NEW T, NEW s \in Seq(T), NEW U, NEW t \in Seq(U),
           SetOf(s) = SetOf(t), Len(s) = Len(t)
    PROVE  Distinct(s) <=> Distinct(t)
BY DistinctIs

(* Two sequences without repetitions and without a common member have none *)
(* together.                                                               *)
LEMMA DistinctConcat ==
    ASSUME NEW T, NEW p \in Seq(T), NEW q \in Seq(T),
           Distinct(p), Distinct(q), SetOf(p) \cap SetOf(q) = {}
    PROVE  Distinct(p \o q)
<1> DEFINE r == p \o q
<1>1. /\ Len(r) = Len(p) + Len(q) /\ r \in Seq(T)
      /\ \A i \in 1..Len(p) : r[i] = p[i]
      /\ \A i \in 1..Len(q) : r[Len(p) + i] = q[i]
      /\ \A i \in 1..Len(r) : i \in 1..Len(p) \/ \E j \in 1..Len(q) : i = Len(p) + j
  BY ConcatIs
<1> HIDE DEF r
<1>2. DOMAIN p = 1..Len(p) /\ DOMAIN q = 1..Len(q) /\ DOMAIN r = 1..Len(r)
  BY <1>1
<1>3. \A i \in 1..Len(p) : \A j \in 1..Len(q) : p[i] # q[j]
  BY <1>2 DEF SetOf
<1>4. ASSUME NEW i \in 1..Len(r), NEW k \in 1..Len(r), r[i] = r[k]
      PROVE  i = k
  <2>1. CASE i \in 1..Len(p) /\ k \in 1..Len(p)
    BY <1>1, <1>2, <1>4, <2>1, Zenon DEF Distinct
  <2>2. ASSUME NEW a \in 1..Len(p), NEW b \in 1..Len(q), r[a] = r[Len(p) + b]
        PROVE  FALSE
    BY <1>1, <1>3, <2>2
  <2>3. ASSUME NEW a \in 1..Len(q), NEW b \in 1..Len(q), r[Len(p) + a] = r[Len(p) + b]
        PROVE  a = b
    <3>1. r[Len(p) + a] = q[a] /\ r[Len(p) + b] = q[b]
      BY <1>1
    <3>2. q[a] = q[b]
      BY <2>3, <3>1
    <3> QED  BY <1>2, <3>2, Zenon DEF Distinct
  <2>4. CASE i \in 1..Len(p) /\ k \notin 1..Len(p)
    BY <1>1, <1>4, <2>2, <2>4
  <2>5. CASE i \notin 1..Len(p) /\ k \in 1..Len(p)
    BY <1>1, <1>4, <2>2, <2>5
  <2>6. CASE i \notin 1..Len(p) /\ k \notin 1..Len(p)
    BY <1>1, <1>4, <2>3, <2>6
  <2> QED  BY <2>1, <2>4, <2>5, <2>6
<1>5. Distinct(r)
  BY <1>2, <1>4 DEF Distinct
<1> QED  BY <1>5 DEF r

(* So have a sequence and a member that it lacks.                          *)
LEMMA DistinctAppend ==
    ASSUME NEW T, NEW p \in Seq(T), NEW x \in T
    PROVE  Distinct(Append(p, x)) <=> Distinct(p) /\ x \notin SetOf(p)
<1> DEFINE r == Append(p, x)
<1>1. /\ r \in Seq(T) /\ Len(r) = Len(p) + 1 /\ Len(p) \in Nat
      /\ \A i \in 1..Len(p) : r[i] = p[i]
      /\ r[Len(p) + 1] = x
  BY AppendIs
<1> HIDE DEF r
<1>2. /\ DOMAIN p = 1..Len(p) /\ DOMAIN r = 1..Len(p) \cup {Len(p) + 1}
      /\ Len(p) + 1 \notin 1..Len(p)
  BY <1>1
<1>3. Distinct(r) <=> Distinct(p) /\ x \notin SetOf(p)
  BY <1>1, <1>2 DEF Distinct, SetOf
<1> QED  BY <1>3 DEF r

-----------------------------------------------------------------------------
(* More about sequences joined.                                            *)

(* The length of the sequences joined so far.                              *)
LEMMA JoiningLength ==
    ASSUME NEW T, NEW seqs \in Seq(Seq(T))
    PROVE  /\ Len(seqs) \in Nat /\ DOMAIN seqs = 1..Len(seqs)
           /\ \A n \in 1..Len(seqs) : seqs[n] \in Seq(T) /\ Len(seqs[n]) \in Nat
           /\ \A n \in 0..Len(seqs) : Len(Joining(seqs)[n]) \in Nat
           /\ Len(Joining(seqs)[0]) = 0
           /\ \A n \in 1..Len(seqs) :
                 Len(Joining(seqs)[n]) = Len(Joining(seqs)[n - 1]) + Len(seqs[n])
           /\ Joined(seqs) \in Seq(T) /\ Len(Joined(seqs)) = Len(Joining(seqs)[Len(seqs)])
<1> DEFINE f == Joining(seqs)
           N == Len(seqs)
<1>1. /\ N \in Nat /\ DOMAIN seqs = 1..N
      /\ \A n \in 1..N : seqs[n] \in Seq(T)
  OBVIOUS
<1>2. /\ f[0] = <<>>
      /\ \A n \in 1..N : f[n] = f[n - 1] \o seqs[n]
      /\ \A n \in 0..N : f[n] \in Seq(T)
  BY JoiningIs
<1>3. Joined(seqs) = f[N] /\ N \in 0..N
  BY <1>1 DEF Joined
<1> HIDE DEF f, N
<1>4. \A s \in Seq(T) : Len(s) \in Nat
  OBVIOUS
<1>5. ASSUME NEW n \in 1..N
      PROVE  Len(f[n]) = Len(f[n - 1]) + Len(seqs[n])
  <2>1. n - 1 \in 0..N
    BY <1>1
  <2>2. f[n - 1] \in Seq(T) /\ seqs[n] \in Seq(T) /\ f[n] = f[n - 1] \o seqs[n]
    BY <1>1, <1>2, <2>1
  <2> QED  BY <2>2
<1>6. Len(f[0]) = 0
  BY <1>2
<1>7. /\ \A n \in 1..N : seqs[n] \in Seq(T) /\ Len(seqs[n]) \in Nat
      /\ \A n \in 0..N : Len(f[n]) \in Nat
  BY <1>1, <1>2, <1>4
<1>8. Joined(seqs) \in Seq(T)
  BY <1>2, <1>3
<1> QED  BY <1>1, <1>3, <1>5, <1>6, <1>7, <1>8 DEF f, N

(* Their members.                                                          *)
LEMMA JoiningMembers ==
    ASSUME NEW T, NEW seqs \in Seq(Seq(T))
    PROVE  \A n \in 0..Len(seqs) :
              SetOf(Joining(seqs)[n]) = UNION {SetOf(seqs[l]) : l \in 1..n}
<1> DEFINE f == Joining(seqs)
           N == Len(seqs)
           First(n) == UNION {SetOf(seqs[l]) : l \in 1..n}
           S == {n \in 0..N : SetOf(f[n]) = First(n)}
<1>1. N \in Nat /\ \A n \in 1..N : seqs[n] \in Seq(T)
  OBVIOUS
<1>2. /\ f[0] = <<>>
      /\ \A n \in 1..N : f[n] = f[n - 1] \o seqs[n]
      /\ \A n \in 0..N : f[n] \in Seq(T)
  BY JoiningIs
<1>3. 0 \in S
  BY <1>1, <1>2 DEF SetOf
<1>4. ASSUME NEW n \in 0..N, n < N, n \in S
      PROVE  n + 1 \in S
  <2>1. n + 1 \in 1..N /\ n + 1 \in 0..N /\ (n + 1) - 1 = n
        /\ 1..n + 1 = 1..n \cup {n + 1}
    BY <1>1, <1>4
  <2>2. f[n + 1] = f[n] \o seqs[n + 1] /\ f[n] \in Seq(T) /\ seqs[n + 1] \in Seq(T)
    BY <1>1, <1>2, <2>1
  <2>3. SetOf(f[n + 1]) = SetOf(f[n]) \cup SetOf(seqs[n + 1])
    <3> HIDE DEF f
    <3> QED  BY <2>2, ConcatIs
  <2>4. First(n + 1) = First(n) \cup SetOf(seqs[n + 1])
    BY <2>1
  <2> HIDE DEF f, First
  <2> QED  BY <1>4, <2>1, <2>3, <2>4
<1> HIDE DEF f, First, N
<1>5. \A n \in 0..N : n < N /\ n \in S => n + 1 \in S
  BY <1>4
<1>6. \A n \in 0..N : n \in S
  <2> HIDE DEF S
  <2> QED  BY <1>1, <1>3, <1>5, UpToN
<1> QED  BY <1>6 DEF f, First, N

(* The first sequences decide how they are joined.                         *)
LEMMA JoiningPrefix ==
    ASSUME NEW T, NEW s \in Seq(Seq(T)), NEW t \in Seq(Seq(T)),
           NEW k \in Nat, k <= Len(s), k <= Len(t), \A i \in 1..k : s[i] = t[i]
    PROVE  Joining(s)[k] = Joining(t)[k]
<1> DEFINE f == Joining(s)
           g == Joining(t)
           S == {n \in 0..k : f[n] = g[n]}
<1>1. /\ f[0] = <<>> /\ \A n \in 1..Len(s) : f[n] = f[n - 1] \o s[n]
      /\ g[0] = <<>> /\ \A n \in 1..Len(t) : g[n] = g[n - 1] \o t[n]
  BY JoiningIs
<1>2. Len(s) \in Nat /\ Len(t) \in Nat
  OBVIOUS
<1> HIDE DEF f, g
<1>3. 0 \in S
  BY <1>1
<1>4. ASSUME NEW n \in 0..k, n < k, n \in S
      PROVE  n + 1 \in S
  <2>1. n + 1 \in 1..Len(s) /\ n + 1 \in 1..Len(t) /\ n + 1 \in 0..k
        /\ n + 1 \in 1..k /\ (n + 1) - 1 = n
    BY <1>2, <1>4
  <2> QED  BY <1>1, <1>4, <2>1
<1>5. \A n \in 0..k : n < k /\ n \in S => n + 1 \in S
  BY <1>4
<1>6. \A n \in 0..k : n \in S
  <2> HIDE DEF S
  <2> QED  BY <1>3, <1>5, UpToN
<1>7. k \in 0..k
  OBVIOUS
<1> QED  BY <1>6, <1>7 DEF f, g

(* One more sequence is joined at the end.                                 *)
LEMMA JoinedAppend ==
    ASSUME NEW T, NEW s \in Seq(Seq(T)), NEW r \in Seq(T)
    PROVE  /\ Append(s, r) \in Seq(Seq(T))
           /\ Joined(Append(s, r)) = Joined(s) \o r
<1> DEFINE t == Append(s, r)
           k == Len(s)
<1>1. /\ t \in Seq(Seq(T)) /\ Len(t) = k + 1 /\ k \in Nat
      /\ \A i \in 1..k : t[i] = s[i]
      /\ t[k + 1] = r
  OBVIOUS
<1>2. k + 1 \in 1..Len(t) /\ (k + 1) - 1 = k /\ k <= Len(s) /\ k <= Len(t)
  BY <1>1
<1> HIDE DEF t, k
<1>3. Joining(t)[k + 1] = Joining(t)[(k + 1) - 1] \o t[k + 1]
  BY <1>1, <1>2, JoiningIs
<1>4. Joining(s)[k] = Joining(t)[k]
  BY <1>1, <1>2, JoiningPrefix
<1>5. Joined(t) = Joining(t)[k + 1] /\ Joined(s) = Joining(s)[k]
  BY <1>1 DEF Joined, k
<1> QED  BY <1>1, <1>2, <1>3, <1>4, <1>5 DEF t

(* The elements of s after the first d, up to the e-th.                    *)
PartOf(g, s, d, e) ==
    /\ d <= e /\ e <= Len(s) /\ Len(g) = e - d
    /\ \A i \in 1..(e - d) : g[i] = s[d + i]

(* A subsequence is such a part.                                           *)
LEMMA PartIs ==
    ASSUME NEW T, NEW s \in Seq(T), NEW d \in Nat, NEW e \in Nat, d <= e, e <= Len(s)
    PROVE  SubSeq(s, d + 1, e) \in Seq(T) /\ PartOf(SubSeq(s, d + 1, e), s, d, e)
<1> DEFINE g == SubSeq(s, d + 1, e)
<1>1. Len(s) \in Nat /\ e - d \in Nat /\ \A i \in 1..(e - d) : d + i \in 1..Len(s)
  OBVIOUS
<1>2. DOMAIN s = 1..Len(s) /\ \A i \in 1..Len(s) : s[i] \in T
  OBVIOUS
<1>3. g = [i \in 1..(e - d) |-> s[d + i]]
  OBVIOUS
<1>4. g \in [1..(e - d) -> T]
  BY <1>1, <1>2, <1>3
<1>5. g \in Seq(T) /\ Len(g) = e - d
  BY <1>1, <1>4
<1>6. \A i \in 1..(e - d) : g[i] = s[d + i]
  BY <1>3
<1> HIDE DEF g
<1>7. PartOf(g, s, d, e)
  BY <1>5, <1>6 DEF PartOf
<1> QED
  BY <1>5, <1>7 DEF g

(* What a sequence of sequences joins to is what a first part of it joins  *)
(* to, and then what the group after it does.                              *)
LEMMA JoiningGroup ==
    ASSUME NEW T, NEW s \in Seq(Seq(T)), NEW d \in Nat, NEW e \in Nat,
           NEW g \in Seq(Seq(T)), PartOf(g, s, d, e)
    PROVE  Len(Joining(s)[e]) = Len(Joining(s)[d]) + Len(Joined(g))
<1> USE DEF PartOf
<1> DEFINE K == e - d
           S == {k \in 0..K : Len(Joining(s)[d + k]) = Len(Joining(s)[d]) + Len(Joining(g)[k])}
<1>1. /\ g \in Seq(Seq(T)) /\ Len(g) = K /\ K \in Nat /\ Len(s) \in Nat
      /\ \A i \in 1..K : g[i] = s[d + i]
  OBVIOUS
<1>2. /\ \A n \in 0..K : Len(Joining(g)[n]) \in Nat
      /\ Len(Joining(g)[0]) = 0
      /\ \A n \in 1..K :
            Len(Joining(g)[n]) = Len(Joining(g)[n - 1]) + Len(g[n])
      /\ Len(Joined(g)) = Len(Joining(g)[K])
  BY <1>1, JoiningLength
<1>3. /\ \A n \in 0..Len(s) : Len(Joining(s)[n]) \in Nat
      /\ \A n \in 1..Len(s) :
            Len(Joining(s)[n]) = Len(Joining(s)[n - 1]) + Len(s[n])
      /\ \A n \in 1..Len(s) : Len(s[n]) \in Nat
  BY JoiningLength
<1>4. 0 \in S
  <2>1. d + 0 = d /\ d \in 0..Len(s) /\ 0 \in 0..K
    BY <1>1
  <2>2. Len(Joining(s)[d]) \in Nat
    BY <1>3, <2>1
  <2>3. \A a \in Nat : a + 0 = a
    OBVIOUS
  <2>4. Len(Joining(s)[d + 0]) = Len(Joining(s)[d]) + Len(Joining(g)[0])
    BY <1>2, <2>1, <2>2, <2>3, Zenon
  <2> QED  BY <2>1, <2>4
<1>5. ASSUME NEW k \in 0..K, k < K, k \in S
      PROVE  k + 1 \in S
  <2>1. /\ k + 1 \in 1..K /\ k + 1 \in 0..K /\ (k + 1) - 1 = k
        /\ d + (k + 1) \in 1..Len(s) /\ (d + (k + 1)) - 1 = d + k
        /\ d + k \in 0..Len(s) /\ d \in 0..Len(s)
    BY <1>1, <1>5
  <2>2. Len(Joining(s)[d + (k + 1)]) = Len(Joining(s)[d + k]) + Len(s[d + (k + 1)])
    BY <1>3, <2>1
  <2>3. Len(Joining(g)[k + 1]) = Len(Joining(g)[k]) + Len(s[d + (k + 1)])
    BY <1>1, <1>2, <2>1
  <2>4. /\ Len(Joining(s)[d]) \in Nat /\ Len(Joining(g)[k]) \in Nat
        /\ Len(s[d + (k + 1)]) \in Nat
    BY <1>2, <1>3, <2>1
  <2>5. Len(Joining(s)[d + k]) = Len(Joining(s)[d]) + Len(Joining(g)[k])
    BY <1>5
  <2>6. \A a, b, c \in Nat : (a + b) + c = a + (b + c)
    OBVIOUS
  <2>7. (Len(Joining(s)[d]) + Len(Joining(g)[k])) + Len(s[d + (k + 1)])
          = Len(Joining(s)[d]) + (Len(Joining(g)[k]) + Len(s[d + (k + 1)]))
    <3> DEFINE a == Len(Joining(s)[d])
               b == Len(Joining(g)[k])
               c == Len(s[d + (k + 1)])
    <3>1. a \in Nat /\ b \in Nat /\ c \in Nat
      BY <2>4
    <3> HIDE DEF a, b, c
    <3>2. (a + b) + c = a + (b + c)
      BY <2>6, <3>1
    <3> QED  BY <3>2 DEF a, b, c
  <2>8. Len(Joining(s)[d + (k + 1)]) = Len(Joining(s)[d]) + Len(Joining(g)[k + 1])
    BY <2>2, <2>3, <2>5, <2>7, Zenon
  <2> QED  BY <2>1, <2>8
<1>6. Len(Joining(s)[e]) = Len(Joining(s)[d]) + Len(Joined(g))
  <2>1. \A k \in 0..K : k < K /\ k \in S => k + 1 \in S
    BY <1>5
  <2>2. \A k \in 0..K : k \in S
    <3> HIDE DEF S, K
    <3> QED  BY <1>1, <1>4, <2>1, UpToN
  <2>3. K \in S
    <3>1. K \in 0..K
      BY <1>1
    <3> HIDE DEF S, K
    <3> QED  BY <2>2, <3>1
  <2>4. d + K = e
    OBVIOUS
  <2> QED  BY <1>2, <2>3, <2>4
<1> QED  BY <1>6

(* The members joined so far, before a group and after it.                 *)
LEMMA JoiningGroupMembers ==
    ASSUME NEW T, NEW s \in Seq(Seq(T)), NEW d \in Nat, NEW e \in Nat,
           NEW g \in Seq(Seq(T)), PartOf(g, s, d, e)
    PROVE  SetOf(Joining(s)[e]) = SetOf(Joining(s)[d]) \cup SetOf(Joined(g))
<1> USE DEF PartOf
<1> DEFINE K == e - d
<1>0. /\ g \in Seq(Seq(T)) /\ Len(g) = K /\ K \in Nat /\ Len(s) \in Nat
      /\ \A i \in 1..K : g[i] = s[d + i]
  OBVIOUS
<1>1. /\ SetOf(Joining(s)[e]) = UNION {SetOf(s[l]) : l \in 1..e}
      /\ SetOf(Joining(s)[d]) = UNION {SetOf(s[l]) : l \in 1..d}
  <2>1. d \in 0..Len(s) /\ e \in 0..Len(s)
    BY <1>0
  <2> QED  BY <2>1, JoiningMembers
<1>2. SetOf(Joined(g)) = UNION {SetOf(g[l]) : l \in 1..K}
  <2>1. DOMAIN g = 1..K
    BY <1>0
  <2> QED  BY <1>0, <2>1, JoinedMembers
<1>3. UNION {SetOf(g[l]) : l \in 1..K} = UNION {SetOf(s[l]) : l \in d + 1..e}
  <2>1. ASSUME NEW l \in 1..K
        PROVE  d + l \in d + 1..e /\ g[l] = s[d + l]
    BY <1>0
  <2>2. ASSUME NEW l \in d + 1..e
        PROVE  l - d \in 1..K /\ g[l - d] = s[l]
    <3>1. l - d \in 1..K /\ d + (l - d) = l
      OBVIOUS
    <3> QED  BY <1>0, <3>1
  <2> HIDE DEF K
  <2>3. \A l \in 1..K : SetOf(g[l]) \in {SetOf(s[m]) : m \in d + 1..e}
    BY <2>1
  <2>4. \A m \in d + 1..e : SetOf(s[m]) \in {SetOf(g[l]) : l \in 1..K}
    BY <2>2
  <2> QED  BY <2>3, <2>4
<1>4. 1..e = 1..d \cup (d + 1..e)
  OBVIOUS
<1>5. (UNION {SetOf(s[l]) : l \in 1..e}) =
         (UNION {SetOf(s[l]) : l \in 1..d}) \cup (UNION {SetOf(s[l]) : l \in d + 1..e})
  <2> DEFINE A == 1..d
             B == d + 1..e
  <2>1. 1..e = A \cup B
    BY <1>4
  <2> HIDE DEF A, B
  <2>2. (UNION {SetOf(s[l]) : l \in A \cup B}) =
           (UNION {SetOf(s[l]) : l \in A}) \cup (UNION {SetOf(s[l]) : l \in B})
    OBVIOUS
  <2> QED  BY <2>1, <2>2 DEF A, B
<1> HIDE DEF K
<1> QED  BY <1>1, <1>2, <1>3, <1>5

(* A member less in one of the sequences is a member less in all of them.  *)
LEMMA JoinedTail ==
    ASSUME NEW T, NEW s \in Seq(Seq(T)), NEW t \in Seq(Seq(T)), NEW i \in DOMAIN s,
           s[i] # <<>>, Len(t) = Len(s), t[i] = Tail(s[i]),
           \A n \in DOMAIN s : n # i => t[n] = s[n]
    PROVE  Len(Joined(s)) = Len(Joined(t)) + 1
<1> DEFINE N == Len(s)
           S == {n \in 0..N : Len(Joining(s)[n]) =
                                Len(Joining(t)[n]) + (IF n >= i THEN 1 ELSE 0)}
<1>1. N \in Nat /\ i \in 1..N /\ s[i] \in Seq(T) /\ Tail(s[i]) \in Seq(T)
      /\ Len(s[i]) = Len(Tail(s[i])) + 1 /\ Len(Tail(s[i])) \in Nat
      /\ DOMAIN s = 1..N
  OBVIOUS
<1>2. t \in Seq(Seq(T)) /\ Len(t) = N /\ t[i] = Tail(s[i])
      /\ \A n \in 1..N : n # i => t[n] = s[n]
  BY <1>1
<1>3. /\ \A n \in 0..N : Len(Joining(s)[n]) \in Nat
      /\ Len(Joining(s)[0]) = 0
      /\ \A n \in 1..N : Len(Joining(s)[n]) = Len(Joining(s)[n - 1]) + Len(s[n])
      /\ Len(Joined(s)) = Len(Joining(s)[N])
      /\ \A n \in 1..N : Len(s[n]) \in Nat
  BY JoiningLength
<1>4. /\ \A n \in 0..N : Len(Joining(t)[n]) \in Nat
      /\ Len(Joining(t)[0]) = 0
      /\ \A n \in 1..N : Len(Joining(t)[n]) = Len(Joining(t)[n - 1]) + Len(t[n])
      /\ Len(Joined(t)) = Len(Joining(t)[N])
  BY <1>2, JoiningLength
<1> HIDE DEF N
<1>5. 0 \in S
  <2>1. 0 \in 0..N /\ ~(0 >= i)
    BY <1>1
  <2>2. Len(Joining(s)[0]) = Len(Joining(t)[0]) + (IF 0 >= i THEN 1 ELSE 0)
    <3>1. 0 + 0 = 0
      OBVIOUS
    <3> QED  BY <1>3, <1>4, <2>1, <3>1, Zenon
  <2> QED  BY <2>1, <2>2
<1>6. ASSUME NEW n \in 0..N, n < N, n \in S
      PROVE  n + 1 \in S
  <2>1. n + 1 \in 1..N /\ n + 1 \in 0..N /\ (n + 1) - 1 = n
    BY <1>1, <1>6
  <2>2. /\ Len(Joining(s)[n + 1]) = Len(Joining(s)[n]) + Len(s[n + 1])
        /\ Len(Joining(t)[n + 1]) = Len(Joining(t)[n]) + Len(t[n + 1])
    BY <1>3, <1>4, <2>1
  <2>3. /\ Len(Joining(s)[n]) \in Nat /\ Len(Joining(t)[n]) \in Nat
        /\ Len(s[n + 1]) \in Nat
    BY <1>3, <1>4, <2>1
  <2>4. Len(Joining(s)[n]) = Len(Joining(t)[n]) + (IF n >= i THEN 1 ELSE 0)
    BY <1>6
  <2>5. CASE n + 1 = i
    <3>1. Len(s[n + 1]) = Len(t[n + 1]) + 1 /\ Len(t[n + 1]) \in Nat
          /\ ~(n >= i) /\ n + 1 >= i
      BY <1>1, <1>2, <2>5
    <3>2. \A a, b \in Nat : (a + 0) + (b + 1) = (a + b) + 1
      OBVIOUS
    <3>3. Len(Joining(s)[n + 1]) = (Len(Joining(t)[n]) + 0) + (Len(t[n + 1]) + 1)
      BY <2>2, <2>4, <3>1, Zenon
    <3>4. Len(Joining(s)[n + 1]) = Len(Joining(t)[n + 1]) + 1
      BY <2>2, <2>3, <3>1, <3>2, <3>3, Zenon
    <3> QED  BY <2>1, <3>1, <3>4
  <2>6. CASE n + 1 # i
    <3>1. t[n + 1] = s[n + 1] /\ (n + 1 >= i <=> n >= i)
      BY <1>1, <1>2, <2>1, <2>6
    <3> DEFINE x == IF n >= i THEN 1 ELSE 0
    <3>2. x \in Nat
      OBVIOUS
    <3>3. \A a, b, c \in Nat : (a + c) + b = (a + b) + c
      OBVIOUS
    <3>4. Len(Joining(s)[n]) = Len(Joining(t)[n]) + x
      BY <2>4
    <3>5. x = IF n + 1 >= i THEN 1 ELSE 0
      BY <3>1
    <3> HIDE DEF x
    <3>6. Len(Joining(s)[n + 1]) = (Len(Joining(t)[n]) + x) + Len(s[n + 1])
      BY <2>2, <3>4, Zenon
    <3>7. Len(Joining(t)[n + 1]) = Len(Joining(t)[n]) + Len(s[n + 1])
      BY <2>2, <3>1
    <3>8. (Len(Joining(t)[n]) + x) + Len(s[n + 1])
             = (Len(Joining(t)[n]) + Len(s[n + 1])) + x
      BY <2>3, <3>2, <3>3, Zenon
    <3>9. Len(Joining(s)[n + 1]) = Len(Joining(t)[n + 1]) + x
      BY <3>6, <3>7, <3>8, Zenon
    <3> QED  BY <2>1, <3>5, <3>9
  <2> QED  BY <2>5, <2>6
<1>7. N \in S
  <2>1. \A n \in 0..N : n < N /\ n \in S => n + 1 \in S
    BY <1>6
  <2>2. \A n \in 0..N : n \in S
    <3> HIDE DEF S
    <3> QED  BY <1>1, <1>5, <2>1, UpToN
  <2>3. N \in 0..N
    BY <1>1
  <2> HIDE DEF S
  <2> QED  BY <2>2, <2>3
<1>8. Len(Joined(s)) = Len(Joined(t)) + 1
  BY <1>1, <1>3, <1>4, <1>7
<1> QED  BY <1>2, <1>8 DEF N

(* Sequences that are distinct and disjoint join to a distinct one.        *)
LEMMA JoinedDistinct ==
    ASSUME NEW T, NEW s \in Seq(Seq(T)), \A i \in DOMAIN s : Distinct(s[i]),
           \A i, j \in DOMAIN s : i # j => SetOf(s[i]) \cap SetOf(s[j]) = {}
    PROVE  Distinct(Joined(s))
<1> DEFINE f == Joining(s)
           N == Len(s)
           S == {n \in 0..N : Distinct(f[n])}
<1>1. N \in Nat /\ DOMAIN s = 1..N /\ \A n \in 1..N : s[n] \in Seq(T)
  OBVIOUS
<1>2. /\ f[0] = <<>>
      /\ \A n \in 1..N : f[n] = f[n - 1] \o s[n]
      /\ \A n \in 0..N : f[n] \in Seq(T)
  BY JoiningIs
<1>3. \A n \in 0..N : SetOf(f[n]) = UNION {SetOf(s[l]) : l \in 1..n}
  BY JoiningMembers
<1>4. Joined(s) = f[N]
  BY DEF Joined
<1> HIDE DEF f, N
<1>5. 0 \in S
  <2>1. Distinct(<<>>)
    BY DEF Distinct
  <2> QED  BY <1>1, <1>2, <2>1
<1>6. ASSUME NEW n \in 0..N, n < N, n \in S
      PROVE  n + 1 \in S
  <2>1. n + 1 \in 1..N /\ n + 1 \in 0..N /\ (n + 1) - 1 = n
        /\ \A l \in 1..n : l \in 1..N /\ l # n + 1
    BY <1>1, <1>6
  <2>2. f[n + 1] = f[n] \o s[n + 1] /\ f[n] \in Seq(T) /\ s[n + 1] \in Seq(T)
    BY <1>1, <1>2, <2>1
  <2>3. SetOf(f[n]) \cap SetOf(s[n + 1]) = {}
    <3>1. \A l \in 1..n : SetOf(s[l]) \cap SetOf(s[n + 1]) = {}
      BY <1>1, <2>1
    <3>2. SetOf(f[n]) = UNION {SetOf(s[l]) : l \in 1..n}
      BY <1>3
    <3> QED  BY <3>1, <3>2
  <2>4. Distinct(f[n]) /\ Distinct(s[n + 1])
    BY <1>1, <1>6, <2>1
  <2>5. Distinct(f[n + 1])
    BY <2>2, <2>3, <2>4, DistinctConcat
  <2> QED  BY <2>1, <2>5
<1>7. N \in S
  <2>1. \A n \in 0..N : n < N /\ n \in S => n + 1 \in S
    BY <1>6
  <2>2. \A n \in 0..N : n \in S
    <3> HIDE DEF S
    <3> QED  BY <1>1, <1>5, <2>1, UpToN
  <2>3. N \in 0..N
    BY <1>1
  <2> HIDE DEF S
  <2> QED  BY <2>2, <2>3
<1> QED  BY <1>4, <1>7

-----------------------------------------------------------------------------
(* Levels of runs.                                                         *)

(* The sizes of full runs, by their level above the first.                 *)
LEMMA SizesIs ==
    ASSUME NEW k \in Nat
    PROVE  /\ Sizes(k)[0] = ChunkSize
           /\ \A n \in 1..k : Sizes(k)[n] = FanIn * Sizes(k)[n - 1]
           /\ \A n \in 0..k : Sizes(k)[n] \in Nat \ {0}
<1> DEFINE V == Nat \ {0}
           G == [n \in 1..k |-> [v \in V |-> FanIn * v]]
           f == Sizes(k)
<1>1. ChunkSize \in V /\ \A v \in V : FanIn * v \in V
  BY DiscoveryAssumption
<1>2. \A n \in 1..k : \A v \in V : G[n][v] = FanIn * v
  OBVIOUS
<1>3. StaysIn(G, k, V)
  BY <1>1, <1>2 DEF StaysIn
<1>4. PICK g \in [0..k -> V] : Follows(g, k, ChunkSize, G)
  <2> HIDE DEF V, G
  <2> QED  BY <1>1, <1>3, Recursion
<1>5. ASSUME NEW n \in 0..k, n # 0
      PROVE  n \in 1..k /\ n - 1 \in 0..k
  BY <1>5
<1>6. g = [n \in 0..k |-> IF n = 0 THEN ChunkSize ELSE FanIn * g[n - 1]]
  <2>1. ASSUME NEW n \in 0..k, n # 0
        PROVE  g[n - 1] \in V
    <3> HIDE DEF V
    <3> QED  BY <1>5, <2>1
  <2>2. \A n \in 0..k : g[n] = IF n = 0 THEN ChunkSize ELSE FanIn * g[n - 1]
    BY <1>2, <1>4, <1>5, <2>1 DEF Follows
  <2> HIDE DEF V, G
  <2> QED  BY <2>2
<1>7. f = [n \in 0..k |-> IF n = 0 THEN ChunkSize ELSE FanIn * f[n - 1]]
  BY <1>6 DEF Sizes
<1>8. f[0] = ChunkSize /\ \A n \in 1..k : f[n] = FanIn * f[n - 1]
  <2>1. 0 \in 0..k /\ \A n \in 1..k : n \in 0..k /\ n # 0
    OBVIOUS
  <2> HIDE DEF f
  <2> QED  BY <1>7, <2>1
<1>9. \A n \in 0..k : n \in {m \in 0..k : f[m] \in V}
  <2>1. 0 \in 0..k /\ f[0] \in V
    <3> HIDE DEF f, V
    <3> QED  BY <1>1, <1>8
  <2>2. ASSUME NEW n \in 0..k, n < k, f[n] \in V
        PROVE  f[n + 1] \in V
    <3>1. n + 1 \in 1..k /\ (n + 1) - 1 = n
      BY <2>2
    <3>2. f[n + 1] = FanIn * f[n]
      BY <1>8, <3>1
    <3> HIDE DEF f, V
    <3> QED  BY <1>1, <2>2, <3>2
  <2>3. \A n \in 0..k : n < k => n + 1 \in 0..k
    OBVIOUS
  <2> HIDE DEF f, V
  <2> QED  BY <2>1, <2>2, <2>3, UpToN
<1> QED  BY <1>8, <1>9

(* A run of the first level is a chunk, one of a higher level is FanIn     *)
(* runs of the level below.                                                *)
LEMMA FullRunIs ==
    /\ FullRun(1) = ChunkSize
    /\ \A l \in Nat \ {0} : FullRun(l) \in Nat \ {0} /\ FullRun(l + 1) = FanIn * FullRun(l)
<1>1. FullRun(1) = ChunkSize
  BY SizesIs, 0 \in Nat, 1 - 1 = 0 DEF FullRun
<1>2. ASSUME NEW l \in Nat \ {0}
      PROVE  FullRun(l) \in Nat \ {0} /\ FullRun(l + 1) = FanIn * FullRun(l)
  <2> DEFINE k == l - 1
             S == {n \in 0..k : Sizes(l)[n] = Sizes(k)[n]}
  <2>1. k \in Nat /\ k + 1 = l /\ (l + 1) - 1 = l /\ k \in 0..k /\ l \in 1..l
    OBVIOUS
  <2>2. 0 \in S
    BY <2>1, SizesIs
  <2>3. ASSUME NEW n \in 0..k, n < k, n \in S
        PROVE  n + 1 \in S
    <3>1. n + 1 \in 1..k /\ n + 1 \in 1..l /\ (n + 1) - 1 = n /\ n + 1 \in 0..k
      BY <2>1, <2>3
    <3>2. Sizes(l)[n + 1] = FanIn * Sizes(l)[n] /\ Sizes(k)[n + 1] = FanIn * Sizes(k)[n]
      BY <2>1, <3>1, SizesIs
    <3> QED  BY <2>3, <3>1, <3>2
  <2>4. k \in S
    <3>1. \A n \in 0..k : n \in S
      <4>1. \A n \in 0..k : n < k /\ n \in S => n + 1 \in S
        BY <2>3
      <4>2. k \in Nat /\ 0 \in S
        BY <2>1, <2>2
      <4> HIDE DEF S, k
      <4> QED  BY <4>1, <4>2, UpToN
    <3> QED  BY <2>1, <3>1
  <2>5. FullRun(l) = Sizes(k)[k] /\ FullRun(l + 1) = Sizes(l)[l]
    BY <2>1 DEF FullRun
  <2>6. Sizes(l)[l] = FanIn * Sizes(l)[k] /\ Sizes(k)[k] \in Nat \ {0}
    BY <2>1, SizesIs
  <2> QED  BY <2>4, <2>5, <2>6
<1> QED  BY <1>1, <1>2

(* The same, as a type.                                                    *)
LEMMA FullRunType == \A l \in Nat \ {0} : FullRun(l) \in Nat \ {0}
BY FullRunIs

(* The prefix sums of Held, by their number.                               *)
LEMMA HeldIs ==
    ASSUME NEW X, NEW runs \in Seq(Seq(X))
    PROVE  /\ Held(runs)[0] = 0
           /\ \A n \in 1..Len(runs) :
                 Held(runs)[n] = Held(runs)[n - 1] + Len(runs[n]) * FullRun(n)
           /\ \A n \in 0..Len(runs) : Held(runs)[n] \in Nat
<1> DEFINE N == Len(runs)
           here == [n \in 1..N |-> Len(runs[n]) * FullRun(n)]
           G == [n \in 1..N |-> [v \in Nat |-> v + here[n]]]
           f == Held(runs)
<1>1. N \in Nat /\ \A n \in 1..N : here[n] = Len(runs[n]) * FullRun(n) /\ here[n] \in Nat
  <2>1. ASSUME NEW n \in 1..N
        PROVE  Len(runs[n]) \in Nat /\ FullRun(n) \in Nat
    <3>1. runs[n] \in Seq(X) /\ n \in Nat \ {0}
      OBVIOUS
    <3> QED  BY <3>1, FullRunType
  <2>2. ASSUME NEW a \in Nat, NEW b \in Nat PROVE a * b \in Nat
    OBVIOUS
  <2> QED  BY <2>1, <2>2
<1> HIDE DEF here
<1>2. \A n \in 1..N : \A v \in Nat : G[n][v] = v + here[n]
  OBVIOUS
<1>3. StaysIn(G, N, Nat)
  BY <1>1, <1>2 DEF StaysIn
<1>4. PICK g \in [0..N -> Nat] : Follows(g, N, 0, G)
  <2> HIDE DEF G
  <2> QED  BY <1>1, <1>3, Recursion
<1>5. ASSUME NEW n \in 0..N, n # 0
      PROVE  n \in 1..N /\ n - 1 \in 0..N
  BY <1>1, <1>5
<1>6. g = [n \in 0..N |-> IF n = 0 THEN 0 ELSE g[n - 1] + Len(runs[n]) * FullRun(n)]
  <2>1. ASSUME NEW n \in 0..N, n # 0
        PROVE  g[n] = g[n - 1] + Len(runs[n]) * FullRun(n)
    <3>1. n \in 1..N /\ g[n - 1] \in Nat
      BY <1>5, <2>1
    <3>2. g[n] = G[n][g[n - 1]]
      BY <1>4, <2>1 DEF Follows
    <3> HIDE DEF G
    <3> QED  BY <1>1, <1>2, <3>1, <3>2
  <2>2. g[0] = 0
    <3>1. 0 \in 0..N
      BY <1>1
    <3> HIDE DEF G, N
    <3> QED  BY <1>4, <3>1 DEF Follows
  <2> HIDE DEF G
  <2> QED  BY <2>1, <2>2
<1>7. f = [n \in 0..N |-> IF n = 0 THEN 0 ELSE f[n - 1] + Len(runs[n]) * FullRun(n)]
  BY <1>6 DEF Held
<1>8. f[0] = 0 /\ \A n \in 1..N : f[n] = f[n - 1] + Len(runs[n]) * FullRun(n)
  <2>1. 0 \in 0..N /\ \A n \in 1..N : n \in 0..N /\ n # 0
    BY <1>1
  <2> HIDE DEF f
  <2> QED  BY <1>7, <2>1
<1>9. \A n \in 0..N : n \in {m \in 0..N : f[m] \in Nat}
  <2>1. 0 \in 0..N /\ f[0] \in Nat
    <3> HIDE DEF f
    <3> QED  BY <1>1, <1>8
  <2>2. ASSUME NEW n \in 0..N, n < N, f[n] \in Nat
        PROVE  f[n + 1] \in Nat
    <3>1. n + 1 \in 1..N /\ (n + 1) - 1 = n
      BY <1>1, <2>2
    <3>2. f[n + 1] = f[n] + here[n + 1]
      BY <1>1, <1>8, <3>1
    <3> HIDE DEF f
    <3> QED  BY <1>1, <2>2, <3>1, <3>2
  <2>3. \A n \in 0..N : n < N => n + 1 \in 0..N
    BY <1>1
  <2> HIDE DEF f
  <2> QED  BY <1>1, <2>1, <2>2, <2>3, UpToN
<1> QED  BY <1>8, <1>9

(* Levels that are as long hold as much.                                   *)
LEMMA HeldSame ==
    ASSUME NEW X, NEW p \in Seq(Seq(X)), NEW q \in Seq(Seq(X)),
           NEW k \in 0..Len(p), k <= Len(q),
           \A n \in 1..k : Len(p[n]) = Len(q[n])
    PROVE  Held(p)[k] = Held(q)[k]
<1> DEFINE S == {n \in 0..k : Held(p)[n] = Held(q)[n]}
<1>1. k \in Nat /\ Len(p) \in Nat /\ Len(q) \in Nat /\ k \in 0..k
  OBVIOUS
<1>2. 0 \in S
  BY <1>1, HeldIs
<1>3. ASSUME NEW n \in 0..k, n < k, n \in S
      PROVE  n + 1 \in S
  <2>1. n + 1 \in 1..k /\ n + 1 \in 0..k /\ (n + 1) - 1 = n
        /\ n + 1 \in 1..Len(p) /\ n + 1 \in 1..Len(q)
    BY <1>1, <1>3
  <2>2. /\ Held(p)[n + 1] = Held(p)[n] + Len(p[n + 1]) * FullRun(n + 1)
        /\ Held(q)[n + 1] = Held(q)[n] + Len(q[n + 1]) * FullRun(n + 1)
    BY <2>1, HeldIs
  <2>3. Len(p[n + 1]) = Len(q[n + 1])
    BY <2>1
  <2> QED  BY <1>3, <2>1, <2>2, <2>3
<1>4. \A n \in 0..k : n \in S
  <2> HIDE DEF S
  <2> QED  BY <1>1, <1>2, <1>3, UpToN
<1> QED  BY <1>1, <1>4

(* What changes when one level does.                                       *)
LEMMA HeldUpdate ==
    ASSUME NEW X, NEW p \in Seq(Seq(X)), NEW L \in 1..Len(p), NEW r \in Seq(X)
    PROVE  Held([p EXCEPT ![L] = r])[Len(p)]
              = Held(p)[Len(p)] + Len(r) * FullRun(L) - Len(p[L]) * FullRun(L)
<1> DEFINE q == [p EXCEPT ![L] = r]
           N == Len(p)
           d == Len(r) * FullRun(L) - Len(p[L]) * FullRun(L)
           S == {n \in 0..N : n >= L => Held(q)[n] = Held(p)[n] + d}
<1>1. /\ q \in Seq(Seq(X)) /\ Len(q) = N /\ N \in Nat /\ q[L] = r
      /\ \A n \in 1..N : n # L => q[n] = p[n]
  OBVIOUS
<1>2. FullRun(L) \in Nat /\ Len(r) \in Nat /\ Len(p[L]) \in Nat /\ d \in Int
  <2>1. FullRun(L) \in Nat /\ Len(r) \in Nat /\ Len(p[L]) \in Nat
    <3>1. p[L] \in Seq(X) /\ L \in Nat \ {0}
      OBVIOUS
    <3> QED  BY <3>1, FullRunType
  <2>2. ASSUME NEW a \in Nat, NEW b \in Nat, NEW c \in Nat PROVE b * a - c * a \in Int
    OBVIOUS
  <2> QED  BY <2>1, <2>2
<1>3. 0 \in S
  BY <1>1
<1>4. ASSUME NEW n \in 0..N, n < N, n \in S
      PROVE  n + 1 \in S
  <2>1. n + 1 \in 1..N /\ n + 1 \in 0..N /\ (n + 1) - 1 = n
    BY <1>1, <1>4
  <2>2. /\ Held(p)[n + 1] = Held(p)[n] + Len(p[n + 1]) * FullRun(n + 1)
        /\ Held(q)[n + 1] = Held(q)[n] + Len(q[n + 1]) * FullRun(n + 1)
        /\ Held(p)[n] \in Nat /\ Held(q)[n] \in Nat
    <3>1. n + 1 \in 1..Len(p) /\ n \in 0..Len(p) /\ n + 1 \in 1..Len(q) /\ n \in 0..Len(q)
      BY <1>1, <2>1
    <3>2. q \in Seq(Seq(X))
      BY <1>1
    <3> HIDE DEF q
    <3>3. Held(p)[n + 1] = Held(p)[(n + 1) - 1] + Len(p[n + 1]) * FullRun(n + 1)
          /\ Held(p)[n] \in Nat
      BY <3>1, HeldIs
    <3>4. Held(q)[n + 1] = Held(q)[(n + 1) - 1] + Len(q[n + 1]) * FullRun(n + 1)
          /\ Held(q)[n] \in Nat
      BY <3>1, <3>2, HeldIs
    <3> QED  BY <2>1, <3>3, <3>4
  <2>3. CASE n + 1 < L
    BY <1>1, <2>1, <2>3
  <2>4. CASE n + 1 = L
    <3>1. Held(q)[n] = Held(p)[n]
      <4>1. \A i \in 1..n : Len(p[i]) = Len(q[i])
        BY <1>1, <2>4
      <4>2. q \in Seq(Seq(X)) /\ n \in 0..Len(p) /\ n <= Len(q)
        BY <1>1, <1>4
      <4> HIDE DEF q
      <4>3. Held(p)[n] = Held(q)[n]
        BY <4>1, <4>2, HeldSame
      <4> QED  BY <4>3
    <3>2. q[n + 1] = r /\ p[n + 1] = p[L] /\ FullRun(n + 1) = FullRun(L)
      BY <1>1, <2>4
    <3> DEFINE a == Len(p[L]) * FullRun(L)
               b == Len(r) * FullRun(L)
    <3>3. a \in Int /\ b \in Int /\ d = b - a
      <4>1. ASSUME NEW x \in Nat, NEW y \in Nat PROVE x * y \in Int
        OBVIOUS
      <4> QED  BY <1>2, <4>1
    <3>4. Held(q)[n + 1] = Held(p)[n] + b /\ Held(p)[n + 1] = Held(p)[n] + a
      <4> HIDE DEF q
      <4> QED  BY <2>2, <3>1, <3>2
    <3>5. Held(q)[n + 1] = Held(p)[n + 1] + d
      <4> HIDE DEF q, a, b, d
      <4> QED  BY <2>2, <3>3, <3>4
    <3> QED  BY <2>1, <3>5
  <2>5. CASE n + 1 > L
    <3>1. q[n + 1] = p[n + 1] /\ Held(q)[n] = Held(p)[n] + d
      BY <1>1, <1>4, <2>1, <2>5
    <3>2. Len(p[n + 1]) * FullRun(n + 1) \in Nat
      <4>1. Len(p[n + 1]) \in Nat /\ FullRun(n + 1) \in Nat
        <5>1. p[n + 1] \in Seq(X) /\ n + 1 \in Nat \ {0}
          BY <2>1
        <5> QED  BY <5>1, FullRunType
      <4>2. ASSUME NEW a \in Nat, NEW b \in Nat PROVE a * b \in Nat
        OBVIOUS
      <4> QED  BY <4>1, <4>2
    <3>3. Held(q)[n + 1] = Held(p)[n + 1] + d
      <4> HIDE DEF d, q
      <4> QED  BY <1>2, <2>2, <3>1, <3>2
    <3> QED  BY <2>1, <3>3
  <2> QED  BY <1>1, <1>4, <2>3, <2>4, <2>5
<1>5. \A n \in 0..N : n \in S
  <2>1. N \in Nat
    BY <1>1
  <2> HIDE DEF S, N
  <2> QED  BY <1>3, <1>4, <2>1, UpToN
<1>6. N \in S /\ N >= L
  <2>1. N \in 0..N /\ N >= L
    BY <1>1
  <2> HIDE DEF S, N
  <2> QED  BY <1>5, <2>1
<1> QED  BY <1>6

-----------------------------------------------------------------------------
(* Spools.                                                                 *)

(* A spool starts empty, in memory.                                        *)
LEMMA NewSpoolOK == SpoolOK(NewSpool)
BY DiscoveryAssumption DEF SpoolOK, NewSpool, WithinLimits, Readable

(* An append keeps a spool within its limits, in memory or on disk, and    *)
(* what is read of it grows by the record (spool.go:55-86).                *)
LEMMA AppendRecordOK ==
    ASSUME NEW s, SpoolOK(s), NEW r \in Mutation
    PROVE  /\ SpoolOK(AppendRecord(s, r))
           /\ Records(AppendRecord(s, r)) = Append(Records(s), r)
<1>1. SizeOf(r) \in Nat
  BY DEF SizeOf, Mutation
<1>2. /\ s.memory \in Seq(Mutation) /\ s.bytes \in Nat /\ s.file \in Seq(Mutation)
      /\ s.onDisk \in BOOLEAN /\ s.count \in Nat
      /\ s = [memory |-> s.memory, bytes |-> s.bytes, file |-> s.file,
              onDisk |-> s.onDisk, count |-> s.count]
      /\ Len(s.memory) <= MemoryRecords /\ s.bytes <= MemoryBytes
      /\ s.onDisk => Len(s.file) = s.count
      /\ ~s.onDisk => Len(s.memory) = s.count
  BY DEF SpoolOK, WithinLimits, Readable
<1>3. CASE s.onDisk
  <2>1. AppendRecord(s, r) = [s EXCEPT !.file = Append(s.file, r), !.count = s.count + 1]
    BY <1>3 DEF AppendRecord
  <2>2. AppendRecord(s, r) =
          [memory |-> s.memory, bytes |-> s.bytes, file |-> Append(s.file, r),
           onDisk |-> s.onDisk, count |-> s.count + 1]
    BY <1>2, <2>1
  <2>3. Append(s.file, r) \in Seq(Mutation)
        /\ Len(Append(s.file, r)) = Len(s.file) + 1
    BY <1>2
  <2> QED
    BY <1>2, <1>3, <2>2, <2>3 DEF SpoolOK, WithinLimits, Readable, Records
<1>4. CASE ~s.onDisk /\ Fits(s, r)
  <2>1. AppendRecord(s, r) =
          [s EXCEPT !.memory = Append(s.memory, r), !.bytes = s.bytes + SizeOf(r),
                    !.count = s.count + 1]
    BY <1>4 DEF AppendRecord
  <2>2. AppendRecord(s, r) =
          [memory |-> Append(s.memory, r), bytes |-> s.bytes + SizeOf(r),
           file |-> s.file, onDisk |-> s.onDisk, count |-> s.count + 1]
    <3> HIDE DEF SizeOf
    <3> QED  BY <1>2, <2>1
  <2>3. /\ Append(s.memory, r) \in Seq(Mutation)
        /\ Len(Append(s.memory, r)) = Len(s.memory) + 1
    BY <1>2
  <2>4. /\ s.bytes + SizeOf(r) \in Nat /\ s.bytes + SizeOf(r) <= MemoryBytes
        /\ Len(s.memory) + 1 <= MemoryRecords
    BY <1>1, <1>2, <1>4, DiscoveryAssumption DEF Fits
  <2> QED
    BY <1>2, <1>4, <2>2, <2>3, <2>4 DEF SpoolOK, WithinLimits, Readable, Records
<1>5. CASE ~s.onDisk /\ ~Fits(s, r)
  <2> DEFINE t == Spill(s)
             u == AppendRecord(s, r)
             Fields == [memory : Seq(Mutation), bytes : Nat, file : Seq(Mutation),
                        onDisk : BOOLEAN, count : Nat]
  <2>1. s \in Fields
    BY DEF SpoolOK
  <2>2. t \in Fields /\ t.memory = <<>> /\ t.bytes = 0 /\ t.file = s.memory
        /\ t.onDisk /\ t.count = s.count
    <3> DEFINE t1 == [s EXCEPT !.onDisk = TRUE]
               t2 == [t1 EXCEPT !.file = s.memory]
               t3 == [t2 EXCEPT !.memory = <<>>]
               t4 == [t3 EXCEPT !.bytes = 0]
    <3>1. /\ t1 \in Fields /\ t1.onDisk /\ t1.memory = s.memory
          /\ t1.count = s.count
      BY <2>1
    <3>2. /\ t2 \in Fields /\ t2.onDisk /\ t2.count = s.count
          /\ t2.file = s.memory
      <4> HIDE DEF t1
      <4> QED  BY <1>2, <3>1
    <3>3. /\ t3 \in Fields /\ t3.onDisk /\ t3.count = s.count
          /\ t3.file = s.memory /\ t3.memory = <<>>
      <4>1. <<>> \in Seq(Mutation)
        OBVIOUS
      <4> HIDE DEF t2
      <4> QED  BY <3>2, <4>1
    <3>4. /\ t4 \in Fields /\ t4.onDisk /\ t4.count = s.count
          /\ t4.file = s.memory /\ t4.memory = <<>> /\ t4.bytes = 0
      <4> HIDE DEF t3
      <4> QED  BY <3>3
    <3>5. t = t4
      BY Zenon DEF Spill
    <3> HIDE DEF Fields, t, t4
    <3> QED  BY <3>4, <3>5
  <2>3. u = [t EXCEPT !.file = Append(t.file, r), !.count = t.count + 1]
    BY <1>5 DEF AppendRecord
  <2>4. Append(t.file, r) \in Seq(Mutation) /\ Len(Append(t.file, r)) = Len(t.file) + 1
        /\ t.count + 1 \in Nat
    BY <1>2, <2>2
  <2>5. u \in Fields /\ u.memory = <<>> /\ u.bytes = 0 /\ u.onDisk
        /\ u.file = Append(t.file, r) /\ u.count = t.count + 1
    <3> HIDE DEF t, u
    <3> QED  BY <2>2, <2>3, <2>4
  <2>6. Len(u.file) = u.count /\ Len(u.memory) = 0
    <3> HIDE DEF t, u
    <3> QED  BY <1>2, <1>5, <2>2, <2>4, <2>5
  <2> HIDE DEF t, u
  <2>7. SpoolOK(u)
    BY <2>5, <2>6, DiscoveryAssumption DEF SpoolOK, WithinLimits, Readable
  <2>8. Records(u) = Append(Records(s), r)
    BY <1>5, <2>2, <2>5 DEF Records
  <2> QED  BY <2>7, <2>8 DEF u
<1> QED
  BY <1>2, <1>3, <1>4, <1>5

(* The well-formed spools.                                                 *)
Spools ==
    {s \in [memory : Seq(Mutation), bytes : Nat, file : Seq(Mutation),
            onDisk : BOOLEAN, count : Nat] : SpoolOK(s)}

(* What is read from a spool is a sequence of candidates.                  *)
LEMMA RecordsOK ==
    ASSUME NEW s, SpoolOK(s)
    PROVE  Records(s) \in Seq(Mutation)
BY DEF SpoolOK, Records

(* The spool after each of the records.                                    *)
LEMMA SpoolingIs ==
    ASSUME NEW s, SpoolOK(s), NEW ms \in Seq(Mutation)
    PROVE  /\ Spooling(s, ms)[0] = s
           /\ \A n \in 1..Len(ms) :
                 Spooling(s, ms)[n] = AppendRecord(Spooling(s, ms)[n - 1], ms[n])
           /\ \A n \in 0..Len(ms) : SpoolOK(Spooling(s, ms)[n])
<1> DEFINE N == Len(ms)
           G == [n \in 1..N |-> [v \in Spools |-> AppendRecord(v, ms[n])]]
           f == Spooling(s, ms)
<1>1. /\ N \in Nat /\ s \in Spools
      /\ \A n \in 1..N : \A v \in Spools : AppendRecord(v, ms[n]) \in Spools
  <2>1. \A v : v \in Spools <=> SpoolOK(v)
    BY DEF Spools, SpoolOK
  <2>2. \A n \in 1..N : ms[n] \in Mutation
    OBVIOUS
  <2>3. ASSUME NEW n \in 1..N, NEW v \in Spools
        PROVE  SpoolOK(AppendRecord(v, ms[n]))
    <3>1. SpoolOK(v) /\ ms[n] \in Mutation
      BY <2>1, <2>2
    <3> QED  BY <3>1, AppendRecordOK
  <2>4. N \in Nat
    OBVIOUS
  <2> QED  BY <2>1, <2>3, <2>4
<1>2. \A n \in 1..N : \A v \in Spools : G[n][v] = AppendRecord(v, ms[n])
  OBVIOUS
<1>3. StaysIn(G, N, Spools)
  BY <1>1, <1>2 DEF StaysIn
<1>4. PICK g \in [0..N -> Spools] : Follows(g, N, s, G)
  <2> HIDE DEF G
  <2> QED  BY <1>1, <1>3, Recursion
<1>5. ASSUME NEW n \in 0..N, n # 0
      PROVE  n \in 1..N /\ n - 1 \in 0..N
  BY <1>1, <1>5
<1>6. g = [n \in 0..N |-> IF n = 0 THEN s ELSE AppendRecord(g[n - 1], ms[n])]
  <2>1. ASSUME NEW n \in 0..N, n # 0
        PROVE  g[n - 1] \in Spools
    BY <1>5, <2>1
  <2>2. \A n \in 0..N : g[n] = IF n = 0 THEN s ELSE AppendRecord(g[n - 1], ms[n])
    <3> HIDE DEF G, N
    <3> QED  BY <1>2, <1>4, <1>5, <2>1 DEF Follows
  <2> HIDE DEF G
  <2> QED  BY <2>2
<1>7. f = [n \in 0..N |-> IF n = 0 THEN s ELSE AppendRecord(f[n - 1], ms[n])]
  BY <1>6 DEF Spooling
<1>8. f[0] = s /\ \A n \in 1..N : f[n] = AppendRecord(f[n - 1], ms[n])
  <2>1. 0 \in 0..N /\ \A n \in 1..N : n \in 0..N /\ n # 0
    BY <1>1
  <2> HIDE DEF f
  <2> QED  BY <1>7, <2>1
<1>9. \A n \in 0..N : n \in {m \in 0..N : f[m] \in Spools}
  <2>1. 0 \in 0..N /\ f[0] \in Spools
    <3> HIDE DEF f
    <3> QED  BY <1>1, <1>8
  <2>2. ASSUME NEW n \in 0..N, n < N, f[n] \in Spools
        PROVE  f[n + 1] \in Spools
    <3>1. n + 1 \in 1..N /\ (n + 1) - 1 = n
      BY <1>1, <2>2
    <3> HIDE DEF f
    <3> QED  BY <1>1, <1>8, <2>2, <3>1
  <2>3. \A n \in 0..N : n < N => n + 1 \in 0..N
    BY <1>1
  <2> HIDE DEF f
  <2> QED  BY <1>1, <2>1, <2>2, <2>3, UpToN
<1> HIDE DEF f
<1> QED  BY <1>8, <1>9 DEF f, Spools

(* What is read of a spool is what it held and what was appended.          *)
LEMMA SpooledIs ==
    ASSUME NEW s, SpoolOK(s), NEW ms \in Seq(Mutation)
    PROVE  /\ SpoolOK(Spooled(s, ms))
           /\ Records(Spooled(s, ms)) = Records(s) \o ms
<1> DEFINE N == Len(ms)
           f == Spooling(s, ms)
           P(n) == Records(f[n]) = Records(s) \o SubSeq(ms, 1, n)
           S == {n \in 0..N : P(n)}
<1>1. /\ f[0] = s
      /\ \A n \in 1..N : f[n] = AppendRecord(f[n - 1], ms[n])
      /\ \A n \in 0..N : SpoolOK(f[n])
  BY SpoolingIs
<1>2. N \in Nat /\ DOMAIN ms = 1..N /\ Records(s) \in Seq(Mutation)
      /\ \A n \in 1..N : ms[n] \in Mutation
  <2>1. N \in Nat /\ DOMAIN ms = 1..N /\ \A n \in 1..N : ms[n] \in Mutation
    OBVIOUS
  <2> QED  BY <2>1, RecordsOK
<1>3. Spooled(s, ms) = f[N]
  BY DEF Spooled
<1> HIDE DEF f, N
<1>4. 0 \in S
  <2>1. SubSeq(ms, 1, 0) = <<>> /\ Records(s) \o <<>> = Records(s)
    BY <1>2
  <2> QED  BY <1>1, <1>2, <2>1
<1>5. ASSUME NEW n \in 0..N, n < N, n \in S
      PROVE  n + 1 \in S
  <2>1. n + 1 \in 1..N /\ n + 1 \in 0..N /\ (n + 1) - 1 = n
    BY <1>2, <1>5
  <2>2. f[n + 1] = AppendRecord(f[n], ms[n + 1]) /\ SpoolOK(f[n])
        /\ ms[n + 1] \in Mutation
    BY <1>1, <1>2, <2>1
  <2>3. Records(f[n + 1]) = Append(Records(f[n]), ms[n + 1])
    <3> HIDE DEF P
    <3> QED  BY <2>2, AppendRecordOK
  <2>4. Append(Records(s) \o SubSeq(ms, 1, n), ms[n + 1])
           = Records(s) \o SubSeq(ms, 1, n + 1)
    <3>1. ASSUME NEW a \in Seq(Mutation), NEW b \in Seq(Mutation),
                 NEW k \in Nat, k < Len(b)
          PROVE  Append(a \o SubSeq(b, 1, k), b[k + 1]) = a \o SubSeq(b, 1, k + 1)
      <4> DEFINE u == Append(a \o SubSeq(b, 1, k), b[k + 1])
                 v == a \o SubSeq(b, 1, k + 1)
      <4>1. u \in Seq(Mutation) /\ v \in Seq(Mutation)
            /\ Len(u) = Len(a) + k + 1 /\ Len(v) = Len(a) + k + 1
        BY <3>1
      <4>2. ASSUME NEW i \in 1..Len(a) + k + 1
            PROVE  u[i] = v[i]
        BY <3>1
      <4> HIDE DEF u, v
      <4>3. u = v
        BY <4>1, <4>2
      <4> QED  BY <4>3 DEF u, v
    <3>2. n \in Nat /\ n < Len(ms)
      BY <1>2, <1>5 DEF N
    <3> QED  BY <1>2, <3>1, <3>2
  <2>5. P(n)
    BY <1>5
  <2> QED  BY <2>1, <2>3, <2>4, <2>5
<1>6. P(N)
  <2>1. \A n \in 0..N : n < N /\ n \in S => n + 1 \in S
    BY <1>5
  <2>2. \A n \in 0..N : n \in S
    <3> HIDE DEF S
    <3> QED  BY <1>2, <1>4, <2>1, UpToN
  <2>3. N \in 0..N
    BY <1>2
  <2> QED  BY <2>2, <2>3
<1>7. SubSeq(ms, 1, N) = ms
  BY DEF N
<1>8. N \in 0..N
  BY <1>2
<1> QED  BY <1>1, <1>3, <1>6, <1>7, <1>8

-----------------------------------------------------------------------------
(* Merges.                                                                 *)

(* Among candidates one is not preceded by another.                        *)
LEMMA LeastMutation ==
    ASSUME NEW D, D # {}, NEW heads \in [D -> Mutation]
    PROVE  \E i \in D : \A j \in D : ~mutationLess(heads[j], heads[i])
<1> DEFINE Offs == {heads[j].off : j \in D}
<1>1. \A j \in D : heads[j].off \in Nat /\ heads[j].id \in Nat
  BY DEF Mutation
<1>2. PICK o \in Offs : \A q \in Offs : o <= q
  <2>1. Offs \in SUBSET Nat /\ Offs # {}
    BY <1>1
  <2> HIDE DEF Offs
  <2> QED  BY <2>1, Least
<1> DEFINE Ids == {heads[j].id : j \in {k \in D : heads[k].off = o}}
<1>3. PICK d \in Ids : \A q \in Ids : d <= q
  <2>1. Ids \in SUBSET Nat /\ Ids # {}
    BY <1>1, <1>2
  <2> HIDE DEF Ids
  <2> QED  BY <2>1, Least
<1>4. PICK i \in D : heads[i].off = o /\ heads[i].id = d
  BY <1>3
<1>5. ASSUME NEW j \in D
      PROVE  ~mutationLess(heads[j], heads[i])
  <2>1. o <= heads[j].off
    BY <1>2
  <2>2. heads[j].off = o => d <= heads[j].id
    BY <1>3
  <2> QED  BY <1>1, <1>4, <2>1, <2>2 DEF mutationLess
<1> QED  BY <1>5

(* What an order is an order of.                                           *)
Universe(order) == IF order = "id" THEN Nat ELSE Mutation

(* Both orders are total and strict.                                       *)
LEMMA BeforeIs ==
    ASSUME NEW order, NEW a \in Universe(order), NEW b \in Universe(order),
           NEW c \in Universe(order)
    PROVE  /\ ~Before(order, a, a)
           /\ Before(order, a, b) => ~Before(order, b, a)
           /\ a = b \/ Before(order, a, b) \/ Before(order, b, a)
           /\ ~Before(order, b, a) /\ ~Before(order, c, b) => ~Before(order, c, a)
           /\ Before(order, a, b) /\ Before(order, b, c) => Before(order, a, c)
<1>1. CASE order = "id"
  BY <1>1 DEF Universe, Before, idLess
<1>2. CASE order # "id"
  <2>1. \A x \in Mutation : x.off \in Nat /\ x.id \in Nat
                            /\ x = [off |-> x.off, id |-> x.id]
    BY DEF Mutation
  <2>2. a \in Mutation /\ b \in Mutation /\ c \in Mutation
    BY <1>2 DEF Universe
  <2>3. a.off = b.off /\ a.id = b.id => a = b
    BY <2>1, <2>2
  <2>4. \A x, y : Before(order, x, y) <=> mutationLess(x, y)
    BY <1>2 DEF Before
  <2>5. /\ a.off \in Nat /\ b.off \in Nat /\ c.off \in Nat
        /\ a.id \in Nat /\ b.id \in Nat /\ c.id \in Nat
    BY <2>1, <2>2
  <2> QED  BY <2>3, <2>4, <2>5 DEF mutationLess
<1> QED  BY <1>1, <1>2

(* The run that is chosen is one of them, and no head precedes its head.   *)
LEMMA LeastRunChosen ==
    ASSUME NEW order, NEW D, D # {}, NEW heads \in [D -> Universe(order)]
    PROVE  /\ LeastRun(heads, order) \in D
           /\ \A j \in D : ~Before(order, heads[j], heads[LeastRun(heads, order)])
<1>1. \E i \in D : \A j \in D : ~Before(order, heads[j], heads[i])
  <2>1. CASE order = "id"
    <3> DEFINE S == {heads[j] : j \in D}
    <3>1. S \in SUBSET Nat /\ S # {}
      BY <2>1 DEF Universe
    <3>2. PICK x \in S : \A y \in S : x <= y
      <4> HIDE DEF S
      <4> QED  BY <3>1, Least
    <3>3. PICK i \in D : heads[i] = x
      BY <3>2
    <3>4. ASSUME NEW j \in D
          PROVE  ~Before(order, heads[j], heads[i])
      <4>1. heads[j] \in Nat /\ heads[i] \in Nat /\ heads[i] <= heads[j]
        BY <3>1, <3>2, <3>3
      <4> QED  BY <2>1, <4>1 DEF Before, idLess
    <3> QED  BY <3>4
  <2>2. CASE order # "id"
    <3>1. heads \in [D -> Mutation]
      BY <2>2 DEF Universe
    <3>2. PICK i \in D : \A j \in D : ~mutationLess(heads[j], heads[i])
      BY <3>1, LeastMutation
    <3> QED  BY <2>2, <3>2 DEF Before
  <2> QED  BY <2>1, <2>2
<1>2. DOMAIN heads = D
  OBVIOUS
<1>3. LeastRun(heads, order)
         = CHOOSE i \in D : \A j \in D : ~Before(order, heads[j], heads[i])
  <2> HIDE DEF mutationLess, idLess
  <2> QED  BY <1>2 DEF LeastRun, Before
<1> QED  BY <1>1, <1>3

(* A sequence is its head and its tail.                                    *)
LEMMA TailIs ==
    ASSUME NEW T, NEW s \in Seq(T), s # <<>>
    PROVE  /\ Len(s) \in Nat \ {0} /\ Head(s) = s[1] /\ Head(s) \in T
           /\ Tail(s) \in Seq(T) /\ Len(Tail(s)) = Len(s) - 1
           /\ \A k \in 1..Len(s) - 1 : Tail(s)[k] = s[k + 1]
           /\ SetOf(s) = {Head(s)} \cup SetOf(Tail(s))
<1> DEFINE t == Tail(s)
<1>1. /\ Len(s) \in Nat \ {0} /\ Head(s) = s[1] /\ Head(s) \in T
      /\ t \in Seq(T) /\ Len(t) = Len(s) - 1
      /\ \A k \in 1..Len(s) - 1 : t[k] = s[k + 1]
      /\ DOMAIN s = 1..Len(s) /\ DOMAIN t = 1..Len(s) - 1
  OBVIOUS
<1> HIDE DEF t
<1>2. SetOf(s) \subseteq {Head(s)} \cup SetOf(t)
  <2>1. ASSUME NEW i \in 1..Len(s)
        PROVE  s[i] \in {Head(s)} \cup SetOf(t)
    <3>1. CASE i = 1
      BY <1>1, <3>1
    <3>2. CASE i # 1
      <4>1. i - 1 \in 1..Len(s) - 1 /\ (i - 1) + 1 = i
        BY <1>1, <3>2
      <4>2. t[i - 1] = s[i]
        BY <1>1, <4>1
      <4> QED  BY <1>1, <4>1, <4>2 DEF SetOf
    <3> QED  BY <3>1, <3>2
  <2> QED  BY <1>1, <2>1 DEF SetOf
<1>3. {Head(s)} \cup SetOf(t) \subseteq SetOf(s)
  <2>1. \A k \in 1..Len(s) - 1 : k + 1 \in 1..Len(s)
    BY <1>1
  <2>2. 1 \in 1..Len(s)
    BY <1>1
  <2> QED  BY <1>1, <2>1, <2>2 DEF SetOf
<1> QED  BY <1>1, <1>2, <1>3 DEF t

(* Sequences of a given number of sequences.                               *)
LEMMA SeqOfLength ==
    ASSUME NEW X, NEW k \in Nat, NEW f \in [1..k -> X]
    PROVE  f \in Seq(X) /\ Len(f) = k /\ DOMAIN f = 1..k
OBVIOUS

(* What a merge has taken, and what it has left.                           *)
MergeStates(order, k) ==
    [out : Seq(Universe(order)), rest : [1..k -> Seq(Universe(order))]]

(* What is taken is in order, what is left is, and comes after.            *)
MergeOK(order, m) ==
    /\ InOrder(order, m.out)
    /\ \A i \in DOMAIN m.rest :
          /\ InOrder(order, m.rest[i])
          /\ \A x \in SetOf(m.out), y \in SetOf(m.rest[i]) : ~Before(order, y, x)

(* A step of a merge moves one member, keeps what there is, and keeps the  *)
(* output in order.                                                        *)
LEMMA TakeLeastIs ==
    ASSUME NEW order, NEW k \in Nat, NEW m \in MergeStates(order, k)
    PROVE  LET n == TakeLeast(order, m)
               All(p) == SetOf(p.out) \cup SetOf(Joined(p.rest))
           IN  /\ n \in MergeStates(order, k)
               /\ MergeOK(order, m) => MergeOK(order, n)
               /\ All(n) = All(m)
               /\ Len(Joined(m.rest)) # 0 =>
                     /\ Len(n.out) = Len(m.out) + 1
                     /\ Len(Joined(m.rest)) = Len(Joined(n.rest)) + 1
<1> DEFINE live == {i \in DOMAIN m.rest : m.rest[i] # <<>>}
           heads == [j \in live |-> Head(m.rest[j])]
           i == LeastRun(heads, order)
           U == Universe(order)
           n == TakeLeast(order, m)
           All(p) == SetOf(p.out) \cup SetOf(Joined(p.rest))
<1>1. /\ m.out \in Seq(U) /\ m.rest \in [1..k -> Seq(U)]
      /\ m.rest \in Seq(Seq(U)) /\ DOMAIN m.rest = 1..k /\ Len(m.rest) = k
  <2>1. m.out \in Seq(U) /\ m.rest \in [1..k -> Seq(U)]
    BY DEF MergeStates
  <2> HIDE DEF U
  <2> QED  BY <2>1, SeqOfLength
<1> HIDE DEF U
<1>2. SetOf(Joined(m.rest)) = UNION {SetOf(m.rest[l]) : l \in 1..k}
  BY <1>1, JoinedMembers
<1>3. CASE live = {}
  <2>1. n = m
    BY <1>3 DEF TakeLeast
  <2>2. Len(Joined(m.rest)) = 0
    <3>1. \A l \in 1..k : m.rest[l] = <<>>
      BY <1>1, <1>3
    <3>2. SetOf(<<>>) = {}
      BY DEF SetOf
    <3>3. SetOf(Joined(m.rest)) = {}
      BY <1>2, <3>1, <3>2
    <3>4. Joined(m.rest) \in Seq(U)
      BY <1>1, JoinedMembers
    <3>5. ASSUME NEW s \in Seq(U), SetOf(s) = {}
          PROVE  Len(s) = 0
      <4>1. DOMAIN s = 1..Len(s) /\ Len(s) \in Nat
        OBVIOUS
      <4>2. 1 \notin DOMAIN s
        BY <3>5 DEF SetOf
      <4> QED  BY <4>1, <4>2
    <3> QED  BY <3>3, <3>4, <3>5
  <2> HIDE DEF n
  <2>3. n \in MergeStates(order, k) /\ (MergeOK(order, m) => MergeOK(order, n))
    BY <2>1
  <2>4. SetOf(n.out) \cup SetOf(Joined(n.rest)) = SetOf(m.out) \cup SetOf(Joined(m.rest))
    BY <2>1
  <2> QED  BY <2>2, <2>3, <2>4 DEF n
<1>4. CASE live # {}
  <2>1. \A j \in live : m.rest[j] \in Seq(U) /\ m.rest[j] # <<>> /\ Head(m.rest[j]) \in U
    BY <1>1
  <2>2. heads \in [live -> Universe(order)]
    BY <2>1 DEF U
  <2>3. i \in live /\ \A j \in live : ~Before(order, heads[j], heads[i])
    <3> HIDE DEF live, heads
    <3> QED  BY <1>4, <2>2, LeastRunChosen
  <2> HIDE DEF i
  <2> DEFINE h == Head(m.rest[i])
             t == Tail(m.rest[i])
             out == Append(m.out, h)
             rest == [m.rest EXCEPT ![i] = t]
  <2>4. i \in 1..k /\ m.rest[i] \in Seq(U) /\ m.rest[i] # <<>>
    BY <1>1, <2>3
  <2>5. /\ h = m.rest[i][1] /\ h \in U /\ t \in Seq(U)
        /\ Len(t) = Len(m.rest[i]) - 1 /\ Len(m.rest[i]) \in Nat \ {0}
        /\ \A l \in 1..Len(m.rest[i]) - 1 : t[l] = m.rest[i][l + 1]
        /\ SetOf(m.rest[i]) = {h} \cup SetOf(t)
    BY <2>4, TailIs
  <2>6. \A j \in live : ~Before(order, Head(m.rest[j]), h)
    BY <2>3
  <2>7. n = [out |-> out, rest |-> rest]
    BY <1>4 DEF TakeLeast, i
  <2> HIDE DEF h, t
  <2>8. /\ out \in Seq(U) /\ Len(out) = Len(m.out) + 1
        /\ Len(m.out) \in Nat
        /\ \A l \in 1..Len(m.out) : out[l] = m.out[l]
        /\ out[Len(m.out) + 1] = h
        /\ SetOf(out) = SetOf(m.out) \cup {h}
    <3>1. m.out \in Seq(U) /\ h \in U /\ Len(m.out) \in Nat
      BY <1>1, <2>5
    <3> QED  BY <3>1, AppendIs
  <2>9. /\ rest \in [1..k -> Seq(U)] /\ rest[i] = t
        /\ \A l \in 1..k : l # i => rest[l] = m.rest[l]
    BY <1>1, <2>4, <2>5
  <2>10. rest \in Seq(Seq(U)) /\ Len(Joined(m.rest)) = Len(Joined(rest)) + 1
    <3>1. i \in DOMAIN m.rest /\ rest[i] = Tail(m.rest[i])
          /\ \A l \in DOMAIN m.rest : l # i => rest[l] = m.rest[l]
      BY <1>1, <2>4, <2>9 DEF t
    <3>2. rest \in Seq(Seq(U)) /\ Len(rest) = Len(m.rest)
      BY <1>1, <2>9, SeqOfLength
    <3> HIDE DEF rest
    <3>3. m.rest \in Seq(Seq(U)) /\ m.rest[i] # <<>>
      BY <1>1, <2>4
    <3> QED  BY <3>1, <3>2, <3>3, JoinedTail, Zenon
  <2> HIDE DEF n, live, out, rest
  <2>11. n.out = out /\ n.rest = rest
    BY <2>7
  <2>12. n \in MergeStates(order, k)
    <3>1. ASSUME NEW a \in Seq(U), NEW b \in [1..k -> Seq(U)]
          PROVE  [out |-> a, rest |-> b] \in MergeStates(order, k)
      BY DEF MergeStates, U
    <3> QED  BY <2>7, <2>8, <2>9, <3>1, Zenon
  <2>13. All(n) = All(m)
    <3>1. DOMAIN rest = 1..k
      BY <2>9
    <3>2. SetOf(Joined(rest)) = UNION {SetOf(rest[l]) : l \in 1..k}
      BY <2>10, <3>1, JoinedMembers
    <3>3. \A l \in 1..k : SetOf(rest[l]) \subseteq SetOf(m.rest[l])
      BY <2>4, <2>5, <2>9
    <3>4. \A l \in 1..k : SetOf(m.rest[l]) \subseteq {h} \cup SetOf(rest[l])
      BY <2>4, <2>5, <2>9
    <3>5. h \in SetOf(Joined(m.rest))
      BY <1>2, <2>4, <2>5
    <3>6. SetOf(Joined(rest)) \cup {h} = SetOf(Joined(m.rest))
      <4>1. SetOf(Joined(rest)) \subseteq SetOf(Joined(m.rest))
        BY <1>2, <3>2, <3>3
      <4>2. SetOf(Joined(m.rest)) \subseteq SetOf(Joined(rest)) \cup {h}
        BY <1>2, <3>2, <3>4
      <4> QED  BY <3>5, <4>1, <4>2
    <3> QED  BY <2>8, <2>11, <3>6
  <2>14. ASSUME MergeOK(order, m)
         PROVE  MergeOK(order, n)
    <3>1. /\ InOrder(order, m.out)
          /\ \A l \in 1..k :
                /\ InOrder(order, m.rest[l])
                /\ \A x \in SetOf(m.out), y \in SetOf(m.rest[l]) : ~Before(order, y, x)
      BY <1>1, <2>14 DEF MergeOK
    <3>2. ASSUME NEW l \in 1..k, NEW y \in SetOf(m.rest[l])
          PROVE  ~Before(order, y, h)
      <4>1. m.rest[l] \in Seq(U)
        BY <1>1
      <4>2. PICK p \in DOMAIN m.rest[l] : y = m.rest[l][p]
        BY DEF SetOf
      <4>3. /\ DOMAIN m.rest[l] = 1..Len(m.rest[l]) /\ Len(m.rest[l]) \in Nat
            /\ m.rest[l] # <<>> /\ y \in U
        BY <4>1, <4>2
      <4>4. l \in live /\ Head(m.rest[l]) = m.rest[l][1] /\ Head(m.rest[l]) \in U
            /\ 1 \in DOMAIN m.rest[l]
        BY <1>1, <4>1, <4>3 DEF live
      <4>5. ~Before(order, m.rest[l][1], h)
        BY <2>6, <4>4
      <4>6. CASE p = 1
        BY <4>2, <4>5, <4>6
      <4>7. CASE p # 1
        <5>1. 1 < p
          BY <4>2, <4>3, <4>7
        <5>2. ~Before(order, y, m.rest[l][1])
          BY <3>1, <4>2, <4>4, <5>1 DEF InOrder
        <5> QED  BY <2>5, <4>3, <4>4, <4>5, <5>2, BeforeIs DEF U
      <4> QED  BY <4>6, <4>7
    <3>3. InOrder(order, out)
      <4>1. DOMAIN m.out = 1..Len(m.out) /\ DOMAIN out = 1..Len(m.out) + 1
        BY <1>1, <2>8
      <4>2. ASSUME NEW a \in 1..Len(m.out) + 1, NEW b \in 1..Len(m.out) + 1, a < b
            PROVE  ~Before(order, out[b], out[a])
        <5>1. a \in 1..Len(m.out) /\ (b \in 1..Len(m.out) \/ b = Len(m.out) + 1)
          BY <2>8, <4>2
        <5>2. out[a] = m.out[a] /\ m.out[a] \in SetOf(m.out)
          BY <2>8, <4>1, <5>1 DEF SetOf
        <5>3. CASE b \in 1..Len(m.out)
          BY <2>8, <3>1, <4>1, <4>2, <5>1, <5>2, <5>3 DEF InOrder
        <5>4. CASE b = Len(m.out) + 1
          <6>1. out[b] = h /\ h \in SetOf(m.rest[i])
            BY <2>5, <2>8, <5>4
          <6> QED  BY <2>4, <3>1, <5>2, <6>1
        <5> QED  BY <5>1, <5>3, <5>4
      <4> QED  BY <4>1, <4>2 DEF InOrder
    <3>4. ASSUME NEW l \in 1..k
          PROVE  /\ InOrder(order, rest[l])
                 /\ \A x \in SetOf(out), y \in SetOf(rest[l]) : ~Before(order, y, x)
      <4>1. InOrder(order, t)
        <5>1. DOMAIN t = 1..Len(m.rest[i]) - 1
              /\ DOMAIN m.rest[i] = 1..Len(m.rest[i])
          BY <2>4, <2>5
        <5>2. ASSUME NEW a \in DOMAIN t, NEW b \in DOMAIN t, a < b
              PROVE  ~Before(order, t[b], t[a])
          <6>1. a + 1 \in DOMAIN m.rest[i] /\ b + 1 \in DOMAIN m.rest[i]
                /\ a + 1 < b + 1
            BY <2>5, <5>1, <5>2
          <6>2. t[a] = m.rest[i][a + 1] /\ t[b] = m.rest[i][b + 1]
            BY <2>5, <5>1, <5>2
          <6> QED  BY <2>4, <3>1, <6>1, <6>2 DEF InOrder
        <5> QED  BY <5>2 DEF InOrder
      <4>2. InOrder(order, rest[l])
        BY <2>9, <3>1, <4>1
      <4>3. SetOf(rest[l]) \subseteq SetOf(m.rest[l])
        BY <2>4, <2>5, <2>9
      <4>4. ASSUME NEW x \in SetOf(out), NEW y \in SetOf(rest[l])
            PROVE  ~Before(order, y, x)
        BY <2>8, <3>1, <3>2, <4>3, <4>4
      <4> QED  BY <4>2, <4>4
    <3> QED  BY <2>9, <2>11, <3>3, <3>4 DEF MergeOK
  <2> QED  BY <2>8, <2>10, <2>11, <2>12, <2>13, <2>14 DEF n
<1> QED  BY <1>3, <1>4

(* The orders that are merged by, and what they are orders of.             *)
LEMMA MutationOrder ==
    /\ Universe("mutation") = Mutation /\ Universe("id") = Nat
    /\ \A a, b : Before("mutation", a, b) <=> mutationLess(a, b)
    /\ \A a, b : Before("id", a, b) <=> a < b
BY DEF Universe, Before, idLess

(* A merge of runs in order takes every member once, in order.             *)
LEMMA MergeIs ==
    ASSUME NEW order, NEW runs \in Seq(Seq(Universe(order)))
    PROVE  LET out == MergeBy(order, runs)
           IN  /\ out \in Seq(Universe(order))
               /\ Len(out) = Len(Joined(runs))
               /\ SetOf(out) = SetOf(Joined(runs))
               /\ (\A r \in DOMAIN runs : InOrder(order, runs[r])) => InOrder(order, out)
<1> DEFINE N == Len(Joined(runs))
           k == Len(runs)
           V == MergeStates(order, k)
           G == [n \in 1..N |-> [v \in V |-> TakeLeast(order, v)]]
           a == [out |-> <<>>, rest |-> runs]
           f == Merging(order, runs)
           All(p) == SetOf(p.out) \cup SetOf(Joined(p.rest))
<1>1. /\ Joined(runs) \in Seq(Universe(order)) /\ N \in Nat
      /\ k \in Nat /\ DOMAIN runs = 1..k
  <2>1. Joined(runs) \in Seq(Universe(order))
    BY JoinedMembers
  <2>2. N \in Nat /\ k \in Nat /\ DOMAIN runs = 1..k
    BY <2>1
  <2> QED  BY <2>1, <2>2
<1>2. /\ a \in V
      /\ (\A r \in DOMAIN runs : InOrder(order, runs[r])) => MergeOK(order, a)
      /\ Len(a.out) = 0 /\ Len(Joined(a.rest)) = N
      /\ All(a) = SetOf(Joined(runs))
  <2>1. runs \in [1..k -> Seq(Universe(order))] /\ <<>> \in Seq(Universe(order))
    BY <1>1
  <2>2. ASSUME NEW o \in Seq(Universe(order)), NEW r \in [1..k -> Seq(Universe(order))]
        PROVE  [out |-> o, rest |-> r] \in V
    BY DEF MergeStates
  <2>3. a \in V
    BY <2>1, <2>2, Zenon
  <2>4. a.out = <<>> /\ a.rest = runs /\ SetOf(<<>>) = {}
        /\ InOrder(order, <<>>) /\ Len(<<>>) = 0
    BY DEF SetOf, InOrder
  <2> HIDE DEF a, V
  <2> QED  BY <2>3, <2>4 DEF MergeOK
<1> HIDE DEF a, N, k
<1>3. StaysIn(G, N, V)
  <2>1. \A v \in V : TakeLeast(order, v) \in V
    BY <1>1, TakeLeastIs
  <2> HIDE DEF V
  <2> QED  BY <2>1 DEF StaysIn
<1>4. PICK g \in [0..N -> V] : Follows(g, N, a, G)
  <2> HIDE DEF G, V
  <2> QED  BY <1>1, <1>2, <1>3, Recursion
<1> HIDE DEF V
<1>5. g = [n \in 0..N |-> IF n = 0 THEN a ELSE TakeLeast(order, g[n - 1])]
  <2>1. ASSUME NEW n \in 0..N, n # 0
        PROVE  n \in 1..N /\ g[n - 1] \in V
    <3>1. n \in 1..N /\ n - 1 \in 0..N
      BY <1>1, <2>1
    <3> QED  BY <3>1
  <2>2. \A n \in 0..N : g[n] = IF n = 0 THEN a ELSE TakeLeast(order, g[n - 1])
    BY <1>4, <2>1 DEF Follows
  <2> HIDE DEF G
  <2> QED  BY <2>2
<1>6. f = [n \in 0..N |-> IF n = 0 THEN a ELSE TakeLeast(order, f[n - 1])]
  BY <1>5 DEF Merging, a, N
<1> DEFINE Good(n) ==
             /\ f[n] \in V
             /\ (\A r \in DOMAIN runs : InOrder(order, runs[r])) => MergeOK(order, f[n])
             /\ Len(f[n].out) = n
             /\ Len(Joined(f[n].rest)) = N - n
             /\ All(f[n]) = SetOf(Joined(runs))
           S == {n \in 0..N : Good(n)}
<1>7. 0 \in S
  <2>1. 0 \in 0..N /\ N - 0 = N
    BY <1>1
  <2>2. f[0] = a
    <3> HIDE DEF f
    <3> QED  BY <1>6, <2>1
  <2> HIDE DEF f, All
  <2> QED  BY <1>2, <2>1, <2>2
<1>8. ASSUME NEW n \in 0..N, n < N, n \in S
      PROVE  n + 1 \in S
  <2>1. n + 1 \in 0..N /\ (n + 1) - 1 = n /\ n + 1 # 0 /\ N - n # 0
    BY <1>1, <1>8
  <2>2. f[n + 1] = TakeLeast(order, f[n])
    <3> HIDE DEF f
    <3> QED  BY <1>6, <2>1
  <2> DEFINE p == f[n]
             q == f[n + 1]
  <2>3. Good(n)
    BY <1>8
  <2>4. p \in MergeStates(order, k)
    BY <2>3 DEF V
  <2>5. q = TakeLeast(order, p)
    BY <2>2
  <2> HIDE DEF f, p, q
  <2>6. LET n1 == TakeLeast(order, p)
        IN  /\ n1 \in MergeStates(order, k)
            /\ MergeOK(order, p) => MergeOK(order, n1)
            /\ SetOf(n1.out) \cup SetOf(Joined(n1.rest))
                 = SetOf(p.out) \cup SetOf(Joined(p.rest))
            /\ Len(Joined(p.rest)) # 0 =>
                  /\ Len(n1.out) = Len(p.out) + 1
                  /\ Len(Joined(p.rest)) = Len(Joined(n1.rest)) + 1
    BY <1>1, <2>4, TakeLeastIs
  <2>7. /\ q \in V
        /\ MergeOK(order, p) => MergeOK(order, q)
        /\ All(q) = All(p)
        /\ Len(Joined(p.rest)) # 0 =>
              /\ Len(q.out) = Len(p.out) + 1
              /\ Len(Joined(p.rest)) = Len(Joined(q.rest)) + 1
    BY <2>5, <2>6 DEF V
  <2>8. /\ (\A r \in DOMAIN runs : InOrder(order, runs[r])) => MergeOK(order, p)
        /\ Len(p.out) = n /\ Len(Joined(p.rest)) = N - n
        /\ All(p) = SetOf(Joined(runs))
    BY <2>3 DEF p
  <2>9. Len(Joined(q.rest)) \in Nat
    <3>1. q.rest \in [1..k -> Seq(Universe(order))]
      BY <2>7 DEF V, MergeStates
    <3>2. q.rest \in Seq(Seq(Universe(order)))
      BY <1>1, <3>1, SeqOfLength
    <3>3. Joined(q.rest) \in Seq(Universe(order))
      BY <3>2, JoinedMembers
    <3> QED  BY <3>3
  <2>10. Len(q.out) = n + 1 /\ Len(Joined(q.rest)) = N - (n + 1)
    BY <1>1, <2>1, <2>7, <2>8, <2>9
  <2>11. Good(n + 1)
    <3> HIDE DEF All
    <3> QED  BY <2>7, <2>8, <2>10 DEF q
  <2> HIDE DEF Good
  <2> QED  BY <2>1, <2>11
<1>9. Good(N)
  <2>1. \A n \in 0..N : n < N /\ n \in S => n + 1 \in S
    BY <1>8
  <2>2. \A n \in 0..N : n \in S
    <3> HIDE DEF S
    <3> QED  BY <1>1, <1>7, <2>1, UpToN
  <2>3. N \in 0..N
    BY <1>1
  <2> HIDE DEF Good
  <2> QED  BY <2>2, <2>3
<1> DEFINE p == f[N]
<1>10. /\ p \in V
       /\ (\A r \in DOMAIN runs : InOrder(order, runs[r])) => MergeOK(order, p)
       /\ Len(p.out) = N /\ Len(Joined(p.rest)) = 0
       /\ All(p) = SetOf(Joined(runs))
  <2>1. N - N = 0
    BY <1>1
  <2> HIDE DEF f, All
  <2> QED  BY <1>9, <2>1
<1>11. MergeBy(order, runs) = p.out
  BY DEF MergeBy, N
<1> HIDE DEF p
<1>12. p.out \in Seq(Universe(order)) /\ p.rest \in [1..k -> Seq(Universe(order))]
  BY <1>10 DEF V, MergeStates
<1>13. SetOf(Joined(p.rest)) = {}
  <2>1. p.rest \in Seq(Seq(Universe(order)))
    BY <1>1, <1>12, SeqOfLength
  <2>2. Joined(p.rest) \in Seq(Universe(order))
    BY <2>1, JoinedMembers
  <2>3. DOMAIN Joined(p.rest) = {}
    BY <1>10, <2>2
  <2> QED  BY <2>3 DEF SetOf
<1> QED  BY <1>10, <1>11, <1>12, <1>13 DEF MergeOK, N

(* Sequences of one each.                                                  *)
LEMMA SinglesIs ==
    ASSUME NEW T, NEW s \in Seq(T)
    PROVE  LET singles == [i \in DOMAIN s |-> <<s[i]>>]
           IN  /\ singles \in Seq(Seq(T))
               /\ DOMAIN singles = DOMAIN s
               /\ Len(Joined(singles)) = Len(s)
               /\ SetOf(Joined(singles)) = SetOf(s)
<1> DEFINE q == [i \in DOMAIN s |-> <<s[i]>>]
           N == Len(s)
           S == {n \in 0..N : Len(Joining(q)[n]) = n}
<1>1. DOMAIN s = 1..N /\ N \in Nat /\ \A i \in 1..N : s[i] \in T
  OBVIOUS
<1>2. q \in [1..N -> Seq(T)] /\ DOMAIN q = 1..N
      /\ \A i \in 1..N : q[i] = <<s[i]>> /\ Len(q[i]) = 1 /\ SetOf(q[i]) = {s[i]}
  <2>1. \A i \in 1..N : <<s[i]>> \in Seq(T) /\ Len(<<s[i]>>) = 1
    BY <1>1
  <2>2. \A x : SetOf(<<x>>) = {x}
    BY DEF SetOf
  <2> HIDE DEF N
  <2> QED  BY <1>1, <2>1, <2>2
<1> HIDE DEF q
<1>3. q \in Seq(Seq(T)) /\ Len(q) = N
  BY <1>1, <1>2, SeqOfLength
<1>4. /\ Len(Joining(q)[0]) = 0
      /\ \A n \in 1..N : Len(Joining(q)[n]) = Len(Joining(q)[n - 1]) + Len(q[n])
      /\ Len(Joined(q)) = Len(Joining(q)[N])
  BY <1>3, JoiningLength
<1> HIDE DEF N
<1>5. 0 \in S
  BY <1>1, <1>4
<1>6. ASSUME NEW n \in 0..N, n < N, n \in S
      PROVE  n + 1 \in S
  <2>1. n + 1 \in 1..N /\ n + 1 \in 0..N /\ (n + 1) - 1 = n
    BY <1>1, <1>6
  <2> QED  BY <1>2, <1>4, <1>6, <2>1
<1>7. N \in S
  <2>1. \A n \in 0..N : n < N /\ n \in S => n + 1 \in S
    BY <1>6
  <2>2. \A n \in 0..N : n \in S
    <3> HIDE DEF S
    <3> QED  BY <1>1, <1>5, <2>1, UpToN
  <2>3. N \in 0..N
    BY <1>1
  <2> HIDE DEF S
  <2> QED  BY <2>2, <2>3
<1>8. SetOf(Joined(q)) = SetOf(s)
  <2>1. SetOf(Joined(q)) = UNION {SetOf(q[l]) : l \in 1..N}
    BY <1>2, <1>3, JoinedMembers
  <2>2. SetOf(s) = {s[l] : l \in 1..N}
    BY <1>1 DEF SetOf
  <2>3. \A l \in 1..N : SetOf(q[l]) = {s[l]}
    BY <1>2
  <2>4. ASSUME NEW x
        PROVE  (\E l \in 1..N : x \in SetOf(q[l])) <=> (\E l \in 1..N : x = s[l])
    BY <2>3
  <2>5. ASSUME NEW x
        PROVE  x \in SetOf(Joined(q)) <=> \E l \in 1..N : x \in SetOf(q[l])
    BY <2>1
  <2>6. ASSUME NEW x
        PROVE  x \in SetOf(s) <=> \E l \in 1..N : x = s[l]
    BY <2>2
  <2> QED  BY <2>4, <2>5, <2>6
<1> QED  BY <1>1, <1>2, <1>3, <1>4, <1>7, <1>8 DEF q, N

(* Sorting keeps every member and puts them in order.                      *)
LEMMA SortedIs ==
    ASSUME NEW order, NEW s \in Seq(Universe(order))
    PROVE  /\ Sorted(order, s) \in Seq(Universe(order))
           /\ Len(Sorted(order, s)) = Len(s)
           /\ SetOf(Sorted(order, s)) = SetOf(s)
           /\ InOrder(order, Sorted(order, s))
<1> DEFINE singles == [i \in DOMAIN s |-> <<s[i]>>]
<1>1. /\ singles \in Seq(Seq(Universe(order))) /\ DOMAIN singles = DOMAIN s
      /\ Len(Joined(singles)) = Len(s)
      /\ SetOf(Joined(singles)) = SetOf(s)
  BY SinglesIs
<1>2. \A i \in DOMAIN singles : InOrder(order, singles[i])
  <2>1. \A x : InOrder(order, <<x>>)
    BY DEF InOrder
  <2> QED  BY <2>1
<1>3. Sorted(order, s) = MergeBy(order, singles)
  BY DEF Sorted
<1> HIDE DEF singles
<1> QED  BY <1>1, <1>2, <1>3, MergeIs

(* Of two sequences in order, without equal members, the one whose members *)
(* are the first of the other's is a prefix of it.                         *)
LEMMA FirstInOrder ==
    ASSUME NEW order, NEW s \in Seq(Universe(order)), NEW t \in Seq(Universe(order)),
           InOrder(order, s), InOrder(order, t), Distinct(s), Distinct(t),
           SetOf(t) \subseteq SetOf(s),
           \A x \in SetOf(s), y \in SetOf(t) : Before(order, x, y) => x \in SetOf(t)
    PROVE  Len(t) <= Len(s) /\ \A i \in 1..Len(t) : t[i] = s[i]
<1> DEFINE U == Universe(order)
<1>1. /\ DOMAIN s = 1..Len(s) /\ DOMAIN t = 1..Len(t) /\ Len(s) \in Nat /\ Len(t) \in Nat
      /\ \A i \in 1..Len(s) : s[i] \in U
      /\ \A i \in 1..Len(t) : t[i] \in U
  OBVIOUS
<1> HIDE DEF U
<1>2. ASSUME NEW i \in 1..Len(s), NEW j \in 1..Len(s), i < j
      PROVE  Before(order, s[i], s[j])
  <2>1. ~Before(order, s[j], s[i]) /\ s[i] # s[j]
    BY <1>1, <1>2 DEF InOrder, Distinct
  <2> QED  BY <1>1, <2>1, BeforeIs DEF U
<1>3. ASSUME NEW i \in 1..Len(t), NEW j \in 1..Len(t), i < j
      PROVE  Before(order, t[i], t[j])
  <2>1. ~Before(order, t[j], t[i]) /\ t[i] # t[j]
    BY <1>1, <1>3 DEF InOrder, Distinct
  <2> QED  BY <1>1, <2>1, BeforeIs DEF U
<1> DEFINE B == {i \in 1..Len(t) : i \notin 1..Len(s) \/ t[i] # s[i]}
<1>4. B = {}
  <2>1. SUFFICES ASSUME B # {} PROVE FALSE
    OBVIOUS
  <2>2. PICK i \in B : \A j \in B : i <= j
    <3>1. B \in SUBSET Nat
      BY <1>1
    <3> HIDE DEF B
    <3> QED  BY <2>1, <3>1, Least
  <2>3. i \in 1..Len(t) /\ i \in Nat
    BY <1>1, <2>2
  <2>4. \A j \in 1..i - 1 : j \in 1..Len(s) /\ j \in 1..Len(t) /\ t[j] = s[j]
    <3>1. ASSUME NEW j \in 1..i - 1
          PROVE  j \in 1..Len(t) /\ ~(i <= j)
      BY <1>1, <2>3
    <3> QED  BY <2>2, <3>1
  <2>5. PICK j \in 1..Len(s) : s[j] = t[i]
    <3>1. t[i] \in SetOf(s)
      BY <1>1, <2>3 DEF SetOf
    <3> QED  BY <1>1, <3>1 DEF SetOf
  <2>6. ~(j < i)
    <3>1. SUFFICES ASSUME j < i PROVE FALSE
      OBVIOUS
    <3>2. j \in 1..i - 1 /\ j # i
      BY <1>1, <2>3, <3>1
    <3>3. t[j] = t[i] /\ j \in 1..Len(t)
      BY <2>4, <2>5, <3>2
    <3> QED  BY <1>1, <2>3, <3>2, <3>3 DEF Distinct
  <2>7. i \in 1..Len(s) /\ (i = j \/ i < j)
    BY <1>1, <2>3, <2>5, <2>6
  <2>8. i # j
    BY <2>2, <2>5, <2>7
  <2>9. Before(order, s[i], t[i])
    BY <1>2, <2>5, <2>7, <2>8
  <2>10. PICK m \in 1..Len(t) : t[m] = s[i]
    <3>1. s[i] \in SetOf(s) /\ t[i] \in SetOf(t)
      BY <1>1, <2>3, <2>7 DEF SetOf
    <3>2. s[i] \in SetOf(t)
      BY <2>9, <3>1
    <3> QED  BY <1>1, <3>2 DEF SetOf
  <2>11. CASE m < i
    <3>1. m \in 1..i - 1 /\ m # i
      BY <1>1, <2>3, <2>11
    <3>2. s[m] = s[i] /\ m \in 1..Len(s)
      BY <2>4, <2>10, <3>1
    <3> QED  BY <1>1, <2>7, <3>1, <3>2 DEF Distinct
  <2>12. CASE m = i
    BY <1>1, <2>3, <2>9, <2>10, <2>12, BeforeIs DEF U
  <2>13. CASE i < m
    <3>1. Before(order, t[i], s[i])
      BY <1>3, <2>3, <2>10, <2>13
    <3> QED  BY <1>1, <2>3, <2>7, <2>9, <3>1, BeforeIs DEF U
  <2> QED  BY <1>1, <2>3, <2>10, <2>11, <2>12, <2>13
<1>5. \A i \in 1..Len(t) : i \in 1..Len(s) /\ t[i] = s[i]
  BY <1>4
<1>6. Len(t) <= Len(s)
  <2>1. CASE Len(t) = 0
    BY <1>1, <2>1
  <2>2. CASE Len(t) # 0
    <3>1. Len(t) \in 1..Len(t)
      BY <1>1, <2>2
    <3> QED  BY <1>1, <1>5, <3>1
  <2> QED  BY <2>1, <2>2
<1> QED  BY <1>5, <1>6

(* So there is one sequence in order for a set.                            *)
LEMMA OneInOrder ==
    ASSUME NEW order, NEW s \in Seq(Universe(order)), NEW t \in Seq(Universe(order)),
           InOrder(order, s), InOrder(order, t), Distinct(s), Distinct(t),
           SetOf(t) = SetOf(s)
    PROVE  t = s
<1>1. Len(t) <= Len(s) /\ \A i \in 1..Len(t) : t[i] = s[i]
  BY FirstInOrder
<1>2. Len(s) <= Len(t)
  BY FirstInOrder
<1>3. Len(s) = Len(t) /\ Len(s) \in Nat
  BY <1>1, <1>2
<1> QED  BY <1>1, <1>3

(* Neighbours that are equal are what a sequence in order has if it is not *)
(* distinct.                                                               *)
LEMMA AdjacentIs ==
    ASSUME NEW order, NEW s \in Seq(Universe(order)), InOrder(order, s)
    PROVE  AdjacentEqual(s) <=> ~Distinct(s)
<1>1. /\ DOMAIN s = 1..Len(s) /\ Len(s) \in Nat
      /\ \A i \in 1..Len(s) : s[i] \in Universe(order)
  OBVIOUS
<1>2. ASSUME AdjacentEqual(s) PROVE ~Distinct(s)
  <2>1. PICK i \in 1..Len(s) - 1 : s[i] = s[i + 1]
    BY <1>2 DEF AdjacentEqual
  <2>2. i \in 1..Len(s) /\ i + 1 \in 1..Len(s) /\ i # i + 1
    BY <1>1
  <2> QED  BY <1>1, <2>1, <2>2 DEF Distinct
<1>3. ASSUME ~Distinct(s) PROVE AdjacentEqual(s)
  <2>1. PICK a \in 1..Len(s), b \in 1..Len(s) : s[a] = s[b] /\ a < b
    <3>1. PICK a \in 1..Len(s), b \in 1..Len(s) : s[a] = s[b] /\ a # b
      BY <1>1, <1>3 DEF Distinct
    <3>2. a < b \/ b < a
      BY <1>1, <3>1
    <3> QED  BY <3>1, <3>2
  <2>2. a \in 1..Len(s) - 1 /\ a + 1 \in 1..Len(s) /\ a < a + 1
        /\ (a + 1 = b \/ a + 1 < b)
    BY <1>1, <2>1
  <2>3. ~Before(order, s[a + 1], s[a])
    BY <1>1, <2>2 DEF InOrder
  <2>4. a + 1 # b => ~Before(order, s[a], s[a + 1])
    <3>1. a + 1 # b => ~Before(order, s[b], s[a + 1])
      BY <1>1, <2>2 DEF InOrder
    <3> QED  BY <2>1, <3>1
  <2>5. s[a] = s[a + 1]
    <3>1. s[a] \in Universe(order) /\ s[a + 1] \in Universe(order)
      BY <1>1, <2>2
    <3> QED  BY <2>1, <2>3, <2>4, <3>1, BeforeIs
  <2> QED  BY <2>2, <2>5 DEF AdjacentEqual
<1> QED  BY <1>2, <1>3

(* What open runs hold when they are merged are candidates.                *)
LEMMA MergeRunsType ==
    ASSUME NEW X, NEW names \in Seq(X), SetOf(names) \subseteq DOMAIN store,
           \A n \in DOMAIN store : SpoolOK(store[n])
    PROVE  MergeRuns(names) \in Seq(Mutation)
<1> DEFINE runs == [i \in DOMAIN names |-> Records(store[names[i]])]
<1>1. \A i \in DOMAIN names : Records(store[names[i]]) \in Seq(Mutation)
  BY RecordsOK DEF SetOf
<1>2. DOMAIN names = 1..Len(names) /\ Len(names) \in Nat
  OBVIOUS
<1>3. runs \in Seq(Seq(Mutation))
  <2>1. ASSUME NEW T, NEW n \in Nat, NEW g \in [1..n -> T]
        PROVE  g \in Seq(T)
    OBVIOUS
  <2>2. runs \in [1..Len(names) -> Seq(Mutation)]
    BY <1>1, <1>2
  <2> HIDE DEF runs
  <2> QED  BY <1>2, <2>1, <2>2
<1> QED  BY <1>3, MergeIs, MutationOrder DEF MergeRuns

-----------------------------------------------------------------------------
(* What was emitted.                                                       *)

(* What the files emit.                                                    *)
LEMMA EmitsIs ==
    ASSUME input \in Inputs
    PROVE  /\ Len(input) \in Nat /\ DOMAIN input = 1..Len(input)
           /\ \A f \in 1..Len(input) :
                 /\ input[f].generated \in BOOLEAN
                 /\ input[f].emits \in Seq(Mutation)
           /\ Emits \in Seq(Seq(Mutation)) /\ Len(Emits) = Len(input)
           /\ \A f \in 1..Len(input) :
                 Emits[f] = IF input[f].generated THEN <<>> ELSE input[f].emits
<1> DEFINE Files == [generated : BOOLEAN, emits : Seq(Mutation)]
<1>1. input \in Seq(Files)
  BY DiscoveryAssumption
<1>2. Len(input) \in Nat /\ DOMAIN input = 1..Len(input)
      /\ \A f \in 1..Len(input) : input[f] \in Files
  <2> HIDE DEF Files
  <2> QED  BY <1>1
<1>3. \A f \in 1..Len(input) : input[f].generated \in BOOLEAN
                               /\ input[f].emits \in Seq(Mutation)
  BY <1>2
<1>4. Emits = [f \in 1..Len(input) |->
                  IF input[f].generated THEN <<>> ELSE input[f].emits]
  BY <1>2 DEF Emits
<1>5. Emits \in [1..Len(input) -> Seq(Mutation)]
  BY <1>3, <1>4
<1>6. ASSUME NEW T, NEW n \in Nat, NEW g \in [1..n -> T]
      PROVE  g \in Seq(T) /\ Len(g) = n
  OBVIOUS
<1> QED  BY <1>2, <1>3, <1>4, <1>5, <1>6

(* What is emitted before a file adds up to what is emitted.               *)
LEMMA EmittedBeforeIs ==
    ASSUME input \in Inputs
    PROVE  /\ EmittedBefore(1) = 0
           /\ \A f \in 1..Len(input) + 1 :
                 EmittedBefore(f) \in Nat /\ EmittedBefore(f) <= Len(Emitted)
           /\ \A f \in 1..Len(input) :
                 EmittedBefore(f + 1) = EmittedBefore(f) + Len(Emits[f])
           /\ Len(Emitted) \in Nat
<1> DEFINE N == Len(input)
           J == Joining(Emits)
<1>1. /\ N \in Nat /\ Emits \in Seq(Seq(Mutation)) /\ Len(Emits) = N
  BY EmitsIs
<1>2. /\ J[0] = <<>>
      /\ \A n \in 1..N : J[n] = J[n - 1] \o Emits[n]
      /\ \A n \in 0..N : J[n] \in Seq(Mutation)
  BY <1>1, JoiningIs
<1>3. \A n \in 1..N : Emits[n] \in Seq(Mutation)
  BY <1>1
<1> HIDE DEF J, N
<1>4. ASSUME NEW n \in 1..N
      PROVE  Len(J[n]) = Len(J[n - 1]) + Len(Emits[n])
  <2>1. n - 1 \in 0..N
    BY <1>1
  <2>2. J[n] = J[n - 1] \o Emits[n] /\ J[n - 1] \in Seq(Mutation)
        /\ Emits[n] \in Seq(Mutation)
    BY <1>2, <1>3, <2>1
  <2> QED  BY <2>2
<1>5. \A n \in 0..N : Len(J[n]) \in Nat
  BY <1>2
<1>6. ASSUME NEW k \in 0..N
      PROVE  Len(J[k]) <= Len(J[N])
  <2> DEFINE S == {n \in 0..N : n >= k => Len(J[k]) <= Len(J[n])}
  <2>1. 0 \in S
    BY <1>1, <1>5
  <2>2. ASSUME NEW n \in 0..N, n < N, n \in S
        PROVE  n + 1 \in S
    <3>1. n + 1 \in 1..N /\ n + 1 \in 0..N /\ (n + 1) - 1 = n
      BY <1>1, <2>2
    <3>2. Len(Emits[n + 1]) \in Nat
      <4>1. Emits[n + 1] \in Seq(Mutation)
        BY <1>3, <3>1
      <4> QED  BY <4>1
    <3>3. Len(J[n + 1]) = Len(J[n]) + Len(Emits[n + 1])
      <4>1. Len(J[n + 1]) = Len(J[(n + 1) - 1]) + Len(Emits[n + 1])
        BY <1>4, <3>1
      <4> QED  BY <3>1, <4>1
    <3>4. Len(J[n]) \in Nat /\ Len(J[k]) \in Nat
      BY <1>5
    <3>5. n + 1 >= k => n >= k \/ n + 1 = k
      BY <1>1
    <3>6. n >= k => Len(J[k]) <= Len(J[n])
      BY <2>2
    <3>7. n + 1 >= k => Len(J[k]) <= Len(J[n + 1])
      <4>1. CASE n >= k
        <5>1. \A a, b, c \in Nat : a <= b => a <= b + c
          OBVIOUS
        <5> HIDE DEF S
        <5> QED  BY <3>2, <3>3, <3>4, <3>6, <4>1, <5>1
      <4>2. CASE n + 1 = k
        BY <1>5, <4>2
      <4> QED  BY <3>5, <4>1, <4>2
    <3> QED  BY <3>1, <3>7
  <2>3. \A n \in 0..N : n \in S
    <3> HIDE DEF S
    <3> QED  BY <1>1, <2>1, <2>2, UpToN
  <2> QED  BY <1>1, <2>3
<1>7. Emitted = J[N]
  BY <1>1 DEF Emitted, Joined, J
<1>8. \A f : EmittedBefore(f) = Len(J[f - 1])
  BY DEF EmittedBefore, J
<1>9. /\ 1 - 1 = 0 /\ N \in 0..N
      /\ \A f \in 1..N + 1 : f - 1 \in 0..N
      /\ \A f \in 1..N : (f + 1) - 1 = f
  BY <1>1
<1>10. EmittedBefore(1) = 0
  <2>1. EmittedBefore(1) = Len(J[0])
    BY <1>8, <1>9
  <2> QED  BY <1>2, <2>1
<1>11. \A f \in 1..N + 1 : EmittedBefore(f) \in Nat /\ EmittedBefore(f) <= Len(Emitted)
  BY <1>5, <1>6, <1>7, <1>8, <1>9
<1>12. \A f \in 1..N : EmittedBefore(f + 1) = EmittedBefore(f) + Len(Emits[f])
  BY <1>4, <1>8, <1>9
<1> QED  BY <1>5, <1>7, <1>9, <1>10, <1>11, <1>12 DEF N

-----------------------------------------------------------------------------
(* The in-memory discovery. *)

(* A full selection has a latest candidate.                                *)
LEMMA LatestIs ==
    ASSUME NEW items \in Seq(Mutation), items # <<>>
    PROVE  \E i \in DOMAIN items :
              \A j \in DOMAIN items : ~mutationLess(items[i], items[j])
<1> DEFINE s == Sorted("mutation", items)
           n == Len(items)
<1>1. s \in Seq(Mutation) /\ Len(s) = n /\ SetOf(s) = SetOf(items)
      /\ InOrder("mutation", s)
  BY MutationOrder, SortedIs
<1> HIDE DEF s
<1>2. n \in Nat \ {0} /\ DOMAIN s = 1..n /\ DOMAIN items = 1..n /\ n \in 1..n
      /\ \A i \in 1..n : s[i] \in Mutation
  BY <1>1
<1> HIDE DEF n
<1>3. PICK i \in 1..n : items[i] = s[n]
  <2>1. s[n] \in SetOf(s)
    BY <1>2 DEF SetOf
  <2> QED  BY <1>1, <1>2, <2>1 DEF SetOf
<1>4. ASSUME NEW j \in 1..n
      PROVE  ~mutationLess(items[i], items[j])
  <2>1. items[j] \in SetOf(s)
    BY <1>1, <1>2 DEF SetOf
  <2>2. PICK k \in 1..n : items[j] = s[k]
    BY <1>2, <2>1 DEF SetOf
  <2>3. CASE k = n
    BY <1>2, <1>3, <2>2, <2>3, BeforeIs, MutationOrder
  <2>4. CASE k # n
    <3>1. k < n
      BY <1>2, <2>4
    <3> QED  BY <1>1, <1>2, <1>3, <2>2, <3>1, MutationOrder DEF InOrder
  <2> QED  BY <2>3, <2>4
<1> QED  BY <1>2, <1>4

(* The first candidates, up to a limit, of n that were seen.               *)
FirstOf(limit, seen, n, items) ==
    /\ items \in Seq(Mutation) /\ Distinct(items)
    /\ Len(items) = IF n <= limit THEN n ELSE limit
    /\ SetOf(items) \subseteq seen
    /\ n <= limit => SetOf(items) = seen
    /\ \A x \in seen \ SetOf(items), y \in SetOf(items) : mutationLess(y, x)

(* Offering one more candidate keeps the first ones (selection.go).        *)
LEMMA OfferIs ==
    ASSUME NEW limit \in Nat, NEW n \in Nat, NEW seen \in SUBSET Mutation,
           NEW items, NEW m \in Mutation,
           m \notin seen, FirstOf(limit, seen, n, items)
    PROVE  FirstOf(limit, seen \cup {m}, n + 1, Offer(items, limit, m))
<1> DEFINE new == Offer(items, limit, m)
<1>1. /\ items \in Seq(Mutation) /\ Distinct(items)
      /\ Len(items) = IF n <= limit THEN n ELSE limit
      /\ SetOf(items) \subseteq seen
      /\ n <= limit => SetOf(items) = seen
      /\ \A x \in seen \ SetOf(items), y \in SetOf(items) : mutationLess(y, x)
  BY DEF FirstOf
<1>2. DOMAIN items = 1..Len(items) /\ Len(items) \in Nat
  BY <1>1
<1>3. \A x, y, z \in Mutation :
         /\ mutationLess(x, y) => ~mutationLess(y, x)
         /\ x = y \/ mutationLess(x, y) \/ mutationLess(y, x)
         /\ mutationLess(x, y) /\ mutationLess(y, z) => mutationLess(x, z)
  BY BeforeIs, MutationOrder
<1>4. CASE Len(items) < limit
  <2>1. new = Append(items, m) /\ n < limit /\ Len(items) = n /\ SetOf(items) = seen
    BY <1>1, <1>4 DEF Offer
  <2> HIDE DEF new
  <2>2. /\ new \in Seq(Mutation) /\ Len(new) = n + 1
        /\ SetOf(new) = seen \cup {m}
    BY <1>1, <2>1, AppendIs
  <2>3. Distinct(new)
    BY <1>1, <2>1, DistinctAppend
  <2>4. n + 1 <= limit
    BY <2>1
  <2>5. FirstOf(limit, seen \cup {m}, n + 1, new)
    BY <2>2, <2>3, <2>4 DEF FirstOf
  <2> QED  BY <2>5 DEF new
<1>5. CASE Len(items) >= limit /\ limit = 0
  <2>1. new = items /\ Len(items) = 0 /\ ~(n + 1 <= limit)
    BY <1>1, <1>2, <1>5 DEF Offer
  <2> HIDE DEF new
  <2>2. SetOf(items) = {}
    <3>1. DOMAIN items = {}
      BY <1>2, <2>1
    <3> QED  BY <3>1 DEF SetOf
  <2>3. FirstOf(limit, seen \cup {m}, n + 1, new)
    BY <1>1, <1>5, <2>1, <2>2 DEF FirstOf
  <2> QED  BY <2>3 DEF new
<1>6. CASE Len(items) >= limit /\ limit # 0
  <2> DEFINE last == CHOOSE i \in DOMAIN items :
                        \A j \in DOMAIN items : ~mutationLess(items[i], items[j])
             z == items[last]
  <2>1. Len(items) = limit /\ n >= limit /\ items # <<>> /\ ~(n + 1 <= limit)
    BY <1>1, <1>2, <1>6
  <2>2. last \in DOMAIN items
        /\ \A j \in DOMAIN items : ~mutationLess(z, items[j])
    <3>1. \E i \in DOMAIN items :
             \A j \in DOMAIN items : ~mutationLess(items[i], items[j])
      BY <1>1, <2>1, LatestIs
    <3> HIDE DEF mutationLess
    <3> QED  BY <3>1
  <2>3. new = IF mutationLess(m, z) THEN [items EXCEPT ![last] = m] ELSE items
    <3> HIDE DEF mutationLess
    <3> QED  BY <1>2, <1>6 DEF Offer
  <2> HIDE DEF last, z, new
  <2>4. z = items[last] /\ z \in Mutation /\ z \in SetOf(items) /\ m # z
    BY <1>1, <2>2 DEF z, SetOf
  <2>5. \A y \in SetOf(items) : y = z \/ mutationLess(y, z)
    <3>1. \A y \in SetOf(items) : y \in Mutation /\ ~mutationLess(z, y)
      BY <1>1, <2>2 DEF SetOf
    <3> HIDE DEF mutationLess
    <3> QED  BY <1>3, <2>4, <3>1
  <2>6. \A x \in seen : x \in Mutation
    OBVIOUS
  <2>7. CASE mutationLess(m, z)
    <3>1. /\ new \in Seq(Mutation) /\ Len(new) = limit /\ DOMAIN new = DOMAIN items
          /\ new[last] = m
          /\ \A j \in DOMAIN items : j # last => new[j] = items[j]
      <4>1. new = [items EXCEPT ![last] = m]
        BY <2>3, <2>7
      <4> HIDE DEF mutationLess
      <4> QED  BY <1>1, <1>2, <2>1, <2>2, <4>1
    <3> HIDE DEF mutationLess
    <3>2. SetOf(new) = (SetOf(items) \ {z}) \cup {m}
      <4>1. \A j \in DOMAIN items : j # last => items[j] # z
        BY <1>1, <2>2, <2>4 DEF Distinct
      <4>2. SetOf(new) \subseteq (SetOf(items) \ {z}) \cup {m}
        BY <3>1, <4>1 DEF SetOf
      <4>3. (SetOf(items) \ {z}) \cup {m} \subseteq SetOf(new)
        <5>1. ASSUME NEW y \in SetOf(items), y # z
              PROVE  y \in SetOf(new)
          <6>1. PICK j \in DOMAIN items : y = items[j]
            BY DEF SetOf
          <6> QED  BY <2>4, <3>1, <5>1, <6>1 DEF SetOf
        <5>2. m \in SetOf(new)
          BY <2>2, <3>1 DEF SetOf
        <5> QED  BY <5>1, <5>2
      <4> QED  BY <4>2, <4>3
    <3>3. Distinct(new)
      <4>1. m \notin SetOf(items)
        BY <1>1
      <4> QED  BY <1>1, <2>2, <3>1, <4>1 DEF Distinct, SetOf
    <3>4. ASSUME NEW x \in (seen \cup {m}) \ SetOf(new), NEW y \in SetOf(new)
          PROVE  mutationLess(y, x)
      <4>1. x \in seen /\ (x \notin SetOf(items) \/ x = z) /\ x \in Mutation
        BY <2>6, <3>2
      <4>2. y = m \/ (y \in SetOf(items) /\ y # z)
        BY <3>2
      <4>3. y \in Mutation
        BY <1>1, <2>6, <4>2
      <4>4. mutationLess(y, z)
        BY <2>5, <2>7, <4>2
      <4>5. x = z \/ mutationLess(z, x)
        BY <1>1, <2>4, <4>1
      <4> QED  BY <1>3, <2>4, <4>1, <4>3, <4>4, <4>5
    <3>5. SetOf(new) \subseteq seen \cup {m}
      BY <1>1, <3>2
    <3>6. FirstOf(limit, seen \cup {m}, n + 1, new)
      BY <2>1, <3>1, <3>3, <3>4, <3>5 DEF FirstOf
    <3> QED  BY <3>6 DEF new
  <2>8. CASE ~mutationLess(m, z)
    <3>1. new = items
      BY <2>3, <2>8
    <3> HIDE DEF mutationLess
    <3>2. mutationLess(z, m)
      BY <1>3, <2>4, <2>8
    <3>3. ASSUME NEW x \in (seen \cup {m}) \ SetOf(items), NEW y \in SetOf(items)
          PROVE  mutationLess(y, x)
      <4>1. CASE x \in seen
        BY <1>1, <4>1
      <4>2. CASE x = m
        <5>1. y \in Mutation
          BY <1>1, <2>6
        <5> QED  BY <1>3, <2>4, <2>5, <3>2, <4>2, <5>1
      <4> QED  BY <4>1, <4>2
    <3>4. FirstOf(limit, seen \cup {m}, n + 1, new)
      BY <1>1, <2>1, <3>1, <3>3 DEF FirstOf
    <3> QED  BY <3>4 DEF new
  <2> QED  BY <2>7, <2>8
<1> QED  BY <1>2, <1>4, <1>5, <1>6

(* The smaller of two numbers.                                             *)
Least2(a, b) == IF a <= b THEN a ELSE b

(* A selection is a first part of the candidates in order.                 *)
LEMMA SelectedIs ==
    ASSUME NEW limit \in Nat, NEW ms \in Seq(Mutation), Distinct(ms)
    PROVE  Selected(limit, ms) = SubSeq(Sorted("mutation", ms), 1, Least2(limit, Len(ms)))
<1> DEFINE N == Len(ms)
           V == Seq(Mutation)
           G == [n \in 1..N |-> [v \in V |-> Offer(v, limit, ms[n])]]
           Items == CHOOSE f : f = [n \in 0..N |-> IF n = 0 THEN <<>>
                                                    ELSE Offer(f[n - 1], limit, ms[n])]
           Seen(n) == {ms[i] : i \in 1..n}
<1>1. N \in Nat /\ DOMAIN ms = 1..N /\ <<>> \in V /\ \A n \in 1..N : ms[n] \in Mutation
  OBVIOUS
<1>2. ASSUME NEW v \in V, NEW m \in Mutation
      PROVE  Offer(v, limit, m) \in V
  <2>1. ASSUME NEW l
        PROVE  [v EXCEPT ![l] = m] \in V
    <3>1. Len(v) \in Nat /\ v \in [1..Len(v) -> Mutation]
      OBVIOUS
    <3>2. [v EXCEPT ![l] = m] \in [1..Len(v) -> Mutation]
      BY <3>1
    <3> QED  BY <3>1, <3>2, SeqOfLength
  <2>2. Append(v, m) \in V
    BY <1>2
  <2> HIDE DEF V
  <2>3. \/ Offer(v, limit, m) = v
        \/ Offer(v, limit, m) = Append(v, m)
        \/ \E l : Offer(v, limit, m) = [v EXCEPT ![l] = m]
    <3> HIDE DEF mutationLess
    <3> QED  BY DEF Offer
  <2> QED  BY <2>1, <2>2, <2>3
<1> HIDE DEF V
<1>3. StaysIn(G, N, V)
  BY <1>1, <1>2 DEF StaysIn
<1>4. PICK g \in [0..N -> V] : Follows(g, N, <<>>, G)
  <2> HIDE DEF G, N
  <2> QED  BY <1>1, <1>3, Recursion
<1>5. ASSUME NEW n \in 0..N, n # 0
      PROVE  n \in 1..N /\ n - 1 \in 0..N
  BY <1>1, <1>5
<1>6. g = [n \in 0..N |-> IF n = 0 THEN <<>> ELSE Offer(g[n - 1], limit, ms[n])]
  <2>1. ASSUME NEW n \in 0..N, n # 0
        PROVE  g[n] = Offer(g[n - 1], limit, ms[n])
    <3>1. n \in 1..N /\ g[n - 1] \in V
      BY <1>5, <2>1
    <3>2. G[n][g[n - 1]] = Offer(g[n - 1], limit, ms[n])
      BY <3>1
    <3> HIDE DEF G, N
    <3> QED  BY <1>4, <2>1, <3>2 DEF Follows
  <2>2. g[0] = <<>>
    <3> HIDE DEF G, N
    <3>1. 0 \in 0..N
      BY <1>1
    <3> QED  BY <1>4, <3>1 DEF Follows
  <2>3. \A n \in 0..N : g[n] = IF n = 0 THEN <<>> ELSE Offer(g[n - 1], limit, ms[n])
    BY <2>1, <2>2
  <2> HIDE DEF G, N
  <2> QED  BY <2>3
<1>7. Items = [n \in 0..N |-> IF n = 0 THEN <<>> ELSE Offer(Items[n - 1], limit, ms[n])]
  <2> HIDE DEF N
  <2> QED  BY <1>6
<1>8. Selected(limit, ms) = Sorted("mutation", Items[N])
  BY DEF Selected
<1> HIDE DEF Items
<1>9. Items[0] = <<>> /\ \A n \in 1..N : Items[n] = Offer(Items[n - 1], limit, ms[n])
  <2>1. 0 \in 0..N /\ \A n \in 1..N : n \in 0..N /\ n # 0
    BY <1>1
  <2> QED  BY <1>7, <2>1
<1> HIDE DEF N
<1> DEFINE P(n) == FirstOf(limit, Seen(n), n, Items[n])
           S == {n \in 0..N : P(n)}
<1>10. 0 \in S
  <2>1. <<>> \in Seq(Mutation) /\ Distinct(<<>>) /\ Len(<<>>) = 0 /\ SetOf(<<>>) = {}
    BY DEF Distinct, SetOf
  <2>2. Seen(0) = {} /\ 0 <= limit /\ 0 \in 0..N
    BY <1>1
  <2>3. FirstOf(limit, {}, 0, <<>>)
    BY <2>1, <2>2 DEF FirstOf
  <2> HIDE DEF Seen
  <2> QED  BY <1>9, <2>2, <2>3
<1>11. ASSUME NEW n \in 0..N, n < N, n \in S
       PROVE  n + 1 \in S
  <2>1. n + 1 \in 1..N /\ n + 1 \in 0..N /\ (n + 1) - 1 = n /\ n \in Nat
        /\ 1..n + 1 = 1..n \cup {n + 1} /\ n + 1 \notin 1..n
        /\ \A i \in 1..n : i \in 1..N
    BY <1>1, <1>11
  <2>2. Seen(n + 1) = Seen(n) \cup {ms[n + 1]} /\ Seen(n) \in SUBSET Mutation
    BY <1>1, <2>1
  <2>3. ms[n + 1] \notin Seen(n) /\ ms[n + 1] \in Mutation
    BY <1>1, <2>1 DEF Distinct
  <2>4. P(n) /\ Items[n + 1] = Offer(Items[n], limit, ms[n + 1])
    BY <1>9, <1>11, <2>1
  <2> HIDE DEF Seen
  <2>5. P(n + 1)
    BY <2>1, <2>2, <2>3, <2>4, OfferIs
  <2> QED  BY <2>1, <2>5
<1>12. P(N)
  <2>1. \A n \in 0..N : n < N /\ n \in S => n + 1 \in S
    BY <1>11
  <2>2. \A n \in 0..N : n \in S
    <3> HIDE DEF S
    <3> QED  BY <1>1, <1>10, <2>1, UpToN
  <2>3. N \in 0..N
    BY <1>1
  <2> HIDE DEF P
  <2> QED  BY <2>2, <2>3
<1> DEFINE s == Sorted("mutation", ms)
           t == Sorted("mutation", Items[N])
<1>13. /\ Items[N] \in Seq(Mutation) /\ Distinct(Items[N])
       /\ Len(Items[N]) = Least2(limit, N)
       /\ SetOf(Items[N]) \subseteq SetOf(ms)
       /\ \A x \in SetOf(ms) \ SetOf(Items[N]), y \in SetOf(Items[N]) : mutationLess(y, x)
  <2>1. Seen(N) = SetOf(ms)
    BY <1>1 DEF SetOf
  <2> HIDE DEF Seen
  <2>2. (IF N <= limit THEN N ELSE limit) = Least2(limit, N)
    BY <1>1 DEF Least2
  <2> QED  BY <1>12, <2>1, <2>2 DEF FirstOf
<1>14. /\ s \in Seq(Mutation) /\ Len(s) = N /\ SetOf(s) = SetOf(ms) /\ InOrder("mutation", s)
       /\ t \in Seq(Mutation) /\ Len(t) = Least2(limit, N) /\ SetOf(t) = SetOf(Items[N])
       /\ InOrder("mutation", t)
  BY <1>13, SortedIs, MutationOrder DEF N
<1> HIDE DEF s, t
<1>15. Distinct(s) /\ Distinct(t)
  BY <1>13, <1>14, DistinctSame DEF N
<1>16. ASSUME NEW x \in SetOf(s), NEW y \in SetOf(t), Before("mutation", x, y)
       PROVE  x \in SetOf(t)
  <2>1. SUFFICES ASSUME x \notin SetOf(t) PROVE FALSE
    OBVIOUS
  <2>2. mutationLess(y, x) /\ mutationLess(x, y)
    BY <1>13, <1>14, <1>16, <2>1, MutationOrder
  <2>3. x \in Mutation /\ y \in Mutation
    BY <1>14 DEF SetOf
  <2> QED  BY <2>2, <2>3, BeforeIs, MutationOrder
<1>17. Len(t) <= Len(s) /\ \A i \in 1..Len(t) : t[i] = s[i]
  <2>1. SetOf(t) \subseteq SetOf(s)
    BY <1>13, <1>14
  <2>2. s \in Seq(Universe("mutation")) /\ t \in Seq(Universe("mutation"))
    BY <1>14, MutationOrder
  <2> QED  BY <1>14, <1>15, <1>16, <2>1, <2>2, FirstInOrder
<1>18. t = SubSeq(s, 1, Len(t))
  <2>1. ASSUME NEW a \in Seq(Mutation), NEW b \in Seq(Mutation), Len(b) <= Len(a),
               \A i \in 1..Len(b) : b[i] = a[i]
        PROVE  b = SubSeq(a, 1, Len(b))
    BY <2>1
  <2> QED  BY <1>14, <1>17, <2>1
<1> QED  BY <1>8, <1>14, <1>18 DEF s, t, N

(* What they emit, each sorted.                                            *)
LEMMA SortedEmitsIs ==
    ASSUME input \in Inputs
    PROVE  /\ SortedEmits \in Seq(Seq(Mutation)) /\ Len(SortedEmits) = Len(input)
           /\ \A f \in 1..Len(input) : SortedEmits[f] = Sorted("mutation", Emits[f])
           /\ \A f \in 1..Len(input) : Len(SortedEmits[f]) = Len(Emits[f])
           /\ \A f \in 1..Len(input) : input[f].generated => SortedEmits[f] = <<>>
<1>1. /\ Len(input) \in Nat /\ DOMAIN input = 1..Len(input)
      /\ Emits \in Seq(Seq(Mutation)) /\ Len(Emits) = Len(input)
      /\ \A f \in 1..Len(input) :
            Emits[f] = IF input[f].generated THEN <<>> ELSE input[f].emits
  BY EmitsIs
<1>2. \A f \in 1..Len(input) : Emits[f] \in Seq(Mutation)
  BY <1>1
<1>3. ASSUME NEW f \in 1..Len(input)
      PROVE  /\ Sorted("mutation", Emits[f]) \in Seq(Mutation)
             /\ Len(Sorted("mutation", Emits[f])) = Len(Emits[f])
  BY <1>2, SortedIs, MutationOrder
<1>4. SortedEmits \in [1..Len(input) -> Seq(Mutation)]
      /\ \A f \in 1..Len(input) : SortedEmits[f] = Sorted("mutation", Emits[f])
  BY <1>1, <1>3 DEF SortedEmits
<1>5. SortedEmits \in Seq(Seq(Mutation)) /\ Len(SortedEmits) = Len(input)
  BY <1>1, <1>4, SeqOfLength
<1>6. \A f \in 1..Len(input) : Len(SortedEmits[f]) = Len(Emits[f])
  BY <1>3, <1>4
<1>7. ASSUME NEW f \in 1..Len(input), input[f].generated
      PROVE  SortedEmits[f] = <<>>
  <2>1. Len(SortedEmits[f]) = 0 /\ SortedEmits[f] \in Seq(Mutation)
    <3>1. Emits[f] = <<>> /\ Len(<<>>) = 0
      BY <1>1, <1>7
    <3> QED  BY <1>4, <1>6, <3>1
  <2> QED  BY <2>1
<1> QED  BY <1>4, <1>5, <1>6, <1>7

(* Sequences of the same lengths join to sequences of the same length.     *)
LEMMA JoiningSameLength ==
    ASSUME NEW T, NEW s \in Seq(Seq(T)), NEW t \in Seq(Seq(T)), Len(s) = Len(t),
           \A n \in 1..Len(s) : Len(s[n]) = Len(t[n])
    PROVE  \A n \in 0..Len(s) : Len(Joining(s)[n]) = Len(Joining(t)[n])
<1> DEFINE N == Len(s)
           S == {n \in 0..N : Len(Joining(s)[n]) = Len(Joining(t)[n])}
<1>1. /\ N \in Nat /\ Len(Joining(s)[0]) = 0
      /\ \A n \in 1..N : Len(Joining(s)[n]) = Len(Joining(s)[n - 1]) + Len(s[n])
  BY JoiningLength
<1>2. /\ Len(Joining(t)[0]) = 0
      /\ \A n \in 1..N : Len(Joining(t)[n]) = Len(Joining(t)[n - 1]) + Len(t[n])
  BY JoiningLength
<1>3. \A n \in 1..N : Len(s[n]) = Len(t[n])
  OBVIOUS
<1> HIDE DEF N
<1>4. 0 \in S
  BY <1>1, <1>2
<1>5. ASSUME NEW n \in 0..N, n < N, n \in S
      PROVE  n + 1 \in S
  <2>1. n + 1 \in 1..N /\ n + 1 \in 0..N /\ (n + 1) - 1 = n
    BY <1>1, <1>5
  <2>2. Len(Joining(s)[n]) = Len(Joining(t)[n])
    BY <1>5
  <2>3. Len(Joining(s)[n + 1]) = Len(Joining(t)[n + 1])
    BY <1>1, <1>2, <1>3, <2>1, <2>2
  <2> QED  BY <2>1, <2>3
<1>6. \A n \in 0..N : n < N /\ n \in S => n + 1 \in S
  BY <1>5
<1>7. \A n \in 0..N : n \in S
  <2> HIDE DEF S
  <2> QED  BY <1>1, <1>4, <1>6, UpToN
<1> QED  BY <1>7 DEF N

(* The sorted files hold as many candidates as the visitor emits.          *)
LEMMA SortedEmittedLength ==
    ASSUME input \in Inputs
    PROVE  /\ Joined(SortedEmits) \in Seq(Mutation)
           /\ Len(Joined(SortedEmits)) = Len(Emitted)
<1>1. /\ SortedEmits \in Seq(Seq(Mutation)) /\ Len(SortedEmits) = Len(input)
      /\ \A f \in 1..Len(input) : Len(SortedEmits[f]) = Len(Emits[f])
  BY SortedEmitsIs
<1>2. Emits \in Seq(Seq(Mutation)) /\ Len(Emits) = Len(input) /\ Len(input) \in Nat
  BY EmitsIs
<1>3. Len(input) \in 0..Len(SortedEmits)
  BY <1>1, <1>2
<1>4. Len(Joining(SortedEmits)[Len(input)]) = Len(Joining(Emits)[Len(input)])
  <2>1. \A n \in 1..Len(SortedEmits) : Len(SortedEmits[n]) = Len(Emits[n])
    BY <1>1
  <2>2. Len(SortedEmits) = Len(Emits)
    BY <1>1, <1>2
  <2>3. SortedEmits \in Seq(Seq(Mutation)) /\ Emits \in Seq(Seq(Mutation))
    BY <1>1, <1>2
  <2>4. \A n \in 0..Len(SortedEmits) :
           Len(Joining(SortedEmits)[n]) = Len(Joining(Emits)[n])
    BY <2>1, <2>2, <2>3, JoiningSameLength
  <2> QED  BY <1>3, <2>4
<1>5. Joined(SortedEmits) \in Seq(Mutation)
  BY <1>1, JoinedMembers
<1> QED  BY <1>1, <1>2, <1>4, <1>5 DEF Emitted, Joined

(* Two first parts, one after the other.                                   *)
LEMMA FirstParts ==
    ASSUME NEW a \in Seq(Mutation), NEW b \in Seq(Mutation), NEW limit \in Nat
    PROVE  LET p == SubSeq(a, 1, Least2(limit, Len(a)))
           IN  /\ p \in Seq(Mutation) /\ Len(p) = Least2(limit, Len(a))
               /\ limit - Len(p) \in Nat
               /\ p \o SubSeq(b, 1, Least2(limit - Len(p), Len(b)))
                     = SubSeq(a \o b, 1, Least2(limit, Len(a \o b)))
<1> DEFINE x == Least2(limit, Len(a))
           p == SubSeq(a, 1, x)
           y == Least2(limit - x, Len(b))
           q == SubSeq(b, 1, y)
           c == a \o b
           z == Least2(limit, Len(c))
           r == SubSeq(c, 1, z)
<1>1. /\ Len(a) \in Nat /\ Len(b) \in Nat
      /\ c \in Seq(Mutation) /\ Len(c) = Len(a) + Len(b)
      /\ \A i \in 1..Len(a) : c[i] = a[i]
      /\ \A i \in 1..Len(b) : c[Len(a) + i] = b[i]
  BY ConcatIs
<1>2. x \in Nat /\ x <= Len(a) /\ x <= limit /\ limit - x \in Nat
      /\ (x = limit \/ x = Len(a))
  BY <1>1 DEF Least2
<1>3. y \in Nat /\ y <= Len(b) /\ (y = limit - x \/ y = Len(b)) /\ y <= limit - x
  <2> HIDE DEF x
  <2> QED  BY <1>1, <1>2 DEF Least2
<1>4. z = x + y
  <2>1. \A l, m, n \in Nat : Least2(l, m + n) = Least2(l, m) + Least2(l - Least2(l, m), n)
    BY DEF Least2
  <2>2. z = Least2(limit, Len(a) + Len(b))
    BY <1>1
  <2> HIDE DEF z
  <2> QED  BY <1>1, <2>1, <2>2
<1>5. y # 0 => x = Len(a)
  <2> HIDE DEF x, y
  <2> QED  BY <1>1, <1>2, <1>3
<1> HIDE DEF x, y, z, c
<1>6. z \in Nat /\ z <= Len(c)
  BY <1>1, <1>2, <1>3, <1>4
<1>7. /\ p \in Seq(Mutation) /\ Len(p) = x /\ \A i \in 1..x : p[i] = a[i]
      /\ q \in Seq(Mutation) /\ Len(q) = y /\ \A i \in 1..y : q[i] = b[i]
  BY <1>1, <1>2, <1>3
<1>8. r \in Seq(Mutation) /\ Len(r) = z /\ \A i \in 1..z : r[i] = c[i]
  BY <1>1, <1>6
<1> HIDE DEF p, q, r
<1>9. /\ p \o q \in Seq(Mutation) /\ Len(p \o q) = x + y
      /\ \A i \in 1..x : (p \o q)[i] = p[i]
      /\ \A i \in 1..y : (p \o q)[x + i] = q[i]
  <2>1. p \in Seq(Mutation) /\ q \in Seq(Mutation)
    BY <1>7
  <2>2. /\ p \o q \in Seq(Mutation) /\ Len(p \o q) = Len(p) + Len(q)
        /\ \A i \in 1..Len(p) : (p \o q)[i] = p[i]
        /\ \A i \in 1..Len(q) : (p \o q)[Len(p) + i] = q[i]
    BY <2>1, ConcatIs
  <2>3. Len(p) = x /\ Len(q) = y
    BY <1>7
  <2> QED  BY <2>2, <2>3
<1>10. ASSUME NEW i \in 1..z
       PROVE  (p \o q)[i] = r[i]
  <2>1. CASE i \in 1..x
    <3>1. i \in 1..Len(a)
      BY <1>1, <1>2, <2>1
    <3>2. (p \o q)[i] = p[i] /\ p[i] = a[i]
      BY <1>7, <1>9, <2>1
    <3>3. r[i] = c[i]
      BY <1>8
    <3>4. c[i] = a[i]
      BY <1>1, <3>1
    <3> QED  BY <3>2, <3>3, <3>4
  <2>2. CASE i \notin 1..x
    <3>1. i - x \in 1..y /\ x + (i - x) = i
      BY <1>2, <1>3, <1>4, <2>2
    <3>2. x = Len(a) /\ i - x \in 1..Len(b)
      BY <1>1, <1>3, <1>5, <3>1
    <3>3. (p \o q)[i] = b[i - x]
      BY <1>7, <1>9, <3>1
    <3>4. c[i] = b[i - x]
      BY <1>1, <3>1, <3>2
    <3> QED  BY <1>8, <3>3, <3>4
  <2> QED  BY <2>1, <2>2
<1>11. p \o q = r
  BY <1>4, <1>8, <1>9, <1>10
<1> QED  BY <1>2, <1>7, <1>11 DEF p, q, r, x, y, z, c

(* The in-memory discovery finds the first of the candidates in order      *)
(* (frontend.go:46-51).                                                    *)
LEMMA DiscoverIs ==
    ASSUME input \in Inputs, NoTwins, NEW limit \in Nat
    PROVE  DiscoverLimited(input, limit) =
              SubSeq(Joined(SortedEmits), 1, Least2(limit, Len(Joined(SortedEmits))))
<1> DEFINE N == Len(input)
           J == Joining(SortedEmits)
           Part(s) == SubSeq(s, 1, Least2(limit, Len(s)))
           V == {v \in Seq(Mutation) : Len(v) <= limit}
           After(n, v) == IF input[n].generated THEN v
                          ELSE v \o Selected(limit - Len(v), input[n].emits)
           G == [n \in 1..N |-> [v \in V |-> After(n, v)]]
           Found == CHOOSE f : f = [n \in 0..N |-> IF n = 0 THEN <<>>
                                                    ELSE After(n, f[n - 1])]
<1>1. /\ N \in Nat /\ DOMAIN input = 1..N
      /\ \A f \in 1..N : input[f].generated \in BOOLEAN /\ input[f].emits \in Seq(Mutation)
      /\ \A f \in 1..N :
            Emits[f] = IF input[f].generated THEN <<>> ELSE input[f].emits
  BY EmitsIs
<1>2. /\ SortedEmits \in Seq(Seq(Mutation)) /\ Len(SortedEmits) = N
      /\ \A f \in 1..N : SortedEmits[f] = Sorted("mutation", Emits[f])
      /\ \A f \in 1..N : input[f].generated => SortedEmits[f] = <<>>
  BY SortedEmitsIs
<1>3. /\ J[0] = <<>>
      /\ \A n \in 1..N : J[n] = J[n - 1] \o SortedEmits[n]
      /\ \A n \in 0..N : J[n] \in Seq(Mutation)
  BY <1>2, JoiningIs
<1>4. \A n \in 1..N : SortedEmits[n] \in Seq(Mutation)
  BY <1>2
<1> HIDE DEF N, J
<1>5. ASSUME NEW n \in 1..N, NEW v \in V
      PROVE  After(n, v) \in V
  <2>1. CASE input[n].generated
    BY <2>1
  <2>2. CASE ~input[n].generated
    <3> DEFINE ms == input[n].emits
               k == limit - Len(v)
               s == Sorted("mutation", ms)
    <3>1. ms \in Seq(Mutation) /\ Distinct(ms)
      BY <1>1, <2>2 DEF NoTwins
    <3>2. k \in Nat /\ v \in Seq(Mutation) /\ Len(v) \in Nat
      <4>1. v \in Seq(Mutation) /\ Len(v) <= limit
        OBVIOUS
      <4> QED  BY <4>1
    <3> HIDE DEF ms, k
    <3>3. Selected(k, ms) = SubSeq(s, 1, Least2(k, Len(ms)))
      BY <3>1, <3>2, SelectedIs
    <3>4. s \in Seq(Mutation) /\ Len(s) = Len(ms) /\ Len(ms) \in Nat
      BY <3>1, SortedIs, MutationOrder
    <3> HIDE DEF s
    <3>5. Selected(k, ms) \in Seq(Mutation) /\ Len(Selected(k, ms)) <= k
          /\ Len(Selected(k, ms)) \in Nat
      <4>1. Least2(k, Len(ms)) \in Nat /\ Least2(k, Len(ms)) <= Len(s)
            /\ Least2(k, Len(ms)) <= k
        BY <3>2, <3>4 DEF Least2
      <4>2. ASSUME NEW a \in Seq(Mutation), NEW m \in Nat, m <= Len(a)
            PROVE  SubSeq(a, 1, m) \in Seq(Mutation) /\ Len(SubSeq(a, 1, m)) = m
        BY <4>2
      <4> QED  BY <3>3, <3>4, <4>1, <4>2
    <3>6. /\ v \o Selected(k, ms) \in Seq(Mutation)
          /\ Len(v \o Selected(k, ms)) = Len(v) + Len(Selected(k, ms))
      BY <3>2, <3>5, ConcatIs
    <3>7. Len(v) + Len(Selected(k, ms)) <= limit
      BY <3>2, <3>5 DEF k
    <3>8. After(n, v) = v \o Selected(k, ms)
      BY <2>2 DEF k, ms
    <3> HIDE DEF After
    <3> QED  BY <3>6, <3>7, <3>8
  <2> QED  BY <1>1, <2>1, <2>2
<1>6. <<>> \in V
  OBVIOUS
<1> HIDE DEF V, After
<1>7. StaysIn(G, N, V)
  BY <1>5 DEF StaysIn
<1>8. PICK g \in [0..N -> V] : Follows(g, N, <<>>, G)
  <2> HIDE DEF G
  <2> QED  BY <1>1, <1>6, <1>7, Recursion
<1>9. g = [n \in 0..N |-> IF n = 0 THEN <<>> ELSE After(n, g[n - 1])]
  <2>1. ASSUME NEW n \in 0..N, n # 0
        PROVE  g[n] = After(n, g[n - 1])
    <3>1. n \in 1..N /\ n - 1 \in 0..N
      BY <1>1, <2>1
    <3>2. G[n][g[n - 1]] = After(n, g[n - 1])
      BY <3>1
    <3> HIDE DEF G
    <3> QED  BY <1>8, <2>1, <3>2 DEF Follows
  <2>2. g[0] = <<>>
    <3>1. 0 \in 0..N
      BY <1>1
    <3> HIDE DEF G
    <3> QED  BY <1>8, <3>1 DEF Follows
  <2>3. \A n \in 0..N : g[n] = IF n = 0 THEN <<>> ELSE After(n, g[n - 1])
    BY <2>1, <2>2
  <2> HIDE DEF G
  <2> QED  BY <2>3
<1>10. Found = [n \in 0..N |-> IF n = 0 THEN <<>> ELSE After(n, Found[n - 1])]
  BY <1>9
<1>11. DiscoverLimited(input, limit) = Found[N]
  BY Zenon DEF DiscoverLimited, After, N
<1> HIDE DEF Found
<1>12. Found[0] = <<>> /\ \A n \in 1..N : Found[n] = After(n, Found[n - 1])
  <2>1. 0 \in 0..N /\ \A n \in 1..N : n \in 0..N /\ n # 0
    BY <1>1
  <2> QED  BY <1>10, <2>1
<1> DEFINE S == {n \in 0..N : Found[n] = Part(J[n])}
<1>13. 0 \in S
  <2>1. Part(<<>>) = <<>>
    <3>1. Len(<<>>) = 0 /\ Least2(limit, 0) = 0
      BY DEF Least2
    <3>2. SubSeq(<<>>, 1, 0) = <<>>
      OBVIOUS
    <3> QED  BY <3>1, <3>2
  <2>2. 0 \in 0..N
    BY <1>1
  <2> HIDE DEF Part
  <2> QED  BY <1>3, <1>12, <2>1, <2>2
<1>14. ASSUME NEW n \in 0..N, n < N, n \in S
       PROVE  n + 1 \in S
  <2>1. n + 1 \in 1..N /\ n + 1 \in 0..N /\ (n + 1) - 1 = n
    BY <1>1, <1>14
  <2>2. Found[n + 1] = After(n + 1, Found[n]) /\ Found[n] = Part(J[n])
    BY <1>12, <1>14, <2>1
  <2>3. J[n + 1] = J[n] \o SortedEmits[n + 1] /\ J[n] \in Seq(Mutation)
        /\ SortedEmits[n + 1] \in Seq(Mutation)
    BY <1>3, <1>4, <2>1
  <2> HIDE DEF Part
  <2>4. CASE input[n + 1].generated
    <3>1. J[n + 1] = J[n]
      <4>1. SortedEmits[n + 1] = <<>>
        BY <1>2, <2>1, <2>4
      <4>2. \A s \in Seq(Mutation) : s \o <<>> = s
        OBVIOUS
      <4> QED  BY <2>3, <4>1, <4>2
    <3>2. Found[n + 1] = Found[n]
      BY <2>2, <2>4 DEF After
    <3> QED  BY <2>1, <2>2, <3>1, <3>2
  <2>5. CASE ~input[n + 1].generated
    <3> DEFINE a == J[n]
               b == SortedEmits[n + 1]
               p == Found[n]
               ms == input[n + 1].emits
    <3>1. ms \in Seq(Mutation) /\ Distinct(ms) /\ Emits[n + 1] = ms
      BY <1>1, <2>1, <2>5 DEF NoTwins
    <3>2. b = Sorted("mutation", ms) /\ Len(b) = Len(ms)
      BY <1>2, <2>1, <3>1, SortedIs, MutationOrder
    <3>3. p = SubSeq(a, 1, Least2(limit, Len(a))) /\ a \in Seq(Mutation)
          /\ b \in Seq(Mutation)
      BY <2>2, <2>3 DEF Part
    <3>4. Found[n + 1] = p \o Selected(limit - Len(p), ms) /\ J[n + 1] = a \o b
      BY <2>2, <2>3, <2>5 DEF After
    <3> HIDE DEF a, b, p, ms
    <3>5. limit - Len(p) \in Nat
          /\ p \o SubSeq(b, 1, Least2(limit - Len(p), Len(b)))
               = SubSeq(a \o b, 1, Least2(limit, Len(a \o b)))
      BY <3>3, FirstParts
    <3>6. Selected(limit - Len(p), ms) = SubSeq(b, 1, Least2(limit - Len(p), Len(b)))
      BY <3>1, <3>2, <3>5, SelectedIs
    <3>7. Found[n + 1] = Part(J[n + 1])
      BY <3>4, <3>5, <3>6 DEF Part
    <3> QED  BY <2>1, <3>7
  <2> QED  BY <2>4, <2>5
<1>15. Found[N] = Part(J[N])
  <2>1. \A n \in 0..N : n < N /\ n \in S => n + 1 \in S
    BY <1>14
  <2>2. \A n \in 0..N : n \in S
    <3> HIDE DEF S
    <3> QED  BY <1>1, <1>13, <2>1, UpToN
  <2>3. N \in 0..N
    BY <1>1
  <2> HIDE DEF Part
  <2> QED  BY <2>2, <2>3
<1>16. J[N] = Joined(SortedEmits)
  BY <1>2 DEF Joined, J
<1> QED  BY <1>11, <1>15, <1>16

-----------------------------------------------------------------------------
(* The initial states.                                                     *)

(* Discovery starts with an empty result and no run.                       *)
LEMMA InitInv ==
    Init => ResourceInv
<1> SUFFICES ASSUME Init PROVE ResourceInv
  OBVIOUS
<1>1. /\ <<>> \in Seq(Seq(RunNames)) /\ <<>> \in Seq(RunNames) /\ <<>> \in Seq(Mutation)
      /\ Len(<<>>) = 0 /\ DOMAIN <<>> = {}
  OBVIOUS
<1>2. /\ input \in Inputs /\ pc = "file" /\ file = 1 /\ pos = 1
      /\ candidates = <<>> /\ levels = <<>> /\ chunks = <<>> /\ merged = <<>>
      /\ store = [n \in {1} |-> NewSpool] /\ fresh = 2 /\ count = 0
      /\ idsThere = TRUE /\ idRuns = <<>> /\ idMerged = <<>> /\ result = "running"
  BY DEF Init
<1>3. LevelRuns = {} /\ SetOf(chunks) = {} /\ SetOf(merged) = {}
  BY <1>1, <1>2 DEF LevelRuns, SetOf
<1>4. PhaseInv
  BY <1>1, <1>2 DEF PhaseInv
<1>5. OwnInv
  BY <1>1, <1>2, <1>3 DEF OwnInv, Owned
<1>6. SpoolOK(NewSpool) /\ DOMAIN store = {1} /\ store[1] = NewSpool
  BY <1>2, NewSpoolOK
<1>7. BufferInv
  BY <1>1, <1>2, <1>6, DiscoveryAssumption DEF BufferInv
<1>8. CountInv
  BY <1>2, EmitsIs, EmittedBeforeIs DEF CountInv, Visiting
<1>9. TypeOK
  BY <1>1, <1>2, <1>3, <1>6, <1>8, DiscoveryAssumption DEF TypeOK, SpoolOK, CountInv
<1>10. LogarithmicRuns /\ LevelInv
  BY <1>1, <1>2 DEF LogarithmicRuns, LevelInv, Visiting
<1> QED
  BY <1>4, <1>5, <1>7, <1>8, <1>9, <1>10 DEF ResourceInv, StorageInv

-----------------------------------------------------------------------------
(* What is where.                                                          *)

(* The levels a carry works on, and the runs of its level with one more.   *)
Have == IF level \in DOMAIN levels THEN levels ELSE Append(levels, <<>>)
Here == Append(Have[level], carry)

(* A carry works on one level of those there are, or on the next one.      *)
LEMMA HaveIs ==
    ASSUME PhaseInv, pc = "carry"
    PROVE  /\ Have \in Seq(Seq(RunNames)) /\ Len(levels) \in Nat
           /\ level \in 1..Len(Have) /\ Len(Have) \in {Len(levels), Len(levels) + 1}
           /\ Len(Have) = Len(levels) + 1 => level = Len(levels) + 1
           /\ DOMAIN Have = 1..Len(Have) /\ DOMAIN levels = 1..Len(levels)
           /\ \A l \in 1..Len(levels) : Have[l] = levels[l]
           /\ level \notin 1..Len(levels) => Have[level] = <<>>
           /\ Have[level] \in Seq(RunNames) /\ carry \in RunNames
           /\ Here \in Seq(RunNames) /\ Len(Here) = Len(Have[level]) + 1
           /\ SetOf(Here) = SetOf(Have[level]) \cup {carry}
<1> DEFINE X == Seq(RunNames)
<1>1. levels \in Seq(X) /\ carry \in RunNames /\ level \in 1..Len(levels) + 1
  BY DEF PhaseInv
<1>2. <<>> \in X
  OBVIOUS
<1> HIDE DEF X
<1>3. Len(levels) \in Nat /\ DOMAIN levels = 1..Len(levels)
  BY <1>1
<1>6. /\ Have \in Seq(X) /\ Have[level] \in X
      /\ level \in 1..Len(Have) /\ Len(Have) \in {Len(levels), Len(levels) + 1}
      /\ Len(Have) = Len(levels) + 1 => level = Len(levels) + 1
      /\ DOMAIN Have = 1..Len(Have)
      /\ \A l \in 1..Len(levels) : Have[l] = levels[l]
      /\ level \notin 1..Len(levels) => Have[level] = <<>>
  <2>1. CASE level \in DOMAIN levels
    <3>1. Have = levels
      BY <2>1 DEF Have
    <3>2. level \in 1..Len(levels) /\ levels[level] \in X
      BY <1>1, <1>3, <2>1
    <3>3. Have \in Seq(X) /\ Have[level] \in X /\ Len(Have) = Len(levels)
          /\ DOMAIN Have = 1..Len(Have)
      BY <1>1, <1>3, <3>1, <3>2
    <3>4. \A l \in 1..Len(levels) : Have[l] = levels[l]
      BY <3>1
    <3>5. Len(levels) # Len(levels) + 1
      <4>1. \A n \in Nat : n # n + 1
        OBVIOUS
      <4> QED  BY <1>3, <4>1
    <3> QED  BY <3>2, <3>3, <3>4, <3>5
  <2>2. CASE level \notin DOMAIN levels
    <3>1. Have = Append(levels, <<>>)
      BY <2>2 DEF Have
    <3>2. level = Len(levels) + 1
      BY <1>1, <1>3, <2>2
    <3>3. /\ Have \in Seq(X) /\ Len(Have) = Len(levels) + 1
          /\ Have[Len(levels) + 1] = <<>>
          /\ \A l \in 1..Len(levels) : Have[l] = levels[l]
      BY <1>1, <1>2, <3>1
    <3> QED  BY <1>2, <1>3, <3>2, <3>3
  <2> QED  BY <2>1, <2>2
<1>7. ASSUME NEW Y, NEW s \in Seq(Y), NEW x \in Y
      PROVE  /\ Append(s, x) \in Seq(Y) /\ Len(Append(s, x)) = Len(s) + 1
             /\ SetOf(Append(s, x)) = SetOf(s) \cup {x}
  <2>1. /\ Append(s, x) \in Seq(Y) /\ Len(Append(s, x)) = Len(s) + 1 /\ Len(s) \in Nat
        /\ \A i \in 1..Len(s) : Append(s, x)[i] = s[i]
        /\ Append(s, x)[Len(s) + 1] = x
    OBVIOUS
  <2>2. DOMAIN s = 1..Len(s) /\ DOMAIN Append(s, x) = 1..Len(s) + 1
    BY <2>1
  <2>3. 1..Len(s) + 1 = 1..Len(s) \cup {Len(s) + 1}
    BY <2>1
  <2> QED  BY <2>1, <2>2, <2>3 DEF SetOf
<1>8. Here \in X /\ Len(Here) = Len(Have[level]) + 1
      /\ SetOf(Here) = SetOf(Have[level]) \cup {carry}
  <2>1. Have[level] \in Seq(RunNames)
    BY <1>6 DEF X
  <2> QED  BY <1>1, <1>7, <2>1 DEF Here, X
<1> QED  BY <1>1, <1>3, <1>6, <1>8 DEF X

(* RunNames only grow.                                                     *)
LEMMA NamesGrow ==
    ASSUME fresh \in Nat, fresh' \in {fresh, fresh + 1}
    PROVE  /\ RunNames \subseteq RunNames'
           /\ Seq(RunNames) \subseteq Seq(RunNames')
           /\ Seq(Seq(RunNames)) \subseteq Seq(Seq(RunNames'))
<1>1. RunNames \subseteq RunNames'
  <2>1. ASSUME NEW n \in 2..fresh - 1
        PROVE  n \in 2..fresh' - 1
    <3>1. \A f \in Nat : n \in 2..f - 1 => n \in 2..(f + 1) - 1
      OBVIOUS
    <3> QED  BY <3>1
  <2> QED  BY <2>1 DEF RunNames
<1>2. ASSUME NEW A, NEW B, A \subseteq B
      PROVE  Seq(A) \subseteq Seq(B)
  <2>1. ASSUME NEW s \in Seq(A)
        PROVE  s \in Seq(B)
    <3>1. \A i \in 1..Len(s) : s[i] \in B
      BY <1>2
    <3> QED  BY <3>1
  <2> QED  BY <2>1
<1>3. Seq(RunNames) \subseteq Seq(RunNames')
  BY <1>1, <1>2
<1> QED  BY <1>1, <1>2, <1>3

(* A step keeps the shape of the state.                                    *)
LEMMA PhaseStep ==
    ASSUME ResourceInv, Next
    PROVE  PhaseInv'
<1>1. /\ fresh \in Nat \ {0, 1} /\ levels \in Seq(Seq(RunNames))
      /\ chunks \in Seq(RunNames) /\ merged \in Seq(RunNames)
  BY DEF ResourceInv, PhaseInv
<1>2. fresh' \in {fresh, fresh + 1} /\ fresh' \in Nat \ {0, 1}
  <2>1. fresh' \in {fresh, fresh + 1}
    BY Zenon DEF Next, OpenFile, Visit, Flush, Carry, FailVisiting, FailFile, TakeAll,
          MergeGroup, EndRound, FailRound, EmitFile, ValidateChunk, MergeIds,
          FinishIds, FailValidate, Terminated, Goto, Return, vars, discovery
  <2> QED  BY <1>1, <2>1
<1>3. /\ RunNames \subseteq RunNames' /\ Seq(RunNames) \subseteq Seq(RunNames')
      /\ Seq(Seq(RunNames)) \subseteq Seq(Seq(RunNames'))
  BY <1>1, <1>2, NamesGrow
<1>4. <<>> \in Seq(RunNames) /\ <<>> \in Seq(Seq(RunNames))
  OBVIOUS
<1>5. levels' \in Seq(Seq(RunNames'))
  <2>1. CASE Carry
    <3>1. levels' = [Have EXCEPT ![level] = Here] \/ levels' = [Have EXCEPT ![level] = <<>>]
      BY <2>1 DEF Carry, Have, Here
    <3>2. Have \in Seq(Seq(RunNames)) /\ Here \in Seq(RunNames)
      BY <2>1, HaveIs DEF Carry, ResourceInv
    <3>3. ASSUME NEW Y, NEW s \in Seq(Y), NEW i \in 1..Len(s), NEW x \in Y
          PROVE  [s EXCEPT ![i] = x] \in Seq(Y)
      OBVIOUS
    <3>4. level \in 1..Len(Have)
      BY <2>1, HaveIs DEF Carry, ResourceInv
    <3>5. levels' \in Seq(Seq(RunNames))
      <4>1. [Have EXCEPT ![level] = Here] \in Seq(Seq(RunNames))
        BY <3>2, <3>3, <3>4
      <4>2. [Have EXCEPT ![level] = <<>>] \in Seq(Seq(RunNames))
        BY <1>4, <3>2, <3>3, <3>4
      <4> QED  BY <3>1, <4>1, <4>2
    <3> QED  BY <1>3, <3>5
  <2>2. CASE levels' = levels \/ levels' = <<>>
    BY <1>1, <1>3, <1>4, <2>2
  <2>3. Carry \/ levels' = levels \/ levels' = <<>>
    BY Zenon DEF Next, OpenFile, Visit, Flush, FailVisiting, FailFile, TakeAll,
          MergeGroup, EndRound, FailRound, EmitFile, ValidateChunk, MergeIds,
          FinishIds, FailValidate, Terminated, Goto, Return, vars, discovery
  <2> QED  BY <2>1, <2>2, <2>3
<1>6. chunks' \in Seq(RunNames')
  <2>1. chunks' \in {chunks, merged, <<>>, Joined(levels)}
    BY Zenon DEF Next, OpenFile, Visit, Flush, Carry, FailVisiting, FailFile, TakeAll,
          MergeGroup, EndRound, FailRound, EmitFile, ValidateChunk, MergeIds,
          FinishIds, FailValidate, Terminated, Goto, Return, vars, discovery
  <2>2. Joined(levels) \in Seq(RunNames)
    BY <1>1, JoinedMembers
  <2> QED  BY <1>1, <1>3, <1>4, <2>1, <2>2
<1>7. merged' \in Seq(RunNames')
  <2>1. merged' \in {merged, <<>>} \/ (MergeGroup /\ merged' = Append(merged, fresh))
    BY Zenon DEF Next, OpenFile, Visit, Flush, Carry, FailVisiting, FailFile, TakeAll,
          MergeGroup, EndRound, FailRound, EmitFile, ValidateChunk, MergeIds,
          FinishIds, FailValidate, Terminated, Goto, Return, vars, discovery
  <2>2. CASE MergeGroup /\ merged' = Append(merged, fresh)
    <3>1. fresh' = fresh + 1
      BY <2>2 DEF MergeGroup
    <3>2. fresh \in RunNames'
      BY <1>1, <3>1 DEF RunNames
    <3>3. ASSUME NEW Y, NEW s \in Seq(Y), NEW x \in Y
          PROVE  Append(s, x) \in Seq(Y)
      OBVIOUS
    <3> QED  BY <1>1, <1>3, <2>2, <3>2, <3>3
  <2> QED  BY <1>1, <1>3, <1>4, <2>1, <2>2
<1>8. pc' = "carry" => carry' \in RunNames' /\ level' \in 1..Len(levels') + 1
  <2>1. CASE Flush
    <3>1. carry' = fresh /\ level' = 1 /\ fresh' = fresh + 1 /\ levels' = levels
      BY <2>1 DEF Flush
    <3>2. carry' \in RunNames'
      BY <1>1, <3>1 DEF RunNames
    <3>3. Len(levels) \in Nat
      BY <1>1
    <3> QED  BY <3>1, <3>2, <3>3
  <2>2. CASE Carry /\ pc' = "carry"
    <3>1. /\ pc = "carry" /\ carry' = fresh /\ level' = level + 1 /\ fresh' = fresh + 1
          /\ levels' = [Have EXCEPT ![level] = <<>>]
      BY <2>2 DEF Carry, Have, Here, Goto
    <3>2. Have \in Seq(Seq(RunNames)) /\ level \in 1..Len(Have)
      BY <3>1, HaveIs DEF ResourceInv
    <3>3. Len(levels') = Len(Have) /\ Len(Have) \in Nat
      BY <3>1, <3>2
    <3>4. carry' \in RunNames'
      BY <1>1, <3>1 DEF RunNames
    <3> QED  BY <3>1, <3>2, <3>3, <3>4
  <2>3. CASE UNCHANGED <<pc, carry, level, levels, fresh>>
    BY <1>2, <2>3 DEF ResourceInv, PhaseInv, RunNames
  <2>4. pc' # "carry" \/ Flush \/ (Carry /\ pc' = "carry")
        \/ UNCHANGED <<pc, carry, level, levels, fresh>>
    BY DEF Next, OpenFile, Visit, FailVisiting, FailFile, TakeAll,
          MergeGroup, EndRound, FailRound, EmitFile, ValidateChunk, MergeIds,
          FinishIds, FailValidate, Terminated, Goto, Return, vars, discovery
  <2> QED  BY <2>1, <2>2, <2>3, <2>4
<1>9. /\ pc' \in {"visit", "flush", "carry", "take"} => chunks' = <<>>
      /\ pc' \in {"file", "round", "validate", "idround"} => levels' = <<>>
      /\ pc' \in {"file", "validate", "idround"} => chunks' = <<>>
  BY DEF ResourceInv, PhaseInv, Next, OpenFile, Visit, Flush, Carry, FailVisiting,
        FailFile, TakeAll, MergeGroup, EndRound, FailRound, EmitFile, ValidateChunk,
        MergeIds, FinishIds, FailValidate, Terminated, Goto, Return, vars, discovery
<1>10. pc' # "done" /\ Len(chunks') <= FanIn => merged' = <<>>
  <2>1. Len(<<>>) <= FanIn
    BY DiscoveryAssumption
  <2>2. pc # "done" /\ (Len(chunks) <= FanIn \/ chunks = <<>>) => merged = <<>>
    BY <2>1 DEF ResourceInv, PhaseInv
  <2>3. \/ pc' = "done" \/ merged' = <<>>
        \/ pc # "done" /\ merged' = merged /\ (chunks' = chunks \/ chunks = <<>>
                                                 \/ Len(chunks) <= FanIn)
        \/ Len(chunks) > FanIn /\ chunks' = chunks
    <3>1. pc = "take" => chunks = <<>>
      BY DEF ResourceInv, PhaseInv
    <3> QED
      BY <3>1 DEF Next, OpenFile, Visit, Flush, Carry, FailVisiting, FailFile, TakeAll,
            MergeGroup, EndRound, FailRound, EmitFile, ValidateChunk, MergeIds,
            FinishIds, FailValidate, Terminated, Goto, Return, vars, discovery
  <2>4. Len(chunks) \in Nat
    BY <1>1
  <2> QED  BY <2>2, <2>3, <2>4, DiscoveryAssumption
<1>11. idRuns' \in Seq(SetOf(idRuns')) /\ idMerged' \in Seq(SetOf(idMerged'))
  <2>1. idRuns \in Seq(SetOf(idRuns)) /\ idMerged \in Seq(SetOf(idMerged))
    BY DEF ResourceInv, PhaseInv
  <2>2. ASSUME NEW s, s \in Seq(SetOf(s)), NEW x
        PROVE  Append(s, x) \in Seq(SetOf(Append(s, x)))
    <3>1. ASSUME NEW T, NEW q \in Seq(T)
          PROVE  q \in Seq(SetOf(q))
      <4>1. \A i \in 1..Len(q) : q[i] \in SetOf(q)
        BY DEF SetOf
      <4> QED  BY <4>1
    <3>2. ASSUME NEW T, NEW q \in Seq(T)
          PROVE  Append(q, x) \in Seq(T \cup {x})
      <4>1. q \in Seq(T \cup {x})
        OBVIOUS
      <4> QED  BY <4>1
    <3> QED  BY <2>2, <3>1, <3>2
  <2>3. <<>> \in Seq(SetOf(<<>>))
    OBVIOUS
  <2>4. /\ \/ idRuns' \in {idRuns, idMerged, <<>>}
           \/ \E x : idRuns' = Append(idRuns, x)
        /\ \/ idMerged' \in {idMerged, <<>>}
           \/ \E x : idMerged' = Append(idMerged, x)
    BY Zenon DEF Next, OpenFile, Visit, Flush, Carry, FailVisiting, FailFile, TakeAll,
          MergeGroup, EndRound, FailRound, EmitFile, ValidateChunk, MergeIds,
          FinishIds, FailValidate, Terminated, Goto, Return, vars, validation
  <2> QED  BY <2>1, <2>2, <2>3, <2>4
<1>12. /\ pc' \notin {"validate", "idround"} => idRuns' = <<>>
       /\ pc' # "idround" \/ Len(idRuns') <= FanIn => idMerged' = <<>>
  <2>1. /\ pc \notin {"validate", "idround"} => idRuns = <<>>
        /\ pc # "idround" \/ Len(idRuns) <= FanIn => idMerged = <<>>
    BY DEF ResourceInv, PhaseInv
  <2>2. \/ UNCHANGED <<idRuns, idMerged>>
             /\ (pc \in {"validate", "idround"} => pc' \in {"validate", "idround"})
             /\ (pc = "idround" => pc' = "idround")
        \/ idRuns' = <<>> /\ UNCHANGED idMerged /\ pc' = "done"
             /\ (pc # "idround" \/ Len(idRuns) <= FanIn)
        \/ UNCHANGED idMerged /\ pc = "validate" /\ pc' = "validate"
        \/ UNCHANGED idRuns /\ pc' = "idround" /\ Len(idRuns) > FanIn
        \/ idMerged' = <<>> /\ pc' = "idround"
        \/ idRuns' = <<>> /\ idMerged' = <<>>
    BY DEF Next, OpenFile, Visit, Flush, Carry, FailVisiting,
        FailFile, TakeAll, MergeGroup, EndRound, FailRound, EmitFile, ValidateChunk,
        MergeIds, FinishIds, FailValidate, Terminated, Goto, Return, vars, discovery,
        validation
  <2>3. Len(idRuns) > FanIn => ~(Len(idRuns) <= FanIn)
    <3>1. Len(idRuns) \in Nat
      <4>1. idRuns \in Seq(SetOf(idRuns))
        BY DEF ResourceInv, PhaseInv
      <4> QED  BY <4>1
    <3> QED  BY <3>1, DiscoveryAssumption
  <2> QED  BY <2>1, <2>2, <2>3
<1> QED
  BY <1>2, <1>5, <1>6, <1>7, <1>8, <1>9, <1>10, <1>11, <1>12 DEF PhaseInv

-----------------------------------------------------------------------------
(* What was emitted, step by step.                                         *)

(* A step keeps the places in the input and in the identities.             *)
LEMMA CountStep ==
    ASSUME ResourceInv, Next
    PROVE  CountInv'
<1> DEFINE E(f) == Len(Joining(Emits)[f - 1])
           N == Len(input)
<1>1. input' = input /\ input \in Inputs
  <2>1. input' = input
    BY Zenon DEF Next, OpenFile, Visit, Flush, Carry, FailVisiting, FailFile, TakeAll,
          MergeGroup, EndRound, FailRound, EmitFile, ValidateChunk, MergeIds,
          FinishIds, FailValidate, Terminated, Goto, Return, vars
  <2> QED  BY <2>1 DEF ResourceInv, CountInv
<1>2. Emits' = Emits /\ Emitted' = Emitted
  BY <1>1 DEF Emits, Emitted
<1>3. \A f : EmittedBefore(f) = E(f)
  BY DEF EmittedBefore
<1>4. /\ N \in Nat
      /\ \A f \in 1..N :
            /\ input[f].generated \in BOOLEAN /\ input[f].emits \in Seq(Mutation)
            /\ Emits[f] = IF input[f].generated THEN <<>> ELSE input[f].emits
  BY <1>1, EmitsIs
<1>5. /\ E(1) = 0 /\ Len(Emitted) \in Nat
      /\ \A f \in 1..N + 1 : E(f) \in Nat /\ E(f) <= Len(Emitted)
      /\ \A f \in 1..N : E(f + 1) = E(f) + Len(Emits[f])
  BY <1>1, <1>3, EmittedBeforeIs
<1> HIDE DEF E
<1>6. /\ file \in 1..N + 1 /\ pos \in Nat \ {0}
      /\ pc \in {"file", "validate"} => count = E(file)
      /\ Visiting =>
            /\ file <= N /\ ~input[file].generated
            /\ pos <= Len(input[file].emits) + 1 /\ count = E(file) + pos - 1
      /\ pc \in {"take", "round"} => file <= N /\ count = E(file + 1)
      /\ count \in 0..Len(Emitted)
  BY <1>3 DEF ResourceInv, CountInv
<1> DEFINE Is ==
             /\ file' \in 1..N + 1 /\ pos' \in Nat \ {0}
             /\ pc' \in {"file", "validate"} => count' = E(file')
             /\ pc' \in {"visit", "flush", "carry"} =>
                   /\ file' <= N /\ ~input[file'].generated
                   /\ pos' <= Len(input[file'].emits) + 1
                   /\ count' = E(file') + pos' - 1
             /\ pc' \in {"take", "round"} => file' <= N /\ count' = E(file' + 1)
             /\ count' \in 0..Len(Emitted)
<1>7. Is => CountInv'
  <2>1. \A f : Len(Joining(Emits')[f - 1]) = E(f)
    BY <1>2 DEF E
  <2> QED  BY <1>1, <1>2, <2>1 DEF CountInv, Visiting, EmittedBefore
<1>8. CASE OpenFile
  <2>1. pc = "file" /\ count' = count /\ count = E(file)
    BY <1>6, <1>8 DEF OpenFile
  <2>2. CASE file > N
    <3>1. pc' = "validate" /\ file' = file /\ pos' = pos
      BY <1>8, <2>2 DEF OpenFile, Goto
    <3> QED  BY <1>6, <1>7, <2>1, <3>1
  <2>3. CASE file <= N /\ input[file].generated
    <3>1. pc' = "file" /\ file' = file + 1 /\ pos' = pos
      BY <1>4, <1>6, <1>8, <2>3 DEF OpenFile, Goto
    <3>2. file \in 1..N /\ Emits[file] = <<>> /\ file + 1 \in 1..N + 1
      BY <1>4, <1>6, <2>3
    <3>3. E(file + 1) = E(file)
      <4>1. E(file + 1) = E(file) + Len(Emits[file])
        BY <1>5, <3>2
      <4>2. Len(Emits[file]) = 0 /\ E(file) \in Nat
        BY <1>5, <1>6, <3>2
      <4> QED  BY <4>1, <4>2
    <3> QED  BY <1>6, <1>7, <2>1, <3>1, <3>2, <3>3
  <2>4. CASE file <= N /\ ~input[file].generated
    <3>1. pc' = "visit" /\ file' = file /\ pos' = 1
      BY <1>4, <1>6, <1>8, <2>4 DEF OpenFile, Goto
    <3>2. Len(input[file].emits) \in Nat
      <4>1. file \in 1..N
        BY <1>4, <1>6, <2>4
      <4>2. input[file].emits \in Seq(Mutation)
        BY <1>4, <4>1
      <4> QED  BY <4>2
    <3>3. E(file) \in Nat
      BY <1>5, <1>6
    <3> QED  BY <1>6, <1>7, <2>1, <2>4, <3>1, <3>2, <3>3
  <2>5. file > N \/ file <= N
    BY <1>4, <1>6
  <2> QED  BY <1>7, <2>2, <2>3, <2>4, <2>5
<1>9. CASE Visit
  <2> DEFINE ms == input[file].emits
  <2>1. /\ pc = "visit" /\ file' = file /\ file \in 1..N /\ ~input[file].generated
        /\ pos <= Len(ms) + 1 /\ count = E(file) + pos - 1 /\ ms \in Seq(Mutation)
        /\ Emits[file] = ms
    BY <1>4, <1>6, <1>9 DEF Visit, Visiting
  <2>2. Len(ms) \in Nat /\ E(file) \in Nat /\ pos \in Nat \ {0}
    BY <1>5, <1>6, <2>1
  <2>3. E(file + 1) = E(file) + Len(ms) /\ E(file + 1) <= Len(Emitted)
        /\ E(file + 1) \in Nat
    <3>1. file \in 1..N /\ file + 1 \in 1..N + 1
      BY <1>4, <2>1
    <3> HIDE DEF ms
    <3> QED  BY <1>5, <2>1, <3>1
  <2>4. CASE pos <= Len(ms)
    <3>1. count' = count + 1 /\ pos' = pos + 1 /\ pc' \in {"visit", "flush"}
      BY <1>9, <2>4 DEF Visit, Goto
    <3>2. count' = E(file) + pos' - 1 /\ count' \in 0..Len(Emitted)
          /\ pos' <= Len(ms) + 1 /\ pos' \in Nat \ {0}
      <4>1. \A e, l, p, t \in Nat : \A c :
               c = e + p - 1 /\ p <= l /\ e + l <= t
               => c + 1 = e + (p + 1) - 1 /\ c + 1 \in 0..t /\ p + 1 <= l + 1
        OBVIOUS
      <4>2. Len(Emitted) \in Nat
        BY <1>5
      <4>3. E(file) + Len(ms) <= Len(Emitted) /\ count = E(file) + pos - 1
        BY <2>1, <2>3
      <4>4. pos \in Nat /\ pos + 1 \in Nat \ {0}
        BY <2>2
      <4> HIDE DEF ms, E
      <4> QED  BY <2>2, <2>4, <3>1, <4>1, <4>2, <4>3, <4>4
    <3>3. file' \in 1..N + 1 /\ file' <= N /\ pc' \notin {"file", "validate", "take", "round"}
      BY <1>4, <2>1, <3>1
    <3> QED  BY <1>7, <2>1, <3>1, <3>2, <3>3
  <2>5. CASE ~(pos <= Len(ms))
    <3>1. count' = count /\ pos' = pos /\ pc' \in {"take", "flush"}
      BY <1>9, <2>5 DEF Visit, Goto
    <3>2. count' = E(file + 1)
      <4> HIDE DEF ms
      <4> QED  BY <2>1, <2>2, <2>3, <2>5, <3>1
    <3>3. file' \in 1..N + 1 /\ file' <= N /\ pc' \in {"take", "flush"}
      BY <1>4, <2>1, <3>1
    <3> QED  BY <1>6, <1>7, <2>1, <3>1, <3>2, <3>3
  <2> QED  BY <1>7, <2>4, <2>5
<1>10. CASE EmitFile
  <2>1. pc = "round" /\ pc' = "file" /\ file' = file + 1 /\ count' = count /\ pos' = pos
    BY <1>10 DEF EmitFile, Goto
  <2>2. file + 1 \in 1..N + 1 /\ count = E(file + 1)
    BY <1>4, <1>6, <2>1
  <2> QED  BY <1>6, <1>7, <2>1, <2>2
<1>11. CASE /\ UNCHANGED <<file, pos, count>>
            /\ \/ pc' = pc \/ pc' = "done"
               \/ {pc, pc'} \subseteq {"visit", "flush", "carry"}
               \/ {pc, pc'} \subseteq {"take", "round"}
               \/ {pc, pc'} \subseteq {"validate", "idround"}
                     /\ pc' # "validate"
  BY <1>6, <1>7, <1>11 DEF Visiting
<1>12. OpenFile \/ Visit \/ EmitFile \/
       ( /\ UNCHANGED <<file, pos, count>>
         /\ \/ pc' = pc \/ pc' = "done"
            \/ {pc, pc'} \subseteq {"visit", "flush", "carry"}
            \/ {pc, pc'} \subseteq {"take", "round"}
            \/ {pc, pc'} \subseteq {"validate", "idround"}
                  /\ pc' # "validate" )
  BY DEF Next, Flush, Carry, FailVisiting, FailFile, TakeAll,
        MergeGroup, EndRound, FailRound, ValidateChunk, MergeIds,
        FinishIds, FailValidate, Terminated, Goto, Return, vars, discovery
<1> QED  BY <1>8, <1>9, <1>10, <1>11, <1>12

-----------------------------------------------------------------------------
(* What is in memory.                                                      *)

(* Spools of a store after one is added, or some are closed.               *)
LEMMA StoreOK ==
    ASSUME NEW s, \A n \in DOMAIN s : SpoolOK(s[n])
    PROVE  /\ \A names : \A n \in DOMAIN Without(s, names) : SpoolOK(Without(s, names)[n])
           /\ \A m, spool : SpoolOK(spool) =>
                 \A n \in DOMAIN With(s, m, spool) : SpoolOK(With(s, m, spool)[n])
<1>1. \A names : \A n \in DOMAIN Without(s, names) :
         n \in DOMAIN s /\ Without(s, names)[n] = s[n]
  BY DEF Without
<1>2. ASSUME NEW m, NEW spool, SpoolOK(spool), NEW n \in DOMAIN With(s, m, spool)
      PROVE  SpoolOK(With(s, m, spool)[n])
  <2>1. n \in DOMAIN s \cup {m}
        /\ With(s, m, spool)[n] = IF n = m THEN spool ELSE s[n]
    BY DEF With
  <2> QED  BY <1>2, <2>1
<1> QED  BY <1>1, <1>2

(* A step keeps every open spool well formed.                              *)
LEMMA StoreStep ==
    ASSUME ResourceInv, Next
    PROVE  \A n \in DOMAIN store' : SpoolOK(store'[n])
<1>1. \A n \in DOMAIN store : SpoolOK(store[n])
  BY DEF ResourceInv, BufferInv
<1>2. ASSUME NEW m, NEW ms \in Seq(Mutation), NEW names
      PROVE  /\ \A n \in DOMAIN With(store, m, Spooled(NewSpool, ms)) :
                   SpoolOK(With(store, m, Spooled(NewSpool, ms))[n])
             /\ \A n \in DOMAIN With(Without(store, names), m, Spooled(NewSpool, ms)) :
                   SpoolOK(With(Without(store, names), m, Spooled(NewSpool, ms))[n])
  <2>1. SpoolOK(Spooled(NewSpool, ms))
    BY SpooledIs, NewSpoolOK
  <2>2. \A n \in DOMAIN Without(store, names) : SpoolOK(Without(store, names)[n])
    BY <1>1, StoreOK
  <2> QED  BY <1>1, <2>1, <2>2, StoreOK
<1>3. CASE Flush
  <2>1. candidates \in Seq(Mutation)
    BY DEF ResourceInv, BufferInv
  <2>2. store' = With(store, fresh, Spooled(NewSpool, Sorted("mutation", candidates)))
    BY <1>3 DEF Flush
  <2> QED  BY <1>2, <2>1, <2>2, SortedIs, MutationOrder
<1>4. CASE Carry
  <2>1. CASE store' = store
    BY <1>1, <2>1
  <2>2. CASE store' = With(Without(store, SetOf(Here)), fresh,
                           Spooled(NewSpool, MergeRuns(Here)))
    <3>1. Here \in Seq(RunNames) /\ SetOf(Here) = SetOf(Have[level]) \cup {carry}
      BY <1>4, HaveIs DEF Carry, ResourceInv
    <3>2. SetOf(Have[level]) \subseteq LevelRuns
      <4>1. level \in 1..Len(levels) => Have[level] = levels[level]
            /\ level \in DOMAIN levels
        BY <1>4, HaveIs DEF Carry, ResourceInv
      <4>2. level \notin 1..Len(levels) => Have[level] = <<>>
        BY <1>4, HaveIs DEF Carry, ResourceInv
      <4>3. SetOf(<<>>) = {}
        BY DEF SetOf
      <4> QED  BY <4>1, <4>2, <4>3 DEF LevelRuns
    <3>3. SetOf(Here) \subseteq DOMAIN store
      BY <1>4, <3>1, <3>2 DEF ResourceInv, OwnInv, Owned, Carry
    <3>4. MergeRuns(Here) \in Seq(Mutation)
      BY <1>1, <3>1, <3>3, MergeRunsType
    <3> QED  BY <1>2, <2>2, <3>4
  <2>3. store' = store \/ store' = With(Without(store, SetOf(Here)), fresh,
                                        Spooled(NewSpool, MergeRuns(Here)))
    BY <1>4 DEF Carry, Have, Here
  <2> QED  BY <2>1, <2>2, <2>3
<1>5. CASE MergeGroup
  <2> DEFINE first == Done(merged) + 1
             end == GroupEnd(first, Len(chunks))
             group == SubSeq(chunks, first, end)
  <2>1. /\ pc = "round" /\ first <= Len(chunks)
        /\ store' = With(store, fresh, Spooled(NewSpool, MergeRuns(group)))
    BY <1>5 DEF MergeGroup
  <2>2. chunks \in Seq(RunNames) /\ Len(chunks) \in Nat /\ Len(merged) \in Nat
    BY DEF ResourceInv, PhaseInv
  <2>3. first \in Nat \ {0} /\ end \in Nat /\ first <= end /\ end <= Len(chunks)
    <3>1. Done(merged) \in Nat
      <4>1. \A a, b \in Nat : a * b \in Nat
        OBVIOUS
      <4> QED  BY <2>2, <4>1, DiscoveryAssumption DEF Done
    <3> QED  BY <2>1, <2>2, <3>1, DiscoveryAssumption DEF GroupEnd
  <2> HIDE DEF first, end
  <2>4. group \in Seq(RunNames) /\ SetOf(group) \subseteq SetOf(chunks)
    <3>1. \A i \in 1..Len(group) : group[i] = chunks[first + i - 1]
                                   /\ first + i - 1 \in 1..Len(chunks)
      BY <2>2, <2>3
    <3>2. group \in Seq(RunNames)
      BY <2>2, <2>3
    <3>3. DOMAIN group = 1..Len(group) /\ DOMAIN chunks = 1..Len(chunks)
      BY <2>2, <3>2
    <3> HIDE DEF group
    <3> QED  BY <3>1, <3>2, <3>3 DEF SetOf
  <2>5. SetOf(group) \subseteq DOMAIN store
    BY <2>1, <2>4 DEF ResourceInv, OwnInv, Owned
  <2>6. MergeRuns(group) \in Seq(Mutation)
    <3> HIDE DEF group
    <3> QED  BY <1>1, <2>4, <2>5, MergeRunsType
  <2> QED  BY <1>2, <2>1, <2>6
<1>6. CASE EmitFile
  <2>1. /\ pc = "round"
        /\ store' = [Without(store, SetOf(chunks)) EXCEPT
                        ![1] = Spooled(store[1], MergeRuns(chunks))]
    BY <1>6 DEF EmitFile
  <2>2. chunks \in Seq(RunNames) /\ SetOf(chunks) \subseteq DOMAIN store /\ 1 \in DOMAIN store
    BY <2>1 DEF ResourceInv, PhaseInv, OwnInv, Owned
  <2>3. MergeRuns(chunks) \in Seq(Mutation)
    BY <1>1, <2>2, MergeRunsType
  <2>4. SpoolOK(Spooled(store[1], MergeRuns(chunks)))
    BY <1>1, <2>2, <2>3, SpooledIs
  <2>5. \A n \in DOMAIN Without(store, SetOf(chunks)) :
           SpoolOK(Without(store, SetOf(chunks))[n])
    BY <1>1, StoreOK
  <2> DEFINE w == Without(store, SetOf(chunks))
             x == Spooled(store[1], MergeRuns(chunks))
  <2> HIDE DEF w, x
  <2>6. \A n \in DOMAIN store' : n \in DOMAIN w /\ (store'[n] = x \/ store'[n] = w[n])
    BY <2>1 DEF w, x
  <2> QED  BY <2>4, <2>5, <2>6 DEF w, x
<1>7. CASE store' = store \/ \E names : store' = Without(store, names)
  BY <1>1, <1>7, StoreOK
<1>8. Flush \/ Carry \/ MergeGroup \/ EmitFile \/ store' = store
      \/ \E names : store' = Without(store, names)
  BY Zenon DEF Next, OpenFile, Visit, FailVisiting, FailFile, TakeAll, EndRound,
        FailRound, ValidateChunk, MergeIds, FinishIds, FailValidate, Terminated,
        Goto, Return, vars, discovery
<1> QED  BY <1>3, <1>4, <1>5, <1>6, <1>7, <1>8

(* A step keeps the buffer smaller than a chunk.                           *)
LEMMA BufferStep ==
    ASSUME ResourceInv, Next
    PROVE  BufferInv'
<1>1. \A n \in DOMAIN store' : SpoolOK(store'[n])
  BY StoreStep
<1>2. /\ candidates \in Seq(Mutation) /\ Len(candidates) \in Nat
      /\ pc # "done" => Len(candidates) < ChunkSize
                        \/ (pc = "flush" /\ Len(candidates) = ChunkSize)
      /\ pc \notin {"visit", "flush", "done"} => candidates = <<>>
  BY DEF ResourceInv, BufferInv
<1>3. /\ <<>> \in Seq(Mutation) /\ Len(<<>>) = 0 /\ ChunkSize \in Nat \ {0}
  BY DiscoveryAssumption
<1> DEFINE Is ==
             /\ candidates' \in Seq(Mutation)
             /\ pc' # "done" => Len(candidates') < ChunkSize
                                \/ (pc' = "flush" /\ Len(candidates') = ChunkSize)
             /\ pc' = "flush" =>
                   /\ candidates' # <<>>
                   /\ Len(candidates') < ChunkSize => pos' > Len(input'[file'].emits)
             /\ pc' \notin {"visit", "flush", "done"} => candidates' = <<>>
<1>4. Is => BufferInv'
  BY <1>1 DEF BufferInv
<1>5. CASE Visit
  <2> DEFINE ms == input[file].emits
  <2>1. pc = "visit" /\ input' = input /\ file' = file
    BY <1>5 DEF Visit, Goto
  <2>2. ms \in Seq(Mutation) /\ pos \in Nat \ {0} /\ Len(ms) \in Nat
    <3>1. /\ input \in Inputs /\ file \in 1..Len(input) + 1 /\ file <= Len(input)
          /\ pos \in Nat \ {0}
      BY <2>1 DEF ResourceInv, CountInv, Visiting
    <3>2. file \in 1..Len(input)
      BY <3>1, EmitsIs
    <3>3. ms \in Seq(Mutation)
      BY <3>1, <3>2, EmitsIs
    <3> QED  BY <3>1, <3>3
  <2>3. CASE pos <= Len(ms)
    <3>1. /\ candidates' = Append(candidates, ms[pos])
          /\ pc' = IF Len(candidates) + 1 = ChunkSize THEN "flush" ELSE "visit"
      BY <1>5, <2>3 DEF Visit, Goto
    <3>2. ms[pos] \in Mutation
      BY <2>2, <2>3
    <3>3. candidates' \in Seq(Mutation) /\ Len(candidates') = Len(candidates) + 1
          /\ candidates' # <<>>
      <4> HIDE DEF ms
      <4> QED  BY <1>2, <3>1, <3>2
    <3>4. Len(candidates) < ChunkSize
      BY <1>2, <2>1
    <3> QED  BY <1>2, <1>3, <1>4, <3>1, <3>3, <3>4
  <2>4. CASE ~(pos <= Len(ms))
    <3>1. candidates' = candidates /\ pos' = pos
          /\ pc' = IF candidates = <<>> THEN "take" ELSE "flush"
      BY <1>5, <2>4 DEF Visit, Goto
    <3> QED  BY <1>2, <1>3, <1>4, <2>1, <2>2, <2>4, <3>1
  <2> QED  BY <2>3, <2>4
<1>6. CASE Flush
  <2>1. candidates' = <<>> /\ pc' = "carry"
    BY <1>6 DEF Flush, Goto
  <2> QED  BY <1>3, <1>4, <2>1
<1>7. CASE /\ candidates' = candidates /\ pc' # "flush"
           /\ pc' = "done" \/ pc' = pc
              \/ (pc \notin {"visit", "flush", "done"})
  BY <1>2, <1>3, <1>4, <1>7
<1>8. CASE UNCHANGED vars
  BY <1>4, <1>8 DEF ResourceInv, BufferInv, vars, discovery
<1>9. Visit \/ Flush \/ UNCHANGED vars \/
         ( /\ candidates' = candidates /\ pc' # "flush"
           /\ pc' = "done" \/ pc' = pc
              \/ (pc \notin {"visit", "flush", "done"}) )
  BY DEF Next, OpenFile, Carry, FailVisiting, FailFile, TakeAll,
        MergeGroup, EndRound, FailRound, EmitFile, ValidateChunk, MergeIds,
        FinishIds, FailValidate, Terminated, Goto, Return, discovery
<1> QED  BY <1>5, <1>6, <1>7, <1>8, <1>9

-----------------------------------------------------------------------------
(* Which files are owned.                                                  *)

(* The spools that are open after some are closed or one is opened.        *)
LEMMA DomainsOfStores ==
    /\ \A s, names : DOMAIN Without(s, names) = DOMAIN s \ names
    /\ \A s, n, spool : DOMAIN With(s, n, spool) = DOMAIN s \cup {n}
BY DEF Without, With

(* The runs of a carry's levels.                                           *)
LEMMA CarryRuns ==
    ASSUME ResourceInv, Carry
    PROVE  /\ levels' = [Have EXCEPT ![level] = Here] =>
                 LevelRuns' = LevelRuns \cup {carry}
           /\ levels' = [Have EXCEPT ![level] = <<>>] =>
                 LevelRuns' = LevelRuns \ SetOf(Have[level])
           /\ levels' \in {[Have EXCEPT ![level] = Here], [Have EXCEPT ![level] = <<>>]} =>
                 \A k, l \in DOMAIN levels' :
                    k # l => SetOf(levels'[k]) \cap SetOf(levels'[l]) = {}
           /\ SetOf(Have[level]) \subseteq LevelRuns
<1> DEFINE R(l) == SetOf(Have[l])
<1>1. /\ Have \in Seq(Seq(RunNames)) /\ Len(levels) \in Nat
      /\ level \in 1..Len(Have) /\ Len(Have) \in {Len(levels), Len(levels) + 1}
      /\ Len(Have) = Len(levels) + 1 => level = Len(levels) + 1
      /\ DOMAIN Have = 1..Len(Have) /\ DOMAIN levels = 1..Len(levels)
      /\ \A l \in 1..Len(levels) : Have[l] = levels[l]
      /\ level \notin 1..Len(levels) => Have[level] = <<>>
      /\ SetOf(Here) = SetOf(Have[level]) \cup {carry}
  BY HaveIs DEF ResourceInv, Carry
<1>2. carry \notin LevelRuns
      /\ \A k, l \in DOMAIN levels : k # l => SetOf(levels[k]) \cap SetOf(levels[l]) = {}
  BY DEF ResourceInv, OwnInv, Carry
<1>3. SetOf(<<>>) = {}
  BY DEF SetOf
<1>4. LevelRuns = UNION {R(l) : l \in DOMAIN Have}
  <2>1. CASE Len(Have) = Len(levels)
    BY <1>1, <2>1 DEF LevelRuns
  <2>2. CASE Len(Have) = Len(levels) + 1
    <3>1. DOMAIN Have = DOMAIN levels \cup {level} /\ R(level) = {}
      BY <1>1, <1>3, <2>2
    <3>2. \A l \in DOMAIN levels : R(l) = SetOf(levels[l])
      BY <1>1
    <3> HIDE DEF R
    <3> QED  BY <3>1, <3>2 DEF LevelRuns
  <2> QED  BY <1>1, <2>1, <2>2
<1>5. ASSUME NEW k \in DOMAIN Have, NEW l \in DOMAIN Have, k # l
      PROVE  R(k) \cap R(l) = {}
  <2>1. ASSUME NEW m \in DOMAIN Have
        PROVE  (m \in DOMAIN levels /\ R(m) = SetOf(levels[m])) \/ R(m) = {}
    <3>1. m \in DOMAIN levels \/ (m = level /\ level \notin 1..Len(levels))
      <4>1. CASE Len(Have) = Len(levels)
        BY <1>1, <4>1
      <4>2. CASE Len(Have) = Len(levels) + 1
        <5>1. m \in 1..Len(levels) + 1 /\ level = Len(levels) + 1
          BY <1>1, <4>2
        <5>2. \A n \in Nat : \A i \in 1..n + 1 :
                 i \in 1..n \/ (i = n + 1 /\ i \notin 1..n)
          OBVIOUS
        <5> QED  BY <1>1, <5>1, <5>2
      <4> QED  BY <1>1, <4>1, <4>2
    <3> QED  BY <1>1, <1>3, <3>1
  <2>2. (k \in DOMAIN levels /\ R(k) = SetOf(levels[k])) \/ R(k) = {}
    BY <2>1
  <2>3. (l \in DOMAIN levels /\ R(l) = SetOf(levels[l])) \/ R(l) = {}
    BY <2>1
  <2> HIDE DEF R
  <2> QED  BY <1>2, <1>5, <2>2, <2>3
<1>6. ASSUME NEW run
      PROVE  LET new == [Have EXCEPT ![level] = run]
             IN  /\ DOMAIN new = DOMAIN Have /\ new[level] = run
                 /\ \A l \in DOMAIN Have : l # level => new[l] = Have[l]
  BY <1>1
<1>7. R(level) \subseteq LevelRuns
  <2> HIDE DEF R
  <2> QED  BY <1>1, <1>4
<1>8. CASE levels' = [Have EXCEPT ![level] = Here]
  <2>1. /\ DOMAIN levels' = DOMAIN Have
        /\ SetOf(levels'[level]) = R(level) \cup {carry}
        /\ \A l \in DOMAIN Have : l # level => SetOf(levels'[l]) = R(l)
    BY <1>1, <1>6, <1>8
  <2>2. LevelRuns' = UNION {SetOf(levels'[l]) : l \in DOMAIN levels'}
    BY DEF LevelRuns
  <2> HIDE DEF R
  <2>3. LevelRuns' = LevelRuns \cup {carry}
    BY <1>1, <1>4, <2>1, <2>2
  <2>4. \A l \in DOMAIN Have : carry \notin R(l)
    BY <1>2, <1>4
  <2>5. ASSUME NEW k \in DOMAIN levels', NEW l \in DOMAIN levels', k # l
        PROVE  SetOf(levels'[k]) \cap SetOf(levels'[l]) = {}
    BY <1>5, <2>1, <2>4, <2>5
  <2>6. levels' # [Have EXCEPT ![level] = <<>>]
    <3>1. SetOf(levels'[level]) # {}
      BY <2>1
    <3> QED  BY <1>3, <1>6, <3>1
  <2> QED  BY <1>7, <2>3, <2>5, <2>6 DEF R
<1>9. CASE levels' = [Have EXCEPT ![level] = <<>>]
  <2>1. /\ DOMAIN levels' = DOMAIN Have
        /\ SetOf(levels'[level]) = {}
        /\ \A l \in DOMAIN Have : l # level => SetOf(levels'[l]) = R(l)
    BY <1>1, <1>3, <1>6, <1>9
  <2>2. LevelRuns' = UNION {SetOf(levels'[l]) : l \in DOMAIN levels'}
    BY DEF LevelRuns
  <2>3. levels' # [Have EXCEPT ![level] = Here]
    <3>1. SetOf(Here) # {}
      BY <1>1
    <3> QED  BY <1>6, <2>1, <3>1
  <2> HIDE DEF R
  <2>4. LevelRuns' = LevelRuns \ R(level)
    <3>1. level \in DOMAIN Have
          /\ \A l \in DOMAIN Have : l # level => R(l) \cap R(level) = {}
      BY <1>1, <1>5
    <3>2. ASSUME NEW x \in LevelRuns'
          PROVE  x \in LevelRuns \ R(level)
      <4>1. PICK l \in DOMAIN levels' : x \in SetOf(levels'[l])
        BY <2>2
      <4>2. l \in DOMAIN Have /\ l # level /\ x \in R(l)
        BY <2>1, <4>1
      <4> QED  BY <1>4, <3>1, <4>2
    <3>3. ASSUME NEW x \in LevelRuns \ R(level)
          PROVE  x \in LevelRuns'
      <4>1. PICK l \in DOMAIN Have : x \in R(l)
        BY <1>4
      <4>2. l \in DOMAIN levels' /\ x \in SetOf(levels'[l])
        BY <2>1, <4>1
      <4> QED  BY <2>2, <4>2
    <3> QED  BY <3>2, <3>3
  <2>5. ASSUME NEW k \in DOMAIN levels', NEW l \in DOMAIN levels', k # l
        PROVE  SetOf(levels'[k]) \cap SetOf(levels'[l]) = {}
    BY <1>5, <2>1, <2>5
  <2> QED  BY <1>7, <2>3, <2>4, <2>5 DEF R
<1> QED  BY <1>7, <1>8, <1>9

(* A step keeps open what the code still owns, and nothing else.           *)
LEMMA OwnStep ==
    ASSUME ResourceInv, Next
    PROVE  OwnInv'
<1> DEFINE Runs == LevelRuns
           Carried == IF pc = "carry" THEN {carry} ELSE {}
           Chunks == SetOf(chunks)
           Merged == SetOf(merged)
<1>1. /\ pc # "done" => DOMAIN store = {1} \cup Runs \cup Chunks \cup Merged \cup Carried
      /\ pc = "done" => DOMAIN store = (IF result = "ok" THEN {1} ELSE {})
      /\ idsThere <=> pc # "done"
      /\ \A k, l \in DOMAIN levels : k # l => SetOf(levels[k]) \cap SetOf(levels[l]) = {}
      /\ pc = "carry" => carry \notin Runs
      /\ Chunks \cap Merged = {}
  BY DEF ResourceInv, OwnInv, Owned
<1>2. SetOf(<<>>) = {} /\ DOMAIN <<>> = {} /\ Len(<<>>) <= FanIn
  BY DiscoveryAssumption DEF SetOf
<1>3. /\ levels = <<>> => Runs = {}
      /\ chunks = <<>> => Chunks = {}
      /\ merged = <<>> => Merged = {}
  BY <1>2 DEF LevelRuns
<1>4. /\ pc \in {"visit", "flush", "carry", "take"} => Chunks = {} /\ Merged = {}
      /\ pc \in {"file", "round", "validate", "idround"} => levels = <<>> /\ Runs = {}
      /\ pc \in {"file", "validate", "idround"} => Chunks = {} /\ Merged = {}
  BY <1>2, <1>3 DEF ResourceInv, PhaseInv
<1>5. /\ fresh \notin RunNames /\ 1 \notin RunNames /\ fresh # 1
      /\ Runs \subseteq RunNames /\ Chunks \subseteq RunNames /\ Merged \subseteq RunNames
      /\ pc = "carry" => carry \in RunNames
  <2>1. /\ fresh \in Nat \ {0, 1} /\ levels \in Seq(Seq(RunNames))
        /\ chunks \in Seq(RunNames) /\ merged \in Seq(RunNames)
        /\ pc = "carry" => carry \in RunNames
    BY DEF ResourceInv, PhaseInv
  <2>2. fresh \notin RunNames /\ 1 \notin RunNames /\ fresh # 1
    BY <2>1 DEF RunNames
  <2>3. ASSUME NEW X, NEW s \in Seq(X)
        PROVE  SetOf(s) \subseteq X
    BY DEF SetOf
  <2>4. \A l \in DOMAIN levels : levels[l] \in Seq(RunNames)
    BY <2>1
  <2>5. Runs \subseteq RunNames
    BY <2>3, <2>4 DEF LevelRuns
  <2> QED  BY <2>1, <2>2, <2>3, <2>5
<1> DEFINE Parts ==
             /\ \A k, l \in DOMAIN levels' :
                   k # l => SetOf(levels'[k]) \cap SetOf(levels'[l]) = {}
             /\ pc' = "carry" => carry' \notin Runs'
             /\ SetOf(chunks') \cap SetOf(merged') = {}
<1>6. ASSUME pc' # "done", idsThere', Parts,
             DOMAIN store' = {1} \cup Runs' \cup SetOf(chunks') \cup SetOf(merged')
                               \cup (IF pc' = "carry" THEN {carry'} ELSE {})
      PROVE  OwnInv'
  BY <1>6 DEF OwnInv, Owned
<1>7. ASSUME pc' = "done", ~idsThere', UNCHANGED <<levels, chunks, merged>>,
             DOMAIN store' = (IF result' = "ok" THEN {1} ELSE {})
      PROVE  OwnInv'
  BY <1>1, <1>7 DEF OwnInv
<1>8. ASSUME NEW how, NEW closing, Return(how, closing), pc # "done",
             closing = (Runs \cup Chunks \cup Merged \cup Carried)
      PROVE  OwnInv'
  <2>1. /\ result' = how /\ pc' = "done" /\ idsThere' = FALSE
        /\ UNCHANGED <<levels, chunks, merged>>
        /\ store' = Without(store, closing \cup (IF how = "ok" THEN {} ELSE {1}))
    BY <1>8 DEF Return
  <2>2. 1 \notin closing
    BY <1>5, <1>8
  <2>3. DOMAIN store = {1} \cup closing
    <3> HIDE DEF Runs, Chunks, Merged, Carried
    <3> QED  BY <1>1, <1>8
  <2>4. DOMAIN store' = DOMAIN store \ (closing \cup (IF how = "ok" THEN {} ELSE {1}))
    BY <2>1, DomainsOfStores
  <2>5. DOMAIN store' = (IF result' = "ok" THEN {1} ELSE {})
    BY <2>1, <2>2, <2>3, <2>4
  <2> QED  BY <1>7, <2>1, <2>5
<1>9. CASE Flush
  <2>1. /\ pc = "flush" /\ pc' = "carry" /\ carry' = fresh /\ idsThere' = idsThere
        /\ UNCHANGED <<levels, chunks, merged>>
        /\ DOMAIN store' = DOMAIN store \cup {fresh}
    BY <1>9, DomainsOfStores DEF Flush, Goto
  <2>2. Runs' = Runs
    BY <2>1 DEF LevelRuns
  <2> HIDE DEF Runs
  <2>3. Parts
    BY <1>1, <1>5, <2>1, <2>2
  <2>4. DOMAIN store' = {1} \cup Runs' \cup SetOf(chunks') \cup SetOf(merged') \cup {carry'}
    BY <1>1, <2>1, <2>2
  <2> QED  BY <1>1, <1>6, <2>1, <2>3, <2>4
<1>10. CASE Carry
  <2>1. /\ pc = "carry" /\ idsThere' = idsThere /\ UNCHANGED <<chunks, merged>>
    BY <1>10 DEF Carry, Goto
  <2>2. \/ /\ levels' = [Have EXCEPT ![level] = Here] /\ pc' = "visit" /\ store' = store
        \/ /\ levels' = [Have EXCEPT ![level] = <<>>] /\ pc' = "carry" /\ carry' = fresh
           /\ DOMAIN store' = (DOMAIN store \ SetOf(Here)) \cup {fresh}
    <3>1. \/ /\ levels' = [Have EXCEPT ![level] = Here] /\ pc' = "visit" /\ store' = store
          \/ /\ levels' = [Have EXCEPT ![level] = <<>>] /\ pc' = "carry" /\ carry' = fresh
             /\ store' = With(Without(store, SetOf(Here)), fresh,
                              Spooled(NewSpool, MergeRuns(Here)))
      BY <1>10, Zenon DEF Carry, Have, Here, Goto
    <3>2. DOMAIN With(Without(store, SetOf(Here)), fresh,
                      Spooled(NewSpool, MergeRuns(Here)))
             = (DOMAIN store \ SetOf(Here)) \cup {fresh}
      <4> DEFINE kept == Without(store, SetOf(Here))
                 spool == Spooled(NewSpool, MergeRuns(Here))
      <4>1. DOMAIN kept = DOMAIN store \ SetOf(Here)
        BY DomainsOfStores
      <4> HIDE DEF kept, spool
      <4>2. DOMAIN With(kept, fresh, spool) = DOMAIN kept \cup {fresh}
        BY DomainsOfStores
      <4> QED  BY <4>1, <4>2 DEF kept, spool
    <3> DEFINE w == With(Without(store, SetOf(Here)), fresh,
                         Spooled(NewSpool, MergeRuns(Here)))
    <3> HIDE DEF w
    <3> QED  BY <3>1, <3>2, Zenon DEF w
  <2>3. SetOf(Here) = SetOf(Have[level]) \cup {carry}
    BY <2>1, HaveIs DEF ResourceInv
  <2> DEFINE gone == SetOf(Have[level])
  <2>4. gone \subseteq Runs
    BY <1>10, CarryRuns
  <2>5. CASE levels' = [Have EXCEPT ![level] = Here] /\ pc' = "visit" /\ store' = store
    <3>1. Runs' = Runs \cup {carry}
      BY <1>10, <2>5, CarryRuns
    <3>2. Parts
      <4>1. levels' \in {[Have EXCEPT ![level] = Here], [Have EXCEPT ![level] = <<>>]}
        BY <2>5
      <4> QED  BY <1>1, <1>10, <2>1, <2>5, <4>1, CarryRuns
    <3>3. DOMAIN store' = {1} \cup Runs' \cup SetOf(chunks') \cup SetOf(merged')
      <4> HIDE DEF Runs
      <4> QED  BY <1>1, <2>1, <2>5, <3>1
    <3> HIDE DEF Parts, Runs
    <3> QED  BY <1>1, <1>6, <2>1, <2>5, <3>2, <3>3
  <2>6. CASE /\ levels' = [Have EXCEPT ![level] = <<>>] /\ pc' = "carry" /\ carry' = fresh
             /\ DOMAIN store' = (DOMAIN store \ SetOf(Here)) \cup {fresh}
    <3>1. Runs' = Runs \ gone
      BY <1>10, <2>6, CarryRuns
    <3>2. Parts
      <4>1. levels' \in {[Have EXCEPT ![level] = Here], [Have EXCEPT ![level] = <<>>]}
        BY <2>6
      <4>2. carry' \notin Runs'
        BY <1>5, <2>6, <3>1
      <4> QED  BY <1>1, <1>10, <2>1, <4>1, <4>2, CarryRuns
    <3>3. DOMAIN store' = {1} \cup Runs' \cup SetOf(chunks') \cup SetOf(merged') \cup {carry'}
      <4> HIDE DEF Runs, gone
      <4>1. DOMAIN store = {1} \cup Runs \cup {carry} /\ carry \notin Runs /\ carry # 1
            /\ 1 \notin Runs
        BY <1>1, <1>4, <1>5, <2>1
      <4>2. SetOf(chunks') = {} /\ SetOf(merged') = {}
        BY <1>4, <2>1
      <4> QED  BY <2>3, <2>4, <2>6, <3>1, <4>1, <4>2 DEF gone
    <3> HIDE DEF Parts, Runs
    <3> QED  BY <1>1, <1>6, <2>1, <2>6, <3>2, <3>3
  <2> QED  BY <2>2, <2>5, <2>6
<1>11. CASE FailVisiting
  <2>1. /\ pc \in {"visit", "flush", "carry"}
        /\ Return("error", LevelRuns \cup (IF pc = "carry" THEN {carry} ELSE {}))
    BY <1>11 DEF FailVisiting
  <2>2. LevelRuns \cup (IF pc = "carry" THEN {carry} ELSE {})
           = Runs \cup Chunks \cup Merged \cup Carried
    BY <1>4, <2>1
  <2> QED  BY <1>8, <2>1, <2>2
<1>12. CASE FailFile \/ FailRound
  <2>1. CASE FailFile
    <3>1. pc = "file" /\ Return("error", {})
      BY <2>1 DEF FailFile
    <3>2. {} = Runs \cup Chunks \cup Merged \cup Carried
      BY <1>4, <3>1
    <3> QED  BY <1>8, <3>1, <3>2
  <2>2. CASE FailRound
    <3>1. pc = "round" /\ Return("error", SetOf(chunks) \cup SetOf(merged))
      BY <2>2 DEF FailRound, RoundOwns
    <3>2. SetOf(chunks) \cup SetOf(merged) = Runs \cup Chunks \cup Merged \cup Carried
      BY <1>4, <3>1
    <3> QED  BY <1>8, <3>1, <3>2
  <2> QED  BY <1>12, <2>1, <2>2
<1>13. CASE TakeAll
  <2>1. /\ pc = "take" /\ pc' = "round" /\ idsThere' = idsThere
        /\ chunks' = Joined(levels) /\ levels' = <<>> /\ UNCHANGED <<merged, store>>
    BY <1>13 DEF TakeAll, Goto
  <2>2. SetOf(chunks') = Runs
    <3>1. levels \in Seq(Seq(RunNames))
      BY DEF ResourceInv, PhaseInv
    <3> QED  BY <2>1, <3>1, JoinedMembers DEF LevelRuns
  <2>3. Runs' = {} /\ DOMAIN levels' = {} /\ SetOf(merged') = {}
    BY <1>2, <1>4, <2>1 DEF LevelRuns
  <2>4. DOMAIN store' = {1} \cup Runs' \cup SetOf(chunks') \cup SetOf(merged')
    <3> HIDE DEF Runs
    <3> QED  BY <1>1, <1>4, <2>1, <2>2, <2>3
  <2>5. Parts
    BY <2>1, <2>3
  <2> QED  BY <1>1, <1>6, <2>1, <2>4, <2>5
<1>14. CASE MergeGroup
  <2>1. /\ pc = "round" /\ pc' = "round" /\ idsThere' = idsThere
        /\ merged' = Append(merged, fresh) /\ UNCHANGED <<levels, chunks>>
        /\ DOMAIN store' = DOMAIN store \cup {fresh}
    BY <1>14, DomainsOfStores DEF MergeGroup, Goto
  <2>2. SetOf(merged') = Merged \cup {fresh}
    <3>1. merged \in Seq(RunNames)
      BY DEF ResourceInv, PhaseInv
    <3>2. /\ \A i \in 1..Len(merged) : Append(merged, fresh)[i] = merged[i]
          /\ Append(merged, fresh)[Len(merged) + 1] = fresh
          /\ DOMAIN merged = 1..Len(merged) /\ Len(merged) \in Nat
          /\ DOMAIN Append(merged, fresh) = 1..Len(merged) + 1
      BY <3>1
    <3>3. 1..Len(merged) + 1 = 1..Len(merged) \cup {Len(merged) + 1}
      BY <3>2
    <3> QED  BY <2>1, <3>2, <3>3 DEF SetOf
  <2>3. Runs' = Runs
    BY <2>1 DEF LevelRuns
  <2> HIDE DEF Runs
  <2>4. Parts
    BY <1>1, <1>5, <2>1, <2>2, <2>3
  <2>5. DOMAIN store' = {1} \cup Runs' \cup SetOf(chunks') \cup SetOf(merged')
    BY <1>1, <2>1, <2>2, <2>3
  <2> QED  BY <1>1, <1>6, <2>1, <2>4, <2>5
<1>15. CASE EndRound
  <2>1. /\ pc = "round" /\ pc' = "round" /\ idsThere' = idsThere
        /\ chunks' = merged /\ merged' = <<>> /\ UNCHANGED levels
        /\ DOMAIN store' = DOMAIN store \ Chunks
    BY <1>15, DomainsOfStores DEF EndRound, Goto
  <2>2. Runs' = {} /\ Runs = {}
    BY <1>4, <2>1 DEF LevelRuns
  <2> HIDE DEF Runs
  <2>3. Parts
    BY <1>1, <1>2, <2>1
  <2>4. DOMAIN store' = {1} \cup Runs' \cup SetOf(chunks') \cup SetOf(merged')
    BY <1>1, <1>2, <1>5, <2>1, <2>2
  <2> QED  BY <1>1, <1>6, <2>1, <2>3, <2>4
<1>16. CASE EmitFile
  <2>1. /\ pc = "round" /\ pc' = "file" /\ idsThere' = idsThere /\ Len(chunks) <= FanIn
        /\ chunks' = <<>> /\ UNCHANGED <<levels, merged>>
        /\ DOMAIN store' = DOMAIN store \ Chunks
    BY <1>16, DomainsOfStores DEF EmitFile, Goto
  <2>2. Runs' = {} /\ Runs = {}
    BY <1>4, <2>1 DEF LevelRuns
  <2>3. Merged = {}
    BY <1>3, <2>1 DEF ResourceInv, PhaseInv
  <2> HIDE DEF Runs
  <2>4. Parts
    BY <1>1, <1>2, <2>1
  <2>5. DOMAIN store' = {1} \cup Runs' \cup SetOf(chunks') \cup SetOf(merged')
    BY <1>1, <1>2, <1>5, <2>1, <2>2, <2>3
  <2> QED  BY <1>1, <1>6, <2>1, <2>4, <2>5
<1>17. CASE \/ ValidateChunk /\ pc' = "done"
            \/ FinishIds \/ FailValidate
  <2>1. PICK how : pc \in {"validate", "idround"} /\ Return(how, {})
    BY <1>17 DEF ValidateChunk, FinishIds, FailValidate, Goto
  <2>2. {} = Runs \cup Chunks \cup Merged \cup Carried
    BY <1>4, <2>1
  <2> QED  BY <1>8, <2>1, <2>2
<1>18. CASE /\ UNCHANGED <<store, levels, chunks, merged, idsThere>>
            /\ pc # "done" /\ pc # "carry" /\ pc' # "done" /\ pc' # "carry"
  <2>1. Runs' = Runs
    BY <1>18 DEF LevelRuns
  <2> HIDE DEF Runs
  <2>2. Parts
    BY <1>1, <1>18
  <2>3. DOMAIN store' = {1} \cup Runs' \cup SetOf(chunks') \cup SetOf(merged')
    BY <1>1, <1>18, <2>1
  <2> QED  BY <1>1, <1>6, <1>18, <2>2, <2>3
<1>19. CASE UNCHANGED vars
  BY <1>19 DEF vars, discovery, ResourceInv, OwnInv, Owned, LevelRuns
<1>20. OpenFile \/ Visit \/ (ValidateChunk /\ pc' # "done") \/ MergeIds
         => /\ UNCHANGED <<store, levels, chunks, merged, idsThere>>
            /\ pc # "done" /\ pc # "carry" /\ pc' # "done" /\ pc' # "carry"
  BY DEF OpenFile, Visit, ValidateChunk, MergeIds, Goto, Return, discovery
<1> HIDE DEF Runs, Carried, Chunks, Merged, Parts
<1> QED
  BY <1>9, <1>10, <1>11, <1>12, <1>13, <1>14, <1>15, <1>16, <1>17, <1>18, <1>19,
     <1>20 DEF Next, Terminated

-----------------------------------------------------------------------------
(* How many candidates the runs hold.                                      *)

(* A carry moves runs up without changing how many chunks they stand for.  *)
LEMMA CarryHeld ==
    ASSUME ResourceInv, Carry
    PROVE  /\ InRuns \in Nat /\ FullRun(level) <= InRuns /\ InRuns' = InRuns
           /\ \/ Len(levels') = Len(levels)
              \/ Len(levels') = level
           /\ \A l \in DOMAIN levels' : Len(levels'[l]) < FanIn
<1> DEFINE H(ls) == Held(ls)[Len(ls)]
           n == Len(Have[level])
           b == FullRun(level)
<1>1. /\ pc = "carry" /\ levels \in Seq(Seq(RunNames)) /\ level \in Nat \ {0}
  BY DEF ResourceInv, PhaseInv, Carry
<1>2. /\ Have \in Seq(Seq(RunNames)) /\ Len(levels) \in Nat
      /\ level \in 1..Len(Have) /\ Len(Have) \in {Len(levels), Len(levels) + 1}
      /\ Len(Have) = Len(levels) + 1 => level = Len(levels) + 1
      /\ DOMAIN Have = 1..Len(Have) /\ DOMAIN levels = 1..Len(levels)
      /\ \A l \in 1..Len(levels) : Have[l] = levels[l]
      /\ level \notin 1..Len(levels) => Have[level] = <<>>
      /\ Have[level] \in Seq(RunNames) /\ Here \in Seq(RunNames)
      /\ Len(Here) = Len(Have[level]) + 1
  BY <1>1, HaveIs DEF ResourceInv
<1>3. /\ Len(levels) \in Nat /\ Have[level] \in Seq(RunNames)
       /\ Len(Here) = n + 1 /\ Have \in Seq(Seq(RunNames)) /\ level \in 1..Len(Have)
  BY <1>2
<1>4. Len(levels) \in Nat /\ n \in Nat /\ Len(Here) \in Nat /\ Len(Here) = n + 1
  <2>1. ASSUME NEW X, NEW r \in Seq(X) PROVE Len(r) \in Nat
    OBVIOUS
  <2>2. n \in Nat
    BY <1>3, <2>1
  <2> HIDE DEF n
  <2> QED  BY <1>3, <2>2
<1>5. b \in Nat \ {0} /\ FullRun(level + 1) = FanIn * b
  BY <1>1, FullRunIs
<1>6. H(levels) \in Nat
  <2>1. Len(levels) \in 0..Len(levels)
    BY <1>4
  <2> QED  BY <1>1, <2>1, HeldIs
<1>7. H(Have) = H(levels)
  <2>1. CASE level \in DOMAIN levels
    BY <2>1 DEF Have
  <2>2. CASE level \notin DOMAIN levels
    <3>1. Len(Have) = Len(levels) + 1 /\ level = Len(levels) + 1 /\ Have[level] = <<>>
      <4>1. Len(Have) # Len(levels)
        BY <1>2, <2>2
      <4> QED  BY <1>2, <2>2, <4>1
    <3>2. Held(Have)[level] = Held(Have)[level - 1] + Len(Have[level]) * b
      BY <1>2, HeldIs
    <3>3. Held(Have)[Len(levels)] = Held(levels)[Len(levels)]
      <4>1. \A l \in 1..Len(levels) : Len(levels[l]) = Len(Have[l])
        BY <1>2
      <4>2. Len(levels) \in 0..Len(levels) /\ Len(levels) <= Len(Have)
        BY <1>2, <3>1
      <4>3. levels \in Seq(Seq(RunNames)) /\ Have \in Seq(Seq(RunNames))
        BY <1>1, <1>2
      <4> HIDE DEF Have
      <4>4. Held(levels)[Len(levels)] = Held(Have)[Len(levels)]
        BY <4>1, <4>2, <4>3, HeldSame
      <4> QED  BY <4>4
    <3>4. level - 1 = Len(levels) /\ Len(Have[level]) * b = 0
      <4>1. Len(Have[level]) = 0
        BY <3>1
      <4>2. \A x \in Nat : 0 * x = 0
        OBVIOUS
      <4> HIDE DEF b
      <4> QED  BY <1>2, <1>5, <3>1, <4>1, <4>2
    <3> HIDE DEF b
    <3> QED  BY <1>6, <3>1, <3>2, <3>3, <3>4
  <2> QED  BY <2>1, <2>2
<1>8. n \in Nat /\ n < FanIn /\ FanIn \in Nat
  <2>1. CASE level \in DOMAIN levels
    <3>1. Len(levels[level]) < FanIn
      BY <2>1 DEF ResourceInv, StorageInv, LogarithmicRuns
    <3>2. n = Len(levels[level])
      BY <1>2, <2>1
    <3> HIDE DEF n
    <3> QED  BY <1>4, <3>1, <3>2, DiscoveryAssumption
  <2>2. CASE level \notin DOMAIN levels
    <3>1. n = 0
      <4>1. Have[level] = <<>>
        BY <1>2, <2>2
      <4> QED  BY <4>1
    <3> HIDE DEF n
    <3> QED  BY <3>1, DiscoveryAssumption
  <2> QED  BY <2>1, <2>2
<1>9. ASSUME NEW r \in Seq(RunNames)
      PROVE  LET new == [Have EXCEPT ![level] = r]
             IN  /\ H(new) = H(levels) + Len(r) * b - n * b
                 /\ Len(new) = Len(Have) /\ DOMAIN new = DOMAIN Have
                 /\ new[level] = r
                 /\ \A l \in DOMAIN Have : l # level => new[l] = Have[l]
  <2> DEFINE new == [Have EXCEPT ![level] = r]
  <2>1. /\ Len(new) = Len(Have) /\ DOMAIN new = DOMAIN Have /\ new[level] = r
        /\ \A l \in DOMAIN Have : l # level => new[l] = Have[l]
    BY <1>3
  <2>2. Held(new)[Len(Have)] = Held(Have)[Len(Have)] + Len(r) * b - n * b
    BY <1>3, HeldUpdate
  <2> HIDE DEF b, n
  <2> QED  BY <1>7, <2>1, <2>2
<1>10. InRuns = H(levels) + b
  BY <1>1 DEF InRuns
<1>11. InRuns' = H(levels') + (IF pc' = "carry" THEN FullRun(level') ELSE 0)
  BY DEF InRuns
<1>12. ASSUME NEW r \in Seq(RunNames), levels' = [Have EXCEPT ![level] = r], Len(r) < FanIn
       PROVE  /\ H(levels') = H(levels) + Len(r) * b - n * b
              /\ Len(levels') = Len(levels) \/ Len(levels') = level
              /\ \A l \in DOMAIN levels' : Len(levels'[l]) < FanIn
  <2>1. /\ H(levels') = H(levels) + Len(r) * b - n * b
        /\ Len(levels') = Len(Have) /\ DOMAIN levels' = DOMAIN Have
        /\ levels'[level] = r
        /\ \A l \in DOMAIN Have : l # level => levels'[l] = Have[l]
    BY <1>9, <1>12
  <2>2. Len(levels') = Len(levels) \/ Len(levels') = level
    BY <1>2, <2>1
  <2>3. ASSUME NEW l \in DOMAIN levels'
        PROVE  Len(levels'[l]) < FanIn
    <3>1. CASE l = level
      BY <1>12, <2>1, <3>1
    <3>2. CASE l # level
      <4>1. l \in 1..Len(Have) /\ levels'[l] = Have[l]
        BY <1>2, <2>1, <3>2
      <4>2. l \in 1..Len(levels)
        <5>1. CASE Len(Have) = Len(levels)
          BY <4>1, <5>1
        <5>2. CASE Len(Have) = Len(levels) + 1
          <6>1. \A k \in Nat : \A i \in 1..k + 1 : i = k + 1 \/ i \in 1..k
            OBVIOUS
          <6> QED  BY <1>2, <3>2, <4>1, <5>2, <6>1
        <5> QED  BY <1>2, <5>1, <5>2
      <4> QED
        BY <1>2, <4>1, <4>2 DEF ResourceInv, StorageInv, LogarithmicRuns
    <3> QED  BY <3>1, <3>2
  <2> QED  BY <2>1, <2>2, <2>3
<1>13. CASE /\ Len(Here) < FanIn /\ levels' = [Have EXCEPT ![level] = Here]
            /\ pc' = "visit"
  <2>1. /\ H(levels') = H(levels) + Len(Here) * b - n * b
        /\ Len(levels') = Len(levels) \/ Len(levels') = level
        /\ \A l \in DOMAIN levels' : Len(levels'[l]) < FanIn
    BY <1>2, <1>12, <1>13
  <2>2. Len(Here) * b - n * b = b
    <3>1. \A x, y \in Nat : (x + 1) * y - x * y = y
      OBVIOUS
    <3> HIDE DEF b, n
    <3> QED  BY <1>5, <1>4, <3>1
  <2>3. H(levels') = H(levels) + b
    <3> DEFINE c == Len(Here) * b
               d == n * b
               h == H(levels)
               k == H(levels')
    <3>1. c \in Nat /\ d \in Nat /\ c - d = b /\ k = h + c - d /\ h \in Nat
      <4>1. \A x, y \in Nat : x * y \in Nat
        OBVIOUS
      <4> HIDE DEF b, n
      <4> QED  BY <1>5, <1>6, <1>4, <2>1, <2>2, <4>1
    <3>2. k = h + b
      <4> HIDE DEF b, c, d, h, k
      <4> QED  BY <1>5, <3>1
    <3> QED  BY <3>2
  <2> HIDE DEF b, H
  <2> QED  BY <1>5, <1>6, <1>10, <1>11, <1>13, <2>1, <2>3 DEF b
<1>14. CASE /\ Len(Here) >= FanIn /\ levels' = [Have EXCEPT ![level] = <<>>]
            /\ pc' = "carry" /\ level' = level + 1
  <2>1. /\ H(levels') = H(levels) + Len(<<>>) * b - n * b
        /\ Len(levels') = Len(levels) \/ Len(levels') = level
        /\ \A l \in DOMAIN levels' : Len(levels'[l]) < FanIn
    <3>1. <<>> \in Seq(RunNames) /\ Len(<<>>) < FanIn
      BY DiscoveryAssumption
    <3> QED  BY <1>12, <1>14, <3>1
  <2>2. n + 1 = FanIn
    <3> HIDE DEF n
    <3> QED  BY <1>8, <1>14, <1>4
  <2>3. Len(<<>>) * b = 0 /\ n * b \in Nat /\ FanIn * b = n * b + b
    <3>1. \A x, y \in Nat : x * y \in Nat /\ (x + 1) * y = x * y + y /\ 0 * y = 0
      OBVIOUS
    <3> HIDE DEF b
    <3> QED  BY <1>5, <1>8, <2>2, <3>1
  <2>4. H(levels') + FanIn * b = H(levels) + b
    <3> DEFINE d == n * b
               h == H(levels)
               k == H(levels')
    <3>1. d \in Nat /\ k = h + 0 - d /\ h \in Nat /\ FanIn * b = d + b
      <4> HIDE DEF b
      <4> QED  BY <1>6, <2>1, <2>3
    <3>2. k + (d + b) = h + b
      <4> HIDE DEF b, d, h, k
      <4> QED  BY <1>5, <3>1
    <3> QED  BY <3>1, <3>2
  <2>5. InRuns' = H(levels') + FanIn * b
    BY <1>5, <1>11, <1>14
  <2> HIDE DEF b, H
  <2> QED  BY <1>5, <1>6, <1>10, <2>1, <2>4, <2>5 DEF b
<1>15. \/ /\ Len(Here) < FanIn /\ levels' = [Have EXCEPT ![level] = Here]
          /\ pc' = "visit"
       \/ /\ Len(Here) >= FanIn /\ levels' = [Have EXCEPT ![level] = <<>>]
          /\ pc' = "carry" /\ level' = level + 1
  <2>1. Len(Here) \in Nat
    BY <1>4
  <2>2. \/ /\ ~NeedsMerge(Here) /\ levels' = [Have EXCEPT ![level] = Here]
           /\ pc' = "visit"
        \/ /\ NeedsMerge(Here) /\ levels' = [Have EXCEPT ![level] = <<>>]
           /\ pc' = "carry" /\ level' = level + 1
    BY Zenon DEF Carry, Have, Here, Goto
  <2> QED  BY <2>1, <2>2, DiscoveryAssumption DEF NeedsMerge
<1> QED  BY <1>13, <1>14, <1>15

(* A step keeps every level shorter than the fan-in, and the runs as full  *)
(* as their levels say.                                                    *)
LEMMA LevelStep ==
    ASSUME ResourceInv, Next
    PROVE  LevelInv'
<1> DEFINE H(ls) == Held(ls)[Len(ls)]
           h == H(levels)
           c == Len(candidates)
<1>1. /\ pc = "visit" \/ pc = "flush" \/ pc = "carry" => pos \in Nat \ {0}
      /\ levels \in Seq(Seq(RunNames)) /\ candidates \in Seq(Mutation)
      /\ ChunkSize \in Nat \ {0}
  BY DiscoveryAssumption DEF ResourceInv, PhaseInv, BufferInv, CountInv
<1>2. h \in Nat /\ c \in Nat
  <2>1. Len(levels) \in 0..Len(levels)
    BY <1>1
  <2> QED  BY <1>1, <2>1, HeldIs
<1>3. InRuns = h + (IF pc = "carry" THEN FullRun(level) ELSE 0)
  BY DEF InRuns
<1>4. InRuns' = H(levels') + (IF pc' = "carry" THEN FullRun(level') ELSE 0)
  BY DEF InRuns
<1>5. pc \in {"visit", "flush", "carry"} =>
        \/ InRuns + c = pos - 1
        \/ /\ candidates = <<>> /\ pos > Len(input[file].emits)
           /\ InRuns < pos - 1 + ChunkSize
  BY DEF ResourceInv, LevelInv, Visiting
<1> DEFINE Is ==
             \/ InRuns' + Len(candidates') = pos' - 1
             \/ /\ candidates' = <<>> /\ pos' > Len(input'[file'].emits)
                /\ InRuns' < pos' - 1 + ChunkSize
<1>6. Is => LevelInv'
  BY DEF LevelInv
<1> HIDE DEF H, h, c
<1>7. CASE OpenFile /\ pc' = "visit"
  <2>1. /\ pc = "file" /\ pos' = 1 /\ candidates' = candidates /\ levels' = levels
    BY <1>7 DEF OpenFile, Goto
  <2>2. candidates = <<>> /\ levels = <<>>
    BY <2>1 DEF ResourceInv, PhaseInv, BufferInv
  <2>3. H(<<>>) = 0
    <3>1. <<>> \in Seq(Seq(RunNames)) /\ Len(<<>>) = 0
      OBVIOUS
    <3> QED  BY <3>1, HeldIs DEF H
  <2>4. InRuns' = 0 /\ Len(candidates') = 0
    BY <1>4, <1>7, <2>1, <2>2, <2>3
  <2> QED  BY <1>6, <2>1, <2>4
<1>8. CASE Visit
  <2>1. pc = "visit" /\ levels' = levels /\ input' = input /\ file' = file /\ pc' # "carry"
    BY <1>8 DEF Visit, Goto
  <2>2. InRuns = h /\ InRuns' = h
    BY <1>2, <1>3, <1>4, <2>1 DEF h
  <2>3. pos \in Nat \ {0}
    BY <1>1, <2>1
  <2>4. CASE pos <= Len(input[file].emits)
    <3>1. /\ pos' = pos + 1
          /\ candidates' = Append(candidates, input[file].emits[pos])
      BY <1>8, <2>4 DEF Visit
    <3>2. Len(candidates') = c + 1
      BY <1>1, <3>1 DEF c
    <3>3. ~(pos > Len(input[file].emits))
      <4>1. Len(input[file].emits) \in Nat
        <5>1. input \in Inputs /\ file \in 1..Len(input) + 1 /\ file <= Len(input)
          BY <2>1 DEF ResourceInv, CountInv, Visiting
        <5>2. file \in 1..Len(input)
          BY <5>1, EmitsIs
        <5>3. input[file].emits \in Seq(Mutation)
          BY <5>1, <5>2, EmitsIs
        <5> QED  BY <5>3
      <4> QED  BY <2>3, <2>4, <4>1
    <3>4. h + c = pos - 1
      BY <1>5, <2>1, <2>2, <3>3
    <3> QED  BY <1>2, <1>6, <2>2, <2>3, <3>1, <3>2, <3>4
  <2>5. CASE ~(pos <= Len(input[file].emits))
    <3>1. UNCHANGED <<pos, candidates>>
      BY <1>8, <2>5 DEF Visit
    <3> QED  BY <1>5, <1>6, <2>1, <2>2, <3>1 DEF c
  <2> QED  BY <2>4, <2>5
<1>9. CASE Flush
  <2>1. /\ pc = "flush" /\ pc' = "carry" /\ level' = 1 /\ candidates' = <<>>
        /\ UNCHANGED <<levels, pos, file, input>>
    BY <1>9 DEF Flush, Goto
  <2>2. InRuns = h /\ InRuns' = h + ChunkSize
    BY <1>2, <1>3, <1>4, <2>1, FullRunIs DEF h
  <2>3. /\ candidates # <<>> /\ c > 0 /\ c <= ChunkSize
        /\ c < ChunkSize => pos > Len(input[file].emits)
    <3>1. /\ candidates # <<>>
          /\ c < ChunkSize => pos > Len(input[file].emits)
          /\ c < ChunkSize \/ c = ChunkSize
      BY <2>1 DEF ResourceInv, BufferInv, c
    <3>2. c # 0
      BY <1>1, <3>1 DEF c
    <3> QED  BY <1>1, <1>2, <3>1, <3>2
  <2>4. h + c = pos - 1
    BY <1>5, <2>1, <2>2, <2>3
  <2>5. pos \in Nat \ {0} /\ Len(candidates') = 0
    BY <1>1, <2>1
  <2>6. CASE c = ChunkSize
    <3>1. InRuns' + Len(candidates') = pos' - 1
      BY <1>1, <1>2, <2>1, <2>2, <2>4, <2>5, <2>6
    <3> QED  BY <1>6, <3>1
  <2>7. CASE c < ChunkSize
    <3>1. InRuns' < pos' - 1 + ChunkSize
      BY <1>1, <1>2, <2>1, <2>2, <2>3, <2>4, <2>5
    <3> QED  BY <1>6, <2>1, <2>3, <2>7, <3>1
  <2> QED  BY <1>1, <1>2, <2>3, <2>6, <2>7
<1>10. CASE Carry
  <2>1. pc = "carry" /\ UNCHANGED <<candidates, pos, file, input>>
    BY <1>10 DEF Carry, Goto
  <2>2. InRuns' = InRuns
    BY <1>10, CarryHeld
  <2> QED  BY <1>5, <1>6, <2>1, <2>2 DEF c
<1>11. CASE pc' \notin {"visit", "flush", "carry"}
  BY <1>11 DEF LevelInv, Visiting
<1>12. CASE UNCHANGED vars
  BY <1>12 DEF vars, discovery, ResourceInv, LevelInv, Visiting, InRuns
<1>13. (OpenFile /\ pc' = "visit") \/ Visit \/ Flush \/ Carry \/ UNCHANGED vars
          \/ pc' \notin {"visit", "flush", "carry"}
  BY DEF Next, OpenFile, FailVisiting, FailFile, TakeAll,
        MergeGroup, EndRound, FailRound, EmitFile, ValidateChunk, MergeIds,
        FinishIds, FailValidate, Terminated, Goto, Return
<1> QED  BY <1>7, <1>8, <1>9, <1>10, <1>11, <1>12, <1>13

(* A step keeps the levels few.                                            *)
LEMMA LogarithmicStep ==
    ASSUME ResourceInv, Next
    PROVE  LogarithmicRuns'
<1>1. /\ \A l \in DOMAIN levels : Len(levels[l]) < FanIn
      /\ Len(levels) > 0 => FullRun(Len(levels)) < pos - 1 + ChunkSize
  BY DEF ResourceInv, StorageInv, LogarithmicRuns
<1>2. /\ pos \in Nat \ {0} /\ ChunkSize \in Nat \ {0}
      /\ levels \in Seq(Seq(RunNames)) /\ Len(levels) \in Nat
  BY DiscoveryAssumption DEF ResourceInv, CountInv, PhaseInv
<1>3. Len(levels) > 0 => FullRun(Len(levels)) \in Nat
  BY <1>2, FullRunType
<1>4. CASE Carry
  <2>1. /\ pc = "carry" /\ pos' = pos
    BY <1>4 DEF Carry, Goto
  <2>2. /\ InRuns \in Nat /\ FullRun(level) <= InRuns
        /\ \/ Len(levels') = Len(levels)
           \/ Len(levels') = level
        /\ \A l \in DOMAIN levels' : Len(levels'[l]) < FanIn
    BY <1>4, CarryHeld
  <2>3. InRuns < pos - 1 + ChunkSize
    <3>1. candidates = <<>> /\ Len(candidates) = 0
      BY <2>1 DEF ResourceInv, BufferInv
    <3>2. InRuns + 0 = pos - 1 \/ InRuns < pos - 1 + ChunkSize
      BY <2>1, <3>1 DEF ResourceInv, LevelInv, Visiting
    <3> QED  BY <1>2, <2>2, <3>2
  <2>4. FullRun(level) < pos - 1 + ChunkSize
    <3>1. FullRun(level) \in Nat
      <4>1. level \in Nat \ {0}
        BY <2>1 DEF ResourceInv, PhaseInv
      <4> QED  BY <4>1, FullRunType
    <3> QED  BY <1>2, <2>2, <2>3, <3>1
  <2>5. Len(levels') > 0 => FullRun(Len(levels')) < pos' - 1 + ChunkSize
    BY <1>1, <2>1, <2>2, <2>4
  <2> QED  BY <2>2, <2>5 DEF LogarithmicRuns
<1>5. CASE levels' = <<>>
  <2>1. DOMAIN levels' = {} /\ Len(levels') = 0
    BY <1>5
  <2> QED  BY <2>1 DEF LogarithmicRuns
<1>6. CASE Visit
  <2>1. levels' = levels /\ (pos' = pos \/ pos' = pos + 1)
    BY <1>6 DEF Visit
  <2>2. Len(levels) > 0 => FullRun(Len(levels)) < pos' - 1 + ChunkSize
    BY <1>1, <1>2, <1>3, <2>1
  <2> QED  BY <1>1, <2>1, <2>2 DEF LogarithmicRuns
<1>7. CASE UNCHANGED <<levels, pos>>
  BY <1>1, <1>7 DEF LogarithmicRuns
<1>8. Carry \/ Visit \/ levels' = <<>> \/ UNCHANGED <<levels, pos>>
  <2>1. pc = "file" => levels = <<>>
    BY DEF ResourceInv, PhaseInv
  <2> QED
    BY <2>1 DEF Next, OpenFile, Flush, FailVisiting, FailFile, TakeAll,
          MergeGroup, EndRound, FailRound, EmitFile, ValidateChunk, MergeIds,
          FinishIds, FailValidate, Terminated, Goto, Return, vars, discovery
<1> QED  BY <1>4, <1>5, <1>6, <1>7, <1>8

(* The types, from the other parts.                                        *)
LEMMA TypeStep ==
    ASSUME ResourceInv, Next
    PROVE  TypeOK'
<1>1. PhaseInv' /\ BufferInv' /\ CountInv'
  BY PhaseStep, BufferStep, CountStep
<1>2. /\ pc' \in {"file", "visit", "flush", "carry", "take", "round", "validate",
                  "idround", "done"}
      /\ result' \in {"running", "ok", "error", "duplicate"}
  <2>1. /\ pc \in {"file", "visit", "flush", "carry", "take", "round", "validate",
                   "idround", "done"}
        /\ result \in {"running", "ok", "error", "duplicate"}
    BY DEF ResourceInv, StorageInv, TypeOK
  <2> QED
    BY <2>1 DEF Next, OpenFile, Visit, Flush, Carry, FailVisiting, FailFile, TakeAll,
          MergeGroup, EndRound, FailRound, EmitFile, ValidateChunk, MergeIds,
          FinishIds, FailValidate, Terminated, Goto, Return, vars
<1>3. Len(candidates') <= ChunkSize
  <2>1. CASE pc' = "done"
    <3>1. candidates' = candidates
      BY <2>1 DEF Next, OpenFile, Visit, Flush, Carry, FailVisiting, FailFile, TakeAll,
            MergeGroup, EndRound, FailRound, EmitFile, ValidateChunk, MergeIds,
            FinishIds, FailValidate, Terminated, Goto, Return, vars, discovery
    <3> QED  BY <3>1 DEF ResourceInv, StorageInv, TypeOK
  <2>2. CASE pc' # "done"
    <3>1. candidates' \in Seq(Mutation)
      BY <1>1 DEF BufferInv
    <3>2. Len(candidates') \in Nat /\ ChunkSize \in Nat
      BY <3>1, DiscoveryAssumption
    <3>3. Len(candidates') < ChunkSize \/ Len(candidates') = ChunkSize
      BY <1>1, <2>2 DEF BufferInv
    <3> QED  BY <3>2, <3>3
  <2> QED  BY <2>1, <2>2
<1>4. \A n \in DOMAIN store' : WithinLimits(store'[n]) /\ Readable(store'[n])
  BY <1>1 DEF BufferInv, SpoolOK
<1>5. SetOf(chunks') \cup SetOf(merged') \cup LevelRuns' \subseteq 2..fresh'
  <2>1. /\ fresh' \in Nat \ {0, 1} /\ levels' \in Seq(Seq(RunNames'))
        /\ chunks' \in Seq(RunNames') /\ merged' \in Seq(RunNames')
    BY <1>1 DEF PhaseInv
  <2>2. RunNames' \subseteq 2..fresh'
    <3>1. \A k \in Nat : 2..k - 1 \subseteq 2..k
      OBVIOUS
    <3> QED  BY <2>1, <3>1 DEF RunNames
  <2>3. ASSUME NEW X, NEW s \in Seq(X)
        PROVE  SetOf(s) \subseteq X
    BY DEF SetOf
  <2>4. \A l \in DOMAIN levels' : levels'[l] \in Seq(RunNames')
    BY <2>1
  <2>5. LevelRuns' \subseteq RunNames'
    BY <2>3, <2>4 DEF LevelRuns
  <2> QED  BY <2>1, <2>2, <2>3, <2>5
<1>6. count' \in 0..Len(Emitted')
  BY <1>1 DEF CountInv
<1> QED  BY <1>2, <1>3, <1>4, <1>5, <1>6 DEF TypeOK

-----------------------------------------------------------------------------
(* What holds of every behaviour.                                          *)

(* A step keeps what discovery owns and holds.                             *)
LEMMA ResourceStep ==
    ResourceInv /\ [Next]_vars => ResourceInv'
<1> SUFFICES ASSUME ResourceInv, [Next]_vars PROVE ResourceInv'
  OBVIOUS
<1>1. CASE Next
  <2>1. TypeOK' /\ LogarithmicRuns'
    BY <1>1, TypeStep, LogarithmicStep
  <2>2. PhaseInv' /\ OwnInv' /\ BufferInv' /\ CountInv' /\ LevelInv'
    BY <1>1, PhaseStep, OwnStep, BufferStep, CountStep, LevelStep
  <2> QED  BY <2>1, <2>2 DEF ResourceInv, StorageInv
<1>2. CASE UNCHANGED vars
  <2>1. /\ input' = input /\ pc' = pc /\ file' = file /\ pos' = pos
        /\ candidates' = candidates /\ levels' = levels /\ carry' = carry
        /\ level' = level /\ chunks' = chunks /\ merged' = merged /\ store' = store
        /\ fresh' = fresh /\ count' = count /\ idsThere' = idsThere
        /\ idRuns' = idRuns /\ idMerged' = idMerged /\ result' = result
    BY <1>2 DEF vars, discovery, validation
  <2>2. /\ Emits' = Emits /\ LevelRuns' = LevelRuns /\ RunNames' = RunNames
        /\ Visiting' = Visiting /\ InRuns' = InRuns
    BY <2>1 DEF Emits, LevelRuns, RunNames, Visiting, InRuns
  <2>3. Emitted' = Emitted /\ Owned' = Owned
    BY <2>1, <2>2 DEF Emitted, Owned
  <2>4. TypeOK'
    BY <2>1, <2>2, <2>3 DEF ResourceInv, StorageInv, TypeOK
  <2>5. LogarithmicRuns'
    BY <2>1 DEF ResourceInv, StorageInv, LogarithmicRuns
  <2>6. PhaseInv'
    BY <2>1, <2>2 DEF ResourceInv, PhaseInv
  <2>7. OwnInv'
    BY <2>1, <2>2, <2>3 DEF ResourceInv, OwnInv
  <2>8. BufferInv'
    BY <2>1 DEF ResourceInv, BufferInv
  <2>9. CountInv'
    BY <2>1, <2>2, <2>3 DEF ResourceInv, CountInv, EmittedBefore
  <2>10. LevelInv'
    BY <2>1, <2>2 DEF ResourceInv, LevelInv
  <2> QED
    BY <2>4, <2>5, <2>6, <2>7, <2>8, <2>9, <2>10 DEF ResourceInv, StorageInv
<1> QED  BY <1>1, <1>2

-----------------------------------------------------------------------------
(* Changes of the runs. *)

(* Merging some of the runs gives a run of what they hold.                 *)
LEMMA MergedRuns ==
    ASSUME NEW live, NEW content, NEW X, NEW names \in Seq(X),
           RunsHold(store, live, content), Distinct(names), SetOf(names) \subseteq live,
           \A n \in live : Records(store[n]) \in Seq(Mutation)
    PROVE  /\ MergeRuns(names) \in Seq(Mutation)
           /\ InOrder("mutation", MergeRuns(names)) /\ Distinct(MergeRuns(names))
           /\ SetOf(MergeRuns(names)) =
                 UNION {SetOf(Records(store[n])) : n \in SetOf(names)}
<1> DEFINE runs == [i \in DOMAIN names |-> Records(store[names[i]])]
<1>1. /\ Len(names) \in Nat /\ DOMAIN names = 1..Len(names)
      /\ \A i \in DOMAIN names : names[i] \in SetOf(names) /\ names[i] \in live
  BY DEF SetOf
<1>2. runs \in [1..Len(names) -> Seq(Mutation)]
  BY <1>1
<1>3. runs \in Seq(Seq(Mutation)) /\ DOMAIN runs = DOMAIN names
  BY <1>1, <1>2, SeqOfLength
<1>4. \A i \in DOMAIN names : runs[i] = Records(store[names[i]])
  OBVIOUS
<1>5. MergeRuns(names) = MergeBy("mutation", runs)
  BY DEF MergeRuns
<1> HIDE DEF runs
<1>6. \A r \in DOMAIN runs : InOrder("mutation", runs[r]) /\ Distinct(runs[r])
  BY <1>1, <1>3, <1>4 DEF RunsHold
<1>7. \A i, j \in DOMAIN runs : i # j => SetOf(runs[i]) \cap SetOf(runs[j]) = {}
  <2> SUFFICES ASSUME NEW i \in DOMAIN names, NEW j \in DOMAIN names, i # j
               PROVE  SetOf(runs[i]) \cap SetOf(runs[j]) = {}
    BY <1>3
  <2>1. names[i] # names[j]
    BY DEF Distinct
  <2> QED
    BY <1>1, <1>4, <2>1 DEF RunsHold
<1>8. runs \in Seq(Seq(Universe("mutation")))
  BY <1>3, MutationOrder
<1>9. /\ MergeBy("mutation", runs) \in Seq(Mutation)
      /\ Len(MergeBy("mutation", runs)) = Len(Joined(runs))
      /\ SetOf(MergeBy("mutation", runs)) = SetOf(Joined(runs))
      /\ InOrder("mutation", MergeBy("mutation", runs))
  BY <1>6, <1>8, MergeIs, MutationOrder
<1>10. /\ Joined(runs) \in Seq(Mutation)
       /\ SetOf(Joined(runs)) = UNION {SetOf(runs[l]) : l \in DOMAIN runs}
  BY <1>3, JoinedMembers
<1>11. Distinct(Joined(runs))
  BY <1>3, <1>6, <1>7, JoinedDistinct
<1>12. Distinct(MergeBy("mutation", runs))
  BY <1>9, <1>10, <1>11, DistinctSame
<1>13. UNION {SetOf(runs[l]) : l \in DOMAIN runs}
         = UNION {SetOf(Records(store[n])) : n \in SetOf(names)}
  <2>1. \A l \in DOMAIN names : SetOf(runs[l]) = SetOf(Records(store[names[l]]))
    BY <1>4
  <2>2. SetOf(names) = {names[l] : l \in DOMAIN names}
    BY DEF SetOf
  <2>3. UNION {SetOf(runs[l]) : l \in DOMAIN runs}
          = UNION {SetOf(Records(store[names[l]])) : l \in DOMAIN names}
    BY <1>3, <2>1
  <2> QED
    BY <2>2, <2>3
<1> QED
  BY <1>5, <1>9, <1>10, <1>12, <1>13

(* A run takes the place of some, and may hold more than they did.         *)
LEMMA ReplacedRuns ==
    ASSUME NEW s, NEW t, NEW live, NEW gone, NEW new, NEW content, NEW more,
           RunsHold(s, live, content), gone \subseteq live, new \notin live \ gone,
           \A n \in live \ gone : t[n] = s[n],
           InOrder("mutation", Records(t[new])), Distinct(Records(t[new])),
           more \cap content = {},
           SetOf(Records(t[new])) = (UNION {SetOf(Records(s[n])) : n \in gone}) \cup more
    PROVE  RunsHold(t, (live \ gone) \cup {new}, content \cup more)
<1> DEFINE In(st, n) == SetOf(Records(st[n]))
           Rest == live \ gone
<1>1. \A n \in Rest : In(t, n) = In(s, n)
  OBVIOUS
<1>2. /\ \A m, n \in live : m # n => In(s, m) \cap In(s, n) = {}
      /\ \A n \in live : In(s, n) \subseteq content
      /\ UNION {In(s, n) : n \in live} = content
  BY DEF RunsHold
<1>3. In(t, new) = (UNION {In(s, n) : n \in gone}) \cup more
  OBVIOUS
<1>4. \A n \in Rest \cup {new} :
         InOrder("mutation", Records(t[n])) /\ Distinct(Records(t[n]))
  BY DEF RunsHold
<1> HIDE DEF In
<1>5. \A n \in Rest : In(s, n) \cap In(t, new) = {}
  BY <1>2, <1>3
<1>6. \A m, n \in Rest \cup {new} : m # n => In(t, m) \cap In(t, n) = {}
  BY <1>1, <1>2, <1>5
<1>7. UNION {In(t, n) : n \in Rest \cup {new}} = content \cup more
  <2>1. UNION {In(t, n) : n \in Rest \cup {new}}
          = (UNION {In(t, n) : n \in Rest}) \cup In(t, new)
    OBVIOUS
  <2>2. UNION {In(t, n) : n \in Rest} = UNION {In(s, n) : n \in Rest}
    BY <1>1
  <2>3. (UNION {In(s, n) : n \in Rest}) \cup (UNION {In(s, n) : n \in gone})
          = UNION {In(s, n) : n \in live}
    OBVIOUS
  <2> QED
    BY <1>2, <1>3, <2>1, <2>2, <2>3
<1> QED
  BY <1>4, <1>6, <1>7 DEF RunsHold, In

(* Runs that stay as they are.                                             *)
LEMMA SameRuns ==
    ASSUME NEW s, NEW t, NEW live, NEW content,
           RunsHold(s, live, content), \A n \in live : t[n] = s[n]
    PROVE  RunsHold(t, live, content)
<1>1. \A n \in live : Records(t[n]) = Records(s[n])
  OBVIOUS
<1>2. UNION {SetOf(Records(t[n])) : n \in live} = UNION {SetOf(Records(s[n])) : n \in live}
  BY <1>1
<1> QED
  BY <1>1, <1>2 DEF RunsHold

-----------------------------------------------------------------------------
(* The steps of FoundInv. *)

(* No sequence of names contains one twice after a step.                   *)
LEMMA NamesStep ==
    ASSUME ResourceInv, FoundInv, Next
    PROVE  NamesInv'
<1> USE DEF ResourceInv, StorageInv, FoundInv
<1>1. ASSUME UNCHANGED <<levels, chunks, merged>>
      PROVE  NamesInv'
  BY <1>1 DEF NamesInv, Distinct
<1>2. CASE Carry
  <2>1. chunks' = chunks /\ merged' = merged /\ pc = "carry"
    BY <1>2 DEF Carry
  <2>2. levels' \in {[Have EXCEPT ![level] = Here], [Have EXCEPT ![level] = <<>>]}
    BY <1>2 DEF Carry, Have, Here
  <2> HIDE DEF ResourceInv, FoundInv
  <2>3. /\ Have \in Seq(Seq(RunNames)) /\ level \in 1..Len(Have)
        /\ DOMAIN Have = 1..Len(Have) /\ Len(Have) \in {Len(levels), Len(levels) + 1}
        /\ Len(levels) \in Nat /\ DOMAIN levels = 1..Len(levels)
        /\ Len(Have) = Len(levels) + 1 => level = Len(levels) + 1
        /\ \A l \in 1..Len(levels) : Have[l] = levels[l]
        /\ level \notin 1..Len(levels) => Have[level] = <<>>
        /\ Have[level] \in Seq(RunNames) /\ carry \in RunNames
    BY <2>1, HaveIs DEF ResourceInv
  <2>4. Distinct(<<>>)
    BY DEF Distinct
  <2>5. Distinct(Have[level])
    BY <2>3, <2>4 DEF FoundInv, NamesInv
  <2>6. carry \notin SetOf(Have[level])
    <3>1. carry \notin LevelRuns
      BY <2>1 DEF ResourceInv, OwnInv
    <3>2. SetOf(Have[level]) \subseteq LevelRuns
      BY <1>2, CarryRuns
    <3> QED
      BY <3>1, <3>2
  <2>7. Distinct(Here)
    BY <2>3, <2>5, <2>6, DistinctAppend DEF Here
  <2>8. \A l \in 1..Len(Have) : l # level => Distinct(Have[l])
    <3>1. \A l \in 1..Len(Have) : l # level => l \in 1..Len(levels)
      <4>1. \A a, b, v \in Nat :
               a \in {b, b + 1} /\ (a = b + 1 => v = b + 1) =>
                  \A l \in 1..a : l # v => l \in 1..b
        OBVIOUS
      <4>2. Len(Have) \in Nat /\ level \in Nat
        <5>1. \A b \in Nat : \A a \in {b, b + 1} :
                 a \in Nat /\ \A v \in 1..a : v \in Nat
          OBVIOUS
        <5> QED
          BY <2>3, <5>1, Zenon
      <4> QED
        BY <2>3, <4>1, <4>2, Zenon
    <3> QED
      BY <2>3, <3>1 DEF FoundInv, NamesInv
  <2>9. DOMAIN levels' = 1..Len(Have)
    BY <2>2, <2>3
  <2>10. \A l \in 1..Len(Have) :
            levels'[l] = Have[l] \/ (l = level /\ levels'[l] \in {Here, <<>>})
    BY <2>2, <2>3
  <2>11. \A l \in 1..Len(Have) : l # level => levels'[l] = Have[l]
    BY <2>2, <2>3
  <2>12. levels'[level] \in {Here, <<>>}
    BY <2>2, <2>3
  <2>13. \A l \in DOMAIN levels' : Distinct(levels'[l])
    BY <2>4, <2>7, <2>8, <2>9, <2>11, <2>12
  <2> QED
    BY <2>1, <2>13 DEF FoundInv, NamesInv, Distinct
<1>3. CASE TakeAll
  <2>1. levels' = <<>> /\ chunks' = Joined(levels) /\ merged' = merged
    BY <1>3 DEF TakeAll
  <2>2. levels \in Seq(Seq(RunNames))
    BY DEF PhaseInv
  <2>3. Distinct(Joined(levels))
    BY <2>2, JoinedDistinct DEF OwnInv, NamesInv
  <2> QED
    BY <2>1, <2>3 DEF NamesInv, Distinct
<1>4. CASE MergeGroup
  <2>1. merged \in Seq(RunNames) /\ fresh \in Nat /\ fresh \notin SetOf(merged)
    BY DEF PhaseInv, RunNames, SetOf
  <2>2. merged \in Seq(RunNames \cup {fresh}) /\ fresh \in RunNames \cup {fresh}
    BY <2>1
  <2>3. Distinct(Append(merged, fresh))
    BY <2>1, <2>2, DistinctAppend DEF NamesInv
  <2>4. levels' = levels /\ chunks' = chunks /\ merged' = Append(merged, fresh)
    BY <1>4 DEF MergeGroup
  <2> QED
    BY <2>3, <2>4 DEF NamesInv, Distinct
<1>5. CASE EndRound
  BY <1>5 DEF EndRound, NamesInv, Distinct
<1>6. CASE EmitFile
  BY <1>6 DEF EmitFile, NamesInv, Distinct
<1>7. CASE OpenFile
  BY <1>1, <1>7 DEF OpenFile
<1>8. CASE Visit
  BY <1>1, <1>8 DEF Visit
<1>9. CASE Flush
  BY <1>1, <1>9 DEF Flush
<1>10. CASE FailVisiting \/ FailFile \/ FailRound \/ FailValidate
  BY <1>1, <1>10 DEF FailVisiting, FailFile, FailRound, FailValidate, Return
<1>11. CASE ValidateChunk
  BY <1>1, <1>11 DEF ValidateChunk, Return, discovery
<1>12. CASE MergeIds
  BY <1>1, <1>12 DEF MergeIds, discovery
<1>13. CASE FinishIds
  BY <1>1, <1>13 DEF FinishIds, Return
<1>14. CASE Terminated
  BY <1>1, <1>14 DEF Terminated, vars, discovery
<1> QED
  BY <1>2, <1>3, <1>4, <1>5, <1>6, <1>7, <1>8, <1>9, <1>10, <1>11, <1>12, <1>13, <1>14
     DEF Next

(* No step changes what there is to find.                                  *)
LEMMA InputStep ==
    ASSUME Next
    PROVE  /\ input' = input /\ Emits' = Emits /\ Emitted' = Emitted
           /\ SortedEmits' = SortedEmits /\ NoTwins' = NoTwins
<1>1. input' = input
  BY DEF Next, OpenFile, Visit, Flush, Carry, FailVisiting, FailFile, TakeAll, MergeGroup,
         EndRound, FailRound, EmitFile, ValidateChunk, MergeIds, FinishIds, FailValidate,
         Terminated, Goto, Return, vars
<1>2. Emits' = Emits
  BY <1>1 DEF Emits
<1> QED
  BY <1>1, <1>2 DEF Emitted, SortedEmits, NoTwins, Sorted, MergeBy, Merging, Joined, Joining,
                    TakeLeast, LeastRun, Distinct

(* Candidates are those before the visitor; a file ends complete.          *)
LEMMA FileStep ==
    ASSUME ResourceInv, FoundInv, Next
    PROVE  FileInv'
<1>1. /\ input' = input /\ Emitted' = Emitted
  BY InputStep
<1>2. /\ input \in Inputs /\ file \in 1..Len(input) + 1 /\ pos \in Nat \ {0}
      /\ Len(input) \in Nat /\ DOMAIN input = 1..Len(input)
      /\ candidates \in Seq(Mutation) /\ Len(candidates) \in Nat
      /\ DOMAIN candidates = 1..Len(candidates)
  <2>1. input \in Inputs
    BY DEF ResourceInv, CountInv
  <2> QED
    BY <2>1, EmitsIs DEF ResourceInv, CountInv, BufferInv
<1>3. result = "running" <=> pc # "done"
  BY DEF FoundInv, FileInv
<1>4. ASSUME pc' = "done", result' \in {"error"}
      PROVE  FileInv'
  BY <1>4 DEF FileInv, Visiting
<1>5. CASE FailVisiting \/ FailFile \/ FailRound \/ FailValidate
  BY <1>4, <1>5 DEF FailVisiting, FailFile, FailRound, FailValidate, Return
<1>6. CASE Terminated
  BY <1>6, <1>1 DEF Terminated, vars, discovery, FoundInv, FileInv, Visiting
<1>7. CASE OpenFile
  <2>1. pc = "file" /\ result' = result /\ candidates' = candidates /\ count' = count
    BY <1>7 DEF OpenFile, Goto
  <2>2. candidates = <<>> /\ count = EmittedBefore(file)
    BY <2>1 DEF ResourceInv, BufferInv, CountInv
  <2>3. CASE file > Len(input)
    <3>1. file = Len(input) + 1 /\ file' = file /\ pc' = "validate"
      BY <1>2, <1>7, <2>3 DEF OpenFile, Goto
    <3>2. EmittedBefore(Len(input) + 1) = Len(Emitted)
      <4>1. Len(Emits) = Len(input)
        BY <1>2, EmitsIs
      <4>2. (Len(input) + 1) - 1 = Len(input)
        BY <1>2
      <4> QED
        BY <4>1, <4>2 DEF EmittedBefore, Emitted, Joined
    <3> QED
      BY <1>1, <1>3, <2>1, <2>2, <3>1, <3>2 DEF FileInv, Visiting
  <2>4. CASE file <= Len(input) /\ input[file].generated
    BY <1>2, <1>3, <1>7, <2>1, <2>4 DEF OpenFile, Goto, FileInv, Visiting
  <2>5. CASE file <= Len(input) /\ ~input[file].generated
    <3>1. pos' = 1 /\ pc' = "visit"
      BY <1>2, <1>7, <2>5 DEF OpenFile, Goto
    <3> QED
      BY <1>2, <1>3, <2>1, <2>2, <3>1 DEF FileInv, Visiting
  <2> QED
    BY <1>2, <2>3, <2>4, <2>5
<1>8. CASE Visit
  <2>1. pc = "visit" /\ result' = result /\ file' = file
    BY <1>8 DEF Visit, Goto
  <2>2. /\ file \in DOMAIN input /\ ~input[file].generated
        /\ pos <= Len(input[file].emits) + 1
    BY <1>2, <2>1 DEF ResourceInv, CountInv, Visiting
  <2> DEFINE ms == input[file].emits
  <2>3. ms \in Seq(Mutation) /\ Len(ms) \in Nat
    BY <1>2, <2>2, EmitsIs
  <2>4. /\ Len(candidates) <= pos - 1
        /\ \A i \in 1..Len(candidates) : candidates[i] = ms[pos - 1 - Len(candidates) + i]
    BY <1>2, <2>1 DEF FoundInv, FileInv, Visiting
  <2>5. CASE pos <= Len(ms)
    <3>1. /\ candidates' = Append(candidates, ms[pos]) /\ pos' = pos + 1
          /\ pc' \in {"flush", "visit"}
      BY <1>8, <2>5 DEF Visit, Goto
    <3>2. ms[pos] \in Mutation
      BY <1>2, <2>3, <2>5
    <3>3. /\ Len(candidates') = Len(candidates) + 1
          /\ DOMAIN candidates' = 1..Len(candidates')
          /\ \A i \in 1..Len(candidates) : candidates'[i] = candidates[i]
          /\ candidates'[Len(candidates) + 1] = ms[pos]
      BY <1>2, <3>1, <3>2, AppendIs
    <3>4. pos' - 1 - Len(candidates') = pos - 1 - Len(candidates)
      BY <1>2, <3>1, <3>3
    <3>5. /\ Len(candidates') <= pos' - 1
          /\ pos - 1 - Len(candidates) + (Len(candidates) + 1) = pos
      BY <1>2, <2>4, <3>1, <3>3
    <3>6. \A i \in 1..Len(candidates) + 1 : i \in 1..Len(candidates) \/ i = Len(candidates) + 1
      BY <1>2
    <3>7. \A i \in DOMAIN candidates' :
             candidates'[i] = ms[pos' - 1 - Len(candidates') + i]
      BY <2>4, <3>3, <3>4, <3>5, <3>6, Zenon
    <3> QED
      BY <1>1, <1>3, <2>1, <3>1, <3>5, <3>7 DEF FileInv, Visiting
  <2>6. CASE ~(pos <= Len(ms))
    <3>1. /\ candidates' = candidates /\ pos' = pos /\ pc' \in {"take", "flush"}
      BY <1>8, <2>6 DEF Visit, Goto
    <3>2. pos = Len(ms) + 1
      BY <1>2, <2>2, <2>3, <2>6
    <3> QED
      BY <1>1, <1>2, <1>3, <2>1, <2>2, <2>4, <3>1, <3>2 DEF FileInv, Visiting
  <2> QED
    BY <2>5, <2>6
<1>9. CASE Flush
  <2>1. pc = "flush" /\ pc' = "carry" /\ candidates' = <<>> /\ result' = result /\ pos' = pos
    BY <1>9 DEF Flush, Goto
  <2> QED
    BY <1>2, <1>3, <2>1 DEF FileInv, Visiting
<1>10. CASE Carry
  <2>1. /\ pc = "carry" /\ pc' \in {"visit", "carry"} /\ candidates' = candidates
        /\ result' = result /\ pos' = pos /\ file' = file
    BY <1>10 DEF Carry, Goto
  <2> QED
    BY <1>1, <1>3, <2>1 DEF FoundInv, FileInv, Visiting
<1>11. CASE TakeAll \/ MergeGroup \/ EndRound
  <2>1. /\ pc \in {"take", "round"} /\ pc' = "round" /\ result' = result
        /\ pos' = pos /\ file' = file
    BY <1>11 DEF TakeAll, MergeGroup, EndRound, Goto
  <2> QED
    BY <1>1, <1>3, <2>1 DEF FoundInv, FileInv, Visiting
<1>12. CASE EmitFile
  <2>1. pc = "round" /\ pc' = "file" /\ result' = result
    BY <1>12 DEF EmitFile, Goto
  <2> QED
    BY <1>3, <2>1 DEF FileInv, Visiting
<1>13. CASE ValidateChunk
  <2>1. /\ pc = "validate" /\ file' = file /\ count' = count
        /\ \/ pc' \in {"validate", "idround"} /\ result' = result
           \/ pc' = "done" /\ result' = "duplicate"
    BY <1>13 DEF ValidateChunk, Goto, Return, discovery
  <2> QED
    BY <1>1, <1>3, <2>1 DEF FoundInv, FileInv, Visiting
<1>14. CASE MergeIds
  <2>1. /\ pc = "idround" /\ pc' = "idround" /\ result' = result
        /\ file' = file /\ count' = count
    BY <1>14 DEF MergeIds, Goto, discovery
  <2> QED
    BY <1>1, <1>3, <2>1 DEF FoundInv, FileInv, Visiting
<1>15. CASE FinishIds
  <2>1. /\ pc = "idround" /\ pc' = "done" /\ result' \in {"ok", "duplicate"}
        /\ file' = file /\ count' = count
    BY <1>15 DEF FinishIds, Return
  <2> QED
    BY <1>1, <2>1 DEF FoundInv, FileInv, Visiting
<1> QED
  BY <1>5, <1>6, <1>7, <1>8, <1>9, <1>10, <1>11, <1>12, <1>13, <1>14, <1>15 DEF Next

(* What a change of the store leaves at a name.                            *)
LEMMA StoreAt ==
    /\ \A s, n, spool : /\ With(s, n, spool)[n] = spool
                        /\ \A m \in DOMAIN s : m # n => With(s, n, spool)[m] = s[m]
    /\ \A s, names : \A m \in DOMAIN s \ names : Without(s, names)[m] = s[m]
  BY DEF With, Without

(* A spool that is not closed stays as it is.                              *)
LEMMA WithoutAt ==
    ASSUME NEW s, NEW names, NEW m \in DOMAIN s, m \notin names
    PROVE  m \in DOMAIN Without(s, names) /\ Without(s, names)[m] = s[m]
  BY DEF Without

(* The runs and the result are different spools.                           *)
LEMMA NamesOfRuns ==
    ASSUME ResourceInv
    PROVE  /\ fresh \in Nat /\ fresh # 1 /\ 1 \notin RunNames /\ fresh \notin RunNames
           /\ \A X \in SUBSET RunNames : 1 \notin X /\ fresh \notin X
           /\ SetOf(chunks) \subseteq RunNames /\ SetOf(merged) \subseteq RunNames
           /\ LevelRuns \subseteq RunNames /\ (pc = "carry" => carry \in RunNames)
           /\ pc # "done" => DOMAIN store \subseteq RunNames \cup {1} /\ 1 \in DOMAIN store
           /\ pc # "done" => Live \subseteq DOMAIN store /\ 1 \notin Live /\ fresh \notin Live
           /\ \A n \in DOMAIN store : Records(store[n]) \in Seq(Mutation)
<1>1. fresh \in Nat /\ fresh # 1 /\ fresh \notin RunNames /\ 1 \notin RunNames
  BY DEF ResourceInv, PhaseInv, RunNames
<1>2. SetOf(chunks) \subseteq RunNames /\ SetOf(merged) \subseteq RunNames
  BY DEF ResourceInv, PhaseInv, SetOf
<1>3. LevelRuns \subseteq RunNames
  <2>1. levels \in Seq(Seq(RunNames))
    BY DEF ResourceInv, PhaseInv
  <2>2. \A l \in DOMAIN levels : SetOf(levels[l]) \subseteq RunNames
    BY <2>1 DEF SetOf
  <2> QED
    BY <2>2 DEF LevelRuns
<1>4. pc = "carry" => carry \in RunNames
  BY DEF ResourceInv, PhaseInv
<1>5. pc # "done" => DOMAIN store = Owned
  BY DEF ResourceInv, OwnInv
<1>6. Owned \subseteq RunNames \cup {1} /\ 1 \in Owned
  BY <1>2, <1>3, <1>4 DEF Owned
<1>7. Live \subseteq Owned /\ Live \subseteq RunNames
  <2>1. {chunks[i] : i \in MergedOf(merged, chunks) + 1..Len(chunks)} \subseteq SetOf(chunks)
    <3>1. chunks \in Seq(RunNames) /\ merged \in Seq(RunNames) /\ FanIn \in Nat
      BY DiscoveryAssumption DEF ResourceInv, PhaseInv
    <3>2. Len(chunks) \in Nat /\ Done(merged) \in Nat /\ DOMAIN chunks = 1..Len(chunks)
      BY <3>1 DEF Done
    <3>3. MergedOf(merged, chunks) \in Nat
      BY <3>2 DEF MergedOf
    <3>4. \A m, n \in Nat : m + 1..n \subseteq 1..n
      OBVIOUS
    <3>5. MergedOf(merged, chunks) + 1..Len(chunks) \subseteq DOMAIN chunks
      BY <3>2, <3>3, <3>4
    <3> QED
      BY <3>5 DEF SetOf
  <2> QED
    BY <2>1, <1>2, <1>3, <1>4 DEF Live, Owned
<1>8. \A n \in DOMAIN store : Records(store[n]) \in Seq(Mutation)
  BY RecordsOK DEF ResourceInv, BufferInv
<1> QED
  BY <1>1, <1>2, <1>3, <1>4, <1>5, <1>6, <1>7, <1>8

(* A file that is complete in the runs of the last merge becomes the next  *)
(* part of the result.                                                     *)
LEMMA LastMerge ==
    ASSUME ResourceInv, FoundInv, NoTwins, EmitFile
    PROVE  /\ MergeRuns(chunks) = SortedEmits[file]
           /\ file \in 1..Len(input)
<1>1. /\ pc = "round" /\ Len(chunks) <= FanIn
  BY DEF EmitFile
<1>2. /\ merged = <<>> /\ candidates = <<>> /\ input \in Inputs
      /\ chunks \in Seq(RunNames)
  BY <1>1 DEF ResourceInv, PhaseInv, BufferInv, CountInv
<1>3. file \in DOMAIN input /\ ~input[file].generated /\ pos = Len(input[file].emits) + 1
  BY <1>1 DEF FoundInv, FileInv
<1> DEFINE ms == input[file].emits
<1>4. /\ ms \in Seq(Mutation) /\ Emits[file] = ms /\ file \in 1..Len(input)
      /\ SortedEmits[file] = Sorted("mutation", ms) /\ DOMAIN input = 1..Len(input)
  BY <1>2, <1>3, EmitsIs, SortedEmitsIs
<1>5. RunsHold(store, Live, InLive)
  BY <1>1 DEF FoundInv, ContentInv
<1>6. Live = SetOf(chunks)
  <2>1. Done(<<>>) = 0
    BY DiscoveryAssumption DEF Done
  <2>2. Len(chunks) \in Nat /\ DOMAIN chunks = 1..Len(chunks)
    BY <1>2
  <2>3. MergedOf(merged, chunks) = 0
    BY <1>2, <2>1, <2>2 DEF MergedOf
  <2>4. SetOf(<<>>) = {}
    BY DEF SetOf
  <2>5. 0 + 1 = 1
    OBVIOUS
  <2> QED
    BY <1>1, <1>2, <2>2, <2>3, <2>4, <2>5 DEF Live, SetOf
<1>7. InLive = SetOf(ms)
  <2>1. Len(ms) \in Nat /\ DOMAIN ms = 1..Len(ms) /\ Len(candidates) = 0
    BY <1>2, <1>4
  <2>2. pos - 1 - Len(candidates) = Len(ms)
    BY <1>3, <2>1
  <2> QED
    BY <2>1, <2>2 DEF InLive, SetOf
<1>8. \A n \in SetOf(chunks) : Records(store[n]) \in Seq(Mutation)
  BY <1>1, <1>6, NamesOfRuns
<1>9. Distinct(chunks)
  BY DEF FoundInv, NamesInv
<1>10. /\ MergeRuns(chunks) \in Seq(Mutation)
       /\ InOrder("mutation", MergeRuns(chunks)) /\ Distinct(MergeRuns(chunks))
       /\ SetOf(MergeRuns(chunks)) = UNION {SetOf(Records(store[n])) : n \in SetOf(chunks)}
  <2>1. RunsHold(store, SetOf(chunks), SetOf(ms))
    BY <1>5, <1>6, <1>7
  <2> HIDE DEF ms
  <2> QED
    BY <1>2, <1>8, <1>9, <2>1, MergedRuns
<1>11. SetOf(MergeRuns(chunks)) = SetOf(ms)
  BY <1>5, <1>6, <1>7, <1>10 DEF RunsHold
<1>12. Distinct(ms)
  BY <1>3, <1>4 DEF NoTwins
<1> HIDE DEF ms
<1>13. /\ Sorted("mutation", ms) \in Seq(Mutation)
       /\ Len(Sorted("mutation", ms)) = Len(ms)
       /\ SetOf(Sorted("mutation", ms)) = SetOf(ms)
       /\ InOrder("mutation", Sorted("mutation", ms))
  BY <1>4, SortedIs, MutationOrder
<1>14. Distinct(Sorted("mutation", ms))
  BY <1>4, <1>12, <1>13, DistinctSame
<1>15. MergeRuns(chunks) = Sorted("mutation", ms)
  BY <1>10, <1>11, <1>13, <1>14, OneInOrder, MutationOrder
<1> QED
  BY <1>4, <1>15

(* The result holds the files that are done with.                          *)
LEMMA ResultStep ==
    ASSUME ResourceInv, FoundInv, Next, NoTwins, pc' # "done" \/ result' = "ok"
    PROVE  Records(store'[1]) = Joining(SortedEmits)[file' - 1]
<1>1. /\ input \in Inputs /\ file \in 1..Len(input) + 1
      /\ SortedEmits \in Seq(Seq(Mutation)) /\ Len(SortedEmits) = Len(input)
      /\ Len(input) \in Nat
      /\ \A f \in 1..Len(input) : input[f].generated => SortedEmits[f] = <<>>
      /\ \A n \in 1..Len(input) :
            Joining(SortedEmits)[n] = Joining(SortedEmits)[n - 1] \o SortedEmits[n]
      /\ \A n \in 0..Len(input) : Joining(SortedEmits)[n] \in Seq(Mutation)
  <2>1. input \in Inputs /\ file \in 1..Len(input) + 1
    BY DEF ResourceInv, CountInv
  <2>2. /\ SortedEmits \in Seq(Seq(Mutation)) /\ Len(SortedEmits) = Len(input)
        /\ Len(input) \in Nat
        /\ \A f \in 1..Len(input) : input[f].generated => SortedEmits[f] = <<>>
    BY <2>1, EmitsIs, SortedEmitsIs
  <2>3. /\ \A n \in 1..Len(SortedEmits) :
              Joining(SortedEmits)[n] = Joining(SortedEmits)[n - 1] \o SortedEmits[n]
        /\ \A n \in 0..Len(SortedEmits) : Joining(SortedEmits)[n] \in Seq(Mutation)
    BY <2>2, JoiningIs
  <2> QED
    BY <2>1, <2>2, <2>3
<1>2. pc # "done" \/ result = "ok" => Records(store[1]) = Joining(SortedEmits)[file - 1]
  BY DEF FoundInv, ContentInv
<1>3. result = "running" <=> pc # "done"
  BY DEF FoundInv, FileInv
<1>4. /\ fresh # 1 /\ SetOf(chunks) \subseteq RunNames /\ LevelRuns \subseteq RunNames
      /\ pc = "carry" => carry \in RunNames
      /\ pc # "done" => 1 \in DOMAIN store
      /\ 1 \notin RunNames
  BY NamesOfRuns
<1>5. ASSUME store'[1] = store[1], file' = file, pc # "done"
      PROVE  Records(store'[1]) = Joining(SortedEmits)[file' - 1]
  BY <1>2, <1>5
<1>6. CASE Visit \/ TakeAll
  BY <1>5, <1>6 DEF Visit, TakeAll
<1>7. CASE MergeIds
  BY <1>5, <1>7 DEF MergeIds, discovery
<1>8. CASE Flush
  BY <1>4, <1>5, <1>8, StoreAt DEF Flush
<1>9. CASE MergeGroup
  BY <1>4, <1>5, <1>9, StoreAt DEF MergeGroup
<1>10. CASE EndRound
  <2>1. 1 \notin SetOf(chunks) /\ store' = Without(store, SetOf(chunks)) /\ pc = "round"
        /\ file' = file
    BY <1>4, <1>10 DEF EndRound
  <2>2. store'[1] = store[1]
    BY <1>4, <2>1, StoreAt
  <2> QED
    BY <1>5, <2>1, <2>2
<1>11. CASE Carry
  <2>1. pc = "carry" /\ file' = file
    BY <1>11 DEF Carry
  <2>2. CASE store' = store
    BY <1>5, <2>1, <2>2
  <2>3. CASE store' = With(Without(store, SetOf(Here)), fresh, Spooled(NewSpool, MergeRuns(Here)))
    <3>1. 1 \notin SetOf(Here)
      <4>1. SetOf(Here) = SetOf(Have[level]) \cup {carry}
        BY <2>1, HaveIs DEF ResourceInv
      <4>2. SetOf(Have[level]) \subseteq LevelRuns
        BY <1>11, CarryRuns
      <4> QED
        BY <1>4, <2>1, <4>1, <4>2
    <3>2. /\ 1 \in DOMAIN Without(store, SetOf(Here))
          /\ Without(store, SetOf(Here))[1] = store[1]
      BY <1>4, <2>1, <3>1, WithoutAt
    <3>3. store'[1] = store[1]
      BY <1>4, <2>3, <3>2, StoreAt
    <3> QED
      BY <1>5, <2>1, <3>3
  <2> QED
    BY <1>11, <2>2, <2>3 DEF Carry, Have, Here
<1>12. CASE OpenFile
  <2>1. /\ pc = "file" /\ store' = store
        /\ file' = file \/ (file <= Len(input) /\ input[file].generated /\ file' = file + 1)
    BY <1>1, <1>12 DEF OpenFile
  <2>2. CASE file' = file
    BY <1>5, <2>1, <2>2
  <2>3. CASE file <= Len(input) /\ input[file].generated /\ file' = file + 1
    <3>1. file \in 1..Len(input) /\ file' - 1 = file /\ file - 1 \in 0..Len(input)
      BY <1>1, <2>3
    <3>2. \A s \in Seq(Mutation) : s \o <<>> = s
      OBVIOUS
    <3>3. Joining(SortedEmits)[file] = Joining(SortedEmits)[file - 1]
      BY <1>1, <2>3, <3>1, <3>2
    <3> QED
      BY <1>2, <2>1, <3>1, <3>3
  <2> QED
    BY <2>1, <2>2, <2>3
<1>13. CASE EmitFile
  <2>1. /\ pc = "round" /\ file' = file + 1
        /\ store' = [Without(store, SetOf(chunks)) EXCEPT
                       ![1] = Spooled(store[1], MergeRuns(chunks))]
    BY <1>13 DEF EmitFile
  <2>2. 1 \in DOMAIN Without(store, SetOf(chunks))
    BY <1>4, <2>1, DomainsOfStores
  <2>3. store'[1] = Spooled(store[1], MergeRuns(chunks))
    BY <2>1, <2>2
  <2>4. MergeRuns(chunks) = SortedEmits[file] /\ file \in 1..Len(input)
    BY <1>13, LastMerge
  <2>5. SpoolOK(store[1]) /\ SortedEmits[file] \in Seq(Mutation)
    BY <1>1, <1>4, <2>1, <2>4 DEF ResourceInv, BufferInv
  <2>6. Records(store'[1]) = Records(store[1]) \o SortedEmits[file]
    BY <2>3, <2>4, <2>5, SpooledIs
  <2>7. file' - 1 = file
    BY <2>1, <2>4
  <2> QED
    BY <1>1, <1>2, <2>1, <2>4, <2>6, <2>7
<1>14. CASE ValidateChunk
  <2>1. pc = "validate" /\ (pc' # "done" => store' = store /\ file' = file)
    BY <1>14 DEF ValidateChunk, Goto, Return, discovery
  <2>2. pc' # "done"
    BY <1>3, <1>14 DEF ValidateChunk, Goto, Return
  <2> QED
    BY <1>5, <2>1, <2>2
<1>15. CASE FinishIds
  <2>1. /\ pc = "idround" /\ file' = file /\ result' = "ok"
        /\ store' = Without(store, {} \cup {})
    BY <1>15 DEF FinishIds, Return
  <2>2. store'[1] = store[1]
    BY <1>4, <2>1, StoreAt
  <2> QED
    BY <1>5, <2>1, <2>2
<1>16. CASE FailVisiting \/ FailFile \/ FailRound \/ FailValidate
  BY <1>16 DEF FailVisiting, FailFile, FailRound, FailValidate, Return
<1>17. CASE Terminated
  BY <1>2, <1>17 DEF Terminated, vars, discovery
<1> QED
  BY <1>6, <1>7, <1>8, <1>9, <1>10, <1>11, <1>12, <1>13, <1>14, <1>15, <1>16, <1>17
     DEF Next

(* The runs hold what the visitor emitted in this file.                    *)
LEMMA RunsStep ==
    ASSUME ResourceInv, FoundInv, Next, NoTwins, Visiting' \/ pc' \in {"take", "round"}
    PROVE  RunsHold(store', Live', InLive')
<1>1. /\ input' = input /\ input \in Inputs /\ file \in 1..Len(input) + 1
      /\ pos \in Nat \ {0} /\ Len(input) \in Nat /\ DOMAIN input = 1..Len(input)
      /\ candidates \in Seq(Mutation) /\ Len(candidates) \in Nat
      /\ DOMAIN candidates = 1..Len(candidates)
  <2>1. input \in Inputs
    BY DEF ResourceInv, CountInv
  <2> QED
    BY <2>1, EmitsIs, InputStep DEF ResourceInv, CountInv, BufferInv
<1>2. Visiting \/ pc \in {"take", "round"} => RunsHold(store, Live, InLive)
  BY DEF FoundInv, ContentInv
<1>3. /\ fresh \in Nat /\ fresh \notin RunNames
      /\ SetOf(chunks) \subseteq RunNames /\ SetOf(merged) \subseteq RunNames
      /\ LevelRuns \subseteq RunNames /\ (pc = "carry" => carry \in RunNames)
      /\ pc # "done" => Live \subseteq DOMAIN store /\ fresh \notin Live
      /\ \A n \in DOMAIN store : Records(store[n]) \in Seq(Mutation)
  BY NamesOfRuns
<1>4. \A ms \in Seq(Mutation) : Records(Spooled(NewSpool, ms)) = ms
  <2>1. SpoolOK(NewSpool) /\ Records(NewSpool) = <<>>
    BY NewSpoolOK DEF NewSpool, Records
  <2>2. \A ms \in Seq(Mutation) : <<>> \o ms = ms
    OBVIOUS
  <2> QED
    BY <2>1, <2>2, SpooledIs
<1>5. CASE Visit
  <2>1. /\ pc = "visit" /\ pc' \in {"flush", "visit", "take"} /\ store' = store
        /\ levels' = levels /\ file' = file /\ Visiting
    BY <1>5 DEF Visit, Goto, Visiting
  <2>2. Live' = Live
    BY <2>1 DEF Live, LevelRuns
  <2>3. pos' - 1 - Len(candidates') = pos - 1 - Len(candidates)
    <3>1. CASE pos <= Len(input[file].emits)
      <4>1. /\ candidates' = Append(candidates, input[file].emits[pos]) /\ pos' = pos + 1
        BY <1>5, <3>1 DEF Visit
      <4>2. Len(candidates') = Len(candidates) + 1
        BY <1>1, <4>1
      <4> QED
        BY <1>1, <4>1, <4>2
    <3>2. CASE ~(pos <= Len(input[file].emits))
      BY <1>5, <3>2 DEF Visit
    <3> QED
      BY <3>1, <3>2
  <2>4. InLive' = InLive
    BY <1>1, <2>1, <2>3 DEF InLive
  <2> QED
    BY <1>2, <2>1, <2>2, <2>4
<1>6. CASE OpenFile
  <2>1. /\ pc = "file" /\ pc' = "visit" /\ pos' = 1 /\ candidates' = candidates
        /\ levels' = levels
    BY <1>6 DEF OpenFile, Goto, Visiting
  <2>2. candidates = <<>> /\ levels = <<>>
    BY <2>1 DEF ResourceInv, PhaseInv, BufferInv
  <2>3. Live' = {}
    BY <2>1, <2>2 DEF Live, LevelRuns
  <2>4. InLive' = {}
    <3>1. pos' - 1 - Len(candidates') = 0
      <4>1. Len(<<>>) = 0 /\ 1 - 1 - 0 = 0
        OBVIOUS
      <4> QED
        BY <2>1, <2>2, <4>1
    <3> QED
      BY <3>1 DEF InLive
  <2> QED
    BY <2>3, <2>4 DEF RunsHold
<1>7. CASE Flush
  <2>1. /\ pc = "flush" /\ pc' = "carry" /\ candidates' = <<>> /\ carry' = fresh
        /\ pos' = pos /\ file' = file /\ levels' = levels
        /\ store' = With(store, fresh, Spooled(NewSpool, Sorted("mutation", candidates)))
    BY <1>7 DEF Flush, Goto
  <2> DEFINE r == Sorted("mutation", candidates)
             ms == input[file].emits
             k == Len(candidates)
  <2>2. /\ file \in 1..Len(input) /\ ~input[file].generated
        /\ pos <= Len(ms) + 1
    BY <1>1, <2>1 DEF ResourceInv, CountInv, Visiting
  <2>3. ms \in Seq(Mutation) /\ Len(ms) \in Nat /\ Emits[file] = ms /\ DOMAIN ms = 1..Len(ms)
    BY <1>1, <2>2, EmitsIs
  <2>4. /\ k <= pos - 1
        /\ \A i \in 1..k : candidates[i] = ms[pos - 1 - k + i]
    BY <1>1, <2>1 DEF FoundInv, FileInv, Visiting
  <2>5. Distinct(ms)
    BY <1>1, <2>2, <2>3 DEF NoTwins
  <2>6. InLive = {ms[i] : i \in 1..pos - 1 - k}
    BY DEF InLive
  <2>7. InLive' = {ms[i] : i \in 1..pos - 1}
    <3>1. pos' - 1 - Len(candidates') = pos - 1
      BY <1>1, <2>1
    <3> QED
      BY <1>1, <2>1, <3>1 DEF InLive
  <2>8. SetOf(candidates) = {ms[pos - 1 - k + i] : i \in 1..k}
    BY <1>1, <2>4 DEF SetOf
  <2> DEFINE b == pos - 1 - k
  <2>9. b \in Nat /\ b + k = pos - 1 /\ b + k <= Len(ms) /\ k \in Nat
    BY <1>1, <2>2, <2>3, <2>4
  <2> HIDE DEF ms, k, b
  <2>10. \A x \in SetOf(candidates) : \E i \in 1..k : x = ms[b + i]
    BY <2>8 DEF b
  <2>11. SetOf(candidates) \cap InLive = {}
    <3>1. \A i \in 1..k, j \in 1..b : ms[b + i] # ms[j]
      <4>1. \A i \in 1..k, j \in 1..b :
               b + i \in 1..Len(ms) /\ j \in 1..Len(ms) /\ b + i # j
        BY <2>3, <2>9
      <4> QED
        BY <2>3, <2>5, <4>1, Zenon DEF Distinct
    <3>2. InLive = {ms[i] : i \in 1..b}
      BY <2>6 DEF b
    <3> QED
      BY <2>10, <3>1, <3>2
  <2>12. InLive' = InLive \cup SetOf(candidates)
    <3>1. 1..pos - 1 = 1..b + k
      BY <2>9
    <3>2. \A i \in 1..b + k : i \in 1..b \/ \E j \in 1..k : i = b + j
      <4>1. \A i \in 1..b + k : i \in 1..b \/ (i - b \in 1..k /\ i = b + (i - b))
        BY <2>9
      <4> QED
        BY <4>1
    <3>3. \A j \in 1..k : b + j \in 1..b + k
      BY <2>9
    <3>4. \A j \in 1..b : j \in 1..b + k
      BY <2>9
    <3>5. InLive = {ms[i] : i \in 1..b} /\ InLive' = {ms[i] : i \in 1..b + k}
      BY <2>6, <2>7, <3>1 DEF b
    <3>6. SetOf(candidates) = {ms[b + i] : i \in 1..k}
      BY <2>8 DEF b
    <3> QED
      BY <3>2, <3>3, <3>4, <3>5, <3>6
  <2>13. Distinct(candidates)
    <3>1. \A i, j \in 1..k : candidates[i] = candidates[j] => i = j
      <4>1. \A i, j \in 1..k : b + i \in 1..Len(ms) /\ b + j \in 1..Len(ms)
                               /\ (b + i = b + j => i = j)
        BY <2>3, <2>9
      <4>2. \A i \in 1..k : candidates[i] = ms[b + i]
        BY <2>4 DEF b
      <4>3. ASSUME NEW i \in 1..k, NEW j \in 1..k, candidates[i] = candidates[j]
            PROVE  i = j
        <5>1. ms[b + i] = ms[b + j]
          BY <4>2, <4>3
        <5>2. b + i = b + j
          BY <2>3, <2>5, <4>1, <5>1, Zenon DEF Distinct
        <5> QED
          BY <4>1, <5>2
      <4> QED
        BY <4>3
    <3> QED
      BY <1>1, <3>1 DEF Distinct, k
  <2>14. /\ r \in Seq(Mutation) /\ Len(r) = Len(candidates) /\ SetOf(r) = SetOf(candidates)
         /\ InOrder("mutation", r)
    BY <1>1, SortedIs, MutationOrder
  <2> HIDE DEF r
  <2>15. Distinct(r)
    BY <1>1, <2>13, <2>14, DistinctSame
  <2>16. Records(store'[fresh]) = r
    <3>1. store'[fresh] = Spooled(NewSpool, r)
      BY <2>1, StoreAt DEF r
    <3> QED
      BY <1>4, <2>14, <3>1
  <2>17. \A n \in Live \ {} : store'[n] = store[n]
    BY <1>3, <2>1, StoreAt
  <2>18. Live' = (Live \ {}) \cup {fresh}
    BY <2>1 DEF Live, LevelRuns
  <2>19. RunsHold(store, Live, InLive)
    BY <1>2, <2>1 DEF Visiting
  <2>20. fresh \notin Live \ {} /\ {} \subseteq Live
    BY <1>3, <2>1
  <2>21. SetOf(Records(store'[fresh]))
            = (UNION {SetOf(Records(store[n])) : n \in {}}) \cup SetOf(candidates)
    BY <2>14, <2>16
  <2>22. RunsHold(store', (Live \ {}) \cup {fresh}, InLive \cup SetOf(candidates))
    BY <2>11, <2>14, <2>15, <2>16, <2>17, <2>19, <2>20, <2>21, ReplacedRuns
  <2> QED
    BY <2>12, <2>18, <2>22
<1>8. CASE Carry
  <2>1. /\ pc = "carry" /\ pc' \in {"visit", "carry"} /\ candidates' = candidates
        /\ pos' = pos /\ file' = file
    BY <1>8 DEF Carry, Goto
  <2>2. InLive' = InLive
    BY <1>1, <2>1 DEF InLive
  <2>3. RunsHold(store, Live, InLive) /\ Live = LevelRuns \cup {carry}
    BY <1>2, <2>1 DEF Visiting, Live
  <2>4. CASE ~NeedsMerge(Here)
    <3>1. levels' = [Have EXCEPT ![level] = Here] /\ store' = store /\ pc' = "visit"
      BY <1>8, <2>4 DEF Carry, Have, Here, Goto
    <3>2. LevelRuns' = LevelRuns \cup {carry}
      BY <1>8, <3>1, CarryRuns
    <3>3. Live' = Live
      BY <2>3, <3>1, <3>2 DEF Live
    <3> QED
      BY <2>2, <2>3, <3>1, <3>3
  <2>5. CASE NeedsMerge(Here)
    <3>1. /\ levels' = [Have EXCEPT ![level] = <<>>] /\ pc' = "carry" /\ carry' = fresh
          /\ store' = With(Without(store, SetOf(Here)), fresh,
                           Spooled(NewSpool, MergeRuns(Here)))
      BY <1>8, <2>5 DEF Carry, Have, Here, Goto
    <3>2. LevelRuns' = LevelRuns \ SetOf(Have[level]) /\ SetOf(Have[level]) \subseteq LevelRuns
      BY <1>8, <3>1, CarryRuns
    <3>3. /\ Here \in Seq(RunNames) /\ SetOf(Here) = SetOf(Have[level]) \cup {carry}
          /\ Have[level] \in Seq(RunNames) /\ carry \in RunNames
          /\ level \in 1..Len(levels) \/ Have[level] = <<>>
          /\ \A l \in 1..Len(levels) : Have[l] = levels[l]
          /\ DOMAIN levels = 1..Len(levels)
      <4>1. PhaseInv
        BY DEF ResourceInv
      <4> QED
        BY <2>1, <4>1, HaveIs
    <3>4. carry \notin LevelRuns
      BY <2>1 DEF ResourceInv, OwnInv
    <3>5. Live \ SetOf(Here) = LevelRuns \ SetOf(Have[level]) /\ SetOf(Here) \subseteq Live
      BY <2>3, <3>2, <3>3, <3>4
    <3>6. Live' = (Live \ SetOf(Here)) \cup {fresh}
      BY <3>1, <3>2, <3>5 DEF Live
    <3>7. Distinct(Here)
      <4>1. Distinct(<<>>)
        BY DEF Distinct
      <4>2. Distinct(Have[level])
        BY <3>3, <4>1 DEF FoundInv, NamesInv
      <4>3. carry \notin SetOf(Have[level])
        BY <3>2, <3>4
      <4> QED
        BY <3>3, <4>2, <4>3, DistinctAppend DEF Here
    <3> HIDE DEF Here
    <3>8. \A n \in Live : Records(store[n]) \in Seq(Mutation)
      BY <1>3, <2>1
    <3>9. /\ MergeRuns(Here) \in Seq(Mutation)
          /\ InOrder("mutation", MergeRuns(Here)) /\ Distinct(MergeRuns(Here))
          /\ SetOf(MergeRuns(Here)) = UNION {SetOf(Records(store[n])) : n \in SetOf(Here)}
      BY <2>3, <3>3, <3>5, <3>7, <3>8, MergedRuns
    <3>10. Records(store'[fresh]) = MergeRuns(Here)
      <4>1. store'[fresh] = Spooled(NewSpool, MergeRuns(Here))
        BY <3>1, StoreAt
      <4> QED
        BY <1>4, <3>9, <4>1
    <3>11. \A n \in Live \ SetOf(Here) : store'[n] = store[n]
      <4>1. SUFFICES ASSUME NEW n \in Live \ SetOf(Here)
                     PROVE  store'[n] = store[n]
        OBVIOUS
      <4>2. n \in DOMAIN store /\ n \notin SetOf(Here) /\ n # fresh
        BY <1>3, <2>1, <4>1
      <4>3. /\ n \in DOMAIN Without(store, SetOf(Here))
            /\ Without(store, SetOf(Here))[n] = store[n]
        BY <4>2, WithoutAt
      <4> QED
        BY <3>1, <4>2, <4>3, StoreAt
    <3>12. fresh \notin Live \ SetOf(Here) /\ {} \cap InLive = {}
      BY <1>3, <2>1
    <3>13. SetOf(Records(store'[fresh]))
              = (UNION {SetOf(Records(store[n])) : n \in SetOf(Here)}) \cup {}
      BY <3>9, <3>10
    <3>14. RunsHold(store', (Live \ SetOf(Here)) \cup {fresh}, InLive \cup {})
      <4>1. /\ InOrder("mutation", Records(store'[fresh]))
            /\ Distinct(Records(store'[fresh]))
        BY <3>9, <3>10
      <4>2. RunsHold(store, Live, InLive) /\ SetOf(Here) \subseteq Live
        BY <2>3, <3>5
      <4> QED
        BY <3>11, <3>12, <3>13, <4>1, <4>2, ReplacedRuns
    <3>15. InLive \cup {} = InLive
      OBVIOUS
    <3> QED
      BY <2>2, <3>6, <3>14, <3>15
  <2> QED
    BY <2>4, <2>5
<1>9. CASE TakeAll
  <2>1. /\ pc = "take" /\ pc' = "round" /\ chunks' = Joined(levels) /\ merged' = merged
        /\ store' = store /\ candidates' = candidates /\ pos' = pos /\ file' = file
    BY <1>9 DEF TakeAll, Goto
  <2>2. merged = <<>> /\ levels \in Seq(Seq(RunNames))
    <3>1. chunks = <<>> /\ levels \in Seq(Seq(RunNames))
      BY <2>1 DEF ResourceInv, PhaseInv
    <3>2. Len(chunks) <= FanIn
      BY <3>1, DiscoveryAssumption
    <3> QED
      BY <2>1, <3>1, <3>2 DEF ResourceInv, PhaseInv
  <2>3. Joined(levels) \in Seq(RunNames) /\ SetOf(Joined(levels)) = LevelRuns
    BY <2>2, JoinedMembers DEF LevelRuns
  <2>4. MergedOf(<<>>, Joined(levels)) = 0
    <3>1. Done(<<>>) = 0 /\ Len(Joined(levels)) \in Nat
      BY <2>3, DiscoveryAssumption DEF Done
    <3> QED
      BY <3>1 DEF MergedOf
  <2>5. Live' = LevelRuns
    <3>1. /\ DOMAIN Joined(levels) = 1..Len(Joined(levels)) /\ 0 + 1 = 1 /\ SetOf(<<>>) = {}
      BY <2>3 DEF SetOf
    <3>2. MergedOf(merged', chunks') = 0
      BY <2>1, <2>2, <2>4
    <3>3. Live' = SetOf(merged') \cup
                    {chunks'[i] : i \in MergedOf(merged', chunks') + 1..Len(chunks')}
      BY <2>1 DEF Live
    <3>4. Live' = SetOf(<<>>) \cup {Joined(levels)[i] : i \in 0 + 1..Len(Joined(levels))}
      BY <2>1, <2>2, <3>2, <3>3
    <3> QED
      BY <2>3, <3>1, <3>4 DEF SetOf
  <2>6. Live = LevelRuns /\ InLive' = InLive
    BY <1>1, <2>1 DEF Live, InLive
  <2> QED
    BY <1>2, <2>1, <2>5, <2>6
<1>10. CASE MergeGroup
  <2> DEFINE n == Len(chunks)
             d == Done(merged)
             e == GroupEnd(d + 1, n)
             group == SubSeq(chunks, d + 1, e)
  <2>1. /\ pc = "round" /\ pc' = "round" /\ n > FanIn /\ d + 1 <= n
        /\ store' = With(store, fresh, Spooled(NewSpool, MergeRuns(group)))
        /\ merged' = Append(merged, fresh) /\ chunks' = chunks
        /\ candidates' = candidates /\ pos' = pos /\ file' = file
    BY <1>10 DEF MergeGroup, Goto
  <2>2. /\ chunks \in Seq(RunNames) /\ merged \in Seq(RunNames)
        /\ n \in Nat /\ d \in Nat /\ FanIn \in Nat \ {0} /\ DOMAIN chunks = 1..n
        /\ Len(merged) \in Nat
    BY DiscoveryAssumption DEF ResourceInv, PhaseInv, Done
  <2>3. /\ e \in Nat /\ d < e /\ e <= n
        /\ MergedOf(merged, chunks) = d /\ MergedOf(merged', chunks') = e
    <3>1. Len(merged') = Len(merged) + 1
      BY <2>1, <2>2, <1>3
    <3>2. Done(merged') = d + FanIn
      <4>1. \A a, f \in Nat : (a + 1) * f = a * f + f
        BY SMT
      <4> QED
        BY <2>2, <3>1, <4>1 DEF Done
    <3>3. d + 1 + FanIn - 1 = d + FanIn
      BY <2>2
    <3> HIDE DEF n, d
    <3>4. e = IF d + FanIn > n THEN n ELSE d + FanIn
      BY <3>3 DEF GroupEnd
    <3>5. MergedOf(merged, chunks) = IF d > n THEN n ELSE d
      BY DEF MergedOf, n, d
    <3>6. MergedOf(merged', chunks') = IF d + FanIn > n THEN n ELSE d + FanIn
      BY <2>1, <3>2 DEF MergedOf, n
    <3> QED
      BY <2>1, <2>2, <3>4, <3>5, <3>6
  <2> HIDE DEF e, d
  <2>4. /\ group \in Seq(RunNames) /\ SetOf(group) = {chunks[i] : i \in d + 1..e}
        /\ Distinct(group)
    <3>1. /\ group \in Seq(RunNames) /\ DOMAIN group = 1..(e - d) /\ Len(group) = e - d
          /\ \A i \in 1..(e - d) : group[i] = chunks[d + i]
      BY <2>2, <2>3
    <3> HIDE DEF group
    <3>2. \A i \in d + 1..e : i - d \in 1..(e - d) /\ i = d + (i - d)
      BY <2>2, <2>3
    <3>3. \A i \in 1..(e - d) : d + i \in d + 1..e /\ d + i \in 1..n
      BY <2>2, <2>3
    <3>4. SetOf(group) = {chunks[i] : i \in d + 1..e}
      BY <3>1, <3>2, <3>3 DEF SetOf
    <3>5. \A i, j \in 1..(e - d) : d + i = d + j => i = j
      BY <2>2, <2>3
    <3>6. Distinct(chunks)
      BY DEF FoundInv, NamesInv
    <3>7. Distinct(group)
      BY <2>2, <3>1, <3>3, <3>5, <3>6, Zenon DEF Distinct
    <3> QED
      BY <3>1, <3>4, <3>7
  <2> HIDE DEF group, n
  <2> DEFINE rest == {chunks[i] : i \in e + 1..n}
  <2>5. Live = SetOf(merged) \cup {chunks[i] : i \in d + 1..n}
    BY <2>1, <2>3 DEF Live, n
  <2>6. Live' = SetOf(merged') \cup rest
    <3>1. Live' = SetOf(merged') \cup
                    {chunks'[i] : i \in MergedOf(merged', chunks') + 1..Len(chunks')}
      BY <2>1 DEF Live
    <3> QED
      BY <2>1, <2>3, <3>1 DEF n
  <2>7. SetOf(merged') = SetOf(merged) \cup {fresh}
    <3>1. merged \in Seq(RunNames \cup {fresh}) /\ fresh \in RunNames \cup {fresh}
      BY <2>2
    <3> QED
      BY <2>1, <3>1, AppendIs
  <2>8. SetOf(group) \subseteq Live /\ Live \ SetOf(group) = SetOf(merged) \cup rest
    <3>1. \A i \in d + 1..n : i \in d + 1..e \/ i \in e + 1..n
      BY <2>2, <2>3
    <3>2. \A i \in d + 1..e : i \in 1..n /\ i \in d + 1..n
      BY <2>2, <2>3
    <3>3. \A i \in e + 1..n : i \in 1..n /\ i \in d + 1..n /\ i \notin d + 1..e
      BY <2>2, <2>3
    <3>4. Distinct(chunks) /\ SetOf(chunks) \cap SetOf(merged) = {}
      BY DEF FoundInv, NamesInv, ResourceInv, OwnInv
    <3>5. SetOf(group) \cap SetOf(merged) = {}
      BY <2>2, <2>4, <3>2, <3>4 DEF SetOf
    <3>6. \A i \in d + 1..e, j \in e + 1..n : chunks[i] # chunks[j]
      <4>1. \A i \in d + 1..e, j \in e + 1..n : i # j
        BY <3>3
      <4> QED
        BY <2>2, <3>2, <3>3, <3>4, <4>1, Zenon DEF Distinct
    <3>7. SetOf(group) \cap rest = {}
      BY <2>4, <3>6
    <3>8. {chunks[i] : i \in d + 1..n} = SetOf(group) \cup rest
      BY <2>4, <3>1, <3>2, <3>3
    <3> QED
      BY <2>5, <3>5, <3>7, <3>8
  <2>9. Live' = (Live \ SetOf(group)) \cup {fresh}
    BY <2>6, <2>7, <2>8
  <2>10. RunsHold(store, Live, InLive) /\ InLive' = InLive
    BY <1>1, <1>2, <2>1 DEF InLive
  <2>11. \A m \in Live : Records(store[m]) \in Seq(Mutation)
    BY <1>3, <2>1
  <2>12. /\ MergeRuns(group) \in Seq(Mutation)
         /\ InOrder("mutation", MergeRuns(group)) /\ Distinct(MergeRuns(group))
         /\ SetOf(MergeRuns(group)) = UNION {SetOf(Records(store[m])) : m \in SetOf(group)}
    BY <2>4, <2>8, <2>10, <2>11, MergedRuns
  <2>13. Records(store'[fresh]) = MergeRuns(group)
    <3>1. store'[fresh] = Spooled(NewSpool, MergeRuns(group))
      BY <2>1, StoreAt
    <3> QED
      BY <1>4, <2>12, <3>1
  <2>14. \A m \in Live \ SetOf(group) : store'[m] = store[m]
    BY <1>3, <2>1, StoreAt
  <2>15. fresh \notin Live \ SetOf(group) /\ {} \cap InLive = {}
    BY <1>3, <2>1
  <2>16. SetOf(Records(store'[fresh]))
            = (UNION {SetOf(Records(store[m])) : m \in SetOf(group)}) \cup {}
    BY <2>12, <2>13
  <2>17. RunsHold(store', (Live \ SetOf(group)) \cup {fresh}, InLive \cup {})
    <3>1. InOrder("mutation", Records(store'[fresh])) /\ Distinct(Records(store'[fresh]))
      BY <2>12, <2>13
    <3> DEFINE none == {}
               gone == SetOf(group)
               t == store'
    <3>2. gone \subseteq Live /\ fresh \notin Live \ gone /\ none \cap InLive = {}
      BY <2>8, <2>15
    <3>3. \A m \in Live \ gone : t[m] = store[m]
      BY <2>14
    <3>4. InOrder("mutation", Records(t[fresh])) /\ Distinct(Records(t[fresh]))
      BY <3>1
    <3>5. SetOf(Records(t[fresh])) = (UNION {SetOf(Records(store[m])) : m \in gone}) \cup none
      BY <2>16
    <3> HIDE DEF none, gone, t
    <3>6. RunsHold(t, (Live \ gone) \cup {fresh}, InLive \cup none)
      BY <2>10, <3>2, <3>3, <3>4, <3>5, ReplacedRuns
    <3> QED  BY <3>6 DEF none, gone, t
  <2>18. InLive \cup {} = InLive
    OBVIOUS
  <2> QED
    BY <2>9, <2>10, <2>17, <2>18
<1>11. CASE EndRound
  <2>1. /\ pc = "round" /\ pc' = "round" /\ Done(merged) >= Len(chunks)
        /\ store' = Without(store, SetOf(chunks)) /\ chunks' = merged /\ merged' = <<>>
        /\ candidates' = candidates /\ pos' = pos /\ file' = file
    BY <1>11 DEF EndRound, Goto
  <2>2. /\ chunks \in Seq(RunNames) /\ merged \in Seq(RunNames) /\ FanIn \in Nat
        /\ Len(chunks) \in Nat /\ Len(merged) \in Nat /\ DOMAIN merged = 1..Len(merged)
    BY DiscoveryAssumption DEF ResourceInv, PhaseInv
  <2>3. Done(merged) \in Nat /\ Done(<<>>) = 0
    BY <2>2 DEF Done
  <2>4. MergedOf(merged, chunks) = Len(chunks) /\ MergedOf(<<>>, merged) = 0
    <3>1. \A a, b \in Nat : a >= b => (IF a > b THEN b ELSE a) = b
      OBVIOUS
    <3>2. \A b \in Nat : (IF 0 > b THEN b ELSE 0) = 0
      OBVIOUS
    <3> QED
      BY <2>1, <2>2, <2>3, <3>1, <3>2, Zenon DEF MergedOf
  <2>5. Live = SetOf(merged)
    <3>1. \A k \in Nat : k + 1..k = {}
      OBVIOUS
    <3>2. Len(chunks) + 1..Len(chunks) = {}
      BY <2>2, <3>1
    <3> QED
      BY <2>1, <2>4, <3>2 DEF Live
  <2>6. Live' = SetOf(merged)
    <3>1. Live' = SetOf(merged') \cup
                    {chunks'[i] : i \in MergedOf(merged', chunks') + 1..Len(chunks')}
      BY <2>1 DEF Live
    <3>2. Live' = SetOf(<<>>) \cup {merged[i] : i \in 0 + 1..Len(merged)}
      BY <2>1, <2>4, <3>1
    <3>3. SetOf(<<>>) = {} /\ 0 + 1 = 1
      BY DEF SetOf
    <3> QED
      BY <2>2, <3>2, <3>3 DEF SetOf
  <2>7. \A n \in Live : store'[n] = store[n]
    <3>1. SetOf(chunks) \cap SetOf(merged) = {}
      BY DEF ResourceInv, OwnInv
    <3> QED
      BY <1>3, <2>1, <2>5, <3>1, StoreAt
  <2>8. RunsHold(store, Live, InLive) /\ InLive' = InLive
    BY <1>1, <1>2, <2>1 DEF InLive
  <2>9. RunsHold(store', Live, InLive)
    BY <2>7, <2>8, SameRuns
  <2> QED
    BY <2>5, <2>6, <2>8, <2>9
<1>12. CASE EmitFile \/ ValidateChunk \/ MergeIds \/ FinishIds
  BY <1>12 DEF EmitFile, ValidateChunk, MergeIds, FinishIds, Goto, Return, Visiting
<1>13. CASE FailVisiting \/ FailFile \/ FailRound \/ FailValidate
  BY <1>13 DEF FailVisiting, FailFile, FailRound, FailValidate, Return, Visiting
<1>14. CASE Terminated
  BY <1>14 DEF Terminated, vars, discovery, Visiting
<1> QED
  BY <1>5, <1>6, <1>7, <1>8, <1>9, <1>10, <1>11, <1>12, <1>13, <1>14 DEF Next

(* A step keeps every candidate in the result, in a run or in memory.      *)
LEMMA ContentStep ==
    ASSUME ResourceInv, FoundInv, Next
    PROVE  ContentInv'
<1>1. SortedEmits' = SortedEmits /\ NoTwins' = NoTwins
  BY InputStep
<1>2. ASSUME NoTwins, pc' # "done" \/ result' = "ok"
      PROVE  Records(store'[1]) = Joining(SortedEmits)[file' - 1]
  BY <1>2, ResultStep
<1>3. ASSUME NoTwins, Visiting' \/ pc' \in {"take", "round"}
      PROVE  RunsHold(store', Live', InLive')
  BY <1>3, RunsStep
<1> QED
  BY <1>1, <1>2, <1>3 DEF ContentInv

(* What was joined stays in front of what follows.                         *)
LEMMA JoiningKeeps ==
    ASSUME NEW T, NEW seqs \in Seq(Seq(T)), NEW f \in 0..Len(seqs)
    PROVE  \A i \in 1..Len(Joining(seqs)[f]) :
              i \in 1..Len(Joined(seqs)) /\ Joined(seqs)[i] = Joining(seqs)[f][i]
<1> DEFINE J(n) == Joining(seqs)[n]
           N == Len(seqs) - f
           S == {n \in 0..N : \A i \in 1..Len(J(f)) :
                    i \in 1..Len(J(f + n)) /\ J(f + n)[i] = J(f)[i]}
<1>1. /\ Len(seqs) \in Nat /\ \A n \in 0..Len(seqs) : J(n) \in Seq(T) /\ Len(J(n)) \in Nat
      /\ \A n \in 1..Len(seqs) : seqs[n] \in Seq(T) /\ J(n) = J(n - 1) \o seqs[n]
  BY JoiningIs, JoiningLength
<1>8. \A p, q \in Seq(T) :
         /\ Len(p \o q) = Len(p) + Len(q)
         /\ \A i \in 1..Len(p) : (p \o q)[i] = p[i]
  BY ConcatIs
<1>2. Joined(seqs) = J(Len(seqs))
  BY DEF Joined
<1> HIDE DEF J
<1>3. N \in Nat /\ f + N = Len(seqs) /\ f \in Nat /\ f + 0 = f
  BY <1>1
<1>4. 0 \in S
  BY <1>3
<1>5. ASSUME NEW n \in 0..N, n < N, n \in S
      PROVE  n + 1 \in S
  <2> DEFINE m == f + n
             p == J(m)
             q == seqs[m + 1]
  <2>1. /\ m \in 0..Len(seqs) /\ m + 1 \in 1..Len(seqs) /\ (m + 1) - 1 = m
        /\ n + 1 \in 0..N /\ f + (n + 1) = m + 1
    BY <1>1, <1>3, <1>5
  <2>2. \A i \in 1..Len(J(f)) : i \in 1..Len(p) /\ p[i] = J(f)[i]
    BY <1>5
  <2>3. J(m + 1) = J((m + 1) - 1) \o seqs[m + 1]
    BY <1>1, <2>1
  <2>4. J(m + 1) = p \o q
    BY <2>1, <2>3
  <2>5. p \in Seq(T) /\ q \in Seq(T)
    BY <1>1, <2>1
  <2> HIDE DEF p, q, m
  <2>6. /\ Len(p \o q) = Len(p) + Len(q) /\ Len(p) \in Nat /\ Len(q) \in Nat
        /\ \A i \in 1..Len(p) : (p \o q)[i] = p[i]
    BY <1>8, <2>5
  <2>7. \A a, b \in Nat : \A i \in 1..a : i \in 1..a + b
    OBVIOUS
  <2>8. \A i \in 1..Len(p) : i \in 1..Len(p \o q)
    BY <2>6, <2>7
  <2>9. \A i \in 1..Len(J(f)) :
           i \in 1..Len(J(f + (n + 1))) /\ J(f + (n + 1))[i] = J(f)[i]
    BY <2>1, <2>2, <2>4, <2>6, <2>8
  <2> QED
    BY <2>1, <2>9
<1> HIDE DEF S
<1>6. \A n \in 0..N : n \in S
  BY <1>3, <1>4, <1>5, UpToN
<1>7. N \in S
  BY <1>3, <1>6
<1> QED
  BY <1>2, <1>3, <1>7 DEF S, J

(* Where a candidate is among all.                                         *)
LEMMA EmittedAt ==
    ASSUME input \in Inputs, NEW f \in 1..Len(input), NEW k \in 1..Len(Emits[f])
    PROVE  /\ Emitted \in Seq(Mutation)
           /\ EmittedBefore(f) + k \in 1..Len(Emitted)
           /\ Emitted[EmittedBefore(f) + k] = Emits[f][k]
<1>1. /\ Emits \in Seq(Seq(Mutation)) /\ Len(Emits) = Len(input) /\ Len(input) \in Nat
  BY EmitsIs
<1>2. /\ f \in 1..Len(Emits) /\ f \in 0..Len(Emits) /\ f - 1 \in 0..Len(Emits)
  BY <1>1
<1>3. /\ Joining(Emits)[f] = Joining(Emits)[f - 1] \o Emits[f]
      /\ Joining(Emits)[f - 1] \in Seq(Mutation) /\ Joined(Emits) \in Seq(Mutation)
      /\ Emits[f] \in Seq(Mutation)
  BY <1>1, <1>2, JoiningIs, JoiningLength
<1> DEFINE a == Joining(Emits)[f - 1]
           b == Emits[f]
<1>4. /\ Len(a \o b) = Len(a) + Len(b)
      /\ \A i \in 1..Len(b) : (a \o b)[Len(a) + i] = b[i]
  <2>1. \A p, q \in Seq(Mutation) :
           /\ Len(p \o q) = Len(p) + Len(q)
           /\ \A i \in 1..Len(q) : (p \o q)[Len(p) + i] = q[i]
    BY ConcatIs
  <2> QED
    BY <1>3, <2>1
<1>5. Len(a) \in Nat /\ Len(b) \in Nat
  BY <1>3
<1>6. \A i \in 1..Len(a \o b) :
         i \in 1..Len(Joined(Emits)) /\ Joined(Emits)[i] = (a \o b)[i]
  BY <1>1, <1>2, <1>3, JoiningKeeps
<1>7. \A x, y \in Nat : \A i \in 1..y : x + i \in 1..x + y
  OBVIOUS
<1>8. Len(a) + k \in 1..Len(a \o b)
  BY <1>4, <1>5, <1>7
<1> QED
  BY <1>3, <1>4, <1>6, <1>8 DEF Emitted, EmittedBefore

(* Runs of nothing.                                                        *)
LEMMA NoIds == IdsHold(<<>>, 0, {})
<1>1. <<>> \in Seq(Seq(Nat)) /\ Len(<<>>) = 0
  OBVIOUS
<1>2. Joining(<<>>)[0] = <<>>
  BY <1>1, JoiningIs
<1>3. Joined(<<>>) = <<>>
  BY <1>1, <1>2 DEF Joined
<1> QED
  BY <1>1, <1>3 DEF IdsHold, SetOf

(* One more run of identities.                                             *)
LEMMA MoreIds ==
    ASSUME NEW runs, NEW n, NEW content, NEW r \in Seq(Nat),
           IdsHold(runs, n, content), InOrder("id", r)
    PROVE  IdsHold(Append(runs, r), n + Len(r), content \cup SetOf(r))
<1>1. runs \in Seq(Seq(Nat)) /\ \A i \in DOMAIN runs : InOrder("id", runs[i])
  BY DEF IdsHold
<1>2. /\ Append(runs, r) \in Seq(Seq(Nat)) /\ Joined(Append(runs, r)) = Joined(runs) \o r
      /\ Joined(runs) \in Seq(Nat)
  BY <1>1, JoinedAppend, JoinedMembers
<1>3. /\ Len(Joined(runs) \o r) = Len(Joined(runs)) + Len(r)
      /\ SetOf(Joined(runs) \o r) = SetOf(Joined(runs)) \cup SetOf(r)
  BY <1>2, ConcatIs
<1>4. \A i \in DOMAIN Append(runs, r) : InOrder("id", Append(runs, r)[i])
  <2>1. /\ \A i \in 1..Len(runs) : Append(runs, r)[i] = runs[i]
        /\ Append(runs, r)[Len(runs) + 1] = r
        /\ DOMAIN runs = 1..Len(runs) /\ Len(runs) \in Nat
        /\ DOMAIN Append(runs, r) = 1..Len(runs) + 1
    BY <1>1
  <2>2. \A i \in 1..Len(runs) + 1 : i \in 1..Len(runs) \/ i = Len(runs) + 1
    BY <2>1
  <2> QED
    BY <1>1, <2>1, <2>2
<1> QED
  BY <1>2, <1>3, <1>4 DEF IdsHold

(* Merging sorted runs of identities.                                      *)
LEMMA MergedIds ==
    ASSUME NEW runs \in Seq(Seq(Nat)), \A r \in DOMAIN runs : InOrder("id", runs[r])
    PROVE  LET out == MergeBy("id", runs)
           IN  /\ out \in Seq(Nat) /\ InOrder("id", out)
               /\ Len(out) = Len(Joined(runs)) /\ SetOf(out) = SetOf(Joined(runs))
               /\ AdjacentEqual(out) <=> ~Distinct(Joined(runs))
<1>1. runs \in Seq(Seq(Universe("id")))
  BY MutationOrder
<1> DEFINE out == MergeBy("id", runs)
<1>2. /\ out \in Seq(Universe("id")) /\ InOrder("id", out)
      /\ Len(out) = Len(Joined(runs)) /\ SetOf(out) = SetOf(Joined(runs))
  BY <1>1, MergeIs
<1> HIDE DEF out
<1>3. AdjacentEqual(out) <=> ~Distinct(out)
  BY <1>2, AdjacentIs
<1>4. Joined(runs) \in Seq(Nat) /\ out \in Seq(Nat)
  BY <1>2, JoinedMembers, MutationOrder
<1>5. Distinct(out) <=> Distinct(Joined(runs))
  BY <1>2, <1>4, DistinctSame
<1> QED
  BY <1>2, <1>3, <1>4, <1>5 DEF out

(* Where a chunk of identities ends.                                       *)
LEMMA ChunkBounds ==
    ASSUME NEW n \in Nat, NEW p \in 1..n + 1, NEW c \in Nat \ {0}, NEW e \in Nat,
           e = IF p + c - 1 > n THEN n ELSE p + c - 1
    PROVE  /\ p \in Nat /\ p - 1 \in Nat /\ (p - 1) + 1 = p /\ p - 1 <= e /\ e <= n
           /\ e - (p - 1) \in Nat /\ p - 1 + (e - (p - 1)) = e /\ e + 1 \in 1..n + 1
           /\ e - (p - 1) = 0 => p = n + 1
  OBVIOUS

(* A part of a sequence without repetitions has none.                      *)
LEMMA PartDistinct ==
    ASSUME NEW T, NEW s \in Seq(T), NEW d \in Nat, NEW e \in Nat,
           NEW g \in Seq(T), PartOf(g, s, d, e), Distinct(s)
    PROVE  Distinct(g)
<1>1. /\ DOMAIN g = 1..(e - d) /\ \A i \in 1..(e - d) : g[i] = s[d + i]
      /\ DOMAIN s = 1..Len(s) /\ Len(s) \in Nat /\ e <= Len(s)
  BY DEF PartOf
<1>2. \A n \in Nat : e <= n => \A i \in 1..(e - d) : d + i \in 1..n
  OBVIOUS
<1>3. \A i \in 1..(e - d) : d + i \in DOMAIN s
  BY <1>1, <1>2
<1>4. \A i, j \in 1..(e - d) : d + i = d + j => i = j
  OBVIOUS
<1> SUFFICES ASSUME NEW i \in 1..(e - d), NEW j \in 1..(e - d), g[i] = g[j]
             PROVE  i = j
  BY <1>1 DEF Distinct
<1>5. s[d + i] = s[d + j]
  BY <1>1
<1>6. d + i = d + j
  BY <1>3, <1>5, Zenon DEF Distinct
<1> QED
  BY <1>4, <1>6

(* The first members of a sequence.                                        *)
Firsts(s, n) == {s[i] : i \in 1..n}

(* The members of a part are the next ones.                                *)
LEMMA PartMembers ==
    ASSUME NEW T, NEW s \in Seq(T), NEW d \in Nat, NEW e \in Nat,
           NEW g \in Seq(T), PartOf(g, s, d, e)
    PROVE  Firsts(s, d) \cup SetOf(g) = Firsts(s, e)
<1>1. DOMAIN g = 1..(e - d) /\ d <= e /\ \A i \in 1..(e - d) : g[i] = s[d + i]
  BY DEF PartOf
<1>2. \A i \in 1..e : i \in 1..d \/ (i - d \in 1..(e - d) /\ i = d + (i - d))
  BY <1>1
<1>3. \A i \in 1..(e - d) : d + i \in 1..e
  BY <1>1
<1>4. \A i \in 1..d : i \in 1..e
  BY <1>1
<1>5. SetOf(g) = {s[d + i] : i \in 1..(e - d)}
  BY <1>1 DEF SetOf
<1>6. \A i \in 1..e : i \in 1..d \/ s[i] \in SetOf(g)
  BY <1>2, <1>5
<1>7. \A x \in SetOf(g) : x \in {s[i] : i \in 1..e}
  BY <1>3, <1>5
<1> QED
  BY <1>4, <1>6, <1>7 DEF Firsts

(* The next chunk of identities.                                           *)
LEMMA IdChunkIs ==
    ASSUME NEW s \in Seq(Nat), NEW p \in 1..Len(s) + 1, NEW e \in Nat,
           e = IF p + IdChunk - 1 > Len(s) THEN Len(s) ELSE p + IdChunk - 1
    PROVE  LET g == SubSeq(s, p, e)
           IN  /\ g \in Seq(Nat) /\ p - 1 + Len(g) = e /\ e + 1 \in 1..Len(s) + 1
               /\ {s[i] : i \in 1..p - 1} \cup SetOf(g) = {s[i] : i \in 1..e}
               /\ Distinct(s) => Distinct(g)
               /\ g = <<>> => p = Len(s) + 1
<1> DEFINE d == p - 1
           g == SubSeq(s, d + 1, e)
<1>1. IdChunk \in Nat \ {0} /\ Len(s) \in Nat
  BY DiscoveryAssumption
<1>2. /\ d \in Nat /\ d + 1 = p /\ d <= e /\ e <= Len(s)
      /\ d + (e - d) = e /\ e + 1 \in 1..Len(s) + 1
      /\ e - d = 0 => p = Len(s) + 1
  BY <1>1, ChunkBounds
<1> HIDE DEF d
<1>3. /\ g \in Seq(Nat) /\ Len(g) = e - d
      /\ Firsts(s, d) \cup SetOf(g) = Firsts(s, e)
      /\ Distinct(s) => Distinct(g)
  <2>1. g \in Seq(Nat) /\ Len(g) = e - d /\ PartOf(g, s, d, e)
    <3>1. g \in Seq(Nat) /\ PartOf(g, s, d, e)
      BY <1>2, PartIs
    <3> HIDE DEF g
    <3> QED
      BY <3>1 DEF PartOf
  <2> HIDE DEF g
  <2> QED
    <3>1. Distinct(s) => Distinct(g)
      BY <1>2, <2>1, PartDistinct
    <3>2. Firsts(s, d) \cup SetOf(g) = Firsts(s, e)
      BY <1>2, <2>1, PartMembers
    <3> QED
      BY <2>1, <3>1, <3>2
<1> HIDE DEF g
<1>4. g = <<>> => e - d = 0
  BY <1>3
<1>5. g = SubSeq(s, p, e)
  BY <1>2 DEF g
<1> QED
  BY <1>2, <1>3, <1>4, <1>5 DEF d, Firsts

(* The identities that validation reads are those of the candidates.       *)
LEMMA IdsStep ==
    ASSUME ResourceInv, FoundInv, Next
    PROVE  IdsInv'
<1>1. /\ input' = input /\ Emitted' = Emitted /\ input \in Inputs
      /\ file \in 1..Len(input) + 1 /\ pos \in Nat \ {0}
      /\ Len(input) \in Nat /\ DOMAIN input = 1..Len(input)
  <2>1. input \in Inputs
    BY DEF ResourceInv, CountInv
  <2> QED
    BY <2>1, EmitsIs, InputStep DEF ResourceInv, CountInv
<1>2. /\ ids \in Seq(Nat) /\ Len(ids) = count /\ count \in Nat
      /\ DOMAIN ids = 1..Len(ids)
      /\ \A i \in 1..count : ids[i] = Emitted[i].id
      /\ idPos \in 1..Len(ids) + 1
  BY DEF FoundInv, IdsInv
<1>3. result = "running" <=> pc # "done"
  BY DEF FoundInv, FileInv
<1>4. ASSUME UNCHANGED <<ids, count>>, pc' = "done", result' = "error", idPos' = idPos
      PROVE  IdsInv'
  BY <1>1, <1>2, <1>4 DEF IdsInv
<1>5. CASE FailVisiting \/ FailFile \/ FailRound \/ FailValidate
  BY <1>4, <1>5 DEF FailVisiting, FailFile, FailRound, FailValidate, Return, validation
<1>6. CASE Terminated
  <2>1. pc = "done" /\ pc' = "done" /\ UNCHANGED <<ids, count, idPos, result>>
    BY <1>6 DEF Terminated, vars, validation
  <2> QED
    BY <1>1, <1>2, <2>1 DEF FoundInv, IdsInv
<1>7. ASSUME pc \notin {"validate", "idround", "done"}, pc' \notin {"validate", "idround", "done"},
             UNCHANGED <<ids, count, idPos, result>>
      PROVE  IdsInv'
  <2>1. idPos = 1 /\ result = "running"
    BY <1>3, <1>7 DEF FoundInv, IdsInv
  <2> QED
    BY <1>1, <1>2, <1>7, <2>1 DEF IdsInv
<1>8. CASE Flush \/ Carry \/ TakeAll \/ MergeGroup \/ EndRound \/ EmitFile
  BY <1>7, <1>8 DEF Flush, Carry, TakeAll, MergeGroup, EndRound, EmitFile, Goto, validation
<1>9. CASE OpenFile
  <2>1. /\ pc = "file" /\ pc' \in {"file", "visit", "validate"}
        /\ UNCHANGED <<ids, count, idPos, idRuns, result>>
    BY <1>9 DEF OpenFile, Goto, validation
  <2>2. CASE pc' # "validate"
    BY <1>7, <2>1, <2>2
  <2>3. CASE pc' = "validate"
    <3>1. idRuns = <<>> /\ idPos = 1 /\ result = "running"
      BY <1>3, <2>1 DEF ResourceInv, PhaseInv, FoundInv, IdsInv
    <3>2. 1 - 1 = 0 /\ {ids[i] : i \in 1..0} = {}
      OBVIOUS
    <3>3. IdsHold(idRuns', idPos' - 1, {ids'[i] : i \in 1..idPos' - 1})
      BY <2>1, <3>1, <3>2, NoIds
    <3> QED
      BY <1>1, <1>2, <2>1, <2>3, <3>1, <3>3 DEF IdsInv
  <2> QED
    BY <2>2, <2>3
<1>10. CASE Visit
  <2>1. /\ pc = "visit" /\ pc' \in {"flush", "visit", "take"} /\ UNCHANGED <<idPos, result>>
    BY <1>10 DEF Visit, Goto, validation
  <2>2. CASE ~(pos <= Len(input[file].emits))
    <3>1. UNCHANGED <<ids, count>>
      BY <1>10, <2>2 DEF Visit
    <3> QED
      BY <1>7, <2>1, <3>1
  <2>3. CASE pos <= Len(input[file].emits)
    <3> DEFINE ms == input[file].emits
    <3>1. ids' = Append(ids, ms[pos].id) /\ count' = count + 1
      BY <1>10, <2>3 DEF Visit
    <3>2. /\ file \in 1..Len(input) /\ ~input[file].generated
          /\ count = EmittedBefore(file) + pos - 1
      BY <1>1, <2>1 DEF ResourceInv, CountInv, Visiting
    <3>3. ms \in Seq(Mutation) /\ Emits[file] = ms
      BY <1>1, <3>2, EmitsIs
    <3>4. pos \in 1..Len(ms) /\ ms[pos] \in Mutation
      BY <1>1, <2>3, <3>3
    <3> HIDE DEF ms
    <3>5. /\ EmittedBefore(file) \in Nat
          /\ Emitted[EmittedBefore(file) + pos] = ms[pos]
      BY <1>1, <3>2, <3>3, <3>4, EmittedAt, EmittedBeforeIs
    <3>6. EmittedBefore(file) + pos = count + 1
      BY <1>1, <3>2, <3>5
    <3>7. ms[pos].id \in Nat
      BY <3>4 DEF Mutation
    <3>8. /\ ids' \in Seq(Nat) /\ Len(ids') = count + 1
          /\ \A i \in 1..count : ids'[i] = ids[i]
          /\ ids'[count + 1] = ms[pos].id
      BY <1>2, <3>1, <3>7, AppendIs
    <3>9. \A i \in 1..count + 1 : i \in 1..count \/ i = count + 1
      BY <1>2
    <3>10. \A i \in 1..count' : ids'[i] = Emitted'[i].id
      BY <1>1, <1>2, <3>1, <3>5, <3>6, <3>8, <3>9
    <3>11. idPos = 1 /\ result = "running"
      BY <1>3, <2>1 DEF FoundInv, IdsInv
    <3>12. 1 \in 1..Len(ids') + 1
      BY <1>2, <3>8
    <3> QED
      BY <2>1, <3>1, <3>8, <3>10, <3>11, <3>12 DEF IdsInv
  <2> QED
    BY <2>2, <2>3
<1>11. CASE ValidateChunk
  <2> DEFINE end == IF idPos + IdChunk - 1 > Len(ids) THEN Len(ids) ELSE idPos + IdChunk - 1
             part == SubSeq(ids, idPos, end)
             values == Sorted("id", part)
  <2>1. pc = "validate" /\ result = "running" /\ ids' = ids /\ count' = count
    BY <1>3, <1>11 DEF ValidateChunk, Return
  <2>2. IdsHold(idRuns, idPos - 1, {ids[i] : i \in 1..idPos - 1})
    BY <2>1 DEF FoundInv, IdsInv
  <2>3. end \in Nat
    BY <1>2, DiscoveryAssumption
  <2>4. /\ part \in Seq(Nat) /\ idPos - 1 + Len(part) = end /\ end + 1 \in 1..Len(ids) + 1
        /\ {ids[i] : i \in 1..idPos - 1} \cup SetOf(part) = {ids[i] : i \in 1..end}
        /\ Distinct(ids) => Distinct(part)
        /\ part = <<>> => idPos = Len(ids) + 1
    BY <1>2, <2>3, IdChunkIs
  <2>5. \/ values = <<>> /\ pc' = "idround" /\ UNCHANGED <<result, idRuns, idMerged, idPos>>
        \/ AdjacentEqual(values) /\ pc' = "done" /\ result' = "duplicate" /\ idPos' = idPos
        \/ /\ pc' = "validate" /\ idRuns' = Append(idRuns, values)
           /\ idPos' = end + 1 /\ result' = result
    BY <1>11 DEF ValidateChunk, Goto, Return, validation
  <2> HIDE DEF end, part
  <2>6. /\ values \in Seq(Nat) /\ Len(values) = Len(part) /\ SetOf(values) = SetOf(part)
        /\ InOrder("id", values)
    BY <2>4, SortedIs, MutationOrder
  <2> HIDE DEF values
  <2>7. CASE values = <<>> /\ pc' = "idround" /\ UNCHANGED <<result, idRuns, idMerged, idPos>>
    <3>1. part = <<>>
      BY <2>4, <2>6, <2>7
    <3>2. idPos - 1 = Len(ids) /\ {ids[i] : i \in 1..Len(ids)} = SetOf(ids)
      BY <1>2, <2>4, <3>1 DEF SetOf
    <3>3. IdsHold(idRuns, Len(ids), SetOf(ids))
      BY <2>2, <3>2
    <3>4. idMerged = <<>>
      BY <2>1 DEF ResourceInv, PhaseInv
    <3>5. idRuns \in Seq(Seq(Nat)) /\ Len(idRuns) \in Nat
      BY <3>3 DEF IdsHold
    <3>6. MergedOf(<<>>, idRuns) = 0
      <4>1. Done(<<>>) = 0
        BY DiscoveryAssumption DEF Done
      <4> QED
        BY <3>5, <4>1 DEF MergedOf
    <3>7. Joining(idRuns)[0] = <<>>
      BY <3>5, JoiningIs
    <3>8. Len(<<>>) = 0 /\ SetOf(<<>>) = {}
      BY DEF SetOf
    <3>9. LET merging == Joining(idRuns)[MergedOf(idMerged, idRuns)]
          IN  IdsHold(idMerged, Len(merging), SetOf(merging))
      BY <3>4, <3>6, <3>7, <3>8, NoIds
    <3>10. LET merging == Joining(idRuns')[MergedOf(idMerged', idRuns')]
           IN  IdsHold(idMerged', Len(merging), SetOf(merging))
      BY <2>7, <3>9
    <3> QED
      BY <1>1, <1>2, <2>1, <2>7, <3>3, <3>10 DEF IdsInv
  <2>8. CASE AdjacentEqual(values) /\ pc' = "done" /\ result' = "duplicate" /\ idPos' = idPos
    <3>1. ~Distinct(values)
      BY <2>6, <2>8, AdjacentIs, MutationOrder
    <3>2. ~Distinct(part)
      BY <2>4, <2>6, <3>1, DistinctSame
    <3>3. ~Distinct(ids)
      BY <2>4, <3>2
    <3> QED
      BY <1>1, <1>2, <2>1, <2>8, <3>3 DEF IdsInv
  <2>9. CASE /\ pc' = "validate" /\ idRuns' = Append(idRuns, values)
             /\ idPos' = end + 1 /\ result' = result
    <3>1. IdsHold(Append(idRuns, values), idPos - 1 + Len(values),
                  {ids[i] : i \in 1..idPos - 1} \cup SetOf(values))
      BY <2>2, <2>6, MoreIds
    <3>2. IdsHold(idRuns', end, {ids[i] : i \in 1..end})
      BY <2>4, <2>6, <2>9, <3>1
    <3>3. idPos' - 1 = end
      BY <2>3, <2>9
    <3>4. IdsHold(idRuns', idPos' - 1, {ids'[i] : i \in 1..idPos' - 1})
      BY <2>1, <3>2, <3>3
    <3> QED
      BY <1>1, <1>2, <2>1, <2>4, <2>9, <3>4 DEF IdsInv
  <2> QED
    BY <2>5, <2>7, <2>8, <2>9
<1>12. CASE MergeIds
  <2> DEFINE n == Len(idRuns)
             d == Done(idMerged)
             e == GroupEnd(d + 1, n)
             group == SubSeq(idRuns, d + 1, e)
             out == MergeBy("id", group)
             J(k) == Joining(idRuns)[k]
  <2>1. /\ pc = "idround" /\ pc' = "idround" /\ UNCHANGED <<ids, count, idPos, result>>
        /\ result = "running"
    BY <1>3, <1>12 DEF MergeIds, Goto
  <2>2. /\ IdsHold(idRuns, Len(ids), SetOf(ids))
        /\ IdsHold(idMerged, Len(J(MergedOf(idMerged, idRuns))),
                   SetOf(J(MergedOf(idMerged, idRuns))))
    BY <2>1 DEF FoundInv, IdsInv
  <2>3. /\ idRuns \in Seq(Seq(Nat)) /\ idMerged \in Seq(Seq(Nat))
        /\ n \in Nat /\ Len(idMerged) \in Nat /\ d \in Nat /\ FanIn \in Nat \ {0}
        /\ DOMAIN idRuns = 1..n
        /\ \A r \in 1..n : InOrder("id", idRuns[r])
    BY <2>2, DiscoveryAssumption DEF IdsHold, Done
  <2>4. MergedOf(idMerged, idRuns) = IF d > n THEN n ELSE d
    BY DEF MergedOf
  <2>5. CASE d + 1 <= n
    <3>1. idMerged' = Append(idMerged, out) /\ idRuns' = idRuns
      BY <1>12, <2>5 DEF MergeIds
    <3>2. Len(Append(idMerged, out)) = Len(idMerged) + 1
      BY <2>3
    <3>3. Done(idMerged') = d + FanIn
      <4>1. \A a, f \in Nat : (a + 1) * f = a * f + f
        BY SMT
      <4> QED
        BY <2>3, <3>1, <3>2, <4>1 DEF Done
    <3>4. e = IF d + FanIn > n THEN n ELSE d + FanIn
      <4>1. d + 1 + FanIn - 1 = d + FanIn
        BY <2>3
      <4> HIDE DEF d, n
      <4> QED
        BY <4>1 DEF GroupEnd
    <3>5. MergedOf(idMerged', idRuns') = e
      <4>1. MergedOf(idMerged', idRuns') = IF d + FanIn > n THEN n ELSE d + FanIn
        BY <3>1, <3>3 DEF MergedOf
      <4> QED
        BY <3>4, <4>1
    <3> HIDE DEF e, d, n
    <3>6. e \in Nat /\ d < e /\ e <= n /\ MergedOf(idMerged, idRuns) = d
      BY <2>3, <2>4, <2>5, <3>4
    <3>7. /\ group \in Seq(Seq(Nat)) /\ Len(J(e)) = Len(J(d)) + Len(Joined(group))
          /\ SetOf(J(e)) = SetOf(J(d)) \cup SetOf(Joined(group))
      <4>1. group \in Seq(Seq(Nat)) /\ PartOf(group, idRuns, d, e) /\ d \in Nat
        BY <2>3, <3>6 DEF PartOf, n
      <4> HIDE DEF group
      <4> DEFINE T == Nat
      <4>4. idRuns \in Seq(Seq(T)) /\ group \in Seq(Seq(T)) /\ e \in Nat
        BY <2>3, <3>6, <4>1
      <4> HIDE DEF T
      <4>2. Len(Joining(idRuns)[e]) = Len(Joining(idRuns)[d]) + Len(Joined(group))
        BY <4>1, <4>4, JoiningGroup
      <4>3. SetOf(Joining(idRuns)[e]) = SetOf(Joining(idRuns)[d]) \cup SetOf(Joined(group))
        BY <2>3, <3>6, <4>1, JoiningGroupMembers
      <4> QED
        BY <4>1, <4>2, <4>3 DEF J
    <3>8. \A r \in DOMAIN group : InOrder("id", group[r])
      <4>1. /\ DOMAIN group = 1..(e - d)
            /\ \A i \in 1..(e - d) : group[i] = idRuns[d + i] /\ d + i \in 1..n
        BY <2>3, <3>6 DEF n
      <4> QED
        BY <2>3, <4>1
    <3> HIDE DEF group
    <3>9. /\ out \in Seq(Nat) /\ InOrder("id", out)
          /\ Len(out) = Len(Joined(group)) /\ SetOf(out) = SetOf(Joined(group))
      BY <3>7, <3>8, MergedIds
    <3> HIDE DEF out
    <3>10. IdsHold(idMerged, Len(J(d)), SetOf(J(d)))
      BY <2>2, <3>6
    <3> HIDE DEF J
    <3>11. IdsHold(Append(idMerged, out), Len(J(d)) + Len(out), SetOf(J(d)) \cup SetOf(out))
      BY <3>9, <3>10, MoreIds
    <3>12. IdsHold(idMerged', Len(J(e)), SetOf(J(e)))
      BY <3>1, <3>7, <3>9, <3>11
    <3>13. LET merging == Joining(idRuns')[MergedOf(idMerged', idRuns')]
           IN  IdsHold(idMerged', Len(merging), SetOf(merging))
      BY <3>1, <3>5, <3>12 DEF J
    <3>14. IdsHold(idRuns', Len(ids'), SetOf(ids'))
      BY <2>1, <2>2, <3>1
    <3> QED
      BY <1>1, <1>2, <2>1, <3>13, <3>14 DEF IdsInv
  <2>6. CASE ~(d + 1 <= n)
    <3>1. idRuns' = idMerged /\ idMerged' = <<>>
      BY <1>12, <2>6 DEF MergeIds
    <3>2. MergedOf(idMerged, idRuns) = n
      BY <2>3, <2>4, <2>6
    <3>3. /\ Len(J(n)) = Len(ids) /\ SetOf(J(n)) = SetOf(ids)
      BY <2>2 DEF IdsHold, Joined
    <3>4. IdsHold(idRuns', Len(ids'), SetOf(ids'))
      BY <2>1, <2>2, <3>1, <3>2, <3>3
    <3>5. MergedOf(<<>>, idMerged) = 0
      <4>1. Done(<<>>) = 0
        BY <2>3 DEF Done
      <4> QED
        BY <2>3, <4>1 DEF MergedOf
    <3>6. Joining(idMerged)[0] = <<>> /\ Len(<<>>) = 0 /\ SetOf(<<>>) = {}
      <4>1. Joining(idMerged)[0] = <<>>
        BY <2>3, JoiningIs
      <4> QED
        BY <4>1 DEF SetOf
    <3>7. LET merging == Joining(idRuns')[MergedOf(idMerged', idRuns')]
          IN  IdsHold(idMerged', Len(merging), SetOf(merging))
      BY <3>1, <3>5, <3>6, NoIds
    <3> QED
      BY <1>1, <1>2, <2>1, <3>4, <3>7 DEF IdsInv
  <2> QED
    BY <2>5, <2>6
<1>13. CASE FinishIds
  <2>1. /\ pc = "idround" /\ pc' = "done" /\ UNCHANGED <<ids, count, idPos>>
        /\ result' = IF AdjacentEqual(MergeBy("id", idRuns)) THEN "duplicate" ELSE "ok"
    BY <1>13 DEF FinishIds, Return
  <2>2. IdsHold(idRuns, Len(ids), SetOf(ids))
    BY <2>1 DEF FoundInv, IdsInv
  <2>3. /\ idRuns \in Seq(Seq(Nat)) /\ \A r \in DOMAIN idRuns : InOrder("id", idRuns[r])
        /\ Len(Joined(idRuns)) = Len(ids) /\ SetOf(Joined(idRuns)) = SetOf(ids)
    BY <2>2 DEF IdsHold
  <2>4. AdjacentEqual(MergeBy("id", idRuns)) <=> ~Distinct(Joined(idRuns))
    BY <2>3, MergedIds
  <2>5. Joined(idRuns) \in Seq(Nat)
    BY <2>3, JoinedMembers
  <2>6. Distinct(Joined(idRuns)) <=> Distinct(ids)
    BY <1>2, <2>3, <2>5, DistinctSame
  <2>7. (result' = "ok" => Distinct(ids')) /\ (result' = "duplicate" => ~Distinct(ids'))
    BY <2>1, <2>4, <2>6
  <2> QED
    BY <1>1, <1>2, <2>1, <2>7 DEF IdsInv
<1> QED
  BY <1>5, <1>6, <1>8, <1>9, <1>10, <1>11, <1>12, <1>13 DEF Next

(* At first nothing is found.                                              *)
LEMMA FoundInit == Init => FoundInv
<1> SUFFICES ASSUME Init
             PROVE  FoundInv
  OBVIOUS
<1>1. /\ input \in Inputs /\ pc = "file" /\ file = 1 /\ levels = <<>> /\ chunks = <<>>
      /\ merged = <<>> /\ store = [n \in {1} |-> NewSpool] /\ count = 0 /\ ids = <<>>
      /\ idPos = 1 /\ result = "running"
  BY DEF Init
<1>2. NamesInv
  BY <1>1 DEF NamesInv, Distinct
<1>3. FileInv
  BY <1>1 DEF FileInv, Visiting
<1>4. ContentInv
  <2>1. Joining(SortedEmits)[0] = <<>>
    BY <1>1, SortedEmitsIs, JoiningIs
  <2>2. Records(store[1]) = <<>>
    BY <1>1 DEF Records, NewSpool
  <2>3. 1 - 1 = 0
    OBVIOUS
  <2> QED
    BY <1>1, <2>1, <2>2, <2>3 DEF ContentInv, Visiting
<1>5. IdsInv
  <2>1. ids \in Seq(Nat) /\ Len(ids) = 0 /\ 1 \in 1..0 + 1 /\ 1..0 = {}
    BY <1>1
  <2> QED
    BY <1>1, <2>1 DEF IdsInv
<1> QED
  BY <1>2, <1>3, <1>4, <1>5 DEF FoundInv

(* A step keeps what is found and where it is.                             *)
LEMMA FoundStep ==
    ResourceInv /\ FoundInv /\ [Next]_vars => FoundInv'
<1> SUFFICES ASSUME ResourceInv, FoundInv, [Next]_vars
             PROVE  FoundInv'
  OBVIOUS
<1>1. CASE Next
  BY <1>1, NamesStep, FileStep, ContentStep, IdsStep DEF FoundInv
<1>2. CASE UNCHANGED vars
  <2>1. /\ UNCHANGED <<input, pc, file, pos, candidates, levels, carry, level, chunks, merged>>
        /\ UNCHANGED <<store, fresh, count, ids, idsThere, idRuns, idMerged, idPos, result>>
    BY <1>2 DEF vars, discovery, validation
  <2>2. Emits' = Emits /\ Emitted' = Emitted
    BY <2>1 DEF Emits, Emitted
  <2>3. SortedEmits' = SortedEmits /\ NoTwins' = NoTwins
    BY <2>1, <2>2 DEF SortedEmits, NoTwins
  <2>4. Live' = Live /\ InLive' = InLive /\ Visiting' = Visiting
    BY <2>1 DEF Live, LevelRuns, InLive, Visiting
  <2>5. NamesInv' /\ FileInv'
    BY <2>1, <2>2, <2>4 DEF FoundInv, NamesInv, FileInv
  <2>6. ContentInv'
    BY <2>1, <2>3, <2>4 DEF FoundInv, ContentInv
  <2>7. IdsInv'
    BY <2>1, <2>2 DEF FoundInv, IdsInv
  <2> QED
    BY <2>5, <2>6, <2>7 DEF FoundInv
<1> QED
  BY <1>1, <1>2

(* Identities that differ make candidates that differ.                     *)
LEMMA NoTwinsIs ==
    ASSUME input \in Inputs, Len(ids) = Len(Emitted), ids \in Seq(Nat), Distinct(ids),
           \A i \in 1..Len(Emitted) : ids[i] = Emitted[i].id
    PROVE  NoTwins
<1>1. /\ DOMAIN input = 1..Len(input) /\ DOMAIN ids = 1..Len(Emitted)
      /\ \A f \in 1..Len(input) : EmittedBefore(f) \in Nat
      /\ \A f \in 1..Len(input) : Emits[f] \in Seq(Mutation)
  <2>1. /\ DOMAIN input = 1..Len(input) /\ Len(input) \in Nat
        /\ Emits \in Seq(Seq(Mutation)) /\ Len(Emits) = Len(input)
    BY EmitsIs
  <2>2. \A f \in 1..Len(input) : f \in 1..Len(input) + 1
    BY <2>1
  <2> QED
    BY <2>1, <2>2, EmittedBeforeIs
<1> SUFFICES ASSUME NEW f \in 1..Len(input), NEW i \in 1..Len(Emits[f]),
                    NEW j \in 1..Len(Emits[f]), Emits[f][i] = Emits[f][j]
             PROVE  i = j
  <2>1. \A f \in 1..Len(input) : DOMAIN Emits[f] = 1..Len(Emits[f])
    BY <1>1
  <2>2. \A f \in 1..Len(input) : Distinct(Emits[f])
    BY <2>1, Zenon DEF Distinct
  <2>3. \A f \in DOMAIN input : f \in 1..Len(input)
    BY <1>1
  <2> QED
    BY <2>2, <2>3, Zenon DEF NoTwins
<1> DEFINE a == EmittedBefore(f) + i
           b == EmittedBefore(f) + j
<1>2. a \in 1..Len(Emitted) /\ Emitted[a] = Emits[f][i]
  BY EmittedAt
<1>3. b \in 1..Len(Emitted) /\ Emitted[b] = Emits[f][j]
  BY EmittedAt
<1>4. EmittedBefore(f) \in Nat /\ i \in Nat /\ j \in Nat
  BY <1>1
<1>5. a = b => i = j
  BY <1>4
<1> HIDE DEF a, b
<1>6. ids[a] = ids[b]
  BY <1>2, <1>3
<1>7. a = b
  BY <1>1, <1>2, <1>3, <1>6 DEF Distinct
<1> QED
  BY <1>5, <1>7

(* When discovery returns, what it found is what the in-memory discovery   *)
(* finds.                                                                  *)
LEMMA FoundIsTheSame ==
    ResourceInv /\ FoundInv => SameAsInMemory
<1> SUFFICES ASSUME ResourceInv, FoundInv, result \in {"ok", "duplicate"}
             PROVE  SameAsInMemory
  BY DEF SameAsInMemory
<1>1. /\ input \in Inputs /\ file = Len(input) + 1 /\ count = Len(Emitted)
  BY DEF ResourceInv, CountInv, FoundInv, FileInv
<1>2. /\ ids \in Seq(Nat) /\ Len(ids) = Len(Emitted) /\ Len(Emitted) \in Nat
      /\ \A i \in 1..Len(Emitted) : ids[i] = Emitted[i].id
      /\ (result = "ok" => Distinct(ids)) /\ (result = "duplicate" => ~Distinct(ids))
  BY <1>1, EmittedBeforeIs DEF FoundInv, IdsInv
<1>3. Emitted \in Seq(Mutation) /\ DOMAIN Emitted = 1..Len(Emitted)
  <2>1. Emits \in Seq(Seq(Mutation))
    BY <1>1, EmitsIs
  <2>2. Emitted \in Seq(Mutation)
    BY <2>1, JoinedMembers DEF Emitted
  <2> QED
    BY <2>2
<1> DEFINE known == {Emitted[i].id : i \in DOMAIN Emitted}
           unique == Cardinality(known) = Len(Emitted)
<1>4. known = SetOf(ids)
  BY <1>2, <1>3 DEF SetOf
<1>5. unique <=> Distinct(ids)
  <2>1. Cardinality(SetOf(ids)) = Len(ids) <=> Distinct(ids)
    BY <1>2, DistinctIs
  <2> QED
    BY <1>2, <1>4, <2>1
<1> HIDE DEF known
<1>6. CASE result = "duplicate"
  BY <1>2, <1>5, <1>6 DEF SameAsInMemory, known
<1>7. CASE result = "ok"
  <2>1. Distinct(ids)
    BY <1>2, <1>7
  <2>2. NoTwins
    BY <1>1, <1>2, <2>1, NoTwinsIs
  <2>3. Joined(SortedEmits) \in Seq(Mutation) /\ Len(Joined(SortedEmits)) = count
    BY <1>1, SortedEmittedLength
  <2>4. Records(store[1]) = Joined(SortedEmits)
    <3>1. Records(store[1]) = Joining(SortedEmits)[file - 1]
      BY <1>7, <2>2 DEF FoundInv, ContentInv
    <3>2. Len(SortedEmits) = Len(input) /\ Len(input) \in Nat
      BY <1>1, SortedEmitsIs, EmitsIs
    <3>3. file - 1 = Len(SortedEmits)
      BY <1>1, <3>2
    <3> QED
      BY <3>1, <3>3 DEF Joined
  <2>5. ASSUME NEW limit \in 1..count + 1
        PROVE  DiscoverLimited(input, limit) =
                  SubSeq(Records(store[1]), 1, IF limit < count THEN limit ELSE count)
    <3>1. limit \in Nat /\ count \in Nat
      BY <1>1, <1>2
    <3>2. Least2(limit, count) = IF limit < count THEN limit ELSE count
      BY <3>1 DEF Least2
    <3>3. DiscoverLimited(input, limit) =
             SubSeq(Joined(SortedEmits), 1, Least2(limit, Len(Joined(SortedEmits))))
      BY <1>1, <2>2, <3>1, DiscoverIs
    <3> QED
      BY <2>3, <2>4, <3>2, <3>3
  <2> QED
    BY <1>1, <1>5, <1>7, <2>1, <2>5 DEF SameAsInMemory, known
<1> QED
  BY <1>6, <1>7

-----------------------------------------------------------------------------
(* What holds of every behaviour.                                          *)

(* Discovery is in one of the states that its inductive invariant          *)
(* describes: every open spool in one place, every chunk of a file but the *)
(* last one full, every spool within its limits (disk_discovery.go,        *)
(* id_validation_disk.go).                                                 *)
THEOREM DiscoveryInvariance == Spec => []DiscoveryInv
<1>1. Init => DiscoveryInv
  BY InitInv, FoundInit DEF DiscoveryInv
<1>2. DiscoveryInv /\ [Next]_vars => DiscoveryInv'
  BY ResourceStep, FoundStep DEF DiscoveryInv
<1> QED  BY <1>1, <1>2, PTL DEF Spec

(* Memory holds a chunk and buffers within their limits, and the runs      *)
(* waiting on disk are a logarithm of the candidates, whatever the sizes   *)
(* (disk_discovery.go:245-247, spool.go:66-72).                            *)
THEOREM StorageHolds == Spec => []StorageInv
<1>1. DiscoveryInv => StorageInv
  BY DEF DiscoveryInv, ResourceInv
<1> QED  BY <1>1, DiscoveryInvariance, PTL

(* Every exit removes every temporary file it does not hand out            *)
(* (disk_discovery.go:33-38, 119-122, 140-152, 165-167;                    *)
(* id_validation_disk.go:182-188, 222-231).                                *)
THEOREM NoTempLeftHolds == Spec => []NoTempLeft
<1>1. DiscoveryInv => NoTempLeft
  BY DEF DiscoveryInv, ResourceInv, OwnInv, PhaseInv, NoTempLeft, OnDisk
<1> QED  BY <1>1, DiscoveryInvariance, PTL

(* Nothing is lost, duplicated or out of order between the visitor and the *)
(* result, through chunks, spills, carries and rounds of merges, for any   *)
(* input, sizes and fan-in: the result starts with what the in-memory      *)
(* discovery selects under every limit, and an identity that occurs twice  *)
(* refuses the input, and only that (disk_discovery.go:24-27,              *)
(* frontend.go:46-51, id_validation_disk.go:174-176).                      *)
THEOREM SameAsInMemoryHolds == Spec => []SameAsInMemory
<1>1. DiscoveryInv => SameAsInMemory
  BY FoundIsTheSame DEF DiscoveryInv
<1> QED  BY <1>1, DiscoveryInvariance, PTL
=============================================================================
