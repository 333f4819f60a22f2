---------------------------- MODULE Cc3xxProofs ----------------------------
(***************************************************************************)
(* Proofs about the cc3xx core, for every size of block and chunk, every   *)
(* layout of memory and of the SRAM, and every sequence of writes: the     *)
(* hash and the cipher, the arithmetic of the public-key engine and its    *)
(* cached modulus, and the path to memory of qemu_cc3xx, whichever way its *)
(* two threads interleave.                                                 *)
(***************************************************************************)
EXTENDS Cc3xx, WellFoundedInduction, TLAPS

-----------------------------------------------------------------------------
(* Arithmetic                                                              *)

LEMMA DivMod ==
  ASSUME NEW x \in Nat, NEW n \in Nat \ {0}
  PROVE  /\ x \div n \in Nat /\ x % n \in 0 .. n - 1
         /\ x = (x \div n) * n + (x % n)
  OBVIOUS

LEMMA UniqueDivMod ==
  ASSUME NEW n \in Nat \ {0}, NEW q \in Nat, NEW r \in 0 .. n - 1,
         NEW p \in Nat, NEW s \in 0 .. n - 1, q * n + r = p * n + s
  PROVE  q = p /\ r = s
  <1>1. (q - p) * n = s - r  OBVIOUS
  <1>2. q - p > 0 => (q - p) * n >= n  OBVIOUS
  <1>3. q - p < 0 => (q - p) * n <= 0 - n  OBVIOUS
  <1> QED  BY <1>1, <1>2, <1>3

LEMMA DivModIs ==
  ASSUME NEW n \in Nat \ {0}, NEW q \in Nat, NEW r \in 0 .. n - 1
  PROVE  (q * n + r) \div n = q /\ (q * n + r) % n = r
  <1> DEFINE x == q * n + r
  <1>1. x \in Nat  OBVIOUS
  <1>2. /\ x \div n \in Nat /\ x % n \in 0 .. n - 1
        /\ x = (x \div n) * n + (x % n)
    BY <1>1, DivMod
  <1> QED  BY <1>2, UniqueDivMod

\* A whole number of blocks more.
LEMMA DivModAdd ==
  ASSUME NEW n \in Nat \ {0}, NEW k \in Nat, NEW x \in Nat
  PROVE  (k * n + x) \div n = k + x \div n /\ (k * n + x) % n = x % n
  <1> DEFINE q == x \div n
             r == x % n
  <1>1. q \in Nat /\ r \in 0 .. n - 1 /\ x = q * n + r  BY DivMod
  <1> HIDE DEF q, r
  <1>2. k * n + x = (k + q) * n + r  BY <1>1
  <1>3. k + q \in Nat  BY <1>1
  <1>4. ((k + q) * n + r) \div n = k + q /\ ((k + q) * n + r) % n = r
    BY <1>1, <1>3, DivModIs
  <1> QED  BY <1>2, <1>4 DEF q, r

\* Natural numbers are well-founded: the two forms of it used below.
LEMMA LeastExists ==
  ASSUME NEW S, S \subseteq Nat, S # {}
  PROVE  \E x \in S : \A y \in S : x <= y
  <1> DEFINE R == {p \in Nat \X Nat : p[1] < p[2]}
  <1>1. IsWellFoundedOn(R, Nat)  BY NatLessThanWellFounded DEF OpToRel
  <1>2. \A x, y \in Nat : <<y, x>> \notin R => x <= y  OBVIOUS
  <1> HIDE DEF R
  <1>3. PICK x \in S : \A y \in S : ~ (<<y, x>> \in R)  BY <1>1, WFMin
  <1> QED  BY <1>2, <1>3

LEMMA Induction ==
  ASSUME NEW S, 0 \in S, \A n \in Nat : n \in S => n + 1 \in S
  PROVE  Nat \subseteq S
  <1> SUFFICES ASSUME Nat \ S # {} PROVE FALSE  OBVIOUS
  <1>1. PICK x \in Nat \ S : \A y \in Nat \ S : x <= y  BY LeastExists
  <1>2. x # 0 /\ x - 1 \in Nat  BY <1>1
  <1>3. x - 1 \in S  BY <1>1, <1>2
  <1> QED  BY <1>1, <1>2, <1>3

\* Induction up to a bound.
LEMMA Upto ==
  ASSUME NEW n \in Nat, NEW S, 0 \in S, \A i \in 0 .. n - 1 : i \in S => i + 1 \in S
  PROVE  0 .. n \subseteq S
  <1> DEFINE T == {i \in Nat : i <= n => i \in S}
  <1>1. 0 \in T  OBVIOUS
  <1>2. ASSUME NEW i \in Nat, i \in T PROVE i + 1 \in T  BY <1>2
  <1> HIDE DEF T
  <1>3. Nat \subseteq T  BY <1>1, <1>2, Induction
  <1> QED  BY <1>3 DEF T

\* A loop of n passes over values of V, of which G gives the next one.
Passes(n, V) == [(1 .. n) \X V -> V]
Runs(f, n, V, v0, G) == /\ f \in [0 .. n -> V] /\ f[0] = v0
                        /\ \A i \in 1 .. n : f[i] = G[<<i, f[i - 1]>>]

LEMMA LoopExists ==
  ASSUME NEW V, NEW n \in Nat, NEW v0 \in V, NEW G \in Passes(n, V)
  PROVE  \E f : Runs(f, n, V, v0, G)
  <1> USE DEF Passes
  <1> DEFINE Is(f, k) == /\ f \in [0 .. k -> V] /\ f[0] = v0
                         /\ \A i \in 1 .. k : f[i] = G[<<i, f[i - 1]>>]
             S == {k \in 0 .. n : \E f : Is(f, k)}
  <1>1. 0 \in S
    <2> DEFINE f == [i \in 0 .. 0 |-> v0]
    <2>1. Is(f, 0)  OBVIOUS
    <2>2. 0 \in 0 .. n  OBVIOUS
    <2> HIDE DEF f, Is
    <2> QED  BY <2>1, <2>2
  <1>2. ASSUME NEW k \in 0 .. n - 1, k \in S PROVE k + 1 \in S
    <2>1. PICK f : Is(f, k)  BY <1>2
    <2> DEFINE g == [i \in 0 .. k + 1 |-> IF i <= k THEN f[i] ELSE G[<<k + 1, f[k]>>]]
    <2>2. f[k] \in V /\ G[<<k + 1, f[k]>>] \in V  BY <2>1
    <2>3. g \in [0 .. k + 1 -> V] /\ g[0] = v0  BY <2>1, <2>2
    <2>4. ASSUME NEW i \in 1 .. k + 1 PROVE g[i] = G[<<i, g[i - 1]>>]
      <3>1. g[i - 1] = f[i - 1]  OBVIOUS
      <3>2. CASE i <= k
        <4>1. g[i] = f[i]  BY <3>2
        <4> QED  BY <2>1, <3>1, <3>2, <4>1
      <3>3. CASE i = k + 1
        <4>1. g[i] = G[<<k + 1, f[k]>>] /\ i - 1 = k  BY <3>3
        <4> QED  BY <3>1, <3>3, <4>1
      <3> QED  BY <3>2, <3>3
    <2> HIDE DEF g
    <2>5. Is(g, k + 1)  BY <2>3, <2>4
    <2> QED  BY <2>5
  <1> HIDE DEF S
  <1>3. 0 .. n \subseteq S  BY <1>1, <1>2, Upto
  <1>4. n \in S  BY <1>3
  <1> QED  BY <1>4 DEF S, Runs

\* Whatever goes through the passes of such a loop keeps to V.
LEMMA LoopType ==
  ASSUME NEW V, NEW n \in Nat, NEW c, c = [i \in 0 .. n |-> c[i]], c[0] \in V,
         \A i \in 1 .. n : c[i - 1] \in V => c[i] \in V
  PROVE  c \in [0 .. n -> V]
  <1> DEFINE S == {i \in 0 .. n : c[i] \in V}
  <1>1. 0 \in S  OBVIOUS
  <1>2. ASSUME NEW i \in 0 .. n - 1, i \in S PROVE i + 1 \in S
    <2>1. i + 1 \in 1 .. n /\ (i + 1) - 1 = i  OBVIOUS
    <2> QED  BY <1>2, <2>1
  <1> HIDE DEF S
  <1>3. 0 .. n \subseteq S  BY <1>1, <1>2, Upto
  <1>4. \A i \in 0 .. n : c[i] \in V  BY <1>3 DEF S
  <1> QED  BY <1>4

-----------------------------------------------------------------------------
(* Sequences of whatever elements                                          *)

IsSeq(s) == \E T : s \in Seq(T)

LEMMA SeqIs ==
  ASSUME NEW s, IsSeq(s)
  PROVE  Len(s) \in Nat /\ DOMAIN s = 1 .. Len(s)
  <1>1. PICK T : s \in Seq(T)  BY DEF IsSeq
  <1> QED  BY <1>1

LEMMA TupleIs ==
  ASSUME NEW n \in Nat, NEW f, f = [i \in 1 .. n |-> f[i]]
  PROVE  IsSeq(f) /\ Len(f) = n
  <1> DEFINE T == {f[i] : i \in 1 .. n}
  <1>1. f \in [1 .. n -> T]  OBVIOUS
  <1>2. f \in Seq(T)  BY <1>1
  <1>3. Len(f) = n  BY <1>1, <1>2
  <1> HIDE DEF T
  <1> QED  BY <1>2, <1>3 DEF IsSeq

LEMMA EmptyIs == IsSeq(<<>>) /\ Len(<<>>) = 0
  <1>1. << >> \in Seq({})  OBVIOUS
  <1> QED  BY <1>1 DEF IsSeq

LEMMA SameSeq ==
  ASSUME NEW s, NEW t, IsSeq(s), IsSeq(t), Len(s) = Len(t),
         \A i \in 1 .. Len(s) : s[i] = t[i]
  PROVE  s = t
  <1>1. PICK T : s \in Seq(T)  BY DEF IsSeq
  <1>2. PICK U : t \in Seq(U)  BY DEF IsSeq
  <1>3. s = [i \in 1 .. Len(s) |-> s[i]]  BY <1>1
  <1>4. t = [i \in 1 .. Len(t) |-> t[i]]  BY <1>2
  <1> QED  BY <1>3, <1>4

LEMMA Concat ==
  ASSUME NEW s, NEW t, IsSeq(s), IsSeq(t)
  PROVE  /\ IsSeq(s \o t) /\ Len(s \o t) = Len(s) + Len(t)
         /\ \A i \in 1 .. Len(s) : (s \o t)[i] = s[i]
         /\ \A i \in Int : Len(s) < i /\ i <= Len(s) + Len(t) =>
              (s \o t)[i] = t[i - Len(s)]
  <1>1. PICK T : s \in Seq(T)  BY DEF IsSeq
  <1>2. PICK U : t \in Seq(U)  BY DEF IsSeq
  <1>3. s \in Seq(T \cup U)
    <2>1. s \in [1 .. Len(s) -> T \cup U]  BY <1>1
    <2> QED  BY <1>1, <2>1
  <1>4. t \in Seq(T \cup U)
    <2>1. t \in [1 .. Len(t) -> T \cup U]  BY <1>2
    <2> QED  BY <1>2, <2>1
  <1>5. s \o t \in Seq(T \cup U)  BY <1>3, <1>4
  <1> QED  BY <1>3, <1>4, <1>5 DEF IsSeq

LEMMA ConcatAssoc ==
  ASSUME NEW s, NEW t, NEW u, IsSeq(s), IsSeq(t), IsSeq(u)
  PROVE  (s \o t) \o u = s \o (t \o u)
  <1> DEFINE l == (s \o t) \o u
             r == s \o (t \o u)
  <1>0. Len(s) \in Nat /\ Len(t) \in Nat /\ Len(u) \in Nat  BY SeqIs
  <1>1. /\ IsSeq(s \o t) /\ Len(s \o t) = Len(s) + Len(t)
        /\ IsSeq(t \o u) /\ Len(t \o u) = Len(t) + Len(u)
    BY Concat
  <1>2. IsSeq(l) /\ IsSeq(r) /\ Len(l) = Len(r) /\ Len(l) = Len(s) + Len(t) + Len(u)
    BY <1>0, <1>1, Concat
  <1>3. ASSUME NEW i \in 1 .. Len(l) PROVE l[i] = r[i]
    <2>1. CASE i <= Len(s)
      <3>1. l[i] = (s \o t)[i]  BY <1>0, <1>1, <2>1, Concat
      <3>2. (s \o t)[i] = s[i]  BY <1>0, <2>1, Concat
      <3>3. r[i] = s[i]  BY <1>0, <1>1, <2>1, Concat
      <3> QED  BY <3>1, <3>2, <3>3
    <2>2. CASE Len(s) < i /\ i <= Len(s) + Len(t)
      <3>1. l[i] = (s \o t)[i]  BY <1>0, <1>1, <2>2, Concat
      <3>2. (s \o t)[i] = t[i - Len(s)]  BY <1>0, <2>2, Concat
      <3>3. r[i] = (t \o u)[i - Len(s)]  BY <1>0, <1>1, <2>2, Concat
      <3>4. (t \o u)[i - Len(s)] = t[i - Len(s)]  BY <1>0, <2>2, Concat
      <3> QED  BY <3>1, <3>2, <3>3, <3>4
    <2>3. CASE Len(s) + Len(t) < i
      <3>1. l[i] = u[i - (Len(s) + Len(t))]  BY <1>0, <1>1, <1>2, <2>3, Concat
      <3>2. r[i] = (t \o u)[i - Len(s)]  BY <1>0, <1>1, <1>2, <2>3, Concat
      <3>3. (t \o u)[i - Len(s)] = u[(i - Len(s)) - Len(t)]
        BY <1>0, <1>1, <1>2, <2>3, Concat
      <3>4. (i - Len(s)) - Len(t) = i - (Len(s) + Len(t))  BY <1>0, <1>2
      <3> QED  BY <3>1, <3>2, <3>3, <3>4
    <2> QED  BY <1>0, <1>2, <2>1, <2>2, <2>3
  <1> QED  BY <1>2, <1>3, SameSeq

LEMMA SliceIs ==
  ASSUME NEW s, IsSeq(s), NEW f \in Nat, NEW n \in Nat, f + n <= Len(s)
  PROVE  /\ IsSeq(Slice(s, f, n)) /\ Len(Slice(s, f, n)) = n
         /\ \A i \in 1 .. n : Slice(s, f, n)[i] = s[f + i]
  <1>1. PICK T : s \in Seq(T)  BY DEF IsSeq
  <1>2. Slice(s, f, n) \in Seq(T)  BY <1>1 DEF Slice
  <1>3. Len(Slice(s, f, n)) = n  BY <1>1 DEF Slice
  <1>4. \A i \in 1 .. n : Slice(s, f, n)[i] = s[f + i]  BY <1>1 DEF Slice
  <1> QED  BY <1>2, <1>3, <1>4 DEF IsSeq

\* The n elements of s after the first f are those of t after the first g.
Agree(s, f, t, g, n) == \A i \in 1 .. n : s[f + i] = t[g + i]

LEMMA SameSlice ==
  ASSUME NEW s, IsSeq(s), NEW t, IsSeq(t), NEW f \in Nat, NEW g \in Nat,
         NEW n \in Nat, f + n <= Len(s), g + n <= Len(t), Agree(s, f, t, g, n)
  PROVE  Slice(s, f, n) = Slice(t, g, n)
  <1>1. /\ IsSeq(Slice(s, f, n)) /\ Len(Slice(s, f, n)) = n
        /\ \A i \in 1 .. n : Slice(s, f, n)[i] = s[f + i]
    BY SliceIs
  <1>2. /\ IsSeq(Slice(t, g, n)) /\ Len(Slice(t, g, n)) = n
        /\ \A i \in 1 .. n : Slice(t, g, n)[i] = t[g + i]
    BY SliceIs
  <1> QED  BY <1>1, <1>2, SameSeq DEF Agree

LEMMA RestIs ==
  ASSUME NEW s, IsSeq(s), NEW n \in Nat \ {0}
  PROVE  /\ IsSeq(Rest(s, n)) /\ Len(Rest(s, n)) = Len(s) % n
         /\ \A i \in 1 .. (Len(s) % n) :
              Rest(s, n)[i] = s[(Len(s) \div n) * n + i]
  <1>1. Len(s) \in Nat  BY SeqIs
  <1>2. /\ Len(s) \div n \in Nat /\ Len(s) % n \in 0 .. n - 1
        /\ Len(s) = (Len(s) \div n) * n + (Len(s) % n)
    BY <1>1, DivMod
  <1> DEFINE f == (Len(s) \div n) * n
             r == Len(s) % n
  <1>3. f \in Nat /\ r \in Nat /\ f + r <= Len(s)  BY <1>2
  <1> HIDE DEF f, r
  <1>4. /\ IsSeq(Slice(s, f, r)) /\ Len(Slice(s, f, r)) = r
        /\ \A i \in 1 .. r : Slice(s, f, r)[i] = s[f + i]
    BY <1>3, SliceIs
  <1> QED  BY <1>4 DEF Rest, f, r

LEMMA BlocksIs ==
  ASSUME NEW s, IsSeq(s), NEW n \in Nat \ {0}
  PROVE  /\ Len(s) \div n \in Nat
         /\ IsSeq(Blocks(s, n)) /\ Len(Blocks(s, n)) = Len(s) \div n
         /\ \A k \in 1 .. Len(s) \div n :
              /\ (k - 1) * n \in Nat /\ (k - 1) * n + n <= Len(s)
              /\ Blocks(s, n)[k] = Slice(s, (k - 1) * n, n)
  <1>1. Len(s) \in Nat  BY SeqIs
  <1>2. /\ Len(s) \div n \in Nat /\ Len(s) % n \in 0 .. n - 1
        /\ Len(s) = (Len(s) \div n) * n + (Len(s) % n)
    BY <1>1, DivMod
  <1> DEFINE q == Len(s) \div n
             b == Blocks(s, n)
  <1>3. b = [k \in 1 .. q |-> b[k]]  BY DEF Blocks
  <1>4. \A k \in 1 .. q : b[k] = Slice(s, (k - 1) * n, n)  BY DEF Blocks
  <1> HIDE DEF b
  <1>5. IsSeq(b) /\ Len(b) = q  BY <1>2, <1>3, TupleIs
  <1>6. ASSUME NEW k \in 1 .. q
        PROVE  (k - 1) * n \in Nat /\ (k - 1) * n + n <= Len(s)
    <2>1. k * n <= q * n  BY <1>2
    <2> QED  BY <1>2, <2>1
  <1> QED  BY <1>2, <1>4, <1>5, <1>6 DEF b

\* What is fed in after a partial block completes it: the blocks of the whole
\* are those there were and those of the partial block with the new bytes.
LEMMA BlocksConcat ==
  ASSUME NEW s, IsSeq(s), NEW d, IsSeq(d), NEW n \in Nat \ {0}
  PROVE  /\ Blocks(s \o d, n) = Blocks(s, n) \o Blocks(Rest(s, n) \o d, n)
         /\ Rest(s \o d, n) = Rest(Rest(s, n) \o d, n)
  <1> DEFINE q == Len(s) \div n
             r == Len(s) % n
             b == Rest(s, n) \o d
             p == Len(b) \div n
             t == Len(b) % n
             w == s \o d
  <1>1. Len(s) \in Nat /\ Len(d) \in Nat  BY SeqIs
  <1>2. q \in Nat /\ r \in 0 .. n - 1 /\ Len(s) = q * n + r  BY <1>1, DivMod
  <1>3. /\ IsSeq(Rest(s, n)) /\ Len(Rest(s, n)) = r
        /\ \A i \in 1 .. r : Rest(s, n)[i] = s[q * n + i]
    BY RestIs
  <1> HIDE DEF q, r
  <1>4. IsSeq(b) /\ Len(b) = r + Len(d)  BY <1>3, Concat
  <1>5. IsSeq(w) /\ Len(w) = Len(s) + Len(d)  BY Concat
  <1> HIDE DEF b, w
  <1>6. Len(w) = q * n + Len(b)  BY <1>1, <1>2, <1>4, <1>5
  <1>7. Len(b) \in Nat  BY <1>4, SeqIs
  <1>8. Len(w) \div n = q + p /\ Len(w) % n = t
    <2>1. /\ (q * n + Len(b)) \div n = q + Len(b) \div n
          /\ (q * n + Len(b)) % n = Len(b) % n
      BY <1>2, <1>7, DivModAdd
    <2> QED  BY <1>6, <2>1
  <1>9. p \in Nat /\ t \in 0 .. n - 1 /\ Len(b) = p * n + t  BY <1>7, DivMod
  <1>10. q * n \in Nat /\ p * n \in Nat  BY <1>2, <1>9
  <1> HIDE DEF p, t
  <1>11. ASSUME NEW i \in 1 .. Len(b) PROVE w[q * n + i] = b[i]
    <2>1. CASE i <= r
      <3>1. b[i] = Rest(s, n)[i]  BY <1>2, <1>3, <2>1, Concat DEF b
      <3>2. q * n + i \in 1 .. Len(s)  BY <1>2, <1>10, <2>1
      <3>3. w[q * n + i] = s[q * n + i]  BY <3>2, Concat DEF w
      <3> QED  BY <1>3, <2>1, <3>1, <3>3
    <2>2. CASE r < i
      <3>1. b[i] = d[i - r]  BY <1>2, <1>3, <1>4, <1>7, <2>2, Concat DEF b
      <3>2. /\ q * n + i \in Int /\ Len(s) < q * n + i
            /\ q * n + i <= Len(s) + Len(d)
        BY <1>1, <1>2, <1>4, <1>10, <2>2
      <3>3. w[q * n + i] = d[(q * n + i) - Len(s)]  BY <3>2, Concat DEF w
      <3>4. (q * n + i) - Len(s) = i - r  BY <1>2, <1>10
      <3> QED  BY <3>1, <3>3, <3>4
    <2> QED  BY <1>2, <2>1, <2>2
  <1>12. Rest(w, n) = Rest(b, n)
    <2>1. (q + p) * n = q * n + p * n  BY <1>2, <1>9
    <2>2. Rest(w, n) = Slice(w, q * n + p * n, t)  BY <1>8, <2>1 DEF Rest
    <2>3. Rest(b, n) = Slice(b, p * n, t)  BY DEF Rest, p, t
    <2> DEFINE f == q * n + p * n
               g == p * n
    <2>4. Agree(w, f, b, g, t)
      <3> SUFFICES ASSUME NEW i \in 1 .. t PROVE w[f + i] = b[g + i]
        BY DEF Agree
      <3>1. p * n + i \in 1 .. Len(b)  BY <1>9, <1>10
      <3>2. w[q * n + (p * n + i)] = b[p * n + i]  BY <1>11, <3>1
      <3>3. q * n + (p * n + i) = (q * n + p * n) + i  BY <1>10
      <3> QED  BY <3>2, <3>3
    <2>5. t \in Nat /\ f \in Nat /\ f + t <= Len(w)  BY <1>6, <1>9, <1>10
    <2>6. g \in Nat /\ g + t <= Len(b)  BY <1>9, <1>10
    <2> HIDE DEF f, g
    <2>7. Slice(w, f, t) = Slice(b, g, t)
      BY <1>4, <1>5, <2>4, <2>5, <2>6, SameSlice
    <2> QED  BY <2>2, <2>3, <2>7 DEF f, g
  <1>13. Blocks(w, n) = Blocks(s, n) \o Blocks(b, n)
    <2>1. /\ IsSeq(Blocks(w, n)) /\ Len(Blocks(w, n)) = q + p
          /\ \A k \in 1 .. q + p :
               /\ (k - 1) * n \in Nat /\ (k - 1) * n + n <= Len(w)
               /\ Blocks(w, n)[k] = Slice(w, (k - 1) * n, n)
      BY <1>5, <1>8, BlocksIs
    <2>2. /\ IsSeq(Blocks(s, n)) /\ Len(Blocks(s, n)) = q
          /\ \A k \in 1 .. q :
               /\ (k - 1) * n \in Nat /\ (k - 1) * n + n <= Len(s)
               /\ Blocks(s, n)[k] = Slice(s, (k - 1) * n, n)
      BY BlocksIs DEF q
    <2>3. /\ IsSeq(Blocks(b, n)) /\ Len(Blocks(b, n)) = p
          /\ \A k \in 1 .. p :
               /\ (k - 1) * n \in Nat /\ (k - 1) * n + n <= Len(b)
               /\ Blocks(b, n)[k] = Slice(b, (k - 1) * n, n)
      BY <1>4, BlocksIs DEF p
    <2> DEFINE c == Blocks(s, n) \o Blocks(b, n)
    <2>4. IsSeq(c) /\ Len(c) = q + p  BY <2>2, <2>3, Concat
    <2>5. ASSUME NEW k \in 1 .. q + p PROVE Blocks(w, n)[k] = c[k]
      <3>1. CASE k <= q
        <4>1. k \in 1 .. q  BY <1>2, <1>9, <3>1
        <4>2. c[k] = Slice(s, (k - 1) * n, n)  BY <2>2, <2>3, <4>1, Concat
        <4>3. (k - 1) * n \in Nat /\ (k - 1) * n + n <= Len(s)  BY <2>2, <4>1
        <4> DEFINE f == (k - 1) * n
        <4> HIDE DEF f
        <4>4. Agree(w, f, s, f, n)
          <5> SUFFICES ASSUME NEW i \in 1 .. n PROVE w[f + i] = s[f + i]
            BY DEF Agree
          <5>1. f + i \in 1 .. Len(s)  BY <1>1, <4>3 DEF f
          <5> QED  BY <5>1, Concat DEF w
        <4>5. Slice(w, f, n) = Slice(s, f, n)
          <5>1. /\ f \in Nat /\ n \in Nat
                /\ f + n <= Len(s) /\ f + n <= Len(w)
            BY <1>1, <1>5, <4>3 DEF f
          <5> QED  BY <1>5, <4>4, <5>1, SameSlice
        <4> QED  BY <2>1, <4>2, <4>5 DEF f
      <3>2. CASE q < k
        <4> DEFINE j == k - q
                   g == (j - 1) * n
        <4>1. j \in 1 .. p  BY <1>2, <1>9, <3>2
        <4>2. c[k] = Blocks(b, n)[j]
          <5>1. k \in Int /\ q < k /\ k <= q + p  BY <1>2, <1>9, <3>2
          <5> DEFINE S == Blocks(s, n)
                     B == Blocks(b, n)
          <5>2. IsSeq(S) /\ Len(S) = q /\ IsSeq(B) /\ Len(B) = p
            BY <2>2, <2>3
          <5> HIDE DEF S, B, j
          <5>3. \A i \in Int : Len(S) < i /\ i <= Len(S) + Len(B) =>
                  (S \o B)[i] = B[i - Len(S)]
            BY <5>2, Concat
          <5>4. (S \o B)[k] = B[k - q]  BY <5>1, <5>2, <5>3
          <5> QED  BY <5>4 DEF S, B, j
        <4>3. c[k] = Slice(b, g, n) /\ g \in Nat /\ g + n <= Len(b)
          BY <2>3, <4>1, <4>2
        <4>4. (k - 1) * n = q * n + g  BY <1>2, <4>1
        <4> HIDE DEF g
        <4> DEFINE f == q * n + g
        <4>5. Agree(w, f, b, g, n)
          <5> SUFFICES ASSUME NEW i \in 1 .. n PROVE w[f + i] = b[g + i]
            BY DEF Agree
          <5>1. g + i \in 1 .. Len(b)  BY <1>7, <4>3
          <5>2. w[q * n + (g + i)] = b[g + i]  BY <1>11, <5>1
          <5>3. q * n + (g + i) = (q * n + g) + i  BY <1>10, <4>3
          <5> QED  BY <5>2, <5>3
        <4>6. f \in Nat /\ n \in Nat /\ f + n <= Len(w)
          BY <1>6, <1>7, <1>10, <4>3
        <4> HIDE DEF f
        <4>7. Slice(w, f, n) = Slice(b, g, n)
          BY <1>4, <1>5, <4>3, <4>5, <4>6, SameSlice
        <4> QED  BY <2>1, <4>3, <4>4, <4>7 DEF f
      <3>3. k <= q \/ q < k  BY <1>2, <1>9
      <3> QED  BY <3>1, <3>2, <3>3
    <2> HIDE DEF c
    <2>6. Blocks(w, n) = c  BY <2>1, <2>4, <2>5, SameSeq
    <2> QED  BY <2>6 DEF c
  <1> QED  BY <1>12, <1>13 DEF w, b

LEMMA BlocksOfEmpty ==
  ASSUME NEW n \in Nat \ {0}
  PROVE  Blocks(<<>>, n) = <<>> /\ Rest(<<>>, n) = <<>>
  <1>1. 0 \div n = 0 /\ 0 % n = 0
    <2>1. (0 * n + 0) \div n = 0 /\ (0 * n + 0) % n = 0  BY DivModIs
    <2>2. 0 * n + 0 = 0  OBVIOUS
    <2> QED  BY <2>1, <2>2
  <1>2. IsSeq(Blocks(<<>>, n)) /\ Len(Blocks(<<>>, n)) = 0
    BY <1>1, EmptyIs, BlocksIs
  <1>3. IsSeq(Rest(<<>>, n)) /\ Len(Rest(<<>>, n)) = 0
    BY <1>1, EmptyIs, RestIs
  <1> QED  BY <1>2, <1>3, EmptyIs, SameSeq

\* A partial block that is not filled leaves the blocks as they were.
LEMMA NoBlocks ==
  ASSUME NEW s, IsSeq(s), NEW n \in Nat \ {0}, Len(s) < n
  PROVE  Blocks(s, n) = <<>>
  <1>1. Len(s) \in 0 .. n - 1  BY SeqIs
  <1>2. Len(s) \div n = 0
    <2>1. (0 * n + Len(s)) \div n = 0  BY <1>1, DivModIs
    <2>2. 0 * n + Len(s) = Len(s)  BY <1>1
    <2> QED  BY <2>1, <2>2
  <1>3. IsSeq(Blocks(s, n)) /\ Len(Blocks(s, n)) = 0  BY <1>2, BlocksIs
  <1> QED  BY <1>3, EmptyIs, SameSeq

\* Whole blocks leave nothing over.
LEMMA NoRest ==
  ASSUME NEW s, IsSeq(s), NEW n \in Nat \ {0}, Len(s) % n = 0
  PROVE  Rest(s, n) = <<>>
  <1>1. IsSeq(Rest(s, n)) /\ Len(Rest(s, n)) = 0  BY RestIs
  <1> QED  BY <1>1, EmptyIs, SameSeq

LEMMA ConcatEmpty ==
  ASSUME NEW s, IsSeq(s)
  PROVE  s \o <<>> = s /\ <<>> \o s = s
  <1>1. PICK T : s \in Seq(T)  BY DEF IsSeq
  <1> QED  BY <1>1

-----------------------------------------------------------------------------
(* SHA-256                                                                 *)

BlockLenPositive == BlockLen \in Nat \ {0} /\ LenBytes \in 1 .. BlockLen - 1

LEMMA BlockLenIs == BlockLenPositive
  BY DmaAssumption DEF BlockLenPositive

LEMMA MarkedIs ==
  ASSUME NEW n \in Nat
  PROVE  IsSeq(Marked(n)) /\ Len(Marked(n)) = n
  <1> DEFINE f == Marked(n)
  <1>1. f = [i \in 1 .. n |-> f[i]]  BY DEF Marked
  <1> HIDE DEF f
  <1>2. IsSeq(f) /\ Len(f) = n  BY <1>1, TupleIs
  <1> QED  BY <1>2 DEF f

LEMMA LenFieldIs ==
  ASSUME NEW n
  PROVE  IsSeq(LenField(n)) /\ Len(LenField(n)) = LenBytes
  <1> DEFINE f == LenField(n)
  <1>1. f = [i \in 1 .. LenBytes |-> f[i]]  BY DEF LenField
  <1> HIDE DEF f
  <1>2. LenBytes \in Nat  BY BlockLenIs DEF BlockLenPositive
  <1>3. IsSeq(f) /\ Len(f) = LenBytes  BY <1>1, <1>2, TupleIs
  <1> QED  BY <1>3 DEF f

ShaFields == {"h", "block", "bytes", "active", "finalized", "regH", "curLen"}

\* A hash that runs and has read the bytes m: its state, the count and the
\* registers.
Running(s, m) ==
  /\ DOMAIN s = ShaFields /\ IsSeq(m)
  /\ s.active = TRUE /\ s.finalized = FALSE
  /\ s.h = Blocks(m, BlockLen) /\ s.block = Rest(m, BlockLen)
  /\ s.bytes = Len(m) /\ s.curLen = Len(m) /\ s.regH = s.h

\* One that has ended after the bytes m.
Ended(s, m) ==
  /\ DOMAIN s = ShaFields /\ IsSeq(m)
  /\ s.active = TRUE /\ s.finalized = TRUE
  /\ s.regH = Blocks(Padded(m), BlockLen) /\ s.curLen = Len(m)

LEMMA ResetRuns == Running(sha256_reset, <<>>)
  <1>1. Blocks(<<>>, BlockLen) = <<>> /\ Rest(<<>>, BlockLen) = <<>>
    BY BlockLenIs, BlocksOfEmpty DEF BlockLenPositive
  <1> QED  BY <1>1, EmptyIs DEF Running, sha256_reset, IdleSha, ShaFields

\* sha256_update, whatever the cut between two transfers.
LEMMA UpdateRuns ==
  ASSUME NEW s, NEW m, Running(s, m), NEW d, IsSeq(d)
  PROVE  Running(sha256_update(s, d), m \o d)
  <1> DEFINE buffer == s.block \o d
             h      == s.h \o Blocks(buffer, BlockLen)
             u      == [s EXCEPT !.h = h, !.block = Rest(buffer, BlockLen),
                          !.bytes = @ + Len(d), !.curLen = s.bytes + Len(d),
                          !.regH = IF Len(buffer) >= BlockLen THEN h ELSE @]
  <1>0. BlockLen \in Nat \ {0}  BY BlockLenIs DEF BlockLenPositive
  <1>1. sha256_update(s, d) = u  BY DEF sha256_update, Running
  <1>2. IsSeq(m) /\ s.block = Rest(m, BlockLen) /\ s.h = Blocks(m, BlockLen)
    BY DEF Running
  <1>3. /\ h = Blocks(m \o d, BlockLen)
        /\ Rest(buffer, BlockLen) = Rest(m \o d, BlockLen)
    BY <1>0, <1>2, BlocksConcat
  <1>4. IsSeq(m \o d) /\ Len(m \o d) = Len(m) + Len(d)  BY <1>2, Concat
  <1>5. IsSeq(s.block)  BY <1>0, <1>2, RestIs
  <1>6. IsSeq(buffer) /\ IsSeq(s.h)  BY <1>0, <1>2, <1>5, Concat, BlocksIs
  <1>7. (IF Len(buffer) >= BlockLen THEN h ELSE s.regH) = h
    <2>1. CASE Len(buffer) >= BlockLen  BY <2>1
    <2>2. CASE ~ (Len(buffer) >= BlockLen)
      <3>1. Len(buffer) \in Nat  BY <1>6, SeqIs
      <3>2. Len(buffer) < BlockLen  BY <1>0, <2>2, <3>1
      <3>3. Blocks(buffer, BlockLen) = <<>>  BY <1>0, <1>6, <3>2, NoBlocks
      <3>4. h = s.h  BY <1>6, <3>3, ConcatEmpty
      <3> QED  BY <2>2, <3>4 DEF Running
    <2> QED  BY <2>1, <2>2
  <1> HIDE DEF buffer, h
  <1>8. /\ DOMAIN u = ShaFields
        /\ u.active = TRUE /\ u.finalized = FALSE
        /\ u.h = h /\ u.block = Rest(buffer, BlockLen)
        /\ u.bytes = Len(m) + Len(d) /\ u.curLen = Len(m) + Len(d)
        /\ u.regH = h
    BY <1>7 DEF Running, ShaFields
  <1> QED  BY <1>1, <1>3, <1>4, <1>8 DEF Running

\* The number of zeros that fill whole blocks is the one that sha256_finish
\* counts from the partial block.
LEMMA PaddedIs ==
  ASSUME NEW m, IsSeq(m), NEW pad \in 1 .. BlockLen, NEW k \in 1 .. 2,
         (Len(m) % BlockLen) + pad + LenBytes = k * BlockLen
  PROVE  Padded(m) = (m \o Marked(pad)) \o LenField(Len(m))
  <1> DEFINE r == Len(m) % BlockLen
             q == Len(m) \div BlockLen
             Fills(z) == (Len(m) + 1 + z + LenBytes) % BlockLen = 0
  <1>0. BlockLen \in Nat \ {0} /\ LenBytes \in 1 .. BlockLen - 1
    BY BlockLenIs DEF BlockLenPositive
  <1>1. Len(m) \in Nat  BY SeqIs
  <1>2. q \in Nat /\ r \in 0 .. BlockLen - 1 /\ Len(m) = q * BlockLen + r
    BY <1>0, <1>1, DivMod
  <1>p. r + pad + LenBytes = k * BlockLen  OBVIOUS
  <1> HIDE DEF r, q
  <1>3. Fills(pad - 1)
    <2>1. Len(m) + 1 + (pad - 1) + LenBytes = (q + k) * BlockLen + 0
      BY <1>0, <1>1, <1>2, <1>p
    <2>2. q + k \in Nat /\ 0 \in 0 .. BlockLen - 1  BY <1>0, <1>2
    <2>3. ((q + k) * BlockLen + 0) % BlockLen = 0  BY <1>0, <2>2, DivModIs
    <2> QED  BY <2>1, <2>3
  <1>4. ASSUME NEW z \in 0 .. BlockLen - 1, Fills(z) PROVE z = pad - 1
    <2> DEFINE x == Len(m) + 1 + z + LenBytes
               p == x \div BlockLen
    <2>1. x \in Nat  BY <1>0, <1>1
    <2>2. p \in Nat /\ x = p * BlockLen + 0  BY <1>0, <1>4, <2>1, DivMod
    <2> HIDE DEF p
    <2>3. q * BlockLen + r + 1 + z + LenBytes = p * BlockLen
      BY <1>0, <1>2, <2>2
    <2>4. z - (pad - 1) = (p - q - k) * BlockLen
      BY <1>0, <1>2, <1>p, <2>2, <2>3
    <2>5. p - q - k \in Int  BY <1>2, <2>2
    <2>6. p - q - k >= 1 => (p - q - k) * BlockLen >= BlockLen  BY <1>0, <2>5
    <2>7. p - q - k <= -1 => (p - q - k) * BlockLen <= -BlockLen  BY <1>0, <2>5
    <2>8. p - q - k = 0  BY <1>0, <2>4, <2>5, <2>6, <2>7
    <2>9. (p - q - k) * BlockLen = 0  BY <1>0, <2>8
    <2> QED  BY <2>4, <2>9
  <1> DEFINE zeros == CHOOSE z \in 0 .. BlockLen - 1 : Fills(z)
  <1>5. pad - 1 \in 0 .. BlockLen - 1  BY <1>0
  <1>6. zeros \in 0 .. BlockLen - 1 /\ Fills(zeros)  BY <1>3, <1>5
  <1>7. zeros = pad - 1  BY <1>4, <1>6
  <1>8. Padded(m) = m \o Marked(1 + zeros) \o LenField(Len(m))  BY DEF Padded
  <1> HIDE DEF zeros
  <1>9. 1 + zeros = pad  BY <1>0, <1>7
  <1> QED  BY <1>8, <1>9

LEMMA FinishEnds ==
  ASSUME NEW s, NEW m, Running(s, m)
  PROVE  Ended(sha256_finish(s), m)
  <1> DEFINE room == BlockLen - LenBytes
             pad  == IF Len(s.block) < room THEN room - Len(s.block)
                     ELSE room + BlockLen - Len(s.block)
             one  == sha256_update(s, Marked(pad))
             end  == sha256_update(one, LenField(s.bytes))
             f    == [end EXCEPT !.regH = end.h, !.curLen = s.bytes,
                                 !.finalized = TRUE]
  <1>0. BlockLen \in Nat \ {0} /\ LenBytes \in 1 .. BlockLen - 1
    BY BlockLenIs DEF BlockLenPositive
  <1>1. sha256_finish(s) = f  BY DEF sha256_finish, Running
  <1>2. IsSeq(m) /\ s.block = Rest(m, BlockLen) /\ s.bytes = Len(m)
    BY DEF Running
  <1>3. Len(s.block) = Len(m) % BlockLen  BY <1>0, <1>2, RestIs
  <1>4. Len(m) % BlockLen \in 0 .. BlockLen - 1  BY <1>0, <1>2, SeqIs, DivMod
  <1>5. /\ pad \in 1 .. BlockLen
        /\ \E k \in 1 .. 2 :
             (Len(m) % BlockLen) + pad + LenBytes = k * BlockLen
    <2>1. CASE Len(s.block) < room
      <3>1. pad \in 1 .. BlockLen  BY <1>0, <1>3, <1>4, <2>1
      <3>2. (Len(m) % BlockLen) + pad + LenBytes = 1 * BlockLen
        BY <1>0, <1>3, <1>4, <2>1
      <3> QED  BY <3>1, <3>2
    <2>2. CASE ~ (Len(s.block) < room)
      <3>1. pad \in 1 .. BlockLen  BY <1>0, <1>3, <1>4, <2>2
      <3>2. (Len(m) % BlockLen) + pad + LenBytes = 2 * BlockLen
        BY <1>0, <1>3, <1>4, <2>2
      <3> QED  BY <3>1, <3>2
    <2> QED  BY <2>1, <2>2
  <1> HIDE DEF pad
  <1>6. PICK k \in 1 .. 2 : (Len(m) % BlockLen) + pad + LenBytes = k * BlockLen
    BY <1>5
  <1>7. Padded(m) = (m \o Marked(pad)) \o LenField(Len(m))
    BY <1>2, <1>5, <1>6, PaddedIs
  <1>8. pad \in Nat  BY <1>0, <1>5
  <1>9. Running(one, m \o Marked(pad))  BY <1>8, MarkedIs, UpdateRuns
  <1> HIDE DEF one
  <1>10. Running(end, Padded(m))  BY <1>2, <1>7, <1>9, LenFieldIs, UpdateRuns
  <1> HIDE DEF end
  <1>11. /\ DOMAIN f = ShaFields /\ f.active = TRUE /\ f.finalized = TRUE
         /\ f.regH = end.h /\ f.curLen = Len(m)
    BY <1>2, <1>10 DEF Running, ShaFields
  <1> QED  BY <1>1, <1>2, <1>10, <1>11 DEF Running, Ended

-----------------------------------------------------------------------------
(* What the DMA reads                                                      *)

LEMMA SourceIs ==
  ASSUME NEW t \in Sources \cup Targets
  PROVE  /\ t[1] \in Memory /\ t[1] \in Nat /\ t[2] \in Nat
         /\ Span(t[1], t[2]) \subseteq Memory
  BY DmaAssumption DEF Span

LEMMA ChunksIs ==
  ASSUME NEW n \in Nat
  PROVE  Chunks(n) \in Nat
  <1>1. ChunkLen \in Nat \ {0}  BY DmaAssumption
  <1>2. n + ChunkLen - 1 \in Nat  BY <1>1
  <1> QED  BY <1>1, <1>2, DivMod DEF Chunks

\* A sequence, also when a chunk fails.
LEMMA ReadIs ==
  ASSUME NEW a \in Nat, NEW n \in Nat
  PROVE  IsSeq(mem_read(a, n).data)
  <1> DEFINE bad == {j \in 1 .. Chunks(n) :
                       ~ Span(ChunkAt(a, j), ChunkSize(n, j)) \subseteq mapped}
             least == CHOOSE j \in bad : \A i \in bad : j <= i
             got == IF bad = {} THEN n ELSE (least - 1) * ChunkLen
             d   == mem_read(a, n).data
  <1>1. ChunkLen \in Nat \ {0}  BY DmaAssumption
  <1>2. got \in Nat
    <2>1. CASE bad # {}
      <3>1. bad \subseteq Nat  BY ChunksIs
      <3>2. \E j \in bad : \A i \in bad : j <= i  BY <2>1, <3>1, LeastExists
      <3>3. least \in bad  BY <3>2
      <3>4. least \in 1 .. Chunks(n)  BY <3>3
      <3> HIDE DEF least, bad
      <3>5. least - 1 \in Nat  BY <3>4, ChunksIs
      <3>6. (least - 1) * ChunkLen \in Nat  BY <1>1, <3>5
      <3> QED  BY <2>1, <3>6
    <2> QED  BY <2>1
  <1>3. d = [i \in 1 .. got |-> mem[a + i - 1]]  BY DEF mem_read
  <1> HIDE DEF got, d
  <1>4. d = [i \in 1 .. got |-> d[i]]  BY <1>3
  <1>5. IsSeq(d)  BY <1>2, <1>4, TupleIs
  <1> QED  BY <1>5 DEF d

-----------------------------------------------------------------------------
(* The hash                                                                *)

AskedFields == {"msg", "tagged", "tagKey", "ctr0", "pos", "last"}

\* What a driver has saved is the state between two blocks of its message.
SavedInv ==
  saved.taken =>
    /\ IsSeq(saved.msg) /\ Len(saved.msg) % BlockLen = 0
    /\ saved.h = Blocks(saved.msg, BlockLen) /\ saved.len = Len(saved.msg)

HashInv ==
  /\ DOMAIN sha = ShaFields /\ DOMAIN asked = AskedFields
  /\ sha.active \in BOOLEAN /\ sha.finalized \in BOOLEAN
  /\ sha.active /\ ~ sha.finalized => Running(sha, asked.msg)
  /\ sha.finalized => Ended(sha, asked.msg)
  /\ SavedInv

LEMMA HashInit == DmaInit => HashInv
  BY DEF DmaInit, HashInv, SavedInv, IdleSha, ShaFields, NothingAsked,
         AskedFields, NoState

\* Steps that leave the hash and its message alone.
LEMMA HashKept ==
  ASSUME HashInv, UNCHANGED <<sha, saved>>, asked'.msg = asked.msg,
         DOMAIN asked' = AskedFields
  PROVE  HashInv'
  BY DEF HashInv, SavedInv, Running, Ended

LEMMA HashInputInv ==
  ASSUME HashInv, NEW a \in Nat, NEW n \in Nat, sha.active, ~ sha.finalized,
         hash_dma_input(a, n), UNCHANGED saved
  PROVE  HashInv'
  <1> DEFINE r == mem_read(a, n)
             s == sha256_update(sha, r.data)
             m == asked.msg \o r.data
  <1>1. Running(sha, asked.msg)  BY DEF HashInv
  <1>2. Running(s, m)  BY <1>1, ReadIs, UpdateRuns
  <1>3. asked'.msg = m /\ DOMAIN asked' = AskedFields
    BY DEF hash_dma_input, HashInv, AskedFields
  <1>4. SavedInv'  BY DEF HashInv, SavedInv
  <1>5. sha' = IF r.ok /\ autoPad THEN sha256_finish(s) ELSE s
    BY DEF hash_dma_input
  <1> HIDE DEF s, m, r
  <1>6. CASE r.ok /\ autoPad
    <2>1. Ended(sha', asked'.msg)  BY <1>2, <1>3, <1>5, <1>6, FinishEnds
    <2> QED  BY <1>3, <1>4, <2>1 DEF HashInv, Ended
  <1>7. CASE ~ (r.ok /\ autoPad)
    <2>1. Running(sha', asked'.msg)  BY <1>2, <1>3, <1>5, <1>7
    <2> QED  BY <1>3, <1>4, <2>1 DEF HashInv, Running
  <1> QED  BY <1>6, <1>7

LEMMA HashControlInv ==
  ASSUME HashInv, NEW b \in BOOLEAN, write_HASH_CONTROL(b)
  PROVE  HashInv'
  <1>1. asked'.msg = <<>> /\ DOMAIN asked' = AskedFields
    BY DEF write_HASH_CONTROL, HashInv, AskedFields
  <1>2. SavedInv'  BY DEF write_HASH_CONTROL, HashInv, SavedInv
  <1>3. CASE b
    <2>1. Running(sha', asked'.msg)
      BY <1>1, <1>3, ResetRuns DEF write_HASH_CONTROL
    <2> QED  BY <1>1, <1>2, <2>1 DEF HashInv, Running
  <1>4. CASE ~ b
    <2>1. DOMAIN sha' = ShaFields /\ sha'.active = FALSE /\ sha'.finalized = FALSE
      BY <1>4 DEF write_HASH_CONTROL, HashInv, ShaFields
    <2> QED  BY <1>1, <1>2, <2>1 DEF HashInv
  <1> QED  BY <1>3, <1>4

LEMMA HashPadInv ==
  ASSUME HashInv, write_HASH_PAD_CFG
  PROVE  HashInv'
  <1>u. sha' = sha256_finish(sha) /\ UNCHANGED <<saved, asked>>
    BY DEF write_HASH_PAD_CFG
  <1>1. CASE sha.active /\ ~ sha.finalized
    <2>1. Ended(sha', asked'.msg)  BY <1>u, <1>1, FinishEnds DEF HashInv
    <2> QED  BY <1>u, <2>1 DEF HashInv, Ended, SavedInv
  <1>2. CASE ~ (sha.active /\ ~ sha.finalized)
    <2>1. sha' = sha  BY <1>u, <1>2 DEF sha256_finish
    <2> QED  BY <1>u, <2>1, HashKept DEF HashInv
  <1> QED  BY <1>1, <1>2

LEMMA SaveInv ==
  ASSUME HashInv, Save
  PROVE  HashInv'
  <1>u. UNCHANGED <<sha, asked>>  BY DEF Save
  <1>1. Running(sha, asked.msg)  BY DEF Save, HashInv
  <1>2. SavedInv'  BY <1>1 DEF Save, SavedInv, Running
  <1> QED  BY <1>u, <1>2 DEF HashInv, Running, Ended

LEMMA RestoreInv ==
  ASSUME HashInv, Restore
  PROVE  HashInv'
  <1> DEFINE s == write_HASH_H(sha, saved.h)
  <1>u. /\ saved.taken /\ ~ sha.finalized /\ UNCHANGED saved
        /\ sha' = write_HASH_CUR_LEN(s, saved.len)
        /\ asked' = IF sha.active THEN [asked EXCEPT !.msg = saved.msg] ELSE asked
    BY DEF Restore
  <1>1. SavedInv'  BY <1>u DEF HashInv, SavedInv
  <1>2. /\ DOMAIN sha' = ShaFields /\ sha'.active = sha.active
        /\ sha'.finalized = FALSE
    BY <1>u DEF HashInv, write_HASH_H, write_HASH_CUR_LEN, ShaFields
  <1>3. CASE sha.active
    <2>1. asked'.msg = saved.msg /\ DOMAIN asked' = AskedFields
      BY <1>u, <1>3 DEF HashInv, AskedFields
    <2>2. /\ sha'.h = saved.h /\ sha'.regH = saved.h /\ sha'.block = <<>>
          /\ sha'.bytes = saved.len /\ sha'.curLen = saved.len
      BY <1>u, <1>3 DEF HashInv, write_HASH_H, write_HASH_CUR_LEN, ShaFields
    <2>3. /\ IsSeq(saved.msg) /\ Len(saved.msg) % BlockLen = 0
          /\ saved.h = Blocks(saved.msg, BlockLen) /\ saved.len = Len(saved.msg)
      BY <1>u DEF HashInv, SavedInv
    <2>4. Rest(saved.msg, BlockLen) = <<>>
      BY <2>3, BlockLenIs, NoRest DEF BlockLenPositive
    <2>5. Running(sha', asked'.msg)
      BY <1>2, <1>3, <2>1, <2>2, <2>3, <2>4 DEF Running, HashInv
    <2> QED  BY <1>1, <1>2, <2>1, <2>5 DEF HashInv, Running
  <1>4. CASE ~ sha.active
    BY <1>u, <1>1, <1>2, <1>4 DEF HashInv
  <1> QED  BY <1>3, <1>4

LEMMA HashWriteInv == ASSUME HashInv, HashWrite PROVE HashInv'
  <1>1. ASSUME NEW b \in BOOLEAN, write_HASH_CONTROL(b) PROVE HashInv'
    BY <1>1, HashControlInv
  <1>2. ASSUME NEW b \in BOOLEAN, write_AUTO_HW_PADDING(b) PROVE HashInv'
    BY <1>2, HashKept DEF write_AUTO_HW_PADDING, HashInv
  <1> QED  BY <1>1, <1>2, HashPadInv, SaveInv, RestoreInv DEF HashWrite

\* A transfer, whatever engine it goes through.
LEMMA TransferHashInv ==
  ASSUME HashInv, NEW t \in Sources, write_DIN_SRC_LLI(t[1], t[2])
  PROVE  HashInv'
  <1>1. t[1] \in Nat /\ t[2] \in Nat  BY SourceIs
  <1>u. UNCHANGED saved  BY DEF write_DIN_SRC_LLI
  <1>2. CASE sha.active /\ ~ sha.finalized /\ hash_dma_input(t[1], t[2])
    BY <1>1, <1>2, <1>u, HashInputInv
  <1>3. CASE aes_dma_output(t[1], Least(t[2], dout[2]))
    <2>1. asked'.msg = asked.msg /\ DOMAIN asked' = AskedFields /\ sha' = sha
      BY <1>3 DEF aes_dma_output, HashInv, AskedFields
    <2> QED  BY <1>u, <2>1, HashKept
  <1>4. CASE cmac_dma_input(t[1], t[2])
    <2>1. asked'.msg = asked.msg /\ DOMAIN asked' = AskedFields /\ sha' = sha
      BY <1>4 DEF cmac_dma_input, HashInv, AskedFields
    <2> QED  BY <1>u, <2>1, HashKept
  <1>5. CASE UNCHANGED <<mem, sha, aes, cmac, asked>>
    BY <1>5, <1>u, HashKept DEF HashInv
  <1> QED  BY <1>2, <1>3, <1>4, <1>5 DEF write_DIN_SRC_LLI

LEMMA HashNext == HashInv /\ [Next]_vars => HashInv'
  <1> SUFFICES ASSUME HashInv, [Next]_vars PROVE HashInv'  OBVIOUS
  <1>k. ASSUME UNCHANGED <<sha, saved, asked>> PROVE HashInv'
    BY <1>k, HashKept DEF HashInv
  <1>1. CASE UNCHANGED dmaVars  BY <1>1, <1>k DEF dmaVars
  <1>2. CASE HashWrite  BY <1>2, HashWriteInv
  <1>3. CASE CipherWrite
    <2>1. UNCHANGED <<sha, saved>>
      BY <1>3 DEF CipherWrite, write_AES_CONTROL, write_AES_KEY, write_AES_CTR,
                  write_DOUT_DST_LLI, Refill, AesOnly
    <2>2. asked'.msg = asked.msg /\ DOMAIN asked' = AskedFields
      BY <1>3 DEF CipherWrite, write_AES_CONTROL, write_AES_KEY, write_AES_CTR,
                  write_DOUT_DST_LLI, Refill, AesOnly, HashInv, AskedFields
    <2> QED  BY <2>1, <2>2, HashKept
  <1>4. CASE MacWrite
    <2>1. UNCHANGED <<sha, saved>>
      BY <1>4 DEF MacWrite, write_AES_CONTROL, write_AES_KEY,
                  write_AES_CMAC_INIT, write_AES_REMAINING_BYTES, AesOnly
    <2>2. asked'.msg = asked.msg /\ DOMAIN asked' = AskedFields
      BY <1>4 DEF MacWrite, write_AES_CONTROL, write_AES_KEY, HashInv, AskedFields,
                  write_AES_CMAC_INIT, write_AES_REMAINING_BYTES, AesOnly
    <2> QED  BY <2>1, <2>2, HashKept
  <1>5. CASE Transfer
    <2>1. ASSUME NEW e \in Engines, write_CRYPTO_CTL(e) PROVE HashInv'
      BY <2>1, <1>k DEF write_CRYPTO_CTL
    <2>2. ASSUME NEW m \in Mappings, Remap(m) PROVE HashInv'
      BY <2>2, <1>k DEF Remap
    <2> QED  BY <1>5, <2>1, <2>2, TransferHashInv DEF Transfer
  <1>6. CASE DmaReset
    <2>1. sha' = IdleSha /\ UNCHANGED saved /\ DOMAIN asked' = AskedFields
      BY <1>6 DEF DmaReset, NothingAsked, AskedFields
    <2> QED  BY <2>1 DEF HashInv, SavedInv, IdleSha, ShaFields
  <1> QED
    BY <1>1, <1>2, <1>3, <1>4, <1>5, <1>6
    DEF Next, EngineStep, Reset, vars, engines

\* SHA-256: the running state, what a driver saves of it and the digest are
\* those of the bytes the DMA has read, for every cut of the message into
\* transfers, every end in a block, both ways to pad, failed reads, and a hash
\* put aside and resumed.
THEOREM DigestsAreOfMessages == Spec => []DigestIsOfMessage
  <1>1. Init => HashInv  BY HashInit DEF Init
  <1>2. HashInv => DigestIsOfMessage
    BY DEF HashInv, Running, Ended, DigestIsOfMessage
  <1> QED  BY <1>1, <1>2, HashNext, PTL DEF Spec

-----------------------------------------------------------------------------
(* CMAC                                                                    *)

LEMMA XorEmpty == ASSUME NEW x PROVE Xor(x, {}) = x
  BY Zenon DEF Xor

LEMMA XorCommutes == ASSUME NEW x, NEW y PROVE Xor(x, y) = Xor(y, x)
  BY Zenon DEF Xor

LEMMA AesLenIs == AesLen \in Nat \ {0}
  BY DmaAssumption

\* The blocks that aes_cmac cuts and pads are those of the padded message, and
\* it masks the last one as RFC 4493 does, so that the two iterations are one.
LEMMA CmacIs ==
  ASSUME NEW k, NEW d, IsSeq(d)
  PROVE  aes_cmac(k, d) = Cmac(k, d)
  <1> DEFINE L        == Len(d)
             q        == L \div AesLen
             r        == L % AesLen
             count    == IF d = <<>> THEN 1 ELSE (L + AesLen - 1) \div AesLen
             complete == d # <<>> /\ L % AesLen = 0
             Part(j)  == [i \in 1 .. AesLen |->
                            LET p == (j - 1) * AesLen + i
                            IN  IF p <= L THEN d[p]
                                ELSE IF j = count /\ p = L + 1 THEN {<<"0x80">>}
                                ELSE {}]
             Mask(j)  == IF j < count THEN ZeroBlock
                         ELSE SubKey(k, IF complete THEN 1 ELSE 2)
             state    == CHOOSE f : f = [j \in 0 .. count |->
                           IF j = 0 THEN ZeroBlock
                           ELSE aes_block(FALSE, k,
                                  XorBlock(XorBlock(Part(j), Mask(j)), f[j - 1]))]
             text     == IF complete THEN d ELSE d \o Marked(AesLen - (L % AesLen))
             b        == Blocks(text, AesLen)
             x        == CHOOSE f : f = [j \in 0 .. Len(b) |->
                           IF j = 0 THEN ZeroBlock
                           ELSE aes_block(FALSE, k, XorBlock(f[j - 1],
                                  IF j = Len(b)
                                  THEN XorBlock(b[j], SubKey(k, IF complete THEN 1 ELSE 2))
                                  ELSE b[j]))]
  <1>1. aes_cmac(k, d) = state[count]  BY Zenon DEF aes_cmac
  <1>2. Cmac(k, d) = x[Len(b)]  BY Zenon DEF Cmac
  <1>a. AesLen \in Nat \ {0}  BY AesLenIs
  <1>l. L \in Nat  BY SeqIs
  <1>q. q \in Nat /\ r \in 0 .. AesLen - 1 /\ L = q * AesLen + r
    BY <1>a, <1>l, DivMod
  <1>e. d = <<>> <=> L = 0  BY EmptyIs, SameSeq, <1>l
  <1>p. state = CHOOSE f : f = [j \in 0 .. count |->
                  IF j = 0 THEN ZeroBlock
                  ELSE aes_block(FALSE, k,
                         XorBlock(XorBlock(Part(j), Mask(j)), f[j - 1]))]
    OBVIOUS
  <1>3. /\ IsSeq(text) /\ Len(text) = count * AesLen /\ count \in Nat \ {0}
        /\ \A p \in 1 .. L : text[p] = d[p]
        /\ \A p \in L + 1 .. count * AesLen :
             text[p] = IF p = L + 1 THEN {<<"0x80">>} ELSE {}
        /\ (count - 1) * AesLen <= L
    <2>1. CASE complete
      <3>1. r = 0 /\ L = q * AesLen /\ q # 0  BY <1>a, <1>q, <1>e, <2>1
      <3>2. L + AesLen - 1 = q * AesLen + (AesLen - 1)  BY <1>a, <1>q, <3>1
      <3>3. (q * AesLen + (AesLen - 1)) \div AesLen = q
        <4>1. AesLen - 1 \in 0 .. AesLen - 1  BY <1>a
        <4> HIDE DEF q
        <4> QED  BY <1>a, <1>q, <4>1, DivModIs
      <3>4. count = q /\ text = d  BY <2>1, <3>2, <3>3
      <3> HIDE DEF count, text, q, r
      <3>5. (q - 1) * AesLen <= L  BY <1>a, <1>q, <3>1
      <3>6. \A p \in L + 1 .. q * AesLen : FALSE  BY <1>l, <3>1
      <3> QED  BY <1>q, <3>1, <3>4, <3>5, <3>6
    <2>2. CASE ~ complete
      <3> DEFINE z == AesLen - r
      <3>1. z \in 1 .. AesLen /\ z \in Nat  BY <1>a, <1>q
      <3>2. count = q + 1
        <4>1. CASE d = <<>>
          <5>1. q * AesLen = 0 /\ r = 0  BY <1>a, <1>q, <1>e, <4>1
          <5>2. q = 0  BY <1>a, <1>q, <5>1
          <5> QED  BY <4>1, <5>2
        <4>2. CASE d # <<>>
          <5>1. r - 1 \in 0 .. AesLen - 1  BY <1>a, <1>q, <2>2, <4>2
          <5>2. L + AesLen - 1 = (q + 1) * AesLen + (r - 1)  BY <1>a, <1>q
          <5>3. q + 1 \in Nat  BY <1>q
          <5>4. ((q + 1) * AesLen + (r - 1)) \div AesLen = q + 1
            BY <1>a, <5>1, <5>3, DivModIs
          <5> QED  BY <4>2, <5>2, <5>4
        <4> QED  BY <4>1, <4>2
      <3>3. text = d \o Marked(z)  BY <2>2
      <3> HIDE DEF count, text, q, r, z
      <3>4. IsSeq(Marked(z)) /\ Len(Marked(z)) = z  BY <3>1, MarkedIs
      <3>5. IsSeq(text) /\ Len(text) = L + z  BY <3>3, <3>4, Concat
      <3>6. L + z = (q + 1) * AesLen  BY <1>a, <1>q DEF z
      <3>7. q * AesLen <= L  BY <1>a, <1>q
      <3>8. \A p \in 1 .. L : text[p] = d[p]  BY <3>3, <3>4, Concat
      <3>9. ASSUME NEW p \in L + 1 .. (q + 1) * AesLen
            PROVE  text[p] = IF p = L + 1 THEN {<<"0x80">>} ELSE {}
        <4>1. p \in Int /\ L < p /\ p <= L + z  BY <1>l, <3>1, <3>6
        <4>2. text[p] = Marked(z)[p - L]  BY <3>3, <3>4, <4>1, Concat
        <4>3. p - L \in 1 .. z /\ (p - L = 1 <=> p = L + 1)  BY <1>l, <3>1, <4>1
        <4> QED  BY <4>2, <4>3 DEF Marked
      <3>10. q + 1 \in Nat \ {0} /\ (q + 1) - 1 = q  BY <1>q
      <3> QED  BY <3>2, <3>5, <3>6, <3>7, <3>8, <3>9, <3>10
    <2> QED  BY <2>1, <2>2
  <1> HIDE DEF q, r, text, count, complete, L
  <1>4. Len(b) = count
    <2>1. (count * AesLen + 0) \div AesLen = count  BY <1>a, <1>3, DivModIs
    <2>2. count * AesLen + 0 = count * AesLen  BY <1>a, <1>3
    <2> QED  BY <1>a, <1>3, <2>1, <2>2, BlocksIs
  <1>5. ASSUME NEW j \in 1 .. count PROVE b[j] = Part(j)
    <2> DEFINE f == (j - 1) * AesLen
               P == Part(j)
    <2>1. /\ f \in Nat /\ f + AesLen <= Len(text) /\ b[j] = Slice(text, f, AesLen)
      <3>1. j \in 1 .. Len(text) \div AesLen  BY <1>3, <1>4, <1>a, BlocksIs
      <3> QED  BY <1>a, <1>3, <3>1, BlocksIs
    <2> HIDE DEF f, b
    <2>2. AesLen \in Nat  BY <1>a
    <2>3. /\ IsSeq(b[j]) /\ Len(b[j]) = AesLen
          /\ \A i \in 1 .. AesLen : b[j][i] = text[f + i]
      BY <1>3, <2>1, <2>2, SliceIs
    <2>4. P = [i \in 1 .. AesLen |-> P[i]]  OBVIOUS
    <2>5. \A i \in 1 .. AesLen :
            P[i] = IF f + i <= L THEN d[f + i]
                   ELSE IF j = count /\ f + i = L + 1 THEN {<<"0x80">>} ELSE {}
      BY DEF f
    <2> HIDE DEF P
    <2>6. IsSeq(P) /\ Len(P) = AesLen  BY <2>2, <2>4, TupleIs
    <2>7. ASSUME NEW i \in 1 .. AesLen PROVE b[j][i] = P[i]
      <3>1. f + i \in 1 .. count * AesLen  BY <1>a, <1>3, <2>1
      <3>2. CASE f + i <= L
        <4>1. f + i \in 1 .. L  BY <1>l, <3>1, <3>2
        <4> QED  BY <1>3, <2>3, <2>5, <3>2, <4>1
      <3>3. CASE ~ (f + i <= L)
        <4>1. f + i \in L + 1 .. count * AesLen  BY <1>l, <3>1, <3>3
        <4>2. text[f + i] = IF f + i = L + 1 THEN {<<"0x80">>} ELSE {}
          BY <1>3, <4>1
        <4>3. j = count
          <5> SUFFICES ASSUME j < count PROVE FALSE  BY <1>3
          <5>1. j * AesLen <= (count - 1) * AesLen  BY <1>a, <1>3
          <5>2. f + i <= j * AesLen  BY <1>a, <1>3 DEF f
          <5> QED  BY <1>a, <1>l, <1>3, <2>1, <3>3, <5>1, <5>2
        <4> QED  BY <2>3, <2>5, <3>3, <4>2, <4>3
      <3> QED  BY <3>2, <3>3
    <2>8. b[j] = P  BY <2>3, <2>6, <2>7, SameSeq
    <2> QED  BY <2>8 DEF P
  <1> DEFINE K == SubKey(k, IF complete THEN 1 ELSE 2)
             Last1(j) == IF j = count THEN XorBlock(b[j], K) ELSE b[j]
  <1>6. ASSUME NEW j \in 1 .. count, NEW s
        PROVE  XorBlock(XorBlock(Part(j), Mask(j)), s) = XorBlock(s, Last1(j))
    <2> DEFINE P == Part(j)
               M == Mask(j)
               E == Last1(j)
    <2>1. P = b[j]  BY <1>5
    <2>k. j = count => M = K /\ E = XorBlock(b[j], K)  BY <1>3
    <2>z. j # count => M = ZeroBlock /\ E = b[j]  BY <1>3
    <2> HIDE DEF P, M, E, K, b
    <2>2. ASSUME NEW i \in 1 .. AesLen PROVE XorBlock(P, M)[i] = E[i]
      <3>1. XorBlock(P, M)[i] = Xor(P[i], M[i])  BY DEF XorBlock
      <3>2. CASE j = count
        <4>1. E[i] = Xor(b[j][i], K[i])  BY <2>k, <3>2 DEF XorBlock
        <4> QED  BY <2>1, <2>k, <3>1, <3>2, <4>1
      <3>3. CASE j # count
        <4>1. M[i] = {}  BY <2>z, <3>3 DEF ZeroBlock
        <4> QED  BY <2>1, <2>z, <3>1, <3>3, <4>1, XorEmpty
      <3> QED  BY <3>2, <3>3
    <2>3. \A i \in 1 .. AesLen : Xor(XorBlock(P, M)[i], s[i]) = Xor(s[i], E[i])
      BY <2>2, XorCommutes
    <2>4. XorBlock(XorBlock(P, M), s) = XorBlock(s, E)
      <3> DEFINE Q == XorBlock(P, M)
      <3> HIDE DEF Q
      <3> QED  BY <2>3 DEF XorBlock, Q
    <2> QED  BY <2>4 DEF P, M, E, K, b
  <1>7. state = x
    <2> HIDE DEF Part, Mask, K, b
    <2>1. x = CHOOSE f : f = [j \in 0 .. count |->
                IF j = 0 THEN ZeroBlock
                ELSE aes_block(FALSE, k, XorBlock(f[j - 1], Last1(j)))]
      BY Zenon, <1>4 DEF K
    <2> HIDE DEF Last1
    <2>2. \A f : [j \in 0 .. count |->
                    IF j = 0 THEN ZeroBlock
                    ELSE aes_block(FALSE, k,
                           XorBlock(XorBlock(Part(j), Mask(j)), f[j - 1]))]
                = [j \in 0 .. count |->
                    IF j = 0 THEN ZeroBlock
                    ELSE aes_block(FALSE, k, XorBlock(f[j - 1], Last1(j)))]
      <3> TAKE f
      <3>1. \A j \in 0 .. count : j # 0 => j \in 1 .. count  BY <1>3
      <3>2. \A j \in 0 .. count : j # 0 =>
              XorBlock(XorBlock(Part(j), Mask(j)), f[j - 1])
                = XorBlock(f[j - 1], Last1(j))
        BY <1>6, <3>1
      <3> QED  BY <3>2
    <2> QED  BY Zenon, <1>p, <2>1, <2>2
  <1> QED  BY <1>1, <1>2, <1>4, <1>7

-----------------------------------------------------------------------------
(* The cipher, chunk by chunk                                              *)

\* A remainder may be taken early.
LEMMA ModAdd ==
  ASSUME NEW x \in Nat, NEW y \in Nat, NEW v \in Nat \ {0}
  PROVE  ((x % v) + y) % v = (x + y) % v
  <1> DEFINE q == x \div v
             r == x % v
  <1>1. q \in Nat /\ r \in 0 .. v - 1 /\ x = q * v + r  BY DivMod
  <1> HIDE DEF q, r
  <1>2. x + y = q * v + (r + y) /\ r + y \in Nat  BY <1>1
  <1>3. (q * v + (r + y)) % v = (r + y) % v  BY <1>1, <1>2, DivModAdd
  <1> QED  BY <1>2, <1>3 DEF r

\* The key stream from m blocks further on.
LEMMA KeyStreamFrom ==
  ASSUME NEW k, NEW c \in Nat, NEW m \in Nat, NEW p \in Nat
  PROVE  KeyStream(k, (c + m) % CtrValues, p) = KeyStream(k, c, m * AesLen + p)
  <1> DEFINE q == p \div AesLen
  <1>1. AesLen \in Nat \ {0} /\ CtrValues \in Nat \ {0}
    BY AesLenIs, DmaAssumption
  <1>2. q \in Nat  BY <1>1, DivMod
  <1>3. /\ (m * AesLen + p) \div AesLen = m + q
        /\ (m * AesLen + p) % AesLen = p % AesLen
    BY <1>1, DivModAdd
  <1> HIDE DEF q
  <1>4. (((c + m) % CtrValues) + q) % CtrValues = (c + m + q) % CtrValues
    <2> DEFINE e == c + m
    <2>1. e \in Nat  OBVIOUS
    <2> HIDE DEF e
    <2>2. ((e % CtrValues) + q) % CtrValues = (e + q) % CtrValues
      BY <1>1, <1>2, <2>1, ModAdd
    <2> QED  BY <2>2 DEF e
  <1>5. c + m + q = c + (m + q)  BY <1>2
  <1>6. aes_increment_counter((c + m) % CtrValues, q)
          = aes_increment_counter(c, m + q)
    BY <1>4, <1>5 DEF aes_increment_counter
  <1> QED  BY <1>3, <1>6 DEF KeyStream, q

\* How far a transfer of n bytes is after j chunks.
Done(n, j) == IF j * ChunkLen <= n THEN j * ChunkLen ELSE n

LEMMA DoneIs ==
  ASSUME NEW n \in Nat \ {0}
  PROVE  /\ Chunks(n) \in Nat /\ Done(n, 0) = 0 /\ Done(n, Chunks(n)) = n
         /\ \A j \in 1 .. Chunks(n) :
              /\ Done(n, j - 1) = (j - 1) * ChunkLen
              /\ (j - 1) * ChunkLen \in Nat /\ ChunkSize(n, j) \in Nat
              /\ Done(n, j) = (j - 1) * ChunkLen + ChunkSize(n, j)
              /\ Done(n, j) <= n
              /\ \/ ChunkSize(n, j) = ChunkLen
                 \/ ChunkSize(n, j) = n - (j - 1) * ChunkLen
  <1> DEFINE C == Chunks(n)
             s == (n + ChunkLen - 1) % ChunkLen
  <1>1. ChunkLen \in Nat \ {0}  BY DmaAssumption
  <1>2. n + ChunkLen - 1 \in Nat  BY <1>1
  <1>3. /\ C \in Nat /\ s \in 0 .. ChunkLen - 1
        /\ n + ChunkLen - 1 = C * ChunkLen + s
    BY <1>1, <1>2, DivMod DEF Chunks
  <1> HIDE DEF C, s
  <1>4. C * ChunkLen >= n /\ (C - 1) * ChunkLen < n  BY <1>1, <1>3
  <1>5. Done(n, C) = n  BY <1>1, <1>3, <1>4 DEF Done
  <1>6. Done(n, 0) = 0  BY <1>1 DEF Done
  <1>7. ASSUME NEW j \in 1 .. C
        PROVE  /\ Done(n, j - 1) = (j - 1) * ChunkLen
               /\ (j - 1) * ChunkLen \in Nat /\ ChunkSize(n, j) \in Nat
               /\ Done(n, j) = (j - 1) * ChunkLen + ChunkSize(n, j)
               /\ Done(n, j) <= n
               /\ \/ ChunkSize(n, j) = ChunkLen
                  \/ ChunkSize(n, j) = n - (j - 1) * ChunkLen
    <2>1. (j - 1) * ChunkLen <= (C - 1) * ChunkLen  BY <1>1, <1>3
    <2>2. (j - 1) * ChunkLen \in Nat /\ (C - 1) * ChunkLen \in Int  BY <1>1, <1>3
    <2>3. (j - 1) * ChunkLen < n  BY <1>4, <2>1, <2>2
    <2>4. j * ChunkLen = (j - 1) * ChunkLen + ChunkLen /\ j * ChunkLen \in Nat
      BY <1>1, <1>3
    <2> DEFINE m == (j - 1) * ChunkLen
    <2>5. Done(n, j - 1) = m  BY <2>2, <2>3 DEF Done
    <2>6. ChunkSize(n, j) = IF j * ChunkLen <= n THEN ChunkLen ELSE n - m
      BY DEF ChunkSize
    <2> HIDE DEF m
    <2>7. m \in Nat /\ m < n /\ j * ChunkLen = m + ChunkLen  BY <2>2, <2>3, <2>4 DEF m
    <2>8. ChunkSize(n, j) \in Nat  BY <1>1, <2>4, <2>6, <2>7
    <2>9. Done(n, j) = m + ChunkSize(n, j)  BY <1>1, <2>6, <2>7 DEF Done
    <2>10. Done(n, j) <= n  BY <2>4 DEF Done
    <2> QED  BY <2>5, <2>6, <2>7, <2>8, <2>9, <2>10 DEF m
  <1> QED  BY <1>3, <1>5, <1>6, <1>7 DEF C

\* What software asks of a transfer through the cipher, see GoodInput.
Asks(a, d, n) ==
  /\ a \in Nat /\ d \in Nat /\ n \in Nat \ {0}
  /\ Span(a, n) \subseteq Memory /\ Span(d, n) \subseteq Memory
  /\ d \notin Span(a, n) \ {a}
  /\ aes.mode = "CTR" \/ n % AesLen = 0
  /\ aes.ctr \in 0 .. CtrValues - 1

\* The input of a transfer, and byte p of its output.
Input(a, n) == [i \in 1 .. n |-> mem[a + i - 1]]
Crypted(a, n, p) ==
  IF aes.mode = "CTR"
  THEN Xor(mem[a + p], KeyStream(aes.key, aes.ctr, p))
  ELSE aes_block(aes.decrypt, aes.key,
         Slice(Input(a, n), (p \div AesLen) * AesLen, AesLen))[(p % AesLen) + 1]

\* The state of a transfer after j chunks: what is done is in memory, the rest
\* is as it was, and the counter stands after the blocks used.
ChunkGood(s, a, d, n, j) ==
  /\ DOMAIN s = {"mem", "ctr", "ok"} /\ s.ok \in BOOLEAN
  /\ s.ok =>
       /\ s.ctr = IF aes.mode = "CTR"
                  THEN aes_increment_counter(aes.ctr,
                         (Done(n, j) + AesLen - 1) \div AesLen)
                  ELSE aes.ctr
       /\ \A x \in Memory :
            s.mem[x] = IF x \in Span(d, Done(n, j)) THEN Crypted(a, n, x - d)
                       ELSE mem[x]

LEMMA InputIs ==
  ASSUME NEW a, NEW n \in Nat
  PROVE  /\ IsSeq(Input(a, n)) /\ Len(Input(a, n)) = n
         /\ \A i \in 1 .. n : Input(a, n)[i] = mem[a + i - 1]
  <1> DEFINE f == Input(a, n)
  <1>1. f = [i \in 1 .. n |-> f[i]] /\ \A i \in 1 .. n : f[i] = mem[a + i - 1]
    BY DEF Input
  <1> HIDE DEF f
  <1>2. IsSeq(f) /\ Len(f) = n  BY <1>1, TupleIs
  <1> QED  BY <1>1, <1>2 DEF f

\* A chunk is a whole number of cipher blocks.
LEMMA ChunkBlocks ==
  /\ ChunkLen \in Nat \ {0} /\ ChunkLen \div AesLen \in Nat
  /\ ChunkLen = (ChunkLen \div AesLen) * AesLen
  <1>1. ChunkLen \in Nat \ {0} /\ ChunkLen % AesLen = 0  BY DmaAssumption
  <1>2. /\ ChunkLen \div AesLen \in Nat
        /\ ChunkLen = (ChunkLen \div AesLen) * AesLen + (ChunkLen % AesLen)
    BY <1>1, AesLenIs, DivMod
  <1> DEFINE q == ChunkLen \div AesLen
  <1> HIDE DEF q
  <1>3. q \in Nat /\ ChunkLen = q * AesLen + 0  BY <1>1, <1>2 DEF q
  <1>4. ChunkLen = q * AesLen  BY <1>3, AesLenIs
  <1> QED  BY <1>1, <1>3, <1>4 DEF q

\* The first amount bytes from address b, as they are before the transfer.
Reads(in, b, amount) == \A i \in 1 .. amount : in[i] = mem[b + i - 1]

\* Byte i of the output of a chunk that starts u cipher blocks on is the byte of
\* the whole output at that place.
LEMMA ChunkOutput ==
  ASSUME NEW a, NEW d, NEW n, Asks(a, d, n), NEW u \in Nat, NEW amount \in Nat,
         NEW in, IsSeq(in), Len(in) = amount, u * AesLen + amount <= n,
         amount % AesLen = 0 \/ aes.mode = "CTR",
         Reads(in, a + u * AesLen, amount),
         NEW c, aes.mode = "CTR" => c = aes_increment_counter(aes.ctr, u),
         NEW i \in 1 .. amount
  PROVE  (IF aes.mode = "CTR" THEN aes_ctr_chunk(in, c)
          ELSE aes_ecb_chunk(in, c)).out[i] = Crypted(a, n, u * AesLen + i - 1)
  <1> DEFINE p == i - 1
             m == u * AesLen
             out == (IF aes.mode = "CTR" THEN aes_ctr_chunk(in, c)
                     ELSE aes_ecb_chunk(in, c)).out
  <1>a. AesLen \in Nat \ {0} /\ a \in Nat /\ n \in Nat
    BY AesLenIs DEF Asks
  <1>m. m \in Nat /\ p \in Nat /\ m + i - 1 = m + p  BY <1>a
  <1>1. CASE aes.mode = "CTR"
    <2>1. out[i] = Xor(in[i], KeyStream(aes.key, c, p))
      BY <1>1 DEF aes_ctr_chunk
    <2>2. aes.ctr \in Nat  BY DmaAssumption DEF Asks
    <2>3. KeyStream(aes.key, c, p) = KeyStream(aes.key, aes.ctr, m + p)
      BY <1>1, <1>m, <2>2, KeyStreamFrom DEF aes_increment_counter
    <2>4. in[i] = mem[a + m + i - 1]  BY DEF Reads
    <2> HIDE DEF m, out
    <2>5. a + m + i - 1 = a + (m + p)  BY <1>a, <1>m
    <2>6. out[i] = Crypted(a, n, m + p)
      BY <1>1, <2>1, <2>3, <2>4, <2>5 DEF Crypted
    <2> QED  BY <1>m, <2>6 DEF m, out
  <1>2. CASE aes.mode # "CTR"
    <2> DEFINE v == p \div AesLen
               g == v * AesLen
               f == (u + v) * AesLen
               I == Input(a, n)
    <2>1. /\ v \in Nat /\ p % AesLen \in 0 .. AesLen - 1
          /\ p = v * AesLen + (p % AesLen)
      BY <1>a, <1>m, DivMod
    <2>2. (m + p) \div AesLen = u + v /\ (m + p) % AesLen = p % AesLen
      BY <1>a, <1>m, DivModAdd
    <2>3. out[i] = aes_block(aes.decrypt, aes.key, Slice(in, g, AesLen))[(p % AesLen) + 1]
      BY <1>2 DEF aes_ecb_chunk
    <2>4. PICK e \in Nat : amount = e * AesLen
      <3>1. amount % AesLen = 0  BY <1>2
      <3>2. amount \div AesLen \in Nat /\ amount = (amount \div AesLen) * AesLen + (amount % AesLen)
        BY <1>a, DivMod
      <3> DEFINE e == amount \div AesLen
      <3> HIDE DEF e
      <3>3. e \in Nat /\ amount = e * AesLen + 0  BY <3>1, <3>2 DEF e
      <3>4. amount = e * AesLen  BY <1>a, <3>3
      <3> QED  BY <3>3, <3>4
    <2> HIDE DEF v
    <2>5. g \in Nat /\ g <= p  BY <1>a, <2>1
    <2>6. g + AesLen <= amount
      <3>1. v * AesLen < e * AesLen  BY <1>m, <2>4, <2>5
      <3>2. v < e  BY <1>a, <2>1, <2>4, <3>1
      <3>3. (v + 1) * AesLen <= e * AesLen  BY <1>a, <2>1, <2>4, <3>2
      <3> QED  BY <1>a, <2>1, <2>4, <3>3
    <2>7. f = m + g /\ f \in Nat /\ f + AesLen <= n
      BY <1>a, <1>m, <2>1, <2>5, <2>6
    <2>8. IsSeq(I) /\ Len(I) = n /\ \A y \in 1 .. n : I[y] = mem[a + y - 1]
      BY <1>a, InputIs
    <2>w. \A y \in 1 .. amount : in[y] = mem[a + m + y - 1]  BY DEF Reads
    <2> HIDE DEF f, g, m, I, out
    <2>9. Agree(in, g, I, f, AesLen)
      <3> SUFFICES ASSUME NEW y \in 1 .. AesLen PROVE in[g + y] = I[f + y]
        BY DEF Agree
      <3>0. amount \in Nat /\ n \in Nat /\ AesLen \in Nat  BY <1>a
      <3>1. g + y \in 1 .. amount /\ f + y \in 1 .. n
        <4>1. g + y \in 1 .. amount  BY <2>5, <2>6, <3>0
        <4>2. f + y \in 1 .. n  BY <2>7, <3>0
        <4> QED  BY <4>1, <4>2
      <3>2. in[g + y] = mem[a + m + (g + y) - 1]  BY <2>w, <3>1
      <3>3. I[f + y] = mem[a + (f + y) - 1]  BY <2>8, <3>1
      <3>4. a + m + (g + y) - 1 = a + (f + y) - 1  BY <1>a, <1>m, <2>5, <2>7
      <3> QED  BY <3>2, <3>3, <3>4
    <2>10. Slice(in, g, AesLen) = Slice(I, f, AesLen)
      BY <1>a, <2>5, <2>6, <2>7, <2>8, <2>9, SameSlice
    <2>11. out[i] = Crypted(a, n, m + p)
      BY <1>2, <2>2, <2>3, <2>10 DEF Crypted, f, I
    <2> QED  BY <1>m, <2>11 DEF m, out
  <1> QED  BY <1>1, <1>2

LEMMA ChunkStep ==
  ASSUME NEW a, NEW d, NEW n, Asks(a, d, n), NEW j \in 1 .. Chunks(n),
         NEW s, ChunkGood(s, a, d, n, j - 1)
  PROVE  ChunkGood(xcrypt_chunk(s, a, d, n, j), a, d, n, j)
  <1> DEFINE amount  == ChunkSize(n, j)
             m    == (j - 1) * ChunkLen
             from == ChunkAt(a, j)
             to   == ChunkAt(d, j)
             in   == [i \in 1 .. amount |-> s.mem[from + i - 1]]
             done == IF aes.mode = "CTR" THEN aes_ctr_chunk(in, s.ctr)
                     ELSE aes_ecb_chunk(in, s.ctr)
             end  == [mem |-> [x \in Memory |->
                                 IF x \in Span(to, amount) THEN done.out[x - to + 1]
                                 ELSE s.mem[x]],
                      ctr |-> done.ctr, ok |-> TRUE]
             bad  == ~ s.ok \/ ~ (Span(from, amount) \cup Span(to, amount)) \subseteq mapped
             w    == ChunkLen \div AesLen
             u    == (j - 1) * w
  <1>1. xcrypt_chunk(s, a, d, n, j) = IF bad THEN [s EXCEPT !.ok = FALSE] ELSE end
    BY DEF xcrypt_chunk
  <1>2. CASE bad
    <2> DEFINE t == [s EXCEPT !.ok = FALSE]
    <2>1. DOMAIN t = {"mem", "ctr", "ok"} /\ t.ok = FALSE  BY DEF ChunkGood
    <2> HIDE DEF t
    <2>2. ChunkGood(t, a, d, n, j)  BY <2>1 DEF ChunkGood
    <2> QED  BY <1>1, <1>2, <2>2 DEF t
  <1>3. CASE ~ bad
    <2>a. /\ AesLen \in Nat \ {0} /\ a \in Nat /\ d \in Nat /\ n \in Nat \ {0}
          /\ CtrValues \in Nat \ {0} /\ ChunkLen \in Nat \ {0}
      BY AesLenIs, DmaAssumption DEF Asks
    <2>1. /\ Chunks(n) \in Nat /\ Done(n, j - 1) = m /\ m \in Nat /\ amount \in Nat
          /\ Done(n, j) = m + amount /\ Done(n, j) <= n
          /\ amount = ChunkLen \/ amount = n - m
      BY <2>a, DoneIs
    <2>2. from = a + m /\ to = d + m  BY DEF ChunkAt
    <2>3. w \in Nat /\ ChunkLen = w * AesLen  BY ChunkBlocks
    <2> HIDE DEF w
    <2>4. u \in Nat /\ m = u * AesLen  BY <2>a, <2>1, <2>3
    <2>5. s.ok = TRUE  BY <1>3 DEF ChunkGood
    <2>6. /\ \A x \in Memory : s.mem[x] = IF x \in Span(d, m)
                                          THEN Crypted(a, n, x - d) ELSE mem[x]
          /\ s.ctr = IF aes.mode = "CTR"
                     THEN aes_increment_counter(aes.ctr, (m + AesLen - 1) \div AesLen)
                     ELSE aes.ctr
      BY <2>1, <2>5 DEF ChunkGood
    <2>n. Span(a, n) \subseteq Memory /\ d \notin Span(a, n) \ {a}  BY DEF Asks
    <2> HIDE DEF u, m, from, to, amount
    <2>7. (m + AesLen - 1) \div AesLen = u
      <3>1. m + AesLen - 1 = u * AesLen + (AesLen - 1)  BY <2>a, <2>4
      <3>2. AesLen - 1 \in 0 .. AesLen - 1  BY <2>a
      <3>3. (u * AesLen + (AesLen - 1)) \div AesLen = u
        BY <2>a, <2>4, <3>2, DivModIs
      <3> QED  BY <3>1, <3>3
    <2>8. IsSeq(in) /\ Len(in) = amount /\ Reads(in, a + m, amount)
      <3>1. in = [i \in 1 .. amount |-> in[i]]  OBVIOUS
      <3>2. ASSUME NEW i \in 1 .. amount PROVE in[i] = mem[(a + m) + i - 1]
        <4> DEFINE x == (a + m) + i - 1
        <4>1. in[i] = s.mem[x]  BY <2>2
        <4>2. x \in Span(a, n)  BY <2>a, <2>1 DEF Span
        <4>3. x \notin Span(d, m)  BY <2>a, <2>1, <2>n DEF Span
        <4> QED  BY <2>6, <2>n, <4>1, <4>2, <4>3
      <3> HIDE DEF in
      <3>3. IsSeq(in) /\ Len(in) = amount  BY <2>1, <3>1, TupleIs
      <3> QED  BY <3>2, <3>3 DEF Reads
    <2>9. amount % AesLen = 0 \/ aes.mode = "CTR"
      <3> SUFFICES ASSUME n % AesLen = 0 PROVE amount % AesLen = 0  BY DEF Asks
      <3> DEFINE e == n \div AesLen
      <3>1. e \in Nat /\ n = e * AesLen + 0  BY <2>a, DivMod
      <3> HIDE DEF e
      <3>2. \E k \in Nat : amount = k * AesLen + 0
        <4>1. CASE amount = ChunkLen  BY <2>a, <2>3, <4>1
        <4>2. CASE amount = n - m
          <5>1. amount = (e - u) * AesLen + 0  BY <2>a, <2>1, <2>4, <3>1, <4>2
          <5>2. e - u \in Int /\ (e - u) * AesLen >= 0  BY <2>a, <2>1, <2>4, <3>1, <5>1
          <5>3. e - u >= 0  BY <2>a, <5>2
          <5> QED  BY <5>1, <5>2, <5>3
        <4> QED  BY <2>1, <4>1, <4>2
      <3>3. PICK k \in Nat : amount = k * AesLen + 0  BY <3>2
      <3>4. 0 \in 0 .. AesLen - 1  BY <2>a
      <3>5. (k * AesLen + 0) % AesLen = 0  BY <2>a, <3>4, DivModIs
      <3> QED  BY <3>3, <3>5
    <2>c. aes.mode = "CTR" => s.ctr = aes_increment_counter(aes.ctr, u)
      BY <2>6, <2>7
    <2>10. ASSUME NEW i \in 1 .. amount
           PROVE  done.out[i] = Crypted(a, n, m + i - 1)
      <3>1. u * AesLen + amount <= n /\ Reads(in, a + u * AesLen, amount)
        BY <2>1, <2>4, <2>8
      <3> HIDE DEF in
      <3>2. done.out[i] = Crypted(a, n, u * AesLen + i - 1)
        BY <2>1, <2>4, <2>8, <2>9, <2>c, <3>1, ChunkOutput
      <3> QED  BY <2>4, <3>2
    <2>11. ASSUME NEW x \in Memory
           PROVE  end.mem[x] = IF x \in Span(d, Done(n, j)) THEN Crypted(a, n, x - d)
                               ELSE mem[x]
      <3>0. x \in Nat  BY DmaAssumption
      <3> HIDE DEF done
      <3>1. CASE x \in Span(to, amount)
        <4>1. x - to + 1 \in 1 .. amount  BY <2>a, <2>1, <2>2, <3>0, <3>1 DEF Span
        <4>2. m + (x - to + 1) - 1 = x - d  BY <2>a, <2>1, <2>2, <3>0
        <4>3. done.out[x - to + 1] = Crypted(a, n, x - d)  BY <2>10, <4>1, <4>2
        <4>4. x \in Span(d, Done(n, j))
          BY <2>a, <2>1, <2>2, <3>0, <3>1 DEF Span
        <4> QED  BY <3>1, <4>3, <4>4
      <3>2. CASE x \notin Span(to, amount)
        <4>1. x \in Span(d, m) <=> x \in Span(d, Done(n, j))
          BY <2>a, <2>1, <2>2, <3>0, <3>2 DEF Span
        <4> QED  BY <2>6, <3>2, <4>1
      <3> QED  BY <3>1, <3>2
    <2>12. end.ctr = IF aes.mode = "CTR"
                     THEN aes_increment_counter(aes.ctr,
                            (Done(n, j) + AesLen - 1) \div AesLen)
                     ELSE aes.ctr
      <3> HIDE DEF in
      <3>1. CASE aes.mode = "CTR"
        <4> DEFINE z == (amount + AesLen - 1) \div AesLen
                   y == aes.ctr + u
        <4>1. end.ctr = aes_increment_counter(s.ctr, z)
          BY <2>8, <3>1 DEF aes_ctr_chunk
        <4>2. amount + AesLen - 1 \in Nat  BY <2>a, <2>1
        <4>3. z \in Nat  BY <2>a, <4>2, DivMod
        <4>4. (u * AesLen + (amount + AesLen - 1)) \div AesLen = u + z
          BY <2>a, <2>4, <4>2, DivModAdd
        <4>5. Done(n, j) + AesLen - 1 = u * AesLen + (amount + AesLen - 1)
          BY <2>a, <2>1, <2>4
        <4>6. aes.ctr \in Nat  BY <2>a DEF Asks
        <4> HIDE DEF z
        <4>7. y \in Nat /\ y + z = aes.ctr + (u + z)  BY <2>4, <4>3, <4>6
        <4>8. s.ctr = y % CtrValues  BY <2>c, <3>1 DEF aes_increment_counter
        <4> HIDE DEF y
        <4>9. ((y % CtrValues) + z) % CtrValues = (y + z) % CtrValues
          BY <2>a, <4>3, <4>7, ModAdd
        <4> HIDE DEF end
        <4> QED  BY <3>1, <4>1, <4>4, <4>5, <4>7, <4>8, <4>9
                 DEF aes_increment_counter
      <3>2. CASE aes.mode # "CTR"  BY <2>6, <3>2 DEF aes_ecb_chunk
      <3> QED  BY <3>1, <3>2
    <2>13. DOMAIN end = {"mem", "ctr", "ok"} /\ end.ok = TRUE  OBVIOUS
    <2> HIDE DEF end, bad
    <2>14. ChunkGood(end, a, d, n, j)
      BY <2>11, <2>12, <2>13 DEF ChunkGood
    <2> QED  BY <1>1, <1>3, <2>14
  <1> QED  BY <1>2, <1>3

\* All the chunks: the loop is a recursive function, which exists and has the
\* property chunk after chunk.
LEMMA XcryptIs ==
  ASSUME NEW a, NEW d, NEW n, Asks(a, d, n)
  PROVE  ChunkGood(xcrypt(a, d, n), a, d, n, Chunks(n))
  <1> DEFINE C == Chunks(n)
             start == [mem |-> mem, ctr |-> aes.ctr, ok |-> TRUE]
             Loop(f, c) == [j \in 0 .. c |->
                              IF j = 0 THEN start
                              ELSE xcrypt_chunk(f[j - 1], a, d, n, j)]
             after == CHOOSE f : f = Loop(f, C)
  <1>a. n \in Nat \ {0} /\ C \in Nat /\ Done(n, 0) = 0  BY DoneIs DEF Asks
  <1>1. xcrypt(a, d, n) = after[C]  BY Zenon DEF xcrypt
  <1> HIDE DEF C, start
  <1>2. \A c \in Nat : \E f : f = Loop(f, c)
    <2> DEFINE S == {c \in Nat : \E f : f = Loop(f, c)}
    <2>1. 0 \in S
      <3> DEFINE f == [j \in 0 .. 0 |-> start]
      <3>1. f = Loop(f, 0)  OBVIOUS
      <3> QED  BY <3>1
    <2>2. ASSUME NEW c \in Nat, c \in S PROVE c + 1 \in S
      <3>1. PICK f : f = Loop(f, c)  BY <2>2
      <3> DEFINE g == [j \in 0 .. c + 1 |->
                         IF j <= c THEN f[j]
                         ELSE xcrypt_chunk(f[c], a, d, n, c + 1)]
      <3>2. ASSUME NEW j \in 0 .. c + 1 PROVE g[j] = Loop(g, c + 1)[j]
        <4>1. CASE j = 0
          <5>1. g[0] = f[0] /\ f[0] = start  BY <3>1
          <5> QED  BY <4>1, <5>1
        <4>2. CASE j \in 1 .. c
          <5>1. j - 1 \in 0 .. c /\ j - 1 <= c /\ j - 1 \in 0 .. c + 1  BY <4>2
          <5>2. g[j] = f[j] /\ g[j - 1] = f[j - 1]  BY <4>2, <5>1
          <5>3. f[j] = xcrypt_chunk(f[j - 1], a, d, n, j)  BY <3>1, <4>2
          <5>4. Loop(g, c + 1)[j] = xcrypt_chunk(g[j - 1], a, d, n, j)  BY <4>2
          <5> QED  BY <5>2, <5>3, <5>4
        <4>3. CASE j = c + 1
          <5>1. c \in 0 .. c + 1 /\ c <= c /\ ~ (c + 1 <= c) /\ (c + 1) - 1 = c
            OBVIOUS
          <5>2. g[c] = f[c] /\ g[c + 1] = xcrypt_chunk(f[c], a, d, n, c + 1)
            BY <5>1
          <5>3. Loop(g, c + 1)[c + 1] = xcrypt_chunk(g[c], a, d, n, c + 1)
            BY <5>1
          <5> QED  BY <4>3, <5>2, <5>3
        <4> QED  BY <4>1, <4>2, <4>3
      <3>3. g = [j \in 0 .. c + 1 |-> g[j]]  OBVIOUS
      <3> HIDE DEF g
      <3>4. Loop(g, c + 1) = [j \in 0 .. c + 1 |-> Loop(g, c + 1)[j]]  OBVIOUS
      <3>5. g = Loop(g, c + 1)
        <4> DEFINE G == Loop(g, c + 1)
        <4> HIDE DEF Loop
        <4> QED  BY <3>2, <3>3, <3>4
      <3> HIDE DEF Loop
      <3>6. c + 1 \in Nat  OBVIOUS
      <3> QED  BY <3>5, <3>6
    <2> HIDE DEF S
    <2>3. Nat \subseteq S  BY <2>1, <2>2, Induction
    <2> QED  BY <2>3 DEF S
  <1>3. after = Loop(after, C)
    <2> HIDE DEF Loop
    <2> QED  BY <1>a, <1>2
  <1> HIDE DEF after
  <1>4. after[0] = start  BY <1>a, <1>3
  <1>5. ASSUME NEW j \in 1 .. C
        PROVE  after[j] = xcrypt_chunk(after[j - 1], a, d, n, j)
    BY <1>a, <1>3
  <1>6. ChunkGood(start, a, d, n, 0)
    <2>1. (Done(n, 0) + AesLen - 1) \div AesLen = 0
      <3>1. AesLen - 1 \in 0 .. AesLen - 1 /\ AesLen \in Nat \ {0}  BY AesLenIs
      <3>2. (0 * AesLen + (AesLen - 1)) \div AesLen = 0  BY <3>1, DivModIs
      <3>3. Done(n, 0) + AesLen - 1 = 0 * AesLen + (AesLen - 1)  BY <1>a, <3>1
      <3> QED  BY <3>2, <3>3
    <2>2. aes_increment_counter(aes.ctr, 0) = aes.ctr
      <3>1. CtrValues \in Nat \ {0} /\ aes.ctr \in 0 .. CtrValues - 1
        BY DmaAssumption DEF Asks
      <3> DEFINE c == aes.ctr
      <3> HIDE DEF c
      <3>2. (0 * CtrValues + c) % CtrValues = c  BY <3>1, DivModIs DEF c
      <3>3. 0 * CtrValues + c = c + 0  BY <3>1 DEF c
      <3> QED  BY <3>2, <3>3 DEF c, aes_increment_counter
    <2>3. \A x \in Memory : x \notin Span(d, Done(n, 0))
      BY <1>a, DmaAssumption DEF Span, Asks
    <2> QED  BY <2>1, <2>2, <2>3 DEF ChunkGood, start
  <1>7. \A j \in Nat : j <= C => ChunkGood(after[j], a, d, n, j)
    <2> DEFINE S == {j \in Nat : j <= C => ChunkGood(after[j], a, d, n, j)}
    <2>1. 0 \in S  BY <1>4, <1>6
    <2>2. ASSUME NEW j \in Nat, j \in S PROVE j + 1 \in S
      <3> SUFFICES ASSUME j + 1 <= C PROVE ChunkGood(after[j + 1], a, d, n, j + 1)
        OBVIOUS
      <3>1. j + 1 \in 1 .. C /\ (j + 1) - 1 = j /\ j <= C  BY <1>a
      <3>2. ChunkGood(after[j], a, d, n, (j + 1) - 1)  BY <2>2, <3>1
      <3>3. after[j + 1] = xcrypt_chunk(after[j], a, d, n, j + 1)
        BY <1>5, <3>1
      <3> QED  BY <3>1, <3>2, <3>3, ChunkStep DEF C
    <2> HIDE DEF S
    <2>3. Nat \subseteq S  BY <2>1, <2>2, Induction
    <2> QED  BY <2>3 DEF S
  <1>8. ChunkGood(after[C], a, d, n, C)  BY <1>a, <1>7
  <1> QED  BY <1>1, <1>8 DEF C

-----------------------------------------------------------------------------
(* The stream and the tag                                                  *)

\* The counter register stands after the blocks of the stream that are used.
CounterInv ==
  /\ asked.ctr0 \in 0 .. CtrValues - 1 /\ asked.pos \in Nat
  /\ aes.ctr = aes_increment_counter(asked.ctr0,
                  (asked.pos + AesLen - 1) \div AesLen)

\* The first part of CipherIsOfStream.
LastInv ==
  asked.last.ok =>
    LET t == asked.last
    IN  \A i \in 1 .. Len(t.in) :
          mem[t.at + i - 1] =
            IF t.mode = "CTR"
            THEN Xor(t.in[i], KeyStream(t.key, t.ctr0, t.pos + i - 1))
            ELSE LET k == (i - 1) \div AesLen
                 IN  aes_block(t.decrypt, t.key,
                       Blocks(t.in, AesLen)[k + 1])[i - k * AesLen]

TagInv ==
  /\ DOMAIN cmac = {"active", "data", "tag"} /\ cmac.active \in BOOLEAN
  /\ cmac.active => cmac.data = asked.tagged /\ IsSeq(asked.tagged)
  /\ ~ cmac.active /\ cmac.tag # NoTag =>
       cmac.tag = Cmac(asked.tagKey, asked.tagged)

CipherInv ==
  /\ DOMAIN aes = {"mode", "decrypt", "key", "ctr"}
  /\ DOMAIN asked = AskedFields
  /\ dout \in Targets \cup {NoTransfer}
  /\ CounterInv /\ LastInv /\ TagInv

LEMMA CounterIs ==
  /\ AesLen \in Nat \ {0} /\ CtrValues \in Nat \ {0}
  /\ (0 + AesLen - 1) \div AesLen = 0
  /\ \A c \in 0 .. CtrValues - 1 : aes_increment_counter(c, 0) = c
  /\ \A c \in Nat : aes_increment_counter(c, 0) \in 0 .. CtrValues - 1
  <1>1. AesLen \in Nat \ {0} /\ CtrValues \in Nat \ {0}
    BY AesLenIs, DmaAssumption
  <1>2. AesLen - 1 \in 0 .. AesLen - 1  BY <1>1
  <1>3. (0 * AesLen + (AesLen - 1)) \div AesLen = 0  BY <1>1, <1>2, DivModIs
  <1>4. 0 * AesLen + (AesLen - 1) = 0 + AesLen - 1  BY <1>1
  <1>5. ASSUME NEW c \in 0 .. CtrValues - 1 PROVE aes_increment_counter(c, 0) = c
    <2>1. (0 * CtrValues + c) % CtrValues = c  BY <1>1, DivModIs
    <2>2. 0 * CtrValues + c = c + 0  BY <1>1
    <2> QED  BY <2>1, <2>2 DEF aes_increment_counter
  <1>6. ASSUME NEW c \in Nat PROVE aes_increment_counter(c, 0) \in 0 .. CtrValues - 1
    BY <1>1, DivMod DEF aes_increment_counter
  <1> QED  BY <1>1, <1>3, <1>4, <1>5, <1>6

LEMMA CipherInit == DmaInit => CipherInv
  <1> SUFFICES ASSUME DmaInit PROVE CipherInv  OBVIOUS
  <1>1. CounterInv
    BY CounterIs DEF DmaInit, CounterInv, NothingAsked
  <1> QED
    BY <1>1 DEF DmaInit, CipherInv, LastInv, TagInv, NothingAsked, NoCipher,
                AskedFields

LEMMA OutputInv ==
  ASSUME CipherInv, NEW a \in Nat, NEW n \in Nat \ {0},
         Span(a, n) \subseteq Memory, n <= dout[2], dout \in Targets,
         aes.mode = "CTR" \/ (aes.mode = "ECB" /\ n % AesLen = 0),
         GoodInput(a, n), aes_dma_output(a, n), UNCHANGED dout
  PROVE  CipherInv'
  <1> DEFINE d == dout[1]
             r == xcrypt(a, d, n)
             z == (n + AesLen - 1) \div AesLen
             u == asked.pos \div AesLen
  <1>a. AesLen \in Nat \ {0} /\ CtrValues \in Nat \ {0}  BY CounterIs
  <1>0. asked.ctr0 \in Nat /\ asked.pos \in Nat  BY DEF CipherInv, CounterInv
  <1>1. aes.ctr \in 0 .. CtrValues - 1
    <2>1. asked.pos + AesLen - 1 \in Nat  BY <1>0, <1>a
    <2>2. (asked.pos + AesLen - 1) \div AesLen \in Nat  BY <1>a, <2>1, DivMod
    <2> DEFINE y == (asked.pos + AesLen - 1) \div AesLen
    <2> HIDE DEF y
    <2>3. asked.ctr0 + y \in Nat  BY <1>0, <2>2 DEF y
    <2>4. (asked.ctr0 + y) % CtrValues \in 0 .. CtrValues - 1
      BY <1>a, <2>3, DivMod
    <2> QED  BY <2>4 DEF CipherInv, CounterInv, aes_increment_counter, y
  <1>2. Asks(a, d, n)
    <2>1. d \in Nat /\ dout[2] \in Nat /\ Span(d, dout[2]) \subseteq Memory
      BY SourceIs
    <2>2. Span(d, n) \subseteq Memory  BY <2>1 DEF Span
    <2> QED  BY <1>1, <2>1, <2>2 DEF Asks, GoodInput
  <1>3. Chunks(n) \in Nat /\ Done(n, Chunks(n)) = n  BY DoneIs
  <1>4. /\ r.ok \in BOOLEAN
        /\ r.ok =>
             /\ r.ctr = IF aes.mode = "CTR" THEN aes_increment_counter(aes.ctr, z)
                        ELSE aes.ctr
             /\ \A x \in Memory :
                  r.mem[x] = IF x \in Span(d, n) THEN Crypted(a, n, x - d)
                             ELSE mem[x]
    BY <1>2, <1>3, XcryptIs DEF ChunkGood
  <1> HIDE DEF r
  <1>5. /\ mem' = r.mem
        /\ aes' = IF r.ok THEN [aes EXCEPT !.ctr = r.ctr] ELSE aes
        /\ cmac' = cmac /\ DOMAIN asked' = AskedFields
        /\ asked'.tagged = asked.tagged /\ asked'.tagKey = asked.tagKey
        /\ asked'.ctr0 = asked.ctr0
        /\ asked'.pos = IF r.ok /\ aes.mode = "CTR" THEN asked.pos + n ELSE asked.pos
        /\ asked'.last = [ok |-> r.ok, at |-> d, in |-> Input(a, n),
                          mode |-> aes.mode, decrypt |-> aes.decrypt,
                          key |-> aes.key, ctr0 |-> asked.ctr0, pos |-> asked.pos]
    BY DEF aes_dma_output, CipherInv, AskedFields, Input, r
  <1>6. TagInv'  BY <1>5 DEF CipherInv, TagInv
  <1>7. aes.mode = "CTR" =>
          /\ u \in Nat /\ asked.pos = u * AesLen
          /\ aes.ctr = (asked.ctr0 + u) % CtrValues
    <2> SUFFICES ASSUME aes.mode = "CTR"
                 PROVE  /\ u \in Nat /\ asked.pos = u * AesLen
                        /\ aes.ctr = (asked.ctr0 + u) % CtrValues
      OBVIOUS
    <2>1. asked.pos % AesLen = 0  BY DEF GoodInput
    <2>2. u \in Nat /\ asked.pos = u * AesLen + 0  BY <1>0, <1>a, <2>1, DivMod
    <2> HIDE DEF u
    <2>3. asked.pos = u * AesLen  BY <1>a, <2>2
    <2>4. AesLen - 1 \in 0 .. AesLen - 1  BY <1>a
    <2>5. (u * AesLen + (AesLen - 1)) \div AesLen = u
      BY <1>a, <2>2, <2>4, DivModIs
    <2>6. asked.pos + AesLen - 1 = u * AesLen + (AesLen - 1)  BY <1>a, <2>2, <2>3
    <2> QED
      BY <2>2, <2>3, <2>5, <2>6
      DEF CipherInv, CounterInv, aes_increment_counter
  <1> HIDE DEF u
  <1>z. z \in Nat
    <2>1. n + AesLen - 1 \in Nat  BY <1>a
    <2> QED  BY <1>a, <2>1, DivMod
  <1>8. CounterInv'
    <2>1. CASE r.ok /\ aes.mode = "CTR"
      <3> DEFINE y == asked.ctr0 + u
      <3>1. aes'.ctr = aes_increment_counter(aes.ctr, z)
        BY <1>4, <1>5, <2>1 DEF CipherInv
      <3>2. asked'.pos + AesLen - 1 = u * AesLen + (n + AesLen - 1)
        BY <1>a, <1>0, <1>5, <1>7, <2>1
      <3>3. n + AesLen - 1 \in Nat  BY <1>a
      <3>4. (u * AesLen + (n + AesLen - 1)) \div AesLen = u + z
        BY <1>a, <1>7, <2>1, <3>3, DivModAdd
      <3> HIDE DEF z
      <3>5. y \in Nat /\ y + z = asked.ctr0 + (u + z)
        BY <1>0, <1>7, <1>z, <2>1
      <3>6. aes.ctr = y % CtrValues  BY <1>7, <2>1
      <3> HIDE DEF y
      <3>7. ((y % CtrValues) + z) % CtrValues = (y + z) % CtrValues
        BY <1>a, <1>z, <3>5, ModAdd
      <3>8. aes'.ctr = aes_increment_counter(asked.ctr0, u + z)
        BY <3>1, <3>5, <3>6, <3>7 DEF aes_increment_counter
      <3>9. asked'.pos \in Nat  BY <1>0, <1>5, <2>1
      <3> QED  BY <1>5, <3>2, <3>4, <3>8, <3>9
               DEF CounterInv, CipherInv, aes_increment_counter
    <2>2. CASE ~ (r.ok /\ aes.mode = "CTR")
      <3>1. aes'.ctr = aes.ctr  BY <1>4, <1>5, <2>2 DEF CipherInv
      <3>2. asked'.pos = asked.pos  BY <1>5, <2>2
      <3> QED  BY <1>5, <3>1, <3>2 DEF CounterInv, CipherInv, aes_increment_counter
    <2> QED  BY <2>1, <2>2
  <1>9. LastInv'
    <2> DEFINE t == asked'.last
    <2>1. /\ t.ok = r.ok /\ t.at = d /\ t.in = Input(a, n) /\ t.mode = aes.mode
          /\ t.decrypt = aes.decrypt /\ t.key = aes.key /\ t.ctr0 = asked.ctr0
          /\ t.pos = asked.pos
      BY <1>5
    <2>2. /\ IsSeq(Input(a, n)) /\ Len(Input(a, n)) = n
          /\ \A i \in 1 .. n : Input(a, n)[i] = mem[a + i - 1]
      BY InputIs
    <2>3. ASSUME r.ok, NEW i \in 1 .. n
          PROVE  mem'[d + i - 1] =
                   IF aes.mode = "CTR"
                   THEN Xor(Input(a, n)[i],
                            KeyStream(aes.key, asked.ctr0, asked.pos + i - 1))
                   ELSE aes_block(aes.decrypt, aes.key,
                          Blocks(Input(a, n), AesLen)[((i - 1) \div AesLen) + 1])
                            [i - ((i - 1) \div AesLen) * AesLen]
      <3> DEFINE p == i - 1
                 v == p \div AesLen
      <3>0. a \in Nat /\ d \in Nat /\ Span(d, n) \subseteq Memory  BY <1>2 DEF Asks
      <3>p. p \in Nat /\ p < n  OBVIOUS
      <3>1. d + i - 1 \in Span(d, n) /\ (d + i - 1) - d = p /\ a + p = a + i - 1
        BY <3>0 DEF Span
      <3>2. mem'[d + i - 1] = Crypted(a, n, p)
        BY <1>4, <1>5, <2>3, <3>0, <3>1
      <3>3. CASE aes.mode = "CTR"
        <4>1. KeyStream(aes.key, (asked.ctr0 + u) % CtrValues, p)
                = KeyStream(aes.key, asked.ctr0, u * AesLen + p)
          BY <1>0, <1>7, <3>3, <3>p, KeyStreamFrom
        <4>2. u * AesLen + p = asked.pos + i - 1  BY <1>0, <1>7, <3>3
        <4>3. Crypted(a, n, p) = Xor(mem[a + p], KeyStream(aes.key, aes.ctr, p))
          BY <3>3 DEF Crypted
        <4> HIDE DEF p
        <4> QED  BY <1>7, <2>2, <3>1, <3>2, <3>3, <4>1, <4>2, <4>3
      <3>4. CASE aes.mode # "CTR"
        <4> DEFINE e == n \div AesLen
        <4>1. n % AesLen = 0  BY <3>4
        <4>2. e \in Nat /\ n = e * AesLen + 0  BY <1>a, <4>1, DivMod
        <4>3. /\ v \in Nat /\ p % AesLen \in 0 .. AesLen - 1
              /\ p = v * AesLen + (p % AesLen)
          BY <1>a, <3>p, DivMod
        <4>4. Crypted(a, n, p) =
                aes_block(aes.decrypt, aes.key,
                  Slice(Input(a, n), v * AesLen, AesLen))[(p % AesLen) + 1]
          BY <3>4 DEF Crypted
        <4>5. \A k \in 1 .. e :
                Blocks(Input(a, n), AesLen)[k] = Slice(Input(a, n), (k - 1) * AesLen, AesLen)
          BY <1>a, <2>2, BlocksIs
        <4> HIDE DEF v, e
        <4>6. v < e
          <5>1. v * AesLen < e * AesLen  BY <1>a, <3>p, <4>2, <4>3
          <5> QED  BY <1>a, <4>2, <4>3, <5>1
        <4>7. v + 1 \in 1 .. e /\ (v + 1) - 1 = v  BY <4>2, <4>3, <4>6
        <4>8. Blocks(Input(a, n), AesLen)[v + 1]
                = Slice(Input(a, n), v * AesLen, AesLen)
          BY <4>5, <4>7
        <4>9. (p % AesLen) + 1 = i - v * AesLen  BY <1>a, <4>3
        <4> QED  BY <3>2, <3>4, <4>4, <4>8, <4>9 DEF v
      <3> QED  BY <3>3, <3>4
    <2> HIDE DEF t, d
    <2> QED  BY <2>1, <2>2, <2>3 DEF LastInv, t
  <1>10. DOMAIN aes' = {"mode", "decrypt", "key", "ctr"}
    BY <1>5 DEF CipherInv
  <1> QED  BY <1>5, <1>6, <1>8, <1>9, <1>10 DEF CipherInv

\* Steps that leave the cipher, the tag and the memory alone.
LEMMA CipherKept ==
  ASSUME CipherInv, UNCHANGED <<mem, aes, cmac, dout>>,
         asked'.ctr0 = asked.ctr0, asked'.pos = asked.pos,
         asked'.last = asked.last, asked'.tagged = asked.tagged,
         asked'.tagKey = asked.tagKey, DOMAIN asked' = AskedFields
  PROVE  CipherInv'
  <1>1. CounterInv'  BY DEF CipherInv, CounterInv, aes_increment_counter
  <1>2. LastInv'  BY DEF CipherInv, LastInv
  <1>3. TagInv'  BY DEF CipherInv, TagInv
  <1> QED  BY <1>1, <1>2, <1>3 DEF CipherInv

LEMMA TransferCipherInv ==
  ASSUME CipherInv, NEW t \in Sources, write_DIN_SRC_LLI(t[1], t[2])
  PROVE  CipherInv'
  <1> DEFINE a == t[1]
             n == t[2]
             len1 == Least(n, dout[2])
  <1>1. a \in Nat /\ n \in Nat /\ Span(a, n) \subseteq Memory  BY SourceIs
  <1>u. UNCHANGED dout  BY DEF write_DIN_SRC_LLI
  <1>2. CASE hash_dma_input(a, n)
    <2>1. /\ asked'.ctr0 = asked.ctr0 /\ asked'.pos = asked.pos
          /\ asked'.last = asked.last /\ asked'.tagged = asked.tagged
          /\ asked'.tagKey = asked.tagKey /\ DOMAIN asked' = AskedFields
          /\ UNCHANGED <<mem, aes, cmac>>
      BY <1>2 DEF hash_dma_input, CipherInv, AskedFields
    <2> QED  BY <1>u, <2>1, CipherKept
  <1>3. CASE /\ len1 # 0
             /\ \/ aes.mode = "CTR"
                \/ aes.mode = "ECB" /\ len1 % AesLen = 0
             /\ GoodInput(a, len1) /\ aes_dma_output(a, len1)
    <2>1. dout \in Targets
      <3> SUFFICES ASSUME dout = NoTransfer PROVE FALSE  BY DEF CipherInv
      <3>1. len1 = 0  BY <1>1 DEF Least, NoTransfer
      <3> QED  BY <1>3, <3>1
    <2>2. dout[2] \in Nat  BY <2>1, SourceIs
    <2>3. len1 \in Nat /\ len1 <= n /\ len1 <= dout[2]  BY <1>1, <2>2 DEF Least
    <2> HIDE DEF len1
    <2>4. len1 \in Nat \ {0}  BY <1>3, <2>3
    <2>5. Span(a, len1) \subseteq Memory  BY <1>1, <2>3 DEF Span
    <2> QED  BY <1>1, <1>3, <1>u, <2>1, <2>3, <2>4, <2>5, OutputInv
  <1>4. CASE cmac.active /\ cmac_dma_input(a, n)
    <2> DEFINE data == mem_read(a, n).data
    <2>1. IsSeq(data)  BY <1>1, ReadIs
    <2>2. /\ asked'.ctr0 = asked.ctr0 /\ asked'.pos = asked.pos
          /\ asked'.last = asked.last /\ asked'.tagKey = asked.tagKey
          /\ asked'.tagged = asked.tagged \o data
          /\ DOMAIN asked' = AskedFields /\ UNCHANGED <<mem, aes>>
          /\ cmac' = [cmac EXCEPT !.data = @ \o data]
      BY <1>4 DEF cmac_dma_input, CipherInv, AskedFields
    <2> HIDE DEF data
    <2>3. CounterInv'  BY <2>2 DEF CipherInv, CounterInv, aes_increment_counter
    <2>4. LastInv'  BY <2>2 DEF CipherInv, LastInv
    <2>5. TagInv'
      <3>1. cmac.data = asked.tagged /\ IsSeq(asked.tagged)
        BY <1>4 DEF CipherInv, TagInv
      <3>2. IsSeq(asked.tagged \o data)  BY <2>1, <3>1, Concat
      <3>3. /\ DOMAIN cmac' = {"active", "data", "tag"} /\ cmac'.active = TRUE
            /\ cmac'.data = asked.tagged \o data
        BY <1>4, <2>2, <3>1 DEF CipherInv, TagInv
      <3> QED  BY <2>2, <3>2, <3>3 DEF TagInv
    <2> QED  BY <1>u, <2>2, <2>3, <2>4, <2>5 DEF CipherInv
  <1>5. CASE UNCHANGED <<mem, sha, aes, cmac, asked>>
    BY <1>5, <1>u, CipherKept DEF CipherInv
  <1> QED  BY <1>2, <1>3, <1>4, <1>5 DEF write_DIN_SRC_LLI

LEMMA CipherWriteInv == ASSUME CipherInv, CipherWrite PROVE CipherInv'
  <1>1. ASSUME NEW m \in Controls, write_AES_CONTROL(m[1], m[2]) PROVE CipherInv'
    <2>1. /\ UNCHANGED <<mem, cmac, dout, asked>>
          /\ DOMAIN aes' = DOMAIN aes /\ aes'.ctr = aes.ctr
      BY <1>1 DEF write_AES_CONTROL, AesOnly, CipherInv
    <2>2. CounterInv' /\ LastInv' /\ TagInv'
      BY <2>1 DEF CipherInv, CounterInv, LastInv, TagInv, aes_increment_counter
    <2> QED  BY <2>1, <2>2 DEF CipherInv
  <1>2. ASSUME NEW k \in Keys, write_AES_KEY(k) PROVE CipherInv'
    <2>1. /\ UNCHANGED <<mem, cmac, dout, asked>>
          /\ DOMAIN aes' = DOMAIN aes /\ aes'.ctr = aes.ctr
      BY <1>2 DEF write_AES_KEY, AesOnly, CipherInv
    <2>2. CounterInv' /\ LastInv' /\ TagInv'
      BY <2>1 DEF CipherInv, CounterInv, LastInv, TagInv, aes_increment_counter
    <2> QED  BY <2>1, <2>2 DEF CipherInv
  <1>3. ASSUME NEW c \in Counters, write_AES_CTR(c) PROVE CipherInv'
    <2>1. /\ UNCHANGED <<mem, cmac, dout>>
          /\ DOMAIN aes' = DOMAIN aes /\ aes'.ctr = c
          /\ asked'.ctr0 = c /\ asked'.pos = 0 /\ asked'.last = asked.last
          /\ asked'.tagged = asked.tagged /\ asked'.tagKey = asked.tagKey
          /\ DOMAIN asked' = AskedFields
      BY <1>3 DEF write_AES_CTR, AesOnly, CipherInv, AskedFields
    <2>2. c \in 0 .. CtrValues - 1  BY DmaAssumption
    <2>3. CounterInv'  BY <2>1, <2>2, CounterIs DEF CounterInv, aes_increment_counter
    <2>4. LastInv' /\ TagInv'  BY <2>1 DEF CipherInv, LastInv, TagInv
    <2> QED  BY <2>1, <2>3, <2>4 DEF CipherInv
  <1>4. ASSUME NEW t \in Targets, write_DOUT_DST_LLI(t) PROVE CipherInv'
    <2>1. dout' \in Targets /\ UNCHANGED <<mem, aes, cmac, asked>>
      BY <1>4 DEF write_DOUT_DST_LLI
    <2>2. CounterInv' /\ LastInv' /\ TagInv'
      BY <2>1 DEF CipherInv, CounterInv, LastInv, TagInv, aes_increment_counter
    <2> QED  BY <2>1, <2>2 DEF CipherInv
  <1>5. CASE Refill
    <2>1. /\ UNCHANGED <<aes, cmac, dout>> /\ asked'.last = NoCipher
          /\ asked'.ctr0 = asked.ctr0 /\ asked'.pos = asked.pos
          /\ asked'.tagged = asked.tagged /\ asked'.tagKey = asked.tagKey
          /\ DOMAIN asked' = AskedFields
      BY <1>5 DEF Refill, CipherInv, AskedFields
    <2>2. LastInv'  BY <2>1 DEF LastInv, NoCipher
    <2>3. CounterInv' /\ TagInv'
      BY <2>1 DEF CipherInv, CounterInv, TagInv, aes_increment_counter
    <2> QED  BY <2>1, <2>2, <2>3 DEF CipherInv
  <1> QED  BY <1>1, <1>2, <1>3, <1>4, <1>5 DEF CipherWrite

LEMMA MacWriteInv == ASSUME CipherInv, MacWrite PROVE CipherInv'
  <1>1. ASSUME NEW m \in Controls, write_AES_CONTROL(m[1], m[2]) PROVE CipherInv'
    BY <1>1, CipherWriteInv DEF CipherWrite
  <1>2. ASSUME NEW k \in Keys, write_AES_KEY(k) PROVE CipherInv'
    BY <1>2, CipherWriteInv DEF CipherWrite
  <1>3. CASE write_AES_CMAC_INIT
    <2>1. /\ UNCHANGED <<mem, aes, dout>>
          /\ asked'.ctr0 = asked.ctr0 /\ asked'.pos = asked.pos
          /\ asked'.last = asked.last /\ asked'.tagged = <<>>
          /\ DOMAIN asked' = AskedFields
          /\ DOMAIN cmac' = {"active", "data", "tag"}
          /\ cmac'.active = TRUE /\ cmac'.data = <<>>
      BY <1>3 DEF write_AES_CMAC_INIT, AesOnly, CipherInv, TagInv, AskedFields
    <2>2. TagInv'  BY <2>1, EmptyIs DEF TagInv
    <2>3. CounterInv' /\ LastInv'
      BY <2>1 DEF CipherInv, CounterInv, LastInv, aes_increment_counter
    <2> QED  BY <2>1, <2>2, <2>3 DEF CipherInv
  <1>4. CASE write_AES_REMAINING_BYTES
    <2>u. UNCHANGED <<mem, aes, dout>>
      BY <1>4 DEF write_AES_REMAINING_BYTES, AesOnly
    <2>1. CASE cmac.active /\ aes.mode = "CMAC"
      <3>1. /\ asked'.ctr0 = asked.ctr0 /\ asked'.pos = asked.pos
            /\ asked'.last = asked.last /\ asked'.tagged = asked.tagged
            /\ asked'.tagKey = aes.key /\ DOMAIN asked' = AskedFields
            /\ DOMAIN cmac' = {"active", "data", "tag"}
            /\ cmac'.active = FALSE /\ cmac'.tag = aes_cmac(aes.key, cmac.data)
        BY <1>4, <2>1 DEF write_AES_REMAINING_BYTES, CipherInv, TagInv, AskedFields
      <3>2. cmac.data = asked.tagged /\ IsSeq(asked.tagged)
        BY <2>1 DEF CipherInv, TagInv
      <3>3. cmac'.tag = Cmac(asked'.tagKey, asked'.tagged)
        BY <3>1, <3>2, CmacIs
      <3>4. TagInv'  BY <3>1, <3>3 DEF TagInv
      <3>5. CounterInv' /\ LastInv'
        BY <2>u, <3>1 DEF CipherInv, CounterInv, LastInv, aes_increment_counter
      <3> QED  BY <2>u, <3>1, <3>4, <3>5 DEF CipherInv
    <2>2. CASE ~ (cmac.active /\ aes.mode = "CMAC")
      <3>1. UNCHANGED <<cmac, asked>>
        BY <1>4, <2>2 DEF write_AES_REMAINING_BYTES
      <3> QED  BY <2>u, <3>1, CipherKept DEF CipherInv
    <2> QED  BY <2>1, <2>2
  <1> QED  BY <1>1, <1>2, <1>3, <1>4 DEF MacWrite

LEMMA CipherNext == CipherInv /\ [Next]_vars => CipherInv'
  <1> SUFFICES ASSUME CipherInv, [Next]_vars PROVE CipherInv'  OBVIOUS
  <1>k. ASSUME UNCHANGED <<mem, aes, cmac, dout, asked>> PROVE CipherInv'
    BY <1>k, CipherKept DEF CipherInv
  <1>1. CASE UNCHANGED dmaVars  BY <1>1, <1>k DEF dmaVars
  <1>2. CASE HashWrite
    <2>1. UNCHANGED <<mem, aes, cmac, dout>>
      BY <1>2 DEF HashWrite, write_HASH_CONTROL, write_AUTO_HW_PADDING,
                  write_HASH_PAD_CFG, Save, Restore, HashOnly
    <2>2. \/ asked' = asked \/ asked' = [asked EXCEPT !.msg = <<>>]
          \/ asked' = [asked EXCEPT !.msg = saved.msg]
      BY <1>2 DEF HashWrite, write_HASH_CONTROL, write_AUTO_HW_PADDING,
                  write_HASH_PAD_CFG, Save, Restore
    <2>3. /\ asked'.ctr0 = asked.ctr0 /\ asked'.pos = asked.pos
          /\ asked'.last = asked.last /\ asked'.tagged = asked.tagged
          /\ asked'.tagKey = asked.tagKey /\ DOMAIN asked' = AskedFields
      BY <2>2 DEF CipherInv, AskedFields
    <2> QED  BY <2>1, <2>3, CipherKept
  <1>3. CASE CipherWrite  BY <1>3, CipherWriteInv
  <1>4. CASE MacWrite  BY <1>4, MacWriteInv
  <1>5. CASE Transfer
    <2>1. ASSUME NEW e \in Engines, write_CRYPTO_CTL(e) PROVE CipherInv'
      BY <2>1, <1>k DEF write_CRYPTO_CTL
    <2>2. ASSUME NEW m \in Mappings, Remap(m) PROVE CipherInv'
      BY <2>2, <1>k DEF Remap
    <2> QED  BY <1>5, <2>1, <2>2, TransferCipherInv DEF Transfer
  <1>6. CASE DmaReset
    <2>1. /\ dout' = NoTransfer /\ mem' = mem
          /\ aes' = [mode |-> "ECB", decrypt |-> FALSE, key |-> 0, ctr |-> 0]
          /\ cmac' = [active |-> FALSE, data |-> <<>>, tag |-> NoTag]
          /\ asked'.last = asked.last /\ asked'.ctr0 = 0 /\ asked'.pos = 0
          /\ DOMAIN asked' = AskedFields
      BY <1>6 DEF DmaReset, NothingAsked, AskedFields
    <2>2. CounterInv'
      BY <2>1, CounterIs DEF CounterInv, aes_increment_counter
    <2>3. LastInv' /\ TagInv'  BY <2>1 DEF CipherInv, LastInv, TagInv
    <2> QED  BY <2>1, <2>2, <2>3 DEF CipherInv
  <1> QED
    BY <1>1, <1>2, <1>3, <1>4, <1>5, <1>6
    DEF Next, EngineStep, Reset, vars, engines

\* AES: a transfer leaves its input under the key at its place in the stream,
\* for every cut of the stream into transfers and of a transfer into chunks,
\* in place or not, after transfers that failed; and a tag of CMAC is that of
\* the bytes collected.
THEOREM CiphersAreOfStreams == Spec => []CipherIsOfStream
  <1>1. Init => CipherInv  BY CipherInit DEF Init
  <1>2. CipherInv => CipherIsOfStream
    BY DEF CipherInv, LastInv, TagInv, CipherIsOfStream
  <1> QED  BY <1>1, <1>2, CipherNext, PTL DEF Spec

-----------------------------------------------------------------------------
(* Numbers and their digits                                                *)

\* What the recursive functions of the model stand for: one lemma each.
LEMMA Pow2Loop ==
  ASSUME NEW n \in Nat
  PROVE  \E p \in [0 .. n -> Nat] :
           /\ p[0] = 1 /\ \A k \in 1 .. n : p[k] = 2 * p[k - 1]
           /\ Pow2(n) = p[n]
  <1> DEFINE Loop(f) == [k \in 0 .. n |-> IF k = 0 THEN 1 ELSE 2 * f[k - 1]]
             c == CHOOSE f : f = Loop(f)
             G == [x \in (1 .. n) \X Nat |-> 2 * x[2]]
  <1>1. Pow2(n) = c[n]  BY Zenon DEF Pow2
  <1>2. G \in Passes(n, Nat)  BY DEF Passes
  <1>g. \A i \in 1 .. n, x \in Nat : G[<<i, x>>] = 2 * x  OBVIOUS
  <1>0. 1 \in Nat /\ \A i \in 1 .. n : i - 1 \in 0 .. n  OBVIOUS
  <1> HIDE DEF G
  <1>3. PICK f : Runs(f, n, Nat, 1, G)  BY <1>0, <1>2, LoopExists
  <1>4. f = Loop(f)
    <2>1. \A k \in 1 .. n : f[k] = 2 * f[k - 1]  BY <1>0, <1>3, <1>g DEF Runs
    <2> QED  BY <1>3, <2>1 DEF Runs
  <1>5. c = Loop(c)
    <2> HIDE DEF Loop
    <2> QED  BY <1>4
  <1> HIDE DEF c
  <1>6. c = [k \in 0 .. n |-> c[k]]  BY <1>5
  <1>7. c[0] = 1 /\ \A k \in 1 .. n : c[k] = 2 * c[k - 1]  BY <1>5
  <1>8. \A k \in 1 .. n : c[k - 1] \in Nat => c[k] \in Nat  BY <1>7
  <1>9. c \in [0 .. n -> Nat]  BY <1>0, <1>6, <1>7, <1>8, LoopType
  <1> QED  BY <1>1, <1>7, <1>9

LEMMA NumberLoop ==
  ASSUME NEW L \in Nat, NEW radix \in Nat, NEW d \in [1 .. L -> Nat]
  PROVE  \E h \in [0 .. L -> Nat] :
           /\ h[0] = 0
           /\ \A i \in 1 .. L : h[i] = h[i - 1] * radix + d[L - i + 1]
           /\ Number(d, radix) = h[L]
  <1> DEFINE Loop(f) == [i \in 0 .. L |->
                           IF i = 0 THEN 0 ELSE f[i - 1] * radix + d[L - i + 1]]
             c == CHOOSE f : f = Loop(f)
             G == [x \in (1 .. L) \X Nat |-> x[2] * radix + d[L - x[1] + 1]]
  <1>0. Len(d) = L  BY TupleIs
  <1>1. Number(d, radix) = c[L]  BY <1>0, Zenon DEF Number
  <1>2. G \in Passes(L, Nat)
    <2>1. ASSUME NEW x \in (1 .. L) \X Nat PROVE x[2] * radix + d[L - x[1] + 1] \in Nat
      <3>1. L - x[1] + 1 \in 1 .. L /\ x[2] \in Nat  OBVIOUS
      <3> DEFINE k == L - x[1] + 1
                 y == x[2]
                 z == y * radix
      <3> HIDE DEF k, y
      <3>2. k \in 1 .. L /\ y \in Nat  BY <3>1 DEF k, y
      <3>3. d[k] \in Nat /\ z \in Nat  BY <3>2
      <3> HIDE DEF z
      <3>4. z + d[k] \in Nat  BY <3>3
      <3> QED  BY <3>4 DEF k, y, z
    <2> QED  BY <2>1 DEF Passes
  <1>g. \A i \in 1 .. L, x \in Nat : G[<<i, x>>] = x * radix + d[L - i + 1]
    OBVIOUS
  <1>n. 0 \in Nat /\ \A i \in 1 .. L : i - 1 \in 0 .. L  OBVIOUS
  <1> HIDE DEF G
  <1>3. PICK f : Runs(f, L, Nat, 0, G)  BY <1>n, <1>2, LoopExists
  <1>4. f = Loop(f)
    <2>1. \A i \in 1 .. L : f[i] = f[i - 1] * radix + d[L - i + 1]
      BY <1>3, <1>g, <1>n DEF Runs
    <2> QED  BY <1>3, <2>1 DEF Runs
  <1>5. c = Loop(c)
    <2> HIDE DEF Loop
    <2> QED  BY <1>4
  <1> HIDE DEF c
  <1>6. c = [i \in 0 .. L |-> c[i]]  BY <1>5
  <1>7. c[0] = 0 /\ \A i \in 1 .. L : c[i] = c[i - 1] * radix + d[L - i + 1]
    BY <1>5
  <1>8. ASSUME NEW i \in 1 .. L, c[i - 1] \in Nat PROVE c[i] \in Nat
    <2>1. L - i + 1 \in 1 .. L  OBVIOUS
    <2>2. d[L - i + 1] \in Nat /\ c[i - 1] * radix \in Nat  BY <1>8, <2>1
    <2> QED  BY <1>7, <2>2
  <1>9. c \in [0 .. L -> Nat]
    <2>1. c[0] \in Nat  BY <1>7
    <2> QED  BY <1>6, <1>8, <2>1, LoopType
  <1> QED  BY <1>1, <1>7, <1>9

LEMMA IntLoop ==
  ASSUME NEW w \in Nat, NEW v \in Int, Radix \in Nat \ {0},
         pka_word_modulus(w) \in Nat \ {0}
  PROVE  \E rest \in [0 .. w -> Nat] :
           /\ rest[0] = v % pka_word_modulus(w)
           /\ \A i \in 1 .. w : rest[i] = rest[i - 1] \div Radix
           /\ pka_int_to_words(v, w) = [i \in 1 .. w |-> rest[i - 1] % Radix]
  <1> DEFINE v0 == v % pka_word_modulus(w)
             Loop(f) == [i \in 0 .. w |-> IF i = 0 THEN v0 ELSE f[i - 1] \div Radix]
             c == CHOOSE f : f = Loop(f)
             G == [x \in (1 .. w) \X Nat |-> x[2] \div Radix]
  <1>1. pka_int_to_words(v, w) = [i \in 1 .. w |-> c[i - 1] % Radix]
    BY Zenon DEF pka_int_to_words
  <1>v. v0 \in Nat  OBVIOUS
  <1> HIDE DEF v0
  <1>2. G \in Passes(w, Nat)
    <2>1. \A x \in (1 .. w) \X Nat : x[2] \div Radix \in Nat  BY DivMod
    <2> QED  BY <2>1 DEF Passes
  <1>g. \A i \in 1 .. w, x \in Nat : G[<<i, x>>] = x \div Radix  OBVIOUS
  <1>n. \A i \in 1 .. w : i - 1 \in 0 .. w  OBVIOUS
  <1> HIDE DEF G
  <1>3. PICK f : Runs(f, w, Nat, v0, G)  BY <1>v, <1>2, LoopExists
  <1>4. f = Loop(f)
    <2>1. \A i \in 1 .. w : f[i] = f[i - 1] \div Radix  BY <1>3, <1>g, <1>n
      DEF Runs
    <2> QED  BY <1>3, <2>1 DEF Runs
  <1>5. c = Loop(c)
    <2> HIDE DEF Loop
    <2> QED  BY <1>4
  <1> HIDE DEF c
  <1>6. c = [i \in 0 .. w |-> c[i]]  BY <1>5
  <1>7. c[0] = v0 /\ \A i \in 1 .. w : c[i] = c[i - 1] \div Radix  BY <1>5
  <1>8. \A i \in 1 .. w : c[i - 1] \in Nat => c[i] \in Nat  BY <1>7, DivMod
  <1>9. c \in [0 .. w -> Nat]  BY <1>v, <1>6, <1>7, <1>8, LoopType
  <1> QED  BY <1>1, <1>7, <1>9 DEF v0

LEMMA Pow2Step ==
  ASSUME NEW n \in Nat
  PROVE  Pow2(n) \in Nat \ {0} /\ Pow2(n + 1) = 2 * Pow2(n)
  <1>1. PICK p \in [0 .. n -> Nat] :
          /\ p[0] = 1 /\ \A k \in 1 .. n : p[k] = 2 * p[k - 1]
          /\ Pow2(n) = p[n]
    BY Pow2Loop
  <1>2. n + 1 \in Nat  OBVIOUS
  <1>3. PICK q \in [0 .. n + 1 -> Nat] :
          /\ q[0] = 1 /\ \A k \in 1 .. n + 1 : q[k] = 2 * q[k - 1]
          /\ Pow2(n + 1) = q[n + 1]
    BY <1>2, Pow2Loop
  <1> DEFINE S == {k \in 0 .. n : p[k] = q[k] /\ p[k] # 0}
  <1>4. 0 \in S  BY <1>1, <1>3
  <1>5. ASSUME NEW k \in 0 .. n - 1, k \in S PROVE k + 1 \in S
    <2>1. k + 1 \in 1 .. n /\ k + 1 \in 1 .. n + 1 /\ (k + 1) - 1 = k  OBVIOUS
    <2>2. p[k + 1] = 2 * p[k] /\ q[k + 1] = 2 * q[k]  BY <1>1, <1>3, <2>1
    <2>3. p[k] = q[k] /\ p[k] \in Nat /\ p[k] # 0  BY <1>5
    <2> QED  BY <2>2, <2>3
  <1> HIDE DEF S
  <1>6. 0 .. n \subseteq S  BY <1>4, <1>5, Upto
  <1>7. p[n] = q[n] /\ p[n] # 0 /\ p[n] \in Nat  BY <1>6 DEF S
  <1>8. q[n + 1] = 2 * q[n]
    <2>1. n + 1 \in 1 .. n + 1 /\ (n + 1) - 1 = n  OBVIOUS
    <2> QED  BY <1>3, <2>1
  <1> QED  BY <1>1, <1>3, <1>7, <1>8

LEMMA Pow2Zero == Pow2(0) = 1
  <1>1. 0 \in Nat  OBVIOUS
  <1> QED  BY <1>1, Pow2Loop

LEMMA Pow2Sum ==
  ASSUME NEW a \in Nat, NEW b \in Nat
  PROVE  Pow2(a + b) = Pow2(a) * Pow2(b)
  <1> DEFINE S == {k \in Nat : Pow2(a + k) = Pow2(a) * Pow2(k)}
  <1>1. 0 \in S
    <2>1. a + 0 = a /\ Pow2(a) \in Nat  BY Pow2Step
    <2> QED  BY <2>1, Pow2Zero
  <1>2. ASSUME NEW k \in Nat, k \in S PROVE k + 1 \in S
    <2>1. a + k \in Nat /\ (a + k) + 1 = a + (k + 1)  OBVIOUS
    <2>2. Pow2((a + k) + 1) = 2 * Pow2(a + k)  BY <2>1, Pow2Step
    <2>3. Pow2(k + 1) = 2 * Pow2(k) /\ Pow2(k) \in Nat /\ Pow2(a) \in Nat
      BY Pow2Step
    <2>4. Pow2(a + k) = Pow2(a) * Pow2(k)  BY <1>2
    <2>5. \A x, y \in Nat : 2 * (x * y) = x * (2 * y)  OBVIOUS
    <2>6. Pow2(a + (k + 1)) = Pow2(a) * Pow2(k + 1)
      BY <2>1, <2>2, <2>3, <2>4, <2>5
    <2> QED  BY <2>6
  <1> HIDE DEF S
  <1>3. Nat \subseteq S  BY <1>1, <1>2, Induction
  <1> QED  BY <1>3 DEF S

LEMMA RadixIs == Radix \in Nat /\ Radix >= 2
  <1>1. WordBits \in Nat /\ WordBits - 1 \in Nat  BY PkaAssumption
  <1>2. Pow2((WordBits - 1) + 1) = 2 * Pow2(WordBits - 1)
        /\ Pow2(WordBits - 1) \in Nat \ {0}
    BY <1>1, Pow2Step
  <1>3. (WordBits - 1) + 1 = WordBits  BY <1>1
  <1> QED  BY <1>2, <1>3 DEF Radix

LEMMA WidthIs ==
  /\ pka_word_modulus(0) = 1
  /\ \A w \in Nat : /\ pka_word_modulus(w) \in Nat \ {0}
                    /\ pka_word_modulus(w + 1) = pka_word_modulus(w) * Radix
  <1>1. WordBits \in Nat  BY PkaAssumption
  <1>2. pka_word_modulus(0) = 1  BY <1>1, Pow2Zero DEF pka_word_modulus
  <1>3. ASSUME NEW w \in Nat
        PROVE  /\ pka_word_modulus(w) \in Nat \ {0}
               /\ pka_word_modulus(w + 1) = pka_word_modulus(w) * Radix
    <2>1. w * WordBits \in Nat /\ (w + 1) * WordBits = w * WordBits + WordBits
      BY <1>1
    <2> QED  BY <1>1, <2>1, Pow2Step, Pow2Sum DEF pka_word_modulus, Radix
  <1> QED  BY <1>2, <1>3

\* Division of negative numbers too.
LEMMA IntDivMod ==
  ASSUME NEW x \in Int, NEW n \in Nat \ {0}
  PROVE  /\ x \div n \in Int /\ x % n \in 0 .. n - 1
         /\ x = (x \div n) * n + (x % n)
  OBVIOUS

LEMMA IntDivModIs ==
  ASSUME NEW n \in Nat \ {0}, NEW q \in Int, NEW r \in 0 .. n - 1
  PROVE  (q * n + r) \div n = q /\ (q * n + r) % n = r
  <1> DEFINE x == q * n + r
             p == x \div n
             s == x % n
  <1>1. x \in Int  OBVIOUS
  <1>2. p \in Int /\ s \in 0 .. n - 1 /\ x = p * n + s  BY <1>1, IntDivMod
  <1> HIDE DEF p, s
  <1>3. (q - p) * n = s - r  BY <1>2
  <1>4. q - p > 0 => (q - p) * n >= n  BY <1>2
  <1>5. q - p < 0 => (q - p) * n <= 0 - n  BY <1>2
  <1>6. q = p /\ s = r  BY <1>2, <1>3, <1>4, <1>5
  <1> QED  BY <1>6 DEF p, s

\* A number below n is its own remainder.
LEMMA SmallMod ==
  ASSUME NEW n \in Nat \ {0}, NEW r \in 0 .. n - 1
  PROVE  r % n = r /\ r \div n = 0
  <1>1. 0 * n + r = r /\ 0 \in Int  OBVIOUS
  <1>2. (0 * n + r) \div n = 0 /\ (0 * n + r) % n = r  BY <1>1, IntDivModIs
  <1> QED  BY <1>1, <1>2

\* Numbers of L digits lie below the power of the radix.
LEMMA NumberBound ==
  ASSUME NEW L \in Nat, NEW radix \in Nat \ {0}, NEW d \in [1 .. L -> 0 .. radix - 1],
         NEW P \in [0 .. L -> Nat], P[0] = 1,
         \A i \in 1 .. L : P[i] = P[i - 1] * radix
  PROVE  Number(d, radix) \in 0 .. P[L] - 1
  <1>1. d \in [1 .. L -> Nat]  OBVIOUS
  <1>2. PICK h \in [0 .. L -> Nat] :
          /\ h[0] = 0
          /\ \A i \in 1 .. L : h[i] = h[i - 1] * radix + d[L - i + 1]
          /\ Number(d, radix) = h[L]
    BY <1>1, NumberLoop
  <1> DEFINE S == {i \in 0 .. L : h[i] < P[i]}
  <1>3. 0 \in S  BY <1>2
  <1>4. ASSUME NEW i \in 0 .. L - 1, i \in S PROVE i + 1 \in S
    <2>1. i + 1 \in 1 .. L /\ (i + 1) - 1 = i /\ L - (i + 1) + 1 \in 1 .. L
      OBVIOUS
    <2> DEFINE x == d[L - (i + 1) + 1]
    <2>2. x \in 0 .. radix - 1  BY <2>1
    <2>3. h[i + 1] = h[i] * radix + x /\ P[i + 1] = P[i] * radix
      BY <1>2, <2>1
    <2>4. h[i] \in Nat /\ P[i] \in Nat /\ h[i] + 1 <= P[i]  BY <1>4
    <2> DEFINE y == h[i]
               z == P[i]
    <2> HIDE DEF x, y, z
    <2>5. y \in Nat /\ z \in Nat /\ y + 1 <= z  BY <2>4 DEF y, z
    <2>6. (y + 1) * radix <= z * radix /\ (y + 1) * radix = y * radix + radix
      BY <2>5
    <2>7. y * radix \in Nat /\ z * radix \in Nat  BY <2>5
    <2>8. y * radix + x < z * radix  BY <2>2, <2>6, <2>7
    <2> QED  BY <2>1, <2>3, <2>8 DEF y, z
  <1> HIDE DEF S
  <1>5. 0 .. L \subseteq S  BY <1>3, <1>4, Upto
  <1>6. h[L] < P[L] /\ h[L] \in Nat /\ P[L] \in Nat  BY <1>5 DEF S
  <1> QED  BY <1>2, <1>6

LEMMA WordsBound ==
  ASSUME NEW w \in Nat, NEW d \in [1 .. w -> Word]
  PROVE  pka_words_to_int(d) \in 0 .. pka_word_modulus(w) - 1
  <1> DEFINE P == [i \in 0 .. w |-> pka_word_modulus(i)]
  <1>1. Radix \in Nat \ {0}  BY RadixIs
  <1>2. P \in [0 .. w -> Nat]
    <2>1. \A i \in 0 .. w : i \in Nat  OBVIOUS
    <2>2. \A i \in 0 .. w : pka_word_modulus(i) \in Nat  BY <2>1, WidthIs
    <2> QED  BY <2>2
  <1>3. P[0] = 1  BY WidthIs
  <1>4. ASSUME NEW i \in 1 .. w PROVE P[i] = P[i - 1] * Radix
    <2>1. i - 1 \in Nat /\ i - 1 \in 0 .. w /\ (i - 1) + 1 = i  OBVIOUS
    <2>2. pka_word_modulus((i - 1) + 1) = pka_word_modulus(i - 1) * Radix
      BY <2>1, WidthIs
    <2> QED  BY <2>1, <2>2
  <1>5. P[w] = pka_word_modulus(w)  OBVIOUS
  <1> HIDE DEF P
  <1>6. d \in [1 .. w -> 0 .. Radix - 1]  BY DEF Word
  <1> QED  BY <1>1, <1>2, <1>3, <1>4, <1>5, <1>6, NumberBound DEF pka_words_to_int

LEMMA BitsBound ==
  ASSUME NEW n \in Nat, NEW d \in [1 .. n -> 0 .. 1]
  PROVE  Number(d, 2) \in 0 .. Pow2(n) - 1
  <1> DEFINE P == [i \in 0 .. n |-> Pow2(i)]
  <1>2. P \in [0 .. n -> Nat]
    <2>1. \A i \in 0 .. n : i \in Nat  OBVIOUS
    <2>2. \A i \in 0 .. n : Pow2(i) \in Nat  BY <2>1, Pow2Step
    <2> QED  BY <2>2
  <1>3. P[0] = 1  BY Pow2Zero
  <1>4. ASSUME NEW i \in 1 .. n PROVE P[i] = P[i - 1] * 2
    <2>1. i - 1 \in Nat /\ i - 1 \in 0 .. n /\ (i - 1) + 1 = i  OBVIOUS
    <2>2. Pow2((i - 1) + 1) = 2 * Pow2(i - 1) /\ Pow2(i - 1) \in Nat
      BY <2>1, Pow2Step
    <2> QED  BY <2>1, <2>2
  <1>5. P[n] = Pow2(n)  OBVIOUS
  <1> HIDE DEF P
  <1>6. 2 \in Nat \ {0} /\ d \in [1 .. n -> 0 .. 2 - 1]  OBVIOUS
  <1> QED  BY <1>2, <1>3, <1>4, <1>5, <1>6, NumberBound

\* Cut into words and put together again, a number is what it was modulo the
\* width.
LEMMA WordsOfInt ==
  ASSUME NEW w \in Nat, NEW v \in Int
  PROVE  /\ pka_int_to_words(v, w) \in [1 .. w -> Word]
         /\ pka_words_to_int(pka_int_to_words(v, w)) = v % pka_word_modulus(w)
  <1> DEFINE M == pka_word_modulus(w)
             d == pka_int_to_words(v, w)
  <1>1. Radix \in Nat \ {0} /\ M \in Nat \ {0}  BY RadixIs, WidthIs
  <1>2. PICK rest \in [0 .. w -> Nat] :
          /\ rest[0] = v % M
          /\ \A i \in 1 .. w : rest[i] = rest[i - 1] \div Radix
          /\ d = [i \in 1 .. w |-> rest[i - 1] % Radix]
    BY <1>1, IntLoop
  <1> HIDE DEF d
  <1>3. d \in [1 .. w -> Word] /\ d \in [1 .. w -> Nat]
    <2>0. \A i \in 1 .. w : i - 1 \in 0 .. w  OBVIOUS
    <2>1. \A i \in 1 .. w : rest[i - 1] % Radix \in 0 .. Radix - 1
      BY <1>1, <1>2, <2>0, DivMod
    <2>2. \A i \in 1 .. w : rest[i - 1] % Radix \in Word  BY <2>1 DEF Word
    <2>3. Word \subseteq Nat  BY <1>1 DEF Word
    <2> HIDE DEF Word
    <2> QED  BY <1>2, <2>2, <2>3
  <1>4. PICK h \in [0 .. w -> Nat] :
          /\ h[0] = 0
          /\ \A i \in 1 .. w : h[i] = h[i - 1] * Radix + d[w - i + 1]
          /\ Number(d, Radix) = h[w]
    BY <1>1, <1>3, NumberLoop
  <1> DEFINE S == {i \in 0 .. w : rest[i] < pka_word_modulus(w - i)}
  <1>5. 0 .. w \subseteq S
    <2>1. 0 \in S
      <3>1. w - 0 = w /\ 0 \in 0 .. w  OBVIOUS
      <3>2. v % M < M
        <4> HIDE DEF M
        <4>1. v % M \in 0 .. M - 1  BY <1>1, IntDivMod
        <4> QED  BY <1>1, <4>1
      <3> QED  BY <1>2, <3>1, <3>2
    <2>2. ASSUME NEW i \in 0 .. w - 1, i \in S PROVE i + 1 \in S
      <3> DEFINE m == pka_word_modulus(w - (i + 1))
                 x == rest[i]
      <3>1. i + 1 \in 1 .. w /\ (i + 1) - 1 = i /\ w - (i + 1) \in Nat
            /\ (w - (i + 1)) + 1 = w - i
        OBVIOUS
      <3>2. m \in Nat \ {0} /\ pka_word_modulus(w - i) = m * Radix
        BY <3>1, WidthIs
      <3>3. x \in Nat /\ x < m * Radix  BY <2>2, <3>2
      <3>4. rest[i + 1] = x \div Radix  BY <1>2, <3>1
      <3>5. x \div Radix < m
        <4> HIDE DEF x, m
        <4> DEFINE q == x \div Radix
        <4>1. q \in Nat /\ x % Radix \in 0 .. Radix - 1
              /\ x = q * Radix + (x % Radix)
          BY <1>1, <3>3, DivMod
        <4> HIDE DEF q
        <4> DEFINE s == x % Radix
        <4> HIDE DEF s
        <4>0. q * Radix \in Nat /\ m * Radix \in Nat /\ s \in Nat /\ x = q * Radix + s
          BY <1>1, <3>2, <4>1 DEF s
        <4>2. q * Radix < m * Radix  BY <3>3, <4>0
        <4>3. q >= m => q * Radix >= m * Radix  BY <1>1, <3>2, <4>1
        <4>4. q < m  BY <1>1, <3>2, <4>1, <4>2, <4>3
        <4> QED  BY <4>4 DEF q
      <3> QED  BY <3>1, <3>4, <3>5
    <2> HIDE DEF S
    <2> QED  BY <2>1, <2>2, Upto
  <1> DEFINE T == {i \in 0 .. w : h[i] = rest[w - i]}
  <1>6. 0 .. w \subseteq T
    <2>1. 0 \in T
      <3>1. w \in S /\ w - w = 0  BY <1>5
      <3>2. rest[w] < 1 /\ rest[w] \in Nat  BY <3>1, WidthIs
      <3>3. rest[w] = 0 /\ w - 0 = w /\ 0 \in 0 .. w  BY <3>2
      <3> QED  BY <1>4, <3>3
    <2>2. ASSUME NEW i \in 0 .. w - 1, i \in T PROVE i + 1 \in T
      <3> DEFINE j == w - (i + 1)
                 x == rest[j]
      <3>1. i + 1 \in 1 .. w /\ (i + 1) - 1 = i /\ j \in 0 .. w - 1
            /\ j + 1 = w - i /\ j + 1 \in 1 .. w /\ (j + 1) - 1 = j
            /\ w - (i + 1) + 1 = j + 1
        OBVIOUS
      <3>2. x \in Nat  BY <3>1
      <3>3. h[i + 1] = h[i] * Radix + d[j + 1]  BY <1>4, <3>1
      <3>4. d[j + 1] = x % Radix  BY <1>2, <3>1
      <3>5. h[i] = x \div Radix  BY <1>2, <2>2, <3>1
      <3>6. x = (x \div Radix) * Radix + (x % Radix)  BY <1>1, <3>2, DivMod
      <3> HIDE DEF x
      <3>7. h[i + 1] = x  BY <3>3, <3>4, <3>5, <3>6
      <3> QED  BY <3>1, <3>7 DEF x
    <2> HIDE DEF T
    <2> QED  BY <2>1, <2>2, Upto
  <1>7. h[w] = rest[0]
    <2>1. w \in T /\ w - w = 0  BY <1>6
    <2> QED  BY <2>1
  <1> QED  BY <1>2, <1>3, <1>4, <1>7 DEF d, pka_words_to_int

-----------------------------------------------------------------------------
(* Addition and subtraction word by word                                   *)

LEMMA CarryIs ==
  ASSUME NEW a \in Word, NEW b \in Word, NEW c \in 0 .. 1
  PROVE  /\ (a + b + c) \div Radix \in 0 .. 1 /\ (a + b + c) % Radix \in Word
         /\ a + b + c = ((a + b + c) % Radix) + Radix * ((a + b + c) \div Radix)
  <1> DEFINE x == a + b + c
             q == x \div Radix
             s == x % Radix
  <1>1. Radix \in Nat \ {0} /\ Radix >= 2  BY RadixIs
  <1>2. a \in 0 .. Radix - 1 /\ b \in 0 .. Radix - 1  BY DEF Word
  <1>3. x \in Nat /\ x < 2 * Radix  BY <1>1, <1>2
  <1> HIDE DEF x
  <1>4. q \in Nat /\ s \in 0 .. Radix - 1 /\ x = q * Radix + s
    BY <1>1, <1>3, DivMod
  <1> HIDE DEF q, s
  <1>5. q >= 2 => q * Radix >= 2 * Radix  BY <1>1, <1>4
  <1>6. q \in 0 .. 1  BY <1>1, <1>3, <1>4, <1>5
  <1> QED  BY <1>1, <1>4, <1>6 DEF x, q, s, Word

LEMMA BorrowIs ==
  ASSUME NEW a \in Word, NEW b \in Word, NEW c \in 0 .. 1
  PROVE  /\ (a - b - c) % Radix \in Word
         /\ a - b - c = ((a - b - c) % Radix)
                           - Radix * (IF a < b + c THEN 1 ELSE 0)
  <1> DEFINE k == IF a < b + c THEN 1 ELSE 0
             s == a - b - c + Radix * k
  <1>1. Radix \in Nat \ {0} /\ Radix >= 2  BY RadixIs
  <1>2. a \in 0 .. Radix - 1 /\ b \in 0 .. Radix - 1  BY DEF Word
  <1>3. k \in 0 .. 1 /\ 0 - k \in Int /\ s \in 0 .. Radix - 1  BY <1>1, <1>2
  <1>4. (0 - k) * Radix + s = a - b - c  BY <1>1, <1>2, <1>3
  <1>5. ((0 - k) * Radix + s) % Radix = s
    <2> HIDE DEF s, k
    <2> QED  BY <1>1, <1>3, IntDivModIs
  <1> QED  BY <1>1, <1>2, <1>3, <1>4, <1>5 DEF Word

LEMMA AddLoop ==
  ASSUME NEW w \in Nat, NEW l \in [1 .. w -> Word], NEW r \in [1 .. w -> Word]
  PROVE  \E c \in [0 .. w -> 0 .. 1] :
           /\ c[0] = 0
           /\ \A i \in 1 .. w : c[i] = (l[i] + r[i] + c[i - 1]) \div Radix
           /\ pka_add_words(l, r) =
                [words |-> [i \in 1 .. w |-> (l[i] + r[i] + c[i - 1]) % Radix],
                 carry |-> c[w] # 0]
  <1> DEFINE V == 0 .. 1
             Loop(f) == [i \in 0 .. Len(l) |-> IF i = 0 THEN 0
                           ELSE (l[i] + r[i] + f[i - 1]) \div Radix]
             c == CHOOSE f : f = Loop(f)
             G == [x \in (1 .. w) \X V |-> (l[x[1]] + r[x[1]] + x[2]) \div Radix]
  <1>0. Len(l) = w  BY TupleIs
  <1>1. pka_add_words(l, r) =
          [words |-> [i \in 1 .. w |-> (l[i] + r[i] + c[i - 1]) % Radix],
           carry |-> c[w] # 0]
    <2>1. pka_add_words(l, r) =
            [words |-> [i \in 1 .. Len(l) |-> (l[i] + r[i] + c[i - 1]) % Radix],
             carry |-> c[Len(l)] # 0]
      BY Zenon DEF pka_add_words
    <2> HIDE DEF c
    <2> QED  BY <1>0, <2>1
  <1>a. \A i \in 1 .. w, x \in V : (l[i] + r[i] + x) \div Radix \in V
    BY CarryIs
  <1>2. G \in Passes(w, V)
    <2>1. \A x \in (1 .. w) \X V : (l[x[1]] + r[x[1]] + x[2]) \div Radix \in V
      BY <1>a
    <2> HIDE DEF V
    <2> QED  BY <2>1 DEF Passes
  <1>g. \A i \in 1 .. w, x \in V : G[<<i, x>>] = (l[i] + r[i] + x) \div Radix
    <2> HIDE DEF V
    <2> QED  OBVIOUS
  <1>n. 0 \in V /\ \A i \in 1 .. w : i - 1 \in 0 .. w  OBVIOUS
  <1> HIDE DEF G, V
  <1>3. PICK f : Runs(f, w, V, 0, G)  BY <1>n, <1>2, LoopExists
  <1>4. f = Loop(f)
    <2>1. \A i \in 1 .. w : f[i] = (l[i] + r[i] + f[i - 1]) \div Radix
      BY <1>3, <1>g, <1>n DEF Runs
    <2> QED  BY <1>0, <1>3, <2>1 DEF Runs
  <1>5. c = Loop(c)
    <2> HIDE DEF Loop
    <2> QED  BY <1>4
  <1> HIDE DEF c
  <1>6. c = [i \in 0 .. w |-> c[i]]  BY <1>0, <1>5
  <1>7. c[0] = 0 /\ \A i \in 1 .. w : c[i] = (l[i] + r[i] + c[i - 1]) \div Radix
    BY <1>0, <1>5
  <1>8. \A i \in 1 .. w : c[i - 1] \in V => c[i] \in V  BY <1>7, <1>a
  <1>9. c \in [0 .. w -> V]
    <2>1. c[0] \in V  BY <1>n, <1>7
    <2> QED  BY <1>6, <1>8, <2>1, LoopType
  <1> QED  BY <1>1, <1>7, <1>9 DEF V

LEMMA SubLoop ==
  ASSUME NEW w \in Nat, NEW l \in [1 .. w -> Word], NEW r \in [1 .. w -> Word]
  PROVE  \E c \in [0 .. w -> 0 .. 1] :
           /\ c[0] = 0
           /\ \A i \in 1 .. w : c[i] = IF l[i] < r[i] + c[i - 1] THEN 1 ELSE 0
           /\ pka_sub_words(l, r) =
                [words |-> [i \in 1 .. w |-> (l[i] - r[i] - c[i - 1]) % Radix],
                 carry |-> c[w] # 0]
  <1> DEFINE V == 0 .. 1
             Loop(f) == [i \in 0 .. Len(l) |-> IF i = 0 THEN 0
                           ELSE IF l[i] < r[i] + f[i - 1] THEN 1 ELSE 0]
             c == CHOOSE f : f = Loop(f)
             G == [x \in (1 .. w) \X V |->
                     IF l[x[1]] < r[x[1]] + x[2] THEN 1 ELSE 0]
  <1>0. Len(l) = w  BY TupleIs
  <1>1. pka_sub_words(l, r) =
          [words |-> [i \in 1 .. w |-> (l[i] - r[i] - c[i - 1]) % Radix],
           carry |-> c[w] # 0]
    <2>1. pka_sub_words(l, r) =
            [words |-> [i \in 1 .. Len(l) |-> (l[i] - r[i] - c[i - 1]) % Radix],
             carry |-> c[Len(l)] # 0]
      BY Zenon DEF pka_sub_words
    <2> HIDE DEF c
    <2> QED  BY <1>0, <2>1
  <1>n. 0 \in V /\ 1 \in V /\ \A i \in 1 .. w : i - 1 \in 0 .. w  OBVIOUS
  <1> HIDE DEF V
  <1>2. G \in Passes(w, V)  BY <1>n DEF Passes
  <1>g. \A i \in 1 .. w, x \in V :
          G[<<i, x>>] = IF l[i] < r[i] + x THEN 1 ELSE 0
    OBVIOUS
  <1> HIDE DEF G
  <1>3. PICK f : Runs(f, w, V, 0, G)  BY <1>n, <1>2, LoopExists
  <1>4. f = Loop(f)
    <2>1. \A i \in 1 .. w : f[i] = IF l[i] < r[i] + f[i - 1] THEN 1 ELSE 0
      BY <1>3, <1>g, <1>n DEF Runs
    <2> QED  BY <1>0, <1>3, <2>1 DEF Runs
  <1>5. c = Loop(c)
    <2> HIDE DEF Loop
    <2> QED  BY <1>4
  <1> HIDE DEF c
  <1>6. c = [i \in 0 .. w |-> c[i]]  BY <1>0, <1>5
  <1>7. c[0] = 0 /\ \A i \in 1 .. w : c[i] = IF l[i] < r[i] + c[i - 1] THEN 1 ELSE 0
    BY <1>0, <1>5
  <1>8. \A i \in 1 .. w : c[i - 1] \in V => c[i] \in V  BY <1>7, <1>n
  <1>9. c \in [0 .. w -> V]
    <2>1. c[0] \in V  BY <1>n, <1>7
    <2> QED  BY <1>6, <1>8, <2>1, LoopType
  <1> QED  BY <1>1, <1>7, <1>9 DEF V

\* The chain of carries adds, that of borrows subtracts.
LEMMA AddIs ==
  ASSUME NEW w \in Nat, NEW l \in [1 .. w -> Word], NEW r \in [1 .. w -> Word]
  PROVE  LET s == pka_add_words(l, r)
             M == pka_word_modulus(w)
             x == pka_words_to_int(l) + pka_words_to_int(r)
         IN  /\ s.words \in [1 .. w -> Word] /\ s.carry \in BOOLEAN
             /\ pka_words_to_int(s.words) = x % M
             /\ s.carry <=> x >= M
  <1> DEFINE M == pka_word_modulus(w)
             s == pka_add_words(l, r)
             d == s.words
             X == pka_words_to_int(l)
             Y == pka_words_to_int(r)
             Z == pka_words_to_int(d)
  <1>1. Radix \in Nat \ {0} /\ M \in Nat \ {0}  BY RadixIs, WidthIs
  <1>2. PICK c \in [0 .. w -> 0 .. 1] :
          /\ c[0] = 0
          /\ \A i \in 1 .. w : c[i] = (l[i] + r[i] + c[i - 1]) \div Radix
          /\ s = [words |-> [i \in 1 .. w |-> (l[i] + r[i] + c[i - 1]) % Radix],
                  carry |-> c[w] # 0]
    BY AddLoop
  <1>3. s.carry = (c[w] # 0) /\ d = [i \in 1 .. w |-> (l[i] + r[i] + c[i - 1]) % Radix]
    BY <1>2
  <1> HIDE DEF s
  <1>4. \A i \in 1 .. w : i - 1 \in 0 .. w  OBVIOUS
  <1>5. d \in [1 .. w -> Word]
    <2>1. \A i \in 1 .. w : (l[i] + r[i] + c[i - 1]) % Radix \in Word
      BY <1>4, CarryIs
    <2> QED  BY <1>3, <2>1
  <1>6. \A i \in 1 .. w : l[i] + r[i] + c[i - 1] = d[i] + Radix * c[i]
    BY <1>2, <1>3, <1>4, CarryIs
  <1>w. Word \subseteq Nat  BY <1>1 DEF Word
  <1> HIDE DEF d
  <1>7. l \in [1 .. w -> Nat] /\ r \in [1 .. w -> Nat] /\ d \in [1 .. w -> Nat]
    BY <1>5, <1>w
  <1>8. PICK hl \in [0 .. w -> Nat] :
          /\ hl[0] = 0
          /\ \A i \in 1 .. w : hl[i] = hl[i - 1] * Radix + l[w - i + 1]
          /\ Number(l, Radix) = hl[w]
    BY <1>1, <1>7, NumberLoop
  <1>9. PICK hr \in [0 .. w -> Nat] :
          /\ hr[0] = 0
          /\ \A i \in 1 .. w : hr[i] = hr[i - 1] * Radix + r[w - i + 1]
          /\ Number(r, Radix) = hr[w]
    BY <1>1, <1>7, NumberLoop
  <1>10. PICK hd \in [0 .. w -> Nat] :
          /\ hd[0] = 0
          /\ \A i \in 1 .. w : hd[i] = hd[i - 1] * Radix + d[w - i + 1]
          /\ Number(d, Radix) = hd[w]
    BY <1>1, <1>7, NumberLoop
  <1> DEFINE S == {i \in 0 .. w : hl[i] + hr[i] + c[w - i]
                                    = hd[i] + c[w] * pka_word_modulus(i)}
  <1>11. 0 .. w \subseteq S
    <2>1. 0 \in S
      <3>1. w - 0 = w /\ 0 \in 0 .. w /\ w \in 0 .. w  OBVIOUS
      <3>2. c[w] \in 0 .. 1  BY <3>1
      <3>3. pka_word_modulus(0) = 1  BY WidthIs
      <3>4. hl[0] + hr[0] + c[w] = hd[0] + c[w] * 1
        BY <1>8, <1>9, <1>10, <3>2
      <3> QED  BY <3>1, <3>3, <3>4
    <2>2. ASSUME NEW i \in 0 .. w - 1, i \in S PROVE i + 1 \in S
      <3> DEFINE j == w - (i + 1)
                 p == pka_word_modulus(i)
      <3>1. i + 1 \in 1 .. w /\ (i + 1) - 1 = i /\ j \in 0 .. w /\ i \in 0 .. w
            /\ j + 1 = w - i /\ j + 1 \in 1 .. w /\ (j + 1) - 1 = j /\ j + 1 \in 0 .. w
            /\ w - (i + 1) + 1 = j + 1 /\ w \in 0 .. w /\ i \in Nat
        OBVIOUS
      <3>2. p \in Nat /\ pka_word_modulus(i + 1) = p * Radix  BY <3>1, WidthIs
      <3>3. /\ hl[i + 1] = hl[i] * Radix + l[j + 1]
            /\ hr[i + 1] = hr[i] * Radix + r[j + 1]
            /\ hd[i + 1] = hd[i] * Radix + d[j + 1]
        BY <1>8, <1>9, <1>10, <3>1
      <3>4. hl[i] + hr[i] + c[j + 1] = hd[i] + c[w] * p  BY <2>2, <3>1
      <3>5. l[j + 1] + r[j + 1] + c[j] = d[j + 1] + Radix * c[j + 1]
        BY <1>6, <3>1
      <3> HIDE DEF j, p
      <3> DEFINE k == c[w]
                 x == hl[i]
                 y == hr[i]
                 z == hd[i]
                 a == l[j + 1]
                 b == r[j + 1]
                 e == d[j + 1]
                 f == c[j]
                 g == c[j + 1]
      <3>6. /\ Radix \in Int /\ p \in Int
            /\ x \in Int /\ y \in Int /\ z \in Int
        BY <1>1, <3>1, <3>2
      <3>8. a \in Int /\ b \in Int /\ e \in Int  BY <1>7, <3>1
      <3>9. k \in Int /\ f \in Int /\ g \in Int  BY <3>1
      <3>10. x + y + g = z + k * p /\ a + b + f = e + Radix * g
        BY <3>4, <3>5
      <3> HIDE DEF x, y, z, a, b, e, f, g, k
      <3>7. (x * Radix + a) + (y * Radix + b) + f = (z * Radix + e) + k * (p * Radix)
        <4>1. (x + y + g) * Radix = (z + k * p) * Radix  BY <3>10
        <4>2. (x + y + g) * Radix = x * Radix + y * Radix + Radix * g
          BY <3>6, <3>9
        <4>3. (z + k * p) * Radix = z * Radix + k * (p * Radix)  BY <3>6, <3>9
        <4> DEFINE xr == x * Radix
                   yr == y * Radix
                   zr == z * Radix
                   gr == Radix * g
                   kr == k * (p * Radix)
        <4>4. xr \in Int /\ yr \in Int /\ zr \in Int /\ gr \in Int /\ kr \in Int
          BY <3>6, <3>9
        <4>5. xr + yr + gr = zr + kr  BY <4>1, <4>2, <4>3
        <4>6. a + b + f = e + gr  BY <3>10
        <4> HIDE DEF xr, yr, zr, gr, kr
        <4>7. (xr + a) + (yr + b) + f = (zr + e) + kr
          BY <3>8, <3>9, <4>4, <4>5, <4>6
        <4> QED  BY <4>7 DEF xr, yr, zr, gr, kr
      <3> QED  BY <3>1, <3>2, <3>3, <3>7 DEF j, x, y, z, a, b, e, f, k
    <2> HIDE DEF S
    <2> QED  BY <2>1, <2>2, Upto
  <1>12. X + Y = Z + c[w] * M
    <2>1. w \in S /\ w - w = 0 /\ w \in 0 .. w  BY <1>11
    <2>2. hl[w] + hr[w] + c[0] = hd[w] + c[w] * M  BY <2>1
    <2>3. hl[w] \in Nat /\ hr[w] \in Nat  BY <2>1
    <2> QED  BY <1>2, <1>8, <1>9, <1>10, <2>2, <2>3 DEF pka_words_to_int
  <1>13. X \in 0 .. M - 1 /\ Y \in 0 .. M - 1 /\ Z \in 0 .. M - 1
    BY <1>5, WordsBound
  <1>14. c[w] \in 0 .. 1 /\ c[w] \in Int  OBVIOUS
  <1> HIDE DEF M, X, Y, Z
  <1>15. (c[w] * M + Z) % M = Z  BY <1>1, <1>13, <1>14, IntDivModIs
  <1>16. X + Y = c[w] * M + Z  BY <1>1, <1>12, <1>13, <1>14
  <1>17. (c[w] # 0) <=> X + Y >= M
    <2>1. CASE c[w] = 0  BY <1>1, <1>13, <1>16, <2>1
    <2>2. CASE c[w] = 1  BY <1>1, <1>13, <1>16, <2>2
    <2> QED  BY <1>14, <2>1, <2>2
  <1> QED  BY <1>3, <1>5, <1>15, <1>16, <1>17 DEF M, X, Y, Z, d, s

LEMMA SubIs ==
  ASSUME NEW w \in Nat, NEW l \in [1 .. w -> Word], NEW r \in [1 .. w -> Word]
  PROVE  LET s == pka_sub_words(l, r)
             M == pka_word_modulus(w)
             x == pka_words_to_int(l)
             y == pka_words_to_int(r)
         IN  /\ s.words \in [1 .. w -> Word] /\ s.carry \in BOOLEAN
             /\ pka_words_to_int(s.words) = (x - y) % M
             /\ s.carry <=> x < y
  <1> DEFINE M == pka_word_modulus(w)
             s == pka_sub_words(l, r)
             d == s.words
             X == pka_words_to_int(l)
             Y == pka_words_to_int(r)
             Z == pka_words_to_int(d)
  <1>1. Radix \in Nat \ {0} /\ M \in Nat \ {0}  BY RadixIs, WidthIs
  <1>2. PICK c \in [0 .. w -> 0 .. 1] :
          /\ c[0] = 0
          /\ \A i \in 1 .. w : c[i] = IF l[i] < r[i] + c[i - 1] THEN 1 ELSE 0
          /\ s = [words |-> [i \in 1 .. w |-> (l[i] - r[i] - c[i - 1]) % Radix],
                  carry |-> c[w] # 0]
    BY SubLoop
  <1>3. s.carry = (c[w] # 0) /\ d = [i \in 1 .. w |-> (l[i] - r[i] - c[i - 1]) % Radix]
    BY <1>2
  <1> HIDE DEF s
  <1>4. \A i \in 1 .. w : i - 1 \in 0 .. w  OBVIOUS
  <1>5. d \in [1 .. w -> Word]
    <2>1. \A i \in 1 .. w : (l[i] - r[i] - c[i - 1]) % Radix \in Word
      BY <1>4, BorrowIs
    <2> QED  BY <1>3, <2>1
  <1>6. ASSUME NEW i \in 1 .. w
        PROVE  l[i] - r[i] - c[i - 1] = d[i] - Radix * c[i]
    <2> DEFINE a == l[i]
               b == r[i]
               e == c[i - 1]
    <2>0. a \in Word /\ b \in Word /\ e \in 0 .. 1  BY <1>4
    <2> HIDE DEF a, b, e
    <2>1. a - b - e = ((a - b - e) % Radix) - Radix * (IF a < b + e THEN 1 ELSE 0)
      BY <2>0, BorrowIs
    <2> USE DEF a, b, e
    <2> QED  BY <1>2, <1>3, <2>1
  <1>w. Word \subseteq Nat  BY <1>1 DEF Word
  <1> HIDE DEF d
  <1>7. l \in [1 .. w -> Nat] /\ r \in [1 .. w -> Nat] /\ d \in [1 .. w -> Nat]
    BY <1>5, <1>w
  <1>8. PICK hl \in [0 .. w -> Nat] :
          /\ hl[0] = 0
          /\ \A i \in 1 .. w : hl[i] = hl[i - 1] * Radix + l[w - i + 1]
          /\ Number(l, Radix) = hl[w]
    BY <1>1, <1>7, NumberLoop
  <1>9. PICK hr \in [0 .. w -> Nat] :
          /\ hr[0] = 0
          /\ \A i \in 1 .. w : hr[i] = hr[i - 1] * Radix + r[w - i + 1]
          /\ Number(r, Radix) = hr[w]
    BY <1>1, <1>7, NumberLoop
  <1>10. PICK hd \in [0 .. w -> Nat] :
          /\ hd[0] = 0
          /\ \A i \in 1 .. w : hd[i] = hd[i - 1] * Radix + d[w - i + 1]
          /\ Number(d, Radix) = hd[w]
    BY <1>1, <1>7, NumberLoop
  <1> DEFINE S == {i \in 0 .. w : hl[i] - hr[i] - c[w - i]
                                    = hd[i] - c[w] * pka_word_modulus(i)}
  <1>11. 0 .. w \subseteq S
    <2>1. 0 \in S
      <3>1. w - 0 = w /\ 0 \in 0 .. w /\ w \in 0 .. w  OBVIOUS
      <3>2. c[w] \in 0 .. 1  BY <3>1
      <3>3. pka_word_modulus(0) = 1  BY WidthIs
      <3>4. hl[0] - hr[0] - c[w] = hd[0] - c[w] * 1
        BY <1>8, <1>9, <1>10, <3>2
      <3> QED  BY <3>1, <3>3, <3>4
    <2>2. ASSUME NEW i \in 0 .. w - 1, i \in S PROVE i + 1 \in S
      <3> DEFINE j == w - (i + 1)
                 p == pka_word_modulus(i)
      <3>1. i + 1 \in 1 .. w /\ (i + 1) - 1 = i /\ j \in 0 .. w /\ i \in 0 .. w
            /\ j + 1 = w - i /\ j + 1 \in 1 .. w /\ (j + 1) - 1 = j /\ j + 1 \in 0 .. w
            /\ w - (i + 1) + 1 = j + 1 /\ w \in 0 .. w /\ i \in Nat
        OBVIOUS
      <3>2. p \in Nat /\ pka_word_modulus(i + 1) = p * Radix  BY <3>1, WidthIs
      <3>3. /\ hl[i + 1] = hl[i] * Radix + l[j + 1]
            /\ hr[i + 1] = hr[i] * Radix + r[j + 1]
            /\ hd[i + 1] = hd[i] * Radix + d[j + 1]
        BY <1>8, <1>9, <1>10, <3>1
      <3>4. hl[i] - hr[i] - c[j + 1] = hd[i] - c[w] * p  BY <2>2, <3>1
      <3>5. l[j + 1] - r[j + 1] - c[j] = d[j + 1] - Radix * c[j + 1]
        BY <1>6, <3>1
      <3> HIDE DEF j, p
      <3> DEFINE k == c[w]
                 x == hl[i]
                 y == hr[i]
                 z == hd[i]
                 a == l[j + 1]
                 b == r[j + 1]
                 e == d[j + 1]
                 f == c[j]
                 g == c[j + 1]
      <3>6. /\ Radix \in Int /\ p \in Int
            /\ x \in Int /\ y \in Int /\ z \in Int
        BY <1>1, <3>1, <3>2
      <3>8. a \in Int /\ b \in Int /\ e \in Int  BY <1>7, <3>1
      <3>9. k \in Int /\ f \in Int /\ g \in Int  BY <3>1
      <3>10. x - y - g = z - k * p /\ a - b - f = e - Radix * g
        BY <3>4, <3>5
      <3> HIDE DEF x, y, z, a, b, e, f, g, k
      <3>7. (x * Radix + a) - (y * Radix + b) - f = (z * Radix + e) - k * (p * Radix)
        <4>1. (x - y - g) * Radix = (z - k * p) * Radix  BY <3>10
        <4>2. (x - y - g) * Radix = x * Radix - y * Radix - Radix * g
          BY <3>6, <3>9
        <4>3. (z - k * p) * Radix = z * Radix - k * (p * Radix)  BY <3>6, <3>9
        <4> DEFINE xr == x * Radix
                   yr == y * Radix
                   zr == z * Radix
                   gr == Radix * g
                   kr == k * (p * Radix)
        <4>4. xr \in Int /\ yr \in Int /\ zr \in Int /\ gr \in Int /\ kr \in Int
          BY <3>6, <3>9
        <4>5. xr - yr - gr = zr - kr  BY <4>1, <4>2, <4>3
        <4>6. a - b - f = e - gr  BY <3>10
        <4> HIDE DEF xr, yr, zr, gr, kr
        <4>7. (xr + a) - (yr + b) - f = (zr + e) - kr
          BY <3>8, <3>9, <4>4, <4>5, <4>6
        <4> QED  BY <4>7 DEF xr, yr, zr, gr, kr
      <3> QED  BY <3>1, <3>2, <3>3, <3>7 DEF j, x, y, z, a, b, e, f, k
    <2> HIDE DEF S
    <2> QED  BY <2>1, <2>2, Upto
  <1>12. X - Y = Z - c[w] * M
    <2>1. w \in S /\ w - w = 0 /\ w \in 0 .. w  BY <1>11
    <2>2. hl[w] - hr[w] - c[0] = hd[w] - c[w] * M  BY <2>1
    <2>3. hl[w] \in Nat /\ hr[w] \in Nat  BY <2>1
    <2> QED  BY <1>2, <1>8, <1>9, <1>10, <2>2, <2>3 DEF pka_words_to_int
  <1>13. X \in 0 .. M - 1 /\ Y \in 0 .. M - 1 /\ Z \in 0 .. M - 1
    BY <1>5, WordsBound
  <1>14. c[w] \in 0 .. 1 /\ 0 - c[w] \in Int  OBVIOUS
  <1> HIDE DEF M, X, Y, Z
  <1>15. ((0 - c[w]) * M + Z) % M = Z  BY <1>1, <1>13, <1>14, IntDivModIs
  <1>16. X - Y = (0 - c[w]) * M + Z  BY <1>1, <1>12, <1>13, <1>14
  <1>17. (c[w] # 0) <=> X < Y
    <2>1. CASE c[w] = 0  BY <1>1, <1>13, <1>16, <2>1
    <2>2. CASE c[w] = 1  BY <1>1, <1>13, <1>16, <2>2
    <2> QED  BY <1>14, <2>1, <2>2
  <1> QED  BY <1>3, <1>5, <1>15, <1>16, <1>17 DEF M, X, Y, Z, d, s

-----------------------------------------------------------------------------
(* Shifts                                                                  *)

LEMMA DivDiv ==
  ASSUME NEW x \in Nat, NEW a \in Nat \ {0}, NEW b \in Nat \ {0}
  PROVE  (x \div a) \div b = x \div (a * b)
  <1> DEFINE q == x \div a
             s == x % a
             p == q \div b
             u == q % b
  <1>1. q \in Nat /\ s \in 0 .. a - 1 /\ x = q * a + s  BY DivMod
  <1> HIDE DEF q, s
  <1>2. p \in Nat /\ u \in 0 .. b - 1 /\ q = p * b + u  BY <1>1, DivMod
  <1> HIDE DEF p, u
  <1>3. a * b \in Nat \ {0}  OBVIOUS
  <1>4. x = p * (a * b) + (u * a + s)
    <2>1. (p * b + u) * a = (p * b) * a + u * a  BY <1>2
    <2>2. (p * b) * a = p * (a * b)  BY <1>2
    <2>3. q * a = p * (a * b) + u * a  BY <1>2, <2>1, <2>2
    <2> DEFINE m == p * (a * b)
               n == u * a
    <2>4. m \in Nat /\ n \in Nat  BY <1>2, <1>3
    <2>5. x = m + n + s  BY <1>1, <2>3
    <2> HIDE DEF m, n
    <2>6. x = m + (n + s)  BY <1>1, <2>4, <2>5
    <2> QED  BY <2>6 DEF m, n
  <1>5. u * a + s \in 0 .. (a * b) - 1
    <2>1. (u + 1) * a <= b * a  BY <1>2
    <2>2. (u + 1) * a = u * a + a /\ u * a \in Nat /\ b * a = a * b  BY <1>2
    <2> QED  BY <1>1, <1>3, <2>1, <2>2
  <1>6. (p * (a * b) + (u * a + s)) \div (a * b) = p
    BY <1>2, <1>3, <1>5, DivModIs
  <1>7. x \div (a * b) = p  BY <1>4, <1>6
  <1> QED  BY <1>7 DEF p, q

LEMMA BitIs ==
  ASSUME NEW x \in Nat, NEW k \in Nat
  PROVE  Bit(x, k) \in 0 .. 1 /\ x \div Pow2(k) \in Nat
  <1>1. Pow2(k) \in Nat \ {0}  BY Pow2Step
  <1>2. x \div Pow2(k) \in Nat  BY <1>1, DivMod
  <1> DEFINE y == x \div Pow2(k)
  <1> HIDE DEF y
  <1>3. y \in Nat /\ 2 \in Nat \ {0}  BY <1>2 DEF y
  <1>4. y % 2 \in 0 .. 2 - 1  BY <1>3, DivMod
  <1> QED  BY <1>2, <1>4 DEF Bit, y

\* The bits of a number make it up.
LEMMA BitsOf ==
  ASSUME NEW n \in Nat, NEW x \in 0 .. Pow2(n) - 1
  PROVE  Number([k \in 1 .. n |-> Bit(x, k - 1)], 2) = x
  <1> DEFINE d == [k \in 1 .. n |-> Bit(x, k - 1)]
  <1>1. x \in Nat /\ \A k \in Nat : Pow2(k) \in Nat \ {0}  BY Pow2Step
  <1>2. d \in [1 .. n -> Nat]
    <2>1. \A k \in 1 .. n : k - 1 \in Nat  OBVIOUS
    <2>2. \A k \in 1 .. n : Bit(x, k - 1) \in 0 .. 1  BY <1>1, <2>1, BitIs
    <2>3. \A k \in 1 .. n : Bit(x, k - 1) \in Nat  BY <2>2
    <2> QED  BY <2>3
  <1>3. \A k \in 1 .. n : d[k] = (x \div Pow2(k - 1)) % 2  BY DEF Bit
  <1> HIDE DEF d
  <1>4. PICK h \in [0 .. n -> Nat] :
          /\ h[0] = 0
          /\ \A i \in 1 .. n : h[i] = h[i - 1] * 2 + d[n - i + 1]
          /\ Number(d, 2) = h[n]
    <2>1. 2 \in Nat  OBVIOUS
    <2> QED  BY <1>2, <2>1, NumberLoop
  <1> DEFINE S == {i \in 0 .. n : h[i] = x \div Pow2(n - i)}
  <1>5. 0 \in S
    <2>1. n - 0 = n  OBVIOUS
    <2>2. x \div Pow2(n) = 0  BY <1>1, SmallMod
    <2> QED  BY <1>4, <2>1, <2>2
  <1>6. ASSUME NEW i \in 0 .. n - 1, i \in S PROVE i + 1 \in S
    <2> DEFINE j == n - (i + 1)
               y == x \div Pow2(j)
    <2>1. i + 1 \in 1 .. n /\ (i + 1) - 1 = i /\ j \in Nat /\ j + 1 \in 1 .. n
          /\ j + 1 = n - i /\ (j + 1) - 1 = j /\ n - (i + 1) + 1 = j + 1
      OBVIOUS
    <2> HIDE DEF j
    <2>2. y \in Nat  BY <1>1, <2>1, BitIs
    <2>3. Pow2(j + 1) = 2 * Pow2(j) /\ Pow2(j) \in Nat \ {0}  BY <2>1, Pow2Step
    <2>4. y \div 2 = x \div Pow2(j + 1)
      <3> DEFINE p == Pow2(j)
      <3>1. p \in Nat \ {0} /\ 2 \in Nat \ {0}  BY <2>3
      <3>2. (x \div p) \div 2 = x \div (p * 2)
        <4> HIDE DEF p
        <4> QED  BY <1>1, <3>1, DivDiv
      <3>3. p * 2 = Pow2(j + 1)  BY <2>3
      <3> QED  BY <3>2, <3>3
    <2>5. h[i] = y \div 2  BY <1>6, <2>1, <2>4
    <2>6. d[j + 1] = y % 2  BY <1>3, <2>1
    <2>7. h[i + 1] = h[i] * 2 + d[j + 1]  BY <1>4, <2>1
    <2> HIDE DEF y
    <2>8. y = (y \div 2) * 2 + (y % 2)  BY <2>2
    <2>9. h[i + 1] = y  BY <2>5, <2>6, <2>7, <2>8
    <2> QED  BY <2>1, <2>9 DEF y, j
  <1> HIDE DEF S
  <1>7. 0 .. n \subseteq S  BY <1>5, <1>6, Upto
  <1>8. h[n] = x \div Pow2(0)
    <2>1. n \in S /\ n - n = 0  BY <1>7
    <2> QED  BY <2>1 DEF S
  <1>9. x \div 1 = x  BY <1>1
  <1> QED  BY <1>4, <1>8, <1>9, Pow2Zero DEF d

\* Bits below those of a multiple of a power, and the bits of the multiple.
LEMMA BitLow ==
  ASSUME NEW q \in Nat, NEW x \in Nat, NEW m \in Nat, NEW k \in Nat, k < m
  PROVE  Bit(q * Pow2(m) + x, k) = Bit(x, k)
  <1> DEFINE p == Pow2(k)
             r == Pow2(m - k - 1)
  <1>1. m - k - 1 \in Nat /\ m - k \in Nat /\ (m - k - 1) + 1 = m - k
        /\ k + (m - k) = m
    OBVIOUS
  <1>2. p \in Nat \ {0} /\ r \in Nat \ {0} /\ Pow2(m - k) = 2 * r
    BY <1>1, Pow2Step
  <1>3. Pow2(m) = p * (2 * r)  BY <1>1, <1>2, Pow2Sum
  <1> HIDE DEF p, r
  <1>4. q * (p * (2 * r)) = ((q * r) * 2) * p  BY <1>2
  <1> DEFINE t == q * r
  <1>5. t \in Nat /\ t * 2 \in Nat  BY <1>2
  <1> HIDE DEF t
  <1>6. ((t * 2) * p + x) \div p = t * 2 + x \div p  BY <1>2, <1>5, DivModAdd
  <1> DEFINE y == x \div p
  <1>7. y \in Nat  BY <1>2, DivMod
  <1> HIDE DEF y
  <1>8. (t * 2 + y) % 2 = y % 2  BY <1>5, <1>7, DivModAdd
  <1>9. (q * Pow2(m) + x) \div p = t * 2 + y  BY <1>3, <1>4, <1>6 DEF t, y
  <1> QED  BY <1>8, <1>9 DEF Bit, p, y

LEMMA BitHigh ==
  ASSUME NEW q \in Nat, NEW m \in Nat, NEW x \in 0 .. Pow2(m) - 1, NEW k \in Nat
  PROVE  Bit(q * Pow2(m) + x, m + k) = Bit(q, k)
  <1> DEFINE p == Pow2(m)
             r == Pow2(k)
             z == q * p + x
  <1>1. p \in Nat \ {0} /\ r \in Nat \ {0} /\ Pow2(m + k) = p * r
    BY Pow2Step, Pow2Sum
  <1>2. x \in 0 .. p - 1  OBVIOUS
  <1> HIDE DEF p, r
  <1>3. z \div p = q /\ z \in Nat
    <2>1. q * p \in Nat /\ x \in Nat  BY <1>1, <1>2
    <2>2. (q * p + x) \div p = q  BY <1>1, <1>2, DivModIs
    <2> QED  BY <2>1, <2>2
  <1> HIDE DEF z
  <1>4. (z \div p) \div r = z \div (p * r)  BY <1>1, <1>3, DivDiv
  <1>5. z \div Pow2(m + k) = q \div r  BY <1>1, <1>3, <1>4
  <1> QED  BY <1>5 DEF Bit, z, p, r

LEMMA BitDiv ==
  ASSUME NEW v \in Nat, NEW a \in Nat, NEW k \in Nat
  PROVE  Bit(v \div Pow2(a), k) = Bit(v, a + k)
  <1> DEFINE p == Pow2(a)
             r == Pow2(k)
  <1>1. p \in Nat \ {0} /\ r \in Nat \ {0} /\ Pow2(a + k) = p * r
    BY Pow2Step, Pow2Sum
  <1> HIDE DEF p, r
  <1>2. (v \div p) \div r = v \div (p * r)  BY <1>1, DivDiv
  <1>3. (v \div p) \div r = v \div Pow2(a + k)  BY <1>1, <1>2
  <1> QED  BY <1>3 DEF Bit, p, r

LEMMA BitOnes ==
  ASSUME NEW a \in Nat, NEW k \in Nat, k < a
  PROVE  Bit(Pow2(a) - 1, k) = 1 /\ Pow2(a) - 1 \in Nat
  <1> DEFINE p == Pow2(k)
             r == Pow2(a - k - 1)
  <1>1. a - k - 1 \in Nat /\ a - k \in Nat /\ (a - k - 1) + 1 = a - k
        /\ k + (a - k) = a
    OBVIOUS
  <1>2. p \in Nat \ {0} /\ r \in Nat \ {0} /\ Pow2(a - k) = 2 * r
    BY <1>1, Pow2Step
  <1>3. Pow2(a) = p * (2 * r) /\ Pow2(a) \in Nat \ {0}
    BY <1>1, <1>2, Pow2Sum, Pow2Step
  <1> HIDE DEF p, r
  <1> DEFINE q == 2 * r - 1
  <1>4. q \in Nat /\ p - 1 \in 0 .. p - 1  BY <1>2
  <1>5. p * (2 * r) - 1 = q * p + (p - 1)
    <2>1. (2 * r - 1) * p = (2 * r) * p - p  BY <1>2
    <2>2. (2 * r) * p = p * (2 * r) /\ p * (2 * r) \in Nat  BY <1>2
    <2> QED  BY <1>2, <2>1, <2>2
  <1>6. q % 2 = 1
    <2>1. q = (r - 1) * 2 + 1 /\ r - 1 \in Nat /\ 1 \in 0 .. 2 - 1  BY <1>2
    <2>2. ((r - 1) * 2 + 1) % 2 = 1  BY <2>1, DivModIs
    <2> QED  BY <2>1, <2>2
  <1> HIDE DEF q
  <1>7. (q * p + (p - 1)) \div p = q  BY <1>2, <1>4, DivModIs
  <1>8. (Pow2(a) - 1) \div p = q  BY <1>3, <1>5, <1>7
  <1> QED  BY <1>3, <1>6, <1>8 DEF Bit, p

LEMMA BitZero == ASSUME NEW k \in Nat PROVE Bit(0, k) = 0
  <1>1. Pow2(k) \in Nat \ {0}  BY Pow2Step
  <1>2. 0 \div Pow2(k) = 0  BY <1>1, SmallMod
  <1> QED  BY <1>2 DEF Bit

\* The number that a shift by a makes of one of n bits, before it is cut.
Moved(v, n, a, left, fill) ==
  LET ones == IF fill THEN Pow2(a) - 1 ELSE 0
  IN  IF left THEN v * Pow2(a) + ones
      ELSE v \div Pow2(a) + ones * Pow2(n - a)

\* What the shift computes before it is cut to the width, bit by bit.
LEMMA ShiftedBit ==
  ASSUME NEW n \in Nat, NEW v \in 0 .. Pow2(n) - 1, NEW a \in Nat, a < n,
         NEW left \in BOOLEAN, NEW fill \in BOOLEAN, NEW k \in 0 .. n - 1
  PROVE  LET y == Moved(v, n, a, left, fill)
             from == IF left THEN k - a ELSE k + a
         IN  /\ y \in Nat
             /\ Bit(y, k) = IF from \in 0 .. n - 1 THEN Bit(v, from)
                            ELSE IF fill THEN 1 ELSE 0
  <1> DEFINE ones == IF fill THEN Pow2(a) - 1 ELSE 0
             p == Pow2(a)
             m == n - a
             z == v \div p
  <1>1. p \in Nat \ {0} /\ v \in Nat /\ k \in Nat /\ m \in Nat /\ Pow2(m) \in Nat \ {0}
        /\ Pow2(n) \in Nat
    BY Pow2Step
  <1>2. ones \in 0 .. p - 1 /\ ones \in Nat  BY <1>1
  <1>3. \A j \in Nat : j < a => Bit(ones, j) = IF fill THEN 1 ELSE 0
    BY BitOnes, BitZero
  <1>4. z \in Nat /\ z < Pow2(m)
    <2>1. Pow2(n) = Pow2(m) * p
      <3>1. m + a = n  OBVIOUS
      <3>2. Pow2(m + a) = Pow2(m) * Pow2(a)  BY <1>1, Pow2Sum
      <3> QED  BY <3>1, <3>2
    <2> DEFINE s == v % p
               M == Pow2(m)
    <2>2. v < M * p  BY <1>1, <2>1
    <2>m. M \in Nat  BY <1>1
    <2> HIDE DEF p, M
    <2>3. z \in Nat /\ s \in 0 .. p - 1 /\ v = z * p + s  BY <1>1, DivMod
    <2> HIDE DEF s, z
    <2>4. z >= M => z * p >= M * p  BY <1>1, <2>3, <2>m
    <2>5. z * p <= v /\ z * p \in Nat /\ M * p \in Nat  BY <1>1, <2>3, <2>m
    <2>6. z < M  BY <1>1, <2>2, <2>3, <2>4, <2>5, <2>m
    <2> QED  BY <2>3, <2>6 DEF M
  <1>5. CASE left
    <2> DEFINE y == v * p + ones
    <2>1. y \in Nat
      <3>1. v * p \in Nat  BY <1>1
      <3> QED  BY <1>2, <3>1
    <2>2. CASE k < a
      <3>1. Bit(v * Pow2(a) + ones, k) = Bit(ones, k)
        <4> HIDE DEF ones, m, z
        <4> QED  BY <1>1, <1>2, <2>2, BitLow
      <3>2. k - a \notin 0 .. n - 1  BY <2>2
      <3>3. Moved(v, n, a, left, fill) = y  BY <1>5 DEF Moved
      <3> QED  BY <1>1, <1>3, <1>5, <2>1, <2>2, <3>1, <3>2, <3>3
    <2>3. CASE k >= a
      <3>1. k - a \in Nat /\ a + (k - a) = k /\ k - a \in 0 .. n - 1  BY <2>3
      <3>2. Bit(v * Pow2(a) + ones, a + (k - a)) = Bit(v, k - a)
        <4> HIDE DEF ones, m, z
        <4> QED  BY <1>1, <1>2, <3>1, BitHigh
      <3>3. Moved(v, n, a, left, fill) = y  BY <1>5 DEF Moved
      <3> QED  BY <1>5, <2>1, <3>1, <3>2, <3>3
    <2> QED  BY <2>2, <2>3
  <1>6. CASE ~ left
    <2> DEFINE y == ones * Pow2(m) + z
    <2>1. y \in Nat /\ y = z + ones * Pow2(m)
      <3>1. ones * Pow2(m) \in Nat  BY <1>1, <1>2
      <3> QED  BY <1>4, <3>1
    <2>y. Moved(v, n, a, left, fill) = y  BY <1>6, <2>1 DEF Moved
    <2>2. CASE k < m
      <3>1. Bit(ones * Pow2(m) + z, k) = Bit(z, k)
        <4> HIDE DEF ones, m, z
        <4> QED  BY <1>1, <1>2, <1>4, <2>2, BitLow
      <3>2. Bit(z, k) = Bit(v, a + k)  BY <1>1, BitDiv
      <3>3. k + a = a + k /\ k + a \in 0 .. n - 1  BY <2>2
      <3> QED  BY <1>6, <2>1, <2>y, <3>1, <3>2, <3>3
    <2>3. CASE k >= m
      <3>1. k - m \in Nat /\ m + (k - m) = k /\ k - m < a /\ k + a \notin 0 .. n - 1
        BY <2>3
      <3>2. z \in 0 .. Pow2(m) - 1  BY <1>1, <1>4
      <3>3. Bit(ones * Pow2(m) + z, m + (k - m)) = Bit(ones, k - m)
        <4> HIDE DEF ones, m, z
        <4> QED  BY <1>1, <1>2, <3>1, <3>2, BitHigh
      <3> QED  BY <1>3, <1>6, <2>1, <2>y, <3>1, <3>3
    <2> QED  BY <2>2, <2>3
  <1> QED  BY <1>5, <1>6

\* A number cut to n bits has these bits of it.
LEMMA BitsCut ==
  ASSUME NEW n \in Nat, NEW y \in Nat
  PROVE  Number([k \in 1 .. n |-> Bit(y, k - 1)], 2) = y % Pow2(n)
  <1> DEFINE p == Pow2(n)
             q == y \div p
             x == y % p
  <1>1. p \in Nat \ {0}  BY Pow2Step
  <1>2. q \in Nat /\ x \in 0 .. p - 1 /\ y = q * p + x
    <2> HIDE DEF p
    <2> QED  BY <1>1, DivMod
  <1> HIDE DEF q, x
  <1>3. \A k \in 1 .. n : Bit(y, k - 1) = Bit(x, k - 1)
    <2> TAKE k \in 1 .. n
    <2>1. k - 1 \in Nat /\ k - 1 < n /\ x \in Nat  BY <1>1, <1>2
    <2>2. Bit(q * Pow2(n) + x, k - 1) = Bit(x, k - 1)  BY <1>2, <2>1, BitLow
    <2> QED  BY <1>2, <2>2
  <1>4. [k \in 1 .. n |-> Bit(y, k - 1)] = [k \in 1 .. n |-> Bit(x, k - 1)]
    BY <1>3
  <1>5. Number([k \in 1 .. n |-> Bit(x, k - 1)], 2) = x  BY <1>2, BitsOf
  <1>6. Number([k \in 1 .. n |-> Bit(y, k - 1)], 2) = x  BY <1>4, <1>5
  <1> QED  BY <1>6 DEF x

LEMMA ShiftIs ==
  ASSUME NEW w \in Nat, NEW d \in [1 .. w -> Word], NEW a \in Nat,
         NEW left \in BOOLEAN, NEW fill \in BOOLEAN
  PROVE  LET s == pka_shift_words(d, a, left, fill)
         IN  /\ s \in [1 .. w -> Word]
             /\ pka_words_to_int(s)
                  = Shifted(pka_words_to_int(d), w * WordBits, left, fill, a)
  <1> DEFINE n == w * WordBits
             v == pka_words_to_int(d)
             M == pka_word_modulus(w)
             y == IF a >= n THEN IF fill THEN M - 1 ELSE 0
                  ELSE Moved(v, n, a, left, fill)
             From(k) == IF left THEN k - a ELSE k + a
             want == [k \in 1 .. n |-> IF From(k) \in 1 .. n THEN Bit(v, From(k) - 1)
                                       ELSE IF fill THEN 1 ELSE 0]
  <1>1. n \in Nat /\ M \in Nat \ {0} /\ M = Pow2(n)
    BY PkaAssumption, WidthIs DEF pka_word_modulus
  <1>2. v \in 0 .. Pow2(n) - 1 /\ v \in Nat  BY <1>1, WordsBound
  <1>3. Len(d) = w  BY TupleIs
  <1>4. pka_shift_words(d, a, left, fill) = pka_int_to_words(y, w)
    <2>1. CASE a >= n  BY <1>3, <2>1 DEF pka_shift_words
    <2>2. CASE ~ (a >= n)  BY <1>3, <2>2 DEF pka_shift_words, Moved
    <2> QED  BY <2>1, <2>2
  <1>5. Shifted(v, n, left, fill, a) = Number(want, 2)  BY DEF Shifted
  <1> HIDE DEF n, v, M
  <1>6. /\ y \in Nat
        /\ \A k \in 1 .. n : Bit(y, k - 1) = IF From(k) \in 1 .. n THEN Bit(v, From(k) - 1)
                                             ELSE IF fill THEN 1 ELSE 0
    <2>1. CASE a >= n
      <3>1. y = IF fill THEN Pow2(n) - 1 ELSE 0  BY <1>1, <2>1
      <3>2. y \in Nat  BY <1>1, <3>1
      <3>3. ASSUME NEW k \in 1 .. n
            PROVE  k - 1 \in Nat /\ k - 1 < n /\ From(k) \notin 1 .. n
        BY <1>1, <2>1
      <3>4. ASSUME NEW k \in 1 .. n PROVE Bit(y, k - 1) = IF fill THEN 1 ELSE 0
        BY <1>1, <3>1, <3>3, BitOnes, BitZero
      <3> QED  BY <3>2, <3>3, <3>4
    <2>2. CASE ~ (a >= n)
      <3>1. a < n  BY <1>1, <2>2
      <3>y. y = Moved(v, n, a, left, fill)  BY <2>2
      <3>2. 0 \in 0 .. n - 1  BY <1>1, <3>1
      <3> HIDE DEF y
      <3>3. ASSUME NEW j \in 0 .. n - 1
            PROVE  /\ y \in Nat
                   /\ Bit(y, j) = IF (IF left THEN j - a ELSE j + a) \in 0 .. n - 1
                                  THEN Bit(v, IF left THEN j - a ELSE j + a)
                                  ELSE IF fill THEN 1 ELSE 0
        <4>1. n \in Nat /\ v \in 0 .. Pow2(n) - 1  BY <1>1, <1>2
        <4> DEFINE z == Moved(v, n, a, left, fill)
        <4>2. /\ z \in Nat
              /\ Bit(z, j) = IF (IF left THEN j - a ELSE j + a) \in 0 .. n - 1
                             THEN Bit(v, IF left THEN j - a ELSE j + a)
                             ELSE IF fill THEN 1 ELSE 0
          BY <3>1, <4>1, ShiftedBit
        <4> HIDE DEF z
        <4>3. y = z  BY <3>y DEF z
        <4> QED  BY <4>2, <4>3
      <3>4. ASSUME NEW k \in 1 .. n
            PROVE  Bit(y, k - 1) = IF From(k) \in 1 .. n THEN Bit(v, From(k) - 1)
                                   ELSE IF fill THEN 1 ELSE 0
        <4>1. k - 1 \in 0 .. n - 1  BY <1>1
        <4>2. (IF left THEN (k - 1) - a ELSE (k - 1) + a) = From(k) - 1
          BY <1>1
        <4>3. From(k) - 1 \in 0 .. n - 1 <=> From(k) \in 1 .. n  BY <1>1
        <4> HIDE DEF From
        <4> QED  BY <3>3, <4>1, <4>2, <4>3
      <3> QED  BY <3>2, <3>3, <3>4
    <2> QED  BY <2>1, <2>2
  <1> HIDE DEF y
  <1>7. want = [k \in 1 .. n |-> Bit(y, k - 1)]  BY <1>6
  <1> HIDE DEF want
  <1>8. Number(want, 2) = y % M  BY <1>1, <1>6, <1>7, BitsCut
  <1>9. /\ pka_int_to_words(y, w) \in [1 .. w -> Word]
        /\ pka_words_to_int(pka_int_to_words(y, w)) = y % M
    <2>1. y \in Int  BY <1>6
    <2> QED  BY <2>1, WordsOfInt DEF M
  <1> QED  BY <1>4, <1>5, <1>8, <1>9 DEF n, v

-----------------------------------------------------------------------------
(* Exponentiation                                                          *)

\* Factors may be reduced first.
LEMMA MulMod ==
  ASSUME NEW x \in Int, NEW y \in Int, NEW m \in Nat \ {0}
  PROVE  ((x % m) * y) % m = (x * y) % m /\ (y * (x % m)) % m = (y * x) % m
  <1> DEFINE q == x \div m
             r == x % m
             z == r * y
             p == z \div m
             s == z % m
  <1>1. q \in Int /\ r \in 0 .. m - 1 /\ x = q * m + r  BY IntDivMod
  <1> HIDE DEF q, r
  <1>2. z \in Int  BY <1>1
  <1> HIDE DEF z
  <1>3. p \in Int /\ s \in 0 .. m - 1 /\ z = p * m + s  BY <1>2, IntDivMod
  <1> HIDE DEF p, s
  <1>4. x * y = (q * y + p) * m + s
    <2>1. (q * m + r) * y = (q * y) * m + r * y  BY <1>1
    <2>2. (q * y + p) * m = (q * y) * m + p * m  BY <1>1, <1>3
    <2> DEFINE a == (q * y) * m
               b == p * m
    <2>3. a \in Int /\ b \in Int  BY <1>1, <1>3
    <2>4. x * y = a + z  BY <1>1, <2>1 DEF z
    <2>5. (q * y + p) * m = a + b  BY <2>2
    <2>6. z = b + s  BY <1>3
    <2> DEFINE c == (q * y + p) * m
    <2>7. c = a + b  BY <2>5
    <2> HIDE DEF a, b, c
    <2>8. a + (b + s) = (a + b) + s  BY <1>3, <2>3
    <2>9. x * y = c + s  BY <2>4, <2>6, <2>7, <2>8
    <2> QED  BY <2>9 DEF c
  <1> DEFINE t == q * y + p
  <1>5. t \in Int  BY <1>1, <1>3
  <1>6. x * y = t * m + s  BY <1>4
  <1> HIDE DEF t
  <1>7. (t * m + s) % m = s  BY <1>3, <1>5, IntDivModIs
  <1>8. (x * y) % m = s  BY <1>6, <1>7
  <1>9. r * y = y * r /\ x * y = y * x  BY <1>1
  <1> QED  BY <1>8, <1>9 DEF s, z, r

LEMMA ProductLoop ==
  ASSUME NEW b \in Nat, NEW e \in Nat, NEW m \in Nat \ {0}
  PROVE  \E p \in [0 .. e -> 0 .. m - 1] :
           /\ p[0] = 1 % m /\ \A k \in 1 .. e : p[k] = (p[k - 1] * b) % m
           /\ Product(b, e, m) = p[e]
  <1> DEFINE V == 0 .. m - 1
             Loop(f) == [k \in 0 .. e |-> IF k = 0 THEN 1 % m ELSE (f[k - 1] * b) % m]
             c == CHOOSE f : f = Loop(f)
             G == [x \in (1 .. e) \X V |-> (x[2] * b) % m]
  <1>1. Product(b, e, m) = c[e]  BY Zenon DEF Product
  <1>a. \A x \in V : (x * b) % m \in V
    <2> TAKE x \in V
    <2>1. x * b \in Int  OBVIOUS
    <2> QED  BY <2>1, IntDivMod
  <1>n. 1 % m \in V /\ \A i \in 1 .. e : i - 1 \in 0 .. e  BY IntDivMod
  <1> HIDE DEF V
  <1>2. G \in Passes(e, V)
    <2>1. \A x \in (1 .. e) \X V : (x[2] * b) % m \in V  BY <1>a
    <2> QED  BY <2>1 DEF Passes
  <1>g. \A i \in 1 .. e, x \in V : G[<<i, x>>] = (x * b) % m  OBVIOUS
  <1> HIDE DEF G
  <1>3. PICK f : Runs(f, e, V, 1 % m, G)  BY <1>n, <1>2, LoopExists
  <1>4. f = Loop(f)
    <2>1. \A k \in 1 .. e : f[k] = (f[k - 1] * b) % m  BY <1>3, <1>g, <1>n DEF Runs
    <2> QED  BY <1>3, <2>1 DEF Runs
  <1>5. c = Loop(c)
    <2> HIDE DEF Loop
    <2> QED  BY <1>4
  <1> HIDE DEF c
  <1>6. c = [k \in 0 .. e |-> c[k]]  BY <1>5
  <1>7. c[0] = 1 % m /\ \A k \in 1 .. e : c[k] = (c[k - 1] * b) % m  BY <1>5
  <1>8. \A k \in 1 .. e : c[k - 1] \in V => c[k] \in V  BY <1>7, <1>a
  <1>9. c \in [0 .. e -> V]
    <2>1. c[0] \in V  BY <1>n, <1>7
    <2> QED  BY <1>6, <1>8, <2>1, LoopType
  <1> QED  BY <1>1, <1>7, <1>9 DEF V

LEMMA ProductStep ==
  ASSUME NEW b \in Nat, NEW e \in Nat, NEW m \in Nat \ {0}
  PROVE  /\ Product(b, 0, m) = 1 % m /\ Product(b, e, m) \in 0 .. m - 1
         /\ Product(b, e + 1, m) = (Product(b, e, m) * b) % m
  <1>1. PICK p \in [0 .. e -> 0 .. m - 1] :
          /\ p[0] = 1 % m /\ \A k \in 1 .. e : p[k] = (p[k - 1] * b) % m
          /\ Product(b, e, m) = p[e]
    BY ProductLoop
  <1>2. e + 1 \in Nat /\ 0 \in Nat  OBVIOUS
  <1>3. PICK q \in [0 .. e + 1 -> 0 .. m - 1] :
          /\ q[0] = 1 % m /\ \A k \in 1 .. e + 1 : q[k] = (q[k - 1] * b) % m
          /\ Product(b, e + 1, m) = q[e + 1]
    BY <1>2, ProductLoop
  <1>4. Product(b, 0, m) = 1 % m
    <2>1. PICK o \in [0 .. 0 -> 0 .. m - 1] :
            /\ o[0] = 1 % m /\ \A k \in 1 .. 0 : o[k] = (o[k - 1] * b) % m
            /\ Product(b, 0, m) = o[0]
      BY <1>2, ProductLoop
    <2> QED  BY <2>1
  <1> DEFINE S == {k \in 0 .. e : p[k] = q[k]}
  <1>5. 0 \in S  BY <1>1, <1>3
  <1>6. ASSUME NEW k \in 0 .. e - 1, k \in S PROVE k + 1 \in S
    <2>1. k + 1 \in 1 .. e /\ k + 1 \in 1 .. e + 1 /\ (k + 1) - 1 = k  OBVIOUS
    <2>2. p[k + 1] = (p[k] * b) % m /\ q[k + 1] = (q[k] * b) % m
      BY <1>1, <1>3, <2>1
    <2> QED  BY <1>6, <2>1, <2>2
  <1> HIDE DEF S
  <1>7. 0 .. e \subseteq S  BY <1>5, <1>6, Upto
  <1>8. p[e] = q[e]  BY <1>7 DEF S
  <1>9. e + 1 \in 1 .. e + 1 /\ (e + 1) - 1 = e  OBVIOUS
  <1>10. q[e + 1] = (q[e] * b) % m  BY <1>3, <1>9
  <1> QED  BY <1>1, <1>3, <1>4, <1>8, <1>10

LEMMA ProductReduced ==
  ASSUME NEW b \in Nat, NEW e \in Nat, NEW m \in Nat \ {0}
  PROVE  Product(b % m, e, m) = Product(b, e, m)
  <1> DEFINE S == {k \in Nat : Product(b % m, k, m) = Product(b, k, m)}
             c == b % m
  <1>c. c \in Nat  BY DivMod
  <1>1. 0 \in S
    <2> HIDE DEF c
    <2>1. Product(c, 0, m) = 1 % m /\ Product(b, 0, m) = 1 % m
      BY <1>c, ProductStep
    <2> QED  BY <2>1 DEF c
  <1>2. ASSUME NEW k \in Nat, k \in S PROVE k + 1 \in S
    <2> DEFINE p == Product(b, k, m)
    <2>1. p \in Int
      <3>1. p \in 0 .. m - 1  BY ProductStep
      <3> QED  BY <3>1
    <2>2. Product(c, k, m) = p  BY <1>2
    <2>3. Product(b, k + 1, m) = (p * b) % m  BY ProductStep
    <2>4. Product(c, k + 1, m) = (Product(c, k, m) * c) % m
      <3> HIDE DEF c
      <3> QED  BY <1>c, ProductStep
    <2> HIDE DEF p
    <2>5. (p * (b % m)) % m = (p * b) % m
      <3>1. b \in Int  OBVIOUS
      <3> QED  BY <3>1, <2>1, MulMod
    <2>6. Product(c, k + 1, m) = Product(b, k + 1, m)  BY <2>2, <2>3, <2>4, <2>5
    <2> QED  BY <2>6
  <1> HIDE DEF S
  <1>3. Nat \subseteq S  BY <1>1, <1>2, Induction
  <1> QED  BY <1>3 DEF S

LEMMA ProductSquare ==
  ASSUME NEW x \in Nat, NEW e \in Nat, NEW m \in Nat \ {0}
  PROVE  Product(x * x, e, m) = Product(x, 2 * e, m)
  <1> DEFINE S == {k \in Nat : Product(x * x, k, m) = Product(x, 2 * k, m)}
             y == x * x
  <1>y. y \in Nat  OBVIOUS
  <1>1. 0 \in S
    <2>1. 2 * 0 = 0 /\ 0 \in Nat  OBVIOUS
    <2>2. Product(x, 0, m) = 1 % m  BY <2>1, ProductStep
    <2>3. Product(y, 0, m) = 1 % m
      <3> HIDE DEF y
      <3> QED  BY <1>y, <2>1, ProductStep
    <2> QED  BY <2>1, <2>2, <2>3
  <1>2. ASSUME NEW k \in Nat, k \in S PROVE k + 1 \in S
    <2> DEFINE p == Product(x, 2 * k, m)
               r == Product(x, 2 * k + 1, m)
    <2>1. 2 * k \in Nat /\ 2 * k + 1 \in Nat /\ (2 * k + 1) + 1 = 2 * (k + 1)
      OBVIOUS
    <2>2. p \in 0 .. m - 1 /\ r = (p * x) % m  BY <2>1, ProductStep
    <2>3. Product(x, (2 * k + 1) + 1, m) = (r * x) % m  BY <2>1, ProductStep
    <2>4. Product(y, k + 1, m) = (Product(y, k, m) * y) % m
      <3> HIDE DEF y
      <3> QED  BY <1>y, ProductStep
    <2>5. Product(y, k, m) = p  BY <1>2
    <2> HIDE DEF p
    <2>6. p \in Int /\ p * x \in Int  BY <2>2
    <2>7. (((p * x) % m) * x) % m = ((p * x) * x) % m
      <3> DEFINE u == p * x
      <3>1. u \in Int /\ x \in Int  BY <2>6
      <3> HIDE DEF u
      <3>2. ((u % m) * x) % m = (u * x) % m  BY <3>1, MulMod
      <3> QED  BY <3>2 DEF u
    <2>8. (p * x) * x = p * y  BY <2>6
    <2>9. Product(y, k + 1, m) = Product(x, 2 * (k + 1), m)
      BY <2>1, <2>2, <2>3, <2>4, <2>5, <2>7, <2>8
    <2> QED  BY <2>9
  <1> HIDE DEF S
  <1>3. Nat \subseteq S  BY <1>1, <1>2, Induction
  <1> QED  BY <1>3 DEF S

\* What the passes of square and multiply range over.
PowStates(m) == [exp : Nat, acc : 0 .. m - 1, sq : 0 .. m - 1]
PowFirst(b, e, m) == [exp |-> e, acc |-> 1 % m, sq |-> b % m]

LEMMA PowPassIs ==
  ASSUME NEW m \in Nat \ {0}, NEW s \in PowStates(m)
  PROVE  PowPass(s, m) \in PowStates(m)
  <1>1. CASE s.exp = 0  BY <1>1 DEF PowPass
  <1>2. CASE s.exp # 0
    <2>1. s.exp \div 2 \in Nat  BY DEF PowStates
    <2>2. s.acc * s.sq \in Int /\ s.sq * s.sq \in Int  BY DEF PowStates
    <2>3. (s.acc * s.sq) % m \in 0 .. m - 1 /\ (s.sq * s.sq) % m \in 0 .. m - 1
      BY <2>2, IntDivMod
    <2>4. s.acc \in 0 .. m - 1  BY DEF PowStates
    <2> QED  BY <1>2, <2>1, <2>3, <2>4 DEF PowPass, PowStates
  <1> QED  BY <1>1, <1>2

LEMMA PowLoop ==
  ASSUME NEW b \in Nat, NEW e \in Nat, NEW m \in Nat \ {0}
  PROVE  \E p \in [0 .. e -> PowStates(m)] :
           /\ p[0] = PowFirst(b, e, m)
           /\ \A i \in 1 .. e : p[i] = PowPass(p[i - 1], m)
           /\ pka_pow_mod(b, e, m) = p[e].acc
  <1> DEFINE V == PowStates(m)
             first == [exp |-> e, acc |-> 1 % m, sq |-> pka_positive_mod(b, m)]
             Loop(f) == [i \in 0 .. e |-> IF i = 0 THEN first
                                          ELSE PowPass(f[i - 1], m)]
             c == CHOOSE f : f = Loop(f)
             G == [x \in (1 .. e) \X V |-> PowPass(x[2], m)]
  <1>1. pka_pow_mod(b, e, m) = c[e].acc
    <2>1. pka_pow_mod(b, e, m) = IF m <= 0 THEN 0 ELSE c[e].acc
      BY Zenon DEF pka_pow_mod
    <2> HIDE DEF c
    <2> QED  BY <2>1
  <1>f. first = PowFirst(b, e, m)  BY DEF PowFirst, pka_positive_mod
  <1>v. first \in V
    <2>1. 1 % m \in 0 .. m - 1 /\ b % m \in 0 .. m - 1
      <3>1. 1 \in Int /\ b \in Int  OBVIOUS
      <3> QED  BY <3>1, IntDivMod
    <2> QED  BY <1>f, <2>1 DEF PowFirst, PowStates
  <1>a. \A x \in V : PowPass(x, m) \in V  BY PowPassIs
  <1>n. \A i \in 1 .. e : i - 1 \in 0 .. e  OBVIOUS
  <1> HIDE DEF V, first
  <1>2. G \in Passes(e, V)  BY <1>a DEF Passes
  <1>g. \A i \in 1 .. e, x \in V : G[<<i, x>>] = PowPass(x, m)  OBVIOUS
  <1> HIDE DEF G
  <1>3. PICK f : Runs(f, e, V, first, G)  BY <1>v, <1>2, LoopExists
  <1>4. f = Loop(f)
    <2>1. \A i \in 1 .. e : f[i] = PowPass(f[i - 1], m)  BY <1>3, <1>g, <1>n DEF Runs
    <2> QED  BY <1>3, <2>1 DEF Runs
  <1>5. c = Loop(c)
    <2> HIDE DEF Loop
    <2> QED  BY <1>4
  <1> HIDE DEF c
  <1>6. c = [i \in 0 .. e |-> c[i]]  BY <1>5
  <1>7. c[0] = first /\ \A i \in 1 .. e : c[i] = PowPass(c[i - 1], m)  BY <1>5
  <1>8. \A i \in 1 .. e : c[i - 1] \in V => c[i] \in V  BY <1>7, <1>a
  <1>9. c \in [0 .. e -> V]  BY <1>v, <1>6, <1>7, <1>8, LoopType
  <1> QED  BY <1>1, <1>7, <1>9, <1>f DEF V

\* A pass keeps the product that is still to be computed: the accumulator
\* times the square to the exponent.
LEMMA PowPassKeeps ==
  ASSUME NEW m \in Nat \ {0}, NEW s \in PowStates(m)
  PROVE  LET n == PowPass(s, m)
         IN  /\ (n.acc * Product(n.sq, n.exp, m)) % m
                  = (s.acc * Product(s.sq, s.exp, m)) % m
             /\ s.exp # 0 => n.exp < s.exp
             /\ s.exp = 0 => n.exp = 0
  <1>1. CASE s.exp = 0  BY <1>1 DEF PowPass
  <1>2. CASE s.exp # 0
    <2> DEFINE x == s.sq
               y == x * x
               h == s.exp \div 2
               k == s.exp % 2
               a == s.acc
               P == Product(x, 2 * h, m)
    <2>1. x \in Nat /\ a \in 0 .. m - 1 /\ s.exp \in Nat \ {0}
      BY <1>2 DEF PowStates
    <2>2. h \in Nat /\ k \in 0 .. 1 /\ s.exp = 2 * h + k /\ h < s.exp  BY <2>1
    <2>3. PowPass(s, m).exp = h /\ PowPass(s, m).sq = y % m
          /\ PowPass(s, m).acc = IF k = 1 THEN (a * x) % m ELSE a
      BY <1>2 DEF PowPass
    <2> HIDE DEF h, k, x, a
    <2>y. y \in Nat  BY <2>1
    <2>4. Product(y % m, h, m) = P
      <3>1. Product(y, h, m) = P  BY <2>1, <2>2, ProductSquare
      <3>2. Product(y % m, h, m) = Product(y, h, m)
        <4> HIDE DEF y
        <4> QED  BY <2>y, <2>2, ProductReduced
      <3> QED  BY <3>1, <3>2
    <2>5. P \in 0 .. m - 1 /\ Product(x, 2 * h + 1, m) = (P * x) % m
      <3>1. 2 * h \in Nat  BY <2>2
      <3> QED  BY <2>1, <3>1, ProductStep
    <2> HIDE DEF y
    <2>6. CASE k = 0
      <3>1. s.exp = 2 * h  BY <2>2, <2>6
      <3> QED  BY <2>2, <2>3, <2>4, <2>6, <3>1 DEF x, a
    <2>7. CASE k = 1
      <3>1. Product(x, s.exp, m) = (P * x) % m  BY <2>2, <2>5, <2>7
      <3> HIDE DEF P
      <3> DEFINE u == P * x
                 v == a * x
      <3>2. u \in Int /\ v \in Int /\ a \in Int /\ P \in Int  BY <2>1, <2>5
      <3>3. a * u = v * P  BY <2>1, <2>5
      <3> HIDE DEF u, v
      <3>4. (a * (u % m)) % m = (a * u) % m  BY <3>2, MulMod
      <3>5. ((v % m) * P) % m = (v * P) % m  BY <3>2, MulMod
      <3>6. PowPass(s, m).acc = v % m  BY <2>3, <2>7 DEF v
      <3>7. Product(x, s.exp, m) = u % m  BY <3>1 DEF u
      <3> QED  BY <2>2, <2>3, <2>4, <3>3, <3>4, <3>5, <3>6, <3>7 DEF x, a
    <2> QED  BY <2>2, <2>6, <2>7
  <1> QED  BY <1>1, <1>2

LEMMA PowModIs ==
  ASSUME NEW b \in Nat, NEW e \in Nat, NEW m \in Nat \ {0}
  PROVE  pka_pow_mod(b, e, m) = Product(b, e, m)
  <1>1. PICK p \in [0 .. e -> PowStates(m)] :
          /\ p[0] = PowFirst(b, e, m)
          /\ \A i \in 1 .. e : p[i] = PowPass(p[i - 1], m)
          /\ pka_pow_mod(b, e, m) = p[e].acc
    BY PowLoop
  <1> DEFINE Left(s) == (s.acc * Product(s.sq, s.exp, m)) % m
             want == Product(b, e, m)
             S == {i \in 0 .. e : Left(p[i]) = want /\ p[i].exp <= e - i}
  <1>w. want \in 0 .. m - 1  BY ProductStep
  <1>2. 0 \in S
    <2>1. p[0].exp = e /\ p[0].acc = 1 % m /\ p[0].sq = b % m
      BY <1>1 DEF PowFirst
    <2>2. Product(b % m, e, m) = want  BY ProductReduced
    <2> HIDE DEF want
    <2>3. ((1 % m) * want) % m = (1 * want) % m
      <3>1. 1 \in Int /\ want \in Int  BY <1>w
      <3> QED  BY <3>1, MulMod
    <2>4. 1 * want = want  BY <1>w
    <2>5. want % m = want  BY <1>w, SmallMod
    <2> QED  BY <2>1, <2>2, <2>3, <2>4, <2>5
  <1>3. ASSUME NEW i \in 0 .. e - 1, i \in S PROVE i + 1 \in S
    <2>1. i + 1 \in 1 .. e /\ (i + 1) - 1 = i /\ i \in 0 .. e  OBVIOUS
    <2>2. p[i + 1] = PowPass(p[i], m) /\ p[i] \in PowStates(m)
          /\ p[i + 1] \in PowStates(m)
      BY <1>1, <2>1
    <2>3. /\ Left(p[i + 1]) = Left(p[i])
          /\ p[i].exp # 0 => p[i + 1].exp < p[i].exp
          /\ p[i].exp = 0 => p[i + 1].exp = 0
      BY <2>2, PowPassKeeps
    <2>4. p[i].exp \in Nat /\ p[i + 1].exp \in Nat  BY <2>2 DEF PowStates
    <2>5. Left(p[i]) = want /\ p[i].exp <= e - i  BY <1>3
    <2> HIDE DEF want, Left
    <2>6. p[i + 1].exp <= e - (i + 1)  BY <2>1, <2>3, <2>4, <2>5
    <2> QED  BY <2>1, <2>3, <2>5, <2>6
  <1> HIDE DEF S
  <1>4. 0 .. e \subseteq S  BY <1>2, <1>3, Upto
  <1>5. Left(p[e]) = want /\ p[e].exp <= e - e  BY <1>4 DEF S
  <1> DEFINE s == p[e]
  <1>6. s \in PowStates(m)  BY <1>1
  <1>7. s.exp = 0 /\ s.acc \in 0 .. m - 1 /\ s.sq \in Nat
    BY <1>5, <1>6 DEF PowStates
  <1>8. (s.acc * (1 % m)) % m = s.acc
    <2> DEFINE a == s.acc
    <2>1. 1 \in Int /\ a \in Int /\ a \in 0 .. m - 1 /\ a * 1 = a  BY <1>7
    <2> HIDE DEF a
    <2>2. (a * (1 % m)) % m = (a * 1) % m  BY <2>1, MulMod
    <2>3. a % m = a  BY <2>1, SmallMod
    <2>4. (a * (1 % m)) % m = a  BY <2>1, <2>2, <2>3
    <2> QED  BY <2>4 DEF a
  <1>9. Product(s.sq, 0, m) = 1 % m  BY <1>7, ProductStep
  <1> QED  BY <1>1, <1>5, <1>7, <1>8, <1>9

-----------------------------------------------------------------------------
(* The modular inverse                                                     *)

Congruent(x, y, m) == \E k \in Int : x = y + k * m

LEMMA CongruentMod ==
  ASSUME NEW x \in Int, NEW y \in Int, NEW m \in Nat \ {0}, Congruent(x, y, m)
  PROVE  x % m = y % m
  <1>1. PICK k \in Int : x = y + k * m  BY DEF Congruent
  <1> DEFINE q == y \div m
             r == y % m
  <1>2. q \in Int /\ r \in 0 .. m - 1 /\ y = q * m + r  BY IntDivMod
  <1> HIDE DEF q, r
  <1> DEFINE h == q + k
  <1>3. h \in Int /\ x = h * m + r  BY <1>1, <1>2
  <1> HIDE DEF h
  <1>4. (h * m + r) % m = r  BY <1>2, <1>3, IntDivModIs
  <1> QED  BY <1>3, <1>4 DEF r

\* There is at most one inverse.
LEMMA OneInverse ==
  ASSUME NEW v \in Nat, NEW m \in Nat, NEW x \in Inverses(v, m), NEW y \in Inverses(v, m)
  PROVE  x = y
  <1>1. /\ x \in 1 .. m - 1 /\ y \in 1 .. m - 1
        /\ (x * v) % m = 1 /\ (y * v) % m = 1
    BY DEF Inverses
  <1> DEFINE a == x * v
             b == y * v
  <1>2. a \in Int /\ b \in Int /\ x \in Int /\ y \in Int /\ x * b = a * y
    BY <1>1
  <1>3. m \in Nat \ {0} /\ x \in 0 .. m - 1 /\ y \in 0 .. m - 1  BY <1>1
  <1>4. a % m = 1 /\ b % m = 1  BY <1>1
  <1> HIDE DEF a, b
  <1>5. (x * (b % m)) % m = (x * b) % m  BY <1>2, <1>3, MulMod
  <1>6. ((a % m) * y) % m = (a * y) % m  BY <1>2, <1>3, MulMod
  <1>7. x * 1 = x /\ 1 * y = y  BY <1>2
  <1>8. x % m = x /\ y % m = y  BY <1>3, SmallMod
  <1> QED  BY <1>2, <1>4, <1>5, <1>6, <1>7, <1>8

EuclidStates == [t : Int, nt : Int, r : Nat, nr : Nat]
EuclidFirst(v, m) == [t |-> 0, nt |-> 1, r |-> m, nr |-> v % m]

LEMMA EuclidPassIs ==
  ASSUME NEW s \in EuclidStates
  PROVE  /\ EuclidPass(s) \in EuclidStates
         /\ s.nr = 0 => EuclidPass(s) = s
         /\ s.nr # 0 => \E q \in Nat :
              /\ s.r = q * s.nr + EuclidPass(s).nr
              /\ EuclidPass(s).nr < s.nr
              /\ EuclidPass(s).r = s.nr
              /\ EuclidPass(s).t = s.nt
              /\ EuclidPass(s).nt = s.t - q * s.nt
  <1>1. CASE s.nr = 0  BY <1>1 DEF EuclidPass
  <1>2. CASE s.nr # 0
    <2> DEFINE q == s.r \div s.nr
               k == s.r % s.nr
    <2>1. s.r \in Nat /\ s.nr \in Nat \ {0} /\ s.t \in Int /\ s.nt \in Int
      BY <1>2 DEF EuclidStates
    <2>2. q \in Nat /\ k \in 0 .. s.nr - 1 /\ s.r = q * s.nr + k
      BY <2>1, DivMod
    <2>3. EuclidPass(s) = [t |-> s.nt, nt |-> s.t - q * s.nt,
                           r |-> s.nr, nr |-> s.r - q * s.nr]
      BY <1>2 DEF EuclidPass
    <2> HIDE DEF q, k
    <2>4. s.r - q * s.nr = k /\ q * s.nt \in Int /\ k \in Nat /\ k < s.nr
      BY <2>1, <2>2
    <2>5. EuclidPass(s) = [t |-> s.nt, nt |-> s.t - q * s.nt,
                           r |-> s.nr, nr |-> k]
      BY <2>3, <2>4
    <2>6. s.t - q * s.nt \in Int  BY <2>1, <2>4
    <2>7. EuclidPass(s) \in EuclidStates
      BY <2>1, <2>4, <2>5, <2>6 DEF EuclidStates
    <2>8. /\ s.r = q * s.nr + EuclidPass(s).nr
          /\ EuclidPass(s).nr < s.nr
          /\ EuclidPass(s).r = s.nr
          /\ EuclidPass(s).t = s.nt
          /\ EuclidPass(s).nt = s.t - q * s.nt
      BY <2>2, <2>4, <2>5
    <2> QED  BY <1>2, <2>2, <2>7, <2>8
  <1> QED  BY <1>1, <1>2

LEMMA EuclidLoop ==
  ASSUME NEW v \in Nat, NEW m \in Nat, m > 1
  PROVE  \E p \in [0 .. m -> EuclidStates] :
           /\ p[0] = EuclidFirst(v, m)
           /\ \A i \in 1 .. m : p[i] = EuclidPass(p[i - 1])
           /\ pka_mod_inverse(v, m) =
                IF p[m].r # 1 THEN [value |-> 0, ok |-> FALSE]
                ELSE [value |-> IF p[m].t < 0 THEN p[m].t + m ELSE p[m].t,
                      ok |-> TRUE]
  <1> DEFINE V == EuclidStates
             first == [t |-> 0, nt |-> 1, r |-> m, nr |-> pka_positive_mod(v, m)]
             Loop(f) == [i \in 0 .. m |-> IF i = 0 THEN first
                                          ELSE EuclidPass(f[i - 1])]
             c == CHOOSE f : f = Loop(f)
             G == [x \in (1 .. m) \X V |-> EuclidPass(x[2])]
             Final(p) == IF p.r # 1 THEN [value |-> 0, ok |-> FALSE]
                       ELSE [value |-> IF p.t < 0 THEN p.t + m ELSE p.t,
                             ok |-> TRUE]
  <1>1. pka_mod_inverse(v, m) = Final(c[m])
    <2>1. pka_mod_inverse(v, m) =
            IF m <= 1 THEN [value |-> 0, ok |-> FALSE] ELSE Final(c[m])
      BY Zenon DEF pka_mod_inverse
    <2> HIDE DEF c, Final
    <2> QED  BY <2>1
  <1>f. first = EuclidFirst(v, m)  BY DEF EuclidFirst, pka_positive_mod
  <1>v. first \in V
    <2>1. v % m \in Nat
      <3>1. v % m \in 0 .. m - 1  BY DivMod
      <3> QED  BY <3>1
    <2> QED  BY <1>f, <2>1 DEF EuclidFirst, EuclidStates
  <1>a. \A x \in V : EuclidPass(x) \in V  BY EuclidPassIs
  <1>n. \A i \in 1 .. m : i - 1 \in 0 .. m  OBVIOUS
  <1> HIDE DEF V, first
  <1>2. G \in Passes(m, V)  BY <1>a DEF Passes
  <1>g. \A i \in 1 .. m, x \in V : G[<<i, x>>] = EuclidPass(x)  OBVIOUS
  <1> HIDE DEF G
  <1>3. PICK f : Runs(f, m, V, first, G)  BY <1>v, <1>2, LoopExists
  <1>4. f = Loop(f)
    <2>1. \A i \in 1 .. m : f[i] = EuclidPass(f[i - 1])  BY <1>3, <1>g, <1>n DEF Runs
    <2> QED  BY <1>3, <2>1 DEF Runs
  <1>5. c = Loop(c)
    <2> HIDE DEF Loop
    <2> QED  BY <1>4
  <1> HIDE DEF c
  <1>6. c = [i \in 0 .. m |-> c[i]]  BY <1>5
  <1>7. c[0] = first /\ \A i \in 1 .. m : c[i] = EuclidPass(c[i - 1])  BY <1>5
  <1>8. \A i \in 1 .. m : c[i - 1] \in V => c[i] \in V  BY <1>7, <1>a
  <1>9. c \in [0 .. m -> V]  BY <1>v, <1>6, <1>7, <1>8, LoopType
  <1> QED  BY <1>1, <1>7, <1>9, <1>f DEF V

\* Between two passes: the coefficients times the value are the remainders,
\* and alternate in sign while their products add up to the modulus.
EuclidInv(s, v, m) ==
  /\ s \in EuclidStates /\ s.r > s.nr
  /\ Congruent(s.t * v, s.r, m) /\ Congruent(s.nt * v, s.nr, m)
  /\ \/ s.t <= 0 /\ s.nt > 0 /\ 0 - s.t <= s.nt /\ s.nt * s.r - s.t * s.nr = m
     \/ s.t >= 0 /\ s.nt < 0 /\ s.t <= 0 - s.nt /\ s.t * s.nr - s.nt * s.r = m

LEMMA EuclidFirstInv ==
  ASSUME NEW v \in Nat, NEW m \in Nat, m > 1
  PROVE  EuclidInv(EuclidFirst(v, m), v, m)
  <1> DEFINE q == v \div m
             k == v % m
  <1>0. m \in Nat \ {0}  OBVIOUS
  <1>1. q \in Nat /\ k \in 0 .. m - 1 /\ v = q * m + k  BY <1>0, DivMod
  <1>2. EuclidFirst(v, m) = [t |-> 0, nt |-> 1, r |-> m, nr |-> k]
    BY DEF EuclidFirst
  <1> HIDE DEF q, k
  <1>3. 0 * v = m + (0 - 1) * m /\ 0 - 1 \in Int  OBVIOUS
  <1>4. 1 * v = k + q * m /\ q \in Int  BY <1>1
  <1>5. Congruent(0 * v, m, m) /\ Congruent(1 * v, k, m)
    BY <1>3, <1>4 DEF Congruent
  <1>6. 1 * m - 0 * k = m /\ k \in Nat /\ m > k  BY <1>1
  <1> QED  BY <1>2, <1>5, <1>6 DEF EuclidInv, EuclidStates

LEMMA EuclidPassInv ==
  ASSUME NEW v \in Nat, NEW m \in Nat, NEW s, EuclidInv(s, v, m), s.nr # 0
  PROVE  EuclidInv(EuclidPass(s), v, m)
  <1> DEFINE t == s.t
             n == s.nt
             r == s.r
             k == s.nr
             e == EuclidPass(s)
             z == e.nr
             y == e.nt
  <1>0. s \in EuclidStates /\ r > k  BY DEF EuclidInv
  <1>1. t \in Int /\ n \in Int /\ r \in Nat /\ k \in Nat \ {0}
    BY <1>0 DEF EuclidStates
  <1>2. PICK q \in Nat : /\ r = q * k + z /\ z < k /\ e.r = k /\ e.t = n
                         /\ y = t - q * n
    BY <1>0, EuclidPassIs
  <1>3. e \in EuclidStates  BY <1>0, EuclidPassIs
  <1>4. z \in Nat /\ y \in Int  BY <1>3 DEF EuclidStates
  <1>5. PICK a \in Int : t * v = r + a * m  BY DEF EuclidInv, Congruent
  <1>6. PICK b \in Int : n * v = k + b * m  BY DEF EuclidInv, Congruent
  <1>7. \/ t <= 0 /\ n > 0 /\ 0 - t <= n /\ n * r - t * k = m
        \/ t >= 0 /\ n < 0 /\ t <= 0 - n /\ t * k - n * r = m
    BY DEF EuclidInv
  <1> HIDE DEF t, n, r, k, z, y
  <1>8. q >= 1  BY <1>0, <1>1, <1>2, <1>4
  <1>9. Congruent(y * v, z, m)
    <2>1. y * v = t * v - q * (n * v)  BY <1>1, <1>2
    <2>2. y * v = (r + a * m) - q * (k + b * m)
      <3> DEFINE f == t * v
                 g == n * v
                 h == y * v
                 A == r + a * m
                 B == k + b * m
      <3>1. f = A /\ g = B /\ h = f - q * g
        BY <1>5, <1>6, <2>1
      <3> HIDE DEF f, g, h, A, B
      <3>2. h = A - q * B  BY <3>1
      <3> QED  BY <3>2 DEF A, B, h
    <2>3. q * (k + b * m) = q * k + (q * b) * m  BY <1>1
    <2>4. (a - q * b) * m = a * m - (q * b) * m /\ a - q * b \in Int  OBVIOUS
    <2>5. y * v = z + (a - q * b) * m
      <3> DEFINE A == a * m
                 B == (q * b) * m
                 C == q * k
                 D == q * (k + b * m)
                 E == (a - q * b) * m
                 F == y * v
      <3>1. A \in Int /\ B \in Int /\ C \in Int /\ D \in Int /\ E \in Int /\ F \in Int
        BY <1>1, <1>4
      <3>2. F = (r + A) - D /\ D = C + B /\ E = A - B /\ r = C + z
        BY <1>2, <2>2, <2>3, <2>4
      <3> HIDE DEF A, B, C, D, E, F
      <3>3. F = z + E  BY <1>1, <1>4, <3>1, <3>2
      <3> QED  BY <3>3 DEF E, F
    <2> QED  BY <2>4, <2>5 DEF Congruent
  <1>10. Congruent(n * v, k, m)  BY <1>6 DEF Congruent
  <1>11. /\ n > 0 => q * n >= n
         /\ n < 0 => q * n <= n
    BY <1>1, <1>8
  <1>12. n * z - y * k = n * r - t * k
    <2>1. y * k = t * k - (q * n) * k  BY <1>1, <1>2
    <2>2. n * r = n * z + (q * n) * k  BY <1>1, <1>2, <1>4
    <2> DEFINE A == y * k
               B == t * k
               C == (q * n) * k
               D == n * r
               E == n * z
    <2>3. A \in Int /\ B \in Int /\ C \in Int /\ D \in Int /\ E \in Int
      BY <1>1, <1>4
    <2>4. A = B - C /\ D = E + C  BY <2>1, <2>2
    <2> HIDE DEF A, B, C, D, E
    <2>5. E - A = D - B  BY <2>3, <2>4
    <2> QED  BY <2>5 DEF A, B, D, E
  <1>13. \/ n <= 0 /\ y > 0 /\ 0 - n <= y /\ y * k - n * z = m
         \/ n >= 0 /\ y < 0 /\ n <= 0 - y /\ n * z - y * k = m
    <2> DEFINE c == q * n
               A == n * z
               B == y * k
               C == n * r
               D == t * k
    <2>1. c \in Int /\ A \in Int /\ B \in Int /\ C \in Int /\ D \in Int
      BY <1>1, <1>4
    <2>2. /\ y = t - c /\ A - B = C - D
          /\ n > 0 => c >= n
          /\ n < 0 => c <= n
      BY <1>2, <1>11, <1>12
    <2>3. \/ t <= 0 /\ n > 0 /\ 0 - t <= n /\ C - D = m
          \/ t >= 0 /\ n < 0 /\ t <= 0 - n /\ D - C = m
      BY <1>7
    <2> HIDE DEF c, A, B, C, D
    <2>4. \/ n <= 0 /\ y > 0 /\ 0 - n <= y /\ B - A = m
          \/ n >= 0 /\ y < 0 /\ n <= 0 - y /\ A - B = m
      BY <1>1, <1>4, <2>1, <2>2, <2>3
    <2> QED  BY <2>4 DEF A, B
  <1>14. e.t = n /\ e.nt = y /\ e.r = k /\ e.nr = z  BY <1>2 DEF y, z
  <1> HIDE DEF e
  <1>15. EuclidInv(e, v, m)
    BY <1>1, <1>2, <1>3, <1>4, <1>9, <1>10, <1>13, <1>14 DEF EuclidInv
  <1> QED  BY <1>15 DEF e

\* The loop ends, and what it ends with decides whether there is an inverse.
LEMMA EuclidEnds ==
  ASSUME NEW v \in Nat, NEW m \in Nat, m > 1,
         NEW p \in [0 .. m -> EuclidStates], p[0] = EuclidFirst(v, m),
         \A i \in 1 .. m : p[i] = EuclidPass(p[i - 1])
  PROVE  EuclidInv(p[m], v, m) /\ p[m].nr = 0
  <1> DEFINE S == {i \in 0 .. m : /\ EuclidInv(p[i], v, m)
                                  /\ p[i].nr # 0 => p[i].nr <= (m - 1) - i}
  <1>1. 0 \in S
    <2>0. m \in Nat \ {0}  OBVIOUS
    <2>1. v % m \in 0 .. m - 1  BY <2>0, DivMod
    <2>2. p[0].nr = v % m  BY DEF EuclidFirst
    <2>3. EuclidInv(p[0], v, m)  BY EuclidFirstInv
    <2> QED  BY <2>1, <2>2, <2>3
  <1>2. ASSUME NEW i \in 0 .. m - 1, i \in S PROVE i + 1 \in S
    <2>1. i + 1 \in 1 .. m /\ (i + 1) - 1 = i /\ i \in 0 .. m  OBVIOUS
    <2>2. p[i + 1] = EuclidPass(p[i]) /\ p[i] \in EuclidStates
          /\ p[i + 1] \in EuclidStates
      BY <2>1
    <2>3. EuclidInv(p[i], v, m) /\ (p[i].nr # 0 => p[i].nr <= (m - 1) - i)
      BY <1>2
    <2>4. CASE p[i].nr = 0
      <3>1. p[i + 1] = p[i]  BY <2>2, <2>4, EuclidPassIs
      <3> QED  BY <2>1, <2>3, <2>4, <3>1
    <2>5. CASE p[i].nr # 0
      <3>1. p[i + 1].nr < p[i].nr  BY <2>2, <2>5, EuclidPassIs
      <3>2. EuclidInv(p[i + 1], v, m)  BY <2>2, <2>3, <2>5, EuclidPassInv
      <3>3. p[i].nr \in Nat /\ p[i + 1].nr \in Nat  BY <2>2 DEF EuclidStates
      <3>4. p[i + 1].nr <= (m - 1) - (i + 1)  BY <2>3, <2>5, <3>1, <3>3
      <3> QED  BY <2>1, <3>2, <3>4
    <2> QED  BY <2>4, <2>5
  <1> HIDE DEF S
  <1>3. 0 .. m \subseteq S  BY <1>1, <1>2, Upto
  <1>4. m \in S  BY <1>3
  <1>5. EuclidInv(p[m], v, m) /\ (p[m].nr # 0 => p[m].nr <= (m - 1) - m)
    BY <1>4 DEF S
  <1>6. p[m].nr \in Nat  BY <1>5 DEF EuclidInv, EuclidStates
  <1> QED  BY <1>5, <1>6

\* With a remainder of one the coefficient, made positive, is an inverse.
LEMMA EuclidFinds ==
  ASSUME NEW v \in Nat, NEW m \in Nat, m > 1, NEW s, EuclidInv(s, v, m),
         s.nr = 0, s.r = 1
  PROVE  (IF s.t < 0 THEN s.t + m ELSE s.t) \in Inverses(v, m)
  <1> DEFINE t == s.t
             n == s.nt
             x == IF t < 0 THEN t + m ELSE t
  <1>0. m \in Nat \ {0} /\ 1 \in 0 .. m - 1  OBVIOUS
  <1>1. t \in Int /\ n \in Int  BY DEF EuclidInv, EuclidStates
  <1>2. PICK a \in Int : t * v = 1 + a * m  BY DEF EuclidInv, Congruent
  <1>3. \/ t <= 0 /\ n > 0 /\ 0 - t <= n /\ n * 1 - t * 0 = m
        \/ t >= 0 /\ n < 0 /\ t <= 0 - n /\ t * 0 - n * 1 = m
    BY DEF EuclidInv
  <1> HIDE DEF t, n
  <1>4. 0 - m <= t /\ t <= m  BY <1>1, <1>3
  <1>5. ASSUME NEW j \in Int, t = j * m PROVE FALSE
    <2> DEFINE d == j * v - a
    <2>1. (j * m) * v = (j * v) * m  OBVIOUS
    <2>2. (j * v - a) * m = (j * v) * m - a * m  OBVIOUS
    <2>3. d \in Int /\ d * m = 1
      <3> DEFINE A == (j * v) * m
                 B == a * m
                 C == (j * v - a) * m
                 D == t * v
      <3>1. A \in Int /\ B \in Int  OBVIOUS
      <3>2. D = A /\ D = 1 + B /\ C = A - B  BY <1>2, <1>5, <2>1, <2>2
      <3> HIDE DEF A, B, C, D
      <3>3. A = 1 + B /\ C = A - B  BY <3>2
      <3>4. C = 1  BY <3>1, <3>3
      <3> QED  BY <3>4 DEF C
    <2> HIDE DEF d
    <2>4. d > 0 => d * m >= m  BY <2>3
    <2>5. d <= 0 => d * m <= 0  BY <2>3
    <2> QED  BY <2>3, <2>4, <2>5
  <1>6. t # 0 /\ t # m /\ t # 0 - m
    <2>1. 0 = 0 * m /\ m = 1 * m /\ 0 - m = (0 - 1) * m  OBVIOUS
    <2> QED  BY <1>5, <2>1
  <1>7. x \in 1 .. m - 1  BY <1>1, <1>4, <1>6
  <1>8. Congruent(x * v, 1, m)
    <2>1. CASE t < 0
      <3>1. (t + m) * v = 1 + (a + v) * m
        <4>1. (t + m) * v = t * v + v * m  BY <1>1
        <4>2. (a + v) * m = a * m + v * m  OBVIOUS
        <4> DEFINE A == (t + m) * v
                   B == v * m
                   C == (a + v) * m
                   D == a * m
        <4>3. B \in Int /\ D \in Int /\ A = (1 + D) + B /\ C = D + B
          BY <1>2, <4>1, <4>2
        <4> HIDE DEF A, B, C, D
        <4>4. A = 1 + C  BY <4>3
        <4> QED  BY <4>4 DEF A, C
      <3>2. a + v \in Int  OBVIOUS
      <3> QED  BY <2>1, <3>1, <3>2 DEF Congruent
    <2>2. CASE ~ (t < 0)
      <3>1. x = t  BY <2>2
      <3> QED  BY <1>2, <3>1 DEF Congruent
    <2> QED  BY <2>1, <2>2
  <1> HIDE DEF x
  <1> DEFINE y == x * v
  <1>9. y \in Int /\ 1 \in Int  BY <1>7
  <1>10. Congruent(y, 1, m)  BY <1>8
  <1> HIDE DEF y
  <1>11. y % m = 1 % m  BY <1>0, <1>9, <1>10, CongruentMod
  <1>12. 1 % m = 1  BY <1>0, SmallMod
  <1>13. x \in Inverses(v, m)  BY <1>7, <1>11, <1>12 DEF Inverses, y
  <1> QED  BY <1>13 DEF x, t

\* An inverse makes the last remainder one.
LEMMA EuclidMisses ==
  ASSUME NEW v \in Nat, NEW m \in Nat, m > 1, NEW s, EuclidInv(s, v, m),
         s.nr = 0, NEW x \in Inverses(v, m)
  PROVE  s.r = 1
  <1> DEFINE n == s.nt
             r == s.r
             u == n * v
             y == x * v
  <1>0. m \in Nat \ {0} /\ 0 \in 0 .. m - 1  OBVIOUS
  <1>1. n \in Int /\ r \in Nat /\ r > 0 /\ s.t \in Int
    BY DEF EuclidInv, EuclidStates
  <1>2. Congruent(u, 0, m)  BY DEF EuclidInv
  <1>3. \/ n > 0 /\ n * r - s.t * 0 = m
        \/ n < 0 /\ s.t * 0 - n * r = m
    BY DEF EuclidInv
  <1>4. x \in Int /\ y % m = 1  BY DEF Inverses
  <1> HIDE DEF n, r
  <1>5. u \in Int /\ y \in Int /\ n * y = u * x  BY <1>1, <1>4
  <1> HIDE DEF u, y
  <1>6. u % m = 0 % m  BY <1>0, <1>2, <1>5, CongruentMod
  <1>i. n \in Int /\ x \in Int /\ u \in Int /\ y \in Int  BY <1>1, <1>4, <1>5
  <1>7. (n * (y % m)) % m = (n * y) % m  BY <1>0, <1>i, MulMod
  <1>8. ((u % m) * x) % m = (u * x) % m  BY <1>0, <1>i, MulMod
  <1>9. 0 % m = 0  BY <1>0, SmallMod
  <1>10. n * 1 = n /\ 0 * x = 0  BY <1>1, <1>4
  <1>11. n % m = 0  BY <1>4, <1>5, <1>6, <1>7, <1>8, <1>9, <1>10
  <1> DEFINE q == n \div m
             h == n % m
  <1>12. q \in Int /\ h \in 0 .. m - 1 /\ n = q * m + h  BY <1>0, <1>1, IntDivMod
  <1>h. h = 0  BY <1>11
  <1> HIDE DEF q, h
  <1>13. q \in Int /\ n = q * m  BY <1>0, <1>12, <1>h
  <1>14. q > 0 => q * m >= m  BY <1>0, <1>13
  <1>15. q < 0 => q * m <= 0 - m  BY <1>0, <1>13
  <1>16. n # 0  BY <1>1, <1>3
  <1>17. n >= m \/ n <= 0 - m
    <2>1. q # 0  BY <1>13, <1>16
    <2> QED  BY <1>13, <1>14, <1>15, <2>1
  <1>18. n * r = m \/ n * r = 0 - m  BY <1>1, <1>3
  <1>19. r >= 2 => /\ n >= m => n * r >= m + m
                   /\ n <= 0 - m => n * r <= 0 - (m + m)
    <2> SUFFICES ASSUME r >= 2
                 PROVE  /\ n >= m => n * r >= m + m
                        /\ n <= 0 - m => n * r <= 0 - (m + m)
      OBVIOUS
    <2>1. n >= 0 => n * r >= n * 2  BY <1>1
    <2>2. n <= 0 => n * r <= n * 2  BY <1>1
    <2> QED  BY <1>0, <1>1, <2>1, <2>2
  <1>20. r = 1  BY <1>0, <1>1, <1>17, <1>18, <1>19
  <1> QED  BY <1>20 DEF r

\* The inverse is found when there is one.
LEMMA InverseIs ==
  ASSUME NEW v \in Nat, NEW m \in Nat
  PROVE  LET inv == pka_mod_inverse(v, m)
         IN  IF Inverses(v, m) = {} THEN inv = [value |-> 0, ok |-> FALSE]
             ELSE /\ inv.ok = TRUE /\ inv.value \in 1 .. m - 1
                  /\ inv.value = CHOOSE x \in Inverses(v, m) : TRUE
  <1>1. CASE m <= 1
    <2>1. Inverses(v, m) = {}  BY <1>1 DEF Inverses
    <2>2. pka_mod_inverse(v, m) = [value |-> 0, ok |-> FALSE]
      BY <1>1 DEF pka_mod_inverse
    <2> QED  BY <2>1, <2>2
  <1>2. CASE m > 1
    <2>1. PICK p \in [0 .. m -> EuclidStates] :
            /\ p[0] = EuclidFirst(v, m)
            /\ \A i \in 1 .. m : p[i] = EuclidPass(p[i - 1])
            /\ pka_mod_inverse(v, m) =
                 IF p[m].r # 1 THEN [value |-> 0, ok |-> FALSE]
                 ELSE [value |-> IF p[m].t < 0 THEN p[m].t + m ELSE p[m].t,
                       ok |-> TRUE]
      BY <1>2, EuclidLoop
    <2>2. EuclidInv(p[m], v, m) /\ p[m].nr = 0  BY <1>2, <2>1, EuclidEnds
    <2> DEFINE x == IF p[m].t < 0 THEN p[m].t + m ELSE p[m].t
    <2>3. CASE p[m].r = 1
      <3>1. x \in Inverses(v, m)  BY <1>2, <2>2, <2>3, EuclidFinds
      <3>2. pka_mod_inverse(v, m) = [value |-> x, ok |-> TRUE]  BY <2>1, <2>3
      <3> HIDE DEF x
      <3> DEFINE c == CHOOSE y \in Inverses(v, m) : TRUE
      <3>3. c \in Inverses(v, m)  BY <3>1
      <3> HIDE DEF c
      <3>4. x = c  BY <3>1, <3>3, OneInverse
      <3>5. x \in 1 .. m - 1  BY <3>1 DEF Inverses
      <3> QED  BY <3>1, <3>2, <3>4, <3>5 DEF c
    <2>4. CASE p[m].r # 1
      <3>1. Inverses(v, m) = {}  BY <1>2, <2>2, <2>4, EuclidMisses
      <3> QED  BY <2>1, <2>4, <3>1
    <2> QED  BY <2>3, <2>4
  <1>3. m <= 1 \/ m > 1  OBVIOUS
  <1> QED  BY <1>1, <1>2, <1>3

-----------------------------------------------------------------------------
(* The operations                                                          *)

\* An operand of w words.
Wide(f, w) == f \in [1 .. w -> Word]

LEMMA WideIs == ASSUME NEW w \in Nat, NEW f, Wide(f, w) PROVE Len(f) = w
  BY TupleIs DEF Wide

LEMMA ImmediateWide ==
  ASSUME NEW id \in 0 .. Pow2(ImmBits) - 1, NEW w, NEW signed
  PROVE  Wide(Immediate(id, w, signed), w)
  <1> DEFINE I == Pow2(ImmBits)
             J == Pow2(WordBits - ImmBits)
  <1>1. ImmBits \in Nat /\ WordBits - ImmBits \in Nat
        /\ ImmBits + (WordBits - ImmBits) = WordBits
    BY PkaAssumption
  <1>2. I \in Nat \ {0} /\ J \in Nat \ {0}  BY <1>1, Pow2Step
  <1>3. Radix = I * J
    <2> DEFINE b == WordBits - ImmBits
    <2> HIDE DEF b
    <2>1. b \in Nat /\ Pow2(ImmBits + b) = Pow2(ImmBits) * Pow2(b)
      BY <1>1, Pow2Sum DEF b
    <2>2. ImmBits + b = WordBits  BY <1>1 DEF b
    <2> QED  BY <2>1, <2>2 DEF Radix, b
  <1> HIDE DEF I, J
  <1>4. I * J >= I  BY <1>2
  <1>5. id \in 0 .. I - 1  BY DEF I
  <1>6. Radix \in Nat /\ Radix >= 2 /\ Radix >= I  BY <1>3, <1>4, RadixIs
  <1>7. id \in Word /\ Radix + id - I \in Word /\ Radix - 1 \in Word /\ 0 \in Word
    BY <1>2, <1>5, <1>6 DEF Word
  <1> HIDE DEF Word
  <1>8. Radix + id - Pow2(ImmBits) \in Word  BY <1>7 DEF I
  <1> QED  BY <1>7, <1>8 DEF Wide, Immediate

SramTyped == sram \in [Addrs -> Word] /\ base \in [Regs -> Bases]

LEMMA LoadWide ==
  ASSUME SramTyped, NEW o \in Operand, NEW w, NEW signed
  PROVE  Wide(pka_load_operand(o, w, signed), w)
  <1>1. CASE o.imm
    <2>1. o.id \in 0 .. Pow2(ImmBits) - 1  BY <1>1 DEF Operand
    <2> QED  BY <1>1, <2>1, ImmediateWide DEF pka_load_operand
  <1>2. CASE ~ o.imm
    <2>1. \A a : pka_sram_read(a) \in Word
      <3>1. 0 \in Word  BY RadixIs DEF Word
      <3> QED  BY <3>1 DEF pka_sram_read, SramTyped
    <2> QED  BY <1>2, <2>1 DEF pka_load_operand, Wide
  <1> QED  BY <1>1, <1>2

LEMMA OpcodeIs ==
  ASSUME NEW o \in Opcodes
  PROVE  /\ o.op \in Ops /\ o.size \in Sizes /\ o.res \in Regs
         /\ o.lhs \in Operand /\ o.rhs \in Operand
  <1>1. o \in Opcode  BY PkaAssumption
  <1> QED  BY <1>1 DEF Opcode

LEMMA ModulusLoadWide ==
  ASSUME SramTyped, NEW w
  PROVE  Wide(pka_load_operand([imm |-> FALSE, id |-> NBase], w, FALSE), w)
  <1>1. [imm |-> FALSE, id |-> NBase] \in Operand  BY PkaAssumption DEF Operand
  <1> QED  BY <1>1, LoadWide

LEMMA ModulusBound ==
  ASSUME SramTyped, NEW w \in Nat
  PROVE  N(w) \in 0 .. pka_word_modulus(w) - 1
  BY ModulusLoadWide, WordsBound DEF N, Wide

LEMMA BitwiseIs ==
  ASSUME NEW op \in {"AND", "OR", "XOR"}, NEW x \in Word, NEW y \in Word
  PROVE  Bitwise(op, x, y) \in Word
  <1> DEFINE Of(a, b) == CASE op = "AND" -> a * b
                           [] op = "OR"  -> a + b - a * b
                           [] op = "XOR" -> (a + b) % 2
             d == [k \in 1 .. WordBits |-> Of(Bit(x, k - 1), Bit(y, k - 1))]
  <1>1. \A a, b \in 0 .. 1 : Of(a, b) \in 0 .. 1
    <2> TAKE a, b \in 0 .. 1
    <2>1. a = 0 \/ a = 1  OBVIOUS
    <2>2. b = 0 \/ b = 1  OBVIOUS
    <2> QED  BY <2>1, <2>2
  <1>2. \A k \in 1 .. WordBits : Bit(x, k - 1) \in 0 .. 1 /\ Bit(y, k - 1) \in 0 .. 1
    <2> TAKE k \in 1 .. WordBits
    <2>1. k - 1 \in Nat /\ x \in Nat /\ y \in Nat
      BY RadixIs, PkaAssumption DEF Word
    <2> DEFINE j == k - 1
    <2> HIDE DEF j
    <2>2. j \in Nat  BY <2>1 DEF j
    <2>3. Bit(x, j) \in 0 .. 1 /\ Bit(y, j) \in 0 .. 1  BY <2>1, <2>2, BitIs
    <2> QED  BY <2>3 DEF j
  <1>3. Bitwise(op, x, y) = Number(d, 2)  BY DEF Bitwise
  <1> HIDE DEF Of
  <1>4. d \in [1 .. WordBits -> 0 .. 1]  BY <1>1, <1>2
  <1> HIDE DEF d
  <1>5. Number(d, 2) \in 0 .. Pow2(WordBits) - 1  BY <1>4, BitsBound, PkaAssumption
  <1> QED  BY <1>3, <1>5 DEF Word, Radix

\* The operands of an opcode, as the engine loads them.
Left(o) == pka_load_operand(o.lhs, Words(o), Signed(o.op))
Right(o) == pka_load_operand(o.rhs, Words(o), Signed(o.op))

\* What an operation answers, and what it is meant to, case by case.
Agrees(o, m) ==
  LET res  == Result(o, m)
      want == Meaning(o)
  IN  /\ pka_words_to_int(res.words) = want.value
      /\ res.flags = want.flags
      /\ res.back # None => pka_words_to_int(res.back) = want.back

\* A number stored in w words: it is itself when it has no more.
LEMMA Stored ==
  ASSUME NEW w \in Nat, NEW v \in 0 .. pka_word_modulus(w) - 1
  PROVE  /\ Wide(pka_int_to_words(v, w), w)
         /\ pka_words_to_int(pka_int_to_words(v, w)) = v
  <1>1. v \in Int /\ pka_word_modulus(w) \in Nat \ {0}  BY WidthIs
  <1>2. v % pka_word_modulus(w) = v  BY <1>1, SmallMod
  <1> QED  BY <1>1, <1>2, WordsOfInt DEF Wide

LEMMA AnswerIs ==
  ASSUME NEW o, NEW m, NEW ws, NEW fs, Result(o, m) = Answer(ws, fs)
  PROVE  /\ Result(o, m).words = ws /\ Result(o, m).back = None
         /\ \A v, b : /\ Meaning(o) = [value |-> v, flags |-> fs, back |-> b]
                     /\ pka_words_to_int(ws) = v
                    => Agrees(o, m)
  BY DEF Answer, Agrees

\* The sums and differences of words.
LEMMA SumAgrees ==
  ASSUME SramTyped, NEW o \in Opcodes, NEW w \in Nat, Words(o) = w, NEW m \in Nat,
         o.op \in {"ADD", "SUB", "MODADD", "MODSUB"}
  PROVE  /\ Wide(Result(o, m).words, w) /\ Result(o, m).back = None
         /\ m = N(w) => Agrees(o, m)
  <1> DEFINE lw == Left(o)
             rw == Right(o)
             l == pka_words_to_int(lw)
             r == pka_words_to_int(rw)
             M == pka_word_modulus(w)
             sum == pka_add_words(lw, rw)
             diff == pka_sub_words(lw, rw)
  <1>1. Wide(lw, w) /\ Wide(rw, w)
    <2>1. o.lhs \in Operand /\ o.rhs \in Operand  BY OpcodeIs
    <2> QED  BY <2>1, LoadWide DEF Left, Right
  <1>r. /\ o.op = "ADD" => Result(o, m) = Answer(sum.words, If(sum.carry, "carry"))
        /\ o.op = "MODADD" => Result(o, m) =
             IF m > 0 THEN Answer(pka_int_to_words(pka_positive_mod(l + r, m), w),
                                  If(l + r >= m, "carry"))
             ELSE Answer(sum.words, If(sum.carry, "carry"))
        /\ o.op = "SUB" => Result(o, m) =
             Answer(diff.words, IF diff.carry THEN {"carry", "sign"} ELSE {})
        /\ o.op = "MODSUB" => Result(o, m) =
             Answer(IF m > 0 THEN pka_int_to_words(pka_positive_mod(l - r, m), w)
                    ELSE diff.words,
                    IF l < r THEN {"carry", "sign"} ELSE {})
    BY DEF Result, Shifts, Left, Right
  <1>m. LET A(v, flags) == [value |-> v, flags |-> flags, back |-> l]
            Borrow == IF l < r THEN {"carry", "sign"} ELSE {}
            n == N(w)
        IN  /\ o.op = "ADD" => Meaning(o) = A((l + r) % M, If(l + r >= M, "carry"))
            /\ o.op = "MODADD" => Meaning(o) =
                 IF n = 0 THEN A((l + r) % M, If(l + r >= M, "carry"))
                 ELSE A((l + r) % n, If(l + r >= n, "carry"))
            /\ o.op = "SUB" => Meaning(o) = A((l - r) % M, Borrow)
            /\ o.op = "MODSUB" => Meaning(o) = A((l - r) % (IF n = 0 THEN M ELSE n), Borrow)
    BY DEF Meaning, Shifts, Left, Right
  <1> HIDE DEF lw, rw
  <1>2. /\ Wide(sum.words, w) /\ sum.carry \in BOOLEAN
        /\ pka_words_to_int(sum.words) = (l + r) % M
        /\ sum.carry <=> l + r >= M
    BY <1>1, AddIs DEF Wide
  <1>3. /\ Wide(diff.words, w) /\ diff.carry \in BOOLEAN
        /\ pka_words_to_int(diff.words) = (l - r) % M
        /\ diff.carry <=> l < r
    BY <1>1, SubIs DEF Wide
  <1>4. l \in Nat /\ r \in Nat /\ M \in Nat \ {0}
    <2>1. l \in 0 .. M - 1 /\ r \in 0 .. M - 1  BY <1>1, WordsBound DEF Wide
    <2>2. M \in Nat \ {0}  BY WidthIs
    <2> QED  BY <2>1, <2>2
  <1>n. N(w) \in 0 .. M - 1  BY ModulusBound
  <1> HIDE DEF l, r, M, sum, diff
  <1>5. \A v \in Int : m > 0 =>
          /\ Wide(pka_int_to_words(pka_positive_mod(v, m), w), w)
          /\ m = N(w) =>
               pka_words_to_int(pka_int_to_words(pka_positive_mod(v, m), w)) = v % m
    <2> SUFFICES ASSUME NEW v \in Int, m > 0
                 PROVE  /\ Wide(pka_int_to_words(v % m, w), w)
                        /\ m = N(w) =>
                             pka_words_to_int(pka_int_to_words(v % m, w)) = v % m
      BY DEF pka_positive_mod
    <2> DEFINE x == v % m
    <2>1. x \in 0 .. m - 1  BY IntDivMod
    <2> HIDE DEF x
    <2>2. x \in Int  BY <2>1
    <2>3. Wide(pka_int_to_words(x, w), w)  BY <2>2, WordsOfInt DEF Wide
    <2>4. ASSUME m = N(w) PROVE pka_words_to_int(pka_int_to_words(x, w)) = x
      <3>1. x \in 0 .. pka_word_modulus(w) - 1
        <4>1. m \in 0 .. M - 1  BY <1>n, <2>4
        <4> QED  BY <1>4, <2>1, <4>1 DEF M
      <3> QED  BY <3>1, Stored
    <2> QED  BY <2>3, <2>4 DEF x
  <1>6. l + r \in Int /\ l - r \in Int  BY <1>4
  <1> DEFINE Sum == If(sum.carry, "carry")
             Diff == IF diff.carry THEN {"carry", "sign"} ELSE {}
  <1>7. Sum = If(l + r >= M, "carry")  BY <1>2 DEF If
  <1>8. Diff = IF l < r THEN {"carry", "sign"} ELSE {}  BY <1>3
  <1> HIDE DEF Sum, Diff
  <1>9. CASE o.op = "ADD"
    <2>1. Result(o, m) = Answer(sum.words, Sum)  BY <1>9, <1>r DEF Sum
    <2>2. Meaning(o) = [value |-> (l + r) % M, flags |-> Sum, back |-> l]
      BY <1>7, <1>9, <1>m
    <2> QED  BY <1>2, <2>1, <2>2, AnswerIs
  <1>10. CASE o.op = "SUB"
    <2>1. Result(o, m) = Answer(diff.words, Diff)  BY <1>10, <1>r DEF Diff
    <2>2. Meaning(o) = [value |-> (l - r) % M, flags |-> Diff, back |-> l]
      BY <1>8, <1>10, <1>m
    <2> QED  BY <1>3, <2>1, <2>2, AnswerIs
  <1> DEFINE Mod(v) == pka_int_to_words(pka_positive_mod(v, m), w)
  <1>11. CASE o.op = "MODADD"
    <2>1. CASE m > 0
      <3> DEFINE fs == If(l + r >= m, "carry")
                 ws == Mod(l + r)
      <3>1. Result(o, m) = Answer(ws, fs)  BY <1>11, <1>r, <2>1
      <3>2. m = N(w) =>
              Meaning(o) = [value |-> (l + r) % m, flags |-> fs, back |-> l]
        BY <1>11, <1>m, <2>1
      <3>3. Wide(ws, w) /\ (m = N(w) => pka_words_to_int(ws) = (l + r) % m)
        BY <1>5, <1>6, <2>1
      <3> HIDE DEF fs, ws
      <3> QED  BY <3>1, <3>2, <3>3, AnswerIs
    <2>2. CASE m = 0
      <3>1. Result(o, m) = Answer(sum.words, Sum)  BY <1>11, <1>r, <2>2 DEF Sum
      <3>2. m = N(w) =>
              Meaning(o) = [value |-> (l + r) % M, flags |-> Sum, back |-> l]
        BY <1>7, <1>11, <1>m, <2>2
      <3> QED  BY <1>2, <3>1, <3>2, AnswerIs
    <2> QED  BY <2>1, <2>2
  <1>12. CASE o.op = "MODSUB"
    <2> DEFINE fs == IF l < r THEN {"carry", "sign"} ELSE {}
    <2>1. CASE m > 0
      <3> DEFINE ws == Mod(l - r)
      <3>1. Result(o, m) = Answer(ws, fs)  BY <1>12, <1>r, <2>1
      <3>2. m = N(w) =>
              Meaning(o) = [value |-> (l - r) % m, flags |-> fs, back |-> l]
        BY <1>12, <1>m, <2>1
      <3>3. Wide(ws, w) /\ (m = N(w) => pka_words_to_int(ws) = (l - r) % m)
        BY <1>5, <1>6, <2>1
      <3> HIDE DEF fs, ws
      <3> QED  BY <3>1, <3>2, <3>3, AnswerIs
    <2>2. CASE m = 0
      <3>1. Result(o, m) = Answer(diff.words, fs)  BY <1>12, <1>r, <2>2
      <3>2. m = N(w) =>
              Meaning(o) = [value |-> (l - r) % M, flags |-> fs, back |-> l]
        BY <1>12, <1>m, <2>2
      <3> HIDE DEF fs
      <3> QED  BY <1>3, <3>1, <3>2, AnswerIs
    <2> QED  BY <2>1, <2>2
  <1> QED  BY <1>9, <1>10, <1>11, <1>12

LEMMA ShiftAgrees ==
  ASSUME SramTyped, NEW o \in Opcodes, NEW w \in Nat, Words(o) = w, NEW m \in Nat,
         o.op \in Shifts
  PROVE  /\ Wide(Result(o, m).words, w) /\ Result(o, m).back = None
         /\ Agrees(o, m)
  <1> DEFINE lw == Left(o)
             l == pka_words_to_int(lw)
             left == o.op \in {"SHL0", "SHL1"}
             fill == o.op \in {"SHR1", "SHL1"}
             a == o.rhs.id + 1
             ws == pka_shift_words(lw, a, left, fill)
             v == Shifted(l, w * WordBits, left, fill, a)
  <1>1. Wide(lw, w)
    <2>1. o.lhs \in Operand  BY OpcodeIs
    <2> QED  BY <2>1, LoadWide DEF Left
  <1>2. a \in Nat
    <2>1. o.rhs \in Operand  BY OpcodeIs
    <2>2. ImmBits \in Nat  BY PkaAssumption
    <2>3. Pow2(ImmBits) \in Nat \ {0}  BY <2>2, Pow2Step
    <2>4. o.rhs.id \in Nat
      <3>1. CASE o.rhs.imm
        <4>1. o.rhs.id \in 0 .. Pow2(ImmBits) - 1  BY <2>1, <3>1 DEF Operand
        <4> QED  BY <2>3, <4>1
      <3>2. CASE ~ o.rhs.imm  BY <2>1, <3>2, PkaAssumption DEF Operand
      <3> QED  BY <3>1, <3>2
    <2> QED  BY <2>4
  <1>3. Result(o, m) = Answer(ws, {})  BY DEF Result, Shifts, Left
  <1>4. Meaning(o) = [value |-> v, flags |-> {}, back |-> l]
    BY DEF Meaning, Shifts, Left
  <1>5. left \in BOOLEAN /\ fill \in BOOLEAN  OBVIOUS
  <1> HIDE DEF lw, a, left, fill
  <1>6. ws \in [1 .. w -> Word] /\ pka_words_to_int(ws) = v
    BY <1>1, <1>2, <1>5, ShiftIs DEF Wide
  <1> HIDE DEF ws, v
  <1> QED  BY <1>3, <1>4, <1>6, AnswerIs DEF Wide

LEMMA LogicalWide ==
  ASSUME SramTyped, NEW o \in Opcodes, NEW w \in Nat, Words(o) = w, NEW m \in Nat,
         o.op \in {"AND", "OR", "XOR"}
  PROVE  Wide(Result(o, m).words, w) /\ Result(o, m).back = None
  <1> DEFINE lw == Left(o)
             rw == Right(o)
             ws == [i \in 1 .. w |-> Bitwise(o.op, lw[i], rw[i])]
  <1>1. Wide(lw, w) /\ Wide(rw, w)
    <2>1. o.lhs \in Operand /\ o.rhs \in Operand  BY OpcodeIs
    <2> QED  BY <2>1, LoadWide DEF Left, Right
  <1>2. Result(o, m) = Answer(ws, {})  BY DEF Result, Shifts, Left, Right
  <1> HIDE DEF lw, rw
  <1>3. \A i \in 1 .. w : Bitwise(o.op, lw[i], rw[i]) \in Word
    BY <1>1, BitwiseIs DEF Wide
  <1>4. Wide(ws, w)  BY <1>3 DEF Wide
  <1> HIDE DEF ws
  <1> QED  BY <1>2, <1>4, AnswerIs

\* Products, whose high half fits in as many words.
LEMMA ProductAgrees ==
  ASSUME SramTyped, NEW o \in Opcodes, NEW w \in Nat, Words(o) = w, NEW m \in Nat,
         o.op \in {"MULLOW", "MULHIGH"}
  PROVE  /\ Wide(Result(o, m).words, w) /\ Result(o, m).back = None
         /\ Agrees(o, m)
  <1> DEFINE lw == Left(o)
             rw == Right(o)
             l == pka_words_to_int(lw)
             r == pka_words_to_int(rw)
             M == pka_word_modulus(w)
             x == l * r
             high == x \div M
             low == x % M
  <1>1. Wide(lw, w) /\ Wide(rw, w)
    <2>1. o.lhs \in Operand /\ o.rhs \in Operand  BY OpcodeIs
    <2> QED  BY <2>1, LoadWide DEF Left, Right
  <1>r. /\ o.op = "MULLOW" =>
             Result(o, m) = Answer(pka_int_to_words(x, w), If(high # 0, "carry"))
        /\ o.op = "MULHIGH" => Result(o, m) = Answer(pka_int_to_words(high, w), {})
    BY DEF Result, Shifts, Left, Right
  <1>m. /\ o.op = "MULLOW" => Meaning(o) =
             [value |-> low, flags |-> If(x >= M, "carry"), back |-> l]
        /\ o.op = "MULHIGH" => Meaning(o) =
             [value |-> high, flags |-> {}, back |-> l]
    BY DEF Meaning, Shifts, Left, Right
  <1> HIDE DEF lw, rw
  <1>2. l \in 0 .. M - 1 /\ r \in 0 .. M - 1  BY <1>1, WordsBound DEF Wide
  <1>3. M \in Nat \ {0}  BY WidthIs
  <1> HIDE DEF l, r
  <1>4. x \in Nat /\ x < M * M
    <2>1. l * r <= l * M  BY <1>2, <1>3
    <2>2. l * M <= (M - 1) * M  BY <1>2, <1>3
    <2>3. (M - 1) * M = M * M - M  BY <1>3
    <2> DEFINE A == l * r
               B == l * M
               C == (M - 1) * M
               D == M * M
    <2>4. A \in Nat /\ B \in Nat /\ C \in Int /\ D \in Nat  BY <1>2, <1>3
    <2>5. A <= B /\ B <= C /\ C = D - M  BY <2>1, <2>2, <2>3
    <2> HIDE DEF A, B, C, D
    <2>6. A < D  BY <1>3, <2>4, <2>5
    <2> QED  BY <2>4, <2>6 DEF A, D
  <1> HIDE DEF x
  <1>5. high \in Nat /\ low \in 0 .. M - 1 /\ x = high * M + low
    BY <1>3, <1>4, DivMod
  <1> HIDE DEF high
  <1>6. high < M
    <2>1. high >= M => high * M >= M * M  BY <1>3, <1>5
    <2> DEFINE A == high * M
               D == M * M
    <2>2. A \in Nat /\ D \in Nat  BY <1>3, <1>5
    <2>3. (high >= M => A >= D) /\ x = A + low /\ x < D  BY <1>4, <1>5, <2>1
    <2> HIDE DEF A, D, low
    <2> QED  BY <1>3, <1>4, <1>5, <2>2, <2>3
  <1>7. high # 0 <=> x >= M
    <2>1. high >= 1 => high * M >= M  BY <1>3, <1>5
    <2>2. high = 0 => high * M = 0  BY <1>3
    <2> DEFINE A == high * M
    <2>3. A \in Nat /\ (high >= 1 => A >= M) /\ (high = 0 => A = 0) /\ x = A + low
      BY <1>3, <1>5, <2>1, <2>2
    <2> HIDE DEF A, low
    <2> QED  BY <1>3, <1>4, <1>5, <2>3
  <1>8. If(high # 0, "carry") = If(x >= M, "carry")  BY <1>7 DEF If
  <1>9. /\ Wide(pka_int_to_words(x, w), w)
        /\ pka_words_to_int(pka_int_to_words(x, w)) = low
    <2>1. x \in Int  BY <1>4
    <2> QED  BY <2>1, WordsOfInt DEF Wide
  <1>10. /\ Wide(pka_int_to_words(high, w), w)
         /\ pka_words_to_int(pka_int_to_words(high, w)) = high
    <2>1. high \in 0 .. pka_word_modulus(w) - 1  BY <1>3, <1>5, <1>6
    <2> QED  BY <2>1, Stored
  <1> HIDE DEF low, M
  <1>11. CASE o.op = "MULLOW"
    <2>1. Meaning(o) = [value |-> low, flags |-> If(high # 0, "carry"), back |-> l]
      BY <1>8, <1>11, <1>m
    <2> QED  BY <1>9, <1>11, <1>r, <2>1, AnswerIs
  <1>12. CASE o.op = "MULHIGH"  BY <1>10, <1>12, <1>r, <1>m, AnswerIs
  <1> QED  BY <1>11, <1>12

\* Division, which also puts the remainder back into the left operand.
LEMMA DivAgrees ==
  ASSUME SramTyped, NEW o \in Opcodes, NEW w \in Nat, Words(o) = w, NEW m \in Nat,
         o.op = "DIV"
  PROVE  /\ Wide(Result(o, m).words, w) /\ Wide(Result(o, m).back, w)
         /\ Agrees(o, m)
  <1> DEFINE lw == Left(o)
             rw == Right(o)
             l == pka_words_to_int(lw)
             r == pka_words_to_int(rw)
             M == pka_word_modulus(w)
             W(v) == pka_int_to_words(v, w)
  <1>1. Wide(lw, w) /\ Wide(rw, w)
    <2>1. o.lhs \in Operand /\ o.rhs \in Operand  BY OpcodeIs
    <2> QED  BY <2>1, LoadWide DEF Left, Right
  <1>r. /\ r = 0 => Result(o, m) =
                      [words |-> W(0), flags |-> {"div_by_zero"}, back |-> lw]
        /\ r # 0 => Result(o, m) =
                      [words |-> W(l \div r), flags |-> {}, back |-> W(l % r)]
    BY DEF Result, Shifts, Left, Right
  <1>m. /\ r = 0 => Meaning(o) =
                      [value |-> 0, flags |-> {"div_by_zero"}, back |-> l]
        /\ r # 0 => Meaning(o) =
                      [value |-> l \div r, flags |-> {}, back |-> l % r]
    BY DEF Meaning, Shifts, Left, Right
  <1> HIDE DEF lw, rw
  <1>2. l \in 0 .. M - 1 /\ r \in 0 .. M - 1  BY <1>1, WordsBound DEF Wide
  <1>3. M \in Nat \ {0}  BY WidthIs
  <1>4. CASE r = 0
    <2>1. 0 \in 0 .. M - 1  BY <1>3
    <2>2. Wide(W(0), w) /\ pka_words_to_int(W(0)) = 0  BY <2>1, Stored
    <2> HIDE DEF W
    <2> QED  BY <1>1, <1>4, <1>r, <1>m, <2>2 DEF Agrees
  <1> HIDE DEF l, r
  <1>5. CASE r # 0
    <2> DEFINE q == l \div r
               k == l % r
    <2>1. l \in Nat /\ r \in Nat \ {0}  BY <1>2, <1>5
    <2>2. q \in Nat /\ k \in 0 .. r - 1 /\ l = q * r + k  BY <2>1, DivMod
    <2>3. /\ r # 0 => Result(o, m) = [words |-> W(q), flags |-> {}, back |-> W(k)]
          /\ r # 0 => Meaning(o) = [value |-> q, flags |-> {}, back |-> k]
      BY <1>r, <1>m DEF l, r
    <2> HIDE DEF q, k
    <2>4. q * r >= q  BY <2>1, <2>2
    <2>5. q \in 0 .. M - 1 /\ k \in 0 .. M - 1
      <3> DEFINE A == q * r
      <3>1. A \in Nat /\ A >= q /\ l = A + k  BY <2>1, <2>2, <2>4
      <3> HIDE DEF A
      <3> QED  BY <1>2, <1>3, <2>1, <2>2, <3>1
    <2>6. Wide(W(q), w) /\ pka_words_to_int(W(q)) = q  BY <2>5, Stored
    <2>7. Wide(W(k), w) /\ pka_words_to_int(W(k)) = k  BY <2>5, Stored
    <2> HIDE DEF W
    <2> QED  BY <1>5, <2>3, <2>6, <2>7 DEF Agrees
  <1> QED  BY <1>4, <1>5

\* The other modular operations, and those that compute nothing.
LEMMA ModularAgrees ==
  ASSUME SramTyped, NEW o \in Opcodes, NEW w \in Nat, Words(o) = w, NEW m \in Nat,
         o.op \in {"MODMUL", "MODEXP", "MODINV", "REDUCTION", "NOP", "OTHER"}
  PROVE  /\ Wide(Result(o, m).words, w) /\ Result(o, m).back = None
         /\ m = N(w) => Agrees(o, m)
  <1> DEFINE lw == Left(o)
             rw == Right(o)
             l == pka_words_to_int(lw)
             r == pka_words_to_int(rw)
             M == pka_word_modulus(w)
             x == l * r
             inv == pka_mod_inverse(r, m)
             W(v) == pka_int_to_words(v, w)
             NoMod == If(m <= 0, "div_by_zero")
             Mod(v) == IF m = 0 THEN 0 ELSE v % m
             A(v, flags) == [value |-> v, flags |-> flags, back |-> l]
  <1>1. Wide(lw, w) /\ Wide(rw, w)
    <2>1. o.lhs \in Operand /\ o.rhs \in Operand  BY OpcodeIs
    <2> QED  BY <2>1, LoadWide DEF Left, Right
  <1>r. /\ o.op = "MODMUL" => Result(o, m) = Answer(W(pka_positive_mod(x, m)), NoMod)
        /\ o.op = "MODEXP" => Result(o, m) = Answer(W(pka_pow_mod(l, r, m)), NoMod)
        /\ o.op = "MODINV" =>
             Result(o, m) = Answer(W(inv.value), If(~ inv.ok, "div_by_zero"))
        /\ o.op = "REDUCTION" =>
             Result(o, m) = Answer(W(pka_positive_mod(l, m)), NoMod)
        /\ o.op \in {"NOP", "OTHER"} => Result(o, m) = Answer(W(0), {})
    BY DEF Result, Shifts, Left, Right
  <1>m. m = N(w) =>
          /\ o.op = "MODMUL" => Meaning(o) = A(Mod(x), If(m = 0, "div_by_zero"))
          /\ o.op = "MODEXP" =>
               Meaning(o) = A(IF m = 0 THEN 0 ELSE Product(l, r, m),
                              If(m = 0, "div_by_zero"))
          /\ o.op = "MODINV" =>
               Meaning(o) = IF Inverses(r, m) = {} THEN A(0, {"div_by_zero"})
                            ELSE A(CHOOSE y \in Inverses(r, m) : TRUE, {})
          /\ o.op = "REDUCTION" => Meaning(o) = A(Mod(l), If(m = 0, "div_by_zero"))
          /\ o.op \in {"NOP", "OTHER"} => Meaning(o) = A(0, {})
    BY DEF Meaning, Shifts, Left, Right
  <1> HIDE DEF lw, rw
  <1>2. l \in 0 .. M - 1 /\ r \in 0 .. M - 1  BY <1>1, WordsBound DEF Wide
  <1>3. M \in Nat \ {0}  BY WidthIs
  <1>n. m = N(w) => m \in 0 .. M - 1  BY ModulusBound
  <1> HIDE DEF l, r
  <1>4. l \in Nat /\ r \in Nat /\ l \in Int /\ x \in Int  BY <1>2, <1>3
  <1> HIDE DEF x
  <1>z. If(m = 0, "div_by_zero") = NoMod  BY DEF If
  \* What is below the modulus, or zero, is stored as it is.
  <1>w. ASSUME NEW v \in Nat, v = 0 \/ v < m
        PROVE  Wide(W(v), w) /\ (m = N(w) => pka_words_to_int(W(v)) = v)
    <2>1. v \in Int  OBVIOUS
    <2>2. Wide(W(v), w)  BY <2>1, WordsOfInt DEF Wide
    <2>3. ASSUME m = N(w) PROVE pka_words_to_int(W(v)) = v
      <3>1. v \in 0 .. pka_word_modulus(w) - 1  BY <1>3, <1>n, <1>w, <2>3
      <3> QED  BY <3>1, Stored
    <2> QED  BY <2>2, <2>3
  <1>p. \A v \in Int : /\ pka_positive_mod(v, m) = Mod(v) /\ Mod(v) \in Nat
                       /\ Mod(v) = 0 \/ Mod(v) < m
    <2> TAKE v \in Int
    <2>1. CASE m = 0  BY <2>1 DEF pka_positive_mod
    <2>2. CASE m # 0
      <3>1. v % m \in 0 .. m - 1  BY <2>2, IntDivMod
      <3> QED  BY <2>2, <3>1 DEF pka_positive_mod
    <2> QED  BY <2>1, <2>2
  <1> HIDE DEF W, Mod, NoMod
  <1>5. CASE o.op \in {"MODMUL", "REDUCTION"}
    <2> DEFINE y == IF o.op = "MODMUL" THEN x ELSE l
    <2>1. y \in Int  BY <1>4
    <2>2. Result(o, m) = Answer(W(pka_positive_mod(y, m)), NoMod)  BY <1>5, <1>r
    <2>3. m = N(w) => Meaning(o) = A(Mod(y), NoMod)  BY <1>5, <1>m, <1>z
    <2> HIDE DEF y
    <2>4. pka_positive_mod(y, m) = Mod(y) /\ Mod(y) \in Nat /\ (Mod(y) = 0 \/ Mod(y) < m)
      BY <1>p, <2>1
    <2>5. Wide(W(Mod(y)), w) /\ (m = N(w) => pka_words_to_int(W(Mod(y))) = Mod(y))
      BY <1>w, <2>4
    <2>6. Result(o, m) = Answer(W(Mod(y)), NoMod)  BY <2>2, <2>4
    <2> QED  BY <2>3, <2>5, <2>6, AnswerIs
  <1>6. CASE o.op = "MODEXP"
    <2> DEFINE y == IF m = 0 THEN 0 ELSE Product(l, r, m)
    <2>1. pka_pow_mod(l, r, m) = y /\ y \in Nat /\ (y = 0 \/ y < m)
      <3>1. CASE m = 0  BY <3>1 DEF pka_pow_mod
      <3>2. CASE m # 0
        <4>1. m \in Nat \ {0}  BY <3>2
        <4>2. Product(l, r, m) \in 0 .. m - 1  BY <1>4, <4>1, ProductStep
        <4>3. pka_pow_mod(l, r, m) = Product(l, r, m)  BY <1>4, <4>1, PowModIs
        <4> QED  BY <3>2, <4>2, <4>3
      <3> QED  BY <3>1, <3>2
    <2>2. Result(o, m) = Answer(W(y), NoMod)
      <3> HIDE DEF y
      <3> QED  BY <1>6, <1>r, <2>1
    <2>3. m = N(w) => Meaning(o) = A(y, NoMod)  BY <1>6, <1>m, <1>z
    <2> HIDE DEF y
    <2>4. Wide(W(y), w) /\ (m = N(w) => pka_words_to_int(W(y)) = y)
      BY <1>w, <2>1
    <2> QED  BY <2>2, <2>3, <2>4, AnswerIs
  <1>7. CASE o.op = "MODINV"
    <2>1. CASE Inverses(r, m) = {}
      <3>1. inv = [value |-> 0, ok |-> FALSE]  BY <1>4, <2>1, InverseIs
      <3>2. Result(o, m) = Answer(W(0), {"div_by_zero"})
        <4>1. inv.value = 0 /\ inv.ok = FALSE  BY <3>1
        <4> HIDE DEF inv
        <4> QED  BY <1>7, <1>r, <4>1 DEF If
      <3>3. m = N(w) => Meaning(o) = A(0, {"div_by_zero"})  BY <1>7, <1>m, <2>1
      <3>4. Wide(W(0), w) /\ (m = N(w) => pka_words_to_int(W(0)) = 0)
        <4>1. 0 \in Nat  OBVIOUS
        <4> QED  BY <1>w, <4>1
      <3> QED  BY <3>2, <3>3, <3>4, AnswerIs
    <2>2. CASE Inverses(r, m) # {}
      <3> DEFINE y == CHOOSE z \in Inverses(r, m) : TRUE
      <3>1. inv.ok = TRUE /\ inv.value \in 1 .. m - 1 /\ inv.value = y
        BY <1>4, <2>2, InverseIs
      <3>2. m = N(w) => Meaning(o) = A(y, {})  BY <1>7, <1>m, <2>2
      <3> HIDE DEF y, inv
      <3>3. Result(o, m) = Answer(W(y), {})  BY <1>7, <1>r, <3>1 DEF If
      <3>4. y \in Nat /\ y < m  BY <3>1
      <3>5. Wide(W(y), w) /\ (m = N(w) => pka_words_to_int(W(y)) = y)
        BY <1>w, <3>4
      <3> QED  BY <3>2, <3>3, <3>5, AnswerIs
    <2> QED  BY <2>1, <2>2
  <1>8. CASE o.op \in {"NOP", "OTHER"}
    <2>1. Result(o, m) = Answer(W(0), {})  BY <1>8, <1>r
    <2>2. m = N(w) => Meaning(o) = A(0, {})  BY <1>8, <1>m
    <2>3. 0 \in Nat  OBVIOUS
    <2>4. Wide(W(0), w) /\ (m = N(w) => pka_words_to_int(W(0)) = 0)
      BY <1>w, <2>3
    <2> QED  BY <2>1, <2>2, <2>4, AnswerIs
  <1> QED  BY <1>5, <1>6, <1>7, <1>8

\* Whatever the operation, its result has the words of its operands, and is
\* what it is meant to be when the modulus is the one in the SRAM.
LEMMA ResultIs ==
  ASSUME SramTyped, NEW o \in Opcodes, NEW w \in Nat, Words(o) = w, NEW m \in Nat
  PROVE  /\ Wide(Result(o, m).words, w)
         /\ Result(o, m).back # None => Wide(Result(o, m).back, w)
         /\ m = N(w) /\ o.op \notin {"AND", "OR", "XOR"} => Agrees(o, m)
  <1>1. o.op \in Ops  BY OpcodeIs
  <1>2. CASE o.op \in {"ADD", "SUB", "MODADD", "MODSUB"}  BY <1>2, SumAgrees
  <1>3. CASE o.op \in Shifts  BY <1>3, ShiftAgrees
  <1>4. CASE o.op \in {"AND", "OR", "XOR"}  BY <1>4, LogicalWide
  <1>5. CASE o.op \in {"MULLOW", "MULHIGH"}  BY <1>5, ProductAgrees
  <1>6. CASE o.op = "DIV"  BY <1>6, DivAgrees
  <1>7. CASE o.op \in {"MODMUL", "MODEXP", "MODINV", "REDUCTION", "NOP", "OTHER"}
    BY <1>7, ModularAgrees
  <1> QED  BY <1>1, <1>2, <1>3, <1>4, <1>5, <1>6, <1>7 DEF Ops, Shifts

-----------------------------------------------------------------------------
(* The cached modulus                                                      *)

\* The number in k words of an SRAM s from f on.
At(s, f, k) ==
  pka_words_to_int([i \in 1 .. k |-> IF f + i - 1 \in Addrs THEN s[f + i - 1] ELSE 0])

LEMMA ModulusAt == \A k : N(k) = At(sram, base[NBase], k)
  BY DEF N, At, pka_load_operand, pka_sram_read

\* The length of an operand that software gave, in words.
Lengths == {pka_len_words(x) : x \in LenBits}

LEMMA LengthIs == Lengths \subseteq Nat \ {0}
  <1> SUFFICES ASSUME NEW x \in LenBits PROVE pka_len_words(x) \in Nat \ {0}
    BY DEF Lengths
  <1> DEFINE y == x + WordBits - 1
             q == y \div WordBits
  <1>1. WordBits \in Nat \ {0} /\ SramWords \in Nat \ {0} /\ x \in Nat
    BY PkaAssumption
  <1>2. CASE x = 0  BY <1>2 DEF pka_len_words
  <1>3. CASE x # 0
    <2>1. y \in Nat /\ y >= WordBits  BY <1>1, <1>3
    <2>2. q \in Nat /\ y % WordBits \in 0 .. WordBits - 1
          /\ y = q * WordBits + (y % WordBits)
      BY <1>1, <2>1, DivMod
    <2>3. q # 0  BY <1>1, <2>1, <2>2
    <2> HIDE DEF y
    <2> QED  BY <1>1, <1>3, <2>2, <2>3 DEF pka_len_words, y
  <1> QED  BY <1>2, <1>3

\* A cache that answers holds the number that N, from f on, has in an SRAM.
Fresh(m, f) ==
  m.cache.valid => /\ m.cache.words \in Lengths
                   /\ m.cache.value = At(m.sram, f, m.cache.words)

LEMMA NoModulusFresh ==
  ASSUME NEW m, NEW f, m.cache = NoModulus PROVE Fresh(m, f)
  BY DEF Fresh, NoModulus

\* A store leaves a fresh cache fresh: it drops it, or it writes no word of N
\* in the length that the cache was filled for, which may be another length
\* than that of the store.
LEMMA StoreFresh ==
  ASSUME base \in Layouts, NEW m, NEW r \in Regs, NEW w \in Lengths, NEW d,
         Wide(d, w), Fresh(m, base[NBase])
  PROVE  Fresh(pka_store_operand(m, r, d), base[NBase])
  <1> DEFINE f == base[NBase]
             b == base[r]
             end == pka_store_operand(m, r, d)
             to == {a \in Addrs : a \in b .. b + w - 1}
  <1>1. w \in Nat \ {0}  BY LengthIs
  <1>2. Len(d) = w  BY <1>1, WideIs
  <1>3. base \in [Regs -> Bases] /\ Apart(base) /\ NBase \in Regs
    BY PkaAssumption
  <1>4. f \in Nat /\ b \in Nat  BY <1>3, PkaAssumption
  <1>5. /\ end.sram = [a \in Addrs |-> IF a \in to THEN d[a - b + 1] ELSE m.sram[a]]
        /\ end.cache = IF (b < f + w /\ f < b + w) /\ to # {} THEN NoModulus
                       ELSE m.cache
    BY <1>2 DEF pka_store_operand
  <1> SUFFICES Fresh(end, f)  OBVIOUS
  <1> HIDE DEF end
  <1>6. CASE end.cache = NoModulus  BY <1>6, NoModulusFresh
  <1>7. CASE end.cache # NoModulus
    <2> SUFFICES ASSUME m.cache.valid
                 PROVE  /\ m.cache.words \in Lengths
                        /\ m.cache.value = At(end.sram, f, m.cache.words)
      BY <1>5, <1>7 DEF Fresh
    <2> DEFINE k == m.cache.words
    <2>1. k \in Lengths /\ m.cache.value = At(m.sram, f, k)  BY DEF Fresh
    <2>2. k \in Nat \ {0}  BY <2>1, LengthIs
    <2>3. \A i \in 1 .. k : f + i - 1 \notin to
      <3>1. CASE to = {}  BY <3>1
      <3>2. CASE to # {}
        <4>1. ~ (b < f + w /\ f < b + w)  BY <1>5, <1>7, <3>2
        <4>2. r # NBase  BY <1>1, <1>4, <4>1
        <4>3. \A n \in Lengths : f + n <= b \/ b + n <= f
          BY <1>3, <4>2 DEF Apart, Lengths
        <4>4. (f + w <= b \/ b + w <= f) /\ (f + k <= b \/ b + k <= f)
          BY <2>1, <4>3
        <4>5. f + k <= b \/ b + w <= f
          BY <1>1, <1>4, <2>2, <4>4
        <4> HIDE DEF f, b, k
        <4> QED  BY <1>1, <1>4, <2>2, <4>5
      <3> QED  BY <3>1, <3>2
    <2>4. \A i \in 1 .. k : f + i - 1 \in Addrs =>
            end.sram[f + i - 1] = m.sram[f + i - 1]
      BY <1>5, <2>3
    <2>5. At(end.sram, f, k) = At(m.sram, f, k)
      <3> HIDE DEF f, k
      <3>1. [i \in 1 .. k |-> IF f + i - 1 \in Addrs THEN end.sram[f + i - 1] ELSE 0]
            = [i \in 1 .. k |-> IF f + i - 1 \in Addrs THEN m.sram[f + i - 1] ELSE 0]
        BY <2>4
      <3> QED  BY <3>1 DEF At
    <2> QED  BY <2>1, <2>5
  <1> QED  BY <1>6, <1>7

LEMMA StoreWide ==
  ASSUME base \in Layouts, NEW m, NEW r \in Regs, NEW w \in Nat, NEW d,
         Wide(d, w), m.sram \in [Addrs -> Word]
  PROVE  pka_store_operand(m, r, d).sram \in [Addrs -> Word]
  <1> DEFINE b == base[r]
             to == {a \in Addrs : a \in b .. b + w - 1}
  <1>1. b \in Nat  BY PkaAssumption
  <1>2. Len(d) = w  BY WideIs
  <1>3. pka_store_operand(m, r, d).sram =
          [a \in Addrs |-> IF a \in to THEN d[a - b + 1] ELSE m.sram[a]]
    BY <1>2 DEF pka_store_operand
  <1> HIDE DEF b
  <1>4. \A a \in to : d[a - b + 1] \in Word
    <2> TAKE a \in to
    <2>1. a - b + 1 \in 1 .. w  BY <1>1
    <2> QED  BY <2>1 DEF Wide
  <1> HIDE DEF to, Word, Addrs
  <1> QED  BY <1>3, <1>4

LEMMA StoreCache ==
  ASSUME NEW m, NEW r, NEW d
  PROVE  pka_store_operand(m, r, d).cache \in {NoModulus, m.cache}
  BY DEF pka_store_operand

\* The state of the engine: the SRAM, the map, the lengths, and a cache that
\* is fresh unless register 0 was moved behind its back.
PkaInv ==
  /\ SramTyped /\ len \in [Sizes -> LenBits]
  /\ cache = [valid |-> cache.valid, words |-> cache.words, value |-> cache.value]
  /\ cache.valid \in BOOLEAN /\ cache.value \in Nat /\ stale \in BOOLEAN
  /\ ~ stale => Fresh([sram |-> sram, cache |-> cache], base[NBase])

LEMMA NoModulusIs ==
  /\ NoModulus = [valid |-> NoModulus.valid, words |-> NoModulus.words,
                  value |-> NoModulus.value]
  /\ NoModulus.valid = FALSE /\ NoModulus.value \in Nat
  BY DEF NoModulus

LEMMA PkaInitInv == PkaInit => PkaInv
  <1>1. 0 \in Word  BY RadixIs DEF Word
  <1> HIDE DEF Word
  <1> QED
    BY <1>1, PkaAssumption, NoModulusIs DEF PkaInit, PkaInv, SramTyped, Fresh

\* One opcode: what it fills the cache with, then up to two stores.
LEMMA OpcodeInv ==
  ASSUME PkaInv, base \in Layouts, NEW o \in Opcodes, execute_pka_opcode(o)
  PROVE  PkaInv'
  <1> DEFINE w   == Words(o)
             m   == pka_modulus_value(w)
             res == Result(o, m)
             mem0 == [sram |-> sram,
                      cache |-> IF UsesModulus(o.op)
                                THEN [valid |-> TRUE, words |-> w, value |-> m]
                                ELSE cache]
             putBack == res.back # None /\ ~ o.lhs.imm
             kept == ~ o.discard /\ o.op \notin {"NOP", "OTHER"}
             div == StoreIf(putBack, mem0, o.lhs.id, res.back)
             end == StoreIf(kept, div, o.res, res.words)
             f == base[NBase]
  <1>1. o.size \in Sizes /\ o.res \in Regs /\ o.lhs \in Operand
    BY OpcodeIs
  <1>2. ~ o.lhs.imm => o.lhs.id \in Regs  BY <1>1 DEF Operand
  <1>3. w \in Lengths  BY <1>1 DEF Words, PkaInv, Lengths
  <1>4. w \in Nat  BY <1>3, LengthIs
  <1>s. SramTyped /\ sram \in [Addrs -> Word]  BY DEF PkaInv, SramTyped
  <1>m. m \in Nat
    <2>1. N(w) \in Nat
      <3>1. N(w) \in 0 .. pka_word_modulus(w) - 1  BY <1>4, <1>s, ModulusBound
      <3> QED  BY <3>1
    <2> QED  BY <2>1 DEF pka_modulus_value, PkaInv
  <1>5. /\ Wide(res.words, w)
        /\ res.back # None => Wide(res.back, w)
    <2> HIDE DEF m
    <2> QED  BY <1>4, <1>s, <1>m, ResultIs
  <1>6. /\ sram' = end.sram /\ cache' = end.cache
        /\ stale' = (stale /\ end.cache = cache) /\ UNCHANGED <<base, len>>
    BY DEF execute_pka_opcode
  <1>7. Fresh(mem0, f) \/ (stale /\ mem0.cache = cache)
    <2>1. CASE ~ UsesModulus(o.op)  BY <2>1 DEF PkaInv
    <2>2. CASE UsesModulus(o.op)
      <3>1. CASE cache.valid /\ cache.words = w
        <4>1. m = cache.value  BY <3>1 DEF pka_modulus_value
        <4>2. mem0.cache = cache
          BY <2>2, <3>1, <4>1, Zenon DEF PkaInv
        <4>3. ~ stale => Fresh(mem0, f)
          BY <4>2 DEF PkaInv
        <4> QED  BY <4>2, <4>3 DEF PkaInv
      <3>2. CASE ~ (cache.valid /\ cache.words = w)
        <4>1. m = At(sram, f, w)  BY <3>2, ModulusAt DEF pka_modulus_value
        <4> HIDE DEF m, w
        <4> QED  BY <1>3, <2>2, <4>1 DEF Fresh
      <3> QED  BY <3>1, <3>2
    <2> QED  BY <2>1, <2>2
  <1>8. mem0.cache = cache \/ (mem0.cache = [valid |-> TRUE, words |-> w, value |-> m])
    OBVIOUS
  <1> HIDE DEF mem0, w, m, res
  <1>9. Fresh(mem0, f) => Fresh(div, f)
    BY <1>2, <1>3, <1>5, StoreFresh DEF StoreIf
  <1>10. Fresh(div, f) => Fresh(end, f)
    <2> HIDE DEF div
    <2> QED  BY <1>1, <1>3, <1>5, StoreFresh DEF StoreIf
  <1>11. end.cache \in {NoModulus, mem0.cache}
    <2>1. div.cache \in {NoModulus, mem0.cache}  BY StoreCache DEF StoreIf
    <2> HIDE DEF div
    <2>2. end.cache \in {NoModulus, div.cache}  BY StoreCache DEF StoreIf
    <2> QED  BY <2>1, <2>2
  <1>t. sram' \in [Addrs -> Word]
    <2>1. mem0.sram = sram  BY DEF mem0
    <2>2. div.sram \in [Addrs -> Word]
      BY <1>2, <1>4, <1>5, <1>s, <2>1, StoreWide DEF StoreIf
    <2> HIDE DEF div
    <2>3. end.sram \in [Addrs -> Word]
      BY <1>1, <1>4, <1>5, <2>2, StoreWide DEF StoreIf
    <2> QED  BY <1>6, <2>3
  <1> HIDE DEF end
  <1>12. /\ cache' = [valid |-> cache'.valid, words |-> cache'.words,
                      value |-> cache'.value]
         /\ cache'.valid \in BOOLEAN /\ cache'.value \in Nat
    <2>1. cache' \in {NoModulus, cache, [valid |-> TRUE, words |-> w, value |-> m]}
      BY <1>6, <1>8, <1>11
    <2>2. CASE cache' = NoModulus  BY <2>2, NoModulusIs
    <2>3. CASE cache' = cache  BY <2>3 DEF PkaInv
    <2>4. CASE cache' = [valid |-> TRUE, words |-> w, value |-> m]
      BY <1>m, <2>4
    <2> QED  BY <2>1, <2>2, <2>3, <2>4
  <1>13. ~ stale' => Fresh([sram |-> sram', cache |-> cache'], f)
    <2> SUFFICES ASSUME ~ stale' PROVE Fresh([sram |-> sram', cache |-> cache'], f)
      OBVIOUS
    <2>1. CASE Fresh(mem0, f)
      <3>1. Fresh(end, f)  BY <1>9, <1>10, <2>1
      <3> QED  BY <1>6, <3>1 DEF Fresh
    <2>2. CASE stale /\ mem0.cache = cache
      <3>1. cache' = NoModulus  BY <1>6, <1>11, <2>2
      <3> QED  BY <3>1, NoModulusFresh
    <2> QED  BY <1>7, <2>1, <2>2
  <1>14. stale' \in BOOLEAN  BY <1>6
  <1>15. SramTyped'  BY <1>6, <1>t DEF PkaInv, SramTyped
  <1> QED  BY <1>6, <1>12, <1>13, <1>14, <1>15 DEF PkaInv

LEMMA PkaNext == PkaInv /\ [Next]_vars => PkaInv'
  <1> SUFFICES ASSUME PkaInv, [Next]_vars PROVE PkaInv'  OBVIOUS
  <1>d. ASSUME cache' = NoModulus, sram' \in [Addrs -> Word],
               base' \in [Regs -> Bases], len' \in [Sizes -> LenBits],
               stale' \in BOOLEAN
        PROVE  PkaInv'
    <2>1. Fresh([sram |-> sram', cache |-> cache'], base'[NBase])
      BY <1>d, NoModulusFresh
    <2> QED  BY <1>d, <2>1, NoModulusIs DEF PkaInv, SramTyped
  <1>0. 0 \in Word  BY RadixIs DEF Word
  <1> HIDE DEF Word
  <1>1. CASE UNCHANGED pkaVars  BY <1>1 DEF pkaVars, PkaInv, SramTyped
  <1>2. CASE RunOpcode  BY <1>2, OpcodeInv DEF RunOpcode
  <1>3. ASSUME NEW a \in Cursors, NEW v \in Word, write_PKA_SRAM_WDATA(a, v)
        PROVE  PkaInv'
    <2>1. CASE a \in Addrs
      BY <1>3, <1>d, <2>1 DEF write_PKA_SRAM_WDATA, PkaInv, SramTyped
    <2>2. CASE a \notin Addrs
      <3>1. UNCHANGED pkaVars
        BY <1>3, <2>2 DEF write_PKA_SRAM_WDATA, pkaVars, PkaInv
      <3> QED  BY <1>1, <3>1
    <2> QED  BY <2>1, <2>2
  <1>4. CASE write_PKA_SW_RESET
    BY <1>0, <1>4, <1>d DEF write_PKA_SW_RESET, PkaInv, SramTyped
  <1>5. ASSUME NEW m \in Maps, write_map(m[1], m[2]) \/ store_map(m[1], m[2])
        PROVE  PkaInv'
    <2> DEFINE r == m[1]
               b == m[2]
    <2>1. r \in Regs /\ b \in Bases  BY PkaAssumption
    <2> HIDE DEF r, b
    <2>2. write_map(r, b) \/ store_map(r, b)  BY <1>5 DEF r, b
    <2>3. /\ base' = [base EXCEPT ![r] = b] /\ base' \in [Regs -> Bases]
          /\ UNCHANGED <<sram, len>>
      BY <2>1, <2>2 DEF write_map, store_map, PkaInv, SramTyped
    <2>4. stale' \in BOOLEAN  BY <2>2 DEF write_map, store_map, PkaInv, SramTyped
    <2>5. CASE cache' = NoModulus  BY <1>d, <2>3, <2>4, <2>5 DEF PkaInv, SramTyped
    <2>6. CASE cache' = cache /\ (~ stale' /\ cache.valid => ~ stale /\ base'[NBase] = base[NBase])
      <3>1. ~ stale' => Fresh([sram |-> sram', cache |-> cache'], base'[NBase])
        BY <2>3, <2>6 DEF PkaInv, Fresh
      <3> QED  BY <2>3, <2>4, <2>6, <3>1 DEF PkaInv, SramTyped
    <2>7. CASE write_map(r, b)
      <3>1. r # NBase => base'[NBase] = base[NBase] /\ stale' = stale
        BY <2>3, <2>7, PkaAssumption DEF write_map, PkaInv, SramTyped
      <3> QED  BY <2>5, <2>6, <2>7, <3>1 DEF write_map
    <2>8. CASE store_map(r, b)
      <3>1. base'[NBase] = base[NBase] \/ (r = NBase /\ b # base[r])
        BY <2>1, <2>3, PkaAssumption DEF PkaInv, SramTyped
      <3>2. cache' = cache /\ stale' = (stale \/ (r = NBase /\ b # base[r] /\ cache.valid))
        BY <2>8 DEF store_map
      <3> QED  BY <2>6, <3>1, <3>2
    <2> QED  BY <2>2, <2>7, <2>8
  <1>6. ASSUME NEW z \in Sizes, NEW b \in LenBits, write_PKA_L(z, b)
        PROVE  PkaInv'
    BY <1>6 DEF write_PKA_L, PkaInv, SramTyped
  <1>7. CASE PkaReset
    BY <1>0, <1>7, <1>d, PkaAssumption DEF PkaReset
  <1> QED
    BY <1>1, <1>2, <1>3, <1>4, <1>5, <1>6, <1>7
    DEF Next, EngineStep, Reset, PkaWrite, vars, engines

LEMMA FreshModulus ==
  ASSUME PkaInv, ~ stale, NEW w
  PROVE  pka_modulus_value(w) = N(w)
  <1>1. CASE cache.valid /\ cache.words = w
    <2>1. cache.value = At(sram, base[NBase], w)  BY <1>1 DEF PkaInv, Fresh
    <2> QED  BY <1>1, <2>1, ModulusAt DEF pka_modulus_value
  <1>2. CASE ~ (cache.valid /\ cache.words = w)
    BY <1>2 DEF pka_modulus_value
  <1> QED  BY <1>1, <1>2

\* The modulus an opcode takes is the one in the SRAM: whatever the lengths
\* the cache was filled and asked for, whatever was stored over N or beside
\* it, and wherever N was moved by word writes of the map.
THEOREM ModulusIsAlwaysCurrent == Spec => []ModulusIsCurrent
  <1>1. Init => PkaInv  BY PkaInitInv DEF Init
  <1>2. PkaInv => ModulusIsCurrent  BY FreshModulus DEF ModulusIsCurrent
  <1> QED  BY <1>1, <1>2, PkaNext, PTL DEF Spec

\* Every opcode that software could write computes what it is meant to, in
\* its words, its flags and what a division puts back: in every state, with
\* every length of operand, word and immediate, for every number the
\* registers can hold and every layout that keeps N apart.
THEOREM OpcodesCompute == Spec => []OpcodeComputes
  <1>1. Init => PkaInv  BY PkaInitInv DEF Init
  <1>2. PkaInv => OpcodeComputes
    <2> SUFFICES ASSUME PkaInv, ~ stale,
                        NEW o \in Opcodes, o.op \notin {"AND", "OR", "XOR"}
                 PROVE  Agrees(o, pka_modulus_value(Words(o)))
      BY DEF OpcodeComputes, Agrees
    <2> DEFINE w == Words(o)
               m == pka_modulus_value(w)
    <2>1. o.size \in Sizes  BY OpcodeIs
    <2>2. w \in Lengths  BY <2>1 DEF Words, PkaInv, Lengths
    <2>3. w \in Nat  BY <2>2, LengthIs
    <2>4. SramTyped  BY DEF PkaInv
    <2>5. m = N(w)  BY FreshModulus
    <2> HIDE DEF m, w
    <2>6. N(w) \in 0 .. pka_word_modulus(w) - 1  BY <2>3, <2>4, ModulusBound
    <2>7. m \in Nat  BY <2>5, <2>6
    <2>8. Words(o) = w  BY DEF w
    <2>9. Agrees(o, m)  BY <2>3, <2>4, <2>5, <2>7, <2>8, ResultIs
    <2> QED  BY <2>9 DEF m, w
  <1> QED  BY <1>1, <1>2, PkaNext, PTL DEF Spec

-----------------------------------------------------------------------------
(* The path to memory                                                      *)

\* A range that is not empty and lies in its window.
InWindow(e) ==
  First[e.window] <= e.start /\ e.start <= e.end /\ e.end <= Last[e.window]

\* What the entries of the cache keep: invalidate_direct_mem_ptr finds them
\* by their ends, so that they must lie in one window and not be empty.
CacheInv ==
  \A e \in dmiCache : InWindow(e) /\ (e.late \/ e.back \in Current(e.window))

\* The grant that waits for its insertion: current, or marked as late.
GrantInv ==
  pc = "insert" => InWindow(ptr) /\ (late \/ ptr.back \in Current(ptr.window))

\* The entry that is about to be used.
UseInv ==
  pc \in {"use1", "use2"} =>
    /\ InWindow(ptr)
    /\ ptr.start <= access.addr /\ End(access) <= ptr.end
    /\ ptr.late \/ ptr.back \in seen[ptr.window]

\* The history of an access holds what its windows are backed by.
SeenInv == pc # "idle" => \A w \in Windows : Current(w) \subseteq seen[w]

MemoryInv == MemoryTypeOK /\ CacheInv /\ GrantInv /\ UseInv /\ SeenInv

-----------------------------------------------------------------------------
\* The deterministic start: an access and a backing exist.
LEMMA Defaults ==
  /\ Start \in Backings /\ NoAccess \in Accesses
  /\ NoPointer \in Entry
  <1>1. Start \in Backings  BY MemoryAssumption DEF Start
  <1>2. NoAccess \in Accesses  BY MemoryAssumption DEF NoAccess
  <1>3. (CHOOSE w \in Windows : TRUE) \in Windows  BY MemoryAssumption
  <1> QED  BY <1>1, <1>2, <1>3 DEF NoPointer, Entry

LEMMA AccessType ==
  ASSUME MemoryTypeOK
  PROVE  access.addr \in Nat /\ End(access) \in Int
  <1>1. access \in [write : BOOLEAN, addr : Nat, len : Nat]
    BY MemoryAssumption DEF MemoryTypeOK
  <1>2. access.addr \in Nat /\ access.len \in Nat  BY <1>1
  <1> QED  BY <1>2 DEF End

\* What a target grants is an entry in one of its windows.
LEMMA GrantIsEntry ==
  ASSUME NEW a \in Nat, NEW e \in Grants(a)
  PROVE  e \in Entry /\ InWindow(e) /\ e.back \in Current(e.window)
  <1>1. /\ e.window \in Windows /\ e.back \in Backings
        /\ e.start \in UNION {Window(w) : w \in Windows}
        /\ e.end \in UNION {Window(w) : w \in Windows}
        /\ e.back = back[e.window]
        /\ First[e.window] <= e.start /\ e.start <= a
        /\ a <= e.end /\ e.end <= Last[e.window]
    BY DEF Grants
  <1>2. \A w \in Windows : Window(w) \subseteq Nat
    <2> TAKE w \in Windows
    <2>1. First[w] \in Nat /\ Last[w] \in Nat  BY MemoryAssumption
    <2> QED  BY <2>1 DEF Window
  <1>3. e.start \in Nat /\ e.end \in Nat  BY <1>1, <1>2
  <1>4. e \in [window : Windows, back : Backings,
               start : UNION {Window(w) : w \in Windows},
               end : UNION {Window(w) : w \in Windows},
               read : BOOLEAN, write : BOOLEAN, late : BOOLEAN]
    BY Zenon, <1>1 DEF Grants
  <1>5. e \in Entry  BY <1>3, <1>4 DEF Entry
  <1>6. InWindow(e)  BY <1>1, <1>3 DEF InWindow
  <1> QED  BY <1>1, <1>5, <1>6 DEF Current

-----------------------------------------------------------------------------
LEMMA MemoryInitInv == MemoryInit => MemoryInv
  <1> SUFFICES ASSUME MemoryInit PROVE MemoryInv  OBVIOUS
  <1>1. MemoryTypeOK  BY Defaults DEF MemoryInit, MemoryTypeOK, Steps
  <1> QED  BY <1>1 DEF MemoryInit, MemoryInv, CacheInv, GrantInv, UseInv, SeenInv

\* Return leaves nothing behind for the invariant to speak of.
LEMMA ReturnInv ==
  ASSUME MemoryInv, Return, UNCHANGED <<KernelSide, dmiCache>>
  PROVE  MemoryInv'
  <1>1. MemoryTypeOK'
    BY Defaults DEF MemoryInv, MemoryTypeOK, Return, KernelSide, Steps
  <1>2. CacheInv'  BY DEF MemoryInv, CacheInv, InWindow, Current, KernelSide
  <1> QED  BY <1>1, <1>2 DEF MemoryInv, GrantInv, UseInv, SeenInv, Return

LEMMA BeginInv == ASSUME MemoryInv, Begin PROVE MemoryInv'
  <1>1. \A w \in Windows : Current(w) \subseteq Backings
    BY DEF Current, MemoryInv, MemoryTypeOK
  <1>2. MemoryTypeOK'
    BY <1>1 DEF MemoryInv, MemoryTypeOK, Begin, KernelSide, Steps
  <1>3. CacheInv'  BY DEF MemoryInv, CacheInv, InWindow, Current, Begin, KernelSide
  <1>4. SeenInv'  BY DEF SeenInv, Begin, KernelSide, Current
  <1> QED  BY <1>2, <1>3, <1>4 DEF MemoryInv, GrantInv, UseInv, Begin

LEMMA SystemAccessInv == ASSUME MemoryInv, SystemAccess PROVE MemoryInv'
  <1>1. CASE Return  BY <1>1, ReturnInv DEF SystemAccess
  <1>2. CASE pc' = "lookup1" /\ UNCHANGED <<access, ptr, seen, late>>
    <2>1. MemoryTypeOK'
      BY <1>2 DEF MemoryInv, MemoryTypeOK, SystemAccess, KernelSide, Steps
    <2>2. CacheInv' /\ SeenInv'
      BY <1>2 DEF MemoryInv, CacheInv, SeenInv, InWindow, Current, SystemAccess, KernelSide
    <2> QED  BY <1>2, <2>1, <2>2 DEF MemoryInv, GrantInv, UseInv
  <1> QED  BY <1>1, <1>2 DEF SystemAccess

\* The entry that dmi_cache_lookup finds covers the access and is current
\* as the lookup ends, so that it was current during the access.
LEMMA LookupInv ==
  ASSUME MemoryInv, NEW from \in {"lookup1", "lookup2"}, NEW hit \in {"use1", "use2"},
         NEW miss \in {"request", "tlm"}, Lookup(from, hit, miss)
  PROVE  MemoryInv'
  <1>u. UNCHANGED <<KernelSide, dmiCache, access, seen, late>> /\ pc = from
    BY DEF Lookup
  <1>1. CacheInv' /\ SeenInv'
    BY <1>u DEF MemoryInv, CacheInv, SeenInv, InWindow, Current, KernelSide
  <1>2. CASE \E e \in dmi_cache_lookup : ptr' = e /\ pc' = hit
    <2>1. PICK e \in dmi_cache_lookup : ptr' = e /\ pc' = hit  BY <1>2
    <2>2. /\ e \in dmiCache /\ e.start <= access.addr /\ End(access) <= e.end
      BY DEF dmi_cache_lookup, AtOrBelow
    <2>3. e \in Entry  BY <2>2 DEF MemoryInv, MemoryTypeOK
    <2>4. e.window \in Windows  BY <2>3 DEF Entry
    <2>5. InWindow(e) /\ (e.late \/ e.back \in Current(e.window))
      BY <2>2 DEF MemoryInv, CacheInv
    <2>6. Current(e.window) \subseteq seen[e.window]
      BY <1>u, <2>4 DEF MemoryInv, SeenInv
    <2>7. MemoryTypeOK'
      BY <1>u, <2>1, <2>3 DEF MemoryInv, MemoryTypeOK, KernelSide, Steps
    <2>8. UseInv'
      BY <1>u, <2>1, <2>2, <2>5, <2>6 DEF UseInv, InWindow, End
    <2> QED  BY <1>1, <2>1, <2>7, <2>8 DEF MemoryInv, GrantInv
  <1>3. CASE pc' = miss /\ UNCHANGED ptr
    <2>1. MemoryTypeOK'
      BY <1>u, <1>3 DEF MemoryInv, MemoryTypeOK, KernelSide, Steps
    <2> QED  BY <1>1, <1>3, <2>1 DEF MemoryInv, GrantInv, UseInv
  <1> QED  BY <1>2, <1>3 DEF Lookup

LEMMA RequestInv == ASSUME MemoryInv, RequestDmi PROVE MemoryInv'
  <1>u. UNCHANGED <<KernelSide, dmiCache, access, seen>> /\ pc = "request"
    BY DEF RequestDmi
  <1>1. CacheInv' /\ SeenInv'
    BY <1>u DEF MemoryInv, CacheInv, SeenInv, InWindow, Current, KernelSide
  <1>2. CASE /\ \E e \in Grants(access.addr) : ptr' = e
             /\ pc' = "insert" /\ late' = FALSE
    <2>1. PICK e \in Grants(access.addr) : ptr' = e  BY <1>2
    <2>2. access.addr \in Nat  BY AccessType DEF MemoryInv
    <2>3. e \in Entry /\ InWindow(e) /\ e.back \in Current(e.window)
      BY <2>2, GrantIsEntry
    <2>4. MemoryTypeOK'
      BY <1>u, <1>2, <2>1, <2>3 DEF MemoryInv, MemoryTypeOK, KernelSide, Steps
    <2>5. GrantInv'
      BY <1>u, <1>2, <2>1, <2>3 DEF GrantInv, InWindow, Current, KernelSide
    <2> QED  BY <1>1, <1>2, <2>4, <2>5 DEF MemoryInv, UseInv
  <1>3. CASE pc' = "lookup2" /\ UNCHANGED <<ptr, late>>
    <2>1. MemoryTypeOK'
      BY <1>u, <1>3 DEF MemoryInv, MemoryTypeOK, KernelSide, Steps
    <2> QED  BY <1>1, <1>3, <2>1 DEF MemoryInv, GrantInv, UseInv
  <1> QED  BY <1>2, <1>3 DEF RequestDmi

\* What is inserted is current, or carries the mark of the invalidation that
\* came before it.
LEMMA InsertInv == ASSUME MemoryInv, InsertDmi PROVE MemoryInv'
  <1> DEFINE new == [ptr EXCEPT !.late = late]
  <1>u. /\ UNCHANGED <<KernelSide, access, seen>> /\ pc = "insert"
        /\ pc' = "lookup2" /\ ptr' = NoPointer /\ late' = FALSE
    BY DEF InsertDmi
  <1>1. dmiCache' \subseteq dmiCache \cup {new}  BY DEF InsertDmi
  <1>2. ptr \in Entry /\ late \in BOOLEAN  BY <1>u DEF MemoryInv, MemoryTypeOK
  <1>3. new \in Entry  BY <1>2 DEF Entry
  <1>4. /\ new.window = ptr.window /\ new.back = ptr.back
        /\ new.start = ptr.start /\ new.end = ptr.end /\ new.late = late
    BY <1>2 DEF Entry
  <1> HIDE DEF new
  <1>5. InWindow(new) /\ (new.late \/ new.back \in Current(new.window))
    BY <1>u, <1>4 DEF MemoryInv, GrantInv, InWindow
  <1>6. CacheInv'
    BY <1>u, <1>1, <1>5 DEF MemoryInv, CacheInv, InWindow, Current, KernelSide
  <1>7. MemoryTypeOK'
    BY <1>u, <1>1, <1>3 DEF MemoryInv, MemoryTypeOK, KernelSide, Steps
  <1>8. SeenInv'  BY <1>u DEF MemoryInv, SeenInv, Current, KernelSide
  <1> QED  BY <1>u, <1>6, <1>7, <1>8 DEF MemoryInv, GrantInv, UseInv

-----------------------------------------------------------------------------
\* A target that is remapped makes its former backing the one being taken
\* back: nothing that was current stops being so.
LEMMA RetargetInv ==
  ASSUME MemoryInv, NEW w \in Windows, NEW b \in Backings, Retarget(w, b)
  PROVE  MemoryInv'
  <1>u. UNCHANGED <<dmiCache, pc, access, ptr, late>>  BY DEF Retarget
  <1>1. \A v \in Windows : Current(v) \subseteq Current(v)'
    BY DEF Retarget, Current, MemoryInv, MemoryTypeOK
  <1>2. \A v \in Windows : Current(v)' \subseteq Current(v) \cup (IF v = w THEN {b} ELSE {})
    BY DEF Retarget, Current, MemoryInv, MemoryTypeOK
  <1>3. pc # "idle" =>
          \A v \in Windows : seen'[v] = seen[v] \cup (IF v = w THEN {b} ELSE {})
    BY DEF Retarget, MemoryInv, MemoryTypeOK
  <1>4. MemoryTypeOK'
    <2>1. /\ back' \in [Windows -> Backings] /\ before' \in [Windows -> Backings]
          /\ revoking' \subseteq Windows
      BY DEF Retarget, MemoryInv, MemoryTypeOK
    <2>2. seen' \in [Windows -> SUBSET Backings]
      BY DEF Retarget, MemoryInv, MemoryTypeOK
    <2> QED  BY <1>u, <2>1, <2>2 DEF MemoryInv, MemoryTypeOK
  <1>5. CacheInv'
    <2> SUFFICES ASSUME NEW e \in dmiCache
                 PROVE  InWindow(e) /\ (e.late \/ e.back \in Current(e.window)')
      BY <1>u DEF CacheInv, InWindow, Current
    <2>1. e.window \in Windows  BY DEF MemoryInv, MemoryTypeOK, Entry
    <2> QED  BY <1>1, <2>1 DEF MemoryInv, CacheInv
  <1>6. GrantInv'
    <2> SUFFICES ASSUME pc = "insert"
                 PROVE  InWindow(ptr) /\ (late \/ ptr.back \in Current(ptr.window)')
      BY <1>u DEF GrantInv, InWindow, Current
    <2>1. ptr.window \in Windows /\ ptr.window' = ptr.window
      BY <1>u DEF MemoryInv, MemoryTypeOK, Entry
    <2>2. Current(ptr.window) \subseteq Current(ptr.window)'
      BY <1>u, <1>1, <2>1 DEF Current
    <2> QED  BY <2>2 DEF MemoryInv, GrantInv
  <1>7. UseInv'
    <2> SUFFICES ASSUME pc \in {"use1", "use2"}
                 PROVE  /\ InWindow(ptr)
                        /\ ptr.start <= access.addr /\ End(access) <= ptr.end
                        /\ ptr.late \/ ptr.back \in seen'[ptr.window]
      BY <1>u DEF UseInv, InWindow, End
    <2>1. ptr.window \in Windows  BY DEF MemoryInv, MemoryTypeOK, Entry
    <2> QED  BY <1>3, <2>1 DEF MemoryInv, UseInv
  <1>8. SeenInv'
    <2> SUFFICES ASSUME pc # "idle", NEW v \in Windows
                 PROVE  Current(v)' \subseteq seen'[v]
      BY <1>u DEF SeenInv
    <2>1. Current(v) \subseteq seen[v]  BY DEF MemoryInv, SeenInv
    <2> QED  BY <1>2, <1>3, <2>1
  <1> QED  BY <1>4, <1>5, <1>6, <1>7, <1>8 DEF MemoryInv

\* invalidate_direct_mem_ptr erases every entry of the window, wherever in it
\* the entry lies: what is left belongs to windows that have not changed.
LEMMA InvalidateInv ==
  ASSUME MemoryInv, NEW w \in Windows, invalidate_direct_mem_ptr(w)
  PROVE  MemoryInv'
  <1>u. UNCHANGED <<back, pc, access, ptr, seen>>
    BY DEF invalidate_direct_mem_ptr
  <1>1. \A v \in Windows : v # w => Current(v)' = Current(v)
    BY DEF invalidate_direct_mem_ptr, Current, MemoryInv, MemoryTypeOK
  <1>2. Current(w)' = {back[w]}
    BY DEF invalidate_direct_mem_ptr, Current
  <1>3. \A e \in dmiCache' : e \in dmiCache /\ e.window # w
    <2> SUFFICES ASSUME NEW e \in dmiCache, e.window = w
                 PROVE  e \in Erased(First[w], Last[w])
      BY DEF invalidate_direct_mem_ptr
    <2>1. e.start \in Nat /\ e.end \in Nat  BY DEF MemoryInv, MemoryTypeOK, Entry
    <2>2. First[w] \in Nat /\ Last[w] \in Nat  BY MemoryAssumption
    <2>3. First[w] <= e.start /\ e.start <= e.end /\ e.end <= Last[w]
      BY DEF MemoryInv, CacheInv, InWindow
    <2>4. \A f \in AtOrBelow(First[w]) : f.start <= e.start
      <3> TAKE f \in AtOrBelow(First[w])
      <3>1. f \in dmiCache /\ f.start <= First[w]  BY DEF AtOrBelow
      <3>2. f.start \in Nat  BY <3>1 DEF MemoryInv, MemoryTypeOK, Entry
      <3> QED  BY <2>1, <2>2, <2>3, <3>1, <3>2
    <2> QED  BY <2>1, <2>2, <2>3, <2>4 DEF Erased
  <1>4. MemoryTypeOK'
    <2>1. late' \in BOOLEAN  BY DEF invalidate_direct_mem_ptr
    <2>2. before' \in [Windows -> Backings] /\ revoking' \subseteq Windows
      BY DEF invalidate_direct_mem_ptr, MemoryInv, MemoryTypeOK
    <2>3. dmiCache' \subseteq Entry  BY <1>3 DEF MemoryInv, MemoryTypeOK
    <2> QED  BY <1>u, <2>1, <2>2, <2>3 DEF MemoryInv, MemoryTypeOK
  <1>5. CacheInv'
    <2> SUFFICES ASSUME NEW e \in dmiCache'
                 PROVE  InWindow(e) /\ (e.late \/ e.back \in Current(e.window)')
      BY DEF CacheInv, InWindow, Current
    <2>1. e \in dmiCache /\ e.window # w  BY <1>3
    <2>2. e.window \in Windows  BY <2>1 DEF MemoryInv, MemoryTypeOK, Entry
    <2> QED  BY <1>1, <2>1, <2>2 DEF MemoryInv, CacheInv
  <1>6. GrantInv'
    <2> SUFFICES ASSUME pc = "insert"
                 PROVE  InWindow(ptr) /\ (late' \/ ptr.back \in Current(ptr.window)')
      BY <1>u DEF GrantInv, InWindow, Current
    <2>1. ptr.window \in Windows  BY DEF MemoryInv, MemoryTypeOK, Entry
    <2>2. InWindow(ptr) /\ (late \/ ptr.back \in Current(ptr.window))
      BY DEF MemoryInv, GrantInv
    <2>3. CASE ptr.window = w  BY <2>2, <2>3 DEF invalidate_direct_mem_ptr
    <2>4. CASE ptr.window # w
      BY <1>1, <2>1, <2>2, <2>4 DEF invalidate_direct_mem_ptr
    <2> QED  BY <2>3, <2>4
  <1>7. UseInv'  BY <1>u DEF MemoryInv, UseInv, InWindow, End
  <1>8. SeenInv'
    <2> SUFFICES ASSUME pc # "idle", NEW v \in Windows
                 PROVE  Current(v)' \subseteq seen[v]
      BY <1>u DEF SeenInv
    <2>1. Current(v) \subseteq seen[v]  BY DEF MemoryInv, SeenInv
    <2> QED  BY <1>1, <1>2, <2>1 DEF Current
  <1> QED  BY <1>4, <1>5, <1>6, <1>7, <1>8 DEF MemoryInv

-----------------------------------------------------------------------------
LEMMA MemoryNextInv == MemoryInv /\ [MemoryNext]_memoryVars => MemoryInv'
  <1> SUFFICES ASSUME MemoryInv, [MemoryNext]_memoryVars PROVE MemoryInv'  OBVIOUS
  <1>1. CASE Begin  BY <1>1, BeginInv
  <1>2. CASE SystemAccess  BY <1>2, SystemAccessInv
  <1>3. CASE Lookup("lookup1", "use1", "request")  BY <1>3, LookupInv
  <1>4. CASE RequestDmi  BY <1>4, RequestInv
  <1>5. CASE InsertDmi  BY <1>5, InsertInv
  <1>6. CASE Lookup("lookup2", "use2", "tlm")  BY <1>6, LookupInv
  <1>7. CASE Use  BY <1>7, ReturnInv DEF Use
  <1>8. CASE TlmAccess  BY <1>8, ReturnInv DEF TlmAccess
  <1>9. ASSUME NEW w \in Windows, invalidate_direct_mem_ptr(w) PROVE MemoryInv'
    BY <1>9, InvalidateInv
  <1>10. ASSUME NEW w \in Windows, NEW b \in Backings, Retarget(w, b) PROVE MemoryInv'
    BY <1>10, RetargetInv
  <1>11. CASE UNCHANGED memoryVars
    BY <1>11 DEF memoryVars, MemoryInv, MemoryTypeOK, CacheInv, GrantInv, UseInv,
                 SeenInv, InWindow, Current, End
  <1> QED
    BY <1>1, <1>2, <1>3, <1>4, <1>5, <1>6, <1>7, <1>8, <1>9, <1>10, <1>11
    DEF MemoryNext, Processor, Kernel

\* The inductive invariant: what the cache, a grant under way, a pointer in
\* use and the history of the access hold together, whichever of the two
\* threads moves.
THEOREM Invariance == Spec => []MemoryInv
  <1>1. Init => MemoryInv  BY MemoryInitInv DEF Init
  <1>2. [Next]_vars => [MemoryNext]_memoryVars
    BY DEF Next, Reset, vars
  <1> QED  BY <1>1, <1>2, MemoryNextInv, PTL DEF Spec

\* Every variable of the path to memory keeps its type; whenever a pointer is
\* held between two steps it is one.
THEOREM MemoryTypeCorrect == Spec => []MemoryTypeOK
  <1>1. MemoryInv => MemoryTypeOK  BY DEF MemoryInv
  <1> QED  BY <1>1, Invariance, PTL

\* The cache of qemu_cc3xx holds no pointer that a target has taken back,
\* except one that was inserted after its own invalidation.
THEOREM CacheIsCurrent == Spec => []CachedIsCurrent
  <1>1. MemoryInv => CachedIsCurrent
    BY DEF MemoryInv, CacheInv, CachedIsCurrent, InWindow
  <1> QED  BY <1>1, Invariance, PTL

\* dmi_cache_access copies through a pointer that covers the whole access and
\* was right at some moment of it, with the same exception.
THEOREM AccessesAreCurrent == Spec => []AccessIsCurrent
  <1>1. MemoryInv => AccessIsCurrent
    <2> SUFFICES ASSUME MemoryInv, pc \in {"use1", "use2"}
                 PROVE  /\ \A a \in access.addr .. End(access) : a \in Window(ptr.window)
                        /\ ptr.late \/ ptr.back \in seen[ptr.window]
      BY DEF AccessIsCurrent
    <2>1. access.addr \in Nat /\ End(access) \in Int  BY AccessType DEF MemoryInv
    <2>2. ptr \in Entry  BY DEF MemoryInv, MemoryTypeOK
    <2>3. ptr.start \in Nat /\ ptr.end \in Nat /\ ptr.window \in Windows
      BY <2>2 DEF Entry
    <2>4. First[ptr.window] \in Nat /\ Last[ptr.window] \in Nat
      BY <2>3, MemoryAssumption
    <2>5. /\ First[ptr.window] <= ptr.start /\ ptr.end <= Last[ptr.window]
          /\ ptr.start <= access.addr /\ End(access) <= ptr.end
          /\ ptr.late \/ ptr.back \in seen[ptr.window]
      BY DEF MemoryInv, UseInv, InWindow
    <2> QED  BY <2>1, <2>3, <2>4, <2>5 DEF Window
  <1> QED  BY <1>1, Invariance, PTL
=============================================================================
