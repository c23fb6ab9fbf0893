-------------------------- MODULE LossyFifoProofs --------------------------
(* Facts about sequences that the packet paths share, and the custody of    *)
(* the buffers, proved for the abstract FIFO and therefore for every        *)
(* specification that implements it.                                        *)
EXTENDS LossyFifo, SequenceTheorems, TLAPS

-----------------------------------------------------------------------------
\* For a sequence, injective means without repetition.
LEMMA InjectiveSeq ==
    ASSUME NEW S, NEW s \in Seq(S)
    PROVE  IsInjective(s) <=> \A i, j \in 1..Len(s) : s[i] = s[j] => i = j
BY LenProperties DEF IsInjective

\* What RemoveAt returns: the other elements, in their order.
LEMMA RemoveAtProperties ==
    ASSUME NEW S, NEW s \in Seq(S), NEW i \in 1..Len(s)
    PROVE  /\ RemoveAt(s, i) \in Seq(S)
           /\ Len(RemoveAt(s, i)) = Len(s) - 1
           /\ \A j \in 1..Len(s) - 1 :
                RemoveAt(s, i)[j] = IF j < i THEN s[j] ELSE s[j + 1]
<1> DEFINE l == SubSeq(s, 1, i - 1)
           r == SubSeq(s, i + 1, Len(s))
<1>1. Len(s) \in Nat /\ \A k \in 1..Len(s) : s[k] \in S
  BY LenProperties, ElementOfSeq
<1>2. l \in Seq(S) /\ Len(l) = i - 1 /\ \A j \in 1..i - 1 : l[j] = s[j]
  <2>1. \A k \in 1..i - 1 : s[k] \in S
    BY <1>1
  <2>. QED  BY <1>1, <2>1, SubSeqProperties, SMTT(30)
<1>3. r \in Seq(S) /\ Len(r) = Len(s) - i /\ \A j \in 1..Len(s) - i : r[j] = s[i + j]
  <2>1. \A k \in i + 1..Len(s) : s[k] \in S
    BY <1>1
  <2>. QED  BY <1>1, <2>1, SubSeqProperties, SMTT(30)
<1>. HIDE DEF l, r
<1>. DEFINE t == l \o r
<1>4. /\ t \in Seq(S)
      /\ Len(t) = Len(l) + Len(r)
      /\ \A j \in 1..Len(l) + Len(r) : t[j] = IF j <= Len(l) THEN l[j] ELSE r[j - Len(l)]
  BY <1>2, <1>3, ConcatProperties
<1>5. RemoveAt(s, i) = t
  BY DEF RemoveAt, l, r
<1>. HIDE DEF t
<1>6. Len(t) = Len(s) - 1
  BY <1>1, <1>2, <1>3, <1>4
<1>7. ASSUME NEW j \in 1..Len(s) - 1
      PROVE  t[j] = IF j < i THEN s[j] ELSE s[j + 1]
  <2>0. /\ Len(l) \in Nat /\ Len(r) \in Nat /\ Len(s) \in Nat
        /\ Len(l) = i - 1 /\ Len(r) = Len(s) - i /\ j \in 1..Len(l) + Len(r)
    BY <1>1, <1>2, <1>3
  <2>1. CASE j < i
    <3>1. j <= Len(l) /\ j \in 1..i - 1
      BY <2>0, <2>1
    <3>. QED  BY <1>2, <1>4, <2>0, <2>1, <3>1
  <2>2. CASE j >= i
    <3>1. j - Len(l) \in 1..Len(s) - i /\ i + (j - Len(l)) = j + 1 /\ ~(j <= Len(l))
      BY <2>0, <2>2
    <3>2. t[j] = r[j - Len(l)]
      BY <1>4, <2>0, <3>1
    <3>3. r[j - Len(l)] = s[j + 1]
      BY <1>3, <3>1
    <3>. QED  BY <1>1, <2>2, <3>2, <3>3
  <2>. QED  BY <1>1, <2>1, <2>2
<1>. QED  BY <1>4, <1>5, <1>6, <1>7

\* Removing an element of a sequence without repetition removes it for good.
LEMMA RemoveAtInjective ==
    ASSUME NEW S, NEW s \in Seq(S), NEW i \in 1..Len(s), IsInjective(s)
    PROVE  /\ IsInjective(RemoveAt(s, i))
           /\ Range(RemoveAt(s, i)) = Range(s) \ {s[i]}
<1> DEFINE t == RemoveAt(s, i)
<1>1. /\ t \in Seq(S) /\ Len(t) = Len(s) - 1
      /\ \A j \in 1..Len(s) - 1 : t[j] = IF j < i THEN s[j] ELSE s[j + 1]
  BY RemoveAtProperties
<1>2. Len(s) \in Nat
  BY LenProperties
<1>. HIDE DEF t
<1>. DEFINE NoRepeat(q) == \A a, b \in 1..Len(q) : q[a] = q[b] => a = b
<1>0. NoRepeat(s)
  BY InjectiveSeq
<1>3. NoRepeat(t)
  <2>1. SUFFICES ASSUME NEW j \in 1..Len(t), NEW k \in 1..Len(t), t[j] = t[k]
                 PROVE  j = k
    OBVIOUS
  <2>. DEFINE old(x) == IF x < i THEN x ELSE x + 1
  <2>2. /\ old(j) \in 1..Len(s) /\ old(k) \in 1..Len(s)
        /\ t[j] = s[old(j)] /\ t[k] = s[old(k)]
    BY <1>1, <1>2
  <2>3. old(j) = old(k)
    BY <1>0, <2>1, <2>2
  <2>. QED  BY <1>1, <1>2, <2>3
<1>4. Range(t) = {t[j] : j \in 1..Len(t)} /\ Range(s) = {s[j] : j \in 1..Len(s)}
  BY <1>1, RangeEquality
<1>5. ASSUME NEW x \in Range(t) PROVE x \in Range(s) \ {s[i]}
  <2>1. PICK j \in 1..Len(t) : x = t[j]
    BY <1>4, <1>5
  <2>. DEFINE k == IF j < i THEN j ELSE j + 1
  <2>2. k \in 1..Len(s) /\ k # i /\ x = s[k]
    BY <1>1, <1>2, <2>1
  <2>. QED  BY <1>0, <1>4, <2>2
<1>6. ASSUME NEW x \in Range(s), x # s[i] PROVE x \in Range(t)
  <2>1. PICK k \in 1..Len(s) : x = s[k]
    BY <1>4
  <2>2. CASE k < i
    BY <1>1, <1>2, <1>4, <2>1, <2>2
  <2>3. CASE k > i
    <3>1. k - 1 \in 1..Len(t) /\ t[k - 1] = s[k]
      BY <1>1, <1>2, <2>1, <2>3
    <3>. QED  BY <1>4, <2>1, <3>1
  <2>. QED  BY <1>2, <1>6, <2>1, <2>2, <2>3
<1>. QED  BY <1>1, <1>3, <1>5, <1>6, InjectiveSeq DEF t

\* Removing behind a prefix leaves the prefix alone.
LEMMA RemoveAtBehind ==
    ASSUME NEW S, NEW l \in Seq(S), NEW s \in Seq(S), NEW i \in 1..Len(s)
    PROVE  /\ Len(l) + i \in 1..Len(l \o s)
           /\ (l \o s)[Len(l) + i] = s[i]
           /\ RemoveAt(l \o s, Len(l) + i) = l \o RemoveAt(s, i)
<1> DEFINE n == Len(l)
           w == l \o s
           u == RemoveAt(w, n + i)
           v == RemoveAt(s, i)
           z == l \o v
<1>1. n \in Nat /\ Len(s) \in Nat
  BY LenProperties
<1>2. /\ w \in Seq(S) /\ Len(w) = n + Len(s)
      /\ \A j \in 1..n + Len(s) : w[j] = IF j <= n THEN l[j] ELSE s[j - n]
  BY ConcatProperties
<1>3. n + i \in 1..Len(w) /\ w[n + i] = s[i]
  <2>1. n + i \in 1..n + Len(s) /\ ~(n + i <= n) /\ (n + i) - n = i
    BY <1>1
  <2>2. w[n + i] = s[(n + i) - n]
    BY <1>2, <2>1
  <2>. QED  BY <1>2, <2>1, <2>2
<1>4. /\ v \in Seq(S) /\ Len(v) = Len(s) - 1
      /\ \A j \in 1..Len(s) - 1 : v[j] = IF j < i THEN s[j] ELSE s[j + 1]
  BY RemoveAtProperties
<1>5. /\ u \in Seq(S) /\ Len(u) = Len(w) - 1
      /\ \A j \in 1..Len(w) - 1 : u[j] = IF j < n + i THEN w[j] ELSE w[j + 1]
  BY <1>2, <1>3, RemoveAtProperties
<1>6. /\ z \in Seq(S) /\ Len(z) = n + Len(v)
      /\ \A j \in 1..n + Len(v) : z[j] = IF j <= n THEN l[j] ELSE v[j - n]
  BY <1>4, ConcatProperties
<1>. HIDE DEF n, w, u, v, z
<1>7. Len(u) = n + Len(s) - 1 /\ Len(z) = Len(u)
  BY <1>1, <1>2, <1>4, <1>5, <1>6
<1>8. ASSUME NEW j \in 1..Len(u) PROVE u[j] = z[j]
  <2>1. j \in 1..n + Len(s) - 1 /\ j \in 1..n + Len(v) /\ j \in 1..Len(w) - 1
        /\ j \in 1..n + Len(s) /\ j + 1 \in 1..n + Len(s)
    BY <1>1, <1>2, <1>4, <1>7
  <2>2. /\ u[j] = IF j < n + i THEN w[j] ELSE w[j + 1]
        /\ z[j] = IF j <= n THEN l[j] ELSE v[j - n]
    BY <1>5, <1>6, <2>1
  <2>3. /\ w[j] = IF j <= n THEN l[j] ELSE s[j - n]
        /\ w[j + 1] = IF j + 1 <= n THEN l[j + 1] ELSE s[(j + 1) - n]
    BY <1>2, <2>1
  <2>4. CASE j <= n
    BY <1>1, <2>1, <2>2, <2>3, <2>4
  <2>5. CASE j > n
    <3>1. j - n \in 1..Len(s) - 1 /\ (j - n) + 1 = (j + 1) - n
      BY <1>1, <2>1, <2>5
    <3>2. v[j - n] = IF j - n < i THEN s[j - n] ELSE s[(j - n) + 1]
      BY <1>4, <3>1
    <3>3. (j - n < i <=> j < n + i) /\ ~(j <= n) /\ ~(j + 1 <= n)
      BY <1>1, <2>1, <2>5
    <3>. QED  BY <2>2, <2>3, <3>1, <3>2, <3>3
  <2>. QED  BY <1>1, <2>1, <2>4, <2>5
<1>9. u = z
  BY <1>5, <1>6, <1>7, <1>8, SeqEqual
<1>. QED  BY <1>3, <1>9 DEF n, w, u, v, z

\* Removing the first element removes the head of the first block.
LEMMA RemoveHead ==
    ASSUME NEW S, NEW m \in Seq(S), NEW r \in Seq(S), m # <<>>
    PROVE  /\ 1 \in 1..Len(m \o r)
           /\ (m \o r)[1] = Head(m)
           /\ RemoveAt(m \o r, 1) = Tail(m) \o r
<1> DEFINE s == m \o r
           t == Tail(m) \o r
           v == RemoveAt(s, 1)
<1>1. Len(m) \in Nat \ {0} /\ Len(r) \in Nat
  BY EmptySeq, LenProperties
<1>2. /\ Tail(m) \in Seq(S) /\ Len(Tail(m)) = Len(m) - 1
      /\ \A j \in 1..Len(m) - 1 : Tail(m)[j] = m[j + 1]
  BY HeadTailProperties
<1>3. /\ s \in Seq(S) /\ Len(s) = Len(m) + Len(r)
      /\ \A j \in 1..Len(m) + Len(r) : s[j] = IF j <= Len(m) THEN m[j] ELSE r[j - Len(m)]
  BY ConcatProperties
<1>4. /\ t \in Seq(S) /\ Len(t) = (Len(m) - 1) + Len(r)
      /\ \A j \in 1..(Len(m) - 1) + Len(r) :
           t[j] = IF j <= Len(m) - 1 THEN Tail(m)[j] ELSE r[j - (Len(m) - 1)]
  BY <1>2, ConcatProperties
<1>5. 1 \in 1..Len(s)
  BY <1>1, <1>3
<1>6. /\ v \in Seq(S) /\ Len(v) = Len(s) - 1
      /\ \A j \in 1..Len(s) - 1 : v[j] = IF j < 1 THEN s[j] ELSE s[j + 1]
  BY <1>3, <1>5, RemoveAtProperties
<1>7. s[1] = Head(m)
  BY <1>1, <1>3
<1>. HIDE DEF s, t, v
<1>8. Len(v) = Len(t)
  BY <1>1, <1>3, <1>4, <1>6
<1>9. ASSUME NEW j \in 1..Len(v) PROVE v[j] = t[j]
  <2>1. j \in 1..Len(s) - 1 /\ ~(j < 1) /\ j + 1 \in 1..Len(m) + Len(r)
        /\ j \in 1..(Len(m) - 1) + Len(r)
    BY <1>1, <1>3, <1>6
  <2>2. v[j] = IF j + 1 <= Len(m) THEN m[j + 1] ELSE r[(j + 1) - Len(m)]
    BY <1>3, <1>6, <2>1
  <2>3. t[j] = IF j <= Len(m) - 1 THEN Tail(m)[j] ELSE r[j - (Len(m) - 1)]
    BY <1>4, <2>1
  <2>4. CASE j + 1 <= Len(m)
    <3>1. j \in 1..Len(m) - 1 /\ j <= Len(m) - 1
      BY <1>1, <2>1, <2>4
    <3>. QED  BY <1>2, <2>2, <2>3, <2>4, <3>1
  <2>5. CASE ~(j + 1 <= Len(m))
    <3>1. ~(j <= Len(m) - 1) /\ (j + 1) - Len(m) = j - (Len(m) - 1)
      BY <1>1, <2>1, <2>5
    <3>. QED  BY <2>2, <2>3, <2>5, <3>1
  <2>. QED  BY <2>4, <2>5
<1>10. v = t
  BY <1>4, <1>6, <1>8, <1>9, SeqEqual
<1>. QED  BY <1>5, <1>7, <1>10 DEF s, t, v

\* Appending an element that was not there repeats nothing.
LEMMA AppendFresh ==
    ASSUME NEW S, NEW s \in Seq(S), NEW e \in S, IsInjective(s), e \notin Range(s)
    PROVE  /\ IsInjective(Append(s, e))
           /\ Range(Append(s, e)) = Range(s) \cup {e}
<1> DEFINE t == Append(s, e)
<1>1. Len(s) \in Nat
  BY LenProperties
<1>2. /\ t \in Seq(S) /\ Len(t) = Len(s) + 1
      /\ \A i \in 1..Len(s) : t[i] = s[i]
      /\ t[Len(s) + 1] = e
  BY AppendProperties
<1>. HIDE DEF t
<1>3. Range(t) = {t[i] : i \in 1..Len(t)} /\ Range(s) = {s[i] : i \in 1..Len(s)}
  BY <1>2, RangeEquality
<1>4. \A i, j \in 1..Len(s) : s[i] = s[j] => i = j
  BY InjectiveSeq
<1>5. \A i \in 1..Len(s) : s[i] # e
  BY <1>3
<1>6. \A i, j \in 1..Len(t) : t[i] = t[j] => i = j
  BY <1>1, <1>2, <1>4, <1>5
<1>7. Range(t) = Range(s) \cup {e}
  <2>1. 1..Len(t) = 1..Len(s) \cup {Len(s) + 1}
    BY <1>1, <1>2
  <2>. QED  BY <1>2, <1>3, <2>1
<1>. QED  BY <1>2, <1>6, <1>7, InjectiveSeq DEF t

\* Cutting a sequence in two loses nothing.
LEMMA CutProperties ==
    ASSUME NEW S, NEW s \in Seq(S), NEW n \in 0..Len(s)
    PROVE  /\ SubSeq(s, 1, n) \in Seq(S) /\ Len(SubSeq(s, 1, n)) = n
           /\ SubSeq(s, n + 1, Len(s)) \in Seq(S)
           /\ Len(SubSeq(s, n + 1, Len(s))) = Len(s) - n
           /\ SubSeq(s, 1, n) \o SubSeq(s, n + 1, Len(s)) = s
<1>1. Len(s) \in Nat /\ \A k \in 1..Len(s) : s[k] \in S
  BY LenProperties, ElementOfSeq
<1>2. (\A k \in 1..n : s[k] \in S) /\ (\A k \in n + 1..Len(s) : s[k] \in S)
  BY <1>1
<1>3. SubSeq(s, 1, n) \in Seq(S) /\ Len(SubSeq(s, 1, n)) = n
  BY <1>1, <1>2, SubSeqProperties, SMTT(30)
<1>4. SubSeq(s, n + 1, Len(s)) \in Seq(S) /\ Len(SubSeq(s, n + 1, Len(s))) = Len(s) - n
  BY <1>1, <1>2, SubSeqProperties, SMTT(30)
<1>5. SubSeq(s, 1, n) \o SubSeq(s, n + 1, Len(s)) = SubSeq(s, 1, Len(s))
  <2>1. 1 \in 1..Len(s) + 1 /\ n \in 1 - 1..Len(s) /\ Len(s) \in n..Len(s)
    BY <1>1
  <2>. QED  BY <2>1, ConcatAdjacentSubSeq
<1>. QED  BY <1>3, <1>4, <1>5, SubSeqFull

\* What stands behind a common front is the same if the whole is.
LEMMA ConcatCancel ==
    ASSUME NEW S, NEW p \in Seq(S), NEW q \in Seq(S), NEW r \in Seq(S), p \o q = p \o r
    PROVE  q = r
<1>1. /\ Len(p) \in Nat /\ Len(q) \in Nat /\ Len(r) \in Nat
      /\ Len(p \o q) = Len(p) + Len(q) /\ Len(p \o r) = Len(p) + Len(r)
  BY ConcatProperties, LenProperties
<1>2. Len(q) = Len(r)
  BY <1>1
<1>3. ASSUME NEW i \in 1..Len(q) PROVE q[i] = r[i]
  <2>1. /\ Len(p) + i \in 1..Len(p) + Len(q) /\ Len(p) + i \in 1..Len(p) + Len(r)
        /\ ~(Len(p) + i <= Len(p)) /\ (Len(p) + i) - Len(p) = i
    BY <1>1, <1>2
  <2>2. (p \o q)[Len(p) + i] = q[i]
    BY <2>1, ConcatProperties
  <2>3. (p \o r)[Len(p) + i] = r[i]
    BY <2>1, ConcatProperties
  <2> QED  BY <2>2, <2>3
<1> QED
  BY <1>2, <1>3, SeqEqual

\* Cutting the front of a sequence leaves what is behind it alone.
LEMMA CutFront ==
    ASSUME NEW S, NEW s \in Seq(S), NEW u \in Seq(S), NEW n \in 0..Len(s)
    PROVE  /\ SubSeq(s \o u, 1, n) = SubSeq(s, 1, n)
           /\ SubSeq(s \o u, n + 1, Len(s \o u)) = SubSeq(s, n + 1, Len(s)) \o u
<1> DEFINE p == SubSeq(s, 1, n)
           q == SubSeq(s, n + 1, Len(s))
           w == s \o u
           p1 == SubSeq(w, 1, n)
           q1 == SubSeq(w, n + 1, Len(w))
<1>1. /\ p \in Seq(S) /\ Len(p) = n /\ q \in Seq(S) /\ p \o q = s
      /\ Len(s) \in Nat /\ Len(u) \in Nat
  BY CutProperties, LenProperties
<1>2. /\ w \in Seq(S) /\ Len(w) = Len(s) + Len(u)
      /\ \A i \in 1..Len(s) + Len(u) : w[i] = IF i <= Len(s) THEN s[i] ELSE u[i - Len(s)]
  BY ConcatProperties
<1>3. n \in 0..Len(w)
  BY <1>1, <1>2
<1>. HIDE DEF w
<1>4. p1 \in Seq(S) /\ Len(p1) = n /\ q1 \in Seq(S) /\ p1 \o q1 = w
  BY <1>2, <1>3, CutProperties
<1>5. p1 = p
  <2>1. \A i \in 1..n : s[i] \in S /\ w[i] \in S /\ w[i] = s[i]
    <3>1. \A i \in 1..n : i \in 1..Len(s) /\ i \in 1..Len(s) + Len(u) /\ i <= Len(s)
      BY <1>1
    <3>2. \A i \in 1..Len(s) : s[i] \in S
      BY ElementOfSeq
    <3> QED  BY <1>2, <3>1, <3>2
  <2>2. ASSUME NEW z, \A i \in 1..n : z[i] \in S
        PROVE  \A i \in 1..n : SubSeq(z, 1, n)[i] = z[i]
    <3>1. \A i \in 1..n - 1 + 1 : SubSeq(z, 1, n)[i] = z[1 + i - 1]
      BY <2>2, SubSeqProperties
    <3> QED  BY <3>1
  <2>3. \A i \in 1..n : p1[i] = p[i]
    BY <2>1, <2>2
  <2>. HIDE DEF p, p1
  <2> QED  BY <1>1, <1>4, <2>3, SeqEqual
<1>. HIDE DEF p, q, p1, q1
<1>6. p \o q1 = p \o (q \o u)
  <2>1. p \in Seq(S) /\ q \in Seq(S)
    BY <1>1
  <2>2. (p \o q) \o u = p \o (q \o u)
    BY <2>1, ConcatAssociative
  <2> QED  BY <1>1, <1>4, <1>5, <2>2 DEF w
<1>7. q1 = q \o u
  <2>1. q \o u \in Seq(S)
    BY <1>1, ConcatProperties
  <2>. DEFINE v == q \o u
  <2>2. v \in Seq(S) /\ p \o q1 = p \o v
    BY <1>6, <2>1
  <2>. HIDE DEF v
  <2>3. q1 = v
    BY <1>1, <1>4, <2>2, ConcatCancel
  <2> QED  BY <2>3 DEF v
<1> QED
  BY <1>5, <1>7 DEF p, q, w, p1, q1

-----------------------------------------------------------------------------
(* Shelves: a family H of sequences over I and a pool P hold the elements   *)
(* of M, each at one place.                                                 *)

Kept(I, M, H, P) ==
    /\ \A a, b \in I : \A i \in 1..Len(H[a]), j \in 1..Len(H[b]) : H[a][i] = H[b][j] => a = b /\ i = j
    /\ \A a \in I : \A i \in 1..Len(H[a]) : H[a][i] \notin P
    /\ \A m \in M \ P : \E a \in I : \E i \in 1..Len(H[a]) : H[a][i] = m

\* An element of the pool is put at the end of one shelf.
LEMMA KeptAppend ==
    ASSUME NEW I, NEW M, NEW H \in [I -> Seq(M)], NEW G \in [I -> Seq(M)], NEW P \in SUBSET M,
           NEW c \in I, NEW m \in P,
           Kept(I, M, H, P),
           G[c] = Append(H[c], m), \A a \in I \ {c} : G[a] = H[a]
    PROVE  Kept(I, M, G, P \ {m})
<1>1. \A a \in I : Len(H[a]) \in Nat /\ H[a] \in Seq(M)
  BY LenProperties
<1>2. /\ Len(G[c]) = Len(H[c]) + 1
      /\ \A i \in 1..Len(H[c]) : G[c][i] = H[c][i]
      /\ G[c][Len(H[c]) + 1] = m
  BY AppendProperties
<1>3. ASSUME NEW a \in I, NEW i \in 1..Len(G[a])
      PROVE  \/ i \in 1..Len(H[a]) /\ G[a][i] = H[a][i]
             \/ a = c /\ i = Len(H[c]) + 1 /\ G[a][i] = m
  <2>1. CASE a = c
    <3>1. i \in 1..Len(H[c]) \/ i = Len(H[c]) + 1
      BY <1>1, <1>2, <2>1
    <3> QED  BY <1>2, <2>1, <3>1
  <2>2. CASE a # c
    BY <2>2
  <2> QED  BY <2>1, <2>2
<1>4. ASSUME NEW a \in I, NEW i \in 1..Len(H[a])
      PROVE  i \in 1..Len(G[a]) /\ G[a][i] = H[a][i]
  <2>1. CASE a = c
    <3>1. Len(H[c]) \in Nat /\ i \in 1..Len(H[c])
      BY <1>1, <2>1
    <3> QED  BY <1>2, <2>1, <3>1
  <2>2. CASE a # c
    BY <2>2
  <2> QED  BY <2>1, <2>2
<1>5. \A a \in I : \A i \in 1..Len(H[a]) : H[a][i] # m
  BY DEF Kept
<1>6. ASSUME NEW a \in I, NEW b \in I, NEW i \in 1..Len(G[a]), NEW j \in 1..Len(G[b]), G[a][i] = G[b][j]
      PROVE  a = b /\ i = j
  <2>1. CASE G[a][i] = m
    <3>1. ASSUME NEW e \in I, NEW k \in 1..Len(G[e]), G[e][k] = m
          PROVE  e = c /\ k = Len(H[c]) + 1
      BY <1>3, <1>5, <3>1
    <3>2. a = c /\ i = Len(H[c]) + 1
      BY <2>1, <3>1
    <3>3. b = c /\ j = Len(H[c]) + 1
      BY <1>6, <2>1, <3>1
    <3> QED  BY <3>2, <3>3
  <2>2. CASE G[a][i] # m
    <3>1. i \in 1..Len(H[a]) /\ j \in 1..Len(H[b]) /\ H[a][i] = H[b][j]
      BY <1>3, <1>6, <2>2
    <3> QED  BY <3>1 DEF Kept
  <2> QED  BY <2>1, <2>2
<1>7. ASSUME NEW a \in I, NEW i \in 1..Len(G[a])
      PROVE  G[a][i] \notin P \ {m}
  BY <1>3 DEF Kept
<1>8. ASSUME NEW x \in M \ (P \ {m})
      PROVE  \E a \in I : \E i \in 1..Len(G[a]) : G[a][i] = x
  <2>1. CASE x = m
    <3>1. Len(H[c]) + 1 \in 1..Len(G[c])
      BY <1>1, <1>2
    <3> QED  BY <1>2, <2>1, <3>1
  <2>2. CASE x # m
    BY <1>4, <2>2 DEF Kept
  <2> QED  BY <2>1, <2>2
<1> QED
  BY <1>6, <1>7, <1>8 DEF Kept

\* The first element of a shelf goes to the pool.
LEMMA KeptHead ==
    ASSUME NEW I, NEW M, NEW H \in [I -> Seq(M)], NEW G \in [I -> Seq(M)], NEW P \in SUBSET M,
           NEW c \in I, H[c] # <<>>,
           Kept(I, M, H, P),
           G[c] = Tail(H[c]), \A a \in I \ {c} : G[a] = H[a]
    PROVE  Kept(I, M, G, P \cup {Head(H[c])})
<1>1. \A a \in I : Len(H[a]) \in Nat /\ H[a] \in Seq(M)
  BY LenProperties
<1>2. /\ Len(H[c]) \in Nat \ {0}
      /\ Len(G[c]) = Len(H[c]) - 1
      /\ \A i \in 1..Len(G[c]) : G[c][i] = H[c][i + 1]
      /\ Head(H[c]) = H[c][1]
  BY <1>1, EmptySeq, HeadTailProperties
<1>. DEFINE old(a, i) == IF a = c THEN i + 1 ELSE i
<1>3. ASSUME NEW a \in I, NEW i \in 1..Len(G[a])
      PROVE  /\ old(a, i) \in 1..Len(H[a]) /\ G[a][i] = H[a][old(a, i)]
             /\ G[a][i] # H[c][1]
  <2>1. old(a, i) \in 1..Len(H[a]) /\ G[a][i] = H[a][old(a, i)]
    <3>1. CASE a = c
      <4>1. i \in 1..Len(G[c]) /\ i + 1 \in 1..Len(H[c])
        BY <1>2, <3>1
      <4> QED  BY <1>2, <3>1, <4>1
    <3>2. CASE a # c
      BY <3>2
    <3> QED  BY <3>1, <3>2
  <2>2. 1 \in 1..Len(H[c]) /\ ~(a = c /\ old(a, i) = 1)
    BY <1>2
  <2>3. G[a][i] # H[c][1]
    BY <2>1, <2>2 DEF Kept
  <2> QED  BY <2>1, <2>3
<1>4. ASSUME NEW a \in I, NEW i \in 1..Len(H[a]), ~(a = c /\ i = 1)
      PROVE  \E j \in 1..Len(G[a]) : G[a][j] = H[a][i]
  <2>1. CASE a = c
    <3>1. i - 1 \in 1..Len(G[a]) /\ (i - 1) + 1 = i
      BY <1>1, <1>2, <1>4, <2>1
    <3> QED  BY <1>2, <2>1, <3>1
  <2>2. CASE a # c
    BY <2>2
  <2> QED  BY <2>1, <2>2
<1>5. ASSUME NEW a \in I, NEW b \in I, NEW i \in 1..Len(G[a]), NEW j \in 1..Len(G[b]), G[a][i] = G[b][j]
      PROVE  a = b /\ i = j
  <2>1. a = b /\ old(a, i) = old(b, j)
    BY <1>3, <1>5 DEF Kept
  <2>2. i \in Int /\ j \in Int
    BY <1>1, <1>2
  <2> QED  BY <2>1, <2>2
<1>6. ASSUME NEW a \in I, NEW i \in 1..Len(G[a])
      PROVE  G[a][i] \notin P \cup {Head(H[c])}
  BY <1>2, <1>3 DEF Kept
<1>7. ASSUME NEW x \in M \ (P \cup {Head(H[c])})
      PROVE  \E a \in I : \E i \in 1..Len(G[a]) : G[a][i] = x
  <2>1. PICK a \in I : \E i \in 1..Len(H[a]) : H[a][i] = x
    BY DEF Kept
  <2>2. PICK i \in 1..Len(H[a]) : H[a][i] = x
    BY <2>1
  <2> QED  BY <1>2, <1>4, <2>2
<1> QED
  BY <1>5, <1>6, <1>7 DEF Kept

\* The first n elements of shelf c go to the end of shelf d.
Moved(I, H, G, c, d, n) ==
    /\ c # d /\ n \in 0..Len(H[c])
    /\ G[c] = SubSeq(H[c], n + 1, Len(H[c])) /\ G[d] = H[d] \o SubSeq(H[c], 1, n)
    /\ \A a \in I \ {c, d} : G[a] = H[a]

LEMMA KeptMove ==
    ASSUME NEW I, NEW M, NEW H \in [I -> Seq(M)], NEW G \in [I -> Seq(M)], NEW P \in SUBSET M,
           NEW c \in I, NEW d \in I, NEW n, Kept(I, M, H, P), Moved(I, H, G, c, d, n)
    PROVE  Kept(I, M, G, P)
<1>0. /\ c # d /\ n \in 0..Len(H[c])
      /\ G[c] = SubSeq(H[c], n + 1, Len(H[c])) /\ G[d] = H[d] \o SubSeq(H[c], 1, n)
      /\ \A a \in I \ {c, d} : G[a] = H[a]
  BY DEF Moved
<1>1. \A a \in I : Len(H[a]) \in Nat /\ H[a] \in Seq(M)
  BY LenProperties
<1>2. \A k \in 1..Len(H[c]) : H[c][k] \in M
  BY <1>0, <1>1, ElementOfSeq
<1>3. Len(G[c]) = Len(H[c]) - n /\ \A i \in 1..Len(G[c]) : G[c][i] = H[c][i + n]
  <2>1. n + 1 \in Int /\ Len(H[c]) \in Int /\ \A k \in n + 1..Len(H[c]) : H[c][k] \in M
    BY <1>0, <1>1, <1>2
  <2> QED  BY <1>0, <1>1, <2>1, SubSeqProperties, SMTT(30)
<1>. DEFINE f == SubSeq(H[c], 1, n)
<1>4. f \in Seq(M) /\ Len(f) = n /\ \A i \in 1..n : f[i] = H[c][i]
  <2>1. 1 \in Int /\ n \in Int /\ \A k \in 1..n : H[c][k] \in M
    BY <1>0, <1>1, <1>2
  <2> QED  BY <1>0, <1>1, <2>1, SubSeqProperties, SMTT(30)
<1>5. /\ Len(G[d]) = Len(H[d]) + n
      /\ \A i \in 1..Len(G[d]) : G[d][i] = IF i <= Len(H[d]) THEN H[d][i] ELSE H[c][i - Len(H[d])]
  <2>1. G[d] = H[d] \o f
    BY <1>0
  <2>. HIDE DEF f
  <2>2. /\ Len(G[d]) = Len(H[d]) + n
        /\ \A i \in 1..Len(H[d]) + n : G[d][i] = IF i <= Len(H[d]) THEN H[d][i] ELSE f[i - Len(H[d])]
    BY <1>0, <1>1, <1>4, <2>1, ConcatProperties
  <2>3. ASSUME NEW i \in 1..Len(H[d]) + n, ~(i <= Len(H[d]))
        PROVE  f[i - Len(H[d])] = H[c][i - Len(H[d])]
    <3>1. i - Len(H[d]) \in 1..n
      BY <1>0, <1>1, <2>3
    <3> QED  BY <1>4, <3>1
  <2> QED  BY <2>2, <2>3
<1>. HIDE DEF f
<1>. DEFINE shelf(a, i) == IF a = d /\ ~(i <= Len(H[d])) THEN c ELSE a
            spot(a, i) == IF a = c THEN i + n ELSE IF a = d /\ ~(i <= Len(H[d])) THEN i - Len(H[d]) ELSE i
<1>6. ASSUME NEW a \in I, NEW i \in 1..Len(G[a])
      PROVE  /\ shelf(a, i) \in I /\ spot(a, i) \in 1..Len(H[shelf(a, i)])
             /\ G[a][i] = H[shelf(a, i)][spot(a, i)]
  <2>1. CASE a = c
    <3>1. i \in 1..Len(G[c]) /\ a # d
      BY <1>0, <2>1
    <3>2. i + n \in 1..Len(H[c])
      BY <1>0, <1>1, <1>3, <3>1
    <3> QED  BY <1>3, <2>1, <3>1, <3>2
  <2>2. CASE a = d
    <3>1. i \in 1..Len(G[d]) /\ a # c
      BY <1>0, <2>2
    <3>2. CASE i <= Len(H[d])
      <4>1. i \in 1..Len(H[d])
        BY <1>0, <1>1, <1>5, <3>1, <3>2
      <4> QED  BY <1>5, <2>2, <3>1, <3>2, <4>1
    <3>3. CASE ~(i <= Len(H[d]))
      <4>1. i - Len(H[d]) \in 1..Len(H[c])
        BY <1>0, <1>1, <1>5, <3>1, <3>3
      <4> QED  BY <1>5, <2>2, <3>1, <3>3, <4>1
    <3> QED  BY <3>2, <3>3
  <2>3. CASE a \notin {c, d}
    BY <1>0, <2>3
  <2> QED  BY <2>1, <2>2, <2>3
<1>7. ASSUME NEW a \in I, NEW b \in I, NEW i \in 1..Len(G[a]), NEW j \in 1..Len(G[b]), G[a][i] = G[b][j]
      PROVE  a = b /\ i = j
  <2>1. shelf(a, i) = shelf(b, j) /\ spot(a, i) = spot(b, j)
    <3>. DEFINE x == shelf(a, i)  k == spot(a, i)
                y == shelf(b, j)  l == spot(b, j)
    <3>1. /\ x \in I /\ k \in 1..Len(H[x]) /\ y \in I /\ l \in 1..Len(H[y])
          /\ H[x][k] = H[y][l]
      BY <1>6, <1>7
    <3>. HIDE DEF x, y, k, l
    <3>2. x = y /\ k = l
      BY <3>1 DEF Kept
    <3> QED  BY <3>2 DEF x, y, k, l
  <2>2. /\ i \in Nat \ {0} /\ j \in Nat \ {0} /\ Len(H[d]) \in Nat /\ n \in Nat
        /\ i \in 1..Len(G[a]) /\ j \in 1..Len(G[b])
    BY <1>0, <1>1, <1>3, <1>5
  <2> QED  BY <1>0, <2>1, <2>2, <1>5
<1>8. ASSUME NEW a \in I, NEW i \in 1..Len(G[a]) PROVE G[a][i] \notin P
  <2>. DEFINE x == shelf(a, i)  k == spot(a, i)
  <2>1. x \in I /\ k \in 1..Len(H[x]) /\ G[a][i] = H[x][k]
    BY <1>6
  <2>. HIDE DEF x, k
  <2> QED  BY <2>1 DEF Kept
<1>9. ASSUME NEW x \in M \ P
      PROVE  \E a \in I : \E i \in 1..Len(G[a]) : G[a][i] = x
  <2>1. PICK a \in I : \E i \in 1..Len(H[a]) : H[a][i] = x
    BY DEF Kept
  <2>2. PICK i \in 1..Len(H[a]) : H[a][i] = x
    BY <2>1
  <2>3. CASE a = c /\ i <= n
    <3>1. Len(H[d]) + i \in 1..Len(G[d]) /\ ~(Len(H[d]) + i <= Len(H[d])) /\ (Len(H[d]) + i) - Len(H[d]) = i
      BY <1>0, <1>1, <1>5, <2>3
    <3>2. G[d][Len(H[d]) + i] = H[c][i]
      BY <1>5, <3>1
    <3> QED  BY <2>2, <2>3, <3>1, <3>2
  <2>4. CASE a = c /\ i > n
    <3>1. i - n \in 1..Len(G[c]) /\ (i - n) + n = i
      BY <1>0, <1>1, <1>3, <2>4
    <3> QED  BY <1>3, <2>2, <2>4, <3>1
  <2>5. CASE a = d
    <3>1. i \in 1..Len(G[d]) /\ i <= Len(H[d])
      BY <1>0, <1>1, <1>5, <2>5
    <3> QED  BY <1>5, <2>2, <2>5, <3>1
  <2>6. CASE a \notin {c, d}
    BY <1>0, <2>2, <2>6
  <2>7. i \in Int /\ n \in Int
    BY <1>0, <1>1
  <2> QED  BY <2>3, <2>4, <2>5, <2>6, <2>7
<1> QED
  BY <1>7, <1>8, <1>9 DEF Kept

\* All elements of one shelf go to the pool.
LEMMA KeptClear ==
    ASSUME NEW I, NEW M, NEW H \in [I -> Seq(M)], NEW G \in [I -> Seq(M)], NEW P \in SUBSET M,
           NEW c \in I, NEW Q, Q = {H[c][i] : i \in 1..Len(H[c])}, Kept(I, M, H, P),
           G[c] = <<>>, \A a \in I \ {c} : G[a] = H[a]
    PROVE  Kept(I, M, G, P \cup Q)
<1>1. ASSUME NEW a \in I, NEW i \in 1..Len(G[a])
      PROVE  a # c /\ i \in 1..Len(H[a]) /\ G[a][i] = H[a][i]
  <2>1. a # c
    BY <1>1, EmptySeq
  <2> QED  BY <2>1
<1>2. ASSUME NEW a \in I, NEW b \in I, NEW i \in 1..Len(G[a]), NEW j \in 1..Len(G[b]), G[a][i] = G[b][j]
      PROVE  a = b /\ i = j
  BY <1>1, <1>2 DEF Kept
<1>3. ASSUME NEW a \in I, NEW i \in 1..Len(G[a]) PROVE G[a][i] \notin P \cup Q
  <2>1. a # c /\ i \in 1..Len(H[a]) /\ G[a][i] = H[a][i]
    BY <1>1
  <2>2. H[a][i] \notin P
    BY <2>1 DEF Kept
  <2>3. \A j \in 1..Len(H[c]) : H[a][i] # H[c][j]
    BY <2>1 DEF Kept
  <2> QED  BY <2>1, <2>2, <2>3
<1>4. ASSUME NEW x \in M \ (P \cup Q)
      PROVE  \E a \in I : \E i \in 1..Len(G[a]) : G[a][i] = x
  <2>1. PICK a \in I : \E i \in 1..Len(H[a]) : H[a][i] = x
    BY DEF Kept
  <2>2. a # c
    BY <2>1
  <2> QED  BY <2>1, <2>2
<1> QED
  BY <1>2, <1>3, <1>4 DEF Kept

-----------------------------------------------------------------------------
(* Custody. *)

LEMMA TypeInit == Init => TypeOK
BY EmptySeq DEF Init, TypeOK

LEMMA TypeNext == TypeOK /\ [Next]_vars => TypeOK'
<1>. SUFFICES ASSUME TypeOK, [Next]_vars PROVE TypeOK'
  OBVIOUS
<1>. USE DEF TypeOK
<1>1. ASSUME NEW m \in Mbufs, Accept(m) PROVE TypeOK'
  BY <1>1, AppendProperties DEF Accept
<1>2. ASSUME NEW i \in 1..Len(line), Drop(i) PROVE TypeOK'
  BY <1>2, RemoveAtProperties, ElementOfSeq DEF Drop
<1>3. ASSUME NEW n \in 1..Len(line), Transmit(n) PROVE TypeOK'
  <2>1. n \in 0..Len(line)
    BY LenProperties
  <2>. QED  BY <1>3, <2>1, CutProperties, ConcatProperties DEF Transmit
<1>4. ASSUME Complete PROVE TypeOK'
  BY <1>4, HeadTailProperties DEF Complete
<1>5. ASSUME UNCHANGED vars PROVE TypeOK'
  BY <1>5 DEF vars
<1>. QED  BY <1>1, <1>2, <1>3, <1>4, <1>5 DEF Next

\* The variables of the abstract FIFO have their types.
THEOREM FifoTypeCorrect == Spec => []TypeOK
BY TypeInit, TypeNext, PTL DEF Spec

LEMMA CustodyInit == Init => Custody
<1>. SUFFICES ASSUME Init PROVE Custody
  OBVIOUS
<1>1. wire \o line = <<>> /\ wire \o line \in Seq(Mbufs)
  BY ConcatEmptySeq, EmptySeq DEF Init
<1>2. Range(<<>>) = {} /\ IsInjective(<<>>)
  BY DEF Range, IsInjective
<1>. QED  BY <1>1, <1>2 DEF Init, Custody

\* Dropping or completing: one buffer leaves the sequence for the pool.
LEMMA CustodyRelease ==
    ASSUME TypeOK, Custody,
           NEW i \in 1..Len(wire \o line),
           (wire \o line)' = RemoveAt(wire \o line, i),
           free' = free \cup {(wire \o line)[i]}
    PROVE  Custody'
<1> DEFINE s == wire \o line
<1>1. s \in Seq(Mbufs)
  BY ConcatProperties DEF TypeOK
<1>2. s[i] \in Mbufs
  BY <1>1, ElementOfSeq
<1>3. /\ IsInjective(RemoveAt(s, i))
      /\ Range(RemoveAt(s, i)) = Range(s) \ {s[i]}
  BY <1>1, RemoveAtInjective DEF Custody
<1>. QED  BY <1>2, <1>3 DEF Custody

LEMMA Assoc ==
    ASSUME NEW a \in Seq(Mbufs), NEW b \in Seq(Mbufs), NEW c \in Seq(Mbufs)
    PROVE  (a \o b) \o c = a \o (b \o c)
BY ConcatAssociative

LEMMA CustodyNext == TypeOK /\ Custody /\ [Next]_vars => Custody'
<1>. SUFFICES ASSUME TypeOK, Custody, [Next]_vars PROVE Custody'
  OBVIOUS
<1>0. wire \in Seq(Mbufs) /\ line \in Seq(Mbufs) /\ wire \o line \in Seq(Mbufs)
  BY ConcatProperties DEF TypeOK
<1>1. ASSUME NEW m \in Mbufs, Accept(m) PROVE Custody'
  <2>1. (wire \o line)' = Append(wire \o line, m)
    <3>1. Append(line, m) = line \o <<m>> /\ Append(wire \o line, m) = (wire \o line) \o <<m>>
      BY <1>0, AppendIsConcat
    <3>2. (wire \o line) \o <<m>> = wire \o (line \o <<m>>)
      <4>1. <<m>> \in Seq(Mbufs)
        OBVIOUS
      <4>. QED  BY <1>0, <4>1, Assoc
    <3>. QED  BY <1>1, <3>1, <3>2 DEF Accept
  <2>2. m \notin Range(wire \o line)
    BY <1>1 DEF Accept, Custody
  <2>3. /\ IsInjective(Append(wire \o line, m))
        /\ Range(Append(wire \o line, m)) = Range(wire \o line) \cup {m}
    <3>1. ASSUME NEW s \in Seq(Mbufs), IsInjective(s), m \notin Range(s)
          PROVE  IsInjective(Append(s, m)) /\ Range(Append(s, m)) = Range(s) \cup {m}
      BY <3>1, AppendFresh
    <3>. QED  BY <1>0, <2>2, <3>1 DEF Custody
  <2>. QED  BY <1>1, <2>1, <2>3 DEF Accept, Custody
<1>2. ASSUME NEW i \in 1..Len(line), Drop(i) PROVE Custody'
  <2>1. /\ Len(wire) + i \in 1..Len(wire \o line)
        /\ (wire \o line)[Len(wire) + i] = line[i]
        /\ RemoveAt(wire \o line, Len(wire) + i) = wire \o RemoveAt(line, i)
    BY <1>0, RemoveAtBehind
  <2>. QED  BY <1>2, <2>1, CustodyRelease DEF Drop
<1>3. ASSUME NEW n \in 1..Len(line), Transmit(n) PROVE Custody'
  <2>1. n \in 0..Len(line)
    BY <1>0, LenProperties
  <2> DEFINE p == SubSeq(line, 1, n)
             q == SubSeq(line, n + 1, Len(line))
  <2>2. p \in Seq(Mbufs) /\ q \in Seq(Mbufs) /\ p \o q = line
    BY <1>0, <2>1, CutProperties
  <2>3. (wire \o p) \o q = wire \o (p \o q)
    BY <1>0, <2>2, Assoc
  <2>4. (wire \o line)' = wire \o line
    BY <1>3, <2>2, <2>3 DEF Transmit
  <2>. QED  BY <1>3, <2>4 DEF Custody, Transmit
<1>4. ASSUME Complete PROVE Custody'
  <2>1. /\ 1 \in 1..Len(wire \o line)
        /\ (wire \o line)[1] = Head(wire)
        /\ RemoveAt(wire \o line, 1) = Tail(wire) \o line
    BY <1>0, <1>4, RemoveHead DEF Complete
  <2>. QED  BY <1>4, <2>1, CustodyRelease DEF Complete
<1>5. ASSUME UNCHANGED vars PROVE Custody'
  BY <1>5 DEF vars, Custody
<1>. QED  BY <1>1, <1>2, <1>3, <1>4, <1>5 DEF Next

\* Whatever is accepted, dropped and sent, each buffer of the pool is free or
\* stands once in the line or on the wire.
THEOREM FifoCustody == Spec => []Custody
<1>1. TypeOK /\ Custody /\ [Next]_vars => (TypeOK /\ Custody)'
  BY TypeNext, CustodyNext
<1>. QED  BY TypeInit, CustodyInit, <1>1, PTL DEF Spec
=============================================================================
