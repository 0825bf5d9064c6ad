---------------------------- MODULE Lists_proofs ----------------------------
(* Induction for the provers, which can not instantiate the induction theorems of the
   library, and what it gives about the operators of Lists.                          *)
EXTENDS Lists, SequenceTheorems, FiniteSetTheorems, WellFoundedInduction, TLAPS

(* A set of natural numbers has a least element. *)
LEMMA LeastNatural ==
  ASSUME NEW S, S \subseteq Nat, S # {}
  PROVE  \E n \in S : \A m \in S : n <= m
  <1>1. IsWellFoundedOn(OpToRel(<, Nat), Nat)
    BY NatLessThanWellFounded
  <1> DEFINE R == OpToRel(<, Nat)
  <1>2. \A x, y \in Nat : x < y => <<x, y>> \in R
    BY DEF OpToRel
  <1> HIDE DEF R
  <1>3. PICK n \in S : \A m \in S : <<m, n>> \notin R
    BY <1>1, WFMin DEF R
  <1>4. \A m \in S : m \in Nat /\ n \in Nat /\ ~ (m < n)
    BY <1>2, <1>3
  <1>5. \A m \in S : n <= m
    BY <1>4
  <1> QED BY <1>5

(* Induction up to a number, over the numbers for which something holds. *)
LEMMA Induction ==
  ASSUME NEW N \in Nat, NEW T, 0 \in T, \A n \in 1..N : n - 1 \in T => n \in T
  PROVE  0..N \subseteq T
  <1> SUFFICES ASSUME 0..N \ T # {} PROVE FALSE
    OBVIOUS
  <1> DEFINE bad == 0..N \ T
  <1>0. bad \subseteq Nat /\ bad # {}
    OBVIOUS
  <1>1. PICK n \in bad : \A m \in bad : n <= m
    <2> HIDE DEF bad
    <2> QED
      BY <1>0, LeastNatural
  <1>2. n \in 1..N
    BY <1>1
  <1>3. n - 1 \in 0..N /\ ~ (n <= n - 1)
    BY <1>2
  <1> QED
    BY <1>1, <1>2, <1>3

(* A function from its first value, and the step from each value to the next. *)
Iterates(f, N, X, base, step) == f \in [0..N -> X] /\ f[0] = base /\ \A n \in 1..N : f[n] = step[n][f[n - 1]]

LEMMA Recursion ==
  ASSUME NEW N \in Nat, NEW X, NEW base \in X, NEW step \in [1..N -> [X -> X]]
  PROVE  \E f : Iterates(f, N, X, base, step)
  <1> DEFINE T == {k \in 0..N : \E f : Iterates(f, k, X, base, step)}
  <1>1. 0 \in T
    <2> DEFINE f == [n \in 0..0 |-> base]
    <2>1. Iterates(f, 0, X, base, step)
      BY DEF Iterates
    <2> HIDE DEF f
    <2> QED
      BY <2>1
  <1>2. ASSUME NEW k \in 1..N, k - 1 \in T
        PROVE  k \in T
    <2>1. PICK f : Iterates(f, k - 1, X, base, step)
      BY <1>2
    <2> DEFINE g == [n \in 0..k |-> IF n = k THEN step[k][f[k - 1]] ELSE f[n]]
    <2>2. f[k - 1] \in X /\ f \in [0..k - 1 -> X]
      BY <2>1 DEF Iterates
    <2>3. g \in [0..k -> X]
      BY <2>2
    <2>4. ASSUME NEW n \in 1..k
          PROVE  g[n] = step[n][g[n - 1]]
      <3>1. CASE n = k
        BY <3>1
      <3>2. CASE n # k
        <4>1. n \in 1..k - 1 /\ n - 1 \in 0..k - 1 /\ g[n] = f[n] /\ g[n - 1] = f[n - 1]
          BY <3>2
        <4> QED
          BY <4>1, <2>1 DEF Iterates
      <3> QED
        BY <3>1, <3>2
    <2>5. g[0] = base
      BY <2>1 DEF Iterates
    <2> HIDE DEF g
    <2>6. Iterates(g, k, X, base, step)
      BY <2>3, <2>4, <2>5 DEF Iterates
    <2> QED
      BY <2>6
  <1> HIDE DEF T
  <1>3. 0..N \subseteq T
    BY <1>1, <1>2, Induction
  <1>4. N \in T
    BY <1>3
  <1> QED
    BY <1>4 DEF T

(* What is in a list that something was appended to. *)
LEMMA SetOfAppend ==
  ASSUME NEW S, NEW s \in Seq(S), NEW x \in S
  PROVE  Append(s, x) \in Seq(S) /\ ToSet(Append(s, x)) = ToSet(s) \union {x}
  <1>1. /\ DOMAIN s = 1..Len(s) /\ DOMAIN Append(s, x) = 1..Len(s) + 1 /\ Len(s) \in Nat
        /\ \A i \in 1..Len(s) : Append(s, x)[i] = s[i]
        /\ Append(s, x)[Len(s) + 1] = x
    BY AppendProperties
  <1>2. \A i \in 1..Len(s) + 1 : i \in 1..Len(s) \/ i = Len(s) + 1
    BY <1>1
  <1> QED
    BY <1>1, <1>2, AppendProperties DEF ToSet

(* Going through a list, an element is kept when it is in the set. *)
Keeps(k, seq, S) ==
    /\ k \in [0..Len(seq) -> Seq(S)] /\ k[0] = << >>
    /\ \A n \in 1..Len(seq) : k[n] = IF seq[n] \in S THEN Append(k[n - 1], seq[n]) ELSE k[n - 1]

LEMMA ThoseKept ==
  ASSUME NEW X, NEW seq \in Seq(X), NEW S
  PROVE  \E k : Keeps(k, seq, S) /\ Those(seq, S) = k[Len(seq)]
  <1> DEFINE N == Len(seq)
             Kept(kept) == kept = [n \in 0..N |->
                               IF n = 0 THEN << >>
                               ELSE IF seq[n] \in S THEN Append(kept[n - 1], seq[n]) ELSE kept[n - 1]]
             k == CHOOSE kept : Kept(kept)
             step == [n \in 1..N |-> [x \in Seq(S) |-> IF seq[n] \in S THEN Append(x, seq[n]) ELSE x]]
  <1>0. N \in Nat
    OBVIOUS
  <1>1. PICK f : Iterates(f, N, Seq(S), << >>, step)
    <2>1. step \in [1..N -> [Seq(S) -> Seq(S)]]
      OBVIOUS
    <2>2. << >> \in Seq(S)
      OBVIOUS
    <2> HIDE DEF step, N
    <2> QED
      BY <1>0, <2>1, <2>2, Recursion
  <1> HIDE DEF N
  <1>2. Keeps(f, seq, S)
    <2>1. \A n \in 1..N : f[n - 1] \in Seq(S)
      <3>1. \A n \in 1..N : n - 1 \in 0..N
        BY <1>0
      <3> QED
        BY <1>1, <3>1 DEF Iterates
    <2>2. \A n \in 1..N : f[n] = IF seq[n] \in S THEN Append(f[n - 1], seq[n]) ELSE f[n - 1]
      BY <1>1, <2>1 DEF Iterates
    <2> QED
      BY <1>1, <2>2 DEF Keeps, Iterates, N
  <1> HIDE DEF step
  <1>3. Kept(f)
    <2>1. \A n \in 0..N : n # 0 => n \in 1..N
      BY <1>0
    <2>2. \A n \in 0..N : f[n] = IF n = 0 THEN << >>
                                 ELSE IF seq[n] \in S THEN Append(f[n - 1], seq[n]) ELSE f[n - 1]
      BY <1>2, <2>1 DEF Keeps, N
    <2>3. f = [n \in 0..N |-> f[n]]
      BY <1>2 DEF Keeps, N
    <2> QED
      BY <2>2, <2>3
  <1>4. Kept(k)
    BY <1>3
  <1>5. Those(seq, S) = k[N]
    BY DEF Those, N
  <1> HIDE DEF k
  <1>6. \A n \in 0..N : k[n] = IF n = 0 THEN << >>
                               ELSE IF seq[n] \in S THEN Append(k[n - 1], seq[n]) ELSE k[n - 1]
    BY <1>4
  <1> DEFINE T == {n \in 0..N : k[n] = f[n]}
  <1>7. 0 \in T
    BY <1>0, <1>2, <1>6 DEF Keeps
  <1>8. ASSUME NEW n \in 1..N, n - 1 \in T
        PROVE  n \in T
    <2>1. n \in 0..N /\ n # 0 /\ k[n - 1] = f[n - 1]
      BY <1>0, <1>8
    <2>2. f[n] = IF seq[n] \in S THEN Append(f[n - 1], seq[n]) ELSE f[n - 1]
      BY <1>2 DEF Keeps, N
    <2> QED
      BY <1>6, <2>1, <2>2
  <1> HIDE DEF T
  <1>9. N \in T
    <2>1. 0..N \subseteq T
      BY <1>0, <1>7, <1>8, Induction
    <2> QED
      BY <1>0, <2>1
  <1> QED
    BY <1>2, <1>5, <1>9 DEF T, N

(* The elements of a list that are in a set. *)
LEMMA ThoseOf ==
  ASSUME NEW seq, IsSeq(seq), NEW S
  PROVE  Those(seq, S) \in Seq(S) /\ ToSet(Those(seq, S)) = ToSet(seq) \cap S
  <1> DEFINE N == Len(seq)
  <1>0. N \in Nat /\ DOMAIN seq = 1..N
    BY DEF IsSeq
  <1>1. PICK k : Keeps(k, seq, S) /\ Those(seq, S) = k[N]
    BY ThoseKept DEF IsSeq
  <1> HIDE DEF N
  <1> DEFINE T == {n \in 0..N : k[n] \in Seq(S) /\ ToSet(k[n]) = {seq[i] : i \in 1..n} \cap S}
  <1>4. 0 \in T
    <2>1. k[0] = << >>
      BY <1>1 DEF Keeps
    <2>2. ToSet(k[0]) = {} /\ {seq[i] : i \in 1..0} \cap S = {}
      BY <2>1 DEF ToSet
    <2>3. k[0] \in Seq(S)
      BY <2>1
    <2> QED
      BY <1>0, <2>2, <2>3
  <1>5. ASSUME NEW n \in 1..N, n - 1 \in T
        PROVE  n \in T
    <2>1. k[n - 1] \in Seq(S) /\ ToSet(k[n - 1]) = {seq[i] : i \in 1..n - 1} \cap S
      BY <1>5
    <2>2. k[n] = IF seq[n] \in S THEN Append(k[n - 1], seq[n]) ELSE k[n - 1]
      BY <1>1 DEF Keeps, N
    <2>3. {seq[i] : i \in 1..n} = {seq[i] : i \in 1..n - 1} \union {seq[n]}
      BY <1>0
    <2>4. CASE seq[n] \in S
      <3>1. ToSet(Append(k[n - 1], seq[n])) = ToSet(k[n - 1]) \union {seq[n]}
        BY <2>1, <2>4, SetOfAppend
      <3> QED
        <4>1. k[n] \in Seq(S)
          BY <2>1, <2>2, <2>4, SetOfAppend
        <4>2. ToSet(k[n]) = {seq[i] : i \in 1..n} \cap S
          BY <2>1, <2>2, <2>3, <2>4, <3>1
        <4> QED
          BY <1>0, <4>1, <4>2
    <2>5. CASE seq[n] \notin S
      BY <2>1, <2>2, <2>3, <2>5
    <2> QED
      BY <2>4, <2>5
  <1> HIDE DEF T
  <1>6. N \in T
    <2>1. 0..N \subseteq T
      BY <1>0, <1>4, <1>5, Induction
    <2> QED
      BY <1>0, <2>1
  <1>7. ToSet(seq) = {seq[i] : i \in 1..N}
    BY <1>0 DEF ToSet
  <1> QED
    BY <1>1, <1>6, <1>7 DEF T

(* Of an empty list nothing is kept. *)
LEMMA ThoseOfNone ==
  ASSUME NEW S
  PROVE  Those(<< >>, S) = << >>
  <1>1. << >> \in Seq({}) /\ Len(<< >>) = 0
    OBVIOUS
  <1>2. PICK k : Keeps(k, << >>, S) /\ Those(<< >>, S) = k[0]
    BY <1>1, ThoseKept
  <1> QED
    BY <1>2 DEF Keeps

(* Of one element more, at most that one more. *)
LEMMA ThoseGrow ==
  ASSUME NEW X, NEW seq \in Seq(X), NEW x \in X, NEW S
  PROVE  Those(Append(seq, x), S) = IF x \in S THEN Append(Those(seq, S), x) ELSE Those(seq, S)
  <1> DEFINE N == Len(seq)  more == Append(seq, x)
  <1>2. /\ more \in Seq(X) /\ Len(more) = N + 1 /\ N \in Nat
        /\ \A n \in 1..N : more[n] = seq[n]
        /\ more[N + 1] = x
    OBVIOUS
  <1>3. PICK k : Keeps(k, seq, S) /\ Those(seq, S) = k[N]
    BY ThoseKept
  <1> HIDE DEF more, N
  <1>4. PICK l : Keeps(l, more, S) /\ Those(more, S) = l[N + 1]
    BY <1>2, ThoseKept
  <1> DEFINE T == {n \in 0..N : l[n] = k[n]}
  <1>5. 0 \in T
    BY <1>2, <1>3, <1>4 DEF Keeps
  <1>6. ASSUME NEW n \in 1..N, n - 1 \in T
        PROVE  n \in T
    <2>1. n \in 1..N + 1 /\ more[n] = seq[n] /\ l[n - 1] = k[n - 1] /\ n \in 0..N
      BY <1>2, <1>6
    <2>2. k[n] = IF seq[n] \in S THEN Append(k[n - 1], seq[n]) ELSE k[n - 1]
      BY <1>3 DEF Keeps, N
    <2>3. l[n] = IF more[n] \in S THEN Append(l[n - 1], more[n]) ELSE l[n - 1]
      BY <1>2, <1>4, <2>1 DEF Keeps
    <2> QED
      BY <2>1, <2>2, <2>3
  <1> HIDE DEF T
  <1>7. l[N] = k[N]
    <2>1. 0..N \subseteq T
      BY <1>2, <1>5, <1>6, Induction
    <2> QED
      BY <1>2, <2>1 DEF T
  <1>8. l[N + 1] = IF more[N + 1] \in S THEN Append(l[N], more[N + 1]) ELSE l[N]
    <2>1. N + 1 \in 1..Len(more) /\ (N + 1) - 1 = N
      BY <1>2
    <2> QED
      BY <1>4, <2>1 DEF Keeps
  <1> QED
    BY <1>2, <1>3, <1>4, <1>7, <1>8 DEF more

(* What is kept of two lists one after the other. *)
LEMMA ThoseOfBoth ==
  ASSUME NEW X, NEW a \in Seq(X), NEW b \in Seq(X), NEW S
  PROVE  Those(a \o b, S) = Those(a, S) \o Those(b, S)
  <1> DEFINE N == Len(b)
             first(n) == SubSeq(b, 1, n)
             T == {n \in 0..N : Those(a \o first(n), S) = Those(a, S) \o Those(first(n), S)}
  <1>0. N \in Nat /\ \A s \in Seq(X) : IsSeq(s)
    <2>1. ASSUME NEW s \in Seq(X) PROVE IsSeq(s)
      BY SeqOfRange DEF IsSeq, ToSet
    <2> QED
      BY <2>1
  <1>1. \A s \in Seq(X) : Those(s, S) \in Seq(S)
    BY <1>0, ThoseOf
  <1>2. \A s \in Seq(X), x \in X :
            Those(Append(s, x), S) = IF x \in S THEN Append(Those(s, S), x) ELSE Those(s, S)
    BY ThoseGrow
  <1>3. 0 \in T
    <2>1. first(0) = << >> /\ Those(<< >>, S) = << >>
      BY SubSeqEmpty, ThoseOfNone
    <2>2. a \o << >> = a /\ Those(a, S) \o << >> = Those(a, S)
      BY <1>1, ConcatEmptySeq
    <2>3. Those(a \o first(0), S) = Those(a, S) \o Those(first(0), S)
      BY <2>1, <2>2, Zenon
    <2>4. 0 \in 0..N
      BY <1>0
    <2> QED
      BY <2>3, <2>4, Zenon
  <1>4. ASSUME NEW n \in 1..N, n - 1 \in T
        PROVE  n \in T
    <2> DEFINE c == first(n - 1)  x == b[n]
    <2>1. c \in Seq(X) /\ x \in X /\ first(n) = Append(c, x)
      <3>1. x \in X /\ \A i \in 1..n - 1 : b[i] \in X
        BY <1>0
      <3>2. c \in Seq(X)
        BY <1>0, <3>1, SubSeqProperties
      <3>3. first(n) = c \o <<x>>
        BY <1>0, SubSeqRecursiveSecond
      <3> HIDE DEF c, x, first
      <3> QED
        BY <3>1, <3>2, <3>3
    <2>2. Those(a \o c, S) = Those(a, S) \o Those(c, S)
      BY <1>4
    <2> HIDE DEF c, x, first
    <2>3. a \o Append(c, x) = Append(a \o c, x) /\ a \o c \in Seq(X)
      BY <2>1
    <2>4. /\ Those(Append(c, x), S) = IF x \in S THEN Append(Those(c, S), x) ELSE Those(c, S)
          /\ Those(Append(a \o c, x), S) = IF x \in S THEN Append(Those(a \o c, S), x) ELSE Those(a \o c, S)
      BY <2>1, <2>3, <1>2
    <2>5. Those(a, S) \in Seq(S) /\ Those(c, S) \in Seq(S)
      BY <1>1, <2>1
    <2>6. Those(a \o first(n), S) = Those(a, S) \o Those(first(n), S)
      <3>1. CASE x \in S
        <4>1. Those(a, S) \o Append(Those(c, S), x) = Append(Those(a, S) \o Those(c, S), x)
          BY <2>5, <3>1
        <4> QED
          BY <2>1, <2>2, <2>3, <2>4, <3>1, <4>1, Zenon
      <3>2. CASE x \notin S
        BY <2>1, <2>2, <2>3, <2>4, <3>2, Zenon
      <3> QED
        BY <3>1, <3>2
    <2>7. n \in 0..N
      BY <1>0
    <2> QED
      BY <2>6, <2>7, Zenon
  <1>5. first(N) = b
    BY SubSeqFull
  <1> HIDE DEF T, first
  <1>6. N \in T
    <2>1. 0..N \subseteq T
      BY <1>0, <1>3, <1>4, Induction
    <2> QED
      BY <1>0, <2>1
  <1> QED
    BY <1>5, <1>6 DEF T

(* The lists of a list of lists, strung together one after the other. *)
Joins(f, ss, X) ==
    /\ f \in [0..Len(ss) -> Seq(X)] /\ f[0] = << >>
    /\ \A n \in 1..Len(ss) : f[n] = f[n - 1] \o ss[n]

LEMMA Flattened ==
  ASSUME NEW X, NEW ss \in Seq(Seq(X))
  PROVE  /\ FlattenSeq(ss) \in Seq(X)
         /\ \E f : Joins(f, ss, X) /\ FlattenSeq(ss) = f[Len(ss)]
  <1> DEFINE N == Len(ss)
             Y == Seq(X)
             step == [n \in 1..N |-> [x \in Y |-> x \o ss[n]]]
             flat == CHOOSE f : f = [i \in 1..N |-> IF i = 1 THEN ss[i] ELSE f[i - 1] \o ss[i]]
  <1>1. N \in Nat /\ << >> \in Y /\ step \in [1..N -> [Y -> Y]]
    <2> SUFFICES ASSUME NEW n \in 1..N, NEW x \in Y PROVE x \o ss[n] \in Y
      OBVIOUS
    <2> QED
      BY ConcatProperties
  <1>2. \A n \in 1..N : ss[n] \in Y
    OBVIOUS
  <1>3. N = 0 => ss = << >> /\ FlattenSeq(ss) = ss
    BY DEF FlattenSeq
  <1>4. N # 0 => FlattenSeq(ss) = flat[N]
    BY DEF FlattenSeq
  <1> HIDE DEF N, step
  <1>5. PICK f : Iterates(f, N, Y, << >>, step)
    BY <1>1, Recursion
  <1>6. f \in [0..N -> Y] /\ f[0] = << >> /\ \A n \in 1..N : f[n] = f[n - 1] \o ss[n]
    <2> SUFFICES ASSUME NEW n \in 1..N PROVE f[n] = f[n - 1] \o ss[n]
      BY <1>5 DEF Iterates
    <2>1. n - 1 \in 0..N
      BY <1>1
    <2>2. f[n - 1] \in Y /\ f[n] = step[n][f[n - 1]]
      BY <1>5, <2>1 DEF Iterates
    <2> QED
      BY <2>2 DEF step
  <1> DEFINE g == [i \in 1..N |-> f[i]]
  <1>7. ASSUME NEW i \in 1..N
        PROVE  g[i] = IF i = 1 THEN ss[i] ELSE g[i - 1] \o ss[i]
    <2>1. CASE i = 1
      <3>1. << >> \o ss[i] = ss[i]
        BY <1>2, ConcatEmptySeq
      <3>2. f[i] = f[i - 1] \o ss[i]
        BY <1>6
      <3>3. i - 1 = 0
        BY <2>1
      <3>4. f[i] = ss[i]
        BY <1>6, <3>1, <3>2, <3>3, Zenon
      <3>5. g[i] = f[i]
        OBVIOUS
      <3> QED
        BY <2>1, <3>4, <3>5, Zenon
    <2>2. CASE i # 1
      <3>1. i - 1 \in 1..N
        BY <1>1, <2>2
      <3> QED
        BY <1>6, <2>2, <3>1
    <2> QED
      BY <2>1, <2>2
  <1>8. g = [i \in 1..N |-> g[i]]
    OBVIOUS
  <1>9. \A i \in 1..N : g[i] = f[i]
    OBVIOUS
  <1> HIDE DEF g
  <1>10. flat = [i \in 1..N |-> IF i = 1 THEN ss[i] ELSE flat[i - 1] \o ss[i]]
    BY <1>7, <1>8
  <1> HIDE DEF flat, Y
  <1>11. \A i \in 1..N : flat[i] = IF i = 1 THEN ss[i] ELSE flat[i - 1] \o ss[i]
    BY <1>10
  <1> DEFINE T == {n \in 0..N : n = 0 \/ flat[n] = f[n]}
  <1>12. 0 \in T
    BY <1>1
  <1>13. ASSUME NEW n \in 1..N, n - 1 \in T
         PROVE  n \in T
    <2>1. CASE n = 1
      BY <1>1, <1>7, <1>9, <1>11, <2>1
    <2>2. CASE n # 1
      <3>1. n - 1 \in 1..N /\ flat[n - 1] = f[n - 1]
        BY <1>1, <1>13, <2>2
      <3> QED
        BY <1>1, <1>7, <1>9, <1>11, <2>2, <3>1
    <2> QED
      BY <2>1, <2>2
  <1> HIDE DEF T
  <1>14. N \in T
    <2>1. 0..N \subseteq T
      BY <1>1, <1>12, <1>13, Induction
    <2> QED
      BY <1>1, <2>1
  <1>15. FlattenSeq(ss) = f[N] /\ f[N] \in Y
    <2>1. N \in 0..N
      BY <1>1
    <2>2. N # 0 => flat[N] = f[N]
      BY <1>14 DEF T
    <2> QED
      BY <1>3, <1>4, <1>6, <2>1, <2>2
  <1> QED
    BY <1>6, <1>15 DEF Joins, N, Y

(* What is between two places of a list. *)
LEMMA Part ==
  ASSUME NEW S, NEW s \in Seq(S), NEW a \in 0..Len(s), NEW z \in 0..Len(s), a <= z
  PROVE  /\ SubSeq(s, a + 1, z) \in Seq(S) /\ Len(SubSeq(s, a + 1, z)) = z - a
         /\ \A k \in 1..z - a : SubSeq(s, a + 1, z)[k] = s[a + k]
  <1> DEFINE m == a + 1
  <1>1. m \in Int /\ z \in Int /\ \A k \in m..z : s[k] \in S
    OBVIOUS
  <1>2. z - m + 1 = z - a /\ (~ (m <= z) => z - a = 0) /\ \A k \in Int : m + k - 1 = a + k
    OBVIOUS
  <1> HIDE DEF m
  <1>3. SubSeq(s, m, z) \in Seq(S)
    BY <1>1, SubSeqProperties
  <1>4. Len(SubSeq(s, m, z)) = IF m <= z THEN z - m + 1 ELSE 0
    BY <1>1, SubSeqProperties
  <1>5. \A k \in 1..z - m + 1 : SubSeq(s, m, z)[k] = s[m + k - 1]
    BY <1>1, SubSeqProperties
  <1>6. Len(SubSeq(s, m, z)) = z - a
    BY <1>2, <1>4
  <1>7. ASSUME NEW k \in 1..z - a PROVE SubSeq(s, m, z)[k] = s[a + k]
    <2>1. k \in 1..z - m + 1 /\ m + k - 1 = a + k
      BY <1>2
    <2>2. SubSeq(s, m, z)[k] = s[m + k - 1]
      BY <1>5, <2>1
    <2> QED
      BY <2>1, <2>2, Zenon
  <1> QED
    BY <1>3, <1>6, <1>7 DEF m

(* A list cut up at ever later places, and put together again. *)
LEMMA CutUp ==
  ASSUME NEW X, NEW cs \in Seq(X), NEW ss \in Seq(Seq(X)), NEW u \in [0..Len(ss) -> 0..Len(cs)],
         u[0] = 0, u[Len(ss)] = Len(cs),
         \A n \in 1..Len(ss) : u[n - 1] <= u[n] /\ ss[n] = SubSeq(cs, u[n - 1] + 1, u[n])
  PROVE  FlattenSeq(ss) = cs
  <1> DEFINE N == Len(ss)
  <1>0. N \in Nat /\ Len(cs) \in Nat
    OBVIOUS
  <1>1. PICK f : Joins(f, ss, X) /\ FlattenSeq(ss) = f[N]
    BY Flattened
  <1> HIDE DEF N
  <1>2. /\ f[0] = << >>
        /\ \A n \in 1..N : f[n] = f[n - 1] \o ss[n]
    BY <1>1 DEF Joins, N
  <1>3. /\ u[0] = 0 /\ u[N] = Len(cs)
        /\ \A n \in 0..N : u[n] \in 0..Len(cs)
        /\ \A n \in 1..N : u[n - 1] <= u[n] /\ ss[n] = SubSeq(cs, u[n - 1] + 1, u[n])
    BY DEF N
  <1> DEFINE T == {n \in 0..N : f[n] = SubSeq(cs, 1, u[n])}
  <1>4. 0 \in T
    <2>1. SubSeq(cs, 1, 0) = << >>
      BY SubSeqEmpty
    <2>2. f[0] = SubSeq(cs, 1, u[0])
      BY <1>2, <1>3, <2>1, Zenon
    <2>3. 0 \in 0..N
      BY <1>0
    <2> QED
      BY <2>2, <2>3, Zenon
  <1>5. ASSUME NEW n \in 1..N, n - 1 \in T
        PROVE  n \in T
    <2>1. n \in 0..N /\ n - 1 \in 0..N
      BY <1>0
    <2>2. u[n - 1] \in 0..Len(cs) /\ u[n] \in 0..Len(cs) /\ u[n - 1] <= u[n]
      BY <1>3, <2>1
    <2>3. SubSeq(cs, 1, u[n - 1]) \o SubSeq(cs, u[n - 1] + 1, u[n]) = SubSeq(cs, 1, u[n])
      <3>1. 1 \in 1..Len(cs) + 1 /\ u[n - 1] \in 1 - 1..Len(cs) /\ u[n] \in u[n - 1]..Len(cs)
        BY <1>0, <2>2
      <3> QED
        BY <3>1, ConcatAdjacentSubSeq
    <2>4. f[n - 1] = SubSeq(cs, 1, u[n - 1])
      BY <1>5
    <2>5. f[n] = SubSeq(cs, 1, u[n])
      BY <1>2, <1>3, <2>3, <2>4, Zenon
    <2> QED
      BY <2>1, <2>5
  <1> HIDE DEF T
  <1>6. N \in T
    <2>1. 0..N \subseteq T
      BY <1>0, <1>4, <1>5, Induction
    <2> QED
      BY <1>0, <2>1
  <1>7. f[N] = SubSeq(cs, 1, Len(cs))
    BY <1>3, <1>6 DEF T
  <1> QED
    BY <1>1, <1>7, SubSeqFull

(* What is kept of each of some lists, put together, is kept of them put together. *)
LEMMA FlattenThose ==
  ASSUME NEW X, NEW ss \in Seq(Seq(X)), NEW S
  PROVE  FlattenSeq([p \in DOMAIN ss |-> Those(ss[p], S)]) = Those(FlattenSeq(ss), S)
  <1> DEFINE N == Len(ss)
             kept == [p \in DOMAIN ss |-> Those(ss[p], S)]
  <1>0. /\ N \in Nat /\ DOMAIN ss = 1..N
        /\ \A n \in 1..N : ss[n] \in Seq(X)
    OBVIOUS
  <1>1. \A s \in Seq(X) : Those(s, S) \in Seq(S)
    <2> SUFFICES ASSUME NEW s \in Seq(X) PROVE Those(s, S) \in Seq(S)
      OBVIOUS
    <2>1. IsSeq(s)
      BY SeqOfRange DEF IsSeq, ToSet
    <2> QED
      BY <2>1, ThoseOf
  <1>2. kept \in Seq(Seq(S)) /\ Len(kept) = N /\ \A n \in 1..N : kept[n] = Those(ss[n], S)
    <2>1. kept \in [1..N -> Seq(S)]
      BY <1>0, <1>1
    <2> QED
      BY <1>0, <2>1
  <1> HIDE DEF kept
  <1>3. PICK f : Joins(f, ss, X) /\ FlattenSeq(ss) = f[N]
    BY Flattened
  <1> HIDE DEF N
  <1>4. PICK g : Joins(g, kept, S) /\ FlattenSeq(kept) = g[N]
    BY <1>2, Flattened
  <1> DEFINE T == {n \in 0..N : g[n] = Those(f[n], S)}
  <1>5. 0 \in T
    <2>1. Those(<< >>, S) = << >>
      BY ThoseOfNone
    <2> QED
      BY <1>0, <1>3, <1>4, <2>1 DEF Joins
  <1>6. ASSUME NEW n \in 1..N, n - 1 \in T
        PROVE  n \in T
    <2>1. n \in 0..N /\ n - 1 \in 0..N
      BY <1>0
    <2>2. f[n - 1] \in Seq(X) /\ ss[n] \in Seq(X) /\ f[n] = f[n - 1] \o ss[n]
      BY <1>0, <1>3, <2>1 DEF Joins, N
    <2>3. g[n] = g[n - 1] \o Those(ss[n], S) /\ g[n - 1] = Those(f[n - 1], S)
      BY <1>2, <1>4, <1>6 DEF Joins
    <2>4. Those(f[n - 1] \o ss[n], S) = Those(f[n - 1], S) \o Those(ss[n], S)
      <3>1. \A a, b \in Seq(X) : Those(a \o b, S) = Those(a, S) \o Those(b, S)
        BY ThoseOfBoth
      <3> QED
        BY <2>2, <3>1
    <2>5. g[n] = Those(f[n], S)
      BY <2>2, <2>3, <2>4, Zenon
    <2> QED
      BY <2>1, <2>5
  <1> HIDE DEF T
  <1>7. N \in T
    <2>1. 0..N \subseteq T
      BY <1>0, <1>5, <1>6, Induction
    <2> QED
      BY <1>0, <2>1
  <1>8. FlattenSeq(kept) = Those(FlattenSeq(ss), S)
    BY <1>3, <1>4, <1>7 DEF T
  <1> QED
    BY <1>8 DEF kept

(* How many chunks there are, and where they end. *)
LEMMA Dividing ==
  ASSUME NEW P \in Nat \ {0}, NEW N \in Nat
  PROVE  /\ N \div P \in Nat /\ P * (N \div P) <= N /\ (N \div P) * P = P * (N \div P)
         /\ \A i \in 0..N \div P : i * P \in Nat /\ i * P <= N
         /\ \A i \in 1..N \div P : (i - 1) * P = i * P - P /\ (i - 1) * P + 1 <= i * P
  <1>1. N \div P \in Nat /\ P * (N \div P) <= N
    OBVIOUS
  <1>2. (N \div P) * P = P * (N \div P)
    OBVIOUS
  <1> DEFINE q == N \div P
  <1> HIDE DEF q
  <1>3. ASSUME NEW i \in 0..q PROVE i * P \in Nat /\ i * P <= q * P
    <2>1. i \in Nat /\ q - i \in Nat /\ q \in Nat
      BY <1>1 DEF q
    <2>2. (q - i) * P \in Nat /\ i * P \in Nat /\ q * P \in Nat
      BY <2>1
    <2>3. (q - i) * P = q * P - i * P
      BY <2>1
    <2> QED
      BY <2>2, <2>3
  <1>4. ASSUME NEW i \in 1..q PROVE (i - 1) * P = i * P - P /\ (i - 1) * P + 1 <= i * P
    <2>1. i \in Int
      OBVIOUS
    <2>2. i * P \in Int /\ (i - 1) * P = i * P - P
      BY <2>1
    <2> QED
      BY <2>2
  <1> QED
    BY <1>1, <1>2, <1>3, <1>4 DEF q

(* A list of numbers that only grow, as many as there are from one to the other. *)
LEMMA Consecutive ==
  ASSUME NEW n \in Nat, NEW b \in Nat, NEW q \in [1..n -> b + 1..b + n],
         \A j, k \in 1..n : j < k => q[j] < q[k]
  PROVE  q = [k \in 1..n |-> b + k]
  <1>0. \A k \in 1..n : q[k] \in Nat /\ b + 1 <= q[k] /\ q[k] <= b + n
    OBVIOUS
  <1> DEFINE T == {k \in 0..n : k = 0 \/ b + k <= q[k]}
             S == {j \in 0..n : j = n \/ q[n - j] <= b + n - j}
  <1>1. 0..n \subseteq T
    <2>1. 0 \in T
      OBVIOUS
    <2>2. ASSUME NEW k \in 1..n, k - 1 \in T
          PROVE  k \in T
      <3>1. CASE k = 1
        BY <1>0, <3>1
      <3>2. CASE k # 1
        <4>1. k - 1 \in 1..n /\ k - 1 < k /\ b + (k - 1) <= q[k - 1]
          BY <2>2, <3>2
        <4>2. q[k - 1] < q[k]
          BY <4>1
        <4> QED
          BY <1>0, <4>1, <4>2
      <3> QED
        BY <3>1, <3>2
    <2> HIDE DEF T
    <2> QED
      BY <2>1, <2>2, Induction
  <1>2. 0..n \subseteq S
    <2>1. 0 \in S
      <3>1. CASE n = 0
        BY <3>1
      <3>2. CASE n # 0
        BY <1>0, <3>2
      <3> QED
        BY <3>1, <3>2
    <2>2. ASSUME NEW j \in 1..n, j - 1 \in S
          PROVE  j \in S
      <3>1. CASE j = n
        BY <3>1
      <3>2. CASE j # n
        <4>1. n - j \in 1..n /\ n - (j - 1) \in 1..n /\ n - j < n - (j - 1)
          BY <3>2
        <4>2. q[n - j] < q[n - (j - 1)] /\ q[n - (j - 1)] <= b + n - (j - 1)
          BY <2>2, <3>2, <4>1
        <4> QED
          BY <1>0, <4>1, <4>2
      <3> QED
        BY <3>1, <3>2
    <2> HIDE DEF S
    <2> QED
      BY <2>1, <2>2, Induction
  <1>3. ASSUME NEW k \in 1..n PROVE q[k] = b + k
    <2>1. k \in 0..n /\ n - k \in 0..n /\ n - (n - k) = k /\ b + n - (n - k) = b + k /\ k # 0 /\ n - k # n
      OBVIOUS
    <2>2. k \in T /\ n - k \in S
      BY <1>1, <1>2, <2>1
    <2>3. b + k <= q[k]
      BY <2>1, <2>2
    <2>4. q[n - (n - k)] <= b + n - (n - k)
      BY <2>1, <2>2
    <2>5. q[k] <= b + k
      BY <2>1, <2>4
    <2> QED
      BY <1>0, <2>3, <2>5
  <1> QED
    BY <1>3

-----------------------------------------------------------------------------
(* Counting *)

(* There are at least as many of the second as of the first. *)
Embeds(A, B) == \E f \in [A -> B] : \A x, y \in A : f[x] = f[y] => x = y

LEMMA EmbedsThrough ==
  ASSUME NEW A, NEW B, NEW C, Embeds(A, B), Embeds(B, C)
  PROVE  Embeds(A, C)
  <1>1. PICK f \in [A -> B] : \A x, y \in A : f[x] = f[y] => x = y
    BY DEF Embeds
  <1>2. PICK g \in [B -> C] : \A x, y \in B : g[x] = g[y] => x = y
    BY DEF Embeds
  <1> DEFINE h == [x \in A |-> g[f[x]]]
  <1>3. h \in [A -> C] /\ \A x, y \in A : h[x] = h[y] => x = y
    BY <1>1, <1>2
  <1> HIDE DEF h
  <1> QED
    BY <1>3 DEF Embeds

LEMMA EmbedsPart ==
  ASSUME NEW A, NEW B, A \subseteq B
  PROVE  Embeds(A, B)
  <1> DEFINE h == [x \in A |-> x]
  <1>1. h \in [A -> B] /\ \A x, y \in A : h[x] = h[y] => x = y
    OBVIOUS
  <1> HIDE DEF h
  <1> QED
    BY <1>1 DEF Embeds

LEMMA EmbedsCounts ==
  ASSUME NEW A, NEW B, Embeds(A, B), IsFiniteSet(B)
  PROVE  Cardinality(A) <= Cardinality(B)
  <1>1. PICK f \in [A -> B] : \A x, y \in A : f[x] = f[y] => x = y
    BY DEF Embeds
  <1>2. f \in Injection(A, B)
    BY <1>1 DEF Injection, IsInjective
  <1> QED
    BY <1>2, FS_Injection

(* In each of some places, and so in all of them. *)
Labelled(A) == UNION {{<<l, n>> : n \in A[l]} : l \in DOMAIN A}
LEMMA EmbedsEach ==
  ASSUME NEW L, NEW A, NEW B, DOMAIN A = L, DOMAIN B = L, \A l \in L : Embeds(A[l], B[l])
  PROVE  Embeds(Labelled(A), Labelled(B))
  <1> DEFINE One(l, f) == f \in [A[l] -> B[l]] /\ \A x, y \in A[l] : f[x] = f[y] => x = y
             fs == [l \in L |-> CHOOSE f : One(l, f)]
             h == [x \in Labelled(A) |-> <<x[1], fs[x[1]][x[2]]>>]
  <1>1. \A l \in L : One(l, fs[l])
    <2> SUFFICES ASSUME NEW l \in L PROVE One(l, fs[l])
      OBVIOUS
    <2>1. \E f : One(l, f)
      BY DEF Embeds
    <2> HIDE DEF One
    <2> QED
      BY <2>1
  <1> HIDE DEF fs
  <1>2. \A x \in Labelled(A) : x = <<x[1], x[2]>> /\ x[1] \in L /\ x[2] \in A[x[1]]
    BY DEF Labelled
  <1>3. ASSUME NEW x \in Labelled(A) PROVE h[x] \in Labelled(B)
    <2>1. fs[x[1]][x[2]] \in B[x[1]]
      BY <1>1, <1>2
    <2> QED
      BY <1>2, <2>1 DEF Labelled
  <1>4. ASSUME NEW x \in Labelled(A), NEW y \in Labelled(A), h[x] = h[y] PROVE x = y
    <2>1. x[1] = y[1] /\ fs[x[1]][x[2]] = fs[y[1]][y[2]]
      BY <1>4
    <2>2. x[2] = y[2]
      BY <1>1, <1>2, <2>1
    <2> QED
      BY <1>2, <2>1, <2>2, Zenon
  <1>5. h \in [Labelled(A) -> Labelled(B)]
    BY <1>3
  <1> HIDE DEF h
  <1> QED
    BY <1>4, <1>5 DEF Embeds

LEMMA IsSeqAppend ==
  ASSUME NEW s, IsSeq(s), NEW x
  PROVE  /\ IsSeq(Append(s, x)) /\ s \o << >> = s /\ s \o <<x>> = Append(s, x) /\ Len(s) \in Nat
         /\ Len(Append(s, x)) = Len(s) + 1 /\ Append(s, x)[Len(s) + 1] = x
         /\ \A i \in 1..Len(s) : Append(s, x)[i] = s[i]
         /\ DOMAIN s = 1..Len(s) /\ DOMAIN Append(s, x) = 1..Len(s) + 1
  <1> DEFINE Y == ToSet(s) \union {x}  more == Append(s, x)
  <1>1. s \in Seq(Y) /\ x \in Y
    BY DEF IsSeq
  <1> HIDE DEF Y
  <1>2. /\ more \in Seq(Y) /\ Len(more) = Len(s) + 1 /\ Len(s) \in Nat
        /\ \A i \in 1..Len(s) : more[i] = s[i]
        /\ more[Len(s) + 1] = x
    BY <1>1, AppendProperties
  <1>3. IsSeq(more)
    BY <1>2, SeqOfRange DEF IsSeq, ToSet
  <1>4. s \o << >> = s
    BY <1>1, ConcatEmptySeq
  <1>5. s \o <<x>> = more
    BY <1>1, AppendIsConcat
  <1> HIDE DEF more
  <1>6. DOMAIN s = 1..Len(s) /\ DOMAIN more = 1..Len(s) + 1
    BY <1>1, <1>2
  <1> QED
    BY <1>2, <1>3, <1>4, <1>5, <1>6 DEF more

(* What a selection keeps of some elements are all of those, when it takes them. *)
LEMMA EmbedsThose ==
  ASSUME NEW seq, IsSeq(seq), NEW K, NEW S, S \subseteq K
  PROVE  Embeds({i \in DOMAIN seq : seq[i] \in S}, {i \in DOMAIN Those(seq, K) : Those(seq, K)[i] \in S})
  <1> DEFINE N == Len(seq)
             In(n) == {i \in 1..n : seq[i] \in S}
  <1>0. N \in Nat /\ DOMAIN seq = 1..N
    BY DEF IsSeq
  <1>1. PICK k : Keeps(k, seq, K) /\ Those(seq, K) = k[N]
    BY ThoseKept DEF IsSeq
  <1> HIDE DEF N
  <1>2. /\ \A n \in 0..N : k[n] \in Seq(K)
        /\ k[0] = << >>
        /\ \A n \in 1..N : k[n] = IF seq[n] \in K THEN Append(k[n - 1], seq[n]) ELSE k[n - 1]
    BY <1>1 DEF Keeps, N
  <1> DEFINE Into(n, f) == /\ f \in [In(n) -> 1..Len(k[n])]
                           /\ \A x, y \in In(n) : f[x] = f[y] => x = y
                           /\ \A x \in In(n) : k[n][f[x]] = seq[x]
             T == {n \in 0..N : \E f : Into(n, f)}
  <1>3. 0 \in T
    <2> DEFINE f == [x \in In(0) |-> x]
    <2>1. In(0) = {}
      OBVIOUS
    <2>2. Into(0, f)
      BY <2>1
    <2>3. 0 \in 0..N
      BY <1>0
    <2> HIDE DEF Into, f
    <2> QED
      BY <2>2, <2>3
  <1>4. ASSUME NEW n \in 1..N, n - 1 \in T
        PROVE  n \in T
    <2>1. n \in 0..N /\ n - 1 \in 0..N /\ In(n) = In(n - 1) \union (IF seq[n] \in S THEN {n} ELSE {}) /\ n \notin In(n - 1)
      BY <1>0
    <2>2. PICK f : Into(n - 1, f)
      BY <1>4
    <2>3. k[n - 1] \in Seq(K) /\ Len(k[n - 1]) \in Nat
      BY <1>2, <2>1
    <2>4. CASE seq[n] \in K
      <3>1. k[n] = Append(k[n - 1], seq[n])
        BY <1>2, <2>4
      <3>2. /\ Len(k[n]) = Len(k[n - 1]) + 1 /\ k[n][Len(k[n])] = seq[n]
            /\ \A i \in 1..Len(k[n - 1]) : k[n][i] = k[n - 1][i]
        BY <2>3, <2>4, <3>1, AppendProperties
      <3> DEFINE g == [x \in In(n) |-> IF x = n THEN Len(k[n]) ELSE f[x]]
      <3>3. \A x \in In(n) : x # n => x \in In(n - 1)
        BY <2>1
      <3> HIDE DEF In
      <3>4. \A x \in In(n) : x # n => f[x] \in 1..Len(k[n - 1]) /\ k[n - 1][f[x]] = seq[x]
        BY <2>2, <3>3
      <3>5. ASSUME NEW x \in In(n) PROVE g[x] \in 1..Len(k[n]) /\ k[n][g[x]] = seq[x]
        BY <2>3, <3>2, <3>4
      <3>6. ASSUME NEW x \in In(n), NEW y \in In(n), g[x] = g[y] PROVE x = y
        BY <2>2, <2>3, <3>2, <3>3, <3>4, <3>6
      <3>7. g \in [In(n) -> 1..Len(k[n])]
        BY <3>5
      <3> HIDE DEF g
      <3>8. Into(n, g)
        BY <3>5, <3>6, <3>7
      <3> HIDE DEF Into
      <3> QED
        BY <2>1, <3>8
    <2>5. CASE seq[n] \notin K
      <3>1. In(n) = In(n - 1) /\ k[n] = k[n - 1]
        BY <1>2, <2>1, <2>5
      <3> HIDE DEF In
      <3>2. Into(n, f)
        BY <2>2, <3>1
      <3> HIDE DEF Into
      <3> QED
        BY <2>1, <3>2
    <2> QED
      BY <2>4, <2>5
  <1> HIDE DEF T
  <1>5. N \in T
    <2>1. 0..N \subseteq T
      BY <1>0, <1>3, <1>4, Induction
    <2> QED
      BY <1>0, <2>1
  <1>6. PICK f : Into(N, f)
    BY <1>5 DEF T
  <1>7. DOMAIN k[N] = 1..Len(k[N])
    BY <1>0, <1>2
  <1>8. In(N) = {i \in DOMAIN seq : seq[i] \in S} /\ \A x \in In(N) : seq[x] \in S
    BY <1>0
  <1>9. f \in [In(N) -> {i \in DOMAIN k[N] : k[N][i] \in S}]
    BY <1>6, <1>7, <1>8
  <1> QED
    BY <1>1, <1>6, <1>8, <1>9 DEF Embeds

LEMMA RangeFinite ==
  ASSUME NEW f, IsFiniteSet(DOMAIN f)
  PROVE  IsFiniteSet({f[x] : x \in DOMAIN f})
  <1> DEFINE T == {f[x] : x \in DOMAIN f}  g == [x \in DOMAIN f |-> f[x]]
  <1>1. g \in Surjection(DOMAIN f, T)
    BY DEF Surjection
  <1> HIDE DEF g
  <1>2. IsFiniteSet(T)
    BY <1>1, FS_Surjection
  <1> QED
    BY <1>2

LEMMA LabelledFinite ==
  ASSUME NEW A, IsFiniteSet(DOMAIN A), \A l \in DOMAIN A : IsFiniteSet(A[l])
  PROVE  IsFiniteSet(Labelled(A))
  <1> DEFINE one == [l \in DOMAIN A |-> {<<l, n>> : n \in A[l]}]
  <1>1. ASSUME NEW l \in DOMAIN A PROVE IsFiniteSet(one[l])
    <2> DEFINE g == [n \in A[l] |-> <<l, n>>]
    <2>1. one[l] = {g[n] : n \in DOMAIN g} /\ DOMAIN g = A[l]
      OBVIOUS
    <2> HIDE DEF g, one
    <2>2. IsFiniteSet({g[n] : n \in DOMAIN g})
      BY <1>1, <2>1, RangeFinite
    <2> QED
      BY <2>1, <2>2, Zenon
  <1>2. Labelled(A) = UNION {one[l] : l \in DOMAIN one} /\ DOMAIN one = DOMAIN A
    BY DEF Labelled
  <1> HIDE DEF one
  <1>3. IsFiniteSet({one[l] : l \in DOMAIN one})
    BY <1>2, RangeFinite
  <1>4. \A S \in {one[l] : l \in DOMAIN one} : IsFiniteSet(S)
    BY <1>1, <1>2
  <1>5. IsFiniteSet(UNION {one[l] : l \in DOMAIN one})
    BY <1>3, <1>4, FS_UNION
  <1> QED
    BY <1>2, <1>5, Zenon
=============================================================================
