------------------------- MODULE SubsequenceProofs -------------------------
(* What Only returns, for sequences of every length.  A recursive function  *)
(* over Nat exists and is unique, by induction on its argument: the least   *)
(* number outside a set of numbers that holds 0 and every successor would   *)
(* have a predecessor inside.                                               *)
EXTENDS Subsequences, SequenceTheorems, WellFoundedInduction, TLAPS

LEMMA NatSet ==
  ASSUME NEW T, 0 \in T, \A n \in Nat : n \in T => n + 1 \in T
  PROVE  Nat \subseteq T
<1> SUFFICES ASSUME Nat \ T # {} PROVE FALSE
  OBVIOUS
<1>1. PICK m \in Nat \ T : \A y \in Nat \ T : ~(<<y, m>> \in OpToRel(<, Nat))
  BY NatLessThanWellFounded, WFMin
<1>2. \A y \in Nat \ T : ~(y < m)
  BY <1>1 DEF OpToRel
<1>3. m # 0 /\ m - 1 \in Nat /\ m - 1 < m
  OBVIOUS
<1>4. m - 1 \in T
  BY <1>2, <1>3
<1> QED
  BY <1>3, <1>4

Step(s, S, F, i) ==
  IF i = 0 THEN <<>>
  ELSE IF s[i] \in S THEN Append(F[i - 1], s[i]) ELSE F[i - 1]

(* What the recursion defines for the first n members.                      *)
Upto(s, S, F, n) == \A i \in 0 .. n : F[i] = Step(s, S, F, i)

LEMMA UptoUnique ==
  ASSUME NEW s, NEW t, NEW S, NEW F, NEW G, NEW n \in Nat,
         Upto(s, S, F, n), Upto(t, S, G, n), \A i \in 1 .. n : s[i] = t[i]
  PROVE  F[n] = G[n]
<1> DEFINE T == {i \in Nat : i <= n => F[i] = G[i]}
<1>1. 0 \in T
  BY DEF Upto, Step
<1>2. ASSUME NEW i \in Nat, i \in T PROVE i + 1 \in T
  BY <1>2 DEF Upto, Step
<1> HIDE DEF T
<1>3. Nat \subseteq T
  BY <1>1, <1>2, NatSet
<1> QED
  BY <1>3 DEF T

LEMMA UptoExists ==
  ASSUME NEW s, NEW S
  PROVE  \E F : F = [i \in Nat |-> Step(s, S, F, i)]
<1> DEFINE T == {n \in Nat : \E F : Upto(s, S, F, n)}
<1>1. 0 \in T
  <2> DEFINE F == [i \in {0} |-> <<>>]
  <2>1. Upto(s, S, F, 0)
    BY DEF Upto, Step
  <2> QED
    BY <2>1
<1>2. ASSUME NEW n \in Nat, n \in T PROVE n + 1 \in T
  <2>1. PICK F : Upto(s, S, F, n)
    BY <1>2
  <2> DEFINE G == [i \in 0 .. n + 1 |-> IF i <= n THEN F[i] ELSE Step(s, S, F, n + 1)]
  <2>2. Upto(s, S, G, n + 1)
    BY <2>1 DEF Upto, Step
  <2> QED
    BY <2>2
<1> HIDE DEF T
<1>3. Nat \subseteq T
  BY <1>1, <1>2, NatSet
<1>4. \A n \in Nat : \E F : Upto(s, S, F, n)
  BY <1>3 DEF T
<1> DEFINE Pick(n) == CHOOSE F : Upto(s, S, F, n)
           F == [n \in Nat |-> Pick(n)[n]]
<1>5. ASSUME NEW n \in Nat PROVE Upto(s, S, Pick(n), n)
  BY <1>4
<1> HIDE DEF Pick
<1>6. ASSUME NEW n \in Nat PROVE F[n] = Step(s, S, F, n)
  <2>1. CASE n = 0
    BY <1>5, <2>1 DEF Upto, Step
  <2>2. CASE n # 0
    <3>1. n - 1 \in Nat /\ Upto(s, S, Pick(n - 1), n - 1) /\ Upto(s, S, Pick(n), n)
      BY <1>5, <2>2
    <3>2. Upto(s, S, Pick(n), n - 1)
      BY <3>1 DEF Upto
    <3>3. Pick(n - 1)[n - 1] = Pick(n)[n - 1]
      BY <3>1, <3>2, UptoUnique
    <3>4. Pick(n)[n] = Step(s, S, Pick(n), n)
      BY <3>1 DEF Upto
    <3> QED
      BY <2>2, <3>1, <3>3, <3>4 DEF Step
  <2> QED
    BY <2>1, <2>2
<1>7. F = [n \in Nat |-> Step(s, S, F, n)]
  BY <1>6
<1> QED
  BY <1>7

LEMMA OnlyUpto ==
  ASSUME NEW s, NEW S
  PROVE  \E F : F = [i \in Nat |-> Step(s, S, F, i)] /\ Only(s, S) = F[Len(s)]
<1> DEFINE F == CHOOSE F : F = [i \in Nat |-> Step(s, S, F, i)]
<1>1. F = [i \in Nat |-> Step(s, S, F, i)]
  BY UptoExists
<1>2. Only(s, S) = F[Len(s)]
  BY DEF Only, Step
<1> QED
  BY <1>1, <1>2

LEMMA OnlyEmpty ==
  ASSUME NEW S
  PROVE  Only(<<>>, S) = <<>>
BY OnlyUpto DEF Step

LEMMA OnlyAppend ==
  ASSUME NEW A, NEW s \in Seq(A), NEW e \in A, NEW S
  PROVE  Only(Append(s, e), S) = IF e \in S THEN Append(Only(s, S), e) ELSE Only(s, S)
<1> DEFINE t == Append(s, e)
           n == Len(s)
<1>1. n \in Nat /\ Len(t) = n + 1 /\ t[n + 1] = e /\ \A i \in 1 .. n : s[i] = t[i]
  OBVIOUS
<1>2. PICK F : F = [i \in Nat |-> Step(s, S, F, i)] /\ Only(s, S) = F[n]
  BY OnlyUpto
<1>3. PICK G : G = [i \in Nat |-> Step(t, S, G, i)] /\ Only(t, S) = G[Len(t)]
  BY OnlyUpto
<1> HIDE DEF t, n
<1>4. Upto(s, S, F, n)
  BY <1>1, <1>2 DEF Upto
<1>5. Upto(t, S, G, n)
  BY <1>1, <1>3 DEF Upto
<1>6. F[n] = G[n]
  BY <1>1, <1>4, <1>5, UptoUnique
<1>7. G[n + 1] = Step(t, S, G, n + 1)
  BY <1>1, <1>3
<1> QED
  BY <1>1, <1>2, <1>3, <1>6, <1>7 DEF Step, t

-----------------------------------------------------------------------------
(* Sequences taken apart and put together.                                  *)

LEMMA ConcatAppend ==
  ASSUME NEW A, NEW s \in Seq(A), NEW t \in Seq(A), NEW e \in A
  PROVE  s \o Append(t, e) = Append(s \o t, e)
<1>1. <<e>> \in Seq(A) /\ s \o t \in Seq(A)
  BY ConcatProperties
<1>2. Append(t, e) = t \o <<e>> /\ Append(s \o t, e) = (s \o t) \o <<e>>
  BY <1>1, AppendIsConcat
<1> QED
  BY <1>1, <1>2, ConcatAssociative

LEMMA HeadFirst ==
  ASSUME NEW A, NEW s \in Seq(A), s # <<>>
  PROVE  /\ s = <<Head(s)>> \o Tail(s) /\ Head(s) \in A
         /\ <<Head(s)>> \in Seq(A) /\ Tail(s) \in Seq(A)
<1>1. Len(s) \in Nat /\ Len(s) >= 1
  BY EmptySeq
<1>2. SubSeq(s, 1, Len(s)) = <<s[1]>> \o SubSeq(s, 2, Len(s))
  BY <1>1, SubSeqRecursiveFirst
<1>3. SubSeq(s, 1, Len(s)) = s /\ Tail(s) = SubSeq(s, 2, Len(s))
  BY SubSeqFull, TailIsSubSeq
<1>4. Head(s) = s[1] /\ Head(s) \in A /\ Tail(s) \in Seq(A)
  BY HeadTailProperties
<1> QED
  BY <1>2, <1>3, <1>4

LEMMA Halves ==
  ASSUME NEW A, NEW s \in Seq(A), NEW n \in 0 .. Len(s)
  PROVE  /\ s = SubSeq(s, 1, n) \o SubSeq(s, n + 1, Len(s))
         /\ SubSeq(s, 1, n) \in Seq(A) /\ Len(SubSeq(s, 1, n)) = n
         /\ SubSeq(s, n + 1, Len(s)) \in Seq(A)
<1>1. Len(s) \in Nat /\ \A i \in 1 .. Len(s) : s[i] \in A
  BY LenProperties, ElementOfSeq
<1>2. SubSeq(s, 1, n) \o SubSeq(s, n + 1, Len(s)) = SubSeq(s, 1, Len(s))
  <2>1. /\ 1 \in 1 .. Len(s) + 1 /\ n \in 1 - 1 .. Len(s)
        /\ Len(s) \in n .. Len(s)
    BY <1>1
  <2> QED
    BY <2>1, ConcatAdjacentSubSeq
<1>3. SubSeq(s, 1, Len(s)) = s
  BY SubSeqFull
<1>4. SubSeq(s, 1, n) \in Seq(A) /\ Len(SubSeq(s, 1, n)) = n
  BY <1>1, SubSeqProperties
<1>5. SubSeq(s, n + 1, Len(s)) \in Seq(A)
  BY <1>1, SubSeqProperties
<1> QED
  BY <1>2, <1>3, <1>4, <1>5

LEMMA Associative ==
  ASSUME NEW A
  PROVE  \A u, v, w \in Seq(A) : (u \o v) \o w = u \o (v \o w)
BY ConcatAssociative

LEMMA Concatenated ==
  ASSUME NEW A
  PROVE  \A u, v \in Seq(A) : u \o v \in Seq(A)
BY ConcatProperties

(* What both halves are made of.                                            *)
LEMMA Parts ==
  ASSUME NEW A, NEW s \in Seq(A), NEW t \in Seq(A), NEW S, s \o t \in Seq(S)
  PROVE  s \in Seq(S) /\ t \in Seq(S)
<1>1. /\ Len(s) \in Nat /\ Len(t) \in Nat /\ Len(s \o t) = Len(s) + Len(t)
      /\ \A i \in 1 .. Len(s) + Len(t) :
           (s \o t)[i] = IF i <= Len(s) THEN s[i] ELSE t[i - Len(s)]
  BY LenProperties, ConcatProperties
<1>2. \A i \in 1 .. Len(s) + Len(t) : (s \o t)[i] \in S
  BY <1>1, ElementOfSeq
<1>3. ASSUME NEW i \in 1 .. Len(s) PROVE s[i] \in S
  <2>1. i \in 1 .. Len(s) + Len(t) /\ i <= Len(s)
    BY <1>1
  <2> QED
    BY <1>1, <1>2, <2>1
<1>4. ASSUME NEW i \in 1 .. Len(t) PROVE t[i] \in S
  <2> DEFINE j == i + Len(s)
  <2>1. j \in 1 .. Len(s) + Len(t) /\ ~(j <= Len(s)) /\ j - Len(s) = i
    BY <1>1
  <2>2. (s \o t)[j] = t[j - Len(s)] /\ (s \o t)[j] \in S
    BY <1>1, <1>2, <2>1
  <2> QED
    BY <2>1, <2>2
<1>5. SubSeq(s, 1, Len(s)) \in Seq(S) /\ SubSeq(t, 1, Len(t)) \in Seq(S)
  BY <1>1, <1>3, <1>4, SubSeqProperties
<1> QED
  BY <1>5, SubSeqFull

-----------------------------------------------------------------------------
(* What is kept.                                                            *)

(* Every sequence is empty or an appended one: induction over its length.   *)
LEMMA OnlyType ==
  ASSUME NEW A, NEW s \in Seq(A), NEW S
  PROVE  Only(s, S) \in Seq(A \cap S)
<1> DEFINE T == {n \in Nat : \A t \in Seq(A) : Len(t) = n => Only(t, S) \in Seq(A \cap S)}
<1>1. 0 \in T
  <2>1. ASSUME NEW t \in Seq(A), Len(t) = 0 PROVE t = <<>>
    BY <2>1
  <2> QED
    BY <2>1, OnlyEmpty
<1>2. ASSUME NEW n \in Nat, n \in T PROVE n + 1 \in T
  <2>1. ASSUME NEW t \in Seq(A), Len(t) = n + 1 PROVE Only(t, S) \in Seq(A \cap S)
    <3>0. t # <<>>
      BY <2>1, EmptySeq
    <3>1. PICK u \in Seq(A), e \in A : t = Append(u, e)
      BY <3>0, SequenceEmptyOrAppend
    <3>2. Only(u, S) \in Seq(A \cap S)
      BY <1>2, <2>1, <3>1
    <3>3. Only(t, S) = IF e \in S THEN Append(Only(u, S), e) ELSE Only(u, S)
      BY <3>1, OnlyAppend
    <3> QED
      BY <3>2, <3>3
  <2> QED
    BY <2>1
<1> HIDE DEF T
<1>3. Nat \subseteq T
  BY <1>1, <1>2, NatSet
<1> QED
  BY <1>3 DEF T

(* What is kept of a longer sequence.                                       *)
LEMMA OnlyConcat ==
  ASSUME NEW A, NEW s \in Seq(A), NEW t \in Seq(A), NEW S
  PROVE  Only(s \o t, S) = Only(s, S) \o Only(t, S)
<1> DEFINE Splits(u) == Only(s \o u, S) = Only(s, S) \o Only(u, S)
           T == {n \in Nat : \A u \in Seq(A) : Len(u) = n => Splits(u)}
<1>0. ASSUME NEW u \in Seq(A) PROVE Only(u, S) \in Seq(A)
  <2>1. Only(u, S) \in Seq(A \cap S)
    BY OnlyType
  <2> QED
    BY <2>1, SeqMonotonic
<1>1. 0 \in T
  <2>1. ASSUME NEW u \in Seq(A), Len(u) = 0 PROVE Splits(u)
    <3>1. u = <<>>
      BY <2>1, EmptySeq
    <3>2. s \o <<>> = s /\ Only(s, S) \o <<>> = Only(s, S)
      BY <1>0, ConcatEmptySeq
    <3> QED
      BY <3>1, <3>2, OnlyEmpty
  <2> QED
    BY <2>1
<1>2. ASSUME NEW n \in Nat, n \in T PROVE n + 1 \in T
  <2>1. ASSUME NEW v \in Seq(A), Len(v) = n + 1 PROVE Splits(v)
    <3>0. v # <<>>
      BY <2>1, EmptySeq
    <3>1. PICK u \in Seq(A), e \in A : v = Append(u, e)
      BY <3>0, SequenceEmptyOrAppend
    <3>2. Len(u) = n
      BY <2>1, <3>1, AppendProperties
    <3>3. Splits(u)
      BY <1>2, <3>2
    <3>4. s \o v = Append(s \o u, e) /\ s \o u \in Seq(A)
      BY <3>1, ConcatAppend, ConcatProperties
    <3>5. Only(Append(s \o u, e), S) = IF e \in S THEN Append(Only(s \o u, S), e)
                                               ELSE Only(s \o u, S)
      BY <3>4, OnlyAppend
    <3>6. Only(v, S) = IF e \in S THEN Append(Only(u, S), e) ELSE Only(u, S)
      BY <3>1, OnlyAppend
    <3>7. Only(s, S) \in Seq(A) /\ Only(u, S) \in Seq(A)
      BY <1>0
    <3>8. Only(s, S) \o Append(Only(u, S), e) = Append(Only(s, S) \o Only(u, S), e)
      BY <3>7, ConcatAppend
    <3> QED
      BY <3>3, <3>4, <3>5, <3>6, <3>8
  <2> HIDE DEF Splits
  <2> QED
    BY <2>1
<1> HIDE DEF T
<1>3. Nat \subseteq T
  BY <1>1, <1>2, NatSet
<1>4. Len(t) \in Nat
  BY LenProperties
<1> QED
  BY <1>3, <1>4 DEF T

LEMMA OnlyOne ==
  ASSUME NEW e, NEW S
  PROVE  Only(<<e>>, S) = IF e \in S THEN <<e>> ELSE <<>>
<1>1. <<>> \in Seq({e}) /\ e \in {e} /\ <<e>> = Append(<<>>, e)
  BY EmptySeq
<1>2. Only(Append(<<>>, e), S) = IF e \in S THEN Append(Only(<<>>, S), e)
                                          ELSE Only(<<>>, S)
  BY <1>1, OnlyAppend
<1> QED
  BY <1>1, <1>2, OnlyEmpty

(* The first member goes first, if it goes at all.                          *)
LEMMA OnlyHead ==
  ASSUME NEW A, NEW s \in Seq(A), s # <<>>, NEW S
  PROVE  Only(s, S) = IF Head(s) \in S THEN <<Head(s)>> \o Only(Tail(s), S)
                                       ELSE Only(Tail(s), S)
<1>1. /\ s = <<Head(s)>> \o Tail(s) /\ Head(s) \in A
      /\ <<Head(s)>> \in Seq(A) /\ Tail(s) \in Seq(A)
  BY HeadFirst
<1>2. \A h, t \in Seq(A) : Only(h \o t, S) = Only(h, S) \o Only(t, S)
  BY OnlyConcat
<1>3. Only(Tail(s), S) \in Seq(A \cap S)
  BY <1>1, OnlyType
<1>4. <<>> \o Only(Tail(s), S) = Only(Tail(s), S)
  BY <1>3, ConcatEmptySeq
<1>5. Only(<<Head(s)>>, S) = IF Head(s) \in S THEN <<Head(s)>> ELSE <<>>
  BY OnlyOne
<1> QED
  BY <1>1, <1>2, <1>4, <1>5

(* Nothing is kept where nothing is looked for.                             *)
LEMMA OnlyNone ==
  ASSUME NEW A, NEW s \in Seq(A), NEW S, A \cap S = {}
  PROVE  Only(s, S) = <<>>
<1>1. Only(s, S) \in Seq({})
  BY OnlyType
<1> QED
  BY <1>1

-----------------------------------------------------------------------------
(* The same facts about an operator that the provers do not take apart:     *)
(* they put sequences together and regroup them by these laws alone.        *)
Cat(s, t) == s \o t
One(e) == <<e>>

LEMMA CatType ==
  ASSUME NEW A
  PROVE  \A s, t \in Seq(A) : Cat(s, t) \in Seq(A)
BY Concatenated DEF Cat

LEMMA CatAssoc ==
  ASSUME NEW A
  PROVE  \A s, t, u \in Seq(A) : Cat(Cat(s, t), u) = Cat(s, Cat(t, u))
BY Associative DEF Cat

LEMMA CatEmpty ==
  ASSUME NEW A
  PROVE  <<>> \in Seq(A) /\ \A s \in Seq(A) : Cat(s, <<>>) = s /\ Cat(<<>>, s) = s
BY ConcatEmptySeq, EmptySeq DEF Cat

LEMMA CatOne ==
  ASSUME NEW A
  PROVE  \A s \in Seq(A), e \in A : One(e) \in Seq(A) /\ Append(s, e) = Cat(s, One(e))
BY AppendIsConcat DEF Cat, One

LEMMA CatHead ==
  ASSUME NEW A
  PROVE  \A s \in Seq(A) : s # <<>> =>
           /\ s = Cat(One(Head(s)), Tail(s)) /\ Head(s) \in A
           /\ One(Head(s)) \in Seq(A) /\ Tail(s) \in Seq(A)
BY HeadFirst DEF Cat, One

LEMMA CatHalves ==
  ASSUME NEW A
  PROVE  \A s \in Seq(A) : \A n \in 0 .. Len(s) :
           /\ s = Cat(SubSeq(s, 1, n), SubSeq(s, n + 1, Len(s)))
           /\ SubSeq(s, 1, n) \in Seq(A) /\ Len(SubSeq(s, 1, n)) = n
           /\ SubSeq(s, n + 1, Len(s)) \in Seq(A)
BY Halves DEF Cat

LEMMA Shift ==
  ASSUME NEW m \in Nat, NEW n \in Nat, NEW i \in 1 .. n
  PROVE  \E j \in 1 .. m + n : j = m + i /\ ~(j <= m) /\ j - m = i
OBVIOUS

(* The other way round: the left part is a prefix, the right what is left.  *)
LEMMA CatSplit ==
  ASSUME NEW A
  PROVE  \A s, t \in Seq(A) :
           /\ Len(s) \in 0 .. Len(Cat(s, t))
           /\ SubSeq(Cat(s, t), 1, Len(s)) = s
           /\ SubSeq(Cat(s, t), Len(s) + 1, Len(Cat(s, t))) = t
<1> SUFFICES ASSUME NEW s \in Seq(A), NEW t \in Seq(A)
             PROVE  /\ Len(s) \in 0 .. Len(s \o t)
                    /\ SubSeq(s \o t, 1, Len(s)) = s
                    /\ SubSeq(s \o t, Len(s) + 1, Len(s \o t)) = t
  BY DEF Cat
<1> DEFINE q == s \o t
           x == SubSeq(q, 1, Len(s))
           y == SubSeq(q, Len(s) + 1, Len(q))
<1>1. /\ Len(s) \in Nat /\ Len(t) \in Nat /\ Len(q) = Len(s) + Len(t)
      /\ q \in Seq(A)
  BY LenProperties, ConcatProperties
<1>2. \A i \in 1 .. Len(s) + Len(t) :
        q[i] = IF i <= Len(s) THEN s[i] ELSE t[i - Len(s)]
  BY ConcatProperties
<1>3. /\ \A i \in 1 .. Len(s) : s[i] \in A
      /\ \A i \in 1 .. Len(t) : t[i] \in A
      /\ \A i \in 1 .. Len(q) : q[i] \in A
  BY <1>1, ElementOfSeq
<1> HIDE DEF q
<1>4. \A i \in Len(s) + 1 .. Len(q) : q[i] \in A
  BY <1>1, <1>3
<1>5. x \in Seq(A) /\ Len(x) = Len(s) /\ \A i \in 1 .. Len(s) : x[i] = q[i]
  BY <1>1, <1>3, SubSeqProperties
<1>6. y \in Seq(A) /\ Len(y) = Len(t) /\ \A i \in 1 .. Len(t) : y[i] = q[Len(s) + i]
  BY <1>1, <1>4, SubSeqProperties
<1> HIDE DEF x, y
<1>7. x = s
  BY <1>1, <1>2, <1>5, SeqEqual
<1>8. ASSUME NEW i \in 1 .. Len(t) PROVE y[i] = t[i]
  <2>1. PICK j \in 1 .. Len(s) + Len(t) :
          j = Len(s) + i /\ ~(j <= Len(s)) /\ j - Len(s) = i
    BY ONLY <1>1, i \in 1 .. Len(t), Shift
  <2>2. q[j] = t[j - Len(s)]
    BY <1>2, <2>1
  <2> QED
    BY <1>6, <2>1, <2>2
<1>9. y = t
  BY <1>6, <1>8, SeqEqual
<1> QED
  BY <1>1, <1>7, <1>9 DEF q, x, y

LEMMA CatParts ==
  ASSUME NEW A, NEW S
  PROVE  \A s, t \in Seq(A) : Cat(s, t) \in Seq(S) => s \in Seq(S) /\ t \in Seq(S)
BY Parts DEF Cat

LEMMA CatElements ==
  ASSUME NEW A
  PROVE  \A s, t \in Seq(A) :
           /\ Len(s) \in Nat /\ Len(t) \in Nat
           /\ Len(Cat(s, t)) = Len(s) + Len(t)
           /\ \A i \in 1 .. Len(s) : Cat(s, t)[i] = s[i]
           /\ \A i \in 1 .. Len(t) : Cat(s, t)[Len(s) + i] = t[i]
<1> SUFFICES ASSUME NEW s \in Seq(A), NEW t \in Seq(A)
             PROVE  /\ Len(s) \in Nat /\ Len(t) \in Nat
                    /\ Len(s \o t) = Len(s) + Len(t)
                    /\ \A i \in 1 .. Len(s) : (s \o t)[i] = s[i]
                    /\ \A i \in 1 .. Len(t) : (s \o t)[Len(s) + i] = t[i]
  BY DEF Cat
<1>1. Len(s) \in Nat /\ Len(t) \in Nat
  BY LenProperties
<1>2. /\ Len(s \o t) = Len(s) + Len(t)
      /\ \A i \in 1 .. Len(s) + Len(t) :
           (s \o t)[i] = IF i <= Len(s) THEN s[i] ELSE t[i - Len(s)]
  BY ConcatProperties
<1> QED
  BY <1>1, <1>2

LEMMA OnlyCat ==
  ASSUME NEW A, NEW S
  PROVE  \A s, t \in Seq(A) : Only(Cat(s, t), S) = Cat(Only(s, S), Only(t, S))
BY OnlyConcat DEF Cat

LEMMA OnlyOfOne ==
  ASSUME NEW S
  PROVE  \A e : Only(One(e), S) = IF e \in S THEN One(e) ELSE <<>>
BY OnlyOne DEF One

LEMMA OneOf ==
  ASSUME NEW S
  PROVE  \A e : One(e) \in Seq(S) <=> e \in S
<1> SUFFICES ASSUME NEW e PROVE <<e>> \in Seq(S) <=> e \in S
  BY DEF One
<1>1. ASSUME e \in S PROVE <<e>> \in Seq(S)
  BY <1>1
<1>2. ASSUME <<e>> \in Seq(S) PROVE e \in S
  <2>1. Len(<<e>>) = 1 /\ <<e>>[1] = e
    OBVIOUS
  <2> QED
    BY <1>2, <2>1, ElementOfSeq
<1> QED
  BY <1>1, <1>2

LEMMA SeqWider ==
  ASSUME NEW S, NEW T, S \subseteq T
  PROVE  \A s \in Seq(S) : s \in Seq(T)
BY SeqMonotonic

(* A sequence behind its first element.                                     *)
LEMMA CatFirst ==
  ASSUME NEW A
  PROVE  \A e \in A, s \in Seq(A) :
           /\ Cat(One(e), s) \in Seq(A) /\ Len(Cat(One(e), s)) = 1 + Len(s)
           /\ Cat(One(e), s)[1] = e
           /\ \A i \in 1 .. Len(s) : Cat(One(e), s)[1 + i] = s[i]
<1> SUFFICES ASSUME NEW e \in A, NEW s \in Seq(A)
             PROVE  /\ Cat(One(e), s) \in Seq(A) /\ Len(Cat(One(e), s)) = 1 + Len(s)
                    /\ Cat(One(e), s)[1] = e
                    /\ \A i \in 1 .. Len(s) : Cat(One(e), s)[1 + i] = s[i]
  OBVIOUS
<1>1. PICK h \in Seq(A) : h = One(e) /\ Len(h) = 1 /\ h[1] = e
  <2>1. <<e>> \in Seq(A) /\ Len(<<e>>) = 1 /\ <<e>>[1] = e
    OBVIOUS
  <2> QED
    BY <2>1 DEF One
<1>2. \A x, y \in Seq(A) :
         /\ Len(x) \in Nat /\ Len(y) \in Nat
         /\ Len(Cat(x, y)) = Len(x) + Len(y)
         /\ \A i \in 1 .. Len(x) : Cat(x, y)[i] = x[i]
         /\ \A i \in 1 .. Len(y) : Cat(x, y)[Len(x) + i] = y[i]
  BY ONLY CatElements
<1>3. \A x, y \in Seq(A) : Cat(x, y) \in Seq(A)
  BY ONLY CatType
<1>4. Cat(h, s) \in Seq(A)
  BY <1>3
<1>5. Len(Cat(h, s)) = 1 + Len(s)
  <2>1. Len(Cat(h, s)) = Len(h) + Len(s)
    BY ONLY <1>2
  <2> QED
    BY <1>1, <2>1
<1>6. 1 \in 1 .. Len(h)
  BY <1>1
<1>7. Cat(h, s)[1] = e
  BY <1>1, <1>2, <1>6
<1>8. \A i \in 1 .. Len(s) : Cat(h, s)[1 + i] = s[i]
  <2>1. \A i \in 1 .. Len(s) : Cat(h, s)[Len(h) + i] = s[i]
    BY <1>2
  <2> QED
    BY <1>1, <2>1
<1> QED
  BY <1>1, <1>4, <1>5, <1>7, <1>8

-----------------------------------------------------------------------------
(* What a sequence holds.                                                   *)
Has(s, x) == \E i \in 1 .. Len(s) : s[i] = x

LEMMA HasEmpty ==
  \A x : ~Has(<<>>, x)
BY DEF Has

LEMMA HasAppend ==
  ASSUME NEW A
  PROVE  \A s \in Seq(A), e \in A : \A x : Has(Append(s, e), x) <=> Has(s, x) \/ x = e
<1> SUFFICES ASSUME NEW s \in Seq(A), NEW e \in A, NEW x
             PROVE  Has(Append(s, e), x) <=> Has(s, x) \/ x = e
  OBVIOUS
<1>1. /\ Len(s) \in Nat /\ Len(Append(s, e)) = Len(s) + 1
      /\ Append(s, e)[Len(s) + 1] = e
      /\ \A i \in 1 .. Len(s) : Append(s, e)[i] = s[i]
  BY AppendProperties
<1>2. \A i \in 1 .. Len(s) + 1 : i \in 1 .. Len(s) \/ i = Len(s) + 1
  BY <1>1
<1>3. Len(s) + 1 \in 1 .. Len(s) + 1 /\ 1 .. Len(s) \subseteq 1 .. Len(s) + 1
  BY <1>1
<1> QED
  BY <1>1, <1>2, <1>3 DEF Has

LEMMA HasCat ==
  ASSUME NEW A
  PROVE  \A s, t \in Seq(A) : \A x : Has(Cat(s, t), x) <=> Has(s, x) \/ Has(t, x)
<1> SUFFICES ASSUME NEW s \in Seq(A), NEW t \in Seq(A), NEW x
             PROVE  Has(Cat(s, t), x) <=> Has(s, x) \/ Has(t, x)
  OBVIOUS
<1>1. /\ Len(s) \in Nat /\ Len(t) \in Nat /\ Len(Cat(s, t)) = Len(s) + Len(t)
      /\ \A i \in 1 .. Len(s) : Cat(s, t)[i] = s[i]
      /\ \A i \in 1 .. Len(t) : Cat(s, t)[Len(s) + i] = t[i]
  BY CatElements
<1>2. \A i \in 1 .. Len(s) + Len(t) :
         i \in 1 .. Len(s) \/ \E j \in 1 .. Len(t) : i = Len(s) + j
  <2>1. ASSUME NEW i \in 1 .. Len(s) + Len(t), i \notin 1 .. Len(s)
        PROVE  \E j \in 1 .. Len(t) : i = Len(s) + j
    <3>1. i - Len(s) \in 1 .. Len(t) /\ i = Len(s) + (i - Len(s))
      BY <1>1, <2>1
    <3> QED
      BY <3>1
  <2> QED
    BY <2>1
<1>3. /\ 1 .. Len(s) \subseteq 1 .. Len(s) + Len(t)
      /\ \A j \in 1 .. Len(t) : Len(s) + j \in 1 .. Len(s) + Len(t)
  BY <1>1
<1>4. ASSUME NEW i \in 1 .. Len(Cat(s, t)), Cat(s, t)[i] = x PROVE Has(s, x) \/ Has(t, x)
  <2>1. i \in 1 .. Len(s) + Len(t)
    BY <1>1, <1>4
  <2>2. CASE i \in 1 .. Len(s)
    <3>1. s[i] = x
      BY <1>1, <1>4, <2>2
    <3> QED
      BY <2>2, <3>1 DEF Has
  <2>3. ASSUME NEW j \in 1 .. Len(t), i = Len(s) + j PROVE Has(t, x)
    <3>1. t[j] = x
      BY <1>1, <1>4, <2>3
    <3> QED
      BY <3>1 DEF Has
  <2> QED
    BY <1>2, <2>1, <2>2, <2>3
<1>5. ASSUME NEW i \in 1 .. Len(s), s[i] = x PROVE Has(Cat(s, t), x)
  BY <1>1, <1>3, <1>5 DEF Has
<1>6. ASSUME NEW j \in 1 .. Len(t), t[j] = x PROVE Has(Cat(s, t), x)
  BY <1>1, <1>3, <1>6 DEF Has
<1> QED
  BY <1>4, <1>5, <1>6 DEF Has

LEMMA HasOnly ==
  ASSUME NEW A, NEW S
  PROVE  \A s \in Seq(A) : \A x : Has(Only(s, S), x) <=> Has(s, x) /\ x \in S
<1> DEFINE Right(s) == \A x : Has(Only(s, S), x) <=> Has(s, x) /\ x \in S
           T == {n \in Nat : \A s \in Seq(A) : Len(s) = n => Right(s)}
<1>1. 0 \in T
  <2>1. ASSUME NEW s \in Seq(A), Len(s) = 0 PROVE Right(s)
    <3>1. s = <<>> /\ Only(<<>>, S) = <<>>
      BY <2>1, EmptySeq, OnlyEmpty
    <3> QED
      BY <3>1, HasEmpty
  <2> QED
    BY <2>1
<1>2. ASSUME NEW n \in Nat, n \in T PROVE n + 1 \in T
  <2>1. ASSUME NEW s \in Seq(A), Len(s) = n + 1 PROVE Right(s)
    <3>1. s # <<>>
      BY <2>1, EmptySeq
    <3>2. PICK u \in Seq(A), e \in A : s = Append(u, e)
      BY <3>1, SequenceEmptyOrAppend
    <3>3. Len(u) = n
      BY <2>1, <3>2, AppendProperties
    <3>4. Right(u)
      BY <1>2, <3>3
    <3>5. Only(s, S) = IF e \in S THEN Append(Only(u, S), e) ELSE Only(u, S)
      BY <3>2, OnlyAppend
    <3>6. Only(u, S) \in Seq(A)
      <4>1. Only(u, S) \in Seq(A \cap S)
        BY OnlyType
      <4> QED
        BY <4>1, SeqMonotonic
    <3>7. \A t \in Seq(A) : \A x : Has(Append(t, e), x) <=> Has(t, x) \/ x = e
      BY HasAppend
    <3> QED
      BY <3>2, <3>4, <3>5, <3>6, <3>7
  <2> HIDE DEF Right
  <2> QED
    BY <2>1
<1> HIDE DEF T
<1>3. Nat \subseteq T
  BY <1>1, <1>2, NatSet
<1> QED
  BY <1>3, LenProperties DEF T

(* A sequence has one first element and one rest.                           *)
LEMMA CatPeel ==
  ASSUME NEW A
  PROVE  \A h, k \in A, q, r \in Seq(A) : Cat(One(h), q) = Cat(One(k), r) => h = k /\ q = r
<1> SUFFICES ASSUME NEW h \in A, NEW k \in A, NEW q \in Seq(A), NEW r \in Seq(A),
                    Cat(One(h), q) = Cat(One(k), r)
             PROVE  h = k /\ q = r
  OBVIOUS
<1> DEFINE u == Cat(One(h), q)
<1>1. /\ Len(u) = 1 + Len(q) /\ u[1] = h /\ \A i \in 1 .. Len(q) : u[1 + i] = q[i]
      /\ Len(u) = 1 + Len(r) /\ u[1] = k /\ \A i \in 1 .. Len(r) : u[1 + i] = r[i]
  <2>1. ASSUME NEW e \in A, NEW s \in Seq(A)
        PROVE  /\ Len(Cat(One(e), s)) = 1 + Len(s) /\ Cat(One(e), s)[1] = e
               /\ \A i \in 1 .. Len(s) : Cat(One(e), s)[1 + i] = s[i]
    BY CatFirst
  <2> QED
    BY <2>1
<1>2. Len(q) \in Nat /\ Len(r) \in Nat
  OBVIOUS
<1> HIDE DEF u
<1>3. Len(q) = Len(r) /\ h = k
  BY <1>1, <1>2
<1>4. \A i \in 1 .. Len(q) : q[i] = r[i]
  BY <1>1, <1>3
<1>5. q = r
  BY ONLY <1>3, <1>4, q \in Seq(A), r \in Seq(A), SeqEqual
<1> QED
  BY <1>3, <1>5

(* The first of some elements, one that is set apart, and the others: it is *)
(* the one set apart, or the first of those before it.                      *)
LEMMA CatAround ==
  ASSUME NEW A, NEW B, B \subseteq A, NEW h \in A, NEW q \in Seq(A),
         NEW x \in Seq(B), NEW a \in A, NEW y \in Seq(A),
         Cat(One(h), q) = Cat(Cat(x, One(a)), y)
  PROVE  \/ x = <<>> /\ h = a /\ q = y
         \/ /\ h \in B
            /\ \E z \in Seq(B) : x = Cat(One(h), z) /\ q = Cat(Cat(z, One(a)), y)
<1>1. x \in Seq(A) /\ One(a) \in Seq(A) /\ One(h) \in Seq(A)
  <2>1. \A s \in Seq(B) : s \in Seq(A)
    BY SeqWider
  <2>2. \A s \in Seq(A), e \in A : One(e) \in Seq(A)
    BY ONLY CatOne
  <2> QED
    BY <2>1, <2>2
<1>2. /\ \A s, t \in Seq(A) : Cat(s, t) \in Seq(A)
      /\ \A s, t, u \in Seq(A) : Cat(Cat(s, t), u) = Cat(s, Cat(t, u))
      /\ \A s \in Seq(A) : Cat(<<>>, s) = s
      /\ \A e, f \in A, s, t \in Seq(A) : Cat(One(e), s) = Cat(One(f), t) => e = f /\ s = t
  <2>1. \A s, t \in Seq(A) : Cat(s, t) \in Seq(A)
    BY ONLY CatType
  <2>2. \A s, t, u \in Seq(A) : Cat(Cat(s, t), u) = Cat(s, Cat(t, u))
    BY ONLY CatAssoc
  <2>3. \A s \in Seq(A) : Cat(<<>>, s) = s
    BY ONLY CatEmpty
  <2>4. \A e, f \in A, s, t \in Seq(A) : Cat(One(e), s) = Cat(One(f), t) => e = f /\ s = t
    BY ONLY CatPeel
  <2> QED
    BY <2>1, <2>2, <2>3, <2>4
<1>3. CASE x = <<>>
  <2>1. Cat(One(h), q) = Cat(One(a), y)
    BY <1>1, <1>2, <1>3
  <2> QED
    BY <1>2, <1>3, <2>1
<1>4. CASE x # <<>>
  <2> DEFINE e == Head(x)
             z == Tail(x)
  <2>1. /\ x = Cat(One(e), z) /\ e \in B /\ z \in Seq(B)
    BY <1>4, CatHead
  <2>2. e \in A /\ z \in Seq(A) /\ One(e) \in Seq(A)
    <3>1. \A s \in Seq(B) : s \in Seq(A)
      BY SeqWider
    <3>2. \A s \in Seq(A), f \in A : One(f) \in Seq(A)
      BY ONLY CatOne
    <3> QED
      BY <1>1, <2>1, <3>1, <3>2
  <2> HIDE DEF e, z
  <2>3. Cat(z, One(a)) \in Seq(A) /\ Cat(Cat(z, One(a)), y) \in Seq(A)
    BY <1>1, <1>2, <2>2
  <2>4. Cat(x, One(a)) = Cat(One(e), Cat(z, One(a)))
    BY <1>1, <1>2, <2>1, <2>2
  <2>5. Cat(Cat(x, One(a)), y) = Cat(One(e), Cat(Cat(z, One(a)), y))
    BY <1>1, <1>2, <2>2, <2>3, <2>4
  <2>6. Cat(One(h), q) = Cat(One(e), Cat(Cat(z, One(a)), y))
    BY <2>5
  <2>7. h = e /\ q = Cat(Cat(z, One(a)), y)
    BY <1>2, <2>2, <2>3, <2>6
  <2> QED
    BY <2>1, <2>7
<1> QED
  BY <1>3, <1>4
=============================================================================
