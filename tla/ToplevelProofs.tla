--------------------------- MODULE ToplevelProofs ---------------------------
(***************************************************************************)
(* The window list and its mirrors, for any number of windows, handles,    *)
(* application ids, titles and clients.                                    *)
(***************************************************************************)
EXTENDS ToplevelMirror, FiniteSetTheorems, SubsequenceProofs

-----------------------------------------------------------------------------
(* Replay is a recursion over the events; it exists and is unique.          *)

Turn(l, E, F, i) == IF i = 0 THEN l ELSE Applied(F[i - 1], E[i])
Turns(l, E, F, n) == \A i \in 0 .. n : F[i] = Turn(l, E, F, i)

LEMMA TurnsUnique ==
  ASSUME NEW l, NEW D, NEW E, NEW F, NEW G, NEW n \in Nat,
         Turns(l, D, F, n), Turns(l, E, G, n), \A i \in 1 .. n : D[i] = E[i]
  PROVE  F[n] = G[n]
<1> DEFINE T == {i \in Nat : i <= n => F[i] = G[i]}
<1>1. 0 \in T
  BY DEF Turns, Turn
<1>2. ASSUME NEW i \in Nat, i \in T PROVE i + 1 \in T
  BY <1>2 DEF Turns, Turn
<1> HIDE DEF T
<1>3. Nat \subseteq T
  BY <1>1, <1>2, NatSet
<1> QED
  BY <1>3 DEF T

LEMMA TurnsExist ==
  ASSUME NEW l, NEW E
  PROVE  \E F : F = [i \in Nat |-> Turn(l, E, F, i)]
<1> DEFINE T == {n \in Nat : \E F : Turns(l, E, F, n)}
<1>1. 0 \in T
  <2> DEFINE F == [i \in {0} |-> l]
  <2>1. Turns(l, E, F, 0)
    BY DEF Turns, Turn
  <2> QED
    BY <2>1
<1>2. ASSUME NEW n \in Nat, n \in T PROVE n + 1 \in T
  <2>1. PICK F : Turns(l, E, F, n)
    BY <1>2
  <2> DEFINE G == [i \in 0 .. n + 1 |-> IF i <= n THEN F[i] ELSE Turn(l, E, F, n + 1)]
  <2>2. Turns(l, E, G, n + 1)
    BY <2>1 DEF Turns, Turn
  <2> QED
    BY <2>2
<1> HIDE DEF T
<1>3. Nat \subseteq T
  BY <1>1, <1>2, NatSet
<1>4. \A n \in Nat : \E F : Turns(l, E, F, n)
  BY <1>3 DEF T
<1> DEFINE Pick(n) == CHOOSE F : Turns(l, E, F, n)
           F == [n \in Nat |-> Pick(n)[n]]
<1>5. ASSUME NEW n \in Nat PROVE Turns(l, E, Pick(n), n)
  BY <1>4
<1> HIDE DEF Pick
<1>6. ASSUME NEW n \in Nat PROVE F[n] = Turn(l, E, F, n)
  <2>1. CASE n = 0
    BY <1>5, <2>1 DEF Turns, Turn
  <2>2. CASE n # 0
    <3>1. n - 1 \in Nat /\ Turns(l, E, Pick(n - 1), n - 1) /\ Turns(l, E, Pick(n), n)
      BY <1>5, <2>2
    <3>2. Turns(l, E, Pick(n), n - 1)
      BY <3>1 DEF Turns
    <3>3. Pick(n - 1)[n - 1] = Pick(n)[n - 1]
      BY <3>1, <3>2, TurnsUnique
    <3>4. Pick(n)[n] = Turn(l, E, Pick(n), n)
      BY <3>1 DEF Turns
    <3> QED
      BY <2>2, <3>1, <3>3, <3>4 DEF Turn
  <2> QED
    BY <2>1, <2>2
<1>7. F = [n \in Nat |-> Turn(l, E, F, n)]
  BY <1>6
<1> QED
  BY <1>7

LEMMA ReplayTurns ==
  ASSUME NEW l, NEW E
  PROVE  \E F : F = [i \in Nat |-> Turn(l, E, F, i)] /\ Replay(l, E) = F[Len(E)]
<1> DEFINE F == CHOOSE F : F = [i \in Nat |-> Turn(l, E, F, i)]
<1>1. F = [i \in Nat |-> Turn(l, E, F, i)]
  BY TurnsExist
<1>2. Replay(l, E) = F[Len(E)]
  BY DEF Replay, Turn
<1> QED
  BY <1>1, <1>2

LEMMA ReplayEmpty ==
  ASSUME NEW l
  PROVE  Replay(l, <<>>) = l
BY ReplayTurns DEF Turn

LEMMA ReplayAppend ==
  ASSUME NEW A, NEW E \in Seq(A), NEW e \in A, NEW l
  PROVE  Replay(l, Append(E, e)) = Applied(Replay(l, E), e)
<1> DEFINE D == Append(E, e)
           n == Len(E)
<1>1. n \in Nat /\ Len(D) = n + 1 /\ D[n + 1] = e /\ \A i \in 1 .. n : E[i] = D[i]
  OBVIOUS
<1>2. PICK F : F = [i \in Nat |-> Turn(l, E, F, i)] /\ Replay(l, E) = F[n]
  BY ReplayTurns
<1>3. PICK G : G = [i \in Nat |-> Turn(l, D, G, i)] /\ Replay(l, D) = G[Len(D)]
  BY ReplayTurns
<1> HIDE DEF D, n
<1>4. Turns(l, E, F, n)
  BY <1>1, <1>2 DEF Turns
<1>5. Turns(l, D, G, n)
  BY <1>1, <1>3 DEF Turns
<1>6. F[n] = G[n]
  BY <1>1, <1>4, <1>5, TurnsUnique
<1>7. G[n + 1] = Turn(l, D, G, n + 1)
  BY <1>1, <1>3
<1> QED
  BY <1>1, <1>2, <1>3, <1>6, <1>7 DEF Turn, D

(* What has the two properties of an induction on the last event holds for  *)
(* every sequence of events.                                                *)
LEMMA LastEvent ==
  ASSUME NEW A, NEW P, <<>> \in P,
         \A E \in Seq(A), e \in A : E \in P => Append(E, e) \in P
  PROVE  Seq(A) \subseteq P
<1> DEFINE T == {n \in Nat : \A E \in Seq(A) : Len(E) = n => E \in P}
<1>1. 0 \in T
  BY EmptySeq
<1>2. ASSUME NEW n \in Nat, n \in T PROVE n + 1 \in T
  <2>1. ASSUME NEW E \in Seq(A), Len(E) = n + 1 PROVE E \in P
    <3>1. E # <<>>
      BY <2>1, EmptySeq
    <3>2. PICK u \in Seq(A), e \in A : E = Append(u, e)
      BY <3>1, SequenceEmptyOrAppend
    <3>3. Len(u) = n
      BY <2>1, <3>2, AppendProperties
    <3> QED
      BY <1>2, <3>2, <3>3
  <2> QED
    BY <2>1
<1> HIDE DEF T
<1>3. Nat \subseteq T
  BY <1>1, <1>2, NatSet
<1> QED
  BY <1>3, LenProperties DEF T

LEMMA ReplayCat ==
  ASSUME NEW A
  PROVE  \A D, E \in Seq(A) : \A l : Replay(l, Cat(D, E)) = Replay(Replay(l, D), E)
<1> SUFFICES ASSUME NEW D \in Seq(A), NEW l
             PROVE  \A E \in Seq(A) : Replay(l, Cat(D, E)) = Replay(Replay(l, D), E)
  OBVIOUS
<1> DEFINE P == {E \in Seq(A) : Replay(l, Cat(D, E)) = Replay(Replay(l, D), E)}
<1>1. <<>> \in P
  <2>1. <<>> \in Seq(A) /\ Cat(D, <<>>) = D
    BY CatEmpty
  <2> QED
    BY <2>1, ReplayEmpty
<1>2. ASSUME NEW E \in Seq(A), NEW e \in A, E \in P PROVE Append(E, e) \in P
  <2>1. Cat(D, Append(E, e)) = Append(Cat(D, E), e)
    BY ConcatAppend DEF Cat
  <2>2. Cat(D, E) \in Seq(A) /\ Append(E, e) \in Seq(A)
    BY CatType, AppendProperties
  <2>3. /\ Replay(l, Append(Cat(D, E), e)) = Applied(Replay(l, Cat(D, E)), e)
        /\ Replay(Replay(l, D), Append(E, e)) = Applied(Replay(Replay(l, D), E), e)
    BY <2>2, ReplayAppend
  <2> QED
    BY <1>2, <2>1, <2>2, <2>3
<1> HIDE DEF P
<1>3. Seq(A) \subseteq P
  BY <1>1, <1>2, LastEvent
<1> QED
  BY <1>3 DEF P

-----------------------------------------------------------------------------
(* A mirror is known by what it holds under each id, and an event changes   *)
(* only what is held under its own.                                         *)
At(l, i) == {r \in l : r.id = i}

LEMMA EventKinds ==
  /\ \A e \in Events : /\ e.topic \in Topics /\ e.record \in Records
                       /\ e.record.id \in Nat
  /\ \A d, e \in Events : d.topic = e.topic /\ d.record = e.record => d = e
BY DEF Events, Records

LEMMA AppliedAt ==
  ASSUME NEW l, NEW e \in Events, NEW i
  PROVE  /\ l \subseteq Records => Applied(l, e) \subseteq Records
         /\ At(Applied(l, e), i) =
              IF e.record.id # i THEN At(l, i)
              ELSE IF e.topic = "closed" \/ (e.topic = "updated" /\ At(l, i) = {})
                   THEN {} ELSE {e.record}
<1>1. e.topic \in {"created", "updated", "closed"} /\ e.record \in Records
  BY EventKinds DEF Topics
<1> DEFINE same == {r \in l : r.id = e.record.id}
<1>2. Applied(l, e) = IF e.topic = "closed" THEN l \ same
                      ELSE IF e.topic = "created" \/ same # {}
                           THEN (l \ same) \cup {e.record} ELSE l
  BY DEF Applied
<1>3. l \subseteq Records => Applied(l, e) \subseteq Records
  BY <1>1, <1>2
<1>4. ASSUME e.record.id # i PROVE At(Applied(l, e), i) = At(l, i)
  <2>1. At(l \ same, i) = At(l, i)
    BY <1>4 DEF At
  <2>2. At((l \ same) \cup {e.record}, i) = At(l, i)
    BY <1>4 DEF At
  <2> HIDE DEF same
  <2> QED
    BY <1>2, <2>1, <2>2
<1>5. ASSUME e.record.id = i
      PROVE  At(Applied(l, e), i) =
               IF e.topic = "closed" \/ (e.topic = "updated" /\ At(l, i) = {})
               THEN {} ELSE {e.record}
  <2>1. same = At(l, i)
    BY <1>5 DEF At
  <2>2. At(l \ same, i) = {} /\ At((l \ same) \cup {e.record}, i) = {e.record}
    BY <1>5 DEF At
  <2> HIDE DEF same
  <2>4. ASSUME e.topic = "closed" PROVE At(Applied(l, e), i) = {}
    BY <1>2, <2>2, <2>4
  <2>5. ASSUME e.topic = "created" PROVE At(Applied(l, e), i) = {e.record}
    BY <1>2, <2>2, <2>5
  <2>6. ASSUME e.topic = "updated", At(l, i) = {} PROVE At(Applied(l, e), i) = {}
    BY <1>2, <2>1, <2>6
  <2>7. ASSUME e.topic = "updated", At(l, i) # {} PROVE At(Applied(l, e), i) = {e.record}
    BY <1>2, <2>1, <2>2, <2>7
  <2>8. CASE e.topic = "closed"
    BY <2>4, <2>8
  <2>9. CASE e.topic = "created"
    BY <2>5, <2>9
  <2>10. CASE e.topic = "updated"
    BY <2>6, <2>7, <2>10
  <2> QED
    BY <1>1, <2>8, <2>9, <2>10
<1> QED
  BY <1>3, <1>4, <1>5

LEMMA ReplayType ==
  ASSUME NEW l \in SUBSET Records
  PROVE  \A E \in Seq(Events) : Replay(l, E) \in SUBSET Records
<1> DEFINE P == {E \in Seq(Events) : Replay(l, E) \in SUBSET Records}
<1>1. <<>> \in P
  BY ReplayEmpty, EmptySeq
<1>2. ASSUME NEW E \in Seq(Events), NEW e \in Events, E \in P PROVE Append(E, e) \in P
  <2>1. Replay(l, Append(E, e)) = Applied(Replay(l, E), e) /\ Append(E, e) \in Seq(Events)
    BY ReplayAppend, AppendProperties
  <2>2. Applied(Replay(l, E), e) \subseteq Records
    BY <1>2, AppliedAt
  <2> QED
    BY <2>1, <2>2
<1> HIDE DEF P
<1>3. Seq(Events) \subseteq P
  BY <1>1, <1>2, LastEvent
<1> QED
  BY <1>3 DEF P

(* What is held under an id after a replay depends only on what was held    *)
(* under it before; whether anything is, on no more than whether anything   *)
(* was.                                                                     *)
LEMMA ReplayAt ==
  ASSUME NEW l, NEW m, NEW i
  PROVE  \A E \in Seq(Events) :
           /\ At(l, i) = At(m, i) => At(Replay(l, E), i) = At(Replay(m, E), i)
           /\ At(m, i) # {} /\ At(Replay(l, E), i) # {} => At(Replay(m, E), i) # {}
<1> DEFINE Alike(E) ==
             /\ At(l, i) = At(m, i) => At(Replay(l, E), i) = At(Replay(m, E), i)
             /\ At(m, i) # {} /\ At(Replay(l, E), i) # {} => At(Replay(m, E), i) # {}
           P == {E \in Seq(Events) : Alike(E)}
<1>1. <<>> \in P
  BY ReplayEmpty, EmptySeq
<1>2. ASSUME NEW E \in Seq(Events), NEW e \in Events, E \in P PROVE Append(E, e) \in P
  <2>1. /\ Replay(l, Append(E, e)) = Applied(Replay(l, E), e)
        /\ Replay(m, Append(E, e)) = Applied(Replay(m, E), e)
        /\ Append(E, e) \in Seq(Events)
    BY ReplayAppend, AppendProperties
  <2> DEFINE a == Replay(l, E)
             b == Replay(m, E)
  <2>2. /\ At(Applied(a, e), i) =
             IF e.record.id # i THEN At(a, i)
             ELSE IF e.topic = "closed" \/ (e.topic = "updated" /\ At(a, i) = {})
                  THEN {} ELSE {e.record}
        /\ At(Applied(b, e), i) =
             IF e.record.id # i THEN At(b, i)
             ELSE IF e.topic = "closed" \/ (e.topic = "updated" /\ At(b, i) = {})
                  THEN {} ELSE {e.record}
    BY AppliedAt
  <2>3. /\ At(l, i) = At(m, i) => At(a, i) = At(b, i)
        /\ At(m, i) # {} /\ At(a, i) # {} => At(b, i) # {}
    BY <1>2
  <2> HIDE DEF a, b
  <2>4. /\ At(l, i) = At(m, i) => At(Applied(a, e), i) = At(Applied(b, e), i)
        /\ At(m, i) # {} /\ At(Applied(a, e), i) # {} => At(Applied(b, e), i) # {}
    BY <2>2, <2>3
  <2> QED
    BY <2>1, <2>4 DEF a, b
<1> HIDE DEF P
<1>3. Seq(Events) \subseteq P
  BY <1>1, <1>2, LastEvent
<1> QED
  BY <1>3 DEF P

(* Events of other ids change nothing; if the events of an id are all the   *)
(* same, they do what one of them does.                                     *)
LEMMA ReplayOthers ==
  ASSUME NEW l, NEW i
  PROVE  \A E \in Seq(Events) :
           (\A e \in Events : Has(E, e) => e.record.id # i) => At(Replay(l, E), i) = At(l, i)
<1> DEFINE Others(E) == \A e \in Events : Has(E, e) => e.record.id # i
           P == {E \in Seq(Events) : Others(E) => At(Replay(l, E), i) = At(l, i)}
<1>1. <<>> \in P
  BY ReplayEmpty, EmptySeq
<1>2. ASSUME NEW E \in Seq(Events), NEW e \in Events, E \in P PROVE Append(E, e) \in P
  <2>1. Replay(l, Append(E, e)) = Applied(Replay(l, E), e) /\ Append(E, e) \in Seq(Events)
    BY ReplayAppend, AppendProperties
  <2>2. \A x : Has(Append(E, e), x) <=> Has(E, x) \/ x = e
    BY HasAppend
  <2>3. ASSUME Others(Append(E, e)) PROVE Others(E) /\ e.record.id # i
    BY <2>2, <2>3
  <2>4. e.record.id # i => At(Applied(Replay(l, E), e), i) = At(Replay(l, E), i)
    BY AppliedAt
  <2> QED
    BY <1>2, <2>1, <2>3, <2>4
<1> HIDE DEF P
<1>3. Seq(Events) \subseteq P
  BY <1>1, <1>2, LastEvent
<1> QED
  BY <1>3 DEF P

LEMMA ReplaySame ==
  ASSUME NEW l, NEW d \in Events, NEW i, d.record.id = i
  PROVE  \A E \in Seq(Events) :
           (\A e \in Events : Has(E, e) /\ e.record.id = i => e = d) =>
             At(Replay(l, E), i) = IF Has(E, d) THEN At(Applied(l, d), i) ELSE At(l, i)
<1> DEFINE Alike(E) == \A e \in Events : Has(E, e) /\ e.record.id = i => e = d
           Right(E) == At(Replay(l, E), i) = IF Has(E, d) THEN At(Applied(l, d), i)
                                                          ELSE At(l, i)
           P == {E \in Seq(Events) : Alike(E) => Right(E)}
<1>0. \A m : At(Applied(m, d), i) =
               IF d.topic = "closed" \/ (d.topic = "updated" /\ At(m, i) = {})
               THEN {} ELSE {d.record}
  BY AppliedAt
<1>1. <<>> \in P
  BY ReplayEmpty, EmptySeq, HasEmpty
<1>2. ASSUME NEW E \in Seq(Events), NEW e \in Events, E \in P PROVE Append(E, e) \in P
  <2>1. Replay(l, Append(E, e)) = Applied(Replay(l, E), e) /\ Append(E, e) \in Seq(Events)
    BY ReplayAppend, AppendProperties
  <2>2. \A x : Has(Append(E, e), x) <=> Has(E, x) \/ x = e
    BY HasAppend
  <2>3. ASSUME Alike(Append(E, e)) PROVE Right(Append(E, e))
    <3>1. Right(E) /\ (e.record.id = i => e = d)
      BY <1>2, <2>2, <2>3
    <3>2. CASE e = d
      <4> DEFINE a == Replay(l, E)
      <4>0. At(a, i) = IF Has(E, d) THEN At(Applied(l, d), i) ELSE At(l, i)
        BY <3>1
      <4> HIDE DEF a
      <4>2. At(Applied(a, d), i) = At(Applied(l, d), i)
        <5>1. CASE Has(E, d)
          <6>1. At(a, i) = At(Applied(l, d), i)
            BY <4>0, <5>1
          <6>2. /\ At(Applied(a, d), i) =
                     IF d.topic = "closed" \/ (d.topic = "updated" /\ At(a, i) = {})
                     THEN {} ELSE {d.record}
                /\ At(Applied(l, d), i) =
                     IF d.topic = "closed" \/ (d.topic = "updated" /\ At(l, i) = {})
                     THEN {} ELSE {d.record}
            BY <1>0
          <6>3. CASE d.topic = "closed" \/ (d.topic = "updated" /\ At(l, i) = {})
            BY <6>1, <6>2, <6>3
          <6>4. CASE ~(d.topic = "closed" \/ (d.topic = "updated" /\ At(l, i) = {}))
            <7>1. At(Applied(l, d), i) = {d.record} /\ {d.record} # {}
              BY <6>2, <6>4
            <7> QED
              BY <6>1, <6>2, <6>4, <7>1
          <6> QED
            BY <6>3, <6>4
        <5>2. CASE ~Has(E, d)
          <6>1. At(a, i) = At(l, i)
            BY <4>0, <5>2
          <6>2. /\ At(Applied(a, d), i) =
                     IF d.topic = "closed" \/ (d.topic = "updated" /\ At(a, i) = {})
                     THEN {} ELSE {d.record}
                /\ At(Applied(l, d), i) =
                     IF d.topic = "closed" \/ (d.topic = "updated" /\ At(l, i) = {})
                     THEN {} ELSE {d.record}
            BY <1>0
          <6> QED
            BY ONLY <6>1, <6>2
        <5> QED
          BY <5>1, <5>2
      <4>1. At(Applied(Replay(l, E), d), i) = At(Applied(l, d), i)
        BY <4>2 DEF a
      <4> QED
        BY <2>1, <2>2, <3>2, <4>1
    <3>3. CASE e # d
      <4>1. At(Applied(Replay(l, E), e), i) = At(Replay(l, E), i)
        BY <3>1, <3>3, AppliedAt
      <4> QED
        BY <2>1, <2>2, <3>1, <3>3, <4>1
    <3> QED
      BY <3>2, <3>3
  <2> QED
    BY <2>1, <2>3
<1> HIDE DEF P
<1>3. Seq(Events) \subseteq P
  BY <1>1, <1>2, LastEvent
<1> QED
  BY <1>3 DEF P

LEMMA SameMirrors ==
  ASSUME NEW l \in SUBSET Records, NEW m \in SUBSET Records, \A i \in Nat : At(l, i) = At(m, i)
  PROVE  l = m
<1>1. ASSUME NEW r \in Records PROVE r \in l <=> r \in m
  <2>1. At(l, r.id) = At(m, r.id)
    BY DEF Records
  <2> QED
    BY <2>1 DEF At
<1> QED
  BY <1>1

-----------------------------------------------------------------------------
(* The events of D tell how the records S became the records T: one kind of *)
(* event for each id that changed, and none about the others.               *)
Tells(D, S, T) ==
  /\ \A e \in Events :
       Has(D, e) =>
         \/ /\ e.topic = "closed" /\ At(T, e.record.id) = {}
            /\ At(S, e.record.id) = {e.record}
         \/ /\ e.topic = "created" /\ At(T, e.record.id) = {e.record}
            /\ At(S, e.record.id) = {}
         \/ /\ e.topic = "updated" /\ At(T, e.record.id) = {e.record}
            /\ At(S, e.record.id) # {}
  /\ \A i \in Nat : At(S, i) # At(T, i) => \E e \in Events : Has(D, e) /\ e.record.id = i

(* Told of the change, any mirror that has what did not change, and         *)
(* something where there is still something, has what S became.             *)
LEMMA TellsAt ==
  ASSUME NEW D \in Seq(Events), NEW S, NEW T, Tells(D, S, T), NEW i \in Nat, NEW X,
         At(S, i) = At(T, i) => At(X, i) = At(T, i),
         At(S, i) # {} /\ At(T, i) # {} => At(X, i) # {}
  PROVE  At(Replay(X, D), i) = At(T, i)
<1>1. CASE \A e \in Events : Has(D, e) => e.record.id # i
  <2>1. At(S, i) = At(T, i)
    BY <1>1 DEF Tells
  <2>2. At(Replay(X, D), i) = At(X, i)
    BY <1>1, ReplayOthers
  <2> QED
    BY <2>1, <2>2
<1>2. ASSUME NEW d \in Events, Has(D, d), d.record.id = i
      PROVE  At(Replay(X, D), i) = At(T, i)
  <2>1. \/ d.topic = "closed" /\ At(T, i) = {} /\ At(S, i) = {d.record}
        \/ d.topic = "created" /\ At(T, i) = {d.record} /\ At(S, i) = {}
        \/ d.topic = "updated" /\ At(T, i) = {d.record} /\ At(S, i) # {}
    BY <1>2 DEF Tells
  <2>2. ASSUME NEW e \in Events, Has(D, e), e.record.id = i PROVE e = d
    <3>1. \/ e.topic = "closed" /\ At(T, i) = {} /\ At(S, i) = {e.record}
          \/ e.topic = "created" /\ At(T, i) = {e.record} /\ At(S, i) = {}
          \/ e.topic = "updated" /\ At(T, i) = {e.record} /\ At(S, i) # {}
      BY <2>2 DEF Tells
    <3>2. e.topic = d.topic /\ e.record = d.record
      BY <2>1, <3>1
    <3> QED
      BY <3>2, EventKinds
  <2>3. At(Replay(X, D), i) = At(Applied(X, d), i)
    BY <1>2, <2>2, ReplaySame
  <2>4. At(Applied(X, d), i) =
          IF d.topic = "closed" \/ (d.topic = "updated" /\ At(X, i) = {})
          THEN {} ELSE {d.record}
    BY <1>2, AppliedAt
  <2> QED
    BY <2>1, <2>3, <2>4
<1> QED
  BY <1>1, <1>2

LEMMA TellsReplayed ==
  ASSUME NEW D \in Seq(Events), NEW S \in SUBSET Records, NEW T \in SUBSET Records,
         Tells(D, S, T)
  PROVE  Replay(S, D) = T
<1>1. ASSUME NEW i \in Nat PROVE At(Replay(S, D), i) = At(T, i)
  BY TellsAt
<1>2. Replay(S, D) \in SUBSET Records
  BY ReplayType
<1> QED
  BY <1>1, <1>2, SameMirrors

(* Old news does no harm: events that S already reflects may be replayed    *)
(* on what S became, as long as the news of the change follows them.        *)
LEMMA OldNewsHarmless ==
  ASSUME NEW D \in Seq(Events), NEW S \in SUBSET Records, NEW T \in SUBSET Records,
         Tells(D, S, T), NEW E \in Seq(Events), Replay(S, E) = S
  PROVE  Replay(T, Cat(E, D)) = T
<1> DEFINE X == Replay(T, E)
<1>1. ASSUME NEW i \in Nat PROVE At(Replay(X, D), i) = At(T, i)
  <2>1. At(S, i) = At(T, i) => At(X, i) = At(T, i)
    BY ReplayAt
  <2>2. At(S, i) # {} /\ At(T, i) # {} => At(X, i) # {}
    BY ReplayAt
  <2> HIDE DEF X
  <2> QED
    BY <2>1, <2>2, TellsAt
<1>2. Replay(X, D) \in SUBSET Records
  BY ReplayType
<1>3. Replay(T, Cat(E, D)) = Replay(X, D)
  BY ReplayCat
<1> HIDE DEF X
<1> QED
  BY <1>1, <1>2, <1>3, SameMirrors
-----------------------------------------------------------------------------
(* The snapshot and the tracker name the same windows in the same order:    *)
(* only applications and titles may lag.                                    *)
Names(ws) == /\ Len(snapshot) = Len(ws)
             /\ \A i \in 1 .. Len(ws) : /\ snapshot[i].key = ws[i].key
                                        /\ snapshot[i].serial = ws[i].serial

OneKeyEach(ws) ==
  \A i, j \in 1 .. Len(ws) : ws[i].key = ws[j].key => i = j

(* Every id given so far is behind nextId_, and given once.                 *)
Numbered ==
  /\ \A i \in 1 .. Len(snapshot) : snapshot[i].id < nextId
  /\ \A i, j \in 1 .. Len(snapshot) : snapshot[i].id = snapshot[j].id => i = j

MirrorInv == /\ toplevels \in Seq(Windows) /\ serials \in Nat /\ nextId \in Nat
             /\ snapshot \in Seq(Records)
             /\ Names(toplevels) /\ OneKeyEach(toplevels) /\ Numbered

NoReuse ==
  \A r \in ToSet(snapshot') :
    r.id >= nextId \/ \E s \in ToSet(snapshot) :
                        s.id = r.id /\ s.serial = r.serial /\ s.app = r.app

(* How many of the first n windows do not keep an id.                       *)
Newcomers(ws, n) == Cardinality({j \in 1 .. n : ~Keeps(ws[j])})

LEMMA NewCount ==
  ASSUME NEW ws, NEW n \in Nat
  PROVE  Newcomers(ws, n) \in Nat
<1>1. IsFiniteSet(1 .. n)
  BY FS_Interval
<1> QED
  BY <1>1, FS_Subset, FS_CardinalityType DEF Newcomers

LEMMA NewCountGrows ==
  ASSUME NEW ws, NEW n \in Nat, NEW i \in 1 .. n, ~Keeps(ws[i])
  PROVE  Newcomers(ws, i - 1) + 1 <= Newcomers(ws, n)
<1> DEFINE A == {j \in 1 .. i - 1 : ~Keeps(ws[j])}
           B == {j \in 1 .. n : ~Keeps(ws[j])}
<1>1. IsFiniteSet(B)
  <2>1. IsFiniteSet(1 .. n)
    BY FS_Interval
  <2> QED
    BY <2>1, FS_Subset
<1>2. A \cup {i} \subseteq B /\ i \notin A
  <2>1. /\ 1 .. i - 1 \subseteq 1 .. n /\ i \in 1 .. n /\ i \notin 1 .. i - 1
        /\ i \in {j \in 1 .. n : ~Keeps(ws[j])}
    OBVIOUS
  <2> QED
    BY <2>1
<1>3. IsFiniteSet(A \cup {i}) /\ IsFiniteSet(A) /\ Cardinality(A \cup {i}) <= Cardinality(B)
  BY <1>1, <1>2, FS_Subset
<1>4. Cardinality(A \cup {i}) = Cardinality(A) + 1
  BY <1>2, <1>3, FS_AddElement
<1> QED
  BY <1>3, <1>4 DEF Newcomers

(* The snapshot has one record for each key, and one for each id.           *)
LEMMA OneRecord ==
  ASSUME MirrorInv, NEW a \in ToSet(snapshot), NEW b \in ToSet(snapshot)
  PROVE  /\ a \in Records /\ a.id < nextId
         /\ a.key = b.key => a = b
         /\ a.id = b.id => a = b
<1>1. PICK i \in 1 .. Len(snapshot) : a = snapshot[i]
  BY DEF ToSet, MirrorInv
<1>2. PICK j \in 1 .. Len(snapshot) : b = snapshot[j]
  BY DEF ToSet, MirrorInv
<1>3. a \in Records
  BY <1>1 DEF MirrorInv
<1>4. a.id < nextId /\ (a.id = b.id => i = j)
  BY <1>1, <1>2 DEF MirrorInv, Numbered
<1>5. /\ i \in 1 .. Len(toplevels) /\ j \in 1 .. Len(toplevels)
      /\ a.key = toplevels[i].key /\ b.key = toplevels[j].key
  BY <1>1, <1>2 DEF MirrorInv, Names
<1>6. a.key = b.key => i = j
  BY <1>5 DEF MirrorInv, OneKeyEach
<1> QED
  BY <1>1, <1>2, <1>3, <1>4, <1>6

LEMMA PreviousRecord ==
  ASSUME MirrorInv, NEW w, Reused(w)
  PROVE  /\ PreviousOf(w) \in ToSet(snapshot) /\ PreviousOf(w).key = w.key
         /\ PreviousOf(w) \in Records /\ PreviousOf(w).id < nextId
         /\ \A s \in ToSet(snapshot) : s.key = w.key => s = PreviousOf(w)
<1>1. PreviousOf(w) \in Previous(w)
  BY DEF Reused, PreviousOf
<1>2. PreviousOf(w) \in ToSet(snapshot) /\ PreviousOf(w).key = w.key
  BY <1>1 DEF Previous
<1> QED
  BY <1>2, OneRecord

(* A window that keeps its id keeps window and application.                 *)
LEMMA KeptRecord ==
  ASSUME MirrorInv, NEW w, Keeps(w)
  PROVE  Reused(w) /\ PreviousOf(w).app = w.app
<1>1. PICK s \in Previous(w) : s.app = w.app
  BY DEF Keeps
<1>2. Reused(w) /\ s \in ToSet(snapshot) /\ s.key = w.key
  BY <1>1 DEF Reused, Previous
<1>3. s = PreviousOf(w)
  BY <1>2, PreviousRecord
<1> QED
  BY <1>1, <1>2, <1>3

(* The record that window i of ws becomes.                                  *)
Becomes(ws, i) ==
  /\ snapshot'[i].key = ws[i].key /\ snapshot'[i].serial = ws[i].serial
  /\ snapshot'[i].app = ws[i].app /\ snapshot'[i].title = ws[i].title
  /\ Keeps(ws[i]) => snapshot'[i].id = PreviousOf(ws[i]).id
  /\ ~Keeps(ws[i]) => snapshot'[i].id = nextId + Newcomers(ws, i - 1)

LEMMA Assignment ==
  ASSUME MirrorInv, NEW ws \in Seq(Windows), SetSnapshot(ws)
  PROVE  /\ nextId' = nextId + Newcomers(ws, Len(ws)) /\ nextId' \in Nat
         /\ snapshot' \in Seq(Records) /\ Len(snapshot') = Len(ws)
         /\ \A i \in 1 .. Len(ws) : Becomes(ws, i)
         /\ Len(ws) \in Nat /\ nextId \in Nat
<1>1. /\ snapshot' = Assigned(ws) /\ DOMAIN ws = 1 .. Len(ws) /\ Len(ws) \in Nat
      /\ nextId' = nextId + Newcomers(ws, Len(ws)) /\ nextId \in Nat
  <2>1. DOMAIN ws = 1 .. Len(ws) /\ Len(ws) \in Nat
    OBVIOUS
  <2>2. /\ snapshot' = Assigned(ws)
        /\ nextId' = nextId + Cardinality({i \in DOMAIN ws : ~Keeps(ws[i])})
    BY DEF SetSnapshot
  <2>3. nextId \in Nat
    BY DEF MirrorInv
  <2> QED
    BY <2>1, <2>2, <2>3 DEF Newcomers
<1>2. nextId' \in Nat
  BY <1>1, NewCount
<1> DEFINE Id(i) == IF Keeps(ws[i]) THEN PreviousOf(ws[i]).id ELSE nextId + Newcomers(ws, i - 1)
<1>3. snapshot' = [i \in 1 .. Len(ws) |->
                    [key |-> ws[i].key, serial |-> ws[i].serial,
                     app |-> ws[i].app, title |-> ws[i].title, id |-> Id(i)]]
  BY <1>1 DEF Assigned, Newcomers
<1>4. ASSUME NEW i \in 1 .. Len(ws) PROVE Id(i) \in Nat /\ ws[i] \in Windows
  <2>1. ws[i] \in Windows /\ i - 1 \in Nat
    BY <1>1
  <2>2. CASE Keeps(ws[i])
    <3>1. PreviousOf(ws[i]) \in Records
      BY <2>2, KeptRecord, PreviousRecord
    <3> QED
      BY <2>1, <2>2, <3>1 DEF Records
  <2>3. CASE ~Keeps(ws[i])
    BY <1>1, <2>1, <2>3, NewCount
  <2> QED
    BY <2>2, <2>3
<1>5. ASSUME NEW i \in 1 .. Len(ws) PROVE Becomes(ws, i)
  BY <1>3 DEF Becomes
<1> HIDE DEF Id
<1>6. \A i \in 1 .. Len(ws) : snapshot'[i] \in Records
  BY <1>3, <1>4 DEF Records, Windows
<1>7. snapshot' \in Seq(Records) /\ Len(snapshot') = Len(ws)
  BY <1>1, <1>3, <1>6
<1> QED
  BY <1>1, <1>2, <1>5, <1>7

LEMMA AnyNumber ==
  ASSUME MirrorInv, NEW ws \in Seq(Windows), SetSnapshot(ws), NEW i \in 1 .. Len(ws)
  PROVE  /\ snapshot'[i].id \in Nat
         /\ snapshot'[i].id < nextId'
         /\ Keeps(ws[i]) <=> snapshot'[i].id < nextId
<1>1. /\ Becomes(ws, i) /\ nextId \in Nat /\ nextId' = nextId + Newcomers(ws, Len(ws))
      /\ Len(ws) \in Nat /\ i - 1 \in Nat
  BY Assignment
<1>2. Newcomers(ws, Len(ws)) \in Nat /\ Newcomers(ws, i - 1) \in Nat
  BY <1>1, NewCount
<1>3. CASE Keeps(ws[i])
  <2>1. PreviousOf(ws[i]).id < nextId /\ PreviousOf(ws[i]) \in Records
    BY <1>3, KeptRecord, PreviousRecord
  <2>2. PreviousOf(ws[i]).id \in Nat
    BY <2>1 DEF Records
  <2>3. snapshot'[i].id = PreviousOf(ws[i]).id
    BY <1>1, <1>3 DEF Becomes
  <2> QED
    BY <1>1, <1>2, <1>3, <2>1, <2>2, <2>3
<1>4. CASE ~Keeps(ws[i])
  <2>1. Newcomers(ws, i - 1) + 1 <= Newcomers(ws, Len(ws))
    BY <1>1, <1>4, NewCountGrows
  <2>2. snapshot'[i].id = nextId + Newcomers(ws, i - 1)
    BY <1>1, <1>4 DEF Becomes
  <2> QED
    BY <1>1, <1>2, <1>4, <2>1, <2>2
<1> QED
  BY <1>3, <1>4

LEMMA NumberedStep ==
  ASSUME MirrorInv, NEW ws \in Seq(Windows), SetSnapshot(ws), OneKeyEach(ws)
  PROVE  Numbered'
<1>1. Len(snapshot') = Len(ws) /\ \A i \in 1 .. Len(ws) : Becomes(ws, i)
  BY Assignment
<1>2. \A i \in 1 .. Len(snapshot') : snapshot'[i].id < nextId'
  BY <1>1, AnyNumber
<1>3. ASSUME NEW i \in 1 .. Len(ws), NEW j \in 1 .. Len(ws), snapshot'[i].id = snapshot'[j].id
      PROVE  Keeps(ws[i]) <=> Keeps(ws[j])
  BY <1>3, AnyNumber
<1>4. ASSUME NEW i \in 1 .. Len(ws), NEW j \in 1 .. Len(ws), i < j,
             ~Keeps(ws[i]), ~Keeps(ws[j])
      PROVE  snapshot'[i].id # snapshot'[j].id
  <2>1. i - 1 \in Nat /\ j - 1 \in Nat /\ i \in 1 .. j - 1 /\ nextId \in Nat
    BY <1>4 DEF MirrorInv
  <2>2. Newcomers(ws, i - 1) + 1 <= Newcomers(ws, j - 1)
    BY <1>4, <2>1, NewCountGrows
  <2>3. Newcomers(ws, i - 1) \in Nat /\ Newcomers(ws, j - 1) \in Nat
    BY <2>1, NewCount
  <2>4. /\ snapshot'[i].id = nextId + Newcomers(ws, i - 1)
        /\ snapshot'[j].id = nextId + Newcomers(ws, j - 1)
    BY <1>1, <1>4 DEF Becomes
  <2> QED
    BY <2>1, <2>2, <2>3, <2>4
<1>5. ASSUME NEW i \in 1 .. Len(ws), NEW j \in 1 .. Len(ws), Keeps(ws[i]), Keeps(ws[j]),
             snapshot'[i].id = snapshot'[j].id
      PROVE  i = j
  <2>1. /\ snapshot'[i].id = PreviousOf(ws[i]).id
        /\ snapshot'[j].id = PreviousOf(ws[j]).id
    BY <1>1, <1>5 DEF Becomes
  <2>2. /\ PreviousOf(ws[i]) \in ToSet(snapshot) /\ PreviousOf(ws[i]).key = ws[i].key
        /\ PreviousOf(ws[j]) \in ToSet(snapshot) /\ PreviousOf(ws[j]).key = ws[j].key
    BY <1>5, KeptRecord, PreviousRecord
  <2>3. PreviousOf(ws[i]) = PreviousOf(ws[j])
    BY <1>5, <2>1, <2>2, OneRecord
  <2>4. ws[i].key = ws[j].key
    BY <2>2, <2>3
  <2> QED
    BY <2>4 DEF OneKeyEach
<1>6. ASSUME NEW i \in 1 .. Len(ws), NEW j \in 1 .. Len(ws), snapshot'[i].id = snapshot'[j].id
      PROVE  i = j
  <2>1. CASE Keeps(ws[i])
    BY <1>3, <1>5, <1>6, <2>1
  <2>2. CASE ~Keeps(ws[i])
    <3>1. ~Keeps(ws[j])
      BY <1>3, <1>6, <2>2
    <3>2. ~(i < j) /\ ~(j < i)
      BY <1>4, <1>6, <2>2, <3>1
    <3> QED
      BY <3>2
  <2> QED
    BY <2>1, <2>2
<1> QED
  BY <1>1, <1>2, <1>6 DEF Numbered

LEMMA NoReuseStep ==
  ASSUME MirrorInv, NEW ws \in Seq(Windows), SetSnapshot(ws),
         \A i \in 1 .. Len(ws) : \A s \in ToSet(snapshot) :
           s.key = ws[i].key => s.serial = ws[i].serial
  PROVE  NoReuse
<1>1. ASSUME NEW r \in ToSet(snapshot')
      PROVE  r.id >= nextId \/ \E s \in ToSet(snapshot) :
               s.id = r.id /\ s.serial = r.serial /\ s.app = r.app
  <2>1. snapshot' \in Seq(Records) /\ Len(snapshot') = Len(ws) /\ nextId \in Nat
    BY Assignment
  <2>2. PICK i \in 1 .. Len(ws) : r = snapshot'[i]
    BY <2>1 DEF ToSet
  <2>3. Becomes(ws, i) /\ r.id \in Nat /\ (Keeps(ws[i]) <=> r.id < nextId)
    BY <2>2, Assignment, AnyNumber
  <2>4. CASE Keeps(ws[i])
    <3>1. /\ PreviousOf(ws[i]) \in ToSet(snapshot) /\ PreviousOf(ws[i]).key = ws[i].key
          /\ PreviousOf(ws[i]).app = ws[i].app
      BY <2>4, KeptRecord, PreviousRecord
    <3>2. PreviousOf(ws[i]).serial = ws[i].serial
      BY <3>1
    <3> QED
      BY <2>2, <2>3, <2>4, <3>1, <3>2 DEF Becomes
  <2>5. CASE ~Keeps(ws[i])
    BY <2>1, <2>3, <2>5
  <2> QED
    BY <2>4, <2>5
<1> QED
  BY <1>1 DEF NoReuse

-----------------------------------------------------------------------------
(* What set_snapshot publishes tells the change it makes.                   *)
LEMMA ImageSeq ==
  ASSUME NEW B, NEW n \in Nat, NEW t, DOMAIN t = 1 .. n, t = [i \in 1 .. n |-> t[i]],
         \A i \in 1 .. n : t[i] \in B
  PROVE  t \in Seq(B) /\ Len(t) = n
OBVIOUS

LEMMA EachRebirth ==
  ASSUME NEW A, NEW s \in Seq(A), \A x \in A : Rebirth(x) \in Events
  PROVE  /\ Each(s, Rebirth) \in Seq(Events)
         /\ \A e : Has(Each(s, Rebirth), e) <=> \E x : Has(s, x) /\ e = Rebirth(x)
<1> DEFINE t == Each(s, Rebirth)
<1>1. DOMAIN s = 1 .. Len(s) /\ Len(s) \in Nat /\ \A i \in 1 .. Len(s) : s[i] \in A
  OBVIOUS
<1>2. t = [i \in 1 .. Len(s) |-> Rebirth(s[i])]
  BY <1>1 DEF Each
<1>3. DOMAIN t = 1 .. Len(s) /\ \A i \in 1 .. Len(s) : t[i] = Rebirth(s[i])
  BY <1>2
<1> HIDE DEF t
<1>4. t \in Seq(Events) /\ Len(t) = Len(s)
  BY <1>1, <1>2, <1>3, ImageSeq
<1> QED
  BY <1>3, <1>4 DEF Has, t

LEMMA EachClosed ==
  ASSUME NEW A, NEW s \in Seq(A), \A x \in A : Closed(x) \in Events
  PROVE  /\ Each(s, Closed) \in Seq(Events)
         /\ \A e : Has(Each(s, Closed), e) <=> \E x : Has(s, x) /\ e = Closed(x)
<1> DEFINE t == Each(s, Closed)
<1>1. DOMAIN s = 1 .. Len(s) /\ Len(s) \in Nat /\ \A i \in 1 .. Len(s) : s[i] \in A
  OBVIOUS
<1>2. t = [i \in 1 .. Len(s) |-> Closed(s[i])]
  BY <1>1 DEF Each
<1>3. DOMAIN t = 1 .. Len(s) /\ \A i \in 1 .. Len(s) : t[i] = Closed(s[i])
  BY <1>2
<1> HIDE DEF t
<1>4. t \in Seq(Events) /\ Len(t) = Len(s)
  BY <1>1, <1>2, <1>3, ImageSeq
<1> QED
  BY <1>3, <1>4 DEF Has, t

LEMMA EachNews ==
  ASSUME NEW A, NEW s \in Seq(A), \A x \in A : News(x) \in Events
  PROVE  /\ Each(s, News) \in Seq(Events)
         /\ \A e : Has(Each(s, News), e) <=> \E x : Has(s, x) /\ e = News(x)
<1> DEFINE t == Each(s, News)
<1>1. DOMAIN s = 1 .. Len(s) /\ Len(s) \in Nat /\ \A i \in 1 .. Len(s) : s[i] \in A
  OBVIOUS
<1>2. t = [i \in 1 .. Len(s) |-> News(s[i])]
  BY <1>1 DEF Each
<1>3. DOMAIN t = 1 .. Len(s) /\ \A i \in 1 .. Len(s) : t[i] = News(s[i])
  BY <1>2
<1> HIDE DEF t
<1>4. t \in Seq(Events) /\ Len(t) = Len(s)
  BY <1>1, <1>2, <1>3, ImageSeq
<1> QED
  BY <1>3, <1>4 DEF Has, t

(* The events are the closings of the windows whose key has another id now, *)
(* those of the keys that are gone, and the news of what is new or changed. *)
LEMMA DeltaEvents ==
  ASSUME MirrorInv, NEW ws \in Seq(Windows), SetSnapshot(ws)
  PROVE  /\ Deltas(ws) \in Seq(Events)
         /\ \A e : Has(Deltas(ws), e) <=>
              \/ \E w : Has(ws, w) /\ w \in Reborn /\ e = Rebirth(w)
              \/ \E s : Has(snapshot, s) /\ s \in Missing(ws) /\ e = Closed(s)
              \/ \E r : Has(snapshot', r) /\ r \in Changed /\ e = News(r)
<1> DEFINE X == Only(ws, Reborn)
           Y == Only(snapshot, Missing(ws))
           Z == Only(Assigned(ws), Changed)
<1>1. snapshot \in Seq(Records) /\ snapshot' = Assigned(ws) /\ Assigned(ws) \in Seq(Records)
  BY Assignment DEF SetSnapshot, MirrorInv
<1>2. /\ X \in Seq(Windows \cap Reborn) /\ Y \in Seq(Records \cap Missing(ws))
      /\ Z \in Seq(Records \cap Changed)
  BY <1>1, OnlyType
<1>3. /\ \A w : Has(X, w) <=> Has(ws, w) /\ w \in Reborn
      /\ \A s : Has(Y, s) <=> Has(snapshot, s) /\ s \in Missing(ws)
      /\ \A r : Has(Z, r) <=> Has(snapshot', r) /\ r \in Changed
  BY <1>1, HasOnly
<1>4. \A r \in Records : Closed(r) \in Events /\ News(r) \in Events
  BY DEF Closed, News, Event, Events, Topics
<1>5. \A w \in Windows \cap Reborn : Rebirth(w) \in Events
  <2>1. ASSUME NEW w \in Reborn PROVE PreviousOf(w) \in Records
    BY PreviousRecord DEF Reborn
  <2> QED
    BY <1>4, <2>1 DEF Rebirth
<1> HIDE DEF X, Y, Z
<1>6. /\ Each(X, Rebirth) \in Seq(Events)
      /\ \A e : Has(Each(X, Rebirth), e) <=> \E w : Has(X, w) /\ e = Rebirth(w)
  BY <1>2, <1>5, EachRebirth
<1>7. /\ Each(Y, Closed) \in Seq(Events)
      /\ \A e : Has(Each(Y, Closed), e) <=> \E s : Has(Y, s) /\ e = Closed(s)
  <2>1. \A s \in Records \cap Missing(ws) : Closed(s) \in Events
    BY <1>4
  <2> QED
    BY <1>2, <2>1, EachClosed
<1>8. /\ Each(Z, News) \in Seq(Events)
      /\ \A e : Has(Each(Z, News), e) <=> \E r : Has(Z, r) /\ e = News(r)
  <2>1. \A r \in Records \cap Changed : News(r) \in Events
    BY <1>4
  <2> QED
    BY <1>2, <2>1, EachNews
<1> DEFINE x == Each(X, Rebirth)
           y == Each(Y, Closed)
           z == Each(Z, News)
<1>9. Deltas(ws) = Cat(Cat(x, y), z)
  BY DEF Deltas, Cat, X, Y, Z
<1>10. x \in Seq(Events) /\ y \in Seq(Events) /\ z \in Seq(Events)
  BY <1>6, <1>7, <1>8
<1>11. /\ \A e : Has(x, e) <=> \E w : Has(ws, w) /\ w \in Reborn /\ e = Rebirth(w)
       /\ \A e : Has(y, e) <=> \E s : Has(snapshot, s) /\ s \in Missing(ws) /\ e = Closed(s)
       /\ \A e : Has(z, e) <=> \E r : Has(snapshot', r) /\ r \in Changed /\ e = News(r)
  BY <1>3, <1>6, <1>7, <1>8
<1> HIDE DEF x, y, z
<1>12. Cat(x, y) \in Seq(Events) /\ Deltas(ws) \in Seq(Events)
  <2>1. \A s, t \in Seq(Events) : Cat(s, t) \in Seq(Events)
    BY ONLY CatType
  <2> QED
    BY ONLY <1>9, <1>10, <2>1
<1>13. \A e : Has(Deltas(ws), e) <=> Has(x, e) \/ Has(y, e) \/ Has(z, e)
  <2>1. \A s, t \in Seq(Events) : \A e : Has(Cat(s, t), e) <=> Has(s, e) \/ Has(t, e)
    BY ONLY HasCat
  <2> QED
    BY ONLY <1>9, <1>10, <1>12, <2>1
<1> QED
  BY <1>11, <1>12, <1>13

LEMMA HasMember ==
  ASSUME NEW A, NEW s \in Seq(A), NEW x
  PROVE  Has(s, x) <=> x \in ToSet(s)
BY DEF Has, ToSet

(* Under an id there is the one record that has it.                         *)
LEMMA AtRecord ==
  ASSUME NEW l, NEW r \in l, \A s \in l : s.id = r.id => s = r
  PROVE  At(l, r.id) = {r}
BY DEF At

LEMMA TellsStep ==
  ASSUME MirrorInv, NEW ws \in Seq(Windows), SetSnapshot(ws), OneKeyEach(ws),
         \A i \in 1 .. Len(ws) : \A s \in ToSet(snapshot) :
           s.key = ws[i].key => s.serial = ws[i].serial
  PROVE  Tells(Deltas(ws), ToSet(snapshot), ToSet(snapshot'))
<1> DEFINE D == Deltas(ws)
           S == ToSet(snapshot)
           T == ToSet(snapshot')
<1>1. /\ \A e : Has(D, e) <=>
              \/ \E w : Has(ws, w) /\ w \in Reborn /\ e = Rebirth(w)
              \/ \E s : Has(snapshot, s) /\ s \in Missing(ws) /\ e = Closed(s)
              \/ \E r : Has(snapshot', r) /\ r \in Changed /\ e = News(r)
  BY DeltaEvents
<1>2. /\ snapshot' \in Seq(Records) /\ Len(snapshot') = Len(ws) /\ nextId \in Nat
      /\ Numbered' /\ snapshot \in Seq(Records) /\ DOMAIN ws = 1 .. Len(ws)
  BY Assignment, NumberedStep DEF MirrorInv
<1>3. /\ \A w : Has(ws, w) <=> \E i \in 1 .. Len(ws) : w = ws[i]
      /\ \A s : Has(snapshot, s) <=> s \in S
      /\ \A r : Has(snapshot', r) <=> r \in T
      /\ \A r : r \in T <=> \E i \in 1 .. Len(ws) : r = snapshot'[i]
  <2>1. \A r : r \in T <=> \E i \in 1 .. Len(ws) : r = snapshot'[i]
    BY <1>2 DEF ToSet
  <2>2. \A w : Has(ws, w) <=> \E i \in 1 .. Len(ws) : w = ws[i]
    BY DEF Has
  <2> QED
    BY <1>2, <2>1, <2>2, HasMember
<1>4. ASSUME NEW i \in 1 .. Len(ws)
      PROVE  /\ Becomes(ws, i) /\ snapshot'[i] \in T /\ ws[i] \in Windows
             /\ snapshot'[i].id \in Nat /\ (Keeps(ws[i]) <=> snapshot'[i].id < nextId)
             /\ Keeps(ws[i]) => /\ PreviousOf(ws[i]) \in S
                                /\ PreviousOf(ws[i]).id = snapshot'[i].id
  <2>1. Becomes(ws, i) /\ snapshot'[i] \in T /\ ws[i] \in Windows
    BY <1>2, <1>3, Assignment
  <2>2. snapshot'[i].id \in Nat /\ (Keeps(ws[i]) <=> snapshot'[i].id < nextId)
    BY AnyNumber
  <2>3. Keeps(ws[i]) => PreviousOf(ws[i]) \in S
    BY KeptRecord, PreviousRecord
  <2> QED
    BY <2>1, <2>2, <2>3 DEF Becomes
<1>5. /\ \A r \in T : At(T, r.id) = {r}
      /\ \A s \in S : At(S, s.id) = {s} /\ s \in Records /\ s.id < nextId
  <2>1. ASSUME NEW r \in T PROVE At(T, r.id) = {r}
    <3>1. \A s \in T : s.id = r.id => s = r
      BY <1>2, <1>3 DEF Numbered
    <3> QED
      BY <3>1, AtRecord
  <2>2. ASSUME NEW s \in S PROVE At(S, s.id) = {s} /\ s \in Records /\ s.id < nextId
    <3>1. \A r \in S : r.id = s.id => r = s
      BY OneRecord
    <3> QED
      BY <3>1, AtRecord, OneRecord
  <2> QED
    BY <2>1, <2>2
<1> HIDE DEF D, S, T
(* A record whose window has no id to give to another is told to be closed. *)
<1>6. ASSUME NEW s \in S, \A i \in 1 .. Len(ws) : ws[i].key = s.key => ~Keeps(ws[i])
      PROVE  At(T, s.id) = {}
  <2>1. ASSUME NEW i \in 1 .. Len(ws), snapshot'[i].id = s.id PROVE FALSE
    <3>1. Keeps(ws[i])
      BY <1>4, <1>5, <2>1
    <3>2. PreviousOf(ws[i]) = s
      BY <1>4, <2>1, <3>1, OneRecord DEF S
    <3>3. PreviousOf(ws[i]).key = ws[i].key
      BY <3>1, KeptRecord, PreviousRecord
    <3> QED
      BY <1>6, <3>1, <3>2, <3>3
  <2> QED
    BY <1>3, <2>1 DEF At
<1>7. ASSUME NEW i \in 1 .. Len(ws), ws[i] \in Reborn
      PROVE  /\ PreviousOf(ws[i]) \in S /\ PreviousOf(ws[i]).key = ws[i].key
             /\ At(T, PreviousOf(ws[i]).id) = {}
  <2>1. PreviousOf(ws[i]) \in S /\ PreviousOf(ws[i]).key = ws[i].key
    BY <1>7, PreviousRecord DEF Reborn, S
  <2>2. \A j \in 1 .. Len(ws) : ws[j].key = ws[i].key => ws[j] = ws[i]
    BY DEF OneKeyEach
  <2>3. ~Keeps(ws[i])
    BY <1>7 DEF Reborn
  <2> QED
    BY <1>6, <2>1, <2>2, <2>3
<1>8. ASSUME NEW s \in S, s \in Missing(ws) PROVE At(T, s.id) = {}
  <2>1. \A i \in 1 .. Len(ws) : ws[i].key # s.key
    BY <1>2, <1>8 DEF Missing
  <2> QED
    BY <1>6, <2>1
<1>9. ASSUME NEW i \in 1 .. Len(ws)
      PROVE  /\ IsNew(snapshot'[i]) => At(S, snapshot'[i].id) = {}
             /\ ~IsNew(snapshot'[i]) => At(S, snapshot'[i].id) # {}
  <2>1. ASSUME IsNew(snapshot'[i]) PROVE At(S, snapshot'[i].id) = {}
    <3>1. snapshot'[i].id \in Nat /\ snapshot'[i].id >= nextId
      BY <1>4, <2>1 DEF IsNew
    <3>2. ASSUME NEW s \in S, s.id = snapshot'[i].id PROVE FALSE
      BY <1>2, <1>5, <3>1, <3>2
    <3> QED
      BY <3>2 DEF At
  <2>2. ASSUME ~IsNew(snapshot'[i]) PROVE At(S, snapshot'[i].id) # {}
    <3>1. Keeps(ws[i])
      BY <1>2, <1>4, <2>2 DEF IsNew
    <3>2. PreviousOf(ws[i]) \in At(S, snapshot'[i].id)
      BY <1>4, <3>1 DEF At
    <3> QED
      BY <3>2
  <2> QED
    BY <2>1, <2>2
<1>10. ASSUME NEW e \in Events, Has(D, e)
       PROVE  \/ /\ e.topic = "closed" /\ At(T, e.record.id) = {}
                 /\ At(S, e.record.id) = {e.record}
              \/ /\ e.topic = "created" /\ At(T, e.record.id) = {e.record}
                 /\ At(S, e.record.id) = {}
              \/ /\ e.topic = "updated" /\ At(T, e.record.id) = {e.record}
                 /\ At(S, e.record.id) # {}
  <2>1. ASSUME NEW i \in 1 .. Len(ws), ws[i] \in Reborn, e = Rebirth(ws[i])
        PROVE  /\ e.topic = "closed" /\ At(T, e.record.id) = {}
               /\ At(S, e.record.id) = {e.record}
    <3>1. e.topic = "closed" /\ e.record = PreviousOf(ws[i])
      BY <2>1 DEF Rebirth, Closed, Event
    <3> QED
      BY <1>5, <1>7, <2>1, <3>1
  <2>2. ASSUME NEW s \in S, s \in Missing(ws), e = Closed(s)
        PROVE  /\ e.topic = "closed" /\ At(T, e.record.id) = {}
               /\ At(S, e.record.id) = {e.record}
    <3>1. e.topic = "closed" /\ e.record = s
      BY <2>2 DEF Closed, Event
    <3> QED
      BY <1>5, <1>8, <2>2, <3>1
  <2>3. ASSUME NEW i \in 1 .. Len(ws), e = News(snapshot'[i])
        PROVE  /\ At(T, e.record.id) = {e.record}
               /\ \/ e.topic = "created" /\ At(S, e.record.id) = {}
                  \/ e.topic = "updated" /\ At(S, e.record.id) # {}
    <3>1. /\ e.record = snapshot'[i]
          /\ e.topic = IF IsNew(snapshot'[i]) THEN "created" ELSE "updated"
      BY <2>3 DEF News, Event
    <3> QED
      BY <1>4, <1>5, <1>9, <3>1
  <2>4. \/ \E i \in 1 .. Len(ws) : ws[i] \in Reborn /\ e = Rebirth(ws[i])
        \/ \E s \in S : s \in Missing(ws) /\ e = Closed(s)
        \/ \E i \in 1 .. Len(ws) : e = News(snapshot'[i])
    BY <1>1, <1>3, <1>10
  <2> QED
    BY <2>1, <2>2, <2>3, <2>4
<1>11. ASSUME NEW r \in T, At(S, r.id) # {r}
       PROVE  \E e \in Events : Has(D, e) /\ e.record.id = r.id
  <2>1. PICK i \in 1 .. Len(ws) : r = snapshot'[i]
    BY <1>3
  <2>2. r \in Records
    BY <1>2, <2>1
  <2>3. IsNew(r) \/ PreviousOf(r).title # r.title
    <3>1. ASSUME ~IsNew(r) PROVE PreviousOf(r).title # r.title
      <4> DEFINE p == PreviousOf(ws[i])
      <4>1. Keeps(ws[i])
        BY <1>2, <1>4, <2>1, <3>1 DEF IsNew
      <4>2. /\ p \in S /\ p.key = ws[i].key /\ p.app = ws[i].app /\ p \in Records
            /\ p.serial = ws[i].serial /\ p.id = r.id
        <5>1. p \in ToSet(snapshot) /\ p.key = ws[i].key /\ p.app = ws[i].app /\ p \in Records
          BY <4>1, KeptRecord, PreviousRecord
        <5>2. p.serial = ws[i].serial
          BY <5>1
        <5> QED
          BY <1>4, <2>1, <4>1, <5>1, <5>2 DEF S
      <4>3. r.key = ws[i].key /\ r.app = ws[i].app /\ r.serial = ws[i].serial
        BY <1>4, <2>1 DEF Becomes
      <4>4. PreviousOf(r) = p
        BY <4>3 DEF PreviousOf, Previous
      <4> HIDE DEF p
      <4>5. At(S, r.id) = {p}
        BY <1>5, <4>2
      <4>6. p # r
        BY <1>11, <4>5
      <4>7. p.title # r.title
        BY <2>2, <4>2, <4>3, <4>6 DEF Records
      <4> QED
        BY <4>4, <4>7
    <3> QED
      BY <3>1
  <2>4. r \in Changed /\ Has(snapshot', r)
    BY <1>3, <2>2, <2>3 DEF Changed
  <2>5. Has(D, News(r))
    BY <1>1, <2>4
  <2>6. News(r) \in Events /\ News(r).record = r
    BY <2>2 DEF News, Event, Events, Topics
  <2> QED
    BY <2>5, <2>6
<1>12. ASSUME NEW s \in S, At(T, s.id) = {}
       PROVE  \E e \in Events : Has(D, e) /\ e.record.id = s.id
  <2>1. s \in Records /\ Closed(s) \in Events /\ Closed(s).record = s
    BY <1>5 DEF Closed, Event, Events, Topics
  <2>2. Has(D, Closed(s))
    <3>1. CASE \A i \in 1 .. Len(ws) : ws[i].key # s.key
      <4>1. s \in Missing(ws) /\ Has(snapshot, s)
        BY <1>2, <1>3, <2>1, <3>1 DEF Missing
      <4> QED
        BY <1>1, <4>1
    <3>2. ASSUME NEW i \in 1 .. Len(ws), ws[i].key = s.key PROVE Has(D, Closed(s))
      <4>1. s \in Previous(ws[i]) /\ Reused(ws[i])
        BY <3>2 DEF Previous, Reused, S
      <4>2. PreviousOf(ws[i]) = s
        BY <3>2, <4>1, PreviousRecord DEF S
      <4>3. ~Keeps(ws[i])
        <5>1. ASSUME Keeps(ws[i]) PROVE FALSE
          <6>1. snapshot'[i] \in T /\ snapshot'[i].id = s.id
            BY <1>4, <4>2, <5>1
          <6> QED
            BY <1>12, <6>1 DEF At
        <5> QED
          BY <5>1
      <4>4. ws[i] \in Reborn /\ Has(ws, ws[i])
        BY <1>3, <1>4, <4>1, <4>3 DEF Reborn
      <4>5. Rebirth(ws[i]) = Closed(s)
        BY <4>2 DEF Rebirth
      <4> QED
        BY <1>1, <4>4, <4>5
    <3> QED
      BY <3>1, <3>2
  <2> QED
    BY <2>1, <2>2
<1>13. ASSUME NEW i \in Nat, At(S, i) # At(T, i)
       PROVE  \E e \in Events : Has(D, e) /\ e.record.id = i
  <2>1. CASE At(T, i) # {}
    <3>1. PICK r \in T : r.id = i
      BY <2>1 DEF At
    <3>2. At(S, r.id) # {r}
      BY <1>5, <1>13, <3>1
    <3> QED
      BY <1>11, <3>1, <3>2
  <2>2. CASE At(T, i) = {}
    <3>1. PICK s \in S : s.id = i
      BY <1>13, <2>2 DEF At
    <3> QED
      BY <1>12, <2>2, <3>1
  <2> QED
    BY <2>1, <2>2
<1>14. Tells(D, S, T)
  BY <1>10, <1>13 DEF Tells
<1> QED
  BY <1>14 DEF D, S, T

Published ==
  \E ws \in Seq(Windows) :
    /\ SetSnapshot(ws) /\ snapshot' \in Seq(Records)
    /\ Deltas(ws) \in Seq(Events)
    /\ Tells(Deltas(ws), ToSet(snapshot), ToSet(snapshot'))

(* A window that the tracker already had is in the snapshot under its key   *)
(* and its serial; one that it did not have is not.                         *)
LEMMA SerialKnown ==
  ASSUME MirrorInv, NEW w,
         \/ \E m \in 1 .. Len(toplevels) : w.key = toplevels[m].key /\ w.serial = toplevels[m].serial
         \/ \A m \in 1 .. Len(toplevels) : w.key # toplevels[m].key,
         NEW s \in ToSet(snapshot), s.key = w.key
  PROVE  s.serial = w.serial
<1>1. PICK k \in 1 .. Len(toplevels) : s = snapshot[k]
  BY DEF ToSet, MirrorInv, Names
<1>2. s.key = toplevels[k].key /\ s.serial = toplevels[k].serial
  BY <1>1 DEF MirrorInv, Names
<1> QED
  BY <1>2 DEF MirrorInv, OneKeyEach

LEMMA PublishStep ==
  ASSUME MirrorInv, SetSnapshot(toplevels'), toplevels' \in Seq(Windows), serials' \in Nat,
         OneKeyEach(toplevels'),
         \A i \in 1 .. Len(toplevels') :
           \/ \E m \in 1 .. Len(toplevels) : /\ toplevels'[i].key = toplevels[m].key
                                             /\ toplevels'[i].serial = toplevels[m].serial
           \/ \A m \in 1 .. Len(toplevels) : toplevels'[i].key # toplevels[m].key
  PROVE  MirrorInv' /\ NoReuse /\ Published
<1>1. \A i \in 1 .. Len(toplevels') : \A s \in ToSet(snapshot) :
        s.key = toplevels'[i].key => s.serial = toplevels'[i].serial
  BY SerialKnown
<1>2. /\ nextId' \in Nat /\ snapshot' \in Seq(Records) /\ Len(snapshot') = Len(toplevels')
      /\ \A i \in 1 .. Len(toplevels') : /\ snapshot'[i].key = toplevels'[i].key
                                         /\ snapshot'[i].serial = toplevels'[i].serial
  BY Assignment DEF Becomes
<1>3. Numbered' /\ NoReuse
  BY <1>1, NumberedStep, NoReuseStep
<1>4. Published
  BY <1>1, <1>2, TellsStep, DeltaEvents DEF Published
<1>5. MirrorInv'
  BY <1>2, <1>3 DEF MirrorInv, Names, OneKeyEach
<1> QED
  BY <1>3, <1>4, <1>5

LEMMA OpenStep ==
  ASSUME MirrorInv, NEW h \in Handles, OnToplevel(h)
  PROVE  MirrorInv' /\ NoReuse /\ Published
<1> DEFINE w == [key |-> h, serial |-> serials, app |-> NoName, title |-> NoName]
<1>1. /\ toplevels' = Append(toplevels, w) /\ serials' = serials + 1
      /\ \A i \in 1 .. Len(toplevels) : toplevels[i].key # h
      /\ SetSnapshot(toplevels')
  BY DEF OnToplevel, MirrorInv
<1>2. w \in Windows /\ w.key = h /\ toplevels \in Seq(Windows)
  BY NamesAssumption DEF MirrorInv, Windows
<1> HIDE DEF w
<1>3. /\ toplevels' \in Seq(Windows) /\ Len(toplevels') = Len(toplevels) + 1
      /\ Len(toplevels) \in Nat /\ toplevels'[Len(toplevels) + 1] = w
      /\ \A i \in 1 .. Len(toplevels) : toplevels'[i] = toplevels[i]
  BY <1>1, <1>2
<1>4. \A i \in 1 .. Len(toplevels') : i \in 1 .. Len(toplevels) \/ i = Len(toplevels) + 1
  BY <1>3
<1>5. OneKeyEach(toplevels')
  <2>1. ASSUME NEW i \in 1 .. Len(toplevels'), NEW j \in 1 .. Len(toplevels'),
               toplevels'[i].key = toplevels'[j].key
        PROVE  i = j
    <3>1. CASE i \in 1 .. Len(toplevels) /\ j \in 1 .. Len(toplevels)
      BY <1>3, <2>1, <3>1 DEF MirrorInv, OneKeyEach
    <3>2. CASE i = Len(toplevels) + 1 \/ j = Len(toplevels) + 1
      BY <1>1, <1>2, <1>3, <1>4, <2>1, <3>2
    <3> QED
      BY <1>4, <3>1, <3>2
  <2> QED
    BY <2>1 DEF OneKeyEach
<1>6. ASSUME NEW i \in 1 .. Len(toplevels')
      PROVE  \/ \E m \in 1 .. Len(toplevels) : /\ toplevels'[i].key = toplevels[m].key
                                               /\ toplevels'[i].serial = toplevels[m].serial
             \/ \A m \in 1 .. Len(toplevels) : toplevels'[i].key # toplevels[m].key
  BY <1>1, <1>2, <1>3, <1>4
<1>7. serials' \in Nat
  BY <1>1 DEF MirrorInv
<1> QED
  BY <1>1, <1>3, <1>5, <1>6, <1>7, PublishStep

LEMMA BehindJoin ==
  ASSUME NEW S, NEW front \in Seq(S), NEW behind \in Seq(S),
         NEW j \in Len(front) + 1 .. Len(front) + Len(behind)
  PROVE  (front \o behind)[j] = behind[j - Len(front)]
<1>1. Len(front) \in Nat /\ Len(behind) \in Nat
  OBVIOUS
<1> QED
  BY <1>1

LEMMA CloseStep ==
  ASSUME MirrorInv, NEW i \in DOMAIN toplevels, OnClosed(i)
  PROVE  MirrorInv' /\ NoReuse /\ Published
<1>1. /\ toplevels' = SubSeq(toplevels, 1, i - 1) \o SubSeq(toplevels, i + 1, Len(toplevels))
      /\ SetSnapshot(toplevels') /\ serials' = serials
      /\ toplevels \in Seq(Windows) /\ i \in 1 .. Len(toplevels)
  BY DEF OnClosed, Notified, RemoveAt, MirrorInv
<1> DEFINE n == Len(toplevels)
           Old(j) == IF j < i THEN j ELSE j + 1
           Before == SubSeq(toplevels, 1, i - 1)
           Behind == SubSeq(toplevels, i + 1, n)
<1>2. n \in Nat /\ i \in Nat /\ 1 <= i /\ i <= n /\ toplevels' = Before \o Behind
  BY <1>1
<1>3. /\ Before \in Seq(Windows) /\ Len(Before) = i - 1
      /\ \A j \in 1 .. i - 1 : Before[j] = toplevels[j]
  BY <1>1, <1>2
<1>4. /\ Behind \in Seq(Windows) /\ Len(Behind) = n - i
      /\ \A j \in 1 .. n - i : Behind[j] = toplevels[i + j]
  BY <1>1, <1>2
<1> HIDE DEF n, Before, Behind
<1>5. /\ toplevels' \in Seq(Windows) /\ Len(toplevels') = n - 1
      /\ \A j \in 1 .. n - 1 : Old(j) \in 1 .. n /\ toplevels'[j] = toplevels[Old(j)]
  <2>1. toplevels' \in Seq(Windows)
    BY <1>2, <1>3, <1>4
  <2>2. Len(toplevels') = n - 1
    <3>1. Len(Before \o Behind) = Len(Before) + Len(Behind)
      BY <1>3, <1>4, ConcatProperties
    <3> QED
      BY <1>2, <1>3, <1>4, <3>1
  <2>3. ASSUME NEW j \in 1 .. n - 1, j < i PROVE toplevels'[j] = toplevels[j]
    <3>1. j \in 1 .. Len(Before)
      BY <1>2, <1>3, <2>3
    <3> QED
      BY <1>2, <1>3, <1>4, <3>1
  <2>4. ASSUME NEW j \in 1 .. n - 1, ~(j < i) PROVE toplevels'[j] = toplevels[j + 1]
    <3>1. j - (i - 1) \in 1 .. n - i /\ i + (j - (i - 1)) = j + 1
      BY <1>2, <2>4
    <3>2. j \in Len(Before) + 1 .. Len(Before) + Len(Behind) /\ j - Len(Before) = j - (i - 1)
      BY <1>2, <1>3, <1>4, <2>4
    <3>3. toplevels'[j] = Behind[j - Len(Before)]
      <4>1. /\ Before \in Seq(Windows) /\ Behind \in Seq(Windows)
            /\ toplevels' = Before \o Behind
        BY <1>2, <1>3, <1>4
      <4> QED
        BY ONLY <4>1, <3>2, BehindJoin
    <3> QED
      BY <1>4, <3>1, <3>2, <3>3
  <2> QED
    BY <1>2, <2>1, <2>2, <2>3, <2>4
<1>6. OneKeyEach(toplevels')
  <2>1. ASSUME NEW a \in 1 .. n - 1, NEW b \in 1 .. n - 1, toplevels'[a].key = toplevels'[b].key
        PROVE  a = b
    <3>1. Old(a) = Old(b)
      <4>1. \A p, q \in 1 .. n : toplevels[p].key = toplevels[q].key => p = q
        BY DEF MirrorInv, OneKeyEach, n
      <4>2. /\ Old(a) \in 1 .. n /\ toplevels'[a] = toplevels[Old(a)]
            /\ Old(b) \in 1 .. n /\ toplevels'[b] = toplevels[Old(b)]
        BY <1>5
      <4>3. toplevels[Old(a)].key = toplevels[Old(b)].key
        BY <2>1, <4>2
      <4> HIDE DEF Old
      <4> QED
        BY ONLY <4>1, <4>2, <4>3
    <3> QED
      BY <1>2, <3>1
  <2> QED
    BY <1>5, <2>1 DEF OneKeyEach
<1> HIDE DEF Old, n
<1> QED
  <2>1. serials' \in Nat
    BY <1>1 DEF MirrorInv
  <2>2. ASSUME NEW j \in 1 .. Len(toplevels')
        PROVE  \E m \in 1 .. Len(toplevels) : /\ toplevels'[j].key = toplevels[m].key
                                              /\ toplevels'[j].serial = toplevels[m].serial
    BY <1>5 DEF n
  <2> QED
    BY <1>1, <1>5, <1>6, <2>1, <2>2, PublishStep

LEMMA ChangeStep ==
  ASSUME MirrorInv, NEW i \in DOMAIN toplevels,
         (\E a \in Apps : OnAppId(i, a)) \/ (\E t \in Titles : OnTitle(i, t))
  PROVE  MirrorInv' /\ NoReuse
<1>1. /\ UNCHANGED <<snapshot, nextId, serials>> /\ toplevels \in Seq(Windows)
      /\ i \in 1 .. Len(toplevels)
  BY DEF OnAppId, OnTitle, Change, service, MirrorInv
<1>2. \/ \E a \in Apps : toplevels' = [toplevels EXCEPT ![i].app = a]
      \/ \E t \in Titles : toplevels' = [toplevels EXCEPT ![i].title = t]
  BY DEF OnAppId, OnTitle, Change
<1>3. /\ toplevels' \in Seq(Windows) /\ Len(toplevels') = Len(toplevels)
      /\ \A j \in 1 .. Len(toplevels) : /\ toplevels'[j].key = toplevels[j].key
                                        /\ toplevels'[j].serial = toplevels[j].serial
  <2>1. toplevels[i] \in Windows
    BY <1>1
  <2>2. ASSUME NEW a \in Apps, toplevels' = [toplevels EXCEPT ![i].app = a]
        PROVE  /\ toplevels'[i] \in Windows
               /\ toplevels'[i].key = toplevels[i].key /\ toplevels'[i].serial = toplevels[i].serial
    <3>1. toplevels'[i] = [toplevels[i] EXCEPT !.app = a]
      BY <1>1, <2>2
    <3> QED
      BY <2>1, <3>1 DEF Windows
  <2>3. ASSUME NEW t \in Titles, toplevels' = [toplevels EXCEPT ![i].title = t]
        PROVE  /\ toplevels'[i] \in Windows
               /\ toplevels'[i].key = toplevels[i].key /\ toplevels'[i].serial = toplevels[i].serial
    <3>1. toplevels'[i] = [toplevels[i] EXCEPT !.title = t]
      BY <1>1, <2>3
    <3> QED
      BY <2>1, <3>1 DEF Windows
  <2>4. /\ DOMAIN toplevels' = 1 .. Len(toplevels)
        /\ toplevels' = [j \in 1 .. Len(toplevels) |-> toplevels'[j]]
        /\ \A j \in 1 .. Len(toplevels) : j # i => toplevels'[j] = toplevels[j]
    BY <1>1, <1>2
  <2>5. \A j \in 1 .. Len(toplevels) : /\ toplevels'[j] \in Windows
                                       /\ toplevels'[j].key = toplevels[j].key
                                       /\ toplevels'[j].serial = toplevels[j].serial
    BY <1>1, <1>2, <2>2, <2>3, <2>4
  <2>6. Len(toplevels) \in Nat
    BY <1>1
  <2>7. toplevels' \in Seq(Windows) /\ Len(toplevels') = Len(toplevels)
    BY <2>4, <2>5, <2>6
  <2> QED
    BY <2>5, <2>7
<1>4. NoReuse
  BY <1>1 DEF NoReuse
<1>5. Numbered'
  BY <1>1 DEF MirrorInv, Numbered
<1>6. Names(toplevels)' /\ OneKeyEach(toplevels)'
  BY <1>1, <1>3 DEF MirrorInv, Names, OneKeyEach
<1> QED
  BY <1>1, <1>3, <1>4, <1>5, <1>6 DEF MirrorInv

LEMMA MirrorStep ==
  ASSUME MirrorInv, [Next]_vars
  PROVE  MirrorInv' /\ (NoReuse \/ UNCHANGED vars)
<1>1. CASE \E h \in Handles : OnToplevel(h)
  BY <1>1, OpenStep
<1>2. ASSUME NEW i \in DOMAIN toplevels, OnClosed(i) PROVE MirrorInv' /\ NoReuse
  BY <1>2, CloseStep
<1>3. ASSUME NEW i \in DOMAIN toplevels,
             (\E a \in Apps : OnAppId(i, a)) \/ (\E t \in Titles : OnTitle(i, t))
      PROVE  MirrorInv' /\ NoReuse
  BY <1>3, ChangeStep
<1>4. CASE OnDone
  <2>1. UNCHANGED <<toplevels, serials>> /\ SetSnapshot(toplevels')
    BY <1>4 DEF OnDone, tracker
  <2> QED
    BY <2>1, PublishStep DEF MirrorInv
<1>5. ASSUME UNCHANGED <<toplevels, serials, snapshot, nextId>> PROVE MirrorInv' /\ NoReuse
  BY <1>5 DEF MirrorInv, Names, OneKeyEach, Numbered, NoReuse
<1>6. CASE UNCHANGED vars \/ \E c \in Clients : Serve(c) \/ Client(c)
  <2>1. UNCHANGED <<toplevels, serials, snapshot, nextId>>
    BY <1>6 DEF vars, Serve, Client, Start, Read, Pump, PumpEvent, PumpAck, PumpListing,
                OnFdReady, StartFails, ConnectionLost, Ends, tracker, service
  <2> QED
    BY <1>5, <2>1
<1> QED
  BY <1>1, <1>2, <1>3, <1>4, <1>6 DEF Next, Compositor

LEMMA NewsStep ==
  ASSUME MirrorInv, Compositor
  PROVE  Published \/ UNCHANGED <<snapshot, subscribed, asked, down, client>>
<1>1. CASE \E h \in Handles : OnToplevel(h)
  BY <1>1, OpenStep
<1>2. CASE \E i \in DOMAIN toplevels : OnClosed(i)
  BY <1>2, CloseStep
<1>3. ASSUME NEW i \in DOMAIN toplevels,
             (\E a \in Apps : OnAppId(i, a)) \/ (\E t \in Titles : OnTitle(i, t))
      PROVE  UNCHANGED <<snapshot, subscribed, asked, down, client>>
  BY <1>3 DEF OnAppId, OnTitle, Change, service
<1>4. CASE OnDone
  <2>1. UNCHANGED <<toplevels, serials>> /\ SetSnapshot(toplevels')
    BY <1>4 DEF OnDone, tracker
  <2> QED
    BY <2>1, PublishStep DEF MirrorInv
<1> QED
  BY <1>1, <1>2, <1>3, <1>4 DEF Compositor

(* However handles are reused and applications renamed, an id that is no    *)
(* longer published is never published again, nor for another window.       *)
THEOREM IdsAlwaysNew == Spec => IdsNeverReused
<1>1. Init => MirrorInv
  BY DEF Init, MirrorInv, Names, OneKeyEach, Numbered
<1>2. MirrorInv /\ [Next]_vars => MirrorInv'
  BY MirrorStep
<1>3. MirrorInv /\ [Next]_vars =>
        [\A r \in ToSet(snapshot') :
           r.id >= nextId \/ \E s \in ToSet(snapshot) :
                               s.id = r.id /\ s.serial = r.serial /\ s.app = r.app]_vars
  BY MirrorStep DEF NoReuse
<1> QED
  BY <1>1, <1>2, <1>3, PTL DEF Spec, IdsNeverReused

-----------------------------------------------------------------------------
(* What a client and the way to it hold, at each point of start() and after *)
(* it.  Events that the snapshot reflects already may be on their way while *)
(* the client subscribes; they must do no harm when they are replayed.      *)
Shown   == ToSet(snapshot)
Line(c) == Cat(rbuf[c], down[c])
Told(s) == IF s = "created" THEN {} ELSE IF s = "updated" THEN {"created"}
           ELSE {"created", "updated"}
ListingOf(l) == [topic |-> "listing", records |-> l]

Silent(c) == /\ stage[c] \in {"off", "lost"} /\ ~asked[c]
             /\ subscribed[c] = {} /\ pending[c] = <<>>
             /\ rbuf[c] = <<>> /\ down[c] = <<>>
Asking(c) == /\ stage[c] \in Topics /\ asked[c]
             /\ subscribed[c] = Told(stage[c]) /\ pending[c] = <<>>
             /\ Line(c) \in Seq(Events)
Granted(c) == /\ stage[c] \in Topics /\ ~asked[c]
              /\ subscribed[c] = Told(stage[c]) \cup {stage[c]} /\ pending[c] = <<>>
              /\ \E x, y \in Seq(Events) :
                   /\ Line(c) = Cat(Cat(x, One(Ack)), y)
                   /\ stage[c] = "closed" => Replay(Shown, y) = Shown
Syncing(c) == /\ stage[c] = "list" /\ asked[c]
              /\ subscribed[c] = Topics /\ Line(c) \in Seq(Events)
              /\ Replay(Shown, Cat(pending[c], Line(c))) = Shown
Listed(c) == /\ stage[c] = "list" /\ ~asked[c] /\ subscribed[c] = Topics
             /\ \E x, y \in Seq(Events), l \in SUBSET Records :
                  /\ Line(c) = Cat(Cat(x, One(ListingOf(l))), y)
                  /\ Replay(l, Cat(pending[c], Cat(x, y))) = Shown
Following(c) == /\ stage[c] = "live" /\ ~asked[c]
                /\ subscribed[c] = Topics /\ pending[c] = <<>>
                /\ Line(c) \in Seq(Events)
                /\ Replay(list[c], Line(c)) = Shown

Channel(c) == \/ Silent(c) \/ Asking(c) \/ Granted(c)
              \/ Syncing(c) \/ Listed(c) \/ Following(c)

ClientTypes ==
  /\ subscribed \in [Clients -> SUBSET Topics] /\ asked \in [Clients -> BOOLEAN]
  /\ down \in [Clients -> Seq(Frames)] /\ rbuf \in [Clients -> Seq(Frames)]
  /\ pending \in [Clients -> Seq(Events)] /\ list \in [Clients -> SUBSET Records]
  /\ stage \in [Clients -> Calls \cup {"off", "live", "lost"}]

Channels == MirrorInv /\ ClientTypes /\ \A c \in Clients : Channel(c)

LEMMA FrameKinds ==
  /\ Events \subseteq Frames /\ Ack \in Frames /\ Ack \notin Events
  /\ Ack.topic = "ack" /\ ~IsEvent(Ack)
  /\ \A l \in SUBSET Records : /\ ListingOf(l) \in Frames /\ ListingOf(l) \notin Events
                               /\ ListingOf(l).topic = "listing" /\ ListingOf(l) # Ack
                               /\ ListingOf(l).records = l
  /\ \A e \in Events : e # Ack /\ e.topic # "listing" /\ IsEvent(e) /\ e.topic \in Topics
  /\ \A f \in Frames : IsEvent(f) => f \in Events
<1>1. Ack.topic = "ack" /\ ~IsEvent(Ack)
  BY DEF Ack, IsEvent, Topics
<1>2. \A e \in Events : e.topic # "listing" /\ IsEvent(e) /\ e.topic \in Topics
  BY DEF Events, IsEvent, Topics
<1>3. \A l : ListingOf(l).topic = "listing" /\ ListingOf(l).records = l
  BY DEF ListingOf
<1>4. \A l \in SUBSET Records : ListingOf(l) \in Frames
  BY DEF Frames, ListingOf
<1>5. ASSUME NEW f \in Frames, IsEvent(f) PROVE f \in Events
  <2>1. ASSUME f \in [topic : {"listing"}, records : SUBSET Records] PROVE FALSE
    <3>1. f.topic = "listing"
      BY <2>1
    <3> QED
      BY <1>5, <3>1 DEF IsEvent, Topics
  <2> QED
    BY <1>1, <1>5, <2>1 DEF Frames
<1>6. Events \subseteq Frames /\ Ack \in Frames
  BY DEF Frames
<1>7. Ack \notin Events /\ \A e \in Events : e # Ack
  BY <1>1, <1>2
<1>8. \A l \in SUBSET Records : ListingOf(l) \notin Events /\ ListingOf(l) # Ack
  BY <1>1, <1>2, <1>3
<1> QED
  BY <1>1, <1>2, <1>3, <1>4, <1>5, <1>6, <1>7, <1>8

LEMMA OnlyAll ==
  ASSUME NEW A
  PROVE  \A s \in Seq(A) : Only(s, A) = s
<1> DEFINE P == {s \in Seq(A) : Only(s, A) = s}
<1>1. <<>> \in P
  BY OnlyEmpty, EmptySeq
<1>2. ASSUME NEW s \in Seq(A), NEW e \in A, s \in P PROVE Append(s, e) \in P
  <2>1. Only(Append(s, e), A) = Append(Only(s, A), e)
    BY OnlyAppend
  <2> QED
    BY <1>2, <2>1, AppendProperties
<1> HIDE DEF P
<1>3. Seq(A) \subseteq P
  BY <1>1, <1>2, LastEvent
<1> QED
  BY <1>3 DEF P

(* A client that a step leaves alone.                                       *)
Alone(c) == /\ stage'[c] = stage[c] /\ asked'[c] = asked[c]
            /\ subscribed'[c] = subscribed[c] /\ pending'[c] = pending[c]
            /\ rbuf'[c] = rbuf[c] /\ down'[c] = down[c] /\ list'[c] = list[c]

LEMMA ChannelAlone ==
  ASSUME NEW c, Channel(c), Alone(c), snapshot' = snapshot
  PROVE  Channel(c)'
<1>1. Line(c)' = Line(c) /\ Shown' = Shown
  BY DEF Alone, Line, Shown
<1>2. CASE Silent(c)
  BY <1>1, <1>2 DEF Silent, Alone, Channel
<1>3. CASE Asking(c)
  BY <1>1, <1>3 DEF Asking, Alone, Channel
<1>4. CASE Granted(c)
  BY <1>1, <1>4 DEF Granted, Alone, Channel
<1>5. CASE Syncing(c)
  BY <1>1, <1>5 DEF Syncing, Alone, Channel
<1>6. CASE Listed(c)
  BY <1>1, <1>6 DEF Listed, Alone, Channel
<1>7. CASE Following(c)
  BY <1>1, <1>7 DEF Following, Alone, Channel
<1> QED
  BY <1>2, <1>3, <1>4, <1>5, <1>6, <1>7 DEF Channel

LEMMA Excepted ==
  ASSUME NEW T, NEW f \in [Clients -> T], NEW c \in Clients, NEW v \in T, NEW g,
         g = [f EXCEPT ![c] = v]
  PROVE  g \in [Clients -> T] /\ g[c] = v /\ \A d \in Clients : d # c => g[d] = f[d]
OBVIOUS

(* What holds of the values that one client's step leaves.                  *)
Turned(c) == /\ ClientTypes' /\ snapshot' = snapshot /\ Channel(c)'
             /\ \A d \in Clients : d # c => Alone(d)

LEMMA AtClient ==
  ASSUME ClientTypes, NEW c \in Clients
  PROVE  /\ rbuf[c] \in Seq(Frames) /\ down[c] \in Seq(Frames) /\ Line(c) \in Seq(Frames)
         /\ pending[c] \in Seq(Events) /\ list[c] \in SUBSET Records
         /\ subscribed[c] \in SUBSET Topics /\ asked[c] \in BOOLEAN
<1>1. /\ rbuf[c] \in Seq(Frames) /\ down[c] \in Seq(Frames)
      /\ pending[c] \in Seq(Events) /\ list[c] \in SUBSET Records
      /\ subscribed[c] \in SUBSET Topics /\ asked[c] \in BOOLEAN
  BY DEF ClientTypes
<1>2. \A s, t \in Seq(Frames) : Cat(s, t) \in Seq(Frames)
  BY ONLY CatType
<1> QED
  BY <1>1, <1>2 DEF Line

(* The laws of sequences of frames and of events that the steps need.       *)
LEMMA FrameLaws ==
  /\ \A s, t \in Seq(Frames) : Cat(s, t) \in Seq(Frames)
  /\ \A s, t, u \in Seq(Frames) : Cat(Cat(s, t), u) = Cat(s, Cat(t, u))
  /\ <<>> \in Seq(Frames)
  /\ \A s \in Seq(Frames) : Cat(s, <<>>) = s /\ Cat(<<>>, s) = s
  /\ \A s \in Seq(Frames), e \in Frames :
       One(e) \in Seq(Frames) /\ Append(s, e) = Cat(s, One(e))
  /\ \A s, t \in Seq(Frames) : Cat(s, t) \in Seq(Events) => s \in Seq(Events) /\ t \in Seq(Events)
  /\ \A s \in Seq(Events) : s \in Seq(Frames)
<1>1. \A s, t \in Seq(Frames) : Cat(s, t) \in Seq(Frames)
  BY ONLY CatType
<1>2. \A s, t, u \in Seq(Frames) : Cat(Cat(s, t), u) = Cat(s, Cat(t, u))
  BY ONLY CatAssoc
<1>3. <<>> \in Seq(Frames) /\ \A s \in Seq(Frames) : Cat(s, <<>>) = s /\ Cat(<<>>, s) = s
  BY ONLY CatEmpty
<1>4. \A s \in Seq(Frames), e \in Frames :
        One(e) \in Seq(Frames) /\ Append(s, e) = Cat(s, One(e))
  BY ONLY CatOne
<1>5. \A s, t \in Seq(Frames) : Cat(s, t) \in Seq(Events) => s \in Seq(Events) /\ t \in Seq(Events)
  BY ONLY CatParts
<1>6. \A s \in Seq(Events) : s \in Seq(Frames)
  BY FrameKinds, SeqWider
<1> QED
  BY <1>1, <1>2, <1>3, <1>4, <1>5, <1>6

LEMMA EventLaws ==
  /\ \A s, t \in Seq(Events) : Cat(s, t) \in Seq(Events)
  /\ \A s, t, u \in Seq(Events) : Cat(Cat(s, t), u) = Cat(s, Cat(t, u))
  /\ <<>> \in Seq(Events)
  /\ \A s \in Seq(Events) : Cat(s, <<>>) = s /\ Cat(<<>>, s) = s
  /\ \A s \in Seq(Events), e \in Events :
       One(e) \in Seq(Events) /\ Append(s, e) = Cat(s, One(e))
<1>1. \A s, t \in Seq(Events) : Cat(s, t) \in Seq(Events)
  BY ONLY CatType
<1>2. \A s, t, u \in Seq(Events) : Cat(Cat(s, t), u) = Cat(s, Cat(t, u))
  BY ONLY CatAssoc
<1>3. <<>> \in Seq(Events) /\ \A s \in Seq(Events) : Cat(s, <<>>) = s /\ Cat(<<>>, s) = s
  BY ONLY CatEmpty
<1>4. \A s \in Seq(Events), e \in Events :
        One(e) \in Seq(Events) /\ Append(s, e) = Cat(s, One(e))
  BY ONLY CatOne
<1> QED
  BY <1>1, <1>2, <1>3, <1>4

LEMMA StartTurn ==
  ASSUME ClientTypes, NEW c \in Clients, Channel(c), Start(c)
  PROVE  Turned(c)
<1>1. Silent(c)
  BY DEF Start, Channel, Silent, Asking, Granted, Syncing, Listed, Following, Topics
<1>2. /\ stage' = [stage EXCEPT ![c] = "created"] /\ asked' = [asked EXCEPT ![c] = TRUE]
      /\ UNCHANGED <<snapshot, subscribed, down, rbuf, pending, list>>
  BY DEF Start, service
<1>3. /\ stage' \in [Clients -> Calls \cup {"off", "live", "lost"}] /\ stage'[c] = "created"
      /\ \A d \in Clients : d # c => stage'[d] = stage[d]
  BY <1>2, Excepted DEF ClientTypes, Calls, Topics
<1>4. /\ asked' \in [Clients -> BOOLEAN] /\ asked'[c]
      /\ \A d \in Clients : d # c => asked'[d] = asked[d]
  BY <1>2, Excepted DEF ClientTypes
<1>5. Line(c)' \in Seq(Events)
  <2>1. Cat(<<>>, <<>>) = <<>> /\ <<>> \in Seq(Events)
    BY FrameLaws, EventLaws
  <2> QED
    BY <1>1, <1>2, <2>1 DEF Silent, Line
<1>6. Asking(c)'
  BY <1>1, <1>2, <1>3, <1>4, <1>5 DEF Silent, Asking, Told, Topics
<1> QED
  BY <1>2, <1>3, <1>4, <1>6 DEF Turned, Channel, ClientTypes, Alone

LEMMA EndTurn ==
  ASSUME ClientTypes, NEW c \in Clients, StartFails(c) \/ ConnectionLost(c)
  PROVE  Turned(c)
<1>1. PICK how \in {"off", "lost"} : Ends(c, how)
  BY DEF StartFails, ConnectionLost
<1>2. /\ stage' = [stage EXCEPT ![c] = how]
      /\ subscribed' = [subscribed EXCEPT ![c] = {}]
      /\ asked' = [asked EXCEPT ![c] = FALSE]
      /\ down' = [down EXCEPT ![c] = <<>>] /\ rbuf' = [rbuf EXCEPT ![c] = <<>>]
      /\ pending' = [pending EXCEPT ![c] = <<>>]
      /\ UNCHANGED <<snapshot, list>>
  BY <1>1 DEF Ends, service
<1>3. <<>> \in Seq(Frames) /\ <<>> \in Seq(Events)
  BY FrameLaws, EventLaws
<1>4. /\ stage' \in [Clients -> Calls \cup {"off", "live", "lost"}] /\ stage'[c] = how
      /\ \A d \in Clients : d # c => stage'[d] = stage[d]
  BY <1>2, Excepted DEF ClientTypes
<1>5. /\ asked' \in [Clients -> BOOLEAN] /\ ~asked'[c]
      /\ \A d \in Clients : d # c => asked'[d] = asked[d]
  BY <1>2, Excepted DEF ClientTypes
<1>6. /\ subscribed' \in [Clients -> SUBSET Topics] /\ subscribed'[c] = {}
      /\ \A d \in Clients : d # c => subscribed'[d] = subscribed[d]
  BY <1>2, Excepted DEF ClientTypes
<1>7. /\ down' \in [Clients -> Seq(Frames)] /\ down'[c] = <<>>
      /\ \A d \in Clients : d # c => down'[d] = down[d]
  BY <1>2, <1>3, Excepted DEF ClientTypes
<1>8. /\ rbuf' \in [Clients -> Seq(Frames)] /\ rbuf'[c] = <<>>
      /\ \A d \in Clients : d # c => rbuf'[d] = rbuf[d]
  BY <1>2, <1>3, Excepted DEF ClientTypes
<1>9. /\ pending' \in [Clients -> Seq(Events)] /\ pending'[c] = <<>>
      /\ \A d \in Clients : d # c => pending'[d] = pending[d]
  BY <1>2, <1>3, Excepted DEF ClientTypes
<1>10. Silent(c)'
  BY <1>4, <1>5, <1>6, <1>7, <1>8, <1>9 DEF Silent
<1>11. ClientTypes' /\ \A d \in Clients : d # c => Alone(d)
  BY <1>2, <1>4, <1>5, <1>6, <1>7, <1>8, <1>9 DEF ClientTypes, Alone
<1> QED
  BY <1>2, <1>10, <1>11 DEF Turned, Channel

LEMMA ServeTurn ==
  ASSUME MirrorInv, ClientTypes, NEW c \in Clients, Channel(c), Serve(c)
  PROVE  Turned(c)
<1> DEFINE f == IF stage[c] = "list" THEN Listing ELSE Ack
           su == subscribed[c] \cup (Topics \cap {stage[c]})
<1>1. /\ asked[c] /\ asked' = [asked EXCEPT ![c] = FALSE]
      /\ subscribed' = [subscribed EXCEPT ![c] = su]
      /\ down' = [down EXCEPT ![c] = Append(down[c], f)]
      /\ UNCHANGED <<snapshot, stage, rbuf, pending, list>>
  BY DEF Serve, service, client, ClientTypes
<1>2. Shown \in SUBSET Records
  BY DEF Shown, ToSet, MirrorInv
<1>3. f \in Frames
  BY <1>2, FrameKinds DEF Listing, ListingOf, Shown
<1>4. Append(down[c], f) \in Seq(Frames)
  BY <1>3, AtClient, AppendProperties
<1>5. su \in SUBSET Topics
  BY AtClient
<1> HIDE DEF f, su
<1>6. /\ asked' \in [Clients -> BOOLEAN] /\ ~asked'[c]
      /\ \A d \in Clients : d # c => asked'[d] = asked[d]
  BY <1>1, Excepted DEF ClientTypes
<1>7. /\ subscribed' \in [Clients -> SUBSET Topics] /\ subscribed'[c] = su
      /\ \A d \in Clients : d # c => subscribed'[d] = subscribed[d]
  BY <1>1, <1>5, Excepted DEF ClientTypes
<1>8. /\ down' \in [Clients -> Seq(Frames)] /\ down'[c] = Append(down[c], f)
      /\ \A d \in Clients : d # c => down'[d] = down[d]
  BY <1>1, <1>4, Excepted DEF ClientTypes
<1>9. Line(c)' = Cat(Cat(Line(c), One(f)), <<>>)
  <2>1. rbuf[c] \in Seq(Frames) /\ down[c] \in Seq(Frames)
    BY AtClient
  <2>2. One(f) \in Seq(Frames) /\ Append(down[c], f) = Cat(down[c], One(f))
    BY <1>3, <2>1, FrameLaws
  <2>3. Cat(rbuf[c], Cat(down[c], One(f))) = Cat(Cat(rbuf[c], down[c]), One(f))
    <3>1. \A s, t, u \in Seq(Frames) : Cat(Cat(s, t), u) = Cat(s, Cat(t, u))
      BY ONLY CatAssoc
    <3> QED
      BY ONLY <2>1, <2>2, <3>1
  <2>4. Cat(Cat(rbuf[c], down[c]), One(f)) \in Seq(Frames)
    BY <2>1, <2>2, FrameLaws
  <2>5. Cat(Cat(Cat(rbuf[c], down[c]), One(f)), <<>>) = Cat(Cat(rbuf[c], down[c]), One(f))
    BY <2>4, FrameLaws
  <2> QED
    BY <1>1, <1>8, <2>2, <2>3, <2>5 DEF Line
<1>10. <<>> \in Seq(Events) /\ Shown' = Shown
  BY <1>1, EventLaws DEF Shown
<1>11. Channel(c)'
  <2>1. Asking(c) \/ Syncing(c)
    BY <1>1 DEF Channel, Silent, Granted, Listed, Following
  <2>2. CASE Asking(c)
    <3>1. f = Ack /\ su = Told(stage[c]) \cup {stage[c]}
      BY <2>2 DEF Asking, f, su, Topics
    <3>2. Replay(Shown, <<>>) = Shown
      BY ReplayEmpty
    <3>3. Granted(c)'
      BY <1>1, <1>6, <1>7, <1>9, <1>10, <2>2, <3>1, <3>2 DEF Asking, Granted
    <3> QED
      BY <3>3 DEF Channel
  <2>3. CASE Syncing(c)
    <3>1. f = ListingOf(Shown) /\ su = Topics
      BY <2>3 DEF Syncing, f, su, Listing, ListingOf, Shown, Topics
    <3>2. Cat(Line(c), <<>>) = Line(c) /\ Line(c) \in Seq(Events)
      BY <2>3, EventLaws DEF Syncing
    <3>3. Replay(Shown, Cat(pending[c], Cat(Line(c), <<>>))) = Shown
      BY <2>3, <3>2 DEF Syncing
    <3>4. Listed(c)'
      BY <1>1, <1>2, <1>6, <1>7, <1>9, <1>10, <2>3, <3>1, <3>2, <3>3 DEF Syncing, Listed
    <3> QED
      BY <3>4 DEF Channel
  <2> QED
    BY <2>1, <2>2, <2>3
<1>12. ClientTypes' /\ \A d \in Clients : d # c => Alone(d)
  BY <1>1, <1>6, <1>7, <1>8 DEF ClientTypes, Alone
<1> QED
  BY <1>1, <1>11, <1>12 DEF Turned

(* Bytes that move from the connection to rbuf_ leave the line as it is.    *)
LEMMA ReadTurn ==
  ASSUME ClientTypes, NEW c \in Clients, Channel(c), Read(c)
  PROVE  Turned(c)
<1>1. /\ stage[c] \in Calls /\ rbuf[c] = <<>>
      /\ UNCHANGED <<snapshot, subscribed, asked, stage, pending, list>>
  BY DEF Read, service
<1>2. PICK n \in 1 .. Len(down[c]) :
        /\ rbuf' = [rbuf EXCEPT ![c] = SubSeq(down[c], 1, n)]
        /\ down' = [down EXCEPT ![c] = SubSeq(down[c], n + 1, Len(down[c]))]
  BY DEF Read, ClientTypes
<1>3. down[c] \in Seq(Frames) /\ n \in 0 .. Len(down[c])
  <2>1. down[c] \in Seq(Frames)
    BY AtClient
  <2>2. Len(down[c]) \in Nat
    BY <2>1
  <2> QED
    BY <2>1, <2>2
<1> DEFINE r == SubSeq(down[c], 1, n)
           d == SubSeq(down[c], n + 1, Len(down[c]))
<1>4. down[c] = Cat(r, d) /\ r \in Seq(Frames) /\ d \in Seq(Frames)
  BY <1>3, CatHalves
<1> HIDE DEF r, d
<1>5. /\ rbuf' \in [Clients -> Seq(Frames)] /\ rbuf'[c] = r
      /\ \A e \in Clients : e # c => rbuf'[e] = rbuf[e]
  BY <1>2, <1>4, Excepted DEF ClientTypes, r
<1>6. /\ down' \in [Clients -> Seq(Frames)] /\ down'[c] = d
      /\ \A e \in Clients : e # c => down'[e] = down[e]
  BY <1>2, <1>4, Excepted DEF ClientTypes, d
<1>7. Line(c)' = Line(c) /\ Shown' = Shown
  <2>1. Cat(<<>>, down[c]) = down[c]
    BY <1>3, FrameLaws
  <2> QED
    BY <1>1, <1>4, <1>5, <1>6, <2>1 DEF Line, Shown
<1>8. Channel(c)'
  <2>1. CASE Silent(c)
    BY <1>1, <2>1 DEF Silent, Calls, Topics
  <2>2. CASE Asking(c)
    BY <1>1, <1>7, <2>2 DEF Asking, Channel
  <2>3. CASE Granted(c)
    BY <1>1, <1>7, <2>3 DEF Granted, Channel
  <2>4. CASE Syncing(c)
    BY <1>1, <1>7, <2>4 DEF Syncing, Channel
  <2>5. CASE Listed(c)
    BY <1>1, <1>7, <2>5 DEF Listed, Channel
  <2>6. CASE Following(c)
    BY <1>1, <1>7, <2>6 DEF Following, Channel
  <2> QED
    BY <2>1, <2>2, <2>3, <2>4, <2>5, <2>6 DEF Channel
<1> QED
  BY <1>1, <1>5, <1>6, <1>8 DEF Turned, ClientTypes, Alone

(* The frame that a call takes is the first of the line.                    *)
LEMMA PumpHead ==
  ASSUME ClientTypes, NEW c \in Clients, Pump(c)
  PROVE  /\ Head(rbuf[c]) \in Frames
         /\ rbuf' \in [Clients -> Seq(Frames)]
         /\ \A d \in Clients : d # c => rbuf'[d] = rbuf[d]
         /\ UNCHANGED <<snapshot, subscribed, down>>
         /\ Line(c) = Cat(One(Head(rbuf[c])), Line(c)') /\ Line(c)' \in Seq(Frames)
         /\ stage[c] \in Calls
<1>1. /\ rbuf[c] # <<>> /\ rbuf' = [rbuf EXCEPT ![c] = Tail(rbuf[c])]
      /\ UNCHANGED <<snapshot, subscribed, down>> /\ stage[c] \in Calls
  BY DEF Pump, service, ClientTypes
<1>2. rbuf[c] \in Seq(Frames) /\ down[c] \in Seq(Frames)
  BY AtClient
<1> DEFINE h == Head(rbuf[c])
           r == Tail(rbuf[c])
<1>3. /\ rbuf[c] = Cat(One(h), r) /\ h \in Frames /\ One(h) \in Seq(Frames)
      /\ r \in Seq(Frames)
  BY <1>1, <1>2, CatHead
<1> HIDE DEF h, r
<1>4. /\ rbuf' \in [Clients -> Seq(Frames)] /\ rbuf'[c] = r
      /\ \A d \in Clients : d # c => rbuf'[d] = rbuf[d]
  BY <1>1, <1>3, Excepted DEF ClientTypes, r
<1>5. Line(c)' = Cat(r, down[c])
  BY <1>1, <1>4 DEF Line
<1>6. Line(c) = Cat(One(h), Cat(r, down[c])) /\ Cat(r, down[c]) \in Seq(Frames)
  <2>1. /\ \A s, t, u \in Seq(Frames) : Cat(Cat(s, t), u) = Cat(s, Cat(t, u))
        /\ \A s, t \in Seq(Frames) : Cat(s, t) \in Seq(Frames)
    BY FrameLaws
  <2>2. Line(c) = Cat(Cat(One(h), r), down[c])
    BY <1>3 DEF Line
  <2> QED
    BY ONLY <1>2, <1>3, <2>1, <2>2
<1> QED
  BY <1>1, <1>3, <1>4, <1>5, <1>6 DEF h

(* Before the answer a call gets events; the answer ends it.                *)
LEMMA EventsFirst ==
  ASSUME NEW h \in Frames, NEW q \in Seq(Frames), Cat(One(h), q) \in Seq(Events)
  PROVE  h \in Events /\ q \in Seq(Events) /\ One(h) \in Seq(Events)
<1>1. One(h) \in Seq(Frames)
  BY FrameLaws, EmptySeq
<1>2. One(h) \in Seq(Events) /\ q \in Seq(Events)
  BY <1>1, FrameLaws
<1>3. h \in Events
  BY <1>2 DEF One
<1> QED
  BY <1>2, <1>3

LEMMA AnswerAhead ==
  ASSUME NEW h \in Frames, NEW a \in Frames, NEW q \in Seq(Frames),
         NEW x \in Seq(Events), NEW y \in Seq(Events),
         Cat(One(h), q) = Cat(Cat(x, One(a)), y)
  PROVE  \/ x = <<>> /\ h = a /\ q = y
         \/ /\ h \in Events
            /\ \E z \in Seq(Events) : x = Cat(One(h), z) /\ q = Cat(Cat(z, One(a)), y)
<1>1. Events \subseteq Frames /\ y \in Seq(Frames)
  BY FrameKinds, FrameLaws
<1> QED
  BY <1>1, CatAround

LEMMA EventTurn ==
  ASSUME ClientTypes, NEW c \in Clients, Channel(c), PumpEvent(c)
  PROVE  Turned(c)
<1> DEFINE h == Head(rbuf[c])
           q == Line(c)'
<1>1. /\ h \in Frames /\ rbuf' \in [Clients -> Seq(Frames)]
      /\ \A d \in Clients : d # c => rbuf'[d] = rbuf[d]
      /\ UNCHANGED <<snapshot, subscribed, down, asked, stage, list>>
      /\ Line(c) = Cat(One(h), q) /\ q \in Seq(Frames) /\ stage[c] \in Calls
  BY PumpHead DEF PumpEvent
<1>2. h \in Events /\ h \in Frames
  BY <1>1, FrameKinds DEF PumpEvent
<1>3. pending' = IF stage[c] # "list" THEN pending
                 ELSE [pending EXCEPT ![c] = Append(pending[c], h)]
  BY DEF PumpEvent, ClientTypes
<1> HIDE DEF h, q
<1>4. /\ pending[c] \in Seq(Events) /\ Append(pending[c], h) \in Seq(Events)
      /\ Append(pending[c], h) = Cat(pending[c], One(h)) /\ One(h) \in Seq(Events)
  <2>1. pending[c] \in Seq(Events)
    BY AtClient
  <2>2. Append(pending[c], h) = Cat(pending[c], One(h)) /\ One(h) \in Seq(Events)
    BY <1>2, <2>1, EventLaws
  <2> QED
    BY <2>1, <2>2, EventLaws
<1>5. /\ pending' \in [Clients -> Seq(Events)]
      /\ pending'[c] = IF stage[c] # "list" THEN pending[c] ELSE Cat(pending[c], One(h))
      /\ \A d \in Clients : d # c => pending'[d] = pending[d]
  <2>1. CASE stage[c] = "list"
    <3>1. pending' = [pending EXCEPT ![c] = Append(pending[c], h)]
      BY <1>3, <2>1
    <3>2. pending \in [Clients -> Seq(Events)]
      BY DEF ClientTypes
    <3> QED
      BY <1>4, <2>1, <3>1, <3>2, Excepted
  <2>2. CASE stage[c] # "list"
    BY <1>3, <2>2 DEF ClientTypes
  <2> QED
    BY <2>1, <2>2
<1>6. Shown' = Shown /\ Line(c)' = q
  BY <1>1 DEF Shown, q
<1>7. Channel(c)'
  <2>1. CASE Silent(c)
    BY <1>1, <2>1 DEF Silent, Calls, Topics
  <2>2. CASE Asking(c)
    <3>1. q \in Seq(Events)
      BY <1>1, <2>2, EventsFirst DEF Asking
    <3>2. stage[c] # "list"
      BY <2>2 DEF Asking, Topics
    <3> QED
      BY <1>1, <1>5, <1>6, <2>2, <3>1, <3>2 DEF Asking, Channel
  <2>3. CASE Granted(c)
    <3>1. PICK x, y \in Seq(Events) :
            /\ Line(c) = Cat(Cat(x, One(Ack)), y)
            /\ stage[c] = "closed" => Replay(Shown, y) = Shown
      BY <2>3 DEF Granted
    <3>2. h # Ack /\ Ack \in Frames
      BY <1>2, FrameKinds
    <3>3. Cat(One(h), q) = Cat(Cat(x, One(Ack)), y)
      BY <1>1, <3>1
    <3>4. PICK z \in Seq(Events) : q = Cat(Cat(z, One(Ack)), y)
      BY <1>1, <3>2, <3>3, AnswerAhead
    <3>5. stage[c] # "list"
      BY <2>3 DEF Granted, Topics
    <3> QED
      BY <1>1, <1>5, <1>6, <2>3, <3>1, <3>4, <3>5 DEF Granted, Channel
  <2>4. CASE Syncing(c)
    <3>1. q \in Seq(Events)
      BY <1>1, <2>4, EventsFirst DEF Syncing
    <3>2. Cat(Cat(pending[c], One(h)), q) = Cat(pending[c], Line(c))
      <4>1. \A s, t, u \in Seq(Events) : Cat(Cat(s, t), u) = Cat(s, Cat(t, u))
        BY EventLaws
      <4> QED
        BY <1>1, <1>4, <3>1, <4>1
    <3>3. pending'[c] = Cat(pending[c], One(h))
      BY <1>5, <2>4 DEF Syncing
    <3> QED
      BY <1>1, <1>6, <2>4, <3>1, <3>2, <3>3 DEF Syncing, Channel
  <2>5. CASE Listed(c)
    <3>1. PICK x, y \in Seq(Events), l \in SUBSET Records :
            /\ Line(c) = Cat(Cat(x, One(ListingOf(l))), y)
            /\ Replay(l, Cat(pending[c], Cat(x, y))) = Shown
      BY <2>5 DEF Listed
    <3>2. h # ListingOf(l) /\ ListingOf(l) \in Frames
      BY <1>2, FrameKinds
    <3>3. Cat(One(h), q) = Cat(Cat(x, One(ListingOf(l))), y)
      BY <1>1, <3>1
    <3>4. PICK z \in Seq(Events) : /\ x = Cat(One(h), z)
                                   /\ q = Cat(Cat(z, One(ListingOf(l))), y)
      BY <1>1, <3>2, <3>3, AnswerAhead
    <3>5. Cat(Cat(pending[c], One(h)), Cat(z, y)) = Cat(pending[c], Cat(x, y))
      <4>1. /\ \A s, t, u \in Seq(Events) : Cat(Cat(s, t), u) = Cat(s, Cat(t, u))
            /\ \A s, t \in Seq(Events) : Cat(s, t) \in Seq(Events)
        BY EventLaws
      <4>2. Cat(x, y) = Cat(One(h), Cat(z, y)) /\ Cat(z, y) \in Seq(Events)
        BY <1>4, <3>4, <4>1
      <4>3. pending[c] \in Seq(Events) /\ One(h) \in Seq(Events)
        BY <1>4
      <4>4. Cat(Cat(pending[c], One(h)), Cat(z, y)) = Cat(pending[c], Cat(One(h), Cat(z, y)))
        <5>1. \A s, t, u \in Seq(Events) : Cat(Cat(s, t), u) = Cat(s, Cat(t, u))
          BY <4>1
        <5>2. Cat(z, y) \in Seq(Events)
          BY <4>2
        <5> QED
          BY ONLY <4>3, <5>1, <5>2
      <4> QED
        BY ONLY <4>2, <4>4
    <3>6. pending'[c] = Cat(pending[c], One(h))
      BY <1>5, <2>5 DEF Listed
    <3> QED
      BY <1>1, <1>6, <2>5, <3>1, <3>4, <3>5, <3>6 DEF Listed, Channel
  <2>6. CASE Following(c)
    BY <1>1, <2>6 DEF Following, Calls, Topics
  <2> QED
    BY <2>1, <2>2, <2>3, <2>4, <2>5, <2>6 DEF Channel
<1>8. ClientTypes' /\ \A d \in Clients : d # c => Alone(d)
  BY <1>1, <1>5 DEF ClientTypes, Alone
<1> QED
  BY <1>1, <1>7, <1>8 DEF Turned

LEMMA AckTurn ==
  ASSUME ClientTypes, NEW c \in Clients, Channel(c), PumpAck(c)
  PROVE  Turned(c)
<1> DEFINE h == Head(rbuf[c])
           q == Line(c)'
<1>1. /\ h \in Frames /\ rbuf' \in [Clients -> Seq(Frames)]
      /\ \A d \in Clients : d # c => rbuf'[d] = rbuf[d]
      /\ UNCHANGED <<snapshot, subscribed, down, pending, list>>
      /\ Line(c) = Cat(One(h), q) /\ q \in Seq(Frames) /\ stage[c] \in Calls
  BY PumpHead DEF PumpAck
<1>2. h = Ack /\ h \in Frames /\ h \notin Events
  BY <1>1, FrameKinds DEF PumpAck
<1>3. stage' = [stage EXCEPT ![c] = After(stage[c])] /\ asked' = [asked EXCEPT ![c] = TRUE]
  BY DEF PumpAck, ClientTypes
<1> HIDE DEF h, q
<1>4. Granted(c)
  <2>1. ~Silent(c) /\ ~Following(c)
    BY <1>1 DEF Silent, Following, Calls, Topics
  <2>2. Line(c) \notin Seq(Events)
    BY <1>1, <1>2, EventsFirst
  <2>3. ~Listed(c)
    <3>1. ASSUME Listed(c) PROVE FALSE
      <4>1. PICK x, y \in Seq(Events), l \in SUBSET Records :
              Line(c) = Cat(Cat(x, One(ListingOf(l))), y)
        BY <3>1 DEF Listed
      <4>2. h # ListingOf(l) /\ ListingOf(l) \in Frames
        BY <1>2, FrameKinds
      <4>3. Cat(One(h), q) = Cat(Cat(x, One(ListingOf(l))), y)
        BY <1>1, <4>1
      <4> QED
        BY <1>1, <1>2, <4>2, <4>3, AnswerAhead
    <3> QED
      BY <3>1
  <2> QED
    BY <2>1, <2>2, <2>3 DEF Channel, Asking, Syncing
<1>5. PICK x, y \in Seq(Events) : /\ Line(c) = Cat(Cat(x, One(Ack)), y)
                                  /\ stage[c] = "closed" => Replay(Shown, y) = Shown
  BY <1>4 DEF Granted
<1>6. q = y
  <2>1. Cat(One(h), q) = Cat(Cat(x, One(Ack)), y) /\ Ack \in Frames
    BY <1>1, <1>5, FrameKinds
  <2> QED
    BY <1>1, <1>2, <2>1, AnswerAhead
<1>7. Line(c)' \in Seq(Events) /\ Shown' = Shown /\ Line(c)' = y
  BY <1>1, <1>6 DEF Shown, q
<1>8. After(stage[c]) = IF stage[c] = "created" THEN "updated"
                        ELSE IF stage[c] = "updated" THEN "closed" ELSE "list"
  BY <1>4 DEF Granted, After, Topics
<1>9. /\ stage' \in [Clients -> Calls \cup {"off", "live", "lost"}]
      /\ stage'[c] = After(stage[c])
      /\ \A d \in Clients : d # c => stage'[d] = stage[d]
  <2>1. After(stage[c]) \in Calls \cup {"off", "live", "lost"}
    BY <1>8 DEF Calls, Topics
  <2> QED
    BY <1>3, <2>1, Excepted DEF ClientTypes
<1>10. /\ asked' \in [Clients -> BOOLEAN] /\ asked'[c]
       /\ \A d \in Clients : d # c => asked'[d] = asked[d]
  BY <1>3, Excepted DEF ClientTypes
<1>11. Channel(c)'
  <2>1. CASE stage[c] # "closed"
    <3>1. stage[c] \in {"created", "updated"}
      BY <1>4, <2>1 DEF Granted, Topics
    <3>2. stage'[c] \in Topics /\ Told(stage'[c]) = Told(stage[c]) \cup {stage[c]}
      BY <1>8, <1>9, <3>1 DEF Topics, Told
    <3>3. Asking(c)'
      BY <1>1, <1>4, <1>7, <1>10, <3>2 DEF Granted, Asking
    <3> QED
      BY <3>3 DEF Channel
  <2>2. CASE stage[c] = "closed"
    <3>1. stage'[c] = "list" /\ Told(stage[c]) \cup {stage[c]} = Topics
      BY <1>8, <1>9, <2>2 DEF Topics, Told
    <3>2. Cat(<<>>, y) = y
      BY EventLaws
    <3>3. Replay(Shown, Cat(pending[c], y)) = Shown
      BY <1>4, <1>5, <2>2, <3>2 DEF Granted
    <3>4. Syncing(c)'
      BY <1>1, <1>4, <1>7, <1>10, <3>1, <3>3 DEF Granted, Syncing
    <3> QED
      BY <3>4 DEF Channel
  <2> QED
    BY <2>1, <2>2
<1>12. ClientTypes' /\ \A d \in Clients : d # c => Alone(d)
  BY <1>1, <1>9, <1>10 DEF ClientTypes, Alone
<1> QED
  BY <1>1, <1>11, <1>12 DEF Turned

LEMMA ListingTurn ==
  ASSUME ClientTypes, NEW c \in Clients, Channel(c), PumpListing(c)
  PROVE  Turned(c)
<1> DEFINE h == Head(rbuf[c])
           q == Line(c)'
<1>1. /\ h \in Frames /\ rbuf' \in [Clients -> Seq(Frames)]
      /\ \A d \in Clients : d # c => rbuf'[d] = rbuf[d]
      /\ UNCHANGED <<snapshot, subscribed, down, asked>>
      /\ Line(c) = Cat(One(h), q) /\ q \in Seq(Frames) /\ stage[c] \in Calls
  BY PumpHead DEF PumpListing
<1>2. h.topic = "listing" /\ h \notin Events /\ h # Ack
  BY <1>1, FrameKinds DEF PumpListing
<1>3. /\ list' = [list EXCEPT ![c] = Replay(h.records, pending[c])]
      /\ stage' = [stage EXCEPT ![c] = "live"]
      /\ pending' = [pending EXCEPT ![c] = <<>>]
  BY DEF PumpListing
<1> HIDE DEF h, q
<1>4. Listed(c)
  <2>1. ~Silent(c) /\ ~Following(c)
    BY <1>1 DEF Silent, Following, Calls, Topics
  <2>2. Line(c) \notin Seq(Events)
    BY <1>1, <1>2, EventsFirst
  <2>3. ~Granted(c)
    <3>1. ASSUME Granted(c) PROVE FALSE
      <4>1. PICK x, y \in Seq(Events) : Line(c) = Cat(Cat(x, One(Ack)), y)
        BY <3>1 DEF Granted
      <4>2. Cat(One(h), q) = Cat(Cat(x, One(Ack)), y) /\ Ack \in Frames
        BY <1>1, <4>1, FrameKinds
      <4> QED
        BY <1>1, <1>2, <4>2, AnswerAhead
    <3> QED
      BY <3>1
  <2> QED
    BY <2>1, <2>2, <2>3 DEF Channel, Asking, Syncing
<1>5. PICK x, y \in Seq(Events), l \in SUBSET Records :
        /\ Line(c) = Cat(Cat(x, One(ListingOf(l))), y)
        /\ Replay(l, Cat(pending[c], Cat(x, y))) = Shown
  BY <1>4 DEF Listed
<1>6. x = <<>> /\ h = ListingOf(l) /\ q = y
  <2>1. Cat(One(h), q) = Cat(Cat(x, One(ListingOf(l))), y) /\ ListingOf(l) \in Frames
    BY <1>1, <1>5, FrameKinds
  <2> QED
    BY <1>1, <1>2, <2>1, AnswerAhead
<1>7. Line(c)' \in Seq(Events) /\ Shown' = Shown /\ Line(c)' = y
  BY <1>1, <1>6 DEF Shown, q
<1>8. pending[c] \in Seq(Events) /\ h.records = l
  BY <1>6, AtClient, FrameKinds
<1>9. /\ Replay(l, pending[c]) \in SUBSET Records
      /\ Replay(Replay(l, pending[c]), y) = Shown
  <2>1. Replay(l, pending[c]) \in SUBSET Records
    BY <1>8, ReplayType
  <2>2. Cat(x, y) = y
    BY <1>6, EventLaws
  <2>3. Replay(l, Cat(pending[c], y)) = Replay(Replay(l, pending[c]), y)
    BY <1>8, ReplayCat
  <2> QED
    BY <1>5, <2>1, <2>2, <2>3
<1>10. /\ list' \in [Clients -> SUBSET Records] /\ list'[c] = Replay(l, pending[c])
       /\ \A d \in Clients : d # c => list'[d] = list[d]
  BY <1>3, <1>8, <1>9, Excepted DEF ClientTypes
<1>11. /\ stage' \in [Clients -> Calls \cup {"off", "live", "lost"}] /\ stage'[c] = "live"
       /\ \A d \in Clients : d # c => stage'[d] = stage[d]
  BY <1>3, Excepted DEF ClientTypes
<1>12. /\ pending' \in [Clients -> Seq(Events)] /\ pending'[c] = <<>>
       /\ \A d \in Clients : d # c => pending'[d] = pending[d]
  BY <1>3, EventLaws, Excepted DEF ClientTypes
<1>13. Following(c)'
  BY <1>1, <1>4, <1>7, <1>9, <1>10, <1>11, <1>12 DEF Listed, Following
<1>14. ClientTypes' /\ \A d \in Clients : d # c => Alone(d)
  BY <1>1, <1>10, <1>11, <1>12 DEF ClientTypes, Alone
<1> QED
  BY <1>1, <1>13, <1>14 DEF Turned, Channel

LEMMA ReadyTurn ==
  ASSUME ClientTypes, NEW c \in Clients, Channel(c), OnFdReady(c)
  PROVE  Turned(c)
<1>1. /\ stage[c] = "live" /\ rbuf' = [rbuf EXCEPT ![c] = <<>>]
      /\ UNCHANGED <<snapshot, subscribed, asked, stage, pending>>
  BY DEF OnFdReady, service
<1>2. PICK n \in 1 .. Len(down[c]) :
        /\ list' = [list EXCEPT ![c] =
                      Replay(list[c], Decoded(rbuf[c] \o SubSeq(down[c], 1, n)))]
        /\ down' = [down EXCEPT ![c] = SubSeq(down[c], n + 1, Len(down[c]))]
  BY DEF OnFdReady, ClientTypes
<1>3. /\ rbuf[c] \in Seq(Frames) /\ down[c] \in Seq(Frames) /\ n \in 0 .. Len(down[c])
      /\ list[c] \in SUBSET Records
  <2>1. rbuf[c] \in Seq(Frames) /\ down[c] \in Seq(Frames) /\ list[c] \in SUBSET Records
    BY AtClient
  <2>2. Len(down[c]) \in Nat
    BY <2>1
  <2> QED
    BY <2>1, <2>2
<1> DEFINE a == SubSeq(down[c], 1, n)
           b == SubSeq(down[c], n + 1, Len(down[c]))
           e == Cat(rbuf[c], a)
<1>4. down[c] = Cat(a, b) /\ a \in Seq(Frames) /\ b \in Seq(Frames)
  BY <1>3, CatHalves
<1>5. /\ list' = [list EXCEPT ![c] = Replay(list[c], Only(e, Events))]
      /\ down' = [down EXCEPT ![c] = b]
  BY <1>2 DEF Decoded, Cat
<1> HIDE DEF a, b
<1>6. Following(c)
  BY <1>1 DEF Channel, Silent, Asking, Granted, Syncing, Listed, Following, Topics
<1>7. Line(c) = Cat(e, b) /\ e \in Seq(Frames)
  <2>1. /\ \A s, t, u \in Seq(Frames) : Cat(Cat(s, t), u) = Cat(s, Cat(t, u))
        /\ \A s, t \in Seq(Frames) : Cat(s, t) \in Seq(Frames)
    BY FrameLaws
  <2>2. Line(c) = Cat(rbuf[c], Cat(a, b))
    BY <1>4 DEF Line
  <2>3. rbuf[c] \in Seq(Frames) /\ a \in Seq(Frames) /\ b \in Seq(Frames)
    BY <1>3, <1>4
  <2>4. Cat(Cat(rbuf[c], a), b) = Cat(rbuf[c], Cat(a, b))
    <3>1. \A s, t, u \in Seq(Frames) : Cat(Cat(s, t), u) = Cat(s, Cat(t, u))
      BY <2>1
    <3> QED
      BY ONLY <2>3, <3>1
  <2> QED
    BY <2>1, <2>2, <2>3, <2>4
<1> HIDE DEF e
<1>8. e \in Seq(Events) /\ b \in Seq(Events)
  BY <1>4, <1>6, <1>7, FrameLaws DEF Following
<1>9. Only(e, Events) = e /\ Replay(list[c], e) \in SUBSET Records
  BY <1>3, <1>8, OnlyAll, ReplayType
<1>10. /\ list' \in [Clients -> SUBSET Records] /\ list'[c] = Replay(list[c], e)
       /\ \A d \in Clients : d # c => list'[d] = list[d]
  BY <1>5, <1>9, Excepted DEF ClientTypes
<1>11. /\ down' \in [Clients -> Seq(Frames)] /\ down'[c] = b
       /\ \A d \in Clients : d # c => down'[d] = down[d]
  BY <1>4, <1>5, Excepted DEF ClientTypes
<1>12. /\ rbuf' \in [Clients -> Seq(Frames)] /\ rbuf'[c] = <<>>
       /\ \A d \in Clients : d # c => rbuf'[d] = rbuf[d]
  BY <1>1, FrameLaws, Excepted DEF ClientTypes
<1>13. Line(c)' = b /\ Shown' = Shown
  <2>1. Cat(<<>>, b) = b
    BY <1>4, FrameLaws
  <2> QED
    BY <1>1, <1>11, <1>12, <2>1 DEF Line, Shown
<1>14. Replay(Replay(list[c], e), b) = Shown
  <2>1. Replay(list[c], Cat(e, b)) = Replay(Replay(list[c], e), b)
    BY <1>8, ReplayCat
  <2> QED
    BY <1>6, <1>7, <2>1 DEF Following
<1>15. Following(c)'
  BY <1>1, <1>6, <1>8, <1>10, <1>13, <1>14 DEF Following
<1>16. ClientTypes' /\ \A d \in Clients : d # c => Alone(d)
  BY <1>1, <1>10, <1>11, <1>12 DEF ClientTypes, Alone
<1> QED
  BY <1>1, <1>15, <1>16 DEF Turned, Channel

(* Every client hears of a change on the topics that it subscribes to.      *)
LEMMA PublishedTurn ==
  ASSUME MirrorInv, ClientTypes, NEW c \in Clients, Channel(c), Published
  PROVE  /\ Channel(c)' /\ down'[c] \in Seq(Frames)
         /\ UNCHANGED <<subscribed, asked, rbuf, stage, pending, list>>
         /\ down' = [d \in Clients |-> down'[d]]
<1>1. PICK ws \in Seq(Windows) :
        /\ SetSnapshot(ws) /\ snapshot' \in Seq(Records)
        /\ Deltas(ws) \in Seq(Events)
        /\ Tells(Deltas(ws), ToSet(snapshot), ToSet(snapshot'))
  BY DEF Published
<1> DEFINE D == Deltas(ws)
           T == Shown'
           heard == [topic : subscribed[c], record : Records]
           N == Only(D, heard)
<1>2. /\ Shown \in SUBSET Records /\ T \in SUBSET Records /\ D \in Seq(Events)
      /\ Tells(D, Shown, T)
  BY <1>1 DEF Shown, ToSet, MirrorInv
<1>3. /\ UNCHANGED <<subscribed, asked, rbuf, stage, pending, list>>
      /\ down' = [d \in Clients |->
                    Cat(down[d], Only(D, [topic : subscribed[d], record : Records]))]
  BY <1>1 DEF SetSnapshot, client, Cat
<1> HIDE DEF D, T
<1>4. /\ rbuf[c] \in Seq(Frames) /\ down[c] \in Seq(Frames) /\ Line(c) \in Seq(Frames)
      /\ pending[c] \in Seq(Events) /\ list[c] \in SUBSET Records
      /\ subscribed[c] \in SUBSET Topics
  BY AtClient
<1>5. N \in Seq(Events) /\ N \in Seq(Frames)
  <2>1. N \in Seq(Events \cap heard)
    BY <1>2, OnlyType
  <2>2. \A s \in Seq(Events \cap heard) : s \in Seq(Events)
    BY SeqWider
  <2> QED
    BY <2>1, <2>2, FrameLaws
<1>6. subscribed[c] = Topics => N = D
  <2>1. subscribed[c] = Topics => heard = Events
    BY DEF Events
  <2> QED
    BY <1>2, <2>1, OnlyAll
<1>7. subscribed[c] = {} => N = <<>>
  <2>1. subscribed[c] = {} => Events \cap heard = {}
    BY DEF Events
  <2> HIDE DEF heard
  <2>2. Events \cap heard = {} => Only(D, heard) = <<>>
    BY <1>2, OnlyNone
  <2> QED
    BY <2>1, <2>2
<1>8. down'[c] = Cat(down[c], N)
  BY <1>3
<1> HIDE DEF N, heard
<1>9. down'[c] \in Seq(Frames)
  <2>1. \A s, t \in Seq(Frames) : Cat(s, t) \in Seq(Frames)
    BY FrameLaws
  <2> QED
    BY ONLY <1>4, <1>5, <1>8, <2>1
<1>10. Line(c)' = Cat(Line(c), N)
  <2>1. \A s, t, u \in Seq(Frames) : Cat(Cat(s, t), u) = Cat(s, Cat(t, u))
    BY FrameLaws
  <2>2. Line(c)' = Cat(rbuf[c], Cat(down[c], N))
    BY <1>3, <1>8 DEF Line
  <2>3. Cat(Cat(rbuf[c], down[c]), N) = Cat(rbuf[c], Cat(down[c], N))
    BY ONLY <1>4, <1>5, <2>1
  <2> QED
    BY <2>2, <2>3 DEF Line
<1>11. CASE Silent(c)
  <2>1. N = <<>> /\ Cat(<<>>, <<>>) = <<>>
    BY <1>7, <1>11, FrameLaws DEF Silent
  <2> QED
    BY <1>3, <1>8, <1>9, <1>11, <2>1 DEF Silent, Channel
<1>12. CASE Asking(c)
  <2>1. Line(c)' \in Seq(Events)
    BY <1>5, <1>10, <1>12, EventLaws DEF Asking
  <2> QED
    BY <1>3, <1>9, <1>12, <2>1 DEF Asking, Channel
<1>13. CASE Granted(c)
  <2>1. PICK x, y \in Seq(Events) : /\ Line(c) = Cat(Cat(x, One(Ack)), y)
                                    /\ stage[c] = "closed" => Replay(Shown, y) = Shown
    BY <1>13 DEF Granted
  <2>2. Cat(y, N) \in Seq(Events)
    BY <1>5, <2>1, EventLaws
  <2>3. Line(c)' = Cat(Cat(x, One(Ack)), Cat(y, N))
    <3>1. /\ \A s, t, u \in Seq(Frames) : Cat(Cat(s, t), u) = Cat(s, Cat(t, u))
          /\ x \in Seq(Frames) /\ y \in Seq(Frames) /\ One(Ack) \in Seq(Frames)
          /\ Cat(x, One(Ack)) \in Seq(Frames)
      BY <2>1, FrameKinds, FrameLaws
    <3>2. Cat(Cat(Cat(x, One(Ack)), y), N) = Cat(Cat(x, One(Ack)), Cat(y, N))
      BY ONLY <1>5, <3>1
    <3> QED
      BY <1>10, <2>1, <3>2
  <2>4. stage[c] = "closed" => Replay(T, Cat(y, N)) = T
    <3>1. ASSUME stage[c] = "closed" PROVE Replay(T, Cat(y, N)) = T
      <4>1. N = D
        BY <1>6, <1>13, <3>1 DEF Granted, Told, Topics
      <4>2. Replay(Shown, y) = Shown
        BY <2>1, <3>1
      <4> QED
        BY <1>2, <2>1, <4>1, <4>2, OldNewsHarmless
    <3> QED
      BY <3>1
  <2>5. stage[c] = "closed" => Replay(Shown', Cat(y, N)) = Shown'
    BY <2>4 DEF T
  <2>6. Granted(c)'
    BY <1>3, <1>13, <2>2, <2>3, <2>5 DEF Granted
  <2> QED
    BY <1>3, <1>9, <2>6 DEF Channel
<1>14. CASE Syncing(c)
  <2>1. Line(c) \in Seq(Events) /\ Line(c)' \in Seq(Events) /\ N = D
    BY <1>5, <1>6, <1>10, <1>14, EventLaws DEF Syncing
  <2>2. /\ Cat(pending[c], Line(c)) \in Seq(Events)
        /\ Cat(pending[c], Cat(Line(c), D)) = Cat(Cat(pending[c], Line(c)), D)
    <3>1. /\ \A s, t, u \in Seq(Events) : Cat(Cat(s, t), u) = Cat(s, Cat(t, u))
          /\ \A s, t \in Seq(Events) : Cat(s, t) \in Seq(Events)
      BY EventLaws
    <3>2. /\ pending[c] \in Seq(Events) /\ Line(c) \in Seq(Events)
          /\ D \in Seq(Events)
      BY <1>2, <1>4, <2>1
    <3>3. Cat(pending[c], Cat(Line(c), D)) = Cat(Cat(pending[c], Line(c)), D)
      <4>1. \A s, t, u \in Seq(Events) : Cat(Cat(s, t), u) = Cat(s, Cat(t, u))
        BY <3>1
      <4> QED
        BY ONLY <3>2, <4>1
    <3> QED
      BY ONLY <3>1, <3>2, <3>3
  <2>3. Replay(T, Cat(Cat(pending[c], Line(c)), D)) = T
    BY <1>2, <1>14, <2>2, OldNewsHarmless DEF Syncing
  <2>4. Replay(Shown', Cat(pending'[c], Line(c)')) = Shown'
    BY <1>3, <1>10, <2>1, <2>2, <2>3 DEF T
  <2>5. Syncing(c)'
    BY <1>3, <1>14, <2>1, <2>4 DEF Syncing
  <2> QED
    BY <1>3, <1>9, <2>5 DEF Channel
<1>15. CASE Listed(c)
  <2>1. PICK x, y \in Seq(Events), l \in SUBSET Records :
          /\ Line(c) = Cat(Cat(x, One(ListingOf(l))), y)
          /\ Replay(l, Cat(pending[c], Cat(x, y))) = Shown
    BY <1>15 DEF Listed
  <2>2. N = D
    BY <1>6, <1>15 DEF Listed
  <2>3. Line(c)' = Cat(Cat(x, One(ListingOf(l))), Cat(y, D))
    <3>1. /\ \A s, t, u \in Seq(Frames) : Cat(Cat(s, t), u) = Cat(s, Cat(t, u))
          /\ x \in Seq(Frames) /\ y \in Seq(Frames) /\ D \in Seq(Frames)
          /\ One(ListingOf(l)) \in Seq(Frames)
          /\ Cat(x, One(ListingOf(l))) \in Seq(Frames)
      BY <1>2, <2>1, FrameKinds, FrameLaws
    <3>2. Cat(Cat(Cat(x, One(ListingOf(l))), y), D) = Cat(Cat(x, One(ListingOf(l))), Cat(y, D))
      BY ONLY <3>1
    <3> QED
      BY <1>10, <2>1, <2>2, <3>2
  <2> DEFINE e == Cat(pending[c], Cat(x, y))
  <2>4. /\ e \in Seq(Events) /\ Cat(y, D) \in Seq(Events)
        /\ Cat(pending[c], Cat(x, Cat(y, D))) = Cat(e, D)
    <3>1. /\ \A s, t, u \in Seq(Events) : Cat(Cat(s, t), u) = Cat(s, Cat(t, u))
          /\ \A s, t \in Seq(Events) : Cat(s, t) \in Seq(Events)
      BY EventLaws
    <3>2. /\ pending[c] \in Seq(Events) /\ x \in Seq(Events) /\ y \in Seq(Events)
          /\ D \in Seq(Events)
      BY <1>2, <1>4
    <3>3. /\ Cat(x, y) \in Seq(Events) /\ Cat(y, D) \in Seq(Events)
          /\ Cat(x, Cat(y, D)) = Cat(Cat(x, y), D)
      BY ONLY <3>1, <3>2
    <3>4. Cat(pending[c], Cat(Cat(x, y), D)) = Cat(Cat(pending[c], Cat(x, y)), D)
      <4>1. \A s, t, u \in Seq(Events) : Cat(Cat(s, t), u) = Cat(s, Cat(t, u))
        BY <3>1
      <4> QED
        BY ONLY <3>2, <3>3, <4>1
    <3>5. Cat(pending[c], Cat(x, y)) \in Seq(Events)
      BY ONLY <3>1, <3>2, <3>3
    <3> QED
      BY <3>3, <3>4, <3>5
  <2> HIDE DEF e
  <2>5. Replay(l, Cat(e, D)) = T
    <3>1. Replay(l, Cat(e, D)) = Replay(Replay(l, e), D)
      BY <1>2, <2>4, ReplayCat
    <3>2. Replay(l, e) = Shown
      BY <2>1 DEF e
    <3>3. Replay(Shown, D) = T
      BY <1>2, TellsReplayed
    <3> QED
      BY <3>1, <3>2, <3>3
  <2>6. Replay(l, Cat(pending'[c], Cat(x, Cat(y, D)))) = Shown'
    BY <1>3, <2>4, <2>5 DEF T
  <2>7. Listed(c)'
    BY <1>3, <1>15, <2>3, <2>4, <2>6 DEF Listed
  <2> QED
    BY <1>3, <1>9, <2>7 DEF Channel
<1>16. CASE Following(c)
  <2>1. Line(c) \in Seq(Events) /\ Line(c)' \in Seq(Events) /\ N = D
    BY <1>5, <1>6, <1>10, <1>16, EventLaws DEF Following
  <2>2. Replay(list[c], Cat(Line(c), D)) = T
    <3>1. Replay(list[c], Cat(Line(c), D)) = Replay(Replay(list[c], Line(c)), D)
      BY <1>2, <2>1, ReplayCat
    <3>2. Replay(Shown, D) = T
      BY <1>2, TellsReplayed
    <3> QED
      BY <1>16, <3>1, <3>2 DEF Following
  <2>3. Replay(list'[c], Line(c)') = Shown'
    BY <1>3, <1>10, <2>1, <2>2 DEF T
  <2>4. Following(c)'
    BY <1>3, <1>16, <2>1, <2>3 DEF Following
  <2> QED
    BY <1>3, <1>9, <2>4 DEF Channel
<1>17. Channel(c)'
  BY <1>11, <1>12, <1>13, <1>14, <1>15, <1>16 DEF Channel
<1>18. down' = [d \in Clients |-> down'[d]]
  BY <1>3
<1> QED
  BY <1>3, <1>9, <1>17, <1>18

LEMMA ChannelsInit == Init => Channels
<1> SUFFICES ASSUME Init PROVE Channels
  OBVIOUS
<1>1. MirrorInv
  BY DEF Init, MirrorInv, Names, OneKeyEach, Numbered
<1>2. ClientTypes
  BY FrameLaws, EventLaws DEF Init, ClientTypes
<1>3. \A c \in Clients : Silent(c)
  BY DEF Init, Silent
<1> QED
  BY <1>1, <1>2, <1>3 DEF Channels, Channel

LEMMA ChannelsStep ==
  ASSUME Channels, [Next]_vars
  PROVE  Channels'
<1>1. MirrorInv'
  BY MirrorStep DEF Channels
<1>2. ASSUME NEW c \in Clients, Serve(c) \/ Client(c) PROVE Turned(c)
  <2>1. MirrorInv /\ ClientTypes /\ Channel(c)
    BY DEF Channels
  <2>2. CASE Serve(c)
    BY <2>1, <2>2, ServeTurn
  <2>3. CASE Start(c)
    BY <2>1, <2>3, StartTurn
  <2>4. CASE Read(c)
    BY <2>1, <2>4, ReadTurn
  <2>5. CASE PumpEvent(c)
    BY <2>1, <2>5, EventTurn
  <2>6. CASE PumpAck(c)
    BY <2>1, <2>6, AckTurn
  <2>7. CASE PumpListing(c)
    BY <2>1, <2>7, ListingTurn
  <2>8. CASE OnFdReady(c)
    BY <2>1, <2>8, ReadyTurn
  <2>9. CASE StartFails(c) \/ ConnectionLost(c)
    BY <2>1, <2>9, EndTurn
  <2> QED
    BY <1>2, <2>2, <2>3, <2>4, <2>5, <2>6, <2>7, <2>8, <2>9 DEF Client
<1>3. ASSUME NEW c \in Clients, Turned(c) PROVE ClientTypes' /\ \A d \in Clients : Channel(d)'
  <2>1. ASSUME NEW d \in Clients, d # c PROVE Channel(d)'
    <3>1. Channel(d) /\ Alone(d) /\ snapshot' = snapshot
      BY <1>3, <2>1 DEF Turned, Channels
    <3> QED
      BY <3>1, ChannelAlone
  <2> QED
    BY <1>3, <2>1 DEF Turned
<1>4. CASE Published
  <2>1. ASSUME NEW c \in Clients
        PROVE  /\ Channel(c)' /\ down'[c] \in Seq(Frames)
               /\ UNCHANGED <<subscribed, asked, rbuf, stage, pending, list>>
               /\ down' = [d \in Clients |-> down'[d]]
    BY <1>4, PublishedTurn DEF Channels
  <2>2. /\ UNCHANGED <<subscribed, asked, rbuf, stage, pending, list>>
        /\ down' = [d \in Clients |-> down'[d]]
    BY <1>4 DEF Published, SetSnapshot, client
  <2>3. down' \in [Clients -> Seq(Frames)]
    BY <2>1, <2>2
  <2>4. ClientTypes'
    BY <2>2, <2>3 DEF Channels, ClientTypes
  <2> QED
    BY <1>1, <2>1, <2>4 DEF Channels
<1>5. CASE UNCHANGED <<snapshot, subscribed, asked, down, client>>
  <2>1. ClientTypes'
    BY <1>5 DEF Channels, ClientTypes, client
  <2>2. ASSUME NEW c \in Clients PROVE Channel(c)'
    <3>1. Channel(c) /\ Alone(c) /\ snapshot' = snapshot
      BY <1>5 DEF Channels, Alone, client
    <3> QED
      BY <3>1, ChannelAlone
  <2> QED
    BY <1>1, <2>1, <2>2 DEF Channels
<1>6. CASE Compositor
  BY <1>4, <1>5, <1>6, NewsStep DEF Channels
<1>7. CASE UNCHANGED vars
  BY <1>5, <1>7 DEF vars, service
<1>8. CASE \E c \in Clients : Serve(c) \/ Client(c)
  BY <1>1, <1>2, <1>3, <1>8 DEF Channels
<1> QED
  BY <1>6, <1>7, <1>8 DEF Next

LEMMA HasOne ==
  \A e, x : Has(One(e), x) <=> x = e
<1>1. \A e : Len(One(e)) = 1 /\ One(e)[1] = e
  BY DEF One
<1> QED
  BY <1>1 DEF Has

LEMMA ChannelsExact == Channels => MirrorExact
<1> SUFFICES ASSUME Channels, NEW c \in Clients
             PROVE  /\ stage[c] = "live" => Replay(list[c], Arrived(c)) = Shown
                    /\ \A l \in Listings(c) : Replay(l, pending[c] \o Arrived(c)) = Shown
  BY DEF MirrorExact, Shown
<1>1. /\ Channel(c) /\ Line(c) \in Seq(Frames) /\ Arriving(c) = Line(c)
      /\ Arrived(c) = Only(Line(c), Events) /\ pending[c] \in Seq(Events)
  BY AtClient DEF Channels, Arriving, Arrived, Line, Cat
<1>2. stage[c] = "live" => Replay(list[c], Arrived(c)) = Shown
  <2>1. ASSUME stage[c] = "live" PROVE Following(c)
    BY <1>1, <2>1 DEF Channel, Silent, Asking, Granted, Syncing, Listed, Topics
  <2>2. ASSUME Following(c) PROVE Only(Line(c), Events) = Line(c)
    BY <2>2, OnlyAll DEF Following
  <2> QED
    BY <1>1, <2>1, <2>2 DEF Following
<1>3. ASSUME NEW l \in Listings(c) PROVE Replay(l, pending[c] \o Arrived(c)) = Shown
  <2>1. PICK f \in Frames : Has(Line(c), f) /\ f.topic = "listing" /\ f.records = l
    <3>1. PICK i \in DOMAIN Line(c) : Line(c)[i].topic = "listing" /\ Line(c)[i].records = l
      BY <1>1, <1>3 DEF Listings
    <3>2. i \in 1 .. Len(Line(c)) /\ Line(c)[i] \in Frames
      BY <1>1, <3>1
    <3> QED
      BY <3>1, <3>2 DEF Has
  <2>2. f \notin Events /\ f # Ack
    BY <2>1, FrameKinds
  <2>3. Line(c) \notin Seq(Events)
    <3>1. ASSUME Line(c) \in Seq(Events) PROVE FALSE
      <4>1. PICK i \in 1 .. Len(Line(c)) : Line(c)[i] = f
        BY <2>1 DEF Has
      <4>2. Line(c)[i] \in Events
        BY <3>1
      <4> QED
        BY <2>2, <4>1, <4>2
    <3> QED
      BY <3>1
  <2>4. ASSUME NEW x \in Seq(Events), NEW y \in Seq(Events), NEW a \in Frames,
               Line(c) = Cat(Cat(x, One(a)), y)
        PROVE  f = a
    <3>1. /\ x \in Seq(Frames) /\ y \in Seq(Frames) /\ One(a) \in Seq(Frames)
          /\ Cat(x, One(a)) \in Seq(Frames)
      <4>1. x \in Seq(Frames) /\ y \in Seq(Frames) /\ One(a) \in Seq(Frames)
        BY FrameLaws
      <4>2. \A s, t \in Seq(Frames) : Cat(s, t) \in Seq(Frames)
        BY FrameLaws
      <4> QED
        BY <4>1, <4>2
    <3>2. \A s, t \in Seq(Frames) : \A e : Has(Cat(s, t), e) <=> Has(s, e) \/ Has(t, e)
      BY ONLY HasCat
    <3>3. Has(x, f) \/ Has(One(a), f) \/ Has(y, f)
      BY <2>1, <2>4, <3>1, <3>2
    <3>4. ~Has(x, f) /\ ~Has(y, f)
      BY <2>2 DEF Has
    <3> QED
      BY <3>3, <3>4, HasOne
  <2>5. ~Granted(c)
    BY <2>2, <2>4, FrameKinds DEF Granted
  <2>6. Listed(c)
    <3>1. ~Silent(c)
      <4>1. Cat(<<>>, <<>>) = <<>> /\ <<>> \in Seq(Events)
        BY FrameLaws, EventLaws
      <4> QED
        BY <2>3, <4>1 DEF Silent, Line
    <3> QED
      BY <1>1, <2>3, <2>5, <3>1 DEF Channel, Asking, Syncing, Following
  <2>7. PICK x, y \in Seq(Events), m \in SUBSET Records :
          /\ Line(c) = Cat(Cat(x, One(ListingOf(m))), y)
          /\ Replay(m, Cat(pending[c], Cat(x, y))) = Shown
    BY <2>6 DEF Listed
  <2>8. l = m /\ ListingOf(m) \in Frames /\ ListingOf(m) \notin Events
    BY <2>1, <2>4, <2>7, FrameKinds
  <2>9. Only(Line(c), Events) = Cat(x, y)
    <3>1. /\ x \in Seq(Frames) /\ y \in Seq(Frames) /\ One(ListingOf(m)) \in Seq(Frames)
          /\ Cat(x, One(ListingOf(m))) \in Seq(Frames)
      <4>1. x \in Seq(Frames) /\ y \in Seq(Frames) /\ One(ListingOf(m)) \in Seq(Frames)
        BY <2>8, FrameLaws
      <4>2. \A s, t \in Seq(Frames) : Cat(s, t) \in Seq(Frames)
        BY FrameLaws
      <4> QED
        BY <4>1, <4>2
    <3>2. \A s, t \in Seq(Frames) : Only(Cat(s, t), Events) = Cat(Only(s, Events), Only(t, Events))
      BY ONLY OnlyCat
    <3>3. Only(x, Events) = x /\ Only(y, Events) = y
      BY OnlyAll
    <3>4. Only(One(ListingOf(m)), Events) = <<>>
      BY <2>8, OnlyOfOne
    <3>5. Cat(x, <<>>) = x
      BY EventLaws
    <3> QED
      BY <2>7, <3>1, <3>2, <3>3, <3>4, <3>5
  <2> QED
    BY <1>1, <2>7, <2>8, <2>9 DEF Cat
<1> QED
  BY <1>2, <1>3

(* Whatever mixture of listing, buffered, unread and travelling events a    *)
(* client holds, once it has applied them its mirror is the snapshot:       *)
(* events sent before the listing do no harm, and those sent after it tell  *)
(* every change.                                                            *)
THEOREM MirrorsExact == Spec => []MirrorExact
<1>1. Channels /\ [Next]_vars => Channels'
  BY ChannelsStep
<1> QED
  BY <1>1, ChannelsInit, ChannelsExact, PTL DEF Spec

Bounded == serials \in 0 .. MaxWindows /\ changes \in 0 .. MaxChanges

LEMMA BoundedStep ==
  ASSUME Bounded, [Next]_vars
  PROVE  Bounded'
<1>1. CASE \E h \in Handles : OnToplevel(h)
  BY <1>1, BoundsAssumption DEF OnToplevel, Bounded
<1>2. CASE \E i \in DOMAIN toplevels : \/ \E a \in Apps : OnAppId(i, a)
                                       \/ \E t \in Titles : OnTitle(i, t)
  BY <1>2, BoundsAssumption DEF OnAppId, OnTitle, Change, Bounded
<1>3. CASE \/ \E i \in DOMAIN toplevels : OnClosed(i)
           \/ OnDone
           \/ UNCHANGED vars
           \/ \E c \in Clients : Serve(c) \/ Client(c)
  <2>1. UNCHANGED <<serials, changes>>
    BY <1>3 DEF OnClosed, OnDone, vars, Serve, Client, Start, Read, Pump, PumpEvent, PumpAck,
                PumpListing, OnFdReady, StartFails, ConnectionLost, Ends, tracker
  <2> QED
    BY <2>1 DEF Bounded
<1> QED
  BY <1>1, <1>2, <1>3 DEF Next, Compositor

(* The lists hold records, what travels are frames, and what a client keeps *)
(* for later are events.                                                    *)
THEOREM MirrorTypes == Spec => []TypeOK
<1>1. Init => Bounded
  BY BoundsAssumption DEF Init, Bounded
<1>2. Bounded /\ [Next]_vars => Bounded'
  BY BoundedStep
<1>3. Channels /\ [Next]_vars => Channels'
  BY ChannelsStep
<1>4. Channels /\ Bounded => TypeOK
  BY DEF Channels, MirrorInv, ClientTypes, Bounded, TypeOK
<1> QED
  BY <1>1, <1>2, <1>3, <1>4, ChannelsInit, PTL DEF Spec
=============================================================================
