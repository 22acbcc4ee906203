---------------------------- MODULE PostTitleProofs ----------------------------
(***************************************************************************)
(* What is proved of the loops over sequences (Subsequences) and of the    *)
(* titles made with them (PostTitle), for every text.                      *)
(*                                                                         *)
(* A loop is a recursive function, and what it computes follows by         *)
(* induction.  The induction theorems of the library take the induction    *)
(* hypothesis as an operator, which no prover at hand can instantiate;     *)
(* NatSetInduction takes it as the set of the numbers that satisfy it.     *)
(***************************************************************************)
EXTENDS PostTitle, WellFoundedInduction, SequenceTheorems, TLAPS

------------------------------------------------------------------------------
(* Induction and recursion.                                                  *)

\* A non-empty set of natural numbers has a least element.
LEMMA LeastNat ==
  ASSUME NEW T, T \subseteq Nat, T # {}
  PROVE  \E x \in T : \A y \in T : x =< y
<1>1. IsWellFoundedOn(OpToRel(<, Nat), Nat)
  BY NatLessThanWellFounded
<1>2. \E x \in T : \A y \in T : ~ (<<y, x>> \in OpToRel(<, Nat))
  BY <1>1, WFMin
<1>3. \A x, y \in Nat : y < x => <<y, x>> \in OpToRel(<, Nat)
  BY DEF OpToRel
<1>4. \E x \in T : \A y \in T : ~ (y < x)
  BY <1>2, <1>3
<1> QED
  BY <1>4

\* A set that has 0, and n + 1 whenever it has n, has every natural number.
LEMMA NatSetInduction ==
  ASSUME NEW S, 0 \in S, \A n \in Nat : n \in S => n + 1 \in S
  PROVE  Nat \subseteq S
<1> SUFFICES ASSUME Nat \ S # {} PROVE FALSE
  OBVIOUS
<1>1. PICK x \in Nat \ S : \A y \in Nat \ S : x =< y
  BY LeastNat
<1>2. x - 1 \in Nat /\ x - 1 \in S
  BY <1>1
<1> QED
  BY <1>1, <1>2

\* The values of a loop of n rounds that starts at b and goes on with step.
Rounds(n, T, b, step) ==
  {f \in [0..n -> T] : f[0] = b /\ \A i \in 1..n : f[i] = step[i][f[i - 1]]}

\* Every loop has values.
LEMMA RoundsExist ==
  ASSUME NEW n \in Nat, NEW T, NEW b \in T, NEW step \in [1..n -> [T -> T]]
  PROVE  Rounds(n, T, b, step) # {}
<1> DEFINE S == {m \in Nat : m =< n =>
                   \E f \in [0..m -> T] : f[0] = b /\ \A i \in 1..m : f[i] = step[i][f[i - 1]]}
<1>1. 0 \in S
  <2> DEFINE g == [i \in 0..0 |-> b]
  <2>1. g \in [0..0 -> T] /\ g[0] = b /\ \A i \in 1..0 : g[i] = step[i][g[i - 1]]
    OBVIOUS
  <2> HIDE DEF g
  <2> QED
    BY <2>1
<1>2. ASSUME NEW m \in Nat, m \in S PROVE m + 1 \in S
  <2> SUFFICES ASSUME m + 1 =< n
               PROVE  \E f \in [0..m + 1 -> T] :
                        f[0] = b /\ \A i \in 1..m + 1 : f[i] = step[i][f[i - 1]]
    OBVIOUS
  <2>1. PICK f \in [0..m -> T] : f[0] = b /\ \A i \in 1..m : f[i] = step[i][f[i - 1]]
    BY <1>2
  <2> DEFINE g == [i \in 0..m + 1 |-> IF i =< m THEN f[i] ELSE step[m + 1][f[m]]]
  <2>2. step[m + 1] \in [T -> T] /\ f[m] \in T
    BY <2>1
  <2>3. g \in [0..m + 1 -> T]
    BY <2>1, <2>2
  <2>4. g[0] = b
    BY <2>1
  <2>5. ASSUME NEW i \in 1..m + 1 PROVE g[i] = step[i][g[i - 1]]
    BY <2>1, <2>5
  <2> QED
    BY <2>3, <2>4, <2>5
<1>3. n \in S
  <2> HIDE DEF S
  <2> QED
    BY <1>1, <1>2, NatSetInduction
<1> QED
  BY <1>3 DEF Rounds

------------------------------------------------------------------------------
(* Picked subsequences.                                                      *)

\* The values of the loop in Pick.
Picking(S, s, keep) ==
  {f \in [0..Len(s) -> Seq(S)] :
     /\ f[0] = <<>>
     /\ \A i \in 1..Len(s) : f[i] = IF i \in keep THEN Append(f[i - 1], s[i]) ELSE f[i - 1]
     /\ Pick(s, keep) = f[Len(s)]}

\* Pick is what its definition says: the function defined by recursion exists.
LEMMA PickLoop ==
  ASSUME NEW S, NEW s \in Seq(S), NEW keep
  PROVE  Picking(S, s, keep) # {}
<1> DEFINE U == Seq(S)
           n == Len(s)
           N(t, i) == IF i \in keep THEN Append(t, s[i]) ELSE t
           P(g) == g = [i \in 0..n |-> IF i = 0 THEN <<>> ELSE N(g[i - 1], i)]
           D == [i \in 1..n |-> [t \in U |-> N(t, i)]]
           p == CHOOSE g : P(g)
<1>1. n \in Nat /\ <<>> \in U
  OBVIOUS
<1>2. \A i \in 1..n, t \in U : N(t, i) \in U
  OBVIOUS
<1>3. Pick(s, keep) = p[n]
  BY DEF Pick
<1> HIDE DEF U, n, N
<1>4. D \in [1..n -> [U -> U]]
  BY <1>2
<1>5. PICK f \in [0..n -> U] : f[0] = <<>> /\ \A i \in 1..n : f[i] = D[i][f[i - 1]]
  <2> HIDE DEF D
  <2>1. Rounds(n, U, <<>>, D) # {}
    BY <1>1, <1>4, RoundsExist
  <2> QED
    BY <2>1 DEF Rounds
<1>6. ASSUME NEW i \in 1..n PROVE f[i - 1] \in U /\ f[i] = N(f[i - 1], i)
  <2>1. f[i - 1] \in U
    BY <1>1
  <2> QED
    BY <1>5, <2>1
<1>7. P(f)
  <2> DEFINE c(i) == IF i = 0 THEN <<>> ELSE N(f[i - 1], i)
  <2>1. \A i \in 0..n : f[i] = c(i)
    <3> TAKE i \in 0..n
    <3>1. CASE i = 0
      BY <3>1, <1>5
    <3>2. CASE i # 0
      <4>1. i \in 1..n
        BY <3>2, <1>1
      <4> QED
        BY <3>2, <4>1, <1>6
    <3> QED
      BY <3>1, <3>2
  <2> HIDE DEF c
  <2>2. f = [i \in 0..n |-> c(i)]
    BY <2>1
  <2> QED
    BY <2>2 DEF c
<1>8. P(p)
  <2> HIDE DEF P
  <2> QED
    BY <1>7
<1> HIDE DEF p
<1>9. \A i \in 0..n : p[i] = f[i]
  <2> DEFINE E == {i \in Nat : i =< n => p[i] = f[i]}
  <2>1. 0 \in E
    BY <1>1, <1>5, <1>8
  <2>2. ASSUME NEW i \in Nat, i \in E PROVE i + 1 \in E
    <3> SUFFICES ASSUME i + 1 =< n PROVE p[i + 1] = f[i + 1]
      OBVIOUS
    <3>1. p[i + 1] = N(p[i], i + 1)
      BY <1>1, <1>8
    <3>2. f[i + 1] = N(f[i], i + 1)
      BY <1>1, <1>6
    <3> QED
      BY <3>1, <3>2, <2>2, <1>1
  <2> HIDE DEF E
  <2>3. Nat \subseteq E
    BY <2>1, <2>2, NatSetInduction
  <2> QED
    BY <2>3, <1>1 DEF E
<1>10. Pick(s, keep) = f[n]
  BY <1>1, <1>3, <1>9
<1> QED
  BY <1>5, <1>6, <1>10 DEF U, n, N, Picking

\* What is picked are the elements at the places to keep, and all of them.
LEMMA PickElements ==
  ASSUME NEW S, NEW s \in Seq(S), NEW keep
  PROVE  /\ Pick(s, keep) \in Seq(S)
         /\ Len(Pick(s, keep)) =< Len(s)
         /\ \A k \in 1..Len(Pick(s, keep)) :
              \E i \in 1..Len(s) : i \in keep /\ Pick(s, keep)[k] = s[i]
         /\ \A i \in 1..Len(s) : i \in keep =>
              \E k \in 1..Len(Pick(s, keep)) : Pick(s, keep)[k] = s[i]
<1> DEFINE n == Len(s)
           Only(t, m) == \A k \in 1..Len(t) : \E i \in 1..m : i \in keep /\ t[k] = s[i]
           Every(t, m) == \A i \in 1..m : i \in keep => \E k \in 1..Len(t) : t[k] = s[i]
           Right(t, m) == Len(t) =< m /\ Only(t, m) /\ Every(t, m)
<1>1. PICK f \in Picking(S, s, keep) : TRUE
  BY PickLoop
<1>2. f \in [0..n -> Seq(S)] /\ f[0] = <<>> /\ n \in Nat /\ Pick(s, keep) = f[n]
  BY DEF Picking
<1>3. \A i \in 1..n : f[i] = IF i \in keep THEN Append(f[i - 1], s[i]) ELSE f[i - 1]
  BY DEF Picking
<1>4. \A i \in 1..n : s[i] \in S
  OBVIOUS
<1> HIDE DEF n
<1> DEFINE E == {m \in Nat : m =< n => Right(f[m], m)}
<1>5. 0 \in E
  BY <1>2
<1>6. ASSUME NEW m \in Nat, m \in E PROVE m + 1 \in E
  <2> SUFFICES ASSUME m + 1 =< n PROVE Right(f[m + 1], m + 1)
    OBVIOUS
  <2> DEFINE t == f[m]
  <2>1. t \in Seq(S) /\ Right(t, m) /\ s[m + 1] \in S /\ Len(t) \in Nat
    BY <1>2, <1>4, <1>6
  <2>2. f[m + 1] = IF m + 1 \in keep THEN Append(t, s[m + 1]) ELSE t
    BY <1>2, <1>3
  <2>3. CASE m + 1 \in keep
    <3> DEFINE u == Append(t, s[m + 1])
    <3> HIDE DEF t
    <3>1. Len(u) = Len(t) + 1 /\ u[Len(t) + 1] = s[m + 1] /\ \A k \in 1..Len(t) : u[k] = t[k]
      BY <2>1
    <3> HIDE DEF u
    <3>2. Only(u, m + 1)
      <4> TAKE k \in 1..Len(u)
      <4>1. CASE k \in 1..Len(t)
        <5>1. PICK i \in 1..m : i \in keep /\ t[k] = s[i]
          BY <2>1, <4>1
        <5> QED
          BY <3>1, <4>1, <5>1
      <4>2. CASE k = Len(t) + 1
        BY <2>3, <3>1, <4>2
      <4> QED
        BY <2>1, <3>1, <4>1, <4>2
    <3>3. Every(u, m + 1)
      <4> TAKE i \in 1..m + 1
      <4>1. CASE i \in 1..m
        <5> SUFFICES ASSUME i \in keep PROVE \E k \in 1..Len(u) : u[k] = s[i]
          OBVIOUS
        <5>1. PICK k \in 1..Len(t) : t[k] = s[i]
          BY <2>1, <4>1
        <5> QED
          BY <2>1, <3>1, <5>1
      <4>2. CASE i = m + 1
        BY <2>1, <3>1, <4>2
      <4> QED
        BY <4>1, <4>2
    <3>4. f[m + 1] = u
      BY <2>2, <2>3 DEF u
    <3> HIDE DEF Only, Every
    <3> QED
      BY <2>1, <3>1, <3>2, <3>3, <3>4
  <2>4. CASE m + 1 \notin keep
    <3>1. f[m + 1] = t
      BY <2>2, <2>4
    <3> HIDE DEF t
    <3>2. Only(t, m + 1)
      BY <2>1
    <3>3. Every(t, m + 1)
      BY <2>1, <2>4
    <3> QED
      BY <2>1, <3>1, <3>2, <3>3
  <2> QED
    BY <2>3, <2>4
<1>7. Right(f[n], n)
  <2>1. n \in E
    <3> HIDE DEF E
    <3> QED
      BY <1>2, <1>5, <1>6, NatSetInduction
  <2> QED
    BY <2>1, <1>2
<1> QED
  BY <1>2, <1>7 DEF n

\* Where every place is kept, nothing changes.
LEMMA PickAll ==
  ASSUME NEW S, NEW s \in Seq(S), NEW keep, 1..Len(s) \subseteq keep
  PROVE  Pick(s, keep) = s
<1> DEFINE n == Len(s)
<1>1. PICK f \in Picking(S, s, keep) : TRUE
  BY PickLoop
<1>2. f \in [0..n -> Seq(S)] /\ f[0] = <<>> /\ n \in Nat /\ Pick(s, keep) = f[n]
  BY DEF Picking
<1>3. \A i \in 1..n : f[i] = Append(f[i - 1], s[i])
  BY DEF Picking
<1>4. \A i \in 1..n : s[i] \in S
  OBVIOUS
<1> DEFINE Same(t, m) == Len(t) = m /\ \A k \in 1..m : t[k] = s[k]
           E == {m \in Nat : m =< n => Same(f[m], m)}
<1> HIDE DEF n
<1>5. 0 \in E
  BY <1>2
<1>6. ASSUME NEW m \in Nat, m \in E PROVE m + 1 \in E
  <2> SUFFICES ASSUME m + 1 =< n PROVE Same(f[m + 1], m + 1)
    OBVIOUS
  <2>1. f[m] \in Seq(S) /\ Same(f[m], m) /\ s[m + 1] \in S
    BY <1>2, <1>4, <1>6
  <2>2. f[m + 1] = Append(f[m], s[m + 1])
    <3>1. m + 1 \in 1..n /\ (m + 1) - 1 = m
      BY <1>2
    <3> QED
      BY <1>3, <3>1
  <2> QED
    BY <2>1, <2>2
<1>7. Same(f[n], n)
  <2>1. n \in E
    <3> HIDE DEF E
    <3> QED
      BY <1>2, <1>5, <1>6, NatSetInduction
  <2> QED
    BY <2>1, <1>2
<1> QED
  BY <1>2, <1>7, SeqEqual DEF n

\* Where one place is kept, its element is all that remains.
LEMMA PickOne ==
  ASSUME NEW S, NEW s \in Seq(S), NEW c \in 1..Len(s)
  PROVE  Pick(s, {c}) = <<s[c]>>
<1> DEFINE n == Len(s)
<1>1. PICK f \in Picking(S, s, {c}) : TRUE
  BY PickLoop
<1>2. f \in [0..n -> Seq(S)] /\ f[0] = <<>> /\ n \in Nat /\ Pick(s, {c}) = f[n]
  BY DEF Picking
<1>3. \A i \in 1..n : f[i] = IF i = c THEN Append(f[i - 1], s[i]) ELSE f[i - 1]
  BY DEF Picking
<1> DEFINE E == {m \in Nat : m =< n => f[m] = IF m < c THEN <<>> ELSE <<s[c]>>}
<1> HIDE DEF n
<1>4. c \in Nat \ {0} /\ c =< n
  BY DEF n
<1>5. 0 \in E
  BY <1>2, <1>4
<1>6. ASSUME NEW m \in Nat, m \in E PROVE m + 1 \in E
  <2> SUFFICES ASSUME m + 1 =< n PROVE f[m + 1] = IF m + 1 < c THEN <<>> ELSE <<s[c]>>
    OBVIOUS
  <2>1. f[m] = IF m < c THEN <<>> ELSE <<s[c]>>
    BY <1>2, <1>6
  <2>2. f[m + 1] = IF m + 1 = c THEN Append(f[m], s[m + 1]) ELSE f[m]
    BY <1>2, <1>3
  <2>3. Append(<<>>, s[c]) = <<s[c]>>
    OBVIOUS
  <2>4. CASE m + 1 < c
    BY <1>4, <2>1, <2>2, <2>4
  <2>5. CASE m + 1 = c
    BY <1>4, <2>1, <2>2, <2>3, <2>5
  <2>6. CASE m + 1 > c
    BY <1>4, <2>1, <2>2, <2>6
  <2> QED
    BY <1>4, <2>4, <2>5, <2>6
<1>7. n \in E
  <2> HIDE DEF E
  <2> QED
    BY <1>2, <1>5, <1>6, NatSetInduction
<1> QED
  BY <1>2, <1>4, <1>7

------------------------------------------------------------------------------
(* Sequences one after the other.                                            *)

\* The values of the loop in FlattenSeq, and the empty sequence before it.
Flattening(S, ss) ==
  {f \in [0..Len(ss) -> Seq(S)] :
     /\ f[0] = <<>>
     /\ \A i \in 1..Len(ss) : f[i] = f[i - 1] \o ss[i]
     /\ FlattenSeq(ss) = f[Len(ss)]}

\* FlattenSeq is what its definition says.
LEMMA FlattenLoop ==
  ASSUME NEW S, NEW ss \in Seq(Seq(S))
  PROVE  Flattening(S, ss) # {}
<1> DEFINE U == Seq(S)
           n == Len(ss)
           P(g) == g = [i \in 1..n |-> IF i = 1 THEN ss[i] ELSE g[i - 1] \o ss[i]]
           D == [i \in 1..n |-> [t \in U |-> t \o ss[i]]]
           p == CHOOSE g : P(g)
<1>1. n \in Nat /\ <<>> \in U
  OBVIOUS
<1>2. \A i \in 1..n : ss[i] \in U
  OBVIOUS
<1>3. \A t, u \in U : t \o u \in U
  OBVIOUS
<1>4. \A t \in U : <<>> \o t = t
  OBVIOUS
<1>5. FlattenSeq(ss) = IF n = 0 THEN ss ELSE p[n]
  BY DEF FlattenSeq
<1>6. n = 0 => ss = <<>>
  OBVIOUS
<1> HIDE DEF U, n
<1>7. D \in [1..n -> [U -> U]]
  BY <1>2, <1>3
<1>8. PICK f \in [0..n -> U] : f[0] = <<>> /\ \A i \in 1..n : f[i] = D[i][f[i - 1]]
  <2> HIDE DEF D
  <2>1. Rounds(n, U, <<>>, D) # {}
    BY <1>1, <1>7, RoundsExist
  <2> QED
    BY <2>1 DEF Rounds
<1>9. ASSUME NEW i \in 1..n PROVE f[i - 1] \in U /\ f[i] = f[i - 1] \o ss[i]
  <2>1. f[i - 1] \in U
    BY <1>1
  <2> QED
    BY <1>8, <2>1
<1>10. 1 \in 1..n => f[1] = ss[1]
  <2> SUFFICES ASSUME 1 \in 1..n PROVE f[1] = ss[1]
    OBVIOUS
  <2>1. f[1] = f[1 - 1] \o ss[1]
    BY <1>9
  <2>2. f[1 - 1] = <<>>
    BY <1>8
  <2> QED
    BY <2>1, <2>2, <1>2, <1>4
<1> DEFINE h == [i \in 1..n |-> f[i]]
<1>11. P(h)
  <2> DEFINE c(i) == IF i = 1 THEN ss[i] ELSE h[i - 1] \o ss[i]
  <2>1. \A i \in 1..n : h[i] = c(i)
    <3> TAKE i \in 1..n
    <3>1. CASE i = 1
      BY <3>1, <1>10
    <3>2. CASE i # 1
      <4>1. i - 1 \in 1..n
        BY <3>2, <1>1
      <4> QED
        BY <3>2, <4>1, <1>9
    <3> QED
      BY <3>1, <3>2
  <2> HIDE DEF c
  <2>2. h = [i \in 1..n |-> c(i)]
    BY <2>1
  <2> QED
    BY <2>2 DEF c
<1>12. \A i \in 1..n : p[i] = IF i = 1 THEN ss[i] ELSE p[i - 1] \o ss[i]
  <2>1. P(p)
    <3> HIDE DEF P
    <3> QED
      BY <1>11
  <2> HIDE DEF p
  <2> QED
    BY <2>1
<1> HIDE DEF p, P, D, h
<1>13. \A i \in 1..n : p[i] = f[i]
  <2> DEFINE E == {i \in Nat : i \in 1..n => p[i] = f[i]}
  <2>1. 0 \in E
    OBVIOUS
  <2>2. ASSUME NEW i \in Nat, i \in E PROVE i + 1 \in E
    <3> SUFFICES ASSUME i + 1 \in 1..n PROVE p[i + 1] = f[i + 1]
      OBVIOUS
    <3>1. CASE i = 0
      BY <3>1, <1>12, <1>10
    <3>2. CASE i # 0
      <4>1. p[i + 1] = p[i] \o ss[i + 1]
        <5>1. i + 1 # 1 /\ (i + 1) - 1 = i
          BY <3>2
        <5> QED
          BY <5>1, <1>12
      <4>2. f[i + 1] = f[i] \o ss[i + 1]
        BY <1>1, <1>9
      <4> QED
        <5>1. p[i] = f[i]
          BY <3>2, <2>2, <1>1
        <5> QED
          BY <4>1, <4>2, <5>1
    <3> QED
      BY <3>1, <3>2
  <2> HIDE DEF E
  <2>3. Nat \subseteq E
    BY <2>1, <2>2, NatSetInduction
  <2> QED
    BY <2>3, <1>1 DEF E
<1>14. FlattenSeq(ss) = f[n]
  BY <1>1, <1>5, <1>6, <1>8, <1>13
<1> QED
  BY <1>8, <1>9, <1>14 DEF U, n, Flattening

\* A flattened sequence, and the flattened sequence of one more.
LEMMA FlattenAppend ==
  ASSUME NEW S, NEW ss \in Seq(Seq(S)), NEW t \in Seq(S)
  PROVE  /\ FlattenSeq(ss) \in Seq(S)
         /\ FlattenSeq(Append(ss, t)) = FlattenSeq(ss) \o t
<1> DEFINE n == Len(ss)
           st == Append(ss, t)
<1>1. PICK f \in Flattening(S, ss) : TRUE
  BY FlattenLoop
<1>2. f \in [0..n -> Seq(S)] /\ f[0] = <<>> /\ n \in Nat /\ FlattenSeq(ss) = f[n]
  BY DEF Flattening
<1>3. \A i \in 1..n : f[i] = f[i - 1] \o ss[i]
  BY DEF Flattening
<1>4. st \in Seq(Seq(S)) /\ Len(st) = n + 1 /\ st[n + 1] = t /\ \A i \in 1..n : st[i] = ss[i]
  OBVIOUS
<1> HIDE DEF n, st
<1>5. PICK g \in Flattening(S, st) : TRUE
  BY <1>4, FlattenLoop
<1>6. g[0] = <<>> /\ FlattenSeq(st) = g[n + 1]
  BY <1>4 DEF Flattening
<1>7. \A i \in 1..n + 1 : g[i] = g[i - 1] \o st[i]
  BY <1>4 DEF Flattening
<1> DEFINE E == {m \in Nat : m =< n => g[m] = f[m]}
<1>8. 0 \in E
  BY <1>2, <1>6
<1>9. ASSUME NEW m \in Nat, m \in E PROVE m + 1 \in E
  <2> SUFFICES ASSUME m + 1 =< n PROVE g[m + 1] = f[m + 1]
    OBVIOUS
  <2>1. m + 1 \in 1..n /\ m + 1 \in 1..n + 1 /\ (m + 1) - 1 = m /\ g[m] = f[m]
    BY <1>2, <1>9
  <2> HIDE DEF E
  <2>2. f[m + 1] = f[m] \o ss[m + 1]
    BY <1>3, <2>1
  <2>3. g[m + 1] = g[m] \o st[m + 1]
    BY <1>7, <2>1
  <2> QED
    BY <1>4, <2>1, <2>2, <2>3
<1>10. n \in E
  <2> HIDE DEF E
  <2> QED
    BY <1>2, <1>8, <1>9, NatSetInduction
<1>11. g[n + 1] = g[n] \o st[n + 1]
  <2>1. n + 1 \in 1..n + 1 /\ (n + 1) - 1 = n
    BY <1>2
  <2> QED
    BY <1>7, <2>1
<1>12. g[n] = f[n]
  BY <1>2, <1>10
<1>13. f[n] \in Seq(S)
  BY <1>2
<1> HIDE DEF E
<1>14. FlattenSeq(st) = FlattenSeq(ss) \o t
  BY <1>2, <1>4, <1>6, <1>11, <1>12
<1> QED
  BY <1>2, <1>13, <1>14 DEF st

\* One sequence is itself.
LEMMA FlattenOne ==
  ASSUME NEW S, NEW t \in Seq(S)
  PROVE  FlattenSeq(<<t>>) = t
<1>1. <<>> \in Seq(Seq(S)) /\ Append(<<>>, t) = <<t>> /\ <<>> \o t = t
  OBVIOUS
<1>2. FlattenSeq(<<>>) = <<>>
  BY DEF FlattenSeq
<1> QED
  BY <1>1, <1>2, FlattenAppend

------------------------------------------------------------------------------
(* The first and the last place of some.                                     *)

\* Min is the least element of a set of places.
LEMMA MinPlace ==
  ASSUME NEW T, T \subseteq Nat, T # {}
  PROVE  Min(T) \in T /\ \A x \in T : Min(T) =< x
<1> DEFINE P(x) == x \in T /\ \A y \in T : x =< y
<1>1. \E x : P(x)
  BY LeastNat
<1>2. Min(T) = CHOOSE x : P(x)
  BY DEF Min
<1>3. P(Min(T))
  <2> HIDE DEF P
  <2> QED
    BY <1>1, <1>2
<1> QED
  BY <1>3

\* Max is the greatest element of a set, if there is one.
LEMMA MaxOf ==
  ASSUME NEW T, T \subseteq Int, NEW m \in T, \A x \in T : x =< m
  PROVE  Max(T) = m
<1> DEFINE P(x) == x \in T /\ \A y \in T : x >= y
<1>1. Max(T) = CHOOSE x : P(x)
  BY DEF Max
<1>2. P(m)
  OBVIOUS
<1>3. ASSUME NEW x, P(x) PROVE x = m
  <2>1. x \in Int /\ m \in Int /\ x >= m /\ m >= x
    BY <1>3
  <2> QED
    BY <2>1
<1> QED
  <2> HIDE DEF P
  <2> QED
    BY <1>1, <1>2, <1>3

\* There is one in a set of places up to n.
LEMMA MaxPlace ==
  ASSUME NEW n \in Nat, NEW T, T \subseteq 0..n, T # {}
  PROVE  Max(T) \in T /\ \A x \in T : x =< Max(T)
<1> DEFINE B == {b \in Nat : \A x \in T : x =< b}
<1>1. n \in B
  OBVIOUS
<1>2. PICK b \in B : \A c \in B : b =< c
  BY <1>1, LeastNat
<1>3. b \in T
  <2> SUFFICES ASSUME b \notin T PROVE FALSE
    OBVIOUS
  <2>1. PICK x \in T : x \in Nat
    <3>1. PICK x : x \in T
      OBVIOUS
    <3>2. x \in 0..n
      BY <3>1
    <3> QED
      BY <3>1, <3>2
  <2>2. \A y \in T : y =< b /\ y # b /\ y \in Nat
    OBVIOUS
  <2>3. b - 1 \in Nat
    BY <2>1, <2>2
  <2>4. b - 1 \in B
    BY <2>2, <2>3
  <2> QED
    BY <1>2, <2>4
<1>4. \A x \in T : x =< b
  BY <1>2
<1>5. T \subseteq Int
  OBVIOUS
<1> QED
  <2> HIDE DEF B
  <2>1. Max(T) = b
    BY <1>3, <1>4, <1>5, MaxOf
  <2> QED
    BY <1>3, <1>4, <2>1

\* The first and the last place found are 0 if none is.
LEMMA FoundPlace ==
  ASSUME NEW n \in Nat, NEW T, T \subseteq 1..n,
         NEW first, first = IF T # {} THEN Min(T) ELSE 0,
         NEW last, last = IF T # {} THEN Max(T) ELSE 0
  PROVE  /\ first \in 0..n /\ last \in 0..n
         /\ first = 0 <=> T = {}
         /\ last = 0 <=> T = {}
         /\ first # 0 => first \in T
         /\ last # 0 => last \in T
         /\ \A x \in T : first =< x /\ x =< last
<1>1. CASE T = {}
  BY <1>1
<1>2. CASE T # {}
  <2>1. T \subseteq Nat /\ T \subseteq 0..n
    OBVIOUS
  <2>2. first \in T /\ last \in T /\ \A x \in T : first =< x /\ x =< last
    BY <1>2, <2>1, MinPlace, MaxPlace
  <2>3. first \in 1..n /\ last \in 1..n
    BY <2>2
  <2> QED
    BY <1>2, <2>2, <2>3
<1> QED
  BY <1>1, <1>2

------------------------------------------------------------------------------
(* Trimming.                                                                 *)

\* The beginning of a sequence.
LEMMA Beginning ==
  ASSUME NEW S, NEW s \in Seq(S), NEW k \in 0..Len(s)
  PROVE  /\ SubSeq(s, 1, k) \in Seq(S)
         /\ Len(SubSeq(s, 1, k)) = k
         /\ \A i \in 1..k : SubSeq(s, 1, k)[i] = s[i]
<1>1. 1 \in Int /\ k \in Int /\ \A i \in 1..k : s[i] \in S
  OBVIOUS
<1>2. /\ SubSeq(s, 1, k) \in Seq(S)
      /\ Len(SubSeq(s, 1, k)) = IF 1 =< k THEN k - 1 + 1 ELSE 0
      /\ \A i \in 1..k - 1 + 1 : SubSeq(s, 1, k)[i] = s[1 + i - 1]
  BY <1>1, SubSeqProperties
<1> QED
  BY <1>2

\* Trimming at the right leaves a beginning, and cuts off nothing else.
LEMMA TrimRightCuts ==
  ASSUME NEW S, NEW s \in Seq(S), NEW cut
  PROVE  \E k \in 0..Len(s) : /\ TrimRight(s, cut) = SubSeq(s, 1, k)
                              /\ \A i \in k + 1..Len(s) : s[i] \in cut
<1> DEFINE n == Len(s)
           I == {i \in 1..n : s[i] \notin cut}
           last == IF I # {} THEN Max(I) ELSE 0
<1>1. n \in Nat
  OBVIOUS
<1>2. TrimRight(s, cut) = SubSeq(s, 1, last)
  BY DEF TrimRight, SelectLastInSeq
<1> HIDE DEF n, last
<1>3. I \subseteq 1..n
  OBVIOUS
<1>4. last \in 0..n /\ \A i \in I : i =< last
  <2> HIDE DEF I
  <2> QED
    BY <1>1, <1>3, FoundPlace DEF last
<1>5. \A i \in last + 1..n : s[i] \in cut
  BY <1>1, <1>4
<1> QED
  BY <1>2, <1>4, <1>5 DEF n

\* Trimming of spaces leaves runes of the text, and no space at its beginning.
LEMMA TrimSpaceCuts ==
  ASSUME NEW S, NEW s \in Seq(S)
  PROVE  /\ TrimSpace(s) \in Seq(S)
         /\ TrimSpace(s) # <<>> => TrimSpace(s)[1] # " "
<1> DEFINE n == Len(s)
           I == {i \in 1..n : s[i] # " "}
           first == IF I # {} THEN Min(I) ELSE 0
           last == IF I # {} THEN Max(I) ELSE 0
<1>1. n \in Nat /\ \A i \in 1..n : s[i] \in S
  OBVIOUS
<1>2. TrimSpace(s) = IF first = 0 THEN <<>> ELSE SubSeq(s, first, last)
  BY DEF TrimSpace, SelectInSeq, SelectLastInSeq
<1> HIDE DEF n, first, last
<1>3. I \subseteq 1..n
  OBVIOUS
<1>4. /\ first \in 0..n /\ last \in 0..n
      /\ first # 0 => first \in I
      /\ \A i \in I : first =< i /\ i =< last
  <2> HIDE DEF I
  <2> QED
    BY <1>1, <1>3, FoundPlace DEF first, last
<1>5. CASE first = 0
  BY <1>2, <1>5
<1>6. CASE first # 0
  <2>0. s[first] # " "
    BY <1>4, <1>6
  <2> HIDE DEF I
  <2>1. first \in 1..n /\ last \in 1..n /\ first =< last
    BY <1>1, <1>3, <1>4, <1>6
  <2>2. first \in Int /\ last \in Int /\ \A i \in first..last : s[i] \in S
    BY <1>1, <2>1
  <2>3. /\ SubSeq(s, first, last) \in Seq(S)
        /\ \A i \in 1..last - first + 1 : SubSeq(s, first, last)[i] = s[first + i - 1]
    BY <2>2, SubSeqProperties
  <2>4. 1 \in 1..last - first + 1 /\ first + 1 - 1 = first
    BY <1>1, <2>1
  <2> QED
    BY <1>2, <1>6, <2>0, <2>3, <2>4
<1> QED
  BY <1>5, <1>6

\* The beginning of a beginning.
LEMMA BeginningOfBeginning ==
  ASSUME NEW S, NEW s \in Seq(S), NEW m \in 0..Len(s), NEW k \in 0..m
  PROVE  SubSeq(SubSeq(s, 1, m), 1, k) = SubSeq(s, 1, k)
<1> DEFINE b == SubSeq(s, 1, m)
           n == Len(s)
<1>1. n \in Nat /\ m \in 0..n
  OBVIOUS
<1>2. b \in Seq(S) /\ Len(b) = m /\ \A i \in 1..m : b[i] = s[i]
  BY Beginning
<1> HIDE DEF b
<1>3. k \in 0..Len(b) /\ k \in 0..Len(s)
  BY <1>1, <1>2 DEF n
<1>4. /\ SubSeq(b, 1, k) \in Seq(S) /\ Len(SubSeq(b, 1, k)) = k
      /\ \A i \in 1..k : SubSeq(b, 1, k)[i] = b[i]
  BY <1>2, <1>3, Beginning
<1>5. /\ SubSeq(s, 1, k) \in Seq(S) /\ Len(SubSeq(s, 1, k)) = k
      /\ \A i \in 1..k : SubSeq(s, 1, k)[i] = s[i]
  BY <1>3, Beginning
<1>6. \A i \in 1..k : i \in 1..m
  BY <1>1
<1> HIDE DEF n
<1>7. SubSeq(b, 1, k) = SubSeq(s, 1, k)
  BY <1>2, <1>4, <1>5, <1>6, SeqEqual
<1> QED
  BY <1>7 DEF b

------------------------------------------------------------------------------
(* Cutting to the limit.                                                     *)

\* A text is cut, if at all, to a title of at most the limit, or of the limit
\* without a colon at its end and the ellipsis.  It is cut before a rune that
\* separates words, unless none does after the first up to the limit.
LEMMA TruncateCuts ==
  ASSUME NEW S, NEW s \in Seq(S), Ellipsis \in S
  PROVE  \/ truncateAtWordBoundary(s) = s /\ Len(s) =< maxTitleLength
         \/ \E k \in 0..maxTitleLength :
              /\ k < Len(s)
              /\ truncateAtWordBoundary(s) = Append(SubSeq(s, 1, k), Ellipsis)
              /\ \/ s[k + 1] \in Punctuation
                 \/ maxTitleLength =< Len(s) /\ \A i \in 2..maxTitleLength : s[i] # " "
<1> DEFINE max == maxTitleLength
           hasColon == s # <<>> /\ Last(s) = ":"
           text == IF hasColon THEN Front(s) ELSE s
           n == Len(s)
           m == IF hasColon THEN n - 1 ELSE n
           I == {i \in 1..max : text[i] = " "}
           lastWordEnd == IF I # {} THEN Max(I) ELSE 0
           kept == IF lastWordEnd > 1 THEN lastWordEnd - 1 ELSE max - 1
<1>1. max \in Nat \ {0}
  BY TitleLengthAssumption
<1>2. n \in Nat /\ (hasColon => n # 0 /\ s[n] = ":")
  BY DEF Last
<1>3. m \in 0..n /\ (hasColon => m + 1 = n) /\ (~ hasColon => m = n)
  BY <1>2
<1>4. text = SubSeq(s, 1, m)
  <2>1. CASE hasColon
    BY <2>1 DEF Front
  <2>2. CASE ~ hasColon
    BY <2>2, SubSeqFull
  <2> QED
    BY <2>1, <2>2
<1>5. truncateAtWordBoundary(s) =
        IF Len(text) > max
          THEN Append(TrimRight(SubSeq(text, 1, kept), Punctuation), Ellipsis)
        ELSE IF hasColon THEN Append(text, Ellipsis)
        ELSE text
  BY DEF truncateAtWordBoundary, SelectLastInSubSeq
<1> HIDE DEF max, hasColon, text, n, m, lastWordEnd, kept
<1>6. text \in Seq(S) /\ Len(text) = m /\ \A i \in 1..m : text[i] = s[i]
  BY <1>3, <1>4, Beginning DEF n
<1>7. CASE m > max
  <2>1. /\ lastWordEnd \in 0..max
        /\ lastWordEnd # 0 => lastWordEnd \in I
        /\ \A i \in I : i =< lastWordEnd
    <3>1. I \subseteq 1..max
      OBVIOUS
    <3> HIDE DEF I
    <3> QED
      BY <1>1, <3>1, FoundPlace DEF lastWordEnd
  <2>2. lastWordEnd > 1 => text[lastWordEnd] = " "
    <3>1. lastWordEnd > 1 => lastWordEnd # 0
      <4> HIDE DEF I
      <4> QED
        BY <1>1, <2>1
    <3> QED
      BY <2>1, <3>1, Zenon
  <2>3. ASSUME lastWordEnd =< 1, NEW i \in 2..max PROVE text[i] # " "
    <3>1. i \in 1..max /\ ~ (i =< lastWordEnd)
      <4> HIDE DEF I
      <4> QED
        BY <1>1, <2>1, <2>3
    <3> QED
      BY <2>1, <3>1, Zenon
  <2> HIDE DEF I
  <2>4. /\ kept \in 0..max - 1 /\ kept \in 0..m
        /\ lastWordEnd > 1 => kept + 1 = lastWordEnd
    BY <1>1, <1>3, <1>7, <2>1, <1>2 DEF kept
  <2> DEFINE b == SubSeq(text, 1, kept)
  <2>5. b \in Seq(S) /\ Len(b) = kept /\ \A i \in 1..kept : b[i] = text[i]
    BY <1>6, <2>4, Beginning
  <2>6. b = SubSeq(s, 1, kept)
    <3>1. m \in 0..Len(s)
      BY <1>3 DEF n
    <3> QED
      BY <1>4, <2>4, <3>1, BeginningOfBeginning
  <2>7. truncateAtWordBoundary(s) = Append(TrimRight(b, Punctuation), Ellipsis)
    BY <1>5, <1>6, <1>7
  <2> HIDE DEF b
  <2>8. PICK k \in 0..kept : /\ TrimRight(b, Punctuation) = SubSeq(b, 1, k)
                            /\ \A i \in k + 1..kept : b[i] \in Punctuation
    BY <2>5, TrimRightCuts
  <2>9. SubSeq(b, 1, k) = SubSeq(s, 1, k)
    <3>1. kept \in 0..Len(s)
      BY <1>2, <1>3, <2>4 DEF n
    <3> QED
      BY <2>6, <3>1, BeginningOfBeginning
  <2>10. k \in 0..max /\ k < n /\ max =< n
    BY <1>1, <1>2, <1>3, <1>7, <2>4
  <2>11. s[k + 1] \in Punctuation \/ \A i \in 2..max : s[i] # " "
    <3>1. CASE k < kept
      <4>1. k + 1 \in k + 1..kept /\ k + 1 \in 1..kept /\ k + 1 \in 1..m
        BY <1>2, <1>3, <2>4, <3>1
      <4> QED
        BY <1>6, <2>5, <2>8, <4>1
    <3>2. CASE k = kept /\ lastWordEnd > 1
      <4>1. lastWordEnd \in 1..m
        BY <1>1, <1>2, <1>3, <1>7, <2>1, <3>2
      <4>2. s[k + 1] = " "
        BY <1>6, <2>2, <2>4, <3>2, <4>1
      <4> QED
        BY <4>2 DEF Punctuation
    <3>3. CASE lastWordEnd =< 1
      <4>1. \A i \in 2..max : i \in 1..m
        BY <1>1, <1>2, <1>3, <1>7
      <4> QED
        BY <1>6, <2>3, <3>3, <4>1
    <3>4. k < kept \/ k = kept
      BY <1>1, <2>4
    <3>5. lastWordEnd > 1 \/ lastWordEnd =< 1
      BY <1>1, <2>1
    <3> QED
      BY <3>1, <3>2, <3>3, <3>4, <3>5
  <2> QED
    BY <2>7, <2>8, <2>9, <2>10, <2>11 DEF max, n
<1>8. CASE m =< max /\ hasColon
  <2>1. truncateAtWordBoundary(s) = Append(SubSeq(s, 1, m), Ellipsis)
    <3>1. ~ (Len(text) > max)
      BY <1>1, <1>2, <1>3, <1>6, <1>8
    <3> QED
      BY <1>4, <1>5, <1>8, <3>1
  <2>2. m \in 0..max /\ m < n /\ s[m + 1] = ":"
    BY <1>1, <1>2, <1>3, <1>8
  <2> QED
    BY <2>1, <2>2 DEF max, n, Punctuation
<1>9. CASE m =< max /\ ~ hasColon
  <2>1. truncateAtWordBoundary(s) = text
    <3>1. ~ (Len(text) > max)
      BY <1>1, <1>2, <1>3, <1>6, <1>9
    <3> QED
      BY <1>5, <1>9, <3>1
  <2>2. text = s
    BY <1>9 DEF text
  <2> QED
    BY <1>3, <1>9, <2>1, <2>2 DEF max, n
<1>10. m > max \/ m =< max
  BY <1>1, <1>2, <1>3
<1> QED
  BY <1>7, <1>8, <1>9, <1>10

\* Where a parenthesis is open is a place in the text, and without parentheses
\* none is open.
LEMMA OpenParenPlace ==
  ASSUME NEW s, NEW i \in Nat
  PROVE  /\ OpenParen(s, i) \in 0..i
         /\ (\A j \in 1..i : s[j] \notin {"(", ")"}) => OpenParen(s, i) = 0
<1> DEFINE parens == {"(", ")"}
           I == {j \in 1..i : s[j] \in parens}
           last == IF I # {} THEN Max(I) ELSE 0
<1>1. OpenParen(s, i) = IF last # 0 /\ s[last] = "(" THEN last ELSE 0
  BY DEF OpenParen, SelectLastInSubSeq
<1> HIDE DEF parens, last
<1>2. I \subseteq 1..i
  OBVIOUS
<1>3. last \in 0..i /\ (last = 0 <=> I = {})
  <2> HIDE DEF I
  <2> QED
    BY <1>2, FoundPlace DEF last
<1>4. (\A j \in 1..i : s[j] \notin parens) => I = {}
  OBVIOUS
<1> HIDE DEF I
<1> QED
  BY <1>1, <1>3, <1>4 DEF parens

\* Of the parentheses of a text as much is removed that the rest are its runes
\* and the ellipsis.
LEMMA IncompleteParensRemoved ==
  ASSUME NEW S, NEW s \in Seq(S), Ellipsis \in S
  PROVE  removeIncompleteParens(s) \in Seq(S)
<1> DEFINE max == maxTitleLength
           n == Len(s)
           crossing == {i \in max + 1..n : OpenParen(s, i) # 0}
           first == OpenParen(s, Min(crossing))
           outside == {i \in DOMAIN s : OpenParen(s, i) = 0}
           cut == TrimRight(SubSeq(s, 1, first - 1), Punctuation)
<1>1. n \in Nat /\ max \in Nat \ {0}
  BY TitleLengthAssumption
<1>2. removeIncompleteParens(s) =
        IF n =< max THEN s ELSE IF crossing # {} THEN Append(cut, Ellipsis) ELSE Pick(s, outside)
  BY DEF removeIncompleteParens
<1> HIDE DEF max, n
<1>3. ASSUME crossing # {} PROVE Append(cut, Ellipsis) \in Seq(S)
  <2>1. crossing \subseteq Nat
    BY <1>1
  <2>2. Min(crossing) \in crossing
    <3> HIDE DEF crossing
    <3> QED
      BY <1>3, <2>1, MinPlace
  <2>3. Min(crossing) \in Nat /\ Min(crossing) =< n /\ first # 0
    BY <1>1, <2>2
  <2>4. first \in 0..Min(crossing)
    <3> HIDE DEF crossing
    <3> QED
      BY <2>3, OpenParenPlace
  <2> HIDE DEF crossing, first
  <2>5. first - 1 \in 0..Len(s)
    BY <1>1, <2>3, <2>4 DEF n
  <2> DEFINE b == SubSeq(s, 1, first - 1)
  <2>6. b \in Seq(S) /\ Len(b) = first - 1
    BY <2>5, Beginning
  <2> HIDE DEF b
  <2>7. PICK k \in 0..Len(b) : TrimRight(b, Punctuation) = SubSeq(b, 1, k)
    BY <2>6, TrimRightCuts
  <2>8. TrimRight(b, Punctuation) \in Seq(S)
    BY <2>6, <2>7, Beginning
  <2> QED
    BY <2>8, AppendProperties DEF b
<1>4. Pick(s, outside) \in Seq(S)
  <2> HIDE DEF outside
  <2> QED
    BY PickElements
<1> HIDE DEF crossing, cut, outside
<1> QED
  BY <1>2, <1>3, <1>4

\* A text without parentheses stays as it is.
LEMMA WithoutParensUntouched ==
  ASSUME NEW S, NEW s \in Seq(S), {"(", ")"} \cap ToSet(s) = {}
  PROVE  removeIncompleteParens(s) = s
<1> DEFINE max == maxTitleLength
           n == Len(s)
           parens == {"(", ")"}
           crossing == {i \in max + 1..n : OpenParen(s, i) # 0}
           first == OpenParen(s, Min(crossing))
           outside == {i \in 1..n : OpenParen(s, i) = 0}
           cut == TrimRight(SubSeq(s, 1, first - 1), Punctuation)
<1>1. n \in Nat /\ max \in Nat \ {0} /\ DOMAIN s = 1..n
  BY TitleLengthAssumption
<1>2. removeIncompleteParens(s) =
        IF n =< max THEN s ELSE IF crossing # {} THEN Append(cut, Ellipsis) ELSE Pick(s, outside)
  BY <1>1 DEF removeIncompleteParens
<1>3. \A j \in 1..n : s[j] \notin parens
  <2> HIDE DEF parens, n
  <2>1. parens \cap ToSet(s) = {}
    BY DEF parens
  <2> QED
    BY <1>1, <2>1 DEF ToSet
<1> HIDE DEF max, n, cut
<1>4. \A i \in 1..n : OpenParen(s, i) = 0
  <2> TAKE i \in 1..n
  <2>1. i \in Nat /\ \A j \in 1..i : j \in 1..n
    BY <1>1
  <2> QED
    BY <1>3, <2>1, OpenParenPlace
<1>5. crossing = {}
  BY <1>1, <1>4
<1>6. Pick(s, outside) = s
  <2>1. 1..Len(s) \subseteq outside
    BY <1>4 DEF n
  <2> HIDE DEF outside
  <2> QED
    BY <2>1, PickAll
<1> HIDE DEF crossing, outside
<1> QED
  BY <1>2, <1>5, <1>6

------------------------------------------------------------------------------
(* What the title is made from.                                              *)

\* Cleaning leaves runes of the text.
LEMMA CleanedRunes ==
  ASSUME NEW S, NEW s \in Seq(S)
  PROVE  /\ Cleaned(s) \in Seq(S)
         /\ Cleaned(s) # <<>> => Cleaned(s)[1] # " "
<1> DEFINE t == CollapseSpaces(s)
<1>1. t \in Seq(S)
  <2> DEFINE keep == {i \in DOMAIN s : s[i] = " " /\ i > 1 => s[i - 1] # " "}
  <2>1. t = Pick(s, keep)
    BY DEF CollapseSpaces
  <2> HIDE DEF keep, t
  <2> QED
    BY <2>1, PickElements
<1>2. Cleaned(s) = TrimSpace(t)
  BY DEF Cleaned
<1> HIDE DEF t
<1> QED
  BY <1>1, <1>2, TrimSpaceCuts

\* The first line is runes of the text.
LEMMA FirstLineRunes ==
  ASSUME NEW S, NEW s \in Seq(S)
  PROVE  FirstLine(s) \in Seq(S)
<1> DEFINE n == Len(s)
           I == {i \in 1..n : IsBreak(s[i])}
           break == IF I # {} THEN Min(I) ELSE 0
<1>1. n \in Nat
  OBVIOUS
<1>2. FirstLine(s) = IF break = 0 THEN <<>> ELSE TrimSpace(SubSeq(s, 1, break - 1))
  BY DEF FirstLine, SelectInSeq
<1> HIDE DEF n
<1>3. I \subseteq 1..n
  OBVIOUS
<1> HIDE DEF I
<1>4. break \in 0..n
  BY <1>1, <1>3, FoundPlace
<1> HIDE DEF break
<1>5. break # 0 => break - 1 \in 0..Len(s)
  BY <1>1, <1>4 DEF n
<1>6. break # 0 => SubSeq(s, 1, break - 1) \in Seq(S)
  BY <1>5, Beginning
<1>7. CASE break = 0
  BY <1>2, <1>7
<1>8. CASE break # 0
  BY <1>2, <1>6, <1>8, TrimSpaceCuts
<1> QED
  BY <1>7, <1>8

\* The first sentence ends inside the text.
LEMMA SentenceEndPlace ==
  ASSUME NEW S, NEW s \in Seq(S)
  PROVE  SentenceEnd(s) \in 0..Len(s)
<1> DEFINE n == Len(s)
           Stop(i) == s[i] = "." /\ (i = n \/ s[i + 1] = " ")
           Dots(i) == i + 2 =< n /\ SubSeq(s, i, i + 2) = <<".", ".", ".">>
           found == {i \in 1..n : Stop(i) \/ Dots(i)}
           i == Min(found)
<1>1. n \in Nat
  OBVIOUS
<1>2. SentenceEnd(s) = IF found = {} THEN 0
                       ELSE IF Dots(i) THEN i + 2 ELSE IF i = n THEN i ELSE i + 1
  BY DEF SentenceEnd
<1>3. Dots(i) => i + 2 =< n
  OBVIOUS
<1> HIDE DEF n, Stop, Dots
<1>4. found \subseteq 1..n /\ found \subseteq Nat
  BY <1>1
<1> HIDE DEF found
<1>5. found # {} => i \in 1..n
  BY <1>4, MinPlace
<1> HIDE DEF i
<1> QED
  BY <1>1, <1>2, <1>3, <1>5 DEF n

\* The title is made from runes of the text.
LEMMA TitleSourceRunes ==
  ASSUME NEW S, NEW html \in Seq(S), NEW text \in Seq(S)
  PROVE  TitleSource(html, text) \in Seq(S)
<1> DEFINE keep == {i \in DOMAIN text : ~ IsBreak(text[i])}
           plain == Pick(text, keep)
<1>1. TitleSource(html, text) =
        IF FirstLine(html) # <<>> THEN FirstLine(html)
        ELSE IF SentenceEnd(plain) # 0 THEN SubSeq(plain, 1, SentenceEnd(plain))
        ELSE plain
  BY DEF TitleSource
<1> HIDE DEF keep
<1>2. plain \in Seq(S)
  BY PickElements
<1> HIDE DEF plain
<1>3. SubSeq(plain, 1, SentenceEnd(plain)) \in Seq(S)
  BY <1>2, SentenceEndPlace, Beginning
<1>4. FirstLine(html) \in Seq(S)
  BY FirstLineRunes
<1> QED
  BY <1>1, <1>2, <1>3, <1>4

------------------------------------------------------------------------------
(* Titles.                                                                   *)

\* A title with the ellipsis at its end, apart.
LEMMA CutTitle ==
  ASSUME NEW S, NEW s \in Seq(S), Ellipsis \in S, NEW k \in 0..Len(s), NEW title,
         title = Append(SubSeq(s, 1, k), Ellipsis)
  PROVE  /\ title \in Seq(S) /\ Len(title) = k + 1 /\ Last(title) = Ellipsis
         /\ IsPrefix(Front(title), s)
<1> DEFINE b == SubSeq(s, 1, k)
           n == Len(s)
<1>1. b \in Seq(S) /\ Len(b) = k /\ k \in 0..n /\ n \in Nat
  BY Beginning
<1>2. title = Append(b, Ellipsis)
  OBVIOUS
<1> HIDE DEF b
<1> HIDE DEF n
<1>3. /\ title \in Seq(S) /\ Len(title) = k + 1 /\ title[k + 1] = Ellipsis
      /\ \A i \in 1..k : title[i] = b[i]
  <2>1. /\ Append(b, Ellipsis) \in Seq(S) /\ Len(Append(b, Ellipsis)) = Len(b) + 1
        /\ Append(b, Ellipsis)[Len(b) + 1] = Ellipsis
        /\ \A i \in 1..Len(b) : Append(b, Ellipsis)[i] = b[i]
    BY <1>1, AppendProperties
  <2> QED
    BY <1>1, <1>2, <2>1
<1>4. Last(title) = Ellipsis
  BY <1>3 DEF Last
<1>5. Front(title) = b
  <2>1. Front(title) = SubSeq(title, 1, k)
    BY <1>1, <1>3 DEF Front
  <2>2. k \in 0..Len(title)
    BY <1>1, <1>3
  <2>3. /\ SubSeq(title, 1, k) \in Seq(S) /\ Len(SubSeq(title, 1, k)) = k
        /\ \A i \in 1..k : SubSeq(title, 1, k)[i] = title[i]
    BY <1>3, <2>2, Beginning
  <2> QED
    BY <1>1, <1>3, <2>1, <2>3, SeqEqual
<1>6. IsPrefix(b, s)
  <2>1. SubSeq(b, 1, Len(b)) = b
    BY <1>1, SubSeqFull
  <2>2. SubSeq(s, 1, Len(b)) = b
    BY <1>1 DEF b
  <2>3. Len(b) =< Len(s)
    BY <1>1 DEF n
  <2> QED
    BY <2>1, <2>2, <2>3 DEF IsPrefix
<1> QED
  BY <1>3, <1>4, <1>5, <1>6

\* The title of a text (extractTitle), for every text: it is no longer than the
\* limit but for the ellipsis; a text without parentheses is its own title or
\* is cut where a word ends, unless the first word is too long.
THEOREM TitleOfText ==
  ASSUME NEW html \in Seq(Rune), NEW text \in Seq(Rune),
         NEW source, source = Cleaned(TitleSource(html, text)),
         NEW title, title = extractTitle(html, text)
  PROVE  /\ title \in Seq(Rune \cup {Ellipsis})
         /\ Len(title) =< maxTitleLength + 1
         /\ Len(title) > maxTitleLength => Last(title) = Ellipsis
         /\ {"(", ")"} \cap ToSet(source) = {} =>
              \/ title = source
              \/ /\ Last(title) = Ellipsis
                 /\ IsPrefix(Front(title), source)
                 /\ \/ source[Len(title)] \in Punctuation
                    \/ " " \notin ToSet(SubSeq(source, 1, maxTitleLength))
<1> DEFINE S == Rune \cup {Ellipsis}
           max == maxTitleLength
           u == removeIncompleteParens(source)
<1>1. html \in Seq(S) /\ text \in Seq(S) /\ Ellipsis \in S
  <2>1. Rune \subseteq S
    OBVIOUS
  <2> QED
    BY <2>1, SeqMonotonic
<1> HIDE DEF S
<1>2. source \in Seq(S) /\ (source # <<>> => source[1] # " ")
  BY <1>1, TitleSourceRunes, CleanedRunes
<1>3. u \in Seq(S) /\ Len(u) \in Nat
  <2>1. u \in Seq(S)
    BY <1>1, <1>2, IncompleteParensRemoved
  <2> HIDE DEF u
  <2> QED
    BY <2>1
<1>4. title = truncateAtWordBoundary(u)
  BY DEF extractTitle, formatTitle
<1>5. max \in Nat \ {0}
  BY TitleLengthAssumption
<1> HIDE DEF max, u
<1>6. \/ title = u /\ Len(u) =< max
      \/ \E k \in 0..max : /\ k < Len(u)
                          /\ title = Append(SubSeq(u, 1, k), Ellipsis)
                          /\ \/ u[k + 1] \in Punctuation
                             \/ max =< Len(u) /\ \A i \in 2..max : u[i] # " "
  BY <1>1, <1>3, <1>4, TruncateCuts DEF max
<1>7. CASE title = u /\ Len(u) =< max
  <2>1. {"(", ")"} \cap ToSet(source) = {} => title = source
    BY <1>2, <1>7, WithoutParensUntouched DEF u
  <2>2. title \in Seq(S) /\ Len(title) =< max + 1 /\ ~ (Len(title) > max)
    BY <1>3, <1>5, <1>7
  <2> QED
    BY <2>1, <2>2 DEF S, max
<1>8. ASSUME NEW k \in 0..max, k < Len(u), title = Append(SubSeq(u, 1, k), Ellipsis),
             \/ u[k + 1] \in Punctuation
             \/ max =< Len(u) /\ \A i \in 2..max : u[i] # " "
      PROVE  /\ title \in Seq(S) /\ Len(title) = k + 1 /\ Last(title) = Ellipsis
             /\ {"(", ")"} \cap ToSet(source) = {} =>
                  /\ IsPrefix(Front(title), source)
                  /\ \/ source[Len(title)] \in Punctuation
                     \/ " " \notin ToSet(SubSeq(source, 1, max))
  <2>1. k \in 0..Len(u)
    <3>1. k < Len(u)
      BY <1>8
    <3> QED
      BY <1>3, <1>5, <3>1
  <2>2. /\ title \in Seq(S) /\ Len(title) = k + 1 /\ Last(title) = Ellipsis
        /\ IsPrefix(Front(title), u)
    BY <1>1, <1>3, <1>8, <2>1, CutTitle
  <2>3. ASSUME {"(", ")"} \cap ToSet(source) = {} PROVE u = source
    BY <1>2, <2>3, WithoutParensUntouched DEF u
  <2>4. ASSUME u = source, max =< Len(u), \A i \in 2..max : u[i] # " "
        PROVE  " " \notin ToSet(SubSeq(u, 1, max))
    <3>1. max \in 0..Len(u) /\ u # <<>>
      <4>1. max =< Len(u)
        BY <2>4
      <4> QED
        BY <1>3, <1>5, <4>1
    <3>2. /\ SubSeq(u, 1, max) \in Seq(S) /\ Len(SubSeq(u, 1, max)) = max
          /\ \A i \in 1..max : SubSeq(u, 1, max)[i] = u[i]
      BY <1>3, <3>1, Beginning
    <3>3. \A i \in 1..max : u[i] # " "
      <4> TAKE i \in 1..max
      <4>1. CASE i = 1
        BY <1>2, <2>4, <3>1, <4>1
      <4>2. CASE i # 1
        <5>1. i \in 2..max
          BY <1>5, <4>2
        <5> QED
          BY <2>4, <5>1
      <4> QED
        BY <4>1, <4>2
    <3>4. DOMAIN SubSeq(u, 1, max) = 1..max
      BY <3>2, LenProperties
    <3> QED
      BY <3>2, <3>3, <3>4 DEF ToSet
  <2> QED
    BY <1>8, <2>2, <2>3, <2>4
<1>9. ASSUME NEW k \in 0..max, title \in Seq(S), Len(title) = k + 1
      PROVE  Len(title) =< max + 1
  BY <1>5, <1>9
<1> QED
  BY <1>6, <1>7, <1>8, <1>9 DEF S, max

==============================================================================
