---------------------------- MODULE ProcessProofs ----------------------------
(***************************************************************************)
(* Proofs about the configuration and the process.                         *)
(*                                                                         *)
(* First, about texts and what the extractors find in them, for every      *)
(* document: the objects a search counts out of the braces are the texts   *)
(* of the listeners, each key is found where it stands, arrays and strings *)
(* are read as they are meant, and the search ends.                        *)
(*                                                                         *)
(* Then about main: the rules in hand are those the document asks for;     *)
(* what it opened is taken down when it returns, whatever failed and       *)
(* whenever SIGINT came; the detached accept threads can only crash it     *)
(* once everything is stopped; config.json is not overwritten unless the   *)
(* configuration file was edited or could not be opened again.             *)
(***************************************************************************)
EXTENDS Process, SequenceTheorems, WellFoundedInduction, TLAPS

-----------------------------------------------------------------------------
(***************************************************************************)
(* Induction and recursion, without operators as parameters.               *)
(***************************************************************************)

\* A set of numbers that is not empty has a least one: induction over the
\* natural numbers, stated with a set so that no operator is a parameter.
LEMMA LeastElement ==
    ASSUME NEW T, T \subseteq Nat, T # {}
    PROVE  \E x \in T : \A y \in T : x <= y
<1> DEFINE R == OpToRel(<, Nat)
<1>1. IsWellFoundedOn(R, Nat)
    BY NatLessThanWellFounded
<1> HIDE DEF R
<1>2. PICK x \in T : \A y \in T : ~ (<<y, x>> \in R)
    BY <1>1, WFMin
<1>3. \A y \in T : y < x => <<y, x>> \in R
    BY DEF R, OpToRel
<1>4. ASSUME NEW y \in T
      PROVE  x <= y
    <2>1. x \in Nat /\ y \in Nat
        OBVIOUS
    <2>2. ~ (y < x)
        BY <1>2, <1>3
    <2>. QED BY <2>1, <2>2
<1>. QED BY <1>4

\* A set that has 0 and with each number the next, up to n, has all of them.
LEMMA UpTo ==
    ASSUME NEW n \in Nat, NEW T, 0 \in T,
           \A i \in 0..(n - 1) : i \in T => i + 1 \in T
    PROVE  0..n \subseteq T
<1> SUFFICES ASSUME (0..n) \ T # {} PROVE FALSE
    OBVIOUS
<1>1. (0..n) \ T \subseteq Nat
    OBVIOUS
<1>2. PICK x \in (0..n) \ T : \A y \in (0..n) \ T : x <= y
    BY <1>1, LeastElement
<1>3. x \in Nat /\ x # 0 /\ x <= n /\ x \notin T
    BY <1>2
<1>4. x - 1 \in 0..(n - 1) /\ ~ (x <= x - 1) /\ x - 1 \in 0..n /\ (x - 1) + 1 = x
    BY <1>3
<1>5. x - 1 \in T
    BY <1>2, <1>4
<1>. QED BY <1>3, <1>4, <1>5

\* A function on 0..n that is given by what it is at 0 and by what it is at a
\* number if one knows what it is at the number before.
Steps(f, n, start, step) ==
    f[0] = start /\ \A i \in 1..n : f[i] = step[i][f[i - 1]]

\* There is such a function, for any start and any steps within a set.
LEMMA Recursion ==
    ASSUME NEW n \in Nat, NEW S, NEW start \in S, NEW step \in [1..n -> [S -> S]]
    PROVE  \E f \in [0..n -> S] : Steps(f, n, start, step)
<1> USE DEF Steps
<1> DEFINE Good(k, f) == Steps(f, k, start, step)
           T == {k \in 0..n : \E f \in [0..k -> S] : Good(k, f)}
<1>1. 0 \in T
    <2> DEFINE f == [i \in 0..0 |-> start]
    <2>1. f \in [0..0 -> S] /\ Good(0, f)
        OBVIOUS
    <2> HIDE DEF f, Good, Steps
    <2>. QED BY <2>1
<1>2. ASSUME NEW k \in 0..(n - 1), k \in T
      PROVE  k + 1 \in T
    <2>1. PICK f \in [0..k -> S] : Good(k, f)
        BY <1>2
    <2> DEFINE g == [i \in 0..(k + 1) |-> IF i = k + 1 THEN step[k + 1][f[k]] ELSE f[i]]
    <2>2. k + 1 \in 1..n /\ k \in 0..k /\ k \in Nat
        OBVIOUS
    <2>3. step[k + 1][f[k]] \in S
        BY <2>2
    <2>4. g \in [0..(k + 1) -> S]
        BY <2>2, <2>3
    <2>5. Good(k + 1, g)
        <3>1. g[0] = start
            BY <2>1, <2>2
        <3>2. ASSUME NEW i \in 1..(k + 1)
              PROVE  g[i] = step[i][g[i - 1]]
            <4>1. i - 1 \in 0..(k + 1) /\ i \in 0..(k + 1) /\ i - 1 # k + 1 /\ i \in Int
                BY <2>2
            <4>2. g[i - 1] = f[i - 1]
                BY <4>1
            <4>3. CASE i = k + 1
                <5>1. i - 1 = k
                    BY <2>2, <4>3
                <5>. QED BY <4>1, <4>2, <4>3, <5>1
            <4>4. CASE i # k + 1
                <5>1. i \in 1..k
                    BY <2>2, <4>4
                <5>2. g[i] = f[i]
                    BY <4>1, <4>4
                <5>. QED BY <2>1, <4>2, <5>1, <5>2
            <4>. QED BY <4>3, <4>4
        <3>. QED BY <3>1, <3>2
    <2> HIDE DEF g, Good, Steps
    <2>. QED BY <2>2, <2>4, <2>5
<1>3. n \in T
    <2> HIDE DEF T
    <2>1. 0..n \subseteq T
        BY <1>1, <1>2, UpTo
    <2>. QED BY <2>1
<1> HIDE DEF Steps
<1>. QED BY <1>3

\* Texts one after the other.
LEMMA JoinedIs ==
    ASSUME NEW S, NEW texts \in Seq(Seq(S))
    PROVE  /\ JoinedUpTo(texts) \in [0..Len(texts) -> Seq(S)]
           /\ JoinedUpTo(texts)[0] = <<>>
           /\ \A i \in 1..Len(texts) :
                  JoinedUpTo(texts)[i] = JoinedUpTo(texts)[i - 1] \o texts[i]
<1> DEFINE n == Len(texts)
           none == <<>>
           step == [i \in 1..n |-> [x \in Seq(S) |-> x \o texts[i]]]
           Eq(g) == g = [i \in 0..n |-> IF i = 0 THEN none ELSE g[i - 1] \o texts[i]]
           joined == JoinedUpTo(texts)
<1>1. n \in Nat
    BY LenProperties
<1>2. \A i \in 1..n : texts[i] \in Seq(S)
    BY ElementOfSeq
<1>3. step \in [1..n -> [Seq(S) -> Seq(S)]]
    BY <1>2, ConcatProperties
<1>4. \E f \in [0..n -> Seq(S)] : Steps(f, n, none, step)
    <2>1. none \in Seq(S)
        BY EmptySeq
    <2> DEFINE Texts == Seq(S)
    <2>2. none \in Texts /\ step \in [1..n -> [Texts -> Texts]]
        BY <1>3, <2>1
    <2> HIDE DEF n, step, none, Texts
    <2>3. \E f \in [0..n -> Texts] : Steps(f, n, none, step)
        BY <1>1, <2>2, Recursion
    <2>. QED BY <2>3 DEF Texts
<1>5. Eq(joined)
    <2>1. PICK f \in [0..n -> Seq(S)] : Steps(f, n, none, step)
        BY <1>4
    <2> USE DEF Steps
    <2>2. \A i \in 1..n : f[i] = f[i - 1] \o texts[i]
        <3> TAKE i \in 1..n
        <3>1. i - 1 \in 0..n
            BY <1>1
        <3>2. f[i - 1] \in Seq(S)
            BY <3>1
        <3>. QED BY <2>1, <3>2
    <2>3. \A i \in 0..n : f[i] = IF i = 0 THEN none ELSE f[i - 1] \o texts[i]
        <3> TAKE i \in 0..n
        <3>1. i = 0 \/ i \in 1..n
            BY <1>1
        <3> HIDE DEF n, step, none
        <3>. QED BY <1>1, <2>1, <2>2, <3>1
    <2>4. Eq(f)
        BY <2>3
    <2>. QED BY <2>4 DEF JoinedUpTo
<1>n. none \in Seq(S)
    BY EmptySeq
<1> HIDE DEF joined, n, none
<1>6. joined[0] = none /\ \A i \in 1..n : joined[i] = joined[i - 1] \o texts[i]
    <2>1. 0 \in 0..n
        BY <1>1
    <2>2. joined[0] = none
        BY <1>5, <2>1
    <2>3. ASSUME NEW i \in 1..n
          PROVE  joined[i] = joined[i - 1] \o texts[i]
        <3>1. i \in 0..n /\ i # 0
            BY <1>1
        <3>. QED BY <1>5, <3>1
    <2>. QED BY <2>2, <2>3
<1>7. \A i \in 0..n : joined[i] \in Seq(S)
    <2> DEFINE T == {i \in 0..n : joined[i] \in Seq(S)}
    <2>1. 0 \in T
        BY <1>1, <1>6, <1>n
    <2>2. ASSUME NEW i \in 0..(n - 1), i \in T
          PROVE  i + 1 \in T
        <3>1. i + 1 \in 1..n /\ (i + 1) - 1 = i
            BY <1>1
        <3>2. joined[i + 1] = joined[i] \o texts[i + 1]
            BY <1>6, <3>1
        <3>3. joined[i + 1] \in Seq(S)
            BY <1>2, <2>2, <3>1, <3>2, ConcatProperties
        <3>. QED BY <1>1, <3>1, <3>3
    <2> HIDE DEF T
    <2>3. 0..n \subseteq T
        BY <1>1, <2>1, <2>2, UpTo
    <2>. QED BY <2>3 DEF T
<1>8. joined \in [0..n -> Seq(S)]
    BY <1>5, <1>7
<1>. QED BY <1>6, <1>8 DEF joined, n, none

\* How much comes before a text.
Before(texts, i) == Len(JoinedUpTo(texts)[i - 1])

\* Where each text is among the others, and that nothing else is there.
TextsAt(texts, all) ==
    /\ \A i \in 1..Len(texts) :
          /\ Before(texts, i) \in Nat
          /\ Before(texts, i) + Len(texts[i]) <= Len(all)
          /\ \A q \in 1..Len(texts[i]) : all[Before(texts, i) + q] = texts[i][q]
    /\ \A p \in 1..Len(all) : \E i \in 1..Len(texts) :
          \E q \in 1..Len(texts[i]) : p = Before(texts, i) + q
    /\ \A i \in 1..Len(texts) : i < Len(texts) =>
          Before(texts, i + 1) = Before(texts, i) + Len(texts[i])
    /\ Len(texts) > 0 => Before(texts, 1) = 0
    /\ Len(texts) > 0 => Len(all) = Before(texts, Len(texts)) + Len(texts[Len(texts)])
    /\ Len(texts) = 0 => Len(all) = 0

\* Joined texts are in their order, each whole, with nothing between them.
LEMMA JoinedLayout ==
    ASSUME NEW S, NEW texts \in Seq(Seq(S))
    PROVE  Joined(texts) \in Seq(S) /\ TextsAt(texts, Joined(texts))
<1> DEFINE n == Len(texts)
           j == JoinedUpTo(texts)
<1>1. n \in Nat
    BY LenProperties
<1>2. \A i \in 1..n : texts[i] \in Seq(S) /\ Len(texts[i]) \in Nat
    BY ElementOfSeq, LenProperties
<1>3. j \in [0..n -> Seq(S)] /\ j[0] = <<>> /\ \A i \in 1..n : j[i] = j[i - 1] \o texts[i]
    BY JoinedIs
<1>j. Joined(texts) = j[n] /\ \A i : Before(texts, i) = Len(j[i - 1])
    BY DEF Joined, Before
<1> HIDE DEF n, j
<1>4. \A i \in 0..n : j[i] \in Seq(S) /\ Len(j[i]) \in Nat
    BY <1>3, LenProperties
<1>5. \A i \in 1..n : /\ i - 1 \in 0..n
                      /\ Len(j[i]) = Len(j[i - 1]) + Len(texts[i])
                      /\ \A p \in 1..Len(j[i - 1]) : j[i][p] = j[i - 1][p]
                      /\ \A q \in 1..Len(texts[i]) : j[i][Len(j[i - 1]) + q] = texts[i][q]
    <2> TAKE i \in 1..n
    <2>1. i - 1 \in 0..n
        BY <1>1
    <2> DEFINE a == j[i - 1]
               b == texts[i]
    <2>2. a \in Seq(S) /\ b \in Seq(S) /\ j[i] = a \o b /\ Len(a) \in Nat /\ Len(b) \in Nat
        BY <1>2, <1>3, <1>4, <2>1
    <2> HIDE DEF a, b
    <2>3. /\ Len(a \o b) = Len(a) + Len(b)
          /\ \A p \in 1..(Len(a) + Len(b)) :
                 (a \o b)[p] = IF p <= Len(a) THEN a[p] ELSE b[p - Len(a)]
        BY <2>2, ConcatProperties
    <2>4. \A p \in 1..Len(a) : (a \o b)[p] = a[p]
        BY <2>2, <2>3
    <2>5. \A q \in 1..Len(b) : (a \o b)[Len(a) + q] = b[q]
        <3> TAKE q \in 1..Len(b)
        <3>1. Len(a) + q \in 1..(Len(a) + Len(b)) /\ ~ (Len(a) + q <= Len(a))
              /\ (Len(a) + q) - Len(a) = q
            BY <2>2
        <3>. QED BY <2>3, <3>1
    <2>. QED BY <2>1, <2>2, <2>3, <2>4, <2>5 DEF a, b
<1>s. ASSUME NEW m \in 0..(n - 1)
      PROVE  /\ Len(j[m + 1]) = Len(j[m]) + Len(texts[m + 1])
             /\ \A p \in 1..Len(j[m]) : j[m + 1][p] = j[m][p]
             /\ m \in 0..n /\ m + 1 \in 0..n /\ m + 1 \in 1..n
             /\ Len(j[m]) \in Nat /\ Len(texts[m + 1]) \in Nat /\ Len(j[m + 1]) \in Nat
    <2>1. ASSUME NEW k \in 1..n, k - 1 = m
          PROVE  /\ Len(j[k]) = Len(j[m]) + Len(texts[k])
                 /\ \A p \in 1..Len(j[m]) : j[k][p] = j[m][p]
        <3>1. /\ Len(j[k]) = Len(j[k - 1]) + Len(texts[k])
              /\ \A p \in 1..Len(j[k - 1]) : j[k][p] = j[k - 1][p]
            BY <1>5
        <3> DEFINE before == k - 1
        <3>2. before = m
            BY <2>1
        <3> HIDE DEF before
        <3>3. /\ Len(j[k]) = Len(j[before]) + Len(texts[k])
              /\ \A p \in 1..Len(j[before]) : j[k][p] = j[before][p]
            BY <3>1 DEF before
        <3>. QED BY <3>2, <3>3
    <2>2. m \in 0..n /\ m + 1 \in 0..n /\ m + 1 \in 1..n /\ (m + 1) - 1 = m
        BY <1>1
    <2>. QED BY <1>2, <1>4, <2>1, <2>2
<1>a. /\ \A a, b, c, d \in Nat : a <= b /\ d = b + c => a <= d
      /\ \A a, b, c \in Nat : c = a + b =>
             \A q \in 1..b : a + q \in 1..c
      /\ \A a, b, c \in Nat : c = a + b =>
             \A q \in 1..c : q > a => q - a \in 1..b /\ q = a + (q - a)
    OBVIOUS
<1>6. ASSUME NEW i \in 0..n, NEW k \in 0..n, k >= i
      PROVE  Len(j[i]) <= Len(j[k]) /\ \A p \in 1..Len(j[i]) : j[k][p] = j[i][p]
    <2> DEFINE Good(m) == Len(j[i]) <= Len(j[m]) /\ \A p \in 1..Len(j[i]) : j[m][p] = j[i][p]
               T == {m \in 0..n : m >= i => Good(m)}
    <2>1. 0 \in T
        <3>1. 0 >= i => 0 = i
            OBVIOUS
        <3>. QED BY <1>1, <1>4, <3>1
    <2>2. ASSUME NEW m \in 0..(n - 1), m \in T
          PROVE  m + 1 \in T
        <3>1. m + 1 \in 1..n /\ (m + 1) - 1 = m /\ m \in 0..n /\ m + 1 \in 0..n
            BY <1>1
        <3>2. CASE m >= i
            <4>1. Good(m)
                BY <2>2, <3>2
            <4>2. /\ Len(j[m + 1]) = Len(j[m]) + Len(texts[m + 1])
                  /\ \A p \in 1..Len(j[m]) : j[m + 1][p] = j[m][p]
                BY <1>s
            <4>3. /\ Len(j[m]) \in Nat /\ Len(texts[m + 1]) \in Nat /\ Len(j[i]) \in Nat
                  /\ Len(j[m + 1]) \in Nat
                BY <1>4, <1>s
            <4>0. Len(j[i]) <= Len(j[m])
                BY <4>1
            <4>4. Len(j[i]) <= Len(j[m + 1])
                <5> DEFINE x == Len(j[i])
                           y == Len(j[m])
                           z == Len(texts[m + 1])
                           w == Len(j[m + 1])
                <5>1. x \in Nat /\ y \in Nat /\ z \in Nat /\ w = y + z /\ x <= y
                    BY <4>0, <4>2, <4>3
                <5> HIDE DEF x, y, z, w
                <5>2. x <= w
                    BY <5>1
                <5>. QED BY <5>2 DEF x, w
            <4>5. \A p \in 1..Len(j[i]) : p \in 1..Len(j[m])
                BY <4>1, <4>3
            <4>6. Good(m + 1)
                BY <4>1, <4>2, <4>4, <4>5
            <4>. QED BY <3>1, <4>6
        <3>3. CASE m + 1 = i
            BY <1>4, <3>1, <3>3
        <3>4. CASE m + 1 < i
            <4>1. ~ (m + 1 >= i)
                BY <3>1, <3>4
            <4>. QED BY <3>1, <4>1
        <3>5. m >= i \/ m + 1 = i \/ m + 1 < i
            BY <3>1
        <3>. QED BY <3>2, <3>3, <3>4, <3>5
    <2> HIDE DEF T
    <2>3. 0..n \subseteq T
        BY <1>1, <2>1, <2>2, UpTo
    <2>. QED BY <1>6, <2>3 DEF T
<1>7. \A p \in 1..Len(j[n]) : \E i \in 1..n : \E q \in 1..Len(texts[i]) : p = Len(j[i - 1]) + q
    <2> DEFINE Good(m) == \A p \in 1..Len(j[m]) : \E i \in 1..n : \E q \in 1..Len(texts[i]) :
                              p = Len(j[i - 1]) + q
               T == {m \in 0..n : Good(m)}
    <2>1. 0 \in T
        <3>1. Len(j[0]) = 0
            BY <1>3, EmptySeq
        <3>. QED BY <1>1, <3>1
    <2>2. ASSUME NEW m \in 0..(n - 1), m \in T
          PROVE  m + 1 \in T
        <3>1. m + 1 \in 1..n /\ (m + 1) - 1 = m /\ m \in 0..n /\ m + 1 \in 0..n
            BY <1>1
        <3>2. Len(j[m + 1]) = Len(j[m]) + Len(texts[m + 1])
            BY <1>s
        <3>3. Len(j[m]) \in Nat /\ Len(texts[m + 1]) \in Nat /\ Len(j[m + 1]) \in Nat
            BY <1>s
        <3>4. ASSUME NEW p \in 1..Len(j[m + 1])
              PROVE  \E i \in 1..n : \E q \in 1..Len(texts[i]) : p = Len(j[i - 1]) + q
            <4>1. CASE p <= Len(j[m])
                <5>1. p \in 1..Len(j[m])
                    BY <3>3, <3>2, <4>1
                <5>. QED BY <2>2, <5>1
            <4>2. CASE p > Len(j[m])
                <5>1. p - Len(j[m]) \in 1..Len(texts[m + 1]) /\ p = Len(j[m]) + (p - Len(j[m]))
                    <6> DEFINE a == Len(j[m])
                               b == Len(texts[m + 1])
                               c == Len(j[m + 1])
                    <6>1. a \in Nat /\ b \in Nat /\ c = a + b /\ p \in 1..c /\ p > a
                        BY <3>2, <3>3, <4>2
                    <6> HIDE DEF a, b, c
                    <6>2. p - a \in 1..b /\ p = a + (p - a)
                        BY <6>1
                    <6>. QED BY <6>2 DEF a, b
                <5>2. \E q \in 1..Len(texts[m + 1]) : p = Len(j[(m + 1) - 1]) + q
                    BY <3>1, <5>1
                <5>. QED BY <3>1, <5>2
            <4>3. p \in Int /\ Len(j[m]) \in Int
                BY <3>2, <3>3
            <4>. QED BY <4>1, <4>2, <4>3
        <3>5. Good(m + 1)
            BY <3>4
        <3>. QED BY <3>1, <3>5
    <2> HIDE DEF T
    <2>3. 0..n \subseteq T
        BY <1>1, <2>1, <2>2, UpTo
    <2>4. n \in T
        BY <1>1, <2>3
    <2>. QED BY <2>4 DEF T
<1>8. n \in 0..n
    BY <1>1
<1>9. ASSUME NEW i \in 1..n
      PROVE  /\ Len(j[i - 1]) \in Nat
             /\ Len(j[i - 1]) + Len(texts[i]) <= Len(j[n])
             /\ \A q \in 1..Len(texts[i]) : j[n][Len(j[i - 1]) + q] = texts[i][q]
    <2>1. i \in 0..n /\ n >= i
        BY <1>1
    <2>2. Len(j[i]) <= Len(j[n]) /\ \A p \in 1..Len(j[i]) : j[n][p] = j[i][p]
        BY <1>6, <1>8, <2>1
    <2>3. Len(j[i - 1]) \in Nat /\ Len(texts[i]) \in Nat
        BY <1>2, <1>4, <1>5
    <2>4. ASSUME NEW q \in 1..Len(texts[i])
          PROVE  j[n][Len(j[i - 1]) + q] = texts[i][q]
        <3>0. Len(j[i]) = Len(j[i - 1]) + Len(texts[i]) /\ Len(j[i]) \in Nat
            BY <1>4, <1>5, <2>1
        <3>1. Len(j[i - 1]) + q \in 1..Len(j[i])
            BY <1>a, <2>3, <3>0
        <3>. QED BY <1>5, <2>2, <3>1
    <2>5. Len(j[i]) = Len(j[i - 1]) + Len(texts[i])
        BY <1>5
    <2>. QED BY <2>2, <2>3, <2>4, <2>5
<1>10. \A i \in 1..n : i < n => Len(j[(i + 1) - 1]) = Len(j[i - 1]) + Len(texts[i])
    <2> TAKE i \in 1..n
    <2>1. (i + 1) - 1 = i
        BY <1>1
    <2>. QED BY <1>5, <2>1
<1>11. Len(j[0]) = 0
    BY <1>3, EmptySeq
<1>12. n > 0 => Len(j[1 - 1]) = 0 /\ n \in 1..n
    BY <1>1, <1>11
<1>13. n > 0 => Len(j[n]) = Len(j[n - 1]) + Len(texts[n])
    BY <1>5, <1>12
<1>14. j[n] \in Seq(S)
    BY <1>4, <1>8
<1>15. n = 0 => Len(j[n]) = 0
    BY <1>11
<1> DEFINE all == Joined(texts)
<1>16. \A i \in 1..n : /\ Before(texts, i) \in Nat
                       /\ Before(texts, i) + Len(texts[i]) <= Len(all)
                       /\ \A q \in 1..Len(texts[i]) : all[Before(texts, i) + q] = texts[i][q]
    BY <1>9, <1>j
<1>17. \A p \in 1..Len(all) : \E i \in 1..n : \E q \in 1..Len(texts[i]) :
          p = Before(texts, i) + q
    <2> TAKE p \in 1..Len(all)
    <2>1. p \in 1..Len(j[n])
        BY <1>j
    <2>2. PICK i \in 1..n : \E q \in 1..Len(texts[i]) : p = Len(j[i - 1]) + q
        BY <1>7, <2>1
    <2>3. PICK q \in 1..Len(texts[i]) : p = Len(j[i - 1]) + q
        BY <2>2
    <2>4. p = Before(texts, i) + q
        BY <1>j, <2>3
    <2>. QED BY <2>4
<1>18. /\ \A i \in 1..n : i < n => Before(texts, i + 1) = Before(texts, i) + Len(texts[i])
       /\ n > 0 => Before(texts, 1) = 0
       /\ n > 0 => Len(all) = Before(texts, n) + Len(texts[n])
       /\ n = 0 => Len(all) = 0
       /\ all \in Seq(S)
    BY <1>10, <1>12, <1>13, <1>14, <1>15, <1>j
<1> HIDE DEF all
<1>19. TextsAt(texts, all)
    BY <1>16, <1>17, <1>18 DEF n, TextsAt
<1>. QED BY <1>18, <1>19 DEF all

\* Where the two parts of a concatenation are.
LEMMA JoinOf ==
    ASSUME NEW S, NEW s \in Seq(S), NEW t \in Seq(S)
    PROVE  /\ s \o t \in Seq(S) /\ Len(s \o t) = Len(s) + Len(t)
           /\ Len(s) \in Nat /\ Len(t) \in Nat
           /\ \A i \in 1..Len(s) : (s \o t)[i] = s[i]
           /\ \A i \in 1..Len(t) : (s \o t)[Len(s) + i] = t[i]
<1>1. /\ s \o t \in Seq(S) /\ Len(s \o t) = Len(s) + Len(t)
      /\ Len(s) \in Nat /\ Len(t) \in Nat
    BY ConcatProperties, LenProperties
<1>2. ASSUME NEW i \in 1..Len(s)
      PROVE  (s \o t)[i] = s[i]
    BY <1>1, ConcatProperties
<1>3. ASSUME NEW i \in 1..Len(t)
      PROVE  (s \o t)[Len(s) + i] = t[i]
    <2>1. Len(s) + i \in 1..(Len(s) + Len(t)) /\ ~(Len(s) + i <= Len(s))
          /\ Len(s) + i - Len(s) = i
        BY <1>1
    <2>. QED BY <2>1, ConcatProperties
<1>. QED BY <1>1, <1>2, <1>3

\* A text of one token.
LEMMA OneToken ==
    ASSUME NEW a \in Token
    PROVE  <<a>> \in Seq(Token) /\ Len(<<a>>) = 1 /\ <<a>>[1] = a
<1>1. <<a>> \in [1..1 -> Token]
    OBVIOUS
<1>2. [1..1 -> Token] \subseteq Seq(Token)
    BY SeqDef
<1>. QED BY <1>1, <1>2

\* A text with a token before it.
LEMMA Preceded ==
    ASSUME NEW a \in Token, NEW text \in Seq(Token)
    PROVE  /\ <<a>> \o text \in Seq(Token) /\ Len(<<a>> \o text) = Len(text) + 1
           /\ Len(text) \in Nat
           /\ (<<a>> \o text)[1] = a
           /\ \A p \in 1..Len(text) : (<<a>> \o text)[p + 1] = text[p]
<1> DEFINE A == <<a>>
<1>1. A \in Seq(Token) /\ Len(A) = 1 /\ A[1] = a
    BY OneToken
<1> HIDE DEF A
<1>2. /\ A \o text \in Seq(Token) /\ Len(A \o text) = Len(A) + Len(text)
      /\ Len(text) \in Nat
      /\ \A i \in 1..Len(A) : (A \o text)[i] = A[i]
      /\ \A i \in 1..Len(text) : (A \o text)[Len(A) + i] = text[i]
    BY <1>1, JoinOf
<1>3. 1 + Len(text) = Len(text) + 1 /\ 1 \in 1..1 /\ \A p \in 1..Len(text) : 1 + p = p + 1
    BY <1>2
<1>. QED BY <1>1, <1>2, <1>3 DEF A

\* A text with a token behind it.
LEMMA Followed ==
    ASSUME NEW b \in Token, NEW text \in Seq(Token)
    PROVE  /\ text \o <<b>> \in Seq(Token) /\ Len(text \o <<b>>) = Len(text) + 1
           /\ Len(text) \in Nat
           /\ (text \o <<b>>)[Len(text) + 1] = b
           /\ \A p \in 1..Len(text) : (text \o <<b>>)[p] = text[p]
<1> DEFINE B == <<b>>
<1>1. B \in Seq(Token) /\ Len(B) = 1 /\ B[1] = b
    BY OneToken
<1> HIDE DEF B
<1>2. /\ text \o B \in Seq(Token) /\ Len(text \o B) = Len(text) + Len(B)
      /\ Len(text) \in Nat
      /\ \A i \in 1..Len(text) : (text \o B)[i] = text[i]
      /\ \A i \in 1..Len(B) : (text \o B)[Len(text) + i] = B[i]
    <2> DEFINE S == Token
    <2>1. B \in Seq(S) /\ text \in Seq(S)
        BY <1>1
    <2> HIDE DEF S
    <2>. QED BY <2>1, JoinOf DEF S
<1>3. 1 \in 1..Len(B)
    BY <1>1
<1>. QED BY <1>1, <1>2, <1>3 DEF B

\* A text between two tokens.
LEMMA Enclosed ==
    ASSUME NEW a \in Token, NEW b \in Token, NEW text \in Seq(Token),
           NEW e, e = <<a>> \o text \o <<b>>
    PROVE  /\ e \in Seq(Token) /\ Len(e) = Len(text) + 2 /\ Len(text) \in Nat
           /\ e[1] = a /\ e[Len(text) + 2] = b
           /\ \A p \in 1..Len(text) : e[p + 1] = text[p]
<1> DEFINE c == <<a>> \o text
<1>1. /\ c \in Seq(Token) /\ Len(c) = Len(text) + 1 /\ Len(text) \in Nat
      /\ c[1] = a /\ \A p \in 1..Len(text) : c[p + 1] = text[p]
    BY Preceded
<1>e. e = c \o <<b>>
    OBVIOUS
<1> HIDE DEF c
<1>2. /\ e \in Seq(Token) /\ Len(e) = Len(c) + 1
      /\ e[Len(c) + 1] = b
      /\ \A p \in 1..Len(c) : e[p] = c[p]
    BY <1>1, <1>e, Followed
<1>3. /\ (Len(text) + 1) + 1 = Len(text) + 2 /\ 1 \in 1..(Len(text) + 1)
      /\ \A p \in 1..Len(text) : p + 1 \in 1..(Len(text) + 1)
    BY <1>1
<1>. QED BY <1>1, <1>2, <1>3

\* Texts with commas between them.
Pieces(texts) == [i \in DOMAIN texts |-> IF i = 1 THEN texts[i] ELSE <<"comma">> \o texts[i]]
Start(texts, i) == Before(Pieces(texts), i) + IF i = 1 THEN 0 ELSE 1

SeparatedAt(texts, sep) ==
    /\ \A i \in 1..Len(texts) :
          /\ Start(texts, i) \in Nat
          /\ Start(texts, i) + Len(texts[i]) <= Len(sep)
          /\ \A q \in 1..Len(texts[i]) : sep[Start(texts, i) + q] = texts[i][q]
    /\ \A p \in 1..Len(sep) :
          \/ sep[p] = "comma"
          \/ \E i \in 1..Len(texts) : \E q \in 1..Len(texts[i]) : p = Start(texts, i) + q
    /\ \A i \in 1..Len(texts) : i < Len(texts) =>
          /\ Start(texts, i + 1) = Start(texts, i) + Len(texts[i]) + 1
          /\ sep[Start(texts, i + 1)] = "comma"
    /\ Len(texts) > 0 => Start(texts, 1) = 0
    /\ Len(texts) > 0 => Len(sep) = Start(texts, Len(texts)) + Len(texts[Len(texts)])
    /\ Len(texts) = 0 => Len(sep) = 0

\* So are texts that are separated, with a comma before each but the first.
LEMMA SeparatedLayout ==
    ASSUME NEW texts \in Seq(Seq(Token))
    PROVE  Separated(texts) \in Seq(Token) /\ SeparatedAt(texts, Separated(texts))
<1> DEFINE n == Len(texts)
           pieces == Pieces(texts)
           sep == Separated(texts)
<1>1. n \in Nat /\ DOMAIN texts = 1..n
    BY LenProperties
<1>2. \A i \in 1..n : texts[i] \in Seq(Token) /\ Len(texts[i]) \in Nat
    BY ElementOfSeq, LenProperties
<1>3. \A i \in 1..n :
           /\ <<"comma">> \o texts[i] \in Seq(Token)
           /\ Len(<<"comma">> \o texts[i]) = Len(texts[i]) + 1
           /\ (<<"comma">> \o texts[i])[1] = "comma"
           /\ \A p \in 1..Len(texts[i]) : (<<"comma">> \o texts[i])[p + 1] = texts[i][p]
    <2>1. "comma" \in Token
        BY DEF Token, Mark
    <2>. QED BY <1>2, <2>1, Preceded
<1>4. pieces \in Seq(Seq(Token)) /\ Len(pieces) = n
    <2>1. pieces \in [1..n -> Seq(Token)]
        BY <1>1, <1>2, <1>3 DEF Pieces
    <2>3. pieces \in Seq(Seq(Token))
        <3> DEFINE S == Seq(Token)
        <3> HIDE DEF S, n, pieces
        <3>1. pieces \in [1..n -> S]
            BY <2>1 DEF S
        <3>2. pieces \in Seq(S)
            BY <1>1, <3>1, SeqDef
        <3>. QED BY <3>2 DEF S
    <2>4. DOMAIN pieces = 1..n
        BY <2>1
    <2>. QED BY <1>1, <2>3, <2>4, LenProperties
<1>5. \A i \in 1..n : pieces[i] = IF i = 1 THEN texts[i] ELSE <<"comma">> \o texts[i]
    BY <1>1 DEF Pieces
<1>6. sep = Joined(pieces)
    BY DEF Separated, Pieces
<1>7. /\ sep \in Seq(Token)
      /\ \A i \in 1..n : /\ Before(pieces, i) \in Nat
                         /\ Before(pieces, i) + Len(pieces[i]) <= Len(sep)
                         /\ \A q \in 1..Len(pieces[i]) : sep[Before(pieces, i) + q] = pieces[i][q]
      /\ \A p \in 1..Len(sep) : \E i \in 1..n :
             \E q \in 1..Len(pieces[i]) : p = Before(pieces, i) + q
      /\ \A i \in 1..n : i < n => Before(pieces, i + 1) = Before(pieces, i) + Len(pieces[i])
      /\ n > 0 => Before(pieces, 1) = 0
      /\ n > 0 => Len(sep) = Before(pieces, n) + Len(pieces[n])
      /\ n = 0 => Len(sep) = 0
    <2>1. pieces \in Seq(Seq(Token)) /\ n = Len(pieces) /\ sep = Joined(pieces)
        BY <1>4, <1>6
    <2> HIDE DEF pieces, n, sep
    <2>2. sep \in Seq(Token) /\ TextsAt(pieces, sep)
        BY <2>1, JoinedLayout
    <2>. QED BY <2>1, <2>2 DEF TextsAt
<1> HIDE DEF pieces, n, sep
<1>8. \A i \in 1..n : Start(texts, i) = Before(pieces, i) + IF i = 1 THEN 0 ELSE 1
    BY DEF Start, pieces
<1>9. ASSUME NEW i \in 1..n
      PROVE  /\ Start(texts, i) \in Nat
             /\ Start(texts, i) + Len(texts[i]) = Before(pieces, i) + Len(pieces[i])
             /\ \A q \in 1..Len(texts[i]) : sep[Start(texts, i) + q] = texts[i][q]
             /\ i # 1 => sep[Start(texts, i)] = "comma"
             /\ \A q \in 1..Len(pieces[i]) :
                   \/ sep[Before(pieces, i) + q] = "comma"
                   \/ \E r \in 1..Len(texts[i]) : Before(pieces, i) + q = Start(texts, i) + r
    <2> DEFINE b == Before(pieces, i)
               l == Len(texts[i])
    <2>1. b \in Nat /\ l \in Nat /\ i \in Int
        BY <1>1, <1>2, <1>7
    <2>2. CASE i = 1
        <3>1. pieces[i] = texts[i] /\ Start(texts, i) = b
            <4>1. pieces[i] = texts[i]
                BY <1>5, <2>2
            <4>2. Start(texts, i) = b + 0
                BY <1>8, <2>2
            <4>. QED BY <2>1, <4>1, <4>2
        <3>2. \A q \in 1..l : sep[b + q] = texts[i][q]
            BY <1>7, <3>1
        <3>. QED BY <2>1, <2>2, <3>1, <3>2
    <2>3. CASE i # 1
        <3>1. pieces[i] = <<"comma">> \o texts[i] /\ Start(texts, i) = b + 1
            BY <1>5, <1>8, <2>1, <2>3
        <3>2. Len(pieces[i]) = l + 1 /\ pieces[i][1] = "comma" /\ \A p \in 1..l : pieces[i][p + 1] = texts[i][p]
            BY <1>3, <3>1
        <3>3. \A q \in 1..(l + 1) : sep[b + q] = pieces[i][q]
            BY <1>7, <3>2
        <3>4. 1 \in 1..(l + 1)
            BY <2>1
        <3>5. sep[b + 1] = "comma"
            BY <3>2, <3>3, <3>4
        <3>6. ASSUME NEW q \in 1..l
              PROVE  sep[(b + 1) + q] = texts[i][q]
            <4>1. q + 1 \in 1..(l + 1) /\ (b + 1) + q = b + (q + 1)
                BY <2>1
            <4>2. sep[b + (q + 1)] = pieces[i][q + 1]
                BY <3>3, <4>1
            <4>. QED BY <3>2, <4>1, <4>2
        <3>7. ASSUME NEW q \in 1..(l + 1)
              PROVE  sep[b + q] = "comma" \/ \E r \in 1..l : b + q = (b + 1) + r
            <4>1. CASE q = 1
                BY <3>5, <4>1
            <4>2. CASE q # 1
                <5>1. q - 1 \in 1..l /\ b + q = (b + 1) + (q - 1)
                    BY <2>1, <4>2
                <5>. QED BY <5>1
            <4>. QED BY <4>1, <4>2
        <3>8. b + 1 \in Nat /\ (b + 1) + l = b + (l + 1)
            BY <2>1
        <3>. QED BY <3>1, <3>2, <3>5, <3>6, <3>7, <3>8
    <2>. QED BY <2>2, <2>3
<1>10. ASSUME NEW p \in 1..Len(sep)
       PROVE  sep[p] = "comma" \/ \E i \in 1..n : \E q \in 1..Len(texts[i]) : p = Start(texts, i) + q
    <2>1. PICK i \in 1..n : \E q \in 1..Len(pieces[i]) : p = Before(pieces, i) + q
        BY <1>7
    <2>2. PICK q \in 1..Len(pieces[i]) : p = Before(pieces, i) + q
        BY <2>1
    <2>3. CASE sep[Before(pieces, i) + q] = "comma"
        BY <2>2, <2>3
    <2>4. CASE sep[Before(pieces, i) + q] # "comma"
        <3>1. PICK r \in 1..Len(texts[i]) : Before(pieces, i) + q = Start(texts, i) + r
            BY <1>9, <2>4
        <3>2. p = Start(texts, i) + r
            BY <2>2, <3>1
        <3>. QED BY <3>2
    <2>. QED BY <2>3, <2>4
<1>11. ASSUME NEW i \in 1..n, i < n
       PROVE  /\ Start(texts, i + 1) = Start(texts, i) + Len(texts[i]) + 1
              /\ sep[Start(texts, i + 1)] = "comma"
    <2>1. i + 1 \in 1..n /\ i + 1 # 1
        BY <1>1, <1>11
    <2>2. Start(texts, i + 1) = Before(pieces, i + 1) + 1
        BY <1>8, <2>1
    <2>3. Before(pieces, i + 1) = Start(texts, i) + Len(texts[i])
        BY <1>7, <1>9, <1>11
    <2>4. sep[Start(texts, i + 1)] = "comma"
        BY <1>9, <2>1
    <2>. QED BY <2>2, <2>3, <2>4
<1>12. n > 0 => Start(texts, 1) = 0 /\ Len(sep) = Start(texts, n) + Len(texts[n])
    <2> HAVE n > 0
    <2>1. 1 \in 1..n /\ n \in 1..n
        BY <1>1
    <2>2. Start(texts, 1) = Before(pieces, 1) + 0 /\ Before(pieces, 1) = 0
        BY <1>7, <1>8, <2>1
    <2>3. Len(sep) = Before(pieces, n) + Len(pieces[n])
        BY <1>7
    <2>4. Before(pieces, n) + Len(pieces[n]) = Start(texts, n) + Len(texts[n])
        BY <1>9, <2>1
    <2>5. Start(texts, 1) = 0
        BY <2>2
    <2>. QED BY <2>3, <2>4, <2>5
<1>13. \A i \in 1..n : Start(texts, i) + Len(texts[i]) <= Len(sep)
    BY <1>7, <1>9
<1>14. SeparatedAt(texts, sep)
    BY <1>7, <1>9, <1>10, <1>11, <1>12, <1>13 DEF n, SeparatedAt
<1>. QED BY <1>7, <1>14 DEF sep

\* A token of a text that is a value.
LEMMA SimpleTokenIs ==
    ASSUME NEW v \in Simple
    PROVE  /\ SimpleToken(v) \in Quoted \cup {Scalar} /\ SimpleToken(v) \in Token
           /\ v.kind = "string" => SimpleToken(v) = v.of /\ v.of \in Quoted
           /\ v.kind # "string" => SimpleToken(v) = Scalar
BY DEF Simple, SimpleToken, Token

\* The text of an array, one string or scalar after the other.
ArrayTexts(values) == [i \in DOMAIN values |-> <<SimpleToken(values[i])>>]

\* They are texts of one token.
LEMMA ArrayTextsAre ==
    ASSUME NEW values \in Seq(Simple)
    PROVE  /\ ArrayTexts(values) \in Seq(Seq(Token)) /\ Len(ArrayTexts(values)) = Len(values)
           /\ \A i \in 1..Len(values) : /\ Len(ArrayTexts(values)[i]) = 1
                                        /\ ArrayTexts(values)[i][1] = SimpleToken(values[i])
<1> DEFINE n == Len(values)
           texts == ArrayTexts(values)
           S == Seq(Token)
<1>1. n \in Nat /\ DOMAIN values = 1..n /\ \A i \in 1..n : values[i] \in Simple
    BY LenProperties, ElementOfSeq
<1>2. \A i \in 1..n : LET t == SimpleToken(values[i]) IN
          <<t>> \in S /\ Len(<<t>>) = 1 /\ <<t>>[1] = t
    BY <1>1, SimpleTokenIs, OneToken
<1>3. texts \in [1..n -> S] /\ \A i \in 1..n : texts[i] = <<SimpleToken(values[i])>>
    BY <1>1, <1>2 DEF ArrayTexts
<1>4. \A i \in 1..n : Len(texts[i]) = 1 /\ texts[i][1] = SimpleToken(values[i])
    BY <1>2, <1>3
<1> HIDE DEF S, texts, n
<1>5. texts \in Seq(S)
    BY <1>1, <1>3, SeqDef
<1>6. DOMAIN texts = 1..n
    BY <1>3
<1>7. Len(texts) = n
    BY <1>1, <1>5, <1>6, LenProperties
<1>. QED BY <1>4, <1>5, <1>7 DEF S, texts, n

\* The text of a value: one token, or an array between its brackets.
LEMMA ValueTextIs ==
    ASSUME NEW v \in Value
    PROVE  /\ ValueText(v) \in Seq(Token) /\ Len(ValueText(v)) \in Nat /\ Len(ValueText(v)) >= 1
           /\ v.kind = "string" => ValueText(v)[1] = v.of /\ v.of \in Quoted /\ Len(ValueText(v)) = 1
           /\ v.kind = "scalar" => ValueText(v)[1] = Scalar /\ Len(ValueText(v)) = 1
           /\ v.kind = "array" =>
                 LET sep == Separated(ArrayTexts(v.of)) IN
                 /\ v.of \in Seq(Simple)
                 /\ sep \in Seq(Token) /\ SeparatedAt(ArrayTexts(v.of), sep)
                 /\ Len(ValueText(v)) = Len(sep) + 2 /\ Len(sep) \in Nat
                 /\ ValueText(v)[1] = "openBracket"
                 /\ ValueText(v)[Len(sep) + 2] = "closeBracket"
                 /\ \A p \in 1..Len(sep) : ValueText(v)[p + 1] = sep[p]
           /\ v.kind \in {"string", "scalar", "array"}
<1>1. v \in Simple \/ v \in [kind : {"array"}, of : Seq(Simple)]
    BY DEF Value
<1>2. CASE v \in Simple
    <2>1. v.kind \in {"string", "scalar"}
        BY <1>2 DEF Simple
    <2>2. ValueText(v) = <<SimpleToken(v)>>
        BY <2>1 DEF ValueText
    <2>3. ValueText(v) \in Seq(Token) /\ Len(ValueText(v)) = 1 /\ ValueText(v)[1] = SimpleToken(v)
        BY <1>2, <2>2, SimpleTokenIs, OneToken
    <2>. QED BY <1>2, <2>1, <2>3, SimpleTokenIs
<1>3. CASE v \in [kind : {"array"}, of : Seq(Simple)]
    <2>1. v.kind = "array" /\ v.of \in Seq(Simple)
        BY <1>3
    <2> DEFINE sep == Separated(ArrayTexts(v.of))
    <2>2. sep \in Seq(Token) /\ SeparatedAt(ArrayTexts(v.of), sep)
        BY <2>1, ArrayTextsAre, SeparatedLayout
    <2>3. ValueText(v) = <<"openBracket">> \o sep \o <<"closeBracket">>
        BY <2>1 DEF ValueText, ArrayTexts
    <2>4. "openBracket" \in Token /\ "closeBracket" \in Token
        BY DEF Token, Mark
    <2>5. /\ ValueText(v) \in Seq(Token) /\ Len(ValueText(v)) = Len(sep) + 2 /\ Len(sep) \in Nat
          /\ ValueText(v)[1] = "openBracket" /\ ValueText(v)[Len(sep) + 2] = "closeBracket"
          /\ \A p \in 1..Len(sep) : ValueText(v)[p + 1] = sep[p]
        <3> HIDE DEF sep
        <3>. QED BY <2>2, <2>3, <2>4, Enclosed
    <2> HIDE DEF sep
    <2>6. Len(ValueText(v)) \in Nat /\ Len(ValueText(v)) >= 1
        BY <2>5
    <2>. QED BY <2>1, <2>2, <2>5, <2>6 DEF sep
<1>. QED BY <1>1, <1>2, <1>3

\* The text of a field: its key, a colon and its value.
LEMMA FieldTextIs ==
    ASSUME NEW field \in Quoted \X Value
    PROVE  /\ FieldText(field) \in Seq(Token)
           /\ Len(FieldText(field)) = Len(ValueText(field[2])) + 2
           /\ FieldText(field)[1] = field[1] /\ FieldText(field)[2] = "colon"
           /\ \A q \in 1..Len(ValueText(field[2])) :
                  FieldText(field)[q + 2] = ValueText(field[2])[q]
<1> DEFINE v == ValueText(field[2])
           k == field[1]
           c == <<"colon">> \o v
<1>1. k \in Token /\ field[2] \in Value /\ "colon" \in Token
    BY DEF Token, Mark
<1>2. v \in Seq(Token) /\ Len(v) \in Nat
    BY <1>1, ValueTextIs
<1>3. <<k, "colon">> = <<k>> \o <<"colon">>
    <2>1. <<k>> \in Seq(Token) /\ <<"colon">> \in Seq(Token) /\ Len(<<k>>) = 1 /\ Len(<<"colon">>) = 1
          /\ <<k>>[1] = k /\ <<"colon">>[1] = "colon"
        BY <1>1, OneToken
    <2>. QED OBVIOUS
<1>4. FieldText(field) = <<k>> \o c
    <2> DEFINE A == <<k>>
               B == <<"colon">>
    <2>1. A \in Seq(Token) /\ B \in Seq(Token)
        BY <1>1, OneToken
    <2> HIDE DEF A, B, v
    <2>2. (A \o B) \o v = A \o (B \o v)
        BY <1>2, <2>1, ConcatAssociative
    <2>3. FieldText(field) = (A \o B) \o v
        BY <1>3 DEF A, B, FieldText, v
    <2>. QED BY <2>2, <2>3 DEF A, B
<1> HIDE DEF v
<1>5. /\ c \in Seq(Token) /\ Len(c) = Len(v) + 1
      /\ c[1] = "colon" /\ \A p \in 1..Len(v) : c[p + 1] = v[p]
    BY <1>1, <1>2, Preceded
<1> HIDE DEF c, k
<1>6. /\ FieldText(field) \in Seq(Token) /\ Len(FieldText(field)) = Len(c) + 1
      /\ FieldText(field)[1] = k /\ \A p \in 1..Len(c) : FieldText(field)[p + 1] = c[p]
    BY <1>1, <1>4, <1>5, Preceded
<1>7. 1 \in 1..Len(c) /\ 1 + 1 = 2 /\ \A q \in 1..Len(v) : q + 1 \in 1..Len(c) /\ (q + 1) + 1 = q + 2
    BY <1>2, <1>5
<1>8. \A q \in 1..Len(v) : FieldText(field)[(q + 1) + 1] = v[q]
    BY <1>5, <1>6, <1>7
<1>9. FieldText(field)[1 + 1] = "colon"
    BY <1>5, <1>6, <1>7
<1>10. Len(FieldText(field)) = Len(v) + 2
    BY <1>2, <1>5, <1>6
<1>. QED BY <1>6, <1>7, <1>8, <1>9, <1>10 DEF v, k

\* What comes in a value; no key does if none of its strings is one.
LEMMA ValueTokens ==
    ASSUME NEW v \in Value, NEW q \in 1..Len(ValueText(v))
    PROVE  /\ ValueText(v)[q] \in {"openBracket", "closeBracket", "comma", Scalar} \cup Quoted
           /\ \/ ValueText(v)[q] \in {"openBracket", "closeBracket", "comma", Scalar}
              \/ v.kind = "string" /\ ValueText(v)[q] = v.of
              \/ v.kind = "array" /\ \E k \in 1..Len(v.of) : ValueText(v)[q] = v.of[k].of
<1> DEFINE t == ValueText(v)[q]
<1>1. CASE v.kind = "string"
    <2>0. Len(ValueText(v)) = 1
        BY <1>1, ValueTextIs
    <2>1. q = 1
        BY <2>0
    <2>. QED BY <1>1, <2>1, ValueTextIs
<1>2. CASE v.kind = "scalar"
    <2>0. Len(ValueText(v)) = 1
        BY <1>2, ValueTextIs
    <2>1. q = 1
        BY <2>0
    <2>. QED BY <1>2, <2>1, ValueTextIs
<1>3. CASE v.kind = "array"
    <2> DEFINE texts == ArrayTexts(v.of)
               sep == Separated(texts)
    <2>1. /\ v.of \in Seq(Simple) /\ SeparatedAt(texts, sep) /\ Len(sep) \in Nat
          /\ Len(ValueText(v)) = Len(sep) + 2
          /\ ValueText(v)[1] = "openBracket" /\ ValueText(v)[Len(sep) + 2] = "closeBracket"
          /\ \A p \in 1..Len(sep) : ValueText(v)[p + 1] = sep[p]
        BY <1>3, ValueTextIs
    <2>2. /\ Len(texts) = Len(v.of)
          /\ \A i \in 1..Len(v.of) : Len(texts[i]) = 1 /\ texts[i][1] = SimpleToken(v.of[i])
        BY <2>1, ArrayTextsAre
    <2> HIDE DEF texts, sep
    <2>3. CASE q = 1 \/ q = Len(sep) + 2
        BY <2>1, <2>3
    <2>4. CASE q # 1 /\ q # Len(sep) + 2
        <3>1. q - 1 \in 1..Len(sep) /\ (q - 1) + 1 = q
            BY <2>1, <2>4
        <3>2. t = sep[q - 1]
            BY <2>1, <3>1
        <3>3. CASE sep[q - 1] = "comma"
            BY <3>2, <3>3
        <3>4. CASE sep[q - 1] # "comma"
            <4>1. PICK i \in 1..Len(texts) : \E r \in 1..Len(texts[i]) : q - 1 = Start(texts, i) + r
                BY <2>1, <3>1, <3>4 DEF SeparatedAt
            <4>2. PICK r \in 1..Len(texts[i]) : q - 1 = Start(texts, i) + r
                BY <4>1
            <4>0. i \in 1..Len(v.of)
                BY <2>2
            <4>8. Len(texts[i]) = 1
                BY <2>2, <4>0
            <4>3. i \in 1..Len(v.of) /\ r = 1
                BY <4>0, <4>8
            <4>4. sep[Start(texts, i) + r] = texts[i][r]
                BY <2>1 DEF SeparatedAt
            <4>5. t = SimpleToken(v.of[i])
                BY <2>2, <3>2, <4>2, <4>3, <4>4
            <4>6. v.of[i] \in Simple
                BY <2>1, <4>3, ElementOfSeq
            <4>7. t = Scalar \/ (t = v.of[i].of /\ t \in Quoted)
                BY <4>5, <4>6, SimpleTokenIs
            <4>. QED BY <1>3, <4>3, <4>7
        <3>. QED BY <3>3, <3>4
    <2>. QED BY <2>3, <2>4
<1>. QED BY <1>1, <1>2, <1>3, ValueTextIs

\* The text of a listener, field by field.
FieldTexts(fields) == [i \in DOMAIN fields |-> FieldText(fields[i])]

KeyAt(fields, i) == Start(FieldTexts(fields), i) + 2

FieldsAt(fields, object) ==
    /\ Len(object) \in Nat /\ Len(object) >= 2
    /\ object[1] = "openBrace" /\ object[Len(object)] = "closeBrace"
    /\ \A i \in 1..Len(fields) :
          LET value == ValueText(fields[i][2]) IN
          /\ KeyAt(fields, i) \in Nat /\ KeyAt(fields, i) >= 2
          /\ KeyAt(fields, i) + 1 + Len(value) < Len(object)
          /\ object[KeyAt(fields, i)] = fields[i][1]
          /\ object[KeyAt(fields, i) + 1] = "colon"
          /\ \A q \in 1..Len(value) : object[KeyAt(fields, i) + 1 + q] = value[q]
    /\ \A p \in 1..Len(object) :
          \/ p = 1 \/ p = Len(object)
          \/ object[p] = "comma"
          \/ \E i \in 1..Len(fields) :
                \/ p = KeyAt(fields, i)
                \/ p = KeyAt(fields, i) + 1
                \/ \E q \in 1..Len(ValueText(fields[i][2])) : p = KeyAt(fields, i) + 1 + q

\* The text of a listener has its fields in their order, and nothing else but
\* commas, between two braces.
LEMMA ObjectTextIs ==
    ASSUME NEW fields \in Listener
    PROVE  ObjectText(fields) \in Seq(Token) /\ FieldsAt(fields, ObjectText(fields))
<1> DEFINE n == Len(fields)
           texts == FieldTexts(fields)
           S == Seq(Token)
           sep == Separated(texts)
           object == ObjectText(fields)
<1>1. n \in Nat /\ DOMAIN fields = 1..n /\ \A i \in 1..n : fields[i] \in Quoted \X Value
    BY LenProperties, ElementOfSeq DEF Listener
<1>2. texts \in [1..n -> S] /\ \A i \in 1..n : texts[i] = FieldText(fields[i])
    BY <1>1, FieldTextIs DEF FieldTexts
<1>3. texts \in Seq(S) /\ Len(texts) = n
    <2> HIDE DEF S, texts, n
    <2>1. texts \in Seq(S)
        BY <1>1, <1>2, SeqDef
    <2>2. DOMAIN texts = 1..n
        BY <1>2
    <2>. QED BY <1>1, <2>1, <2>2, LenProperties
<1>4. sep \in Seq(Token) /\ SeparatedAt(texts, sep)
    <2> HIDE DEF texts
    <2>. QED BY <1>3, SeparatedLayout
<1>5. object = <<"openBrace">> \o sep \o <<"closeBrace">>
    BY DEF ObjectText, FieldTexts
<1>6. "openBrace" \in Token /\ "closeBrace" \in Token
    BY DEF Token, Mark
<1> HIDE DEF S, texts, sep, object, n
<1>7. /\ object \in Seq(Token) /\ Len(object) = Len(sep) + 2 /\ Len(sep) \in Nat
      /\ object[1] = "openBrace" /\ object[Len(sep) + 2] = "closeBrace"
      /\ \A p \in 1..Len(sep) : object[p + 1] = sep[p]
    <2>1. sep \in Seq(Token)
        BY <1>4
    <2>. QED BY <1>5, <1>6, <2>1, Enclosed
<1>a. Len(sep) \in Nat /\ Len(object) = Len(sep) + 2
    BY <1>7
<1>8. ASSUME NEW i \in 1..n
      PROVE  LET value == ValueText(fields[i][2]) IN
             /\ KeyAt(fields, i) \in Nat /\ KeyAt(fields, i) >= 2
             /\ KeyAt(fields, i) + 1 + Len(value) < Len(object)
             /\ object[KeyAt(fields, i)] = fields[i][1]
             /\ object[KeyAt(fields, i) + 1] = "colon"
             /\ \A q \in 1..Len(value) : object[KeyAt(fields, i) + 1 + q] = value[q]
    <2> DEFINE value == ValueText(fields[i][2])
               s == Start(texts, i)
    <2>1. KeyAt(fields, i) = s + 2
        BY DEF KeyAt, texts
    <2>2. /\ Len(texts[i]) = Len(value) + 2 /\ texts[i][1] = fields[i][1] /\ texts[i][2] = "colon"
          /\ \A q \in 1..Len(value) : texts[i][q + 2] = value[q]
        <3> DEFINE f == fields[i]
        <3>1. f \in Quoted \X Value /\ texts[i] = FieldText(f)
            BY <1>1, <1>2
        <3> HIDE DEF f
        <3>2. /\ Len(FieldText(f)) = Len(ValueText(f[2])) + 2
              /\ FieldText(f)[1] = f[1] /\ FieldText(f)[2] = "colon"
              /\ \A q \in 1..Len(ValueText(f[2])) : FieldText(f)[q + 2] = ValueText(f[2])[q]
            BY <3>1, FieldTextIs
        <3>. QED BY <3>1, <3>2 DEF f
    <2>3. Len(value) \in Nat
        BY <1>1, ValueTextIs
    <2>4. /\ s \in Nat /\ s + Len(texts[i]) <= Len(sep)
          /\ \A q \in 1..Len(texts[i]) : sep[s + q] = texts[i][q]
        BY <1>3, <1>4 DEF SeparatedAt
    <2>a. s \in Nat /\ s + (Len(value) + 2) <= Len(sep)
        BY <2>2, <2>4
    <2> HIDE DEF value, s
    <2>5. ASSUME NEW q \in 1..(Len(value) + 2)
          PROVE  object[(s + 1) + q] = texts[i][q]
        <3>1. s + q \in 1..Len(sep) /\ (s + q) + 1 = (s + 1) + q
            BY <1>a, <2>3, <2>a
        <3>. QED BY <1>7, <2>2, <2>4, <3>1
    <2>6. 1 \in 1..(Len(value) + 2) /\ 2 \in 1..(Len(value) + 2) /\ (s + 1) + 1 = s + 2
          /\ (s + 1) + 2 = (s + 2) + 1
        BY <2>3, <2>4
    <2>7. object[s + 2] = fields[i][1] /\ object[(s + 2) + 1] = "colon"
        BY <2>2, <2>5, <2>6
    <2>8. ASSUME NEW q \in 1..Len(value)
          PROVE  object[(s + 2) + 1 + q] = value[q]
        <3>1. q + 2 \in 1..(Len(value) + 2) /\ (s + 1) + (q + 2) = (s + 2) + 1 + q
            BY <2>3, <2>4
        <3>2. object[(s + 1) + (q + 2)] = texts[i][q + 2]
            BY <2>5, <3>1
        <3>. QED BY <2>2, <3>1, <3>2
    <2>9. s + 2 \in Nat /\ s + 2 >= 2 /\ (s + 2) + 1 + Len(value) < Len(object)
        BY <1>a, <2>3, <2>a
    <2>. QED BY <2>1, <2>7, <2>8, <2>9 DEF value
<1>9. ASSUME NEW p \in 1..Len(object), p # 1, p # Len(object), object[p] # "comma"
      PROVE  \E i \in 1..n : \/ p = KeyAt(fields, i)
                             \/ p = KeyAt(fields, i) + 1
                             \/ \E q \in 1..Len(ValueText(fields[i][2])) : p = KeyAt(fields, i) + 1 + q
    <2>1. p - 1 \in 1..Len(sep) /\ (p - 1) + 1 = p /\ p \in Int
        BY <1>a, <1>9
    <2>2. sep[p - 1] # "comma"
        BY <1>7, <1>9, <2>1
    <2>3. PICK i \in 1..n : \E r \in 1..Len(texts[i]) : p - 1 = Start(texts, i) + r
        BY <1>3, <1>4, <2>1, <2>2 DEF SeparatedAt
    <2>4. PICK r \in 1..Len(texts[i]) : p - 1 = Start(texts, i) + r
        BY <2>3
    <2> DEFINE s == Start(texts, i)
               l == Len(ValueText(fields[i][2]))
    <2>5. KeyAt(fields, i) = s + 2 /\ s \in Nat
        BY <1>3, <1>4 DEF KeyAt, texts, SeparatedAt
    <2>6. Len(texts[i]) = l + 2 /\ l \in Nat
        BY <1>1, <1>2, FieldTextIs, ValueTextIs
    <2> HIDE DEF s, l
    <2>7. r \in 1..(l + 2) /\ p = s + r + 1
        BY <2>1, <2>4, <2>5, <2>6 DEF s
    <2>8. CASE r = 1
        <3>1. p = KeyAt(fields, i)
            BY <2>5, <2>7, <2>8
        <3>. QED BY <3>1
    <2>9. CASE r = 2
        <3>1. p = KeyAt(fields, i) + 1
            BY <2>5, <2>7, <2>9
        <3>. QED BY <3>1
    <2>10. CASE r > 2
        <3>1. r - 2 \in 1..l /\ p = KeyAt(fields, i) + 1 + (r - 2)
            BY <2>5, <2>6, <2>7, <2>10
        <3>2. \E q \in 1..Len(ValueText(fields[i][2])) : p = KeyAt(fields, i) + 1 + q
            BY <3>1 DEF l
        <3>. QED BY <3>2
    <2>. QED BY <2>6, <2>7, <2>8, <2>9, <2>10
<1>10. Len(object) \in Nat /\ Len(object) >= 2
    BY <1>a
<1>11. \A p \in 1..Len(object) :
          \/ p = 1 \/ p = Len(object)
          \/ object[p] = "comma"
          \/ \E i \in 1..n :
                \/ p = KeyAt(fields, i)
                \/ p = KeyAt(fields, i) + 1
                \/ \E q \in 1..Len(ValueText(fields[i][2])) : p = KeyAt(fields, i) + 1 + q
    BY <1>9
<1>12. FieldsAt(fields, object)
    BY <1>7, <1>8, <1>10, <1>11 DEF FieldsAt, n
<1>. QED BY <1>7, <1>12 DEF object

(***************************************************************************)
(* What the extractors find.                                               *)
(***************************************************************************)

\* Min is the least element.
LEMMA MinIsLeast ==
    ASSUME NEW T, T \subseteq Nat, T # {}
    PROVE  /\ Min(T) \in T
           /\ \A y \in T : Min(T) <= y
BY LeastElement DEF Min

\* A search finds the first token of a set, or none if there is none.
LEMMA FindIs ==
    ASSUME NEW text \in Seq(Token), NEW from \in Nat \ {0}, NEW tokens
    PROVE  \/ /\ Find(text, from, tokens) = 0
              /\ \A i \in from..Len(text) : text[i] \notin tokens
           \/ /\ Find(text, from, tokens) \in from..Len(text)
              /\ text[Find(text, from, tokens)] \in tokens
              /\ \A i \in from..Len(text) : text[i] \in tokens => Find(text, from, tokens) <= i
<1> DEFINE at == {i \in from..Len(text) : text[i] \in tokens}
<1>1. Len(text) \in Nat
    BY LenProperties
<1>2. at \subseteq Nat
    BY <1>1
<1>3. CASE at = {}
    BY <1>3 DEF Find
<1>4. CASE at # {}
    <2>1. Find(text, from, tokens) = Min(at)
        BY <1>4 DEF Find
    <2>2. Min(at) \in at /\ \A y \in at : Min(at) <= y
        BY <1>2, <1>4, MinIsLeast
    <2>. QED BY <2>1, <2>2
<1>. QED BY <1>3, <1>4

\* The first one is what a search finds.
LEMMA FindFirst ==
    ASSUME NEW text \in Seq(Token), NEW from \in Nat \ {0}, NEW tokens,
           NEW p \in from..Len(text), text[p] \in tokens,
           \A i \in from..Len(text) : text[i] \in tokens => p <= i
    PROVE  Find(text, from, tokens) = p
<1>1. Len(text) \in Nat
    BY LenProperties
<1> DEFINE f == Find(text, from, tokens)
<1>2. /\ f \in from..Len(text)
      /\ text[f] \in tokens
      /\ \A i \in from..Len(text) : text[i] \in tokens => f <= i
    BY FindIs
<1> HIDE DEF f
<1>3. f <= p /\ p <= f /\ f \in Int /\ p \in Int
    BY <1>1, <1>2
<1>4. f = p
    BY <1>3
<1>. QED BY <1>4 DEF f

\* Where there is none it finds none.
LEMMA FindNone ==
    ASSUME NEW text \in Seq(Token), NEW from \in Nat \ {0}, NEW tokens,
           \A i \in from..Len(text) : text[i] \notin tokens
    PROVE  Find(text, from, tokens) = 0
BY FindIs

\* In the text of a plain listener a key of a rule is where a field begins.
LEMMA KeysAreKeys ==
    ASSUME NEW fields \in Listener, PlainListener(fields),
           NEW p \in 1..Len(ObjectText(fields)), ObjectText(fields)[p] \in RuleKey
    PROVE  \E i \in 1..Len(fields) :
               p = KeyAt(fields, i) /\ ObjectText(fields)[p] = fields[i][1]
<1> DEFINE object == ObjectText(fields)
           n == Len(fields)
<1>1. FieldsAt(fields, object) /\ object \in Seq(Token)
    BY ObjectTextIs
<1>2. n \in Nat /\ DOMAIN fields = 1..n /\ \A i \in 1..n : fields[i] \in Quoted \X Value
    BY LenProperties, ElementOfSeq DEF Listener
<1> HIDE DEF object, n
<1>3. object[p] \in RuleKey /\ p \in 1..Len(object)
    BY DEF object
<1>4. p # 1 /\ p # Len(object) /\ object[p] # "comma"
    BY <1>1, <1>3 DEF FieldsAt, RuleKey
<1>5. PICK i \in 1..n :
          \/ p = KeyAt(fields, i)
          \/ p = KeyAt(fields, i) + 1
          \/ \E q \in 1..Len(ValueText(fields[i][2])) : p = KeyAt(fields, i) + 1 + q
    BY <1>1, <1>3, <1>4 DEF FieldsAt, n
<1>6. CASE p = KeyAt(fields, i)
    <2>1. object[p] = fields[i][1]
        BY <1>1, <1>6 DEF FieldsAt, n
    <2>. QED BY <1>6, <2>1 DEF object, n
<1>7. CASE p = KeyAt(fields, i) + 1
    <2>1. object[p] = "colon"
        BY <1>1, <1>7 DEF FieldsAt, n
    <2>. QED BY <1>3, <2>1 DEF RuleKey
<1>8. ASSUME NEW q \in 1..Len(ValueText(fields[i][2])), p = KeyAt(fields, i) + 1 + q
      PROVE  FALSE
    <2> DEFINE v == fields[i][2]
               t == ValueText(v)[q]
    <2>1. object[p] = t
        BY <1>1, <1>8 DEF FieldsAt, n
    <2>2. v \in Value
        BY <1>2
    <2>3. \/ t \in {"openBracket", "closeBracket", "comma", Scalar}
          \/ v.kind = "string" /\ t = v.of
          \/ v.kind = "array" /\ \E k \in 1..Len(v.of) : t = v.of[k].of
        BY <2>2, ValueTokens
    <2>4. CASE t \in {"openBracket", "closeBracket", "comma", Scalar}
        BY <1>3, <2>1, <2>4 DEF RuleKey, Scalar
    <2>5. CASE v.kind = "string" /\ t = v.of
        <3>1. v.of \notin RuleKey
            BY <1>2, <2>5 DEF PlainListener
        <3>. QED BY <1>3, <2>1, <2>5, <3>1
    <2>6. CASE v.kind = "array" /\ \E k \in 1..Len(v.of) : t = v.of[k].of
        <3>1. PICK k \in 1..Len(v.of) : t = v.of[k].of
            BY <2>6
        <3>2. DOMAIN v.of = 1..Len(v.of)
            BY <2>2, <2>6, ValueTextIs, LenProperties
        <3>3. v.of[k].of \notin RuleKey
            BY <1>2, <2>6, <3>2 DEF PlainListener
        <3>. QED BY <1>3, <2>1, <3>1, <3>3
    <2>. QED BY <2>3, <2>4, <2>5, <2>6
<1>. QED BY <1>5, <1>6, <1>7, <1>8

\* The value of a key is found where it is.
LEMMA ValueIsFound ==
    ASSUME NEW fields \in Listener, PlainListener(fields),
           NEW i \in 1..Len(fields), fields[i][1] \in RuleKey
    PROVE  /\ ValueAt(ObjectText(fields), fields[i][1]) = KeyAt(fields, i) + 2
           /\ KeyAt(fields, i) \in Nat
<1> DEFINE object == ObjectText(fields)
           n == Len(fields)
           key == fields[i][1]
           k == KeyAt(fields, i)
           value == ValueText(fields[i][2])
<1>1. FieldsAt(fields, object) /\ object \in Seq(Token)
    BY ObjectTextIs
<1>2. n \in Nat /\ DOMAIN fields = 1..n /\ fields[i] \in Quoted \X Value
    BY LenProperties, ElementOfSeq DEF Listener
<1>3. Len(value) \in Nat /\ Len(value) >= 1
    BY <1>2, ValueTextIs
<1>4. /\ k \in Nat /\ k >= 2 /\ k + 1 + Len(value) < Len(object)
      /\ object[k] = key /\ object[k + 1] = "colon"
      /\ Len(object) \in Nat
    BY <1>1 DEF FieldsAt
<1>5. ASSUME NEW p \in 1..Len(object), object[p] \in {key}
      PROVE  k <= p
    <2>1. PICK j \in 1..n : p = KeyAt(fields, j) /\ object[p] = fields[j][1]
        BY <1>5, KeysAreKeys
    <2>2. j = i
        BY <1>2, <1>5, <2>1 DEF PlainListener
    <2>. QED BY <1>4, <2>1, <2>2
<1> HIDE DEF object, n, value, k
<1>6. Find(object, 1, {key}) = k
    <2>1. k \in 1..Len(object) /\ 1 \in Nat \ {0}
        BY <1>3, <1>4
    <2>2. object[k] \in {key} /\ \A p \in 1..Len(object) : object[p] \in {key} => k <= p
        BY <1>4, <1>5
    <2> DEFINE T == {key}
    <2> HIDE DEF key
    <2>3. object[k] \in T /\ \A p \in 1..Len(object) : object[p] \in T => k <= p
        BY <2>2
    <2> HIDE DEF T
    <2>4. Find(object, 1, T) = k
        BY <1>1, <2>1, <2>3, FindFirst
    <2>. QED BY <2>4 DEF T
<1>7. Find(object, k, Address \cup {"colon"}) = k + 1
    <2>1. k + 1 \in k..Len(object) /\ k \in Nat \ {0}
        BY <1>3, <1>4
    <2>2. key \notin Address \cup {"colon"}
        BY TokensAssumption DEF RuleKey
    <2>3. ASSUME NEW p \in k..Len(object), object[p] \in Address \cup {"colon"}
          PROVE  k + 1 <= p
        <3>1. p # k
            BY <1>4, <2>2, <2>3
        <3>. QED BY <1>4, <3>1
    <2>. QED BY <1>1, <1>4, <2>1, <2>3, FindFirst
<1>8. "colon" \notin Address
    BY TokensAssumption DEF Mark
<1>9. k # 0 /\ k + 1 # 0 /\ k + 1 # Len(object) /\ object[k + 1] \notin Address
      /\ (k + 1) + 1 = k + 2
    BY <1>3, <1>4, <1>8
<1>10. ValueAt(object, key) = k + 2
    BY <1>6, <1>7, <1>9 DEF ValueAt
<1>. QED BY <1>4, <1>10 DEF object, k

\* A key that no field has is not found.
LEMMA NoValueIsFound ==
    ASSUME NEW fields \in Listener, PlainListener(fields), NEW key \in RuleKey,
           \A i \in 1..Len(fields) : fields[i][1] # key
    PROVE  ValueAt(ObjectText(fields), key) = 0
<1> DEFINE object == ObjectText(fields)
<1>1. object \in Seq(Token)
    BY ObjectTextIs
<1>2. \A p \in 1..Len(object) : object[p] \notin {key}
    BY KeysAreKeys
<1> HIDE DEF object
<1>3. Find(object, 1, {key}) = 0
    BY <1>1, <1>2, FindNone
<1>. QED BY <1>3 DEF ValueAt, object

\* The field of a key.
LEMMA FieldIs ==
    ASSUME NEW fields \in Listener, PlainListener(fields), NEW key
    PROVE  /\ \A i \in 1..Len(fields) : fields[i][1] = key => Field(fields, key) = {fields[i][2]}
           /\ (\A i \in 1..Len(fields) : fields[i][1] # key) => Field(fields, key) = {}
<1>1. DOMAIN fields = 1..Len(fields)
    BY LenProperties DEF Listener
<1>2. \A i, j \in 1..Len(fields) : fields[i][1] = fields[j][1] => i = j
    BY <1>1 DEF PlainListener
<1>. QED BY <1>1, <1>2 DEF Field

\* A string is read as it is meant.
LEMMA StringIsRead ==
    ASSUME NEW fields \in Listener, PlainListener(fields), NEW key \in RuleKey
    PROVE  ExtractString(ObjectText(fields), key) = StringField(fields, key)
<1> DEFINE object == ObjectText(fields)
           n == Len(fields)
<1>1. n \in Nat /\ DOMAIN fields = 1..n /\ \A i \in 1..n : fields[i] \in Quoted \X Value
    BY LenProperties, ElementOfSeq DEF Listener
<1>2. ASSUME NEW i \in 1..n, fields[i][1] = key
      PROVE  ExtractString(object, key) = StringField(fields, key)
    <2> DEFINE v == fields[i][2]
               k == KeyAt(fields, i)
    <2>1. ValueAt(object, key) = k + 2 /\ k \in Nat
        BY <1>2, ValueIsFound
    <2>2. object[k + 2] = ValueText(v)[1]
        <3>1. FieldsAt(fields, object)
            BY ObjectTextIs
        <3>2. v \in Value
            BY <1>1
        <3>3. 1 \in 1..Len(ValueText(v))
            BY <3>2, ValueTextIs
        <3>4. object[k + 1 + 1] = ValueText(v)[1]
            BY <3>1, <3>3 DEF FieldsAt
        <3>5. k + 1 + 1 = k + 2
            BY <2>1
        <3>. QED BY <3>4, <3>5
    <2>3. v \in Value /\ Field(fields, key) = {v}
        BY <1>1, <1>2, FieldIs
    <2> HIDE DEF v, k, object
    <2>4. k + 2 # 0
        BY <2>1
    <2>5. ExtractString(object, key) = IF ValueText(v)[1] \in Quoted THEN ValueText(v)[1] ELSE Empty
        BY <2>1, <2>2, <2>4 DEF ExtractString
    <2>6. CASE v.kind = "string"
        <3>1. ValueText(v)[1] = v.of /\ v.of \in Quoted
            BY <2>3, <2>6, ValueTextIs
        <3>2. {x \in Field(fields, key) : x.kind = "string"} = {v}
            BY <2>3, <2>6
        <3>3. StringField(fields, key) = v.of
            BY <3>2 DEF StringField
        <3>. QED BY <2>5, <3>1, <3>3
    <2>7. CASE v.kind # "string"
        <3>1. ValueText(v)[1] \in {Scalar, "openBracket"}
            BY <2>3, <2>7, ValueTextIs
        <3>2. ValueText(v)[1] \notin Quoted
            BY <3>1, TokensAssumption DEF Mark
        <3>3. {x \in Field(fields, key) : x.kind = "string"} = {}
            BY <2>3, <2>7
        <3>4. StringField(fields, key) = Empty
            BY <3>3 DEF StringField
        <3>. QED BY <2>5, <3>2, <3>4
    <2>. QED BY <2>6, <2>7
<1>3. ASSUME \A i \in 1..n : fields[i][1] # key
      PROVE  ExtractString(object, key) = StringField(fields, key)
    <2>1. ValueAt(object, key) = 0 /\ Field(fields, key) = {}
        BY <1>3, NoValueIsFound, FieldIs
    <2>2. StringField(fields, key) = Empty
        BY <2>1 DEF StringField
    <2>. QED BY <2>1, <2>2 DEF ExtractString
<1>. QED BY <1>2, <1>3

(***************************************************************************)
(* Arrays.                                                                 *)
(***************************************************************************)

\* The strings behind a place, one token after the other.
LEMMA StringsBehindIs ==
    ASSUME NEW text \in Seq(Token), NEW v \in 1..Len(text)
    PROVE  /\ StringsBehind(text, v) \in [0..(Len(text) - v) -> Seq(Quoted)]
           /\ StringsBehind(text, v)[0] = <<>>
           /\ \A i \in 1..(Len(text) - v) :
                  StringsBehind(text, v)[i] =
                      IF text[v + i] \in Quoted
                      THEN Append(StringsBehind(text, v)[i - 1], text[v + i])
                      ELSE StringsBehind(text, v)[i - 1]
<1> DEFINE n == Len(text) - v
           S == Seq(Quoted)
           none == <<>>
           Next1(i, x) == IF text[v + i] \in Quoted THEN Append(x, text[v + i]) ELSE x
           step == [i \in 1..n |-> [x \in S |-> Next1(i, x)]]
           Eq(g) == g = [i \in 0..n |->
                            CASE i = 0                              -> none
                              [] i # 0 /\ text[v + i] \in Quoted     -> Append(g[i - 1], text[v + i])
                              [] i # 0 /\ text[v + i] \notin Quoted    -> g[i - 1]]
           found == StringsBehind(text, v)
<1>1. n \in Nat
    BY LenProperties
<1>n. none \in S
    BY EmptySeq
<1>2. \A i \in 1..n : \A x \in S : Next1(i, x) \in S
    BY AppendProperties
<1> HIDE DEF none, S
<1>3. step \in [1..n -> [S -> S]]
    <2> HIDE DEF Next1, n
    <2>. QED BY <1>2
<1>4. \E f \in [0..n -> S] : Steps(f, n, none, step)
    <2> HIDE DEF n, step
    <2>. QED BY <1>1, <1>3, <1>n, Recursion
<1>5. Eq(found)
    <2>1. PICK f \in [0..n -> S] : Steps(f, n, none, step)
        BY <1>4
    <2>2. \A i \in 1..n : f[i] = Next1(i, f[i - 1])
        <3> TAKE i \in 1..n
        <3>1. i - 1 \in 0..n
            BY <1>1
        <3>2. f[i - 1] \in S
            BY <3>1
        <3>3. f[i] = step[i][f[i - 1]]
            BY <2>1 DEF Steps
        <3>. QED BY <3>2, <3>3
    <2>3. \A i \in 0..n : f[i] = CASE i = 0                              -> none
                              [] i # 0 /\ text[v + i] \in Quoted     -> Append(f[i - 1], text[v + i])
                              [] i # 0 /\ text[v + i] \notin Quoted    -> f[i - 1]
        <3> TAKE i \in 0..n
        <3>1. i = 0 \/ (i \in 1..n /\ i # 0)
            BY <1>1
        <3>2. f[0] = none
            BY <2>1 DEF Steps
        <3> HIDE DEF n
        <3>. QED BY <2>2, <3>1, <3>2
    <2>4. Eq(f)
        <3> HIDE DEF n
        <3>. QED BY <2>3
    <2>. QED BY <2>4 DEF StringsBehind, none
<1> HIDE DEF found, n
<1>6. found[0] = none /\ \A i \in 1..n : found[i] = Next1(i, found[i - 1])
    <2>1. 0 \in 0..n
        BY <1>1
    <2>2. found[0] = none
        BY <1>5, <2>1
    <2>3. ASSUME NEW i \in 1..n
          PROVE  found[i] = Next1(i, found[i - 1])
        <3>1. i \in 0..n /\ i # 0
            BY <1>1
        <3>. QED BY <1>5, <3>1
    <2>. QED BY <2>2, <2>3
<1>7. \A i \in 0..n : found[i] \in S
    <2> DEFINE T == {i \in 0..n : found[i] \in S}
    <2>1. 0 \in T
        BY <1>1, <1>6, <1>n
    <2>2. ASSUME NEW i \in 0..(n - 1), i \in T
          PROVE  i + 1 \in T
        <3>1. i + 1 \in 1..n /\ (i + 1) - 1 = i
            BY <1>1
        <3> HIDE DEF Next1
        <3>2. found[i + 1] = Next1(i + 1, found[i])
            BY <1>6, <3>1
        <3>3. found[i + 1] \in S
            BY <1>2, <2>2, <3>1, <3>2
        <3>. QED BY <1>1, <3>1, <3>3
    <2> HIDE DEF T
    <2>3. 0..n \subseteq T
        BY <1>1, <2>1, <2>2, UpTo
    <2>. QED BY <2>3 DEF T
<1>8. found \in [0..n -> S]
    BY <1>5, <1>7
<1>. QED BY <1>6, <1>8 DEF found, n, none, S

\* The strings of an array are found in their order.
LEMMA StringsOfArray ==
    ASSUME NEW values \in Seq(Simple), \A k \in 1..Len(values) : values[k].kind = "string",
           NEW sep, sep = Separated(ArrayTexts(values)),
           NEW text \in Seq(Token), NEW v \in 1..Len(text), v + Len(sep) < Len(text),
           \A p \in 1..Len(sep) : text[v + p] = sep[p]
    PROVE  /\ StringsBehind(text, v)[Len(sep)] = [k \in 1..Len(values) |-> values[k].of]
           /\ \A p \in 1..Len(sep) : text[v + p] \in Quoted \cup {"comma"}
<1> DEFINE m == Len(values)
           texts == ArrayTexts(values)
           found == StringsBehind(text, v)
           n == Len(text) - v
           l == Len(sep)
<1>1. m \in Nat /\ \A k \in 1..m : values[k] \in Simple
    BY LenProperties, ElementOfSeq
<1>2. /\ texts \in Seq(Seq(Token)) /\ Len(texts) = m
      /\ \A k \in 1..m : Len(texts[k]) = 1 /\ texts[k][1] = SimpleToken(values[k])
    BY ArrayTextsAre
<1>3. \A k \in 1..m : texts[k][1] = values[k].of /\ values[k].of \in Quoted
    BY <1>1, <1>2, SimpleTokenIs
<1>4. sep \in Seq(Token) /\ SeparatedAt(texts, sep)
    <2> HIDE DEF texts
    <2>1. Separated(texts) \in Seq(Token) /\ SeparatedAt(texts, Separated(texts))
        BY <1>2, SeparatedLayout
    <2>2. sep = Separated(texts)
        BY DEF texts
    <2>. QED BY <2>1, <2>2
<1> HIDE DEF texts, found, m, n, l
<1>5. /\ \A k \in 1..m : /\ Start(texts, k) \in Nat
                         /\ Start(texts, k) + 1 <= l
                         /\ sep[Start(texts, k) + 1] = values[k].of
      /\ \A p \in 1..l : sep[p] = "comma" \/ \E k \in 1..m : p = Start(texts, k) + 1
      /\ \A k \in 1..m : k < m => /\ Start(texts, k + 1) = Start(texts, k) + 1 + 1
                                  /\ sep[Start(texts, k + 1)] = "comma"
      /\ m > 0 => Start(texts, 1) = 0
      /\ m > 0 => l = Start(texts, m) + 1
      /\ m = 0 => l = 0
    <2>1. \A k \in 1..m : /\ Start(texts, k) \in Nat
                         /\ Start(texts, k) + Len(texts[k]) <= l
                         /\ \A q \in 1..Len(texts[k]) : sep[Start(texts, k) + q] = texts[k][q]
        BY <1>2, <1>4 DEF SeparatedAt, l
    <2>2. \A k \in 1..m : /\ Start(texts, k) \in Nat
                         /\ Start(texts, k) + 1 <= l
                         /\ sep[Start(texts, k) + 1] = values[k].of
        <3> TAKE k \in 1..m
        <3>1. Len(texts[k]) = 1 /\ 1 \in 1..1
            BY <1>2
        <3>2. Start(texts, k) + 1 <= l /\ sep[Start(texts, k) + 1] = texts[k][1]
            BY <2>1, <3>1
        <3>. QED BY <1>3, <2>1, <3>2
    <2>3. ASSUME NEW p \in 1..l, sep[p] # "comma"
          PROVE  \E k \in 1..m : p = Start(texts, k) + 1
        <3>1. PICK k \in 1..m : \E q \in 1..Len(texts[k]) : p = Start(texts, k) + q
            BY <1>2, <1>4, <2>3 DEF SeparatedAt, l
        <3>2. PICK q \in 1..Len(texts[k]) : p = Start(texts, k) + q
            BY <3>1
        <3>3. Len(texts[k]) = 1
            BY <1>2
        <3>4. q = 1
            BY <3>3
        <3>. QED BY <3>2, <3>4
    <2>4. \A k \in 1..m : k < m => /\ Start(texts, k + 1) = Start(texts, k) + 1 + 1
                                  /\ sep[Start(texts, k + 1)] = "comma"
        BY <1>2, <1>4 DEF SeparatedAt
    <2>5. m > 0 => m \in 1..m /\ l = Start(texts, m) + Len(texts[m])
        BY <1>1, <1>2, <1>4 DEF SeparatedAt, l
    <2>6. m > 0 => l = Start(texts, m) + 1
        BY <1>2, <2>5
    <2>7. (m > 0 => Start(texts, 1) = 0) /\ (m = 0 => l = 0)
        BY <1>2, <1>4 DEF SeparatedAt, l
    <2>. QED BY <2>2, <2>3, <2>4, <2>6, <2>7
<1>6. /\ Len(text) \in Nat /\ l \in Nat /\ n \in Nat /\ l < n
      /\ n = Len(text) - v /\ \A p \in 1..l : text[v + p] = sep[p]
    <2>1. Len(text) \in Nat /\ l \in Nat
        BY <1>4, LenProperties DEF l
    <2>2. v + l < Len(text) /\ \A p \in 1..l : text[v + p] = sep[p]
        BY DEF l
    <2>. QED BY <2>1, <2>2 DEF n
<1>7. "comma" \notin Quoted
    BY TokensAssumption DEF Mark
<1>8. \A p \in 1..l : text[v + p] \in Quoted \cup {"comma"}
    <2> TAKE p \in 1..l
    <2>1. CASE sep[p] = "comma"
        BY <1>6, <2>1
    <2>2. CASE \E k \in 1..m : p = Start(texts, k) + 1
        <3>1. PICK k \in 1..m : p = Start(texts, k) + 1
            BY <2>2
        <3>. QED BY <1>3, <1>5, <1>6, <3>1
    <2>. QED BY <1>5, <2>1, <2>2
<1>9. /\ found \in [0..n -> Seq(Quoted)]
      /\ found[0] = <<>>
      /\ \A i \in 1..n : found[i] = IF text[v + i] \in Quoted
                                    THEN Append(found[i - 1], text[v + i])
                                    ELSE found[i - 1]
    BY StringsBehindIs DEF found, n
\* What is found behind a string and behind the comma that follows it.
<1>10. ASSUME NEW i \in 0..(n - 1), text[v + (i + 1)] = "comma"
       PROVE  found[i + 1] = found[i]
    <2>1. i + 1 \in 1..n /\ (i + 1) - 1 = i
        BY <1>6
    <2>. QED BY <1>7, <1>9, <1>10, <2>1
<1>11. ASSUME NEW i \in 0..(n - 1), text[v + (i + 1)] \in Quoted
       PROVE  /\ Len(found[i]) \in Nat /\ Len(found[i + 1]) = Len(found[i]) + 1
              /\ found[i + 1][Len(found[i]) + 1] = text[v + (i + 1)]
              /\ \A j \in 1..Len(found[i]) : found[i + 1][j] = found[i][j]
    <2>1. i + 1 \in 1..n /\ (i + 1) - 1 = i /\ i \in 0..n
        BY <1>6
    <2>2. found[i + 1] = Append(found[i], text[v + (i + 1)])
        BY <1>9, <1>11, <2>1
    <2>3. found[i] \in Seq(Quoted)
        BY <1>9, <2>1
    <2>. QED BY <1>11, <2>2, <2>3, LenProperties, AppendProperties
<1> DEFINE First(k, s) == Len(s) = k /\ \A j \in 1..k : s[j] = values[j].of
           T == {k \in 0..m : k # 0 => First(k, found[Start(texts, k) + 1])}
<1>12. First(0, found[0])
    BY <1>9, EmptySeq
<1>13. ASSUME NEW k \in 0..(m - 1), k \in T
       PROVE  k + 1 \in T
    <2> DEFINE s == Start(texts, k + 1)
    <2>1. k + 1 \in 1..m /\ k \in 0..m /\ k \in Nat
        BY <1>1
    <2>2. s \in Nat /\ s + 1 <= l /\ sep[s + 1] = values[k + 1].of
        BY <1>5, <2>1
    <2>3. s \in 0..(n - 1) /\ s + 1 \in 1..l
        BY <1>6, <2>2
    <2>4. First(k, found[s])
        <3>1. CASE k = 0
            <4>1. s = 0
                <5>1. m > 0 /\ k + 1 = 1
                    BY <1>1, <2>1, <3>1
                <5>. QED BY <1>5, <5>1
            <4>. QED BY <1>12, <3>1, <4>1
        <3>2. CASE k # 0
            <4>1. k \in 1..m /\ k < m
                BY <1>1, <2>1, <3>2
            <4>2. s = Start(texts, k) + 1 + 1 /\ sep[s] = "comma" /\ Start(texts, k) \in Nat
                BY <1>5, <4>1
            <4> DEFINE i == Start(texts, k) + 1
            <4>a. i + 1 = s /\ i \in Nat
                BY <4>2
            <4> HIDE DEF i, s
            <4>3. i \in 0..(n - 1) /\ i + 1 = s /\ s \in 1..l
                BY <1>6, <2>2, <4>a
            <4>4. text[v + (i + 1)] = "comma"
                BY <1>6, <4>2, <4>3
            <4>5. found[s] = found[i]
                BY <1>10, <4>3, <4>4
            <4>6. First(k, found[i])
                BY <1>13, <3>2 DEF i
            <4>. QED BY <4>5, <4>6
        <3>. QED BY <3>1, <3>2
    <2> HIDE DEF s
    <2>5. text[v + (s + 1)] = values[k + 1].of /\ values[k + 1].of \in Quoted
        BY <1>3, <1>6, <2>1, <2>2, <2>3
    <2>6. /\ Len(found[s]) = k /\ Len(found[s + 1]) = k + 1
          /\ found[s + 1][k + 1] = values[k + 1].of
          /\ \A j \in 1..k : found[s + 1][j] = values[j].of
        BY <1>11, <2>3, <2>4, <2>5
    <2>7. \A j \in 1..(k + 1) : j \in 1..k \/ j = k + 1
        BY <2>1
    <2>8. First(k + 1, found[s + 1])
        BY <2>6, <2>7
    <2> HIDE DEF First
    <2>9. k + 1 \in 0..m
        BY <2>1
    <2>. QED BY <2>8, <2>9 DEF s
<1>14. First(m, found[l])
    <2>1. CASE m = 0
        <3>1. l = 0
            BY <1>5, <2>1
        <3>. QED BY <1>12, <2>1, <3>1
    <2>2. CASE m # 0
        <3>1. 0 \in T
            BY <1>1
        <3> HIDE DEF T
        <3>2. 0..m \subseteq T
            BY <1>1, <1>13, <3>1, UpTo
        <3>3. m \in T /\ m > 0
            BY <1>1, <2>2, <3>2
        <3>4. l = Start(texts, m) + 1
            BY <1>5, <3>3
        <3> HIDE DEF First
        <3>. QED BY <2>2, <3>3, <3>4 DEF T
    <2>. QED BY <2>1, <2>2
<1>15. found[l] = [k \in 1..m |-> values[k].of]
    <2> DEFINE want == [k \in 1..m |-> values[k].of]
    <2>1. want \in [1..m -> Quoted]
        BY <1>3
    <2>2. \A k \in 1..m : want[k] = values[k].of
        OBVIOUS
    <2> HIDE DEF want
    <2>3. want \in Seq(Quoted)
        BY <1>1, <2>1, SeqDef
    <2>4. DOMAIN want = 1..m
        BY <2>1
    <2>5. Len(want) = m
        BY <1>1, <2>3, <2>4, LenProperties
    <2>6. found[l] \in Seq(Quoted)
        <3>1. l \in 0..n
            BY <1>6
        <3>. QED BY <1>9, <3>1
    <2> DEFINE have == found[l]
    <2>7. Len(have) = Len(want) /\ \A j \in 1..Len(have) : have[j] = want[j]
        BY <1>14, <2>2, <2>5
    <2> HIDE DEF have
    <2>8. have \in Seq(Quoted)
        BY <2>6 DEF have
    <2>9. have = want
        BY <2>3, <2>7, <2>8, SeqEqual
    <2>. QED BY <2>9 DEF have, want
<1>. QED BY <1>8, <1>15 DEF found, l, m

\* An array of strings is read as it is meant, and the loop ends.
LEMMA ArrayIsRead ==
    ASSUME NEW fields \in Listener, PlainListener(fields), NEW key \in RuleKey
    PROVE  ExtractStringArray(ObjectText(fields), key)
               = [ends |-> TRUE, strings |-> StringsField(fields, key)]
<1> DEFINE object == ObjectText(fields)
           n == Len(fields)
<1>1. n \in Nat /\ DOMAIN fields = 1..n /\ \A i \in 1..n : fields[i] \in Quoted \X Value
    BY LenProperties, ElementOfSeq DEF Listener
<1>2. FieldsAt(fields, object) /\ object \in Seq(Token) /\ Len(object) \in Nat
    BY ObjectTextIs, LenProperties
<1>3. ASSUME NEW i \in 1..n, fields[i][1] = key
      PROVE  ExtractStringArray(object, key) = [ends |-> TRUE, strings |-> StringsField(fields, key)]
    <2> DEFINE value == fields[i][2]
               k == KeyAt(fields, i)
               v == k + 2
               text == ValueText(value)
    <2>1. ValueAt(object, key) = v /\ k \in Nat
        BY <1>3, ValueIsFound
    <2>2. value \in Value /\ Field(fields, key) = {value}
        BY <1>1, <1>3, FieldIs
    <2>3. text \in Seq(Token) /\ Len(text) \in Nat /\ Len(text) >= 1
        BY <2>2, ValueTextIs
    <2>4. /\ k + 1 + Len(text) < Len(object)
          /\ \A q \in 1..Len(text) : object[k + 1 + q] = text[q]
        BY <1>2 DEF FieldsAt
    <2> HIDE DEF object, n, value, k, text
    <2>5. v # 0 /\ v \in 1..Len(object) /\ v \in Nat
        BY <1>2, <2>1, <2>3, <2>4
    <2>6. object[v] = text[1]
        <3>1. 1 \in 1..Len(text) /\ k + 1 + 1 = v
            BY <2>1, <2>3
        <3>. QED BY <2>4, <3>1
    <2>7. CASE value.kind = "array"
        <3> DEFINE values == value.of
                   sep == Separated(ArrayTexts(values))
                   l == Len(sep)
        <3>1. /\ values \in Seq(Simple) /\ sep \in Seq(Token) /\ l \in Nat
              /\ Len(text) = l + 2 /\ text[1] = "openBracket" /\ text[l + 2] = "closeBracket"
              /\ \A p \in 1..l : text[p + 1] = sep[p]
            BY <2>2, <2>7, ValueTextIs DEF text
        <3>2. \A j \in 1..Len(values) : values[j].kind = "string"
            <4>1. DOMAIN values = 1..Len(values)
                BY <3>1, LenProperties
            <4>2. i \in DOMAIN fields /\ fields[i][2].kind = "array"
                BY <1>1, <2>7 DEF value
            <4>. QED BY <4>1, <4>2 DEF PlainListener, value
        <3> HIDE DEF values, sep, l
        <3>3. \A p \in 1..l : object[v + p] = sep[p]
            <4> TAKE p \in 1..l
            <4>1. p + 1 \in 1..Len(text) /\ k + 1 + (p + 1) = v + p
                BY <2>1, <3>1
            <4>. QED BY <2>4, <3>1, <4>1
        <3>4. object[v + l + 1] = "closeBracket"
            <4>1. l + 2 \in 1..Len(text) /\ k + 1 + (l + 2) = v + l + 1
                BY <2>1, <3>1
            <4>. QED BY <2>4, <3>1, <4>1
        <3>5. v + l < Len(object) /\ v + l + 1 \in (v + 1)..Len(object) /\ v + 1 \in Nat \ {0}
            BY <1>2, <2>1, <2>4, <3>1
        <3> HIDE DEF v
        <3>6. /\ StringsBehind(object, v)[l] = [j \in 1..Len(values) |-> values[j].of]
              /\ \A p \in 1..l : object[v + p] \in Quoted \cup {"comma"}
            BY <1>2, <2>5, <3>1, <3>2, <3>3, <3>5, StringsOfArray DEF sep, l
        <3> DEFINE ending == (Mark \cup {Scalar}) \ {"comma"}
        <3>7. /\ "closeBracket" \in ending
              /\ \A t \in ending : t \notin Quoted \cup {"comma"}
            BY TokensAssumption DEF Mark
        <3> HIDE DEF ending
        <3>8. ASSUME NEW p \in (v + 1)..Len(object), object[p] \in ending
              PROVE  v + l + 1 <= p
            <4>1. CASE p <= v + l
                <5>1. p - v \in 1..l /\ v + (p - v) = p
                    BY <2>5, <3>1, <4>1
                <5>2. object[p] \in Quoted \cup {"comma"}
                    BY <3>6, <5>1
                <5>. QED BY <3>7, <3>8, <5>2
            <4>2. CASE p > v + l
                BY <2>5, <3>1, <4>2
            <4>. QED BY <2>5, <3>1, <4>1, <4>2
        <3>9. Find(object, v + 1, ending) = v + l + 1
            <4>1. object[v + l + 1] \in ending
                BY <3>4, <3>7
            <4> DEFINE from == v + 1
                       stop == v + l + 1
            <4>2. /\ from \in Nat \ {0} /\ stop \in from..Len(object) /\ object[stop] \in ending
                  /\ \A p \in from..Len(object) : object[p] \in ending => stop <= p
                BY <3>5, <3>8, <4>1
            <4> HIDE DEF from, stop
            <4>3. Find(object, from, ending) = stop
                BY <1>2, <4>2, FindFirst
            <4>. QED BY <4>3 DEF from, stop
        <3>10. v + l + 1 # 0 /\ (v + l + 1) - 1 - v = l
            BY <2>5, <3>1
        <3>11. ExtractStringArray(object, key) =
                   [ends |-> TRUE, strings |-> [j \in 1..Len(values) |-> values[j].of]]
            <4> DEFINE stop == v + l + 1
            <4>1. stop # 0 /\ stop - 1 - v = l
                BY <3>10
            <4>2. Find(object, v + 1, (Mark \cup {Scalar}) \ {"comma"}) = stop
                BY <3>9 DEF ending
            <4>3. object[stop] = "closeBracket" /\ object[v] = "openBracket"
                BY <2>6, <3>1, <3>4
            <4>4. ValueAt(object, key) = v /\ v # 0
                BY <2>1, <2>5 DEF v
            <4> HIDE DEF stop
            <4>5. ExtractStringArray(object, key) =
                      [ends |-> TRUE, strings |-> StringsBehind(object, v)[stop - 1 - v]]
                BY <4>1, <4>2, <4>3, <4>4 DEF ExtractStringArray
            <4>. QED BY <3>6, <4>1, <4>5
        <3>12. StringsField(fields, key) = [j \in 1..Len(values) |-> values[j].of]
            <4>1. DOMAIN values = 1..Len(values)
                BY <3>1, LenProperties
            <4>2. {x \in Field(fields, key) : x.kind = "array"} = {value}
                BY <2>2, <2>7
            <4>3. (CHOOSE x \in {value} : TRUE) = value
                OBVIOUS
            <4>. QED BY <4>1, <4>2, <4>3 DEF StringsField, values
        <3>. QED BY <3>11, <3>12
    <2>8. CASE value.kind # "array"
        <3>1. text[1] \in Quoted \cup {Scalar}
            BY <2>2, <2>8, ValueTextIs DEF text
        <3>2. text[1] # "openBracket"
            BY <3>1, TokensAssumption DEF Mark, Scalar
        <3>3. {x \in Field(fields, key) : x.kind = "array"} = {}
            BY <2>2, <2>8
        <3>4. StringsField(fields, key) = <<>>
            BY <3>3 DEF StringsField
        <3>. QED BY <2>1, <2>6, <3>2, <3>4 DEF ExtractStringArray
    <2>. QED BY <2>7, <2>8
<1>4. ASSUME \A i \in 1..n : fields[i][1] # key
      PROVE  ExtractStringArray(object, key) = [ends |-> TRUE, strings |-> StringsField(fields, key)]
    <2>1. ValueAt(object, key) = 0 /\ Field(fields, key) = {}
        BY <1>4, NoValueIsFound, FieldIs
    <2>2. StringsField(fields, key) = <<>>
        BY <2>1 DEF StringsField
    <2>. QED BY <2>1, <2>2 DEF ExtractStringArray
<1>. QED BY <1>3, <1>4

\* The text of a plain listener gives the rule it asks for.
LEMMA RuleIsRead ==
    ASSUME NEW fields \in Listener, PlainListener(fields)
    PROVE  /\ RuleOf(ObjectText(fields)) = AskedRule(fields)
           /\ ExtractStringArray(ObjectText(fields), "targets").ends
<1>1. {"name", "bind", "type", "targets"} \subseteq RuleKey
    BY DEF RuleKey
<1>2. /\ ExtractString(ObjectText(fields), "name") = StringField(fields, "name")
      /\ ExtractString(ObjectText(fields), "bind") = StringField(fields, "bind")
      /\ ExtractString(ObjectText(fields), "type") = StringField(fields, "type")
    BY <1>1, StringIsRead
<1>3. ExtractStringArray(ObjectText(fields), "targets")
          = [ends |-> TRUE, strings |-> StringsField(fields, "targets")]
    BY <1>1, ArrayIsRead
<1>. QED BY <1>2, <1>3 DEF RuleOf, AskedRule

(***************************************************************************)
(* Objects.                                                                *)
(***************************************************************************)
ScanState ==
    [depth : Int, object : Seq(Token), objects : Seq(Seq(Token)), done : BOOLEAN]

\* One step of the scan.
LEMMA ScanIs ==
    ASSUME NEW s \in ScanState, NEW token \in Token
    PROVE  Scan(s, token) \in ScanState
<1> DEFINE taken == IF s.depth = 0 /\ token = "openBrace" THEN <<token>> ELSE Append(s.object, token)
           S == Seq(Token)
           objects == IF s.depth = 1 THEN Append(s.objects, taken) ELSE s.objects
<1>1. <<token>> \in S
    BY OneToken
<1>2. Append(s.object, token) \in S
    BY AppendProperties DEF ScanState
<1>3. taken \in S
    BY <1>1, <1>2
<1> HIDE DEF taken, S
<1>4. s.objects \in Seq(S)
    BY DEF ScanState, S
<1>5. objects \in Seq(S)
    BY <1>3, <1>4, AppendProperties
<1>6. s \in [depth : Int, object : S, objects : Seq(S), done : BOOLEAN]
    BY DEF ScanState, S
<1> HIDE DEF objects
<1>7. \/ Scan(s, token) = s
      \/ Scan(s, token) = [s EXCEPT !.depth = @ + 1, !.object = taken]
      \/ Scan(s, token) = [s EXCEPT !.depth = @ - 1, !.object = taken, !.objects = objects]
      \/ Scan(s, token) = [s EXCEPT !.done = TRUE]
      \/ Scan(s, token) = [s EXCEPT !.object = taken]
    BY <1>6 DEF Scan, taken, objects
<1> DEFINE L == Seq(S)
           R == [depth : Int, object : S, objects : L, done : BOOLEAN]
<1>8. Scan(s, token) \in R
    <2>1. /\ s \in R /\ objects \in L
        BY <1>5, <1>6
    <2> HIDE DEF L
    <2>2. /\ s.depth + 1 \in Int /\ s.depth - 1 \in Int
        BY <2>1
    <2> DEFINE more == s.depth + 1
               less == s.depth - 1
    <2> HIDE DEF more, less
    <2>3. /\ [s EXCEPT !.depth = more, !.object = taken] \in R
          /\ [s EXCEPT !.depth = less, !.object = taken, !.objects = objects] \in R
          /\ [s EXCEPT !.done = TRUE] \in R
          /\ [s EXCEPT !.object = taken] \in R
        BY <1>3, <2>1, <2>2 DEF more, less
    <2>. QED BY <1>7, <2>1, <2>3 DEF more, less
<1>. QED BY <1>8 DEF ScanState, S, L, R

NothingScanned == [depth |-> 0, object |-> <<>>, objects |-> <<>>, done |-> FALSE]

\* The scan goes token by token.
LEMMA ScanBehindIs ==
    ASSUME NEW text \in Seq(Token), NEW v \in 1..Len(text)
    PROVE  /\ ScanBehind(text, v) \in [0..(Len(text) - v) -> ScanState]
           /\ ScanBehind(text, v)[0] = NothingScanned
           /\ \A i \in 1..(Len(text) - v) :
                  ScanBehind(text, v)[i] = Scan(ScanBehind(text, v)[i - 1], text[v + i])
<1> DEFINE n == Len(text) - v
           S == ScanState
           none == NothingScanned
           step == [i \in 1..n |-> [x \in S |-> Scan(x, text[v + i])]]
           Eq(g) == g = [i \in 0..n |-> IF i = 0 THEN none ELSE Scan(g[i - 1], text[v + i])]
           scan == ScanBehind(text, v)
<1>1. n \in Nat /\ Len(text) \in Nat
    BY LenProperties
<1>n. none \in S
    <2>1. <<>> \in Seq(Token) /\ <<>> \in Seq(Seq(Token))
        BY EmptySeq
    <2>. QED BY <2>1 DEF NothingScanned, ScanState
<1>2. \A i \in 1..n : \A x \in S : Scan(x, text[v + i]) \in S
    <2> TAKE i \in 1..n
    <2>1. v + i \in 1..Len(text)
        BY <1>1
    <2>2. text[v + i] \in Token
        BY <2>1, ElementOfSeq
    <2>. QED BY <2>2, ScanIs
<1> HIDE DEF none, S, n
<1>3. step \in [1..n -> [S -> S]]
    BY <1>2
<1>4. \E f \in [0..n -> S] : Steps(f, n, none, step)
    <2> HIDE DEF step
    <2>. QED BY <1>1, <1>3, <1>n, Recursion
<1>5. Eq(scan)
    <2>1. PICK f \in [0..n -> S] : Steps(f, n, none, step)
        BY <1>4
    <2>2. \A i \in 1..n : f[i] = Scan(f[i - 1], text[v + i])
        <3> TAKE i \in 1..n
        <3>1. i - 1 \in 0..n
            BY <1>1
        <3>2. f[i - 1] \in S
            BY <3>1
        <3>3. f[i] = step[i][f[i - 1]]
            BY <2>1 DEF Steps
        <3>. QED BY <3>2, <3>3
    <2>3. \A i \in 0..n : f[i] = IF i = 0 THEN none ELSE Scan(f[i - 1], text[v + i])
        <3> TAKE i \in 0..n
        <3>1. i = 0 \/ (i \in 1..n /\ i # 0)
            BY <1>1
        <3>2. f[0] = none
            BY <2>1 DEF Steps
        <3>. QED BY <2>2, <3>1, <3>2
    <2>4. Eq(f)
        BY <2>3
    <2>. QED BY <2>4 DEF ScanBehind, NothingScanned, none, n
<1> HIDE DEF scan
<1>6. scan[0] = none /\ \A i \in 1..n : scan[i] = Scan(scan[i - 1], text[v + i])
    <2>1. 0 \in 0..n
        BY <1>1
    <2>2. scan[0] = none
        BY <1>5, <2>1
    <2>3. ASSUME NEW i \in 1..n
          PROVE  scan[i] = Scan(scan[i - 1], text[v + i])
        <3>1. i \in 0..n /\ i # 0
            BY <1>1
        <3>. QED BY <1>5, <3>1
    <2>. QED BY <2>2, <2>3
<1>7. \A i \in 0..n : scan[i] \in S
    <2> DEFINE T == {i \in 0..n : scan[i] \in S}
    <2>1. 0 \in T
        BY <1>1, <1>6, <1>n
    <2>2. ASSUME NEW i \in 0..(n - 1), i \in T
          PROVE  i + 1 \in T
        <3>1. i + 1 \in 1..n /\ (i + 1) - 1 = i
            BY <1>1
        <3>2. scan[i + 1] = Scan(scan[i], text[v + (i + 1)])
            BY <1>6, <3>1
        <3>3. scan[i + 1] \in S
            BY <1>2, <2>2, <3>1, <3>2
        <3>. QED BY <1>1, <3>1, <3>3
    <2> HIDE DEF T
    <2>3. 0..n \subseteq T
        BY <1>1, <2>1, <2>2, UpTo
    <2>. QED BY <2>3 DEF T
<1>8. scan \in [0..n -> S]
    BY <1>5, <1>7
<1>. QED BY <1>6, <1>8 DEF scan, n, none, S

\* No brace is within the text of a listener.
LEMMA NoBraceWithin ==
    ASSUME NEW fields \in Listener, NEW p \in 2..(Len(ObjectText(fields)) - 1)
    PROVE  ObjectText(fields)[p] \notin {"openBrace", "closeBrace"}
<1> DEFINE object == ObjectText(fields)
           n == Len(fields)
<1>1. FieldsAt(fields, object) /\ Len(object) \in Nat
    BY ObjectTextIs, LenProperties
<1>2. \A i \in 1..n : fields[i] \in Quoted \X Value
    BY ElementOfSeq DEF Listener
<1>3. Quoted \cap {"openBrace", "closeBrace"} = {}
    BY TokensAssumption DEF Mark
<1> HIDE DEF object, n
<1>4. p \in 1..Len(object) /\ p # 1 /\ p # Len(object)
    BY <1>1 DEF object
<1>5. CASE object[p] = "comma"
    BY <1>5 DEF object
<1>6. CASE object[p] # "comma"
    <2>1. PICK i \in 1..n :
              \/ p = KeyAt(fields, i)
              \/ p = KeyAt(fields, i) + 1
              \/ \E q \in 1..Len(ValueText(fields[i][2])) : p = KeyAt(fields, i) + 1 + q
        BY <1>1, <1>4, <1>6 DEF FieldsAt, n
    <2>2. /\ object[KeyAt(fields, i)] = fields[i][1]
          /\ object[KeyAt(fields, i) + 1] = "colon"
          /\ \A q \in 1..Len(ValueText(fields[i][2])) :
                 object[KeyAt(fields, i) + 1 + q] = ValueText(fields[i][2])[q]
        BY <1>1 DEF FieldsAt, n
    <2>3. fields[i][1] \in Quoted /\ fields[i][2] \in Value
        BY <1>2
    <2>4. \A q \in 1..Len(ValueText(fields[i][2])) :
              ValueText(fields[i][2])[q] \in {"openBracket", "closeBracket", "comma", Scalar} \cup Quoted
        BY <2>3, ValueTokens
    <2>5. object[p] \in {"openBracket", "closeBracket", "comma", Scalar, "colon"} \cup Quoted
        BY <2>1, <2>2, <2>3, <2>4
    <2>. QED BY <1>3, <2>5 DEF object, Scalar
<1>. QED BY <1>5, <1>6

\* What a step of the scan does, by where it is.
LEMMA ScanCases ==
    ASSUME NEW s \in ScanState, NEW token \in Token
    PROVE  LET t == Scan(s, token) IN
           /\ s.done => t = s
           /\ ~s.done /\ s.depth = 0 /\ token = "openBrace" =>
                 t.depth = 1 /\ ~t.done /\ t.object = <<token>> /\ t.objects = s.objects
           /\ ~s.done /\ s.depth = 1 /\ token \notin {"openBrace", "closeBrace"} =>
                 t.depth = 1 /\ ~t.done /\ t.object = Append(s.object, token) /\ t.objects = s.objects
           /\ ~s.done /\ s.depth = 1 /\ token = "closeBrace" =>
                 t.depth = 0 /\ ~t.done /\ t.objects = Append(s.objects, Append(s.object, token))
           /\ ~s.done /\ s.depth = 0 /\ token = "comma" =>
                 t.depth = 0 /\ ~t.done /\ t.objects = s.objects
           /\ ~s.done /\ s.depth = 0 /\ token = "closeBracket" =>
                 t.done /\ t.objects = s.objects
<1> DEFINE S == Seq(Token)
           L == Seq(S)
<1>1. s \in [depth : Int, object : S, objects : L, done : BOOLEAN]
    BY DEF ScanState
<1>s. \A o \in S, os \in L : Append(o, token) \in S /\ Append(os, o) \in L
    BY AppendProperties
<1>t. <<token>> \in S
    BY OneToken
<1> HIDE DEF S, L
<1>2. CASE s.done
    BY <1>2 DEF Scan
<1>3. CASE ~s.done /\ s.depth = 0 /\ token = "openBrace"
    <2>1. Scan(s, token) = [s EXCEPT !.depth = @ + 1, !.object = <<token>>]
        BY <1>3 DEF Scan
    <2>2. s.depth + 1 = 1
        BY <1>3
    <2> DEFINE one == s.depth + 1
               taken == <<token>>
               t == [s EXCEPT !.depth = one, !.object = taken]
    <2>3. one \in Int /\ taken \in S
        BY <1>t, <2>2
    <2> HIDE DEF one, taken
    <2>4. t.depth = one /\ t.object = taken /\ t.objects = s.objects /\ t.done = s.done
        BY <1>1, <2>3
    <2>. QED BY <1>3, <2>1, <2>2, <2>4 DEF one, taken
<1>4. CASE ~s.done /\ s.depth = 1 /\ token \notin {"openBrace", "closeBrace"}
    BY <1>1, <1>4 DEF Scan
<1>5. CASE ~s.done /\ s.depth = 1 /\ token = "closeBrace"
    <2> DEFINE taken == Append(s.object, token)
               objects == Append(s.objects, taken)
               less == s.depth - 1
    <2>1. Scan(s, token) = [s EXCEPT !.depth = less, !.object = taken, !.objects = objects]
        BY <1>5 DEF Scan
    <2>2. less = 0
        BY <1>5
    <2>3. less \in Int /\ taken \in S
        BY <1>1, <1>s, <2>2
    <2> HIDE DEF less, taken
    <2>5. objects \in L
        BY <1>1, <1>s, <2>3
    <2> HIDE DEF objects
    <2> DEFINE t == [s EXCEPT !.depth = less, !.object = taken, !.objects = objects]
    <2>4. t.depth = less /\ t.objects = objects /\ t.done = s.done
        BY <1>1, <2>3, <2>5
    <2>. QED BY <1>5, <2>1, <2>2, <2>4 DEF taken, objects
<1>6. CASE ~s.done /\ s.depth = 0 /\ token = "comma"
    BY <1>1, <1>6 DEF Scan
<1>7. CASE ~s.done /\ s.depth = 0 /\ token = "closeBracket"
    BY <1>1, <1>7 DEF Scan
<1>. QED BY <1>2, <1>3, <1>4, <1>5, <1>6, <1>7

\* The scan takes the text of a listener as one object.
LEMMA ScanObject ==
    ASSUME NEW fields \in Listener, NEW object, object = ObjectText(fields),
           NEW text \in Seq(Token), NEW v \in 1..Len(text),
           NEW a \in Nat, a + Len(object) <= Len(text) - v,
           \A q \in 1..Len(object) : text[v + (a + q)] = object[q],
           ScanBehind(text, v)[a].depth = 0, ~ScanBehind(text, v)[a].done
    PROVE  LET s == ScanBehind(text, v)[a]
               t == ScanBehind(text, v)[a + Len(object)]
           IN t.depth = 0 /\ ~t.done /\ t.objects = Append(s.objects, object)
<1> DEFINE n == Len(text) - v
           l == Len(object)
           scan == ScanBehind(text, v)
<1>1. /\ object \in Seq(Token) /\ l \in Nat /\ l >= 2
      /\ object[1] = "openBrace" /\ object[l] = "closeBrace"
      /\ \A p \in 2..(l - 1) : object[p] \notin {"openBrace", "closeBrace"}
    BY ObjectTextIs, NoBraceWithin DEF FieldsAt
<1>2. Len(text) \in Nat /\ n \in Nat
    BY LenProperties
<1>3. /\ scan \in [0..n -> ScanState]
      /\ \A i \in 1..n : scan[i] = Scan(scan[i - 1], text[v + i])
    BY ScanBehindIs
<1>4. /\ \A q \in 1..l : text[v + (a + q)] = object[q]
      /\ scan[a].depth = 0 /\ ~scan[a].done /\ a + l <= n
    OBVIOUS
<1> HIDE DEF n, l, scan
<1>a. l \in Nat /\ l >= 2 /\ n \in Nat /\ a + l <= n
    BY <1>1, <1>2, <1>4
<1>5. ASSUME NEW q \in 0..(l - 1)
      PROVE  /\ scan[a + q] \in ScanState /\ object[q + 1] \in Token
             /\ scan[a + (q + 1)] = Scan(scan[a + q], object[q + 1])
    <2>1. a + (q + 1) \in 1..n /\ (a + (q + 1)) - 1 = a + q /\ a + q \in 0..n /\ q + 1 \in 1..l
        BY <1>a
    <2>2. scan[a + (q + 1)] = Scan(scan[a + q], text[v + (a + (q + 1))])
        BY <1>3, <2>1
    <2>3. text[v + (a + (q + 1))] = object[q + 1]
        BY <1>4, <2>1
    <2>4. object[q + 1] \in Token
        BY <1>1, <2>1, ElementOfSeq DEF l
    <2>. QED BY <1>3, <2>1, <2>2, <2>3, <2>4
<1> DEFINE Within(q, s) == /\ s.depth = 1 /\ ~s.done /\ s.objects = scan[a].objects
                           /\ s.object \in Seq(Token) /\ Len(s.object) = q
                           /\ \A j \in 1..q : s.object[j] = object[j]
           T == {q \in 0..(l - 1) : q # 0 => Within(q, scan[a + q])}
<1>6. ASSUME NEW q \in 0..((l - 1) - 1), q \in T
      PROVE  q + 1 \in T
    <2>1. q \in 0..(l - 1) /\ q + 1 \in 0..(l - 1)
        BY <1>1
    <2> DEFINE s == scan[a + q]
               token == object[q + 1]
               t == scan[a + (q + 1)]
    <2>2. s \in ScanState /\ token \in Token /\ t = Scan(s, token)
        BY <1>5, <2>1
    <2>3. CASE q = 0
        <3>1. a + q = a /\ q + 1 = 1
            BY <2>3
        <3>2. s = scan[a] /\ token = "openBrace"
            BY <1>1, <3>1
        <3>3. t.depth = 1 /\ ~t.done /\ t.object = <<"openBrace">> /\ t.objects = scan[a].objects
            BY <1>4, <2>2, <3>2, ScanCases
        <3>4. /\ <<"openBrace">> \in Seq(Token) /\ Len(<<"openBrace">>) = 1
              /\ <<"openBrace">>[1] = "openBrace"
            BY <2>2, <3>2, OneToken
        <3>5. Within(1, t)
            <4>1. \A j \in 1..1 : j = 1
                OBVIOUS
            <4> HIDE DEF t, s, token
            <4>. QED BY <1>1, <3>3, <3>4, <4>1
        <3> HIDE DEF Within
        <3>6. Within(q + 1, scan[a + (q + 1)])
            BY <3>1, <3>5
        <3>. QED BY <2>1, <3>6
    <2>4. CASE q # 0
        <3>1. Within(q, s)
            BY <1>6, <2>4
        <3>2. q + 1 \in 2..(l - 1) /\ q \in Nat
            BY <1>1, <2>1, <2>4
        <3>3. token \notin {"openBrace", "closeBrace"}
            BY <1>1, <3>2
        <3> HIDE DEF s, t, token
        <3>4. /\ t.depth = 1 /\ ~t.done /\ t.object = Append(s.object, token)
              /\ t.objects = s.objects
            BY <2>2, <3>1, <3>3, ScanCases
        <3> DEFINE o == s.object
        <3>o. o \in Seq(Token) /\ Len(o) = q /\ t.object = Append(o, token)
            BY <3>1, <3>4
        <3> HIDE DEF o
        <3>p. /\ t.object \in Seq(Token) /\ Len(t.object) = Len(o) + 1
              /\ t.object[Len(o) + 1] = token /\ \A j \in 1..Len(o) : t.object[j] = o[j]
            <4> DEFINE e == Append(o, token)
                       S == Token
            <4>s. o \in Seq(S) /\ token \in S
                BY <2>2, <3>o
            <4> HIDE DEF S
            <4>1. /\ e \in Seq(S) /\ Len(e) = Len(o) + 1 /\ e[Len(o) + 1] = token
                  /\ \A j \in 1..Len(o) : e[j] = o[j]
                BY <4>s, AppendProperties
            <4> HIDE DEF e
            <4>. QED BY <3>o, <4>1 DEF e, S
        <3>5. /\ t.object \in Seq(Token) /\ Len(t.object) = q + 1
              /\ t.object[q + 1] = token /\ \A j \in 1..q : t.object[j] = s.object[j]
            BY <3>o, <3>p DEF o
        <3>6. \A j \in 1..(q + 1) : j \in 1..q \/ j = q + 1
            BY <3>2
        <3>7. \A j \in 1..(q + 1) : t.object[j] = object[j]
            BY <3>1, <3>5, <3>6 DEF token
        <3>8. Within(q + 1, t)
            BY <3>1, <3>4, <3>5, <3>7
        <3> HIDE DEF Within
        <3>. QED BY <2>1, <3>8 DEF t
    <2>. QED BY <2>3, <2>4
<1>7. Within(l - 1, scan[a + (l - 1)])
    <2>1. 0 \in T /\ l - 1 \in Nat /\ l - 1 # 0 /\ l - 1 \in 0..(l - 1)
        BY <1>1
    <2> DEFINE m == l - 1
    <2> HIDE DEF T, m
    <2>2. 0..m \subseteq T
        BY <1>6, <2>1, UpTo DEF m
    <2>3. m \in T
        BY <2>1, <2>2 DEF m
    <2> HIDE DEF Within
    <2>. QED BY <2>1, <2>3 DEF T, m
<1>8. /\ scan[a + (l - 1)] \in ScanState /\ "closeBrace" \in Token
      /\ scan[a + l] = Scan(scan[a + (l - 1)], "closeBrace")
    <2>1. l - 1 \in 0..(l - 1) /\ (l - 1) + 1 = l
        BY <1>a
    <2>2. \A q \in 0..(l - 1) : q + 1 = l =>
              /\ scan[a + q] \in ScanState /\ object[l] \in Token
              /\ scan[a + l] = Scan(scan[a + q], object[l])
        BY <1>5
    <2>. QED BY <1>1, <2>1, <2>2
<1> DEFINE s == scan[a + (l - 1)]
           t == scan[a + l]
<1>9. t.depth = 0 /\ ~t.done /\ t.objects = Append(scan[a].objects, Append(s.object, "closeBrace"))
    <2>1. s.depth = 1 /\ ~s.done /\ s.objects = scan[a].objects
        BY <1>7
    <2>2. s \in ScanState /\ "closeBrace" \in Token /\ t = Scan(s, "closeBrace")
        BY <1>8
    <2> HIDE DEF s, t
    <2>3. t.depth = 0 /\ ~t.done /\ t.objects = Append(s.objects, Append(s.object, "closeBrace"))
        BY <2>1, <2>2, ScanCases
    <2>. QED BY <2>1, <2>3
<1>10. Append(s.object, "closeBrace") = object
    <2> DEFINE o == s.object
               e == Append(o, "closeBrace")
    <2>1. o \in Seq(Token) /\ Len(o) = l - 1 /\ \A j \in 1..(l - 1) : o[j] = object[j]
        BY <1>7
    <2> HIDE DEF s, o
    <2>2. /\ e \in Seq(Token) /\ Len(e) = Len(o) + 1 /\ e[Len(o) + 1] = "closeBrace"
          /\ \A j \in 1..Len(o) : e[j] = o[j]
        BY <1>8, <2>1, AppendProperties
    <2> HIDE DEF e
    <2>3. Len(o) + 1 = l /\ \A j \in 1..l : j \in 1..Len(o) \/ j = l
        BY <1>1, <2>1
    <2>a. Len(e) = l /\ Len(o) = l - 1 /\ e[l] = object[l]
        BY <1>1, <2>1, <2>2, <2>3
    <2>b. \A j \in 1..l : e[j] = object[j]
        BY <2>1, <2>2, <2>3, <2>a
    <2>4. Len(e) = Len(object) /\ \A j \in 1..Len(e) : e[j] = object[j]
        BY <2>a, <2>b DEF l
    <2>5. e = object
        BY <1>1, <2>2, <2>4, SeqEqual
    <2>. QED BY <2>5 DEF e, o
<1>. QED BY <1>9, <1>10 DEF scan, l

\* The texts of listeners, one per listener.
ObjectTexts(listeners) == [i \in DOMAIN listeners |-> ObjectText(listeners[i])]

\* They are texts, as many as there are listeners.
LEMMA ObjectTextsAre ==
    ASSUME NEW listeners \in Seq(Listener)
    PROVE  /\ ObjectTexts(listeners) \in Seq(Seq(Token))
           /\ Len(ObjectTexts(listeners)) = Len(listeners) /\ Len(listeners) \in Nat
           /\ \A i \in 1..Len(listeners) : /\ listeners[i] \in Listener
                                           /\ ObjectTexts(listeners)[i] = ObjectText(listeners[i])
<1> DEFINE n == Len(listeners)
           texts == ObjectTexts(listeners)
           S == Seq(Token)
<1>1. n \in Nat /\ DOMAIN listeners = 1..n /\ \A i \in 1..n : listeners[i] \in Listener
    BY LenProperties, ElementOfSeq
<1>2. texts \in [1..n -> S] /\ \A i \in 1..n : texts[i] = ObjectText(listeners[i])
    BY <1>1, ObjectTextIs DEF ObjectTexts
<1> HIDE DEF S, texts, n
<1>3. texts \in Seq(S)
    BY <1>1, <1>2, SeqDef
<1>4. DOMAIN texts = 1..n
    BY <1>2
<1>5. Len(texts) = n
    BY <1>1, <1>3, <1>4, LenProperties
<1>. QED BY <1>1, <1>2, <1>3, <1>5 DEF S, texts, n

\* The scan finds the listeners of an array, in their order, and no more.
LEMMA ObjectsOfArray ==
    ASSUME NEW listeners \in Seq(Listener),
           NEW sep, sep = Separated(ObjectTexts(listeners)),
           NEW text \in Seq(Token), NEW v \in 1..Len(text), v + Len(sep) < Len(text),
           \A p \in 1..Len(sep) : text[v + p] = sep[p],
           text[v + (Len(sep) + 1)] = "closeBracket"
    PROVE  ScanBehind(text, v)[Len(text) - v].objects = ObjectTexts(listeners)
<1> DEFINE m == Len(listeners)
           objects == ObjectTexts(listeners)
           scan == ScanBehind(text, v)
           n == Len(text) - v
           l == Len(sep)
           end(k) == Start(objects, k) + Len(objects[k])
<1>1. /\ m \in Nat /\ objects \in Seq(Seq(Token)) /\ Len(objects) = m
      /\ \A k \in 1..m : listeners[k] \in Listener /\ objects[k] = ObjectText(listeners[k])
    BY ObjectTextsAre
<1>2. \A k \in 1..m : objects[k] \in Seq(Token) /\ Len(objects[k]) \in Nat
    BY <1>1, ElementOfSeq, LenProperties
<1>3. sep \in Seq(Token) /\ SeparatedAt(objects, sep)
    <2> HIDE DEF objects
    <2>1. Separated(objects) \in Seq(Token) /\ SeparatedAt(objects, Separated(objects))
        BY <1>1, SeparatedLayout
    <2>2. sep = Separated(objects)
        BY DEF objects
    <2>. QED BY <2>1, <2>2
<1>4. /\ \A p \in 1..l : text[v + p] = sep[p]
      /\ text[v + (l + 1)] = "closeBracket"
    OBVIOUS
<1>5. l \in Nat /\ n \in Nat /\ l + 1 <= n
    <2>1. Len(text) \in Nat /\ l \in Nat
        BY <1>3, LenProperties
    <2>2. v + l < Len(text)
        OBVIOUS
    <2>. QED BY <2>1, <2>2
<1>6. /\ scan \in [0..n -> ScanState]
      /\ scan[0] = NothingScanned
      /\ \A i \in 1..n : scan[i] = Scan(scan[i - 1], text[v + i])
    BY ScanBehindIs
<1> HIDE DEF objects, scan, m, n, l
<1>7. /\ \A k \in 1..m : /\ Start(objects, k) \in Nat /\ end(k) \in Nat /\ end(k) <= l
                         /\ \A q \in 1..Len(objects[k]) : sep[Start(objects, k) + q] = objects[k][q]
      /\ \A k \in 1..m : k < m => /\ Start(objects, k + 1) = end(k) + 1
                                  /\ sep[Start(objects, k + 1)] = "comma"
      /\ m > 0 => Start(objects, 1) = 0
      /\ m > 0 => l = end(m)
      /\ m = 0 => l = 0
    <2>1. \A k \in 1..m : /\ Start(objects, k) \in Nat /\ end(k) <= l
                         /\ \A q \in 1..Len(objects[k]) : sep[Start(objects, k) + q] = objects[k][q]
        BY <1>1, <1>3 DEF SeparatedAt, l
    <2>2. \A k \in 1..m : end(k) \in Nat
        BY <1>2, <2>1
    <2>. QED BY <1>1, <1>3, <2>1, <2>2 DEF SeparatedAt, l
\* One more step of the scan.
<1>8. ASSUME NEW i \in 0..(n - 1)
      PROVE  /\ scan[i] \in ScanState /\ text[v + (i + 1)] \in Token
             /\ scan[i + 1] = Scan(scan[i], text[v + (i + 1)])
    <2>1. i \in 0..n /\ i + 1 \in 1..n /\ (i + 1) - 1 = i
        BY <1>5
    <2>2. scan[i + 1] = Scan(scan[i], text[v + (i + 1)])
        BY <1>6, <2>1
    <2>3. v + (i + 1) \in 1..Len(text)
        <3>1. Len(text) \in Nat
            BY LenProperties
        <3>. QED BY <2>1, <3>1 DEF n
    <2>4. text[v + (i + 1)] \in Token
        BY <2>3, ElementOfSeq
    <2>. QED BY <1>6, <2>1, <2>2, <2>4
<1> DEFINE Found(k, s) == /\ s.depth = 0 /\ ~s.done /\ Len(s.objects) = k
                          /\ \A j \in 1..k : s.objects[j] = objects[j]
           T == {k \in 0..m : k # 0 => Found(k, scan[end(k)])}
<1>9. Found(0, scan[0])
    BY <1>6, EmptySeq DEF NothingScanned
<1>10. ASSUME NEW k \in 0..(m - 1), k \in T
       PROVE  k + 1 \in T
    <2> DEFINE a == Start(objects, k + 1)
               o == objects[k + 1]
    <2>1. k + 1 \in 1..m /\ k \in Nat /\ k + 1 \in 0..m
        BY <1>1
    <2>2. /\ a \in Nat /\ a + Len(o) <= l /\ Len(o) \in Nat
          /\ \A q \in 1..Len(o) : sep[a + q] = o[q]
        BY <1>2, <1>7, <2>1
    <2>3. Found(k, scan[a])
        <3>1. CASE k = 0
            <4>1. k + 1 = 1 /\ m > 0
                BY <1>1, <2>1, <3>1
            <4>2. a = 0
                BY <1>7, <4>1
            <4>. QED BY <1>9, <3>1, <4>2
        <3>2. CASE k # 0
            <4>1. k \in 1..m /\ k < m
                BY <1>1, <2>1, <3>2
            <4>2. a = end(k) + 1 /\ sep[a] = "comma" /\ end(k) \in Nat
                BY <1>7, <4>1
            <4> DEFINE i == end(k)
            <4>3. Found(k, scan[i])
                BY <1>10, <3>2
            <4>4. i + 1 = a /\ i \in Nat
                BY <4>2
            <4> HIDE DEF i, a, o
            <4>5. i \in 0..(n - 1) /\ a \in 1..l
                BY <1>5, <2>2, <4>4
            <4>6. text[v + (i + 1)] = "comma"
                BY <1>4, <4>2, <4>4, <4>5
            <4>7. scan[i] \in ScanState /\ "comma" \in Token /\ scan[a] = Scan(scan[i], "comma")
                BY <1>8, <4>4, <4>5, <4>6
            <4>8. /\ scan[a].depth = 0 /\ ~scan[a].done
                  /\ scan[a].objects = scan[i].objects
                BY <4>3, <4>7, ScanCases
            <4>. QED BY <4>3, <4>8
        <3>. QED BY <3>1, <3>2
    <2> DEFINE s == scan[a]
               t == scan[a + Len(o)]
    <2>4. t.depth = 0 /\ ~t.done /\ t.objects = Append(s.objects, o)
        <3>1. listeners[k + 1] \in Listener /\ o = ObjectText(listeners[k + 1])
            BY <1>1, <2>1
        <3>2. a + Len(o) <= n
            <4> HIDE DEF a, o
            <4>. QED BY <1>5, <2>2
        <3>3. ASSUME NEW q \in 1..Len(o)
              PROVE  text[v + (a + q)] = o[q]
            <4> HIDE DEF a, o
            <4>1. a + q \in 1..l
                BY <1>5, <2>2
            <4>. QED BY <1>4, <2>2, <4>1
        <3>4. s.depth = 0 /\ ~s.done
            BY <2>3
        <3> DEFINE f == listeners[k + 1]
        <3>5. f \in Listener /\ o = ObjectText(f) /\ a \in Nat
            BY <2>2, <3>1
        <3> HIDE DEF a, o, f, s, t
        <3>6. /\ ScanBehind(text, v)[a].depth = 0 /\ ~ScanBehind(text, v)[a].done
              /\ a + Len(o) <= Len(text) - v
            BY <3>2, <3>4 DEF scan, n, s
        <3>7. /\ ScanBehind(text, v)[a + Len(o)].depth = 0
              /\ ~ScanBehind(text, v)[a + Len(o)].done
              /\ ScanBehind(text, v)[a + Len(o)].objects = Append(ScanBehind(text, v)[a].objects, o)
            BY <3>3, <3>5, <3>6, ScanObject
        <3>. QED BY <3>7 DEF scan, s, t
    <2>5. s.objects \in Seq(Seq(Token)) /\ o \in Seq(Token)
        <3>1. a \in 0..n
            <4> HIDE DEF a, o
            <4>. QED BY <1>5, <2>2
        <3>2. s \in ScanState
            BY <1>6, <3>1
        <3>. QED BY <1>2, <2>1, <3>2 DEF ScanState
    <2> HIDE DEF a, o
    <2> DEFINE before == s.objects
               after == Append(before, o)
               S == Seq(Token)
    <2>6. Len(before) = k /\ \A j \in 1..k : before[j] = objects[j]
        BY <2>3
    <2>7. before \in Seq(S) /\ o \in S
        BY <2>5
    <2> HIDE DEF before, S, s
    <2>8. /\ Len(after) = Len(before) + 1 /\ after[Len(before) + 1] = o
          /\ \A j \in 1..Len(before) : after[j] = before[j]
        BY <2>7, AppendProperties
    <2> HIDE DEF after
    <2>9. /\ Len(after) = k + 1 /\ after[k + 1] = objects[k + 1]
          /\ \A j \in 1..k : after[j] = objects[j]
        BY <2>6, <2>8 DEF o
    <2>10. \A j \in 1..(k + 1) : j \in 1..k \/ j = k + 1
        BY <2>1
    <2>11. \A j \in 1..(k + 1) : after[j] = objects[j]
        BY <2>9, <2>10
    <2>12. t.objects = after
        BY <2>4 DEF after, before, s
    <2>13. Found(k + 1, t)
        BY <2>4, <2>9, <2>11, <2>12
    <2> HIDE DEF Found
    <2>14. end(k + 1) = a + Len(o)
        BY DEF a, o
    <2>. QED BY <2>1, <2>13, <2>14
<1>11. Found(m, scan[l])
    <2>1. CASE m = 0
        <3>1. l = 0
            BY <1>7, <2>1
        <3>. QED BY <1>9, <2>1, <3>1
    <2>2. CASE m # 0
        <3>1. 0 \in T
            BY <1>1
        <3> HIDE DEF T
        <3>2. 0..m \subseteq T
            BY <1>1, <1>10, <3>1, UpTo
        <3>3. m \in T /\ m > 0
            BY <1>1, <2>2, <3>2
        <3>4. l = end(m)
            BY <1>7, <3>3
        <3> HIDE DEF Found, end
        <3>. QED BY <2>2, <3>3, <3>4 DEF T
    <2>. QED BY <2>1, <2>2
<1>12. scan[l + 1].done /\ scan[l + 1].objects = scan[l].objects
    <2>1. l \in 0..(n - 1)
        BY <1>5
    <2>2. /\ scan[l] \in ScanState /\ "closeBracket" \in Token
          /\ scan[l + 1] = Scan(scan[l], "closeBracket")
        BY <1>4, <1>8, <2>1
    <2>3. scan[l].depth = 0 /\ ~scan[l].done
        BY <1>11
    <2>. QED BY <2>2, <2>3, ScanCases
\* Nothing behind the bracket counts.
<1> DEFINE U == {i \in 0..n : i >= l + 1 => scan[i] = scan[l + 1]}
<1>13. ASSUME NEW i \in 0..(n - 1), i \in U
       PROVE  i + 1 \in U
    <2>1. i + 1 \in 0..n /\ (i >= l + 1 \/ i + 1 = l + 1 \/ ~(i + 1 >= l + 1))
        BY <1>5
    <2>2. CASE i >= l + 1
        <3>1. scan[i] = scan[l + 1]
            BY <1>13, <2>2
        <3>2. /\ scan[i] \in ScanState /\ text[v + (i + 1)] \in Token
              /\ scan[i + 1] = Scan(scan[i], text[v + (i + 1)])
            BY <1>8
        <3>3. scan[i + 1] = scan[i]
            BY <1>12, <3>1, <3>2, ScanCases
        <3>. QED BY <2>1, <3>1, <3>3
    <2>. QED BY <2>1, <2>2
<1>14. scan[n] = scan[l + 1]
    <2>1. 0 \in U
        BY <1>5
    <2> HIDE DEF U
    <2>2. 0..n \subseteq U
        BY <1>5, <1>13, <2>1, UpTo
    <2>3. n \in U /\ n >= l + 1
        BY <1>5, <2>2
    <2>. QED BY <2>3 DEF U
<1>15. scan[n].objects = objects
    <2> DEFINE have == scan[l].objects
               S == Seq(Token)
    <2>1. Len(have) = Len(objects) /\ \A j \in 1..Len(have) : have[j] = objects[j]
        BY <1>1, <1>11
    <2>2. l \in 0..n
        BY <1>5
    <2>3. have \in Seq(S)
        BY <1>6, <2>2 DEF ScanState
    <2>4. objects \in Seq(S)
        BY <1>1
    <2>5. scan[n].objects = have
        BY <1>12, <1>14
    <2> HIDE DEF have, S
    <2>6. have = objects
        BY <2>1, <2>3, <2>4, SeqEqual
    <2>. QED BY <2>5, <2>6
<1>. QED BY <1>15 DEF scan, n, objects

\* How the text of a document begins, where its listeners are and how it ends.
LEMMA TextIs ==
    ASSUME NEW d \in Document, d.workers.kind # "array",
           NEW sep, sep = Separated(ObjectTexts(d.listeners)),
           NEW text, text = Text(d)
    PROVE  /\ text \in Seq(Token) /\ sep \in Seq(Token)
           /\ Len(sep) \in Nat /\ Len(text) = Len(sep) + 10
           /\ text[1] = "openBrace" /\ text[2] = "worker_threads" /\ text[3] = "colon"
           /\ text[4] \in Quoted \cup {Scalar}
           /\ text[4] = ValueText(d.workers)[1]
           /\ text[5] = "comma" /\ text[6] = "listeners" /\ text[7] = "colon"
           /\ text[8] = "openBracket"
           /\ \A p \in 1..Len(sep) : text[8 + p] = sep[p]
           /\ text[8 + (Len(sep) + 1)] = "closeBracket"
<1> DEFINE S == Token
           before == <<"openBrace", "worker_threads", "colon">>
           value == ValueText(d.workers)
           between == <<"comma", "listeners", "colon", "openBracket">>
           after == <<"closeBracket", "closeBrace">>
           a == before \o value
           b == a \o between
           c == b \o sep
<1>1. Mark \cup TopKey \subseteq S
    BY TokensAssumption DEF Token
<1>2. /\ before \in [1..3 -> S] /\ between \in [1..4 -> S] /\ after \in [1..2 -> S]
    BY <1>1 DEF Mark, TopKey
<1>3. /\ before \in Seq(S) /\ between \in Seq(S) /\ after \in Seq(S)
    BY <1>2, SeqDef
<1>4. d.workers \in Value /\ d.listeners \in Seq(Listener)
    BY DEF Document
<1>5. value \in Seq(S) /\ Len(value) = 1 /\ value[1] \in Quoted \cup {Scalar}
    BY <1>4, ValueTextIs
<1>6. sep \in Seq(S)
    <2>1. ObjectTexts(d.listeners) \in Seq(Seq(Token))
        BY <1>4, ObjectTextsAre
    <2>. QED BY <2>1, SeparatedLayout
<1>7. text = c \o after
    BY DEF Text, ObjectTexts
<1>8. /\ Len(before) = 3 /\ before[1] = "openBrace" /\ before[2] = "worker_threads"
      /\ before[3] = "colon"
      /\ Len(between) = 4 /\ between[1] = "comma" /\ between[2] = "listeners"
      /\ between[3] = "colon" /\ between[4] = "openBracket"
      /\ Len(after) = 2 /\ after[1] = "closeBracket"
    OBVIOUS
<1> HIDE DEF S, before, value, between, after
<1>9. /\ a \in Seq(S) /\ Len(a) = 4
      /\ a[1] = "openBrace" /\ a[2] = "worker_threads" /\ a[3] = "colon" /\ a[4] = value[1]
    <2>1. /\ a \in Seq(S) /\ Len(a) = Len(before) + Len(value)
          /\ \A i \in 1..Len(before) : a[i] = before[i]
          /\ \A i \in 1..Len(value) : a[Len(before) + i] = value[i]
        <3>1. before \in Seq(S) /\ value \in Seq(S)
            BY <1>3, <1>5
        <3> HIDE DEF a
        <3>2. a = before \o value
            BY DEF a
        <3>. QED BY <3>1, <3>2, JoinOf
    <2> HIDE DEF a
    <2>2. 1 \in 1..3 /\ 2 \in 1..3 /\ 3 \in 1..3 /\ 1 \in 1..1 /\ 3 + 1 = 4
        OBVIOUS
    <2>. QED BY <1>5, <1>8, <2>1, <2>2
<1> HIDE DEF a
<1>10. /\ b \in Seq(S) /\ Len(b) = 8 /\ \A i \in 1..4 : b[i] = a[i]
       /\ b[5] = "comma" /\ b[6] = "listeners" /\ b[7] = "colon" /\ b[8] = "openBracket"
    <2>1. /\ b \in Seq(S) /\ Len(b) = Len(a) + Len(between)
          /\ \A i \in 1..Len(a) : b[i] = a[i]
          /\ \A i \in 1..Len(between) : b[Len(a) + i] = between[i]
        <3>1. a \in Seq(S) /\ between \in Seq(S)
            BY <1>3, <1>9
        <3> HIDE DEF b
        <3>2. b = a \o between
            BY DEF b
        <3>. QED BY <3>1, <3>2, JoinOf
    <2> HIDE DEF b
    <2>2. /\ 1 \in 1..4 /\ 2 \in 1..4 /\ 3 \in 1..4 /\ 4 \in 1..4
          /\ 4 + 1 = 5 /\ 4 + 2 = 6 /\ 4 + 3 = 7 /\ 4 + 4 = 8
        OBVIOUS
    <2>. QED BY <1>8, <1>9, <2>1, <2>2
<1> HIDE DEF b
<1>11. /\ c \in Seq(S) /\ Len(c) = 8 + Len(sep) /\ \A i \in 1..8 : c[i] = b[i]
       /\ \A p \in 1..Len(sep) : c[8 + p] = sep[p]
       /\ Len(sep) \in Nat
    <2>1. /\ c \in Seq(S) /\ Len(c) = Len(b) + Len(sep) /\ Len(sep) \in Nat
          /\ \A i \in 1..Len(b) : c[i] = b[i]
          /\ \A i \in 1..Len(sep) : c[Len(b) + i] = sep[i]
        <3>1. b \in Seq(S) /\ sep \in Seq(S)
            BY <1>6, <1>10
        <3> HIDE DEF c
        <3>2. c = b \o sep
            BY DEF c
        <3>. QED BY <3>1, <3>2, JoinOf
    <2>. QED BY <1>10, <2>1
<1> HIDE DEF c
<1>12. /\ text \in Seq(S) /\ Len(text) = Len(sep) + 10
       /\ \A i \in 1..(8 + Len(sep)) : text[i] = c[i]
       /\ text[8 + (Len(sep) + 1)] = "closeBracket"
    <2>1. /\ text \in Seq(S) /\ Len(text) = Len(c) + Len(after)
          /\ \A i \in 1..Len(c) : text[i] = c[i]
          /\ \A i \in 1..Len(after) : text[Len(c) + i] = after[i]
        <3>1. c \in Seq(S) /\ after \in Seq(S)
            BY <1>3, <1>11
        <3>. QED BY <1>7, <3>1, JoinOf
    <2>2. 1 \in 1..2 /\ (8 + Len(sep)) + 1 = 8 + (Len(sep) + 1)
          /\ (8 + Len(sep)) + 2 = Len(sep) + 10
        BY <1>11
    <2>. QED BY <1>8, <1>11, <2>1, <2>2
<1>13. /\ \A i \in 1..8 : text[i] = b[i]
       /\ \A p \in 1..Len(sep) : text[8 + p] = sep[p]
    <2>1. \A i \in 1..8 : i \in 1..(8 + Len(sep))
        BY <1>11
    <2>2. \A p \in 1..Len(sep) : 8 + p \in 1..(8 + Len(sep))
        BY <1>11
    <2>. QED BY <1>11, <1>12, <2>1, <2>2
<1>14. /\ text[1] = "openBrace" /\ text[2] = "worker_threads" /\ text[3] = "colon"
       /\ text[4] = value[1]
       /\ text[5] = "comma" /\ text[6] = "listeners" /\ text[7] = "colon"
       /\ text[8] = "openBracket"
    <2>1. /\ 1 \in 1..4 /\ 2 \in 1..4 /\ 3 \in 1..4 /\ 4 \in 1..4 /\ 1..4 \subseteq 1..8
          /\ 5 \in 1..8 /\ 6 \in 1..8 /\ 7 \in 1..8 /\ 8 \in 1..8
        OBVIOUS
    <2>. QED BY <1>9, <1>10, <1>13, <2>1
<1>. QED BY <1>5, <1>6, <1>11, <1>12, <1>13, <1>14 DEF S, value

\* The number of workers is found where it is, if it is in quotes.
LEMMA WorkersAreFound ==
    ASSUME NEW d \in Document, d.workers.kind # "array"
    PROVE  /\ d.workers.kind \in {"string", "scalar"}
           /\ d.workers.kind = "string" =>
                 ExtractString(Text(d), "worker_threads") = d.workers.of
           /\ d.workers.kind = "scalar" =>
                 ExtractString(Text(d), "worker_threads") = Empty
<1> DEFINE sep == Separated(ObjectTexts(d.listeners))
           text == Text(d)
           value == ValueText(d.workers)
<1>1. /\ text \in Seq(Token) /\ Len(sep) \in Nat /\ Len(text) = Len(sep) + 10
      /\ text[1] = "openBrace" /\ text[2] = "worker_threads" /\ text[3] = "colon"
      /\ text[4] = value[1]
    BY TextIs
<1>2. /\ d.workers.kind \in {"string", "scalar"}
      /\ d.workers.kind = "string" => value[1] = d.workers.of /\ value[1] \in Quoted
      /\ d.workers.kind = "scalar" => value[1] \notin Quoted
    <2>1. d.workers \in Value
        BY DEF Document
    <2>2. Scalar \notin Quoted
        BY TokensAssumption
    <2>. QED BY <2>1, <2>2, ValueTextIs
<1> DEFINE key == {"worker_threads"}
           colons == Address \cup {"colon"}
<1>3. /\ "worker_threads" \in key /\ "openBrace" \notin key
      /\ "colon" \in colons /\ "colon" \notin Address /\ "worker_threads" \notin colons
    BY TokensAssumption DEF Mark, TopKey
<1> HIDE DEF text, value, sep, key, colons
<1>4. Find(text, 1, key) = 2
    <2>1. 2 \in 1..Len(text) /\ 1 \in Nat \ {0} /\ text[2] \in key
        BY <1>1, <1>3
    <2>2. ASSUME NEW p \in 1..Len(text), text[p] \in key
          PROVE  2 <= p
        <3>1. p # 1
            BY <1>1, <1>3, <2>2
        <3>. QED BY <1>1, <3>1
    <2>. QED BY <1>1, <2>1, <2>2, FindFirst
<1>5. Find(text, 2, colons) = 3
    <2>1. 3 \in 2..Len(text) /\ 2 \in Nat \ {0} /\ text[3] \in colons
        BY <1>1, <1>3
    <2>2. ASSUME NEW p \in 2..Len(text), text[p] \in colons
          PROVE  3 <= p
        <3>1. p # 2
            BY <1>1, <1>3, <2>2
        <3>. QED BY <1>1, <3>1
    <2>. QED BY <1>1, <2>1, <2>2, FindFirst
<1>6. ValueAt(text, "worker_threads") = 4
    <2>1. 2 # 0 /\ 3 # 0 /\ 3 # Len(text) /\ text[3] \notin Address /\ 3 + 1 = 4
        BY <1>1, <1>3
    <2>. QED BY <1>4, <1>5, <2>1 DEF ValueAt, key, colons
<1>7. 4 # 0
    OBVIOUS
<1>8. ExtractString(text, "worker_threads") = IF value[1] \in Quoted THEN value[1] ELSE Empty
    BY <1>1, <1>6, <1>7 DEF ExtractString
<1>. QED BY <1>2, <1>8 DEF text

\* The listeners are found where they are.
LEMMA ListenersAreFound ==
    ASSUME NEW d \in Document, d.workers.kind # "array"
    PROVE  ExtractObjectArray(Text(d), "listeners") = ObjectTexts(d.listeners)
<1> DEFINE sep == Separated(ObjectTexts(d.listeners))
           text == Text(d)
<1>0. sep = Separated(ObjectTexts(d.listeners)) /\ text = Text(d)
    OBVIOUS
<1> HIDE DEF sep, text
<1>1. /\ text \in Seq(Token) /\ sep \in Seq(Token)
      /\ Len(sep) \in Nat /\ Len(text) = Len(sep) + 10
      /\ text[1] = "openBrace" /\ text[2] = "worker_threads" /\ text[3] = "colon"
      /\ text[4] \in Quoted \cup {Scalar}
      /\ text[4] = ValueText(d.workers)[1]
      /\ text[5] = "comma" /\ text[6] = "listeners" /\ text[7] = "colon"
      /\ text[8] = "openBracket"
      /\ \A p \in 1..Len(sep) : text[8 + p] = sep[p]
      /\ text[8 + (Len(sep) + 1)] = "closeBracket"
    BY <1>0, TextIs
<1>2. d.listeners \in Seq(Listener)
    BY DEF Document
<1>3. Len(text) \in Nat /\ Len(text) >= 10
    BY <1>1
<1> DEFINE key == {"listeners"}
           k == Find(text, 1, key)
           colons == Address \cup {"colon"}
<1>4. /\ "listeners" \in key /\ \A x \in key : x = "listeners"
    OBVIOUS
<1>5. /\ "colon" \in colons /\ "colon" \notin Address
      /\ "comma" \notin colons /\ "listeners" \notin colons
    BY TokensAssumption DEF Mark, TopKey
<1> HIDE DEF key, colons
<1>6. k \in 1..Len(text) /\ text[k] = "listeners" /\ k <= 6
    <2>1. 6 \in 1..Len(text) /\ 1 \in Nat \ {0} /\ text[6] \in key
        BY <1>1, <1>3, <1>4
    <2>2. /\ k \in 1..Len(text) /\ text[k] \in key
          /\ \A i \in 1..Len(text) : text[i] \in key => k <= i
        BY <1>1, <2>1, FindIs
    <2>. QED BY <1>4, <2>1, <2>2
<1> HIDE DEF k
<1>7. k = 4 \/ k = 6
    <2>1. k \in Nat /\ k >= 1 /\ k <= 6
        BY <1>3, <1>6
    <2>2. k # 1 /\ k # 2 /\ k # 3 /\ k # 5
        BY <1>1, <1>6
    <2>. QED BY <2>1, <2>2
<1>8. Find(text, k, colons) = 7
    <2>1. k \in Nat \ {0} /\ 7 \in k..Len(text) /\ text[7] \in colons
        BY <1>1, <1>3, <1>5, <1>7
    <2>2. ASSUME NEW p \in k..Len(text), text[p] \in colons
          PROVE  7 <= p
        <3>1. p # k /\ p # 5 /\ p # 6
            BY <1>1, <1>5, <1>6, <2>2
        <3>. QED BY <1>3, <1>7, <3>1
    <2>. QED BY <1>1, <2>1, <2>2, FindFirst
<1>9. ValueAt(text, "listeners") = 8
    <2>1. k # 0 /\ 7 # 0 /\ 7 # Len(text) /\ text[7] \notin Address /\ 7 + 1 = 8
        BY <1>1, <1>3, <1>5, <1>7
    <2>. QED BY <1>8, <2>1 DEF ValueAt, k, key, colons
<1>10. ScanBehind(text, 8)[Len(text) - 8].objects = ObjectTexts(d.listeners)
    <2> DEFINE v == 8
               listeners == d.listeners
    <2>1. /\ v \in 1..Len(text) /\ v + Len(sep) < Len(text)
          /\ \A p \in 1..Len(sep) : text[v + p] = sep[p]
          /\ text[v + (Len(sep) + 1)] = "closeBracket"
        BY <1>1, <1>3
    <2>2. sep = Separated(ObjectTexts(listeners)) /\ listeners \in Seq(Listener)
        BY <1>0, <1>2
    <2> HIDE DEF v, listeners
    <2>3. ScanBehind(text, v)[Len(text) - v].objects = ObjectTexts(listeners)
        BY <1>1, <2>1, <2>2, ObjectsOfArray
    <2>. QED BY <2>3 DEF v, listeners
<1>11. 8 # 0
    OBVIOUS
<1>12. ExtractObjectArray(text, "listeners") = ObjectTexts(d.listeners)
    BY <1>1, <1>9, <1>10, <1>11 DEF ExtractObjectArray
<1>. QED BY <1>0, <1>12

\* What a load finds in the text of a plain document is what that asks for, and
\* the load comes to its end.
LEMMA ScannedIsAsked ==
    ASSUME NEW d \in Document, Plain(d)
    PROVE  /\ Scanned(Text(d)).rules = Listeners(d, Asked(d) \ Unserved(d))
           /\ \A old : Workers(old, Scanned(Text(d))) = AskedWorkers(d, old.workers)
           /\ Scanned(Text(d)).ends
<1> DEFINE listeners == d.listeners
           m == Len(listeners)
           objects == ObjectTexts(listeners)
<1>1. ExtractObjectArray(Text(d), "listeners") = objects
    BY ListenersAreFound DEF Plain
<1>2. /\ listeners \in Seq(Listener) /\ DOMAIN listeners = 1..m
      /\ \A i \in DOMAIN listeners : listeners[i] \in Listener /\ PlainListener(listeners[i])
    BY LenProperties, ElementOfSeq DEF Document, Plain
<1>3. DOMAIN objects = DOMAIN listeners /\ \A i \in DOMAIN listeners : objects[i] = ObjectText(listeners[i])
    BY DEF ObjectTexts
<1>4. \A i \in DOMAIN listeners : /\ RuleOf(objects[i]) = AskedRule(listeners[i])
                                  /\ ExtractStringArray(objects[i], "targets").ends
    BY <1>2, <1>3, RuleIsRead
<1> HIDE DEF objects
<1>5. [i \in DOMAIN objects |-> RuleOf(objects[i])] = [i \in DOMAIN listeners |-> AskedRule(listeners[i])]
    BY <1>3, <1>4
<1>6. Scanned(Text(d)).rules = CompleteOnes([i \in DOMAIN objects |-> RuleOf(objects[i])])
    BY <1>1 DEF Scanned
<1>7. Scanned(Text(d)).ends = \A i \in DOMAIN objects : ExtractStringArray(objects[i], "targets").ends
    BY <1>1 DEF Scanned
<1>8. ASSUME NEW i \in DOMAIN listeners
      PROVE  Complete(AskedRule(listeners[i])) <=> i \in Asked(d) \ Unserved(d)
    <2>1. AskedRule(listeners[i]).type \in {"TCP", "HTTP", "SOCKS5"}
        BY DEF AskedRule, ParseProxyType
    <2>. QED BY <2>1 DEF Complete, Asked, Unserved
<1>9. Scanned(Text(d)).rules = Listeners(d, Asked(d) \ Unserved(d))
    <2> DEFINE asked == [i \in DOMAIN listeners |-> AskedRule(listeners[i])]
    <2>1. {i \in DOMAIN asked : Complete(asked[i])} = Asked(d) \ Unserved(d)
        <3>1. Asked(d) \subseteq DOMAIN listeners
            BY DEF Asked
        <3>. QED BY <1>8, <3>1
    <2>. QED BY <1>5, <1>6, <2>1 DEF CompleteOnes, Listeners
<1>10. ASSUME NEW old
       PROVE  Workers(old, Scanned(Text(d))) = AskedWorkers(d, old.workers)
    <2>1. Scanned(Text(d)).workers = ExtractString(Text(d), "worker_threads")
        BY DEF Scanned
    <2>2. /\ d.workers.kind \in {"string", "scalar"}
          /\ d.workers.kind = "string" => Scanned(Text(d)).workers = d.workers.of
          /\ d.workers.kind = "scalar" => Scanned(Text(d)).workers = Empty
        BY <2>1, WorkersAreFound DEF Plain
    <2>3. Empty \notin Numeral
        BY TokensAssumption
    <2>. QED BY <2>2, <2>3 DEF Workers, AskedWorkers
<1>. QED BY <1>3, <1>4, <1>7, <1>9, <1>10

(***************************************************************************)
(* What a load gives for any document.                                     *)
(***************************************************************************)
\* The place of a value is in the text.
LEMMA ValueAtIs ==
    ASSUME NEW text \in Seq(Token), NEW key
    PROVE  ValueAt(text, key) = 0 \/ ValueAt(text, key) \in 1..Len(text)
<1> DEFINE k == Find(text, 1, {key})
           colon == Find(text, k, Address \cup {"colon"})
<1>1. Len(text) \in Nat
    BY LenProperties
<1>2. k = 0 \/ k \in 1..Len(text)
    <2>1. 1 \in Nat \ {0}
        OBVIOUS
    <2>. QED BY <2>1, FindIs
<1> HIDE DEF k
<1>3. k # 0 => k \in Nat \ {0} /\ (colon = 0 \/ colon \in k..Len(text))
    <2> HAVE k # 0
    <2>1. k \in Nat \ {0}
        BY <1>1, <1>2
    <2>. QED BY <2>1, FindIs
<1> HIDE DEF colon
<1>4. k # 0 /\ colon # 0 /\ colon # Len(text) => colon + 1 \in 1..Len(text)
    BY <1>1, <1>3
<1>. QED BY <1>4 DEF ValueAt, k, colon

\* The objects that are found are texts.
LEMMA ObjectsAreTexts ==
    ASSUME NEW text \in Seq(Token), NEW key
    PROVE  ExtractObjectArray(text, key) \in Seq(Seq(Token))
<1> DEFINE v == ValueAt(text, key)
<1>1. CASE v = 0 \/ text[v] # "openBracket"
    BY <1>1, EmptySeq DEF ExtractObjectArray
<1>2. CASE v # 0 /\ text[v] = "openBracket"
    <2>1. v \in 1..Len(text) /\ Len(text) \in Nat
        BY <1>2, ValueAtIs, LenProperties
    <2>2. ExtractObjectArray(text, key) = ScanBehind(text, v)[Len(text) - v].objects
        BY <1>2 DEF ExtractObjectArray
    <2> HIDE DEF v
    <2>3. Len(text) - v \in 0..(Len(text) - v)
        BY <2>1
    <2>4. ScanBehind(text, v)[Len(text) - v] \in ScanState
        BY <2>1, <2>3, ScanBehindIs
    <2>. QED BY <2>2, <2>4 DEF ScanState
<1>. QED BY <1>1, <1>2

\* Those of a sequence of rules that are at certain places.
LEMMA KeptAre ==
    ASSUME NEW R, NEW rules \in Seq(R), NEW places
    PROVE  Kept(rules, places) \in Seq(R)
<1> DEFINE n == Len(rules)
           S == Seq(R)
           none == <<>>
           Next1(i, x) == IF i \in places THEN Append(x, rules[i]) ELSE x
           step == [i \in 1..n |-> [x \in S |-> Next1(i, x)]]
           Eq(g) == g = [i \in 0..n |->
                            CASE i = 0                            -> none
                              [] i # 0 /\ i \in places            -> Append(g[i - 1], rules[i])
                              [] i # 0 /\ i \notin places         -> g[i - 1]]
           kept == KeptUpTo(rules, places)
<1>1. n \in Nat /\ \A i \in 1..n : rules[i] \in R
    BY LenProperties, ElementOfSeq
<1>n. none \in S
    BY EmptySeq
<1>2. \A i \in 1..n : \A x \in S : Next1(i, x) \in S
    BY <1>1, AppendProperties
<1> HIDE DEF none, S, n
<1>3. step \in [1..n -> [S -> S]]
    <2> HIDE DEF Next1
    <2>. QED BY <1>2
<1>4. \E f \in [0..n -> S] : Steps(f, n, none, step)
    <2> HIDE DEF step
    <2>. QED BY <1>1, <1>3, <1>n, Recursion
<1>5. Eq(kept)
    <2>1. PICK f \in [0..n -> S] : Steps(f, n, none, step)
        BY <1>4
    <2>2. \A i \in 1..n : f[i] = Next1(i, f[i - 1])
        <3> TAKE i \in 1..n
        <3>1. i - 1 \in 0..n
            BY <1>1
        <3>2. f[i - 1] \in S
            BY <3>1
        <3>3. f[i] = step[i][f[i - 1]]
            BY <2>1 DEF Steps
        <3>. QED BY <3>2, <3>3
    <2>3. \A i \in 0..n : f[i] = CASE i = 0                            -> none
                                   [] i # 0 /\ i \in places            -> Append(f[i - 1], rules[i])
                                   [] i # 0 /\ i \notin places         -> f[i - 1]
        <3> TAKE i \in 0..n
        <3>1. i = 0 \/ (i \in 1..n /\ i # 0)
            BY <1>1
        <3>2. f[0] = none
            BY <2>1 DEF Steps
        <3>. QED BY <2>2, <3>1, <3>2
    <2>4. Eq(f)
        BY <2>3
    <2>. QED BY <2>4 DEF KeptUpTo, none, n
<1> HIDE DEF kept
<1>6. kept[0] = none /\ \A i \in 1..n : kept[i] = Next1(i, kept[i - 1])
    <2>1. 0 \in 0..n
        BY <1>1
    <2>2. kept[0] = none
        BY <1>5, <2>1
    <2>3. ASSUME NEW i \in 1..n
          PROVE  kept[i] = Next1(i, kept[i - 1])
        <3>1. i \in 0..n /\ i # 0
            BY <1>1
        <3>. QED BY <1>5, <3>1
    <2>. QED BY <2>2, <2>3
<1>7. \A i \in 0..n : kept[i] \in S
    <2> DEFINE T == {i \in 0..n : kept[i] \in S}
    <2>1. 0 \in T
        BY <1>1, <1>6, <1>n
    <2>2. ASSUME NEW i \in 0..(n - 1), i \in T
          PROVE  i + 1 \in T
        <3>1. i + 1 \in 1..n /\ (i + 1) - 1 = i
            BY <1>1
        <3> HIDE DEF Next1
        <3>2. kept[i + 1] = Next1(i + 1, kept[i])
            BY <1>6, <3>1
        <3>3. kept[i + 1] \in S
            BY <1>2, <2>2, <3>1, <3>2
        <3>. QED BY <1>1, <3>1, <3>3
    <2> HIDE DEF T
    <2>3. 0..n \subseteq T
        BY <1>1, <2>1, <2>2, UpTo
    <2>. QED BY <2>3 DEF T
<1>8. n \in 0..n
    BY <1>1
<1>. QED BY <1>7, <1>8 DEF kept, n, S, Kept

\* The text of a document is a text.
LEMMA TextInTokens ==
    ASSUME NEW d \in Document
    PROVE  Text(d) \in Seq(Token)
<1> DEFINE S == Token
           before == <<"openBrace", "worker_threads", "colon">>
           value == ValueText(d.workers)
           between == <<"comma", "listeners", "colon", "openBracket">>
           sep == Separated(ObjectTexts(d.listeners))
           after == <<"closeBracket", "closeBrace">>
<1>1. Mark \cup TopKey \subseteq S
    BY TokensAssumption DEF Token
<1>2. /\ before \in [1..3 -> S] /\ between \in [1..4 -> S] /\ after \in [1..2 -> S]
    BY <1>1 DEF Mark, TopKey
<1>3. /\ before \in Seq(S) /\ between \in Seq(S) /\ after \in Seq(S)
    BY <1>2, SeqDef
<1>4. value \in Seq(S)
    BY ValueTextIs DEF Document
<1>5. sep \in Seq(S)
    <2>1. ObjectTexts(d.listeners) \in Seq(Seq(Token))
        BY ObjectTextsAre DEF Document
    <2>. QED BY <2>1, SeparatedLayout
<1>6. Text(d) = before \o value \o between \o sep \o after
    BY DEF Text, ObjectTexts
<1> HIDE DEF S, before, value, between, sep, after
<1>7. before \o value \in Seq(S)
    BY <1>3, <1>4, ConcatProperties
<1>8. before \o value \o between \in Seq(S)
    BY <1>3, <1>7, ConcatProperties
<1>9. before \o value \o between \o sep \in Seq(S)
    BY <1>5, <1>8, ConcatProperties
<1>10. before \o value \o between \o sep \o after \in Seq(S)
    BY <1>3, <1>9, ConcatProperties
<1>. QED BY <1>6, <1>10 DEF S

\* Whatever a document says, a load leaves a sequence of rules.
LEMMA ScannedRules ==
    ASSUME NEW d \in Document
    PROVE  LET rules == Scanned(Text(d)).rules
           IN Len(rules) \in Nat /\ DOMAIN rules = 1..Len(rules)
<1> DEFINE objects == ExtractObjectArray(Text(d), "listeners")
           R == {RuleOf(object) : object \in Seq(Token)}
           found == [i \in DOMAIN objects |-> RuleOf(objects[i])]
           rules == Scanned(Text(d)).rules
<1>1. objects \in Seq(Seq(Token))
    BY TextInTokens, ObjectsAreTexts
<1> DEFINE S == Seq(Token)
           m == Len(objects)
<1>2. rules = CompleteOnes(found)
    BY DEF Scanned
<1> HIDE DEF objects
<1>3. m \in Nat /\ DOMAIN objects = 1..m /\ \A i \in 1..m : objects[i] \in S
    <2>1. objects \in Seq(S)
        BY <1>1
    <2> HIDE DEF S
    <2>. QED BY <2>1, LenProperties, ElementOfSeq
<1>4. found \in [1..m -> R]
    BY <1>3
<1> HIDE DEF found, R, m, rules
<1>5. found \in Seq(R)
    BY <1>3, <1>4, SeqDef
<1>6. rules \in Seq(R)
    BY <1>2, <1>5, KeptAre DEF CompleteOnes
<1>7. Len(rules) \in Nat /\ DOMAIN rules = 1..Len(rules)
    BY <1>6, LenProperties
<1>. QED BY <1>7 DEF rules

-----------------------------------------------------------------------------
(***************************************************************************)
(* The process.                                                            *)
(***************************************************************************)
Loading == {"load1", "hung", "signals", "winsock", "load2", "sample", "manager"}
Creating == {"create", "register"}
Ending == {"clear", "reset", "cleanup", "return"}
Failing == {"cleanupFail", "fail"}

\* The rules in hand are a sequence.
RulesInv == config.rules = <<>> \/ \E d \in Documents \cup Edits :
                d # Missing /\ config.rules = Content[d].rules

\* main takes the rules in order; proxies and threads are made in that order and
\* the proxies are stopped in that order.
OrderInv ==
    /\ pc \in Loading => open = {} /\ \A r \in Rule : proxy[r] = "none" /\ thread[r] = "none"
    /\ pc \in {"run", "join"} => next = 1
    /\ pc \in Creating =>
        \A r \in Rule : r >= next => proxy[r] = "none" /\ thread[r] = "none"
    /\ pc \in Failing => \A r \in Rule : proxy[r] # "ready"
    /\ pc = "stop" => \A r \in Rule : r < next => proxy[r] # "ready"
    /\ pc \in Ending => \A r \in Rule : proxy[r] # "ready"
    /\ \A r \in Rule : thread[r] # "none" =>
        proxy[r] \in {"ready", "stopped"} \/ pc \in Ending

\* Which parts of the program exist at which point of main.
PhaseInv ==
    /\ pc \in Loading \cup Creating \cup Failing => stats = "none" /\ manager # "destroyed"
    /\ pc \in Creating \cup {"run", "join", "stop", "clear"} => manager = "up"
    /\ pc \in Failing \cup {"reset", "cleanup", "return"} => manager # "up"
    /\ manager = "destroyed" => pc \in {"cleanup", "return"}
    /\ pc \in Ending \cup {"stop"} => stats = "done"
    /\ pc \in Loading \ {"manager"} => manager = "none"
    /\ pc \in {"return", "fail"} => ~winsock
    /\ pc \in {"load1", "signals", "winsock"} => ~winsock
    /\ exit = "0" => pc = "return"
    /\ exit = "1" => pc = "fail"
    /\ exit = "crashed" => pc \in Ending

\* A file that was not edited since the first load can be loaded again.
FileInv ==
    /\ file \in Documents \cup Edits
    /\ sample # "none" \/ pc = "sample" => edited \/ barred
    /\ ~edited /\ pc \in {"signals", "winsock", "load2"} =>
        file # Missing /\ Content[file].ends /\ Content[file].rules # <<>>

\* An open listening socket belongs to a proxy that runs or is being made.
OpenInv == \A r \in open : proxy[r] = "ready" \/ (pc = "register" /\ r = next)

\* The inductive invariant.
Inv == TypeOK /\ RulesInv /\ OpenInv /\ OrderInv /\ PhaseInv /\ FileInv

-----------------------------------------------------------------------------
\* The rules in hand are numbered from 1.
LEMMA Numbered == RulesInv => Len(config.rules) \in Nat /\ Rule = 1..Len(config.rules)
<1> SUFFICES ASSUME RulesInv PROVE Len(config.rules) \in Nat /\ Rule = 1..Len(config.rules)
  OBVIOUS
<1>1. CASE config.rules = <<>>
  BY <1>1 DEF Rule
<1>2. CASE config.rules # <<>>
  <2>1. PICK d \in Documents \cup Edits : d # Missing /\ config.rules = Content[d].rules
    BY <1>2 DEF RulesInv
  <2>2. d \in Document /\ Content[d] = Scanned(Text(d))
    BY <2>1, DocumentsAssumption DEF Content
  <2>3. Len(Scanned(Text(d)).rules) \in Nat
        /\ DOMAIN Scanned(Text(d)).rules = 1..Len(Scanned(Text(d)).rules)
    BY <2>2, ScannedRules
  <2>4. QED
    BY <2>1, <2>2, <2>3 DEF Rule
<1>3. QED
  BY <1>1, <1>2

\* A load, when it returns, leaves rules that were found in a content of the
\* file, and neither proxies nor threads.
LEMMA Loaded ==
    ASSUME RulesInv, FileInv, NEW success, NEW failure, Load(success, failure)
    PROVE  /\ RulesInv'
           /\ proxy' = [r \in Rule' |-> "none"] /\ thread' = [r \in Rule' |-> "none"]
           /\ pc' \in {"hung", success, failure}
           /\ pc' # failure => file # Missing
           /\ pc' \notin {"hung", failure} => Content[file].ends /\ Content[file].rules # <<>>
           /\ barred \in BOOLEAN => barred' \in BOOLEAN
           /\ barred => barred'
           /\ file # Missing /\ Content[file].ends /\ Content[file].rules # <<>> =>
                pc' = success \/ barred'
<1>1. CASE pc' = failure /\ barred' = (barred \/ file # Missing) /\ UNCHANGED config
  BY <1>1 DEF Load, RulesInv, Rule
<1>2. CASE /\ file # Missing
           /\ config' = LoadFromJson(config, Content[file])
           /\ pc' = CASE ~Content[file].ends                            -> "hung"
                      [] Content[file].ends /\ config'.rules = <<>>     -> failure
                      [] OTHER                                          -> success
           /\ UNCHANGED barred
  <2>1. config'.rules = Content[file].rules
    BY <1>2 DEF Load, LoadFromJson
  <2>2. RulesInv'
    BY <1>2, <2>1 DEF RulesInv, FileInv
  <2>3. QED
    BY <1>2, <2>1, <2>2 DEF Load, Rule
<1>3. QED
  BY <1>1, <1>2 DEF Load

\* The types of what only main's label, Winsock and the sample can lose.
LEMMA TypeKept ==
    ASSUME TypeOK, Rule' = Rule,
           UNCHANGED <<next, edited, barred, running, handler, manager, proxy, open, thread,
                       stats, exit>>,
           winsock' \in BOOLEAN, sample' \in {"none", "read", "other"},
           pc' \in {"load2", "cleanupFail", "return", "fail"}
    PROVE  TypeOK'
<1>1. pc' # "register"
  OBVIOUS
<1>2. pc' \in {"load1", "hung", "signals", "winsock", "load2", "sample", "manager", "create",
               "register", "run", "join", "stop", "clear", "reset", "cleanup", "cleanupFail",
               "return", "fail"}
  OBVIOUS
<1>3. next' \in Nat \ {0} /\ edited' \in BOOLEAN /\ barred' \in BOOLEAN
  BY DEF TypeOK
<1>4. /\ proxy' \in [Rule' -> {"none", "ready", "stopped", "destroyed"}]
      /\ open' \subseteq Rule'
      /\ thread' \in [Rule' -> {"none", "check", "accept", "serve", "done"}]
  BY DEF TypeOK
<1>5. /\ running' \in BOOLEAN /\ handler' \in {"default", "ours"}
      /\ manager' \in {"none", "up", "shut", "destroyed"}
      /\ stats' \in {"none", "check", "sleep", "done"}
      /\ exit' \in {"none", "0", "1", "killed", "crashed"}
  BY DEF TypeOK
<1>6. QED
  BY <1>1, <1>2, <1>3, <1>4, <1>5 DEF TypeOK

\* Every step but the two loads keeps the invariant, and leaves the rules alone.
LEMMA Others ==
    ASSUME Inv, Next, ~LoadFirst, ~LoadSecond
    PROVE  Inv'
<1> USE DEF Inv, startVars, signalVars, threadVars, Loading, Creating, Ending, Failing
<1>0. config' = config /\ Rule' = Rule /\ RulesInv'
  BY DEF Next, Main, RulesInv, Rule, InstallHandler, InitWinsock, WriteSample, StartManager,
       CreateListener, RegisterListener, AllCreated, LeaveLoop, JoinStats, StopProxy,
       AllStopped, ClearProxy, AllCleared, ResetManager, CleanupWinsock, Return, StatsLoop,
       Interrupt, Edit, AcceptLoop, UseDestroyed
<1>n. Rule \subseteq Int
  BY Numbered
<1>1. CASE InstallHandler
  BY <1>0, <1>n, <1>1 DEF InstallHandler, At, TypeOK, OpenInv, OrderInv, PhaseInv, FileInv
<1>2. CASE InitWinsock
  <2>1. TypeOK'
    <3>1. /\ winsock' \in BOOLEAN /\ pc' \in {"load2", "cleanupFail", "return", "fail"}
          /\ sample' = sample
          /\ UNCHANGED <<next, edited, barred, running, handler, manager, proxy, open, thread,
                         stats, exit>>
      BY <1>2 DEF InitWinsock
    <3>2. TypeOK /\ sample' \in {"none", "read", "other"}
      BY <3>1 DEF TypeOK
    <3>. QED BY <1>0, <3>1, <3>2, TypeKept
  <2>2. OpenInv'
    BY <1>0, <1>n, <1>2 DEF InitWinsock, At, TypeOK, OpenInv
  <2>3. OrderInv'
    BY <1>0, <1>n, <1>2 DEF InitWinsock, At, TypeOK, OrderInv, PhaseInv
  <2>4. PhaseInv'
    BY <1>0, <1>n, <1>2 DEF InitWinsock, At, TypeOK, PhaseInv
  <2>5. FileInv'
    BY <1>0, <1>n, <1>2 DEF InitWinsock, At, TypeOK, FileInv
  <2>6. QED
    BY <1>0, <2>1, <2>2, <2>3, <2>4, <2>5
<1>3. CASE WriteSample
  <2>1. TypeOK'
    <3>1. /\ winsock' = winsock /\ pc' \in {"load2", "cleanupFail", "return", "fail"}
          /\ sample' \in {"none", "read", "other"}
          /\ UNCHANGED <<next, edited, barred, running, handler, manager, proxy, open, thread,
                         stats, exit>>
      BY <1>3 DEF WriteSample
    <3>2. TypeOK /\ winsock' \in BOOLEAN
      BY <3>1 DEF TypeOK
    <3>. QED BY <1>0, <3>1, <3>2, TypeKept
  <2>2. OpenInv'
    BY <1>0, <1>n, <1>3 DEF WriteSample, At, TypeOK, OpenInv
  <2>3. OrderInv'
    BY <1>0, <1>n, <1>3 DEF WriteSample, At, TypeOK, OrderInv, PhaseInv
  <2>4. PhaseInv'
    BY <1>0, <1>n, <1>3 DEF WriteSample, At, TypeOK, PhaseInv
  <2>5. FileInv'
    BY <1>0, <1>n, <1>3, DocumentsAssumption DEF WriteSample, At, TypeOK, FileInv
  <2>6. QED
    BY <1>0, <2>1, <2>2, <2>3, <2>4, <2>5
<1>4. CASE StartManager
  <2>1. TypeOK'
    BY <1>0, <1>n, <1>4 DEF StartManager, At, TypeOK
  <2>2. OpenInv'
    BY <1>0, <1>n, <1>4 DEF StartManager, At, TypeOK, OpenInv
  <2>3. OrderInv'
    BY <1>0, <1>n, <1>4 DEF StartManager, At, TypeOK, OrderInv, PhaseInv
  <2>4. PhaseInv'
    BY <1>0, <1>n, <1>4 DEF StartManager, At, TypeOK, PhaseInv
  <2>5. FileInv'
    BY <1>0, <1>n, <1>4 DEF StartManager, At, TypeOK, FileInv
  <2>6. QED
    BY <1>0, <2>1, <2>2, <2>3, <2>4, <2>5
<1>5. CASE CreateListener
  <2>1. TypeOK'
    <3>1. CASE Failed(next) /\ UNCHANGED open
      BY <1>0, <1>n, <1>5, <3>1 DEF CreateListener, At, Failed, TypeOK
    <3>2. CASE Ready(next) /\ open' = open \cup {next}
      BY <1>0, <1>n, <1>5, <3>2 DEF CreateListener, At, Ready, TypeOK
    <3>3. CASE pc' = "register" /\ open' = open \cup {next} /\ UNCHANGED <<next, proxy, thread>>
      BY <1>0, <1>n, <1>5, <3>3 DEF CreateListener, At, TypeOK
    <3>4. QED
      BY <1>5, <3>1, <3>2, <3>3 DEF CreateListener
  <2>2. OpenInv'
    <3>1. CASE Failed(next) /\ UNCHANGED open
      BY <1>0, <1>n, <1>5, <3>1 DEF CreateListener, At, Failed, TypeOK, OpenInv, OrderInv
    <3>2. CASE Ready(next) /\ open' = open \cup {next}
      BY <1>0, <1>n, <1>5, <3>2 DEF CreateListener, At, Ready, TypeOK, OpenInv
    <3>3. CASE pc' = "register" /\ open' = open \cup {next} /\ UNCHANGED <<next, proxy, thread>>
      BY <1>0, <1>n, <1>5, <3>3 DEF CreateListener, At, TypeOK, OpenInv
    <3>4. QED
      BY <1>5, <3>1, <3>2, <3>3 DEF CreateListener
  <2>3. OrderInv'
    BY <1>0, <1>n, <1>5 DEF CreateListener, At, Ready, Failed, TypeOK, OrderInv, PhaseInv
  <2>4. PhaseInv'
    BY <1>0, <1>n, <1>5 DEF CreateListener, At, Ready, Failed, TypeOK, PhaseInv
  <2>5. FileInv'
    BY <1>0, <1>n, <1>5 DEF CreateListener, At, Ready, Failed, TypeOK, FileInv
  <2>6. QED
    BY <1>0, <2>1, <2>2, <2>3, <2>4, <2>5
<1>6. CASE RegisterListener
  <2>1. TypeOK'
    <3>1. CASE Failed(next) /\ open' = open \ {next}
      BY <1>0, <1>n, <1>6, <3>1 DEF RegisterListener, At, Failed, TypeOK
    <3>2. CASE Ready(next) /\ UNCHANGED open
      BY <1>0, <1>n, <1>6, <3>2 DEF RegisterListener, At, Ready, TypeOK
    <3>3. QED
      BY <1>6, <3>1, <3>2 DEF RegisterListener
  <2>2. OpenInv'
    <3>1. CASE Failed(next) /\ open' = open \ {next}
      BY <1>0, <1>n, <1>6, <3>1 DEF RegisterListener, At, Failed, TypeOK, OpenInv
    <3>2. CASE Ready(next) /\ UNCHANGED open
      BY <1>0, <1>n, <1>6, <3>2 DEF RegisterListener, At, Ready, TypeOK, OpenInv
    <3>3. QED
      BY <1>6, <3>1, <3>2 DEF RegisterListener
  <2>3. OrderInv'
    BY <1>0, <1>n, <1>6 DEF RegisterListener, At, Ready, Failed, TypeOK, OrderInv, PhaseInv
  <2>4. PhaseInv'
    BY <1>0, <1>n, <1>6 DEF RegisterListener, At, Ready, Failed, TypeOK, PhaseInv
  <2>5. FileInv'
    BY <1>0, <1>n, <1>6 DEF RegisterListener, At, Ready, Failed, TypeOK, FileInv
  <2>6. QED
    BY <1>0, <2>1, <2>2, <2>3, <2>4, <2>5
<1>7. CASE AllCreated
  <2>1. TypeOK'
    BY <1>0, <1>n, <1>7 DEF AllCreated, At, TypeOK
  <2>2. OpenInv'
    BY <1>0, <1>n, <1>7 DEF AllCreated, At, TypeOK, OpenInv
  <2>3. OrderInv'
    BY <1>0, <1>n, <1>7 DEF AllCreated, At, TypeOK, OrderInv, PhaseInv
  <2>4. PhaseInv'
    BY <1>0, <1>n, <1>7 DEF AllCreated, At, TypeOK, PhaseInv
  <2>5. FileInv'
    BY <1>0, <1>n, <1>7 DEF AllCreated, At, TypeOK, FileInv
  <2>6. QED
    BY <1>0, <2>1, <2>2, <2>3, <2>4, <2>5
<1>8. CASE LeaveLoop
  BY <1>0, <1>n, <1>8 DEF LeaveLoop, At, TypeOK, OpenInv, OrderInv, PhaseInv, FileInv
<1>9. CASE JoinStats
  <2>1. TypeOK'
    BY <1>0, <1>n, <1>9 DEF JoinStats, At, TypeOK
  <2>2. OpenInv'
    BY <1>0, <1>n, <1>9 DEF JoinStats, At, TypeOK, OpenInv
  <2>3. OrderInv'
    BY <1>0, <1>9, Numbered DEF JoinStats, At, TypeOK, OrderInv, PhaseInv
  <2>4. PhaseInv'
    BY <1>0, <1>n, <1>9 DEF JoinStats, At, TypeOK, PhaseInv
  <2>5. FileInv'
    BY <1>0, <1>n, <1>9 DEF JoinStats, At, TypeOK, FileInv
  <2>6. QED
    BY <1>0, <2>1, <2>2, <2>3, <2>4, <2>5
<1>10. CASE StopProxy
  BY <1>0, <1>n, <1>10 DEF StopProxy, At, TypeOK, OpenInv, OrderInv, PhaseInv, FileInv
<1>11. CASE AllStopped
  <2>1. TypeOK'
    BY <1>0, <1>n, <1>11 DEF AllStopped, At, TypeOK
  <2>2. OpenInv'
    BY <1>0, <1>n, <1>11 DEF AllStopped, At, TypeOK, OpenInv
  <2>3. OrderInv'
    BY <1>0, <1>11, Numbered DEF AllStopped, At, TypeOK, OrderInv, PhaseInv
  <2>4. PhaseInv'
    BY <1>0, <1>n, <1>11 DEF AllStopped, At, TypeOK, PhaseInv
  <2>5. FileInv'
    BY <1>0, <1>n, <1>11 DEF AllStopped, At, TypeOK, FileInv
  <2>6. QED
    BY <1>0, <2>1, <2>2, <2>3, <2>4, <2>5
<1>12. CASE ClearProxy
  BY <1>0, <1>n, <1>12 DEF ClearProxy, At, TypeOK, OpenInv, OrderInv, PhaseInv, FileInv
<1>13. CASE AllCleared
  BY <1>0, <1>n, <1>13 DEF AllCleared, At, TypeOK, OpenInv, OrderInv, PhaseInv, FileInv
<1>14. CASE ResetManager
  BY <1>0, <1>n, <1>14 DEF ResetManager, At, TypeOK, OpenInv, OrderInv, PhaseInv, FileInv
<1>15. CASE CleanupWinsock
  <2>1. TypeOK'
    <3>1. /\ winsock' \in BOOLEAN /\ pc' \in {"load2", "cleanupFail", "return", "fail"}
          /\ sample' = sample
          /\ UNCHANGED <<next, edited, barred, running, handler, manager, proxy, open, thread,
                         stats, exit>>
      BY <1>15 DEF CleanupWinsock
    <3>2. TypeOK /\ sample' \in {"none", "read", "other"}
      BY <3>1 DEF TypeOK
    <3>. QED BY <1>0, <3>1, <3>2, TypeKept
  <2>2. OpenInv'
    BY <1>0, <1>n, <1>15 DEF CleanupWinsock, TypeOK, OpenInv
  <2>3. OrderInv'
    BY <1>0, <1>n, <1>15 DEF CleanupWinsock, TypeOK, OrderInv
  <2>4. PhaseInv'
    BY <1>0, <1>n, <1>15 DEF CleanupWinsock, TypeOK, PhaseInv
  <2>5. FileInv'
    BY <1>0, <1>n, <1>15 DEF CleanupWinsock, TypeOK, FileInv
  <2>6. QED
    BY <1>0, <2>1, <2>2, <2>3, <2>4, <2>5
<1>16. CASE Return
  BY <1>0, <1>n, <1>16 DEF Return, TypeOK, OpenInv, OrderInv, PhaseInv, FileInv
<1>17. CASE StatsLoop
  BY <1>0, <1>n, <1>17 DEF StatsLoop, TypeOK, OpenInv, OrderInv, PhaseInv, FileInv
<1>18. CASE Interrupt
  <2>1. TypeOK'
    <3>1. running' \in BOOLEAN
      BY <1>18 DEF Interrupt, TypeOK
    <3>2. handler' \in {"default", "ours"} /\ exit' \in {"none", "0", "1", "killed", "crashed"}
      BY <1>18 DEF Interrupt, TypeOK
    <3>3. QED
      BY <1>0, <1>18, <3>1, <3>2 DEF Interrupt, TypeOK
  <2>2. OpenInv'
    BY <1>0, <1>n, <1>18 DEF Interrupt, TypeOK, OpenInv
  <2>3. OrderInv'
    BY <1>0, <1>n, <1>18 DEF Interrupt, TypeOK, OrderInv, PhaseInv
  <2>4. PhaseInv'
    BY <1>0, <1>n, <1>18 DEF Interrupt, TypeOK, PhaseInv, OrderInv
  <2>5. FileInv'
    BY <1>0, <1>n, <1>18 DEF Interrupt, TypeOK, FileInv
  <2>6. QED
    BY <1>0, <2>1, <2>2, <2>3, <2>4, <2>5
<1>19. CASE Edit
  BY <1>0, <1>n, <1>19 DEF Edit, TypeOK, OpenInv, OrderInv, PhaseInv, FileInv
<1>20. ASSUME NEW r \in Rule, AcceptLoop(r) PROVE Inv'
  BY <1>0, <1>n, <1>20 DEF AcceptLoop, OwnerDestroyed, OwnerRunning, TypeOK, OpenInv,
       OrderInv, PhaseInv, FileInv
<1>21. ASSUME NEW r \in Rule, UseDestroyed(r) PROVE Inv'
  BY <1>0, <1>n, <1>21 DEF UseDestroyed, OwnerDestroyed, OwnerRunning, TypeOK, OpenInv,
       OrderInv, PhaseInv, FileInv
<1>22. QED
  BY <1>1, <1>2, <1>3, <1>4, <1>5, <1>6, <1>7, <1>8, <1>9, <1>10, <1>11, <1>12, <1>13,
       <1>14, <1>15, <1>16, <1>17, <1>18, <1>19, <1>20, <1>21 DEF Next, Main

\* So do the loads: nothing was opened yet.
LEMMA Loads ==
    ASSUME Inv, LoadFirst \/ LoadSecond
    PROVE  Inv'
<1> USE DEF Inv, startVars, signalVars, threadVars, Loading, Creating, Ending, Failing, At
<1>1. PICK success \in {"signals", "manager"}, failure \in {"fail", "sample"} :
        /\ Load(success, failure)
        /\ \/ pc = "load1" /\ success = "signals" /\ failure = "fail"
           \/ pc = "load2" /\ success = "manager" /\ failure = "sample"
        /\ exit = "none"
        /\ UNCHANGED <<next, file, edited, sample, signalVars, winsock, manager, open, stats, exit>>
  <2> HIDE DEF Inv, startVars, signalVars, threadVars
  <2>1. CASE LoadFirst
    BY <2>1 DEF LoadFirst
  <2>2. CASE LoadSecond
    BY <2>2 DEF LoadSecond
  <2>3. QED
    BY <2>1, <2>2
<1>2. /\ RulesInv'
      /\ proxy' = [r \in Rule' |-> "none"] /\ thread' = [r \in Rule' |-> "none"]
      /\ pc' \in {"hung", success, failure}
      /\ pc' \notin {"hung", failure} =>
            file # Missing /\ Content[file].ends /\ Content[file].rules # <<>>
      /\ barred' \in BOOLEAN /\ (barred => barred')
      /\ file # Missing /\ Content[file].ends /\ Content[file].rules # <<>> =>
            pc' = success \/ barred'
  <2> HIDE DEF Inv
  <2>1. RulesInv /\ FileInv /\ barred \in BOOLEAN
    BY DEF Inv, TypeOK
  <2>2. QED
    BY <1>1, <2>1, Loaded
<1>3. TypeOK'
  BY <1>1, <1>2 DEF TypeOK, OrderInv
<1>4. OpenInv'
  BY <1>1, <1>2 DEF OpenInv, OrderInv
<1>5. OrderInv'
  BY <1>1, <1>2 DEF OrderInv
<1>6. PhaseInv'
  BY <1>1, <1>2 DEF PhaseInv
<1>7. FileInv'
  BY <1>1, <1>2 DEF FileInv
<1>8. QED
  BY <1>2, <1>3, <1>4, <1>5, <1>6, <1>7

\* Inv is inductive.
THEOREM Inductive == Spec => []Inv
<1>1. Init => Inv
  <2> SUFFICES ASSUME Init PROVE Inv
    OBVIOUS
  <2>1. config.rules = <<>> /\ Rule = {}
    BY DEF Init, NoConfig, Rule
  <2>2. TypeOK
    <3>1. proxy = [r \in Rule |-> "none"] /\ thread = [r \in Rule |-> "none"]
      BY <2>1 DEF Init
    <3>2. /\ proxy \in [Rule -> {"none", "ready", "stopped", "destroyed"}]
          /\ thread \in [Rule -> {"none", "check", "accept", "serve", "done"}]
      BY <3>1
    <3>3. open \subseteq Rule
      BY DEF Init
    <3>4. /\ edited \in BOOLEAN /\ barred \in BOOLEAN
          /\ running \in BOOLEAN /\ winsock \in BOOLEAN
      BY DEF Init
    <3>5. QED
      BY <3>2, <3>3, <3>4 DEF Init, TypeOK
  <2>3. QED
    BY <2>1, <2>2 DEF Init, Inv, RulesInv, OpenInv, OrderInv, PhaseInv, FileInv,
                      Loading, Creating, Ending, Failing
<1>2. Inv /\ [Next]_vars => Inv'
  <2>1. CASE LoadFirst \/ LoadSecond
    BY <2>1, Loads
  <2>2. CASE Next /\ ~LoadFirst /\ ~LoadSecond
    BY <2>2, Others
  <2>3. CASE UNCHANGED vars
    BY <2>3 DEF vars, Inv, TypeOK, RulesInv, OpenInv, OrderInv, PhaseInv, FileInv, Rule
  <2>4. QED
    BY <2>1, <2>2, <2>3
<1>3. QED
  BY <1>1, <1>2, PTL DEF Spec

-----------------------------------------------------------------------------
\* The variables keep their types: among them, the loop variable of main is the
\* number of a rule while it registers one, and there are as many proxies and
\* threads as rules, although the rules are loaded twice.
THEOREM TypeCorrect == Spec => []TypeOK
  BY Inductive, PTL DEF Inv

\* Whatever fails at start and whenever SIGINT comes, an open listening socket
\* belongs to a proxy that will be stopped, and a main that returns has taken
\* down all that it opened and started (main.cpp:199-281).
THEOREM TakesDown == Spec => []TakenDown
<1>1. Inv => TakenDown
  BY DEF Inv, TypeOK, TakenDown, OpenInv, OrderInv, PhaseInv, Ending, Failing
<1>2. QED
  BY <1>1, Inductive, PTL

\* The accept threads, which nobody joins, can crash the process only after all
\* proxies were stopped and the statistics thread has ended (main.cpp:244-274).
THEOREM CrashesOnlyStopped == Spec => []CrashOnlyStopped
<1>1. Inv => CrashOnlyStopped
  BY DEF Inv, TypeOK, CrashOnlyStopped, OpenInv, OrderInv, PhaseInv, Ending
<1>2. QED
  BY <1>1, Inductive, PTL

\* config.json is not overwritten with the sample unless the configuration file
\* was edited between the two loads or could not be opened again (main.cpp:128 and
\* 156, config.cpp:134).
THEOREM SampleOnlyWhenUnread == Spec => []SampleOnlyIfUnread
<1>1. Inv => SampleOnlyIfUnread
  BY DEF Inv, FileInv, SampleOnlyIfUnread
<1>2. QED
  BY <1>1, Inductive, PTL

\* The rules in hand after a load are those that the document asks for, in its
\* order, but for HTTP and SOCKS5 ones without targets; the number of workers is
\* the one it asks for in quotes; and a load comes to its end: for any order of the
\* fields, any number of listeners and targets, complete or not, and for both loads
\* (config.cpp:32-210).
THEOREM LoadsAsAsked == Spec => RulesAsAsked
<1> DEFINE Asking == pc' # pc /\ pc \in {"load1", "load2"} /\ file # Missing /\ ~barred'
                     /\ Plain(file)
           Answer == /\ pc' # "hung"
                     /\ config'.rules = Listeners(file, Asked(file) \ Unserved(file))
                     /\ config'.workers = AskedWorkers(file, config.workers)
<1>1. Inv /\ [Next]_vars => [Asking => Answer]_vars
  <2> SUFFICES ASSUME Inv, Next, Asking PROVE Answer
    BY DEF vars
  <2>1. PICK success \in {"signals", "manager"}, failure \in {"fail", "sample"} :
          Load(success, failure)
    <3>1. CASE LoadFirst
      BY <3>1 DEF LoadFirst
    <3>2. CASE LoadSecond
      BY <3>2 DEF LoadSecond
    <3>3. CASE ~LoadFirst /\ ~LoadSecond
      BY <3>3 DEF Next, Main, At, InstallHandler, InitWinsock, WriteSample, StartManager,
           CreateListener, RegisterListener, AllCreated, LeaveLoop, JoinStats, StopProxy,
           AllStopped, ClearProxy, AllCleared, ResetManager, CleanupWinsock, Return, StatsLoop,
           Interrupt, Edit, AcceptLoop, UseDestroyed
    <3>4. QED
      BY <3>1, <3>2, <3>3
  <2>2. file \in Documents \cup Edits /\ file # Missing /\ Plain(file)
    BY DEF Inv, FileInv
  <2>3. file \in Document /\ Content[file] = Scanned(Text(file))
    BY <2>2, DocumentsAssumption DEF Content
  <2>4. /\ Content[file].rules = Listeners(file, Asked(file) \ Unserved(file))
        /\ Workers(config, Content[file]) = AskedWorkers(file, config.workers)
        /\ Content[file].ends
    BY <2>2, <2>3, ScannedIsAsked
  <2>5. /\ config'.rules = Content[file].rules
        /\ config'.workers = Workers(config, Content[file])
    <3>1. ~ (barred' = (barred \/ file # Missing))
      BY <2>2
    <3>2. config' = LoadFromJson(config, Content[file])
      BY <2>1, <3>1 DEF Load
    <3>. QED BY <3>2 DEF LoadFromJson
  <2>6. pc' # "hung"
    BY <2>1, <2>2, <2>4 DEF Load
  <2>7. QED
    BY <2>4, <2>5, <2>6
<1>2. QED
  BY <1>1, Inductive, PTL DEF Spec, RulesAsAsked
=============================================================================
