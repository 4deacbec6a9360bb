---------------------------- MODULE PrivacyProofs ----------------------------
(***************************************************************************)
(* What Privacy promises of the pseudonyms, for all texts, orders and      *)
(* numbers of aliases, and for nicks that have no Entity_ in them and      *)
(* begin with no digit. Two arguments carry it. In a prompt: a pass of the *)
(* expression lets nothing stand that did not stand before, and leaves a   *)
(* word only behind an alias that took the separator between two of it, so *)
(* that the next pass leaves none; the loop, which ends where a pass       *)
(* changes nothing, leaves none either. In an answer: an alias occurs only *)
(* at an "E", and no alias that is not longer than another begins with it  *)
(* unless it is the same, for different numbers have different numerals.   *)
(***************************************************************************)
EXTENDS Privacy, FiniteSetTheorems, SequenceTheorems, WellFoundedInduction,
        NaturalsInduction, TLAPS
-----------------------------------------------------------------------------
(***************************************************************************)
(* Recursion: what a function says of itself, of smaller arguments, it is. *)
(***************************************************************************)

\* Induction over a set of numbers.
LEMMA SetInduction ==
  ASSUME NEW S, 0 \in S, \A n \in Nat : n \in S => n + 1 \in S
  PROVE  Nat \subseteq S
<1> DEFINE R == OpToRel(<, Nat)
           T == Nat \ S
<1>1. IsWellFoundedOn(R, Nat)
  BY NatLessThanWellFounded
<1>2. SUFFICES ASSUME T # {} PROVE FALSE
  OBVIOUS
<1>3. PICK x \in T : \A y \in T : ~(<<y, x>> \in R)
  <2> HIDE DEF R, T
  <2>1. T \subseteq Nat
    BY DEF T
  <2> QED
    BY <1>1, <1>2, <2>1, WFMin
<1>4. x # 0 /\ x \in Nat
  OBVIOUS
<1>5. x - 1 \in Nat /\ x - 1 < x
  BY <1>4
<1>6. x - 1 \in S
  BY <1>3, <1>5 DEF OpToRel
<1> QED
  BY <1>4, <1>5, <1>6

\* What is below a successor.
LEMMA LessOrSame == \A i, j \in Nat : i < j + 1 => i = j \/ i < j
  OBVIOUS

\* F gives each entry of a function on D from the entries of a smaller measure.
GivenFromBelow(D, S, m, F) ==
  /\ m \in [D -> Nat] /\ F \in [D -> [[D -> S] -> S]]
  /\ \A x \in D : \A f, g \in [D -> S] :
       (\A y \in D : m[y] < m[x] => f[y] = g[y]) => F[x][f] = F[x][g]

\* f follows F at all entries of a measure below n.
Follows(f, D, S, m, F, n) == f \in [D -> S] /\ \A x \in D : m[x] < n => f[x] = F[x][f]

\* Two functions that follow F agree.
LEMMA FollowersAgree ==
  ASSUME NEW D, NEW S, NEW m, NEW F, GivenFromBelow(D, S, m, F),
         NEW f, NEW g, NEW n \in Nat, Follows(f, D, S, m, F, n), Follows(g, D, S, m, F, n)
  PROVE  \A x \in D : m[x] < n => f[x] = g[x]
<1> DEFINE K == {k \in Nat : \A x \in D : m[x] < k /\ m[x] < n => f[x] = g[x]}
<1>0. m \in [D -> Nat]
  BY DEF GivenFromBelow
<1>1. 0 \in K
  BY <1>0
<1>2. ASSUME NEW k \in Nat, k \in K PROVE k + 1 \in K
  <2> SUFFICES ASSUME NEW x \in D, m[x] < k + 1, m[x] < n PROVE f[x] = g[x]
    OBVIOUS
  <2>1. \A y \in D : m[y] < m[x] => f[y] = g[y]
    BY <1>0, <1>2
  <2>2. F[x][f] = F[x][g]
    BY <2>1 DEF GivenFromBelow, Follows
  <2> QED
    BY <2>2 DEF Follows
<1> HIDE DEF K
<1>3. n \in K
  BY <1>1, <1>2, SetInduction
<1> QED
  BY <1>3 DEF K

\* One that follows F a little further.
LEMMA FollowFurther ==
  ASSUME NEW D, NEW S, NEW m, NEW F, GivenFromBelow(D, S, m, F),
         NEW f, NEW n \in Nat, Follows(f, D, S, m, F, n)
  PROVE  \E g : Follows(g, D, S, m, F, n + 1)
<1> DEFINE g == [x \in D |-> IF m[x] = n THEN F[x][f] ELSE f[x]]
<1>0. m \in [D -> Nat] /\ F \in [D -> [[D -> S] -> S]] /\ f \in [D -> S]
  BY DEF GivenFromBelow, Follows
<1>1. g \in [D -> S]
  BY <1>0
<1>2. \A x \in D : g[x] = IF m[x] = n THEN F[x][f] ELSE f[x]
  OBVIOUS
<1> HIDE DEF g
<1>3. ASSUME NEW x \in D, m[x] < n + 1 PROVE g[x] = F[x][g]
  <2>1. \A y \in D : m[y] < m[x] => g[y] = f[y]
    BY <1>0, <1>2, <1>3
  <2>2. F[x][g] = F[x][f]
    BY <1>0, <1>1, <2>1 DEF GivenFromBelow
  <2>3. m[x] # n => m[x] < n
    <3>1. m[x] \in Nat
      BY <1>0
    <3> QED
      BY <1>3, <3>1, LessOrSame
  <2> QED
    BY <1>2, <2>2, <2>3 DEF Follows
<1> QED
  BY <1>1, <1>3 DEF Follows

\* What is defined by recursion on entries of a smaller measure exists.
LEMMA Recursion ==
  ASSUME NEW D, NEW S, S # {}, NEW m, NEW F, GivenFromBelow(D, S, m, F)
  PROVE  \E f \in [D -> S] : \A x \in D : f[x] = F[x][f]
<1> DEFINE K == {n \in Nat : \E f : Follows(f, D, S, m, F, n)}
<1>0. m \in [D -> Nat]
  BY DEF GivenFromBelow
<1>1. 0 \in K
  <2> DEFINE f == [x \in D |-> CHOOSE s \in S : TRUE]
  <2>1. f \in [D -> S]
    OBVIOUS
  <2>2. Follows(f, D, S, m, F, 0)
    BY <1>0, <2>1 DEF Follows
  <2> QED
    BY <2>2
<1>2. ASSUME NEW n \in Nat, n \in K PROVE n + 1 \in K
  <2>1. PICK f : Follows(f, D, S, m, F, n)
    BY <1>2
  <2>2. \E g : Follows(g, D, S, m, F, n + 1)
    BY <2>1, FollowFurther
  <2> QED
    BY <2>2
<1>3. \A n \in Nat : \E f : Follows(f, D, S, m, F, n)
  <2> HIDE DEF K
  <2>1. Nat \subseteq K
    BY <1>1, <1>2, SetInduction
  <2> QED
    BY <2>1 DEF K
<1> DEFINE upto[n \in Nat] == CHOOSE f : Follows(f, D, S, m, F, n)
           sol == [x \in D |-> upto[m[x] + 1][x]]
<1>4. \A n \in Nat : Follows(upto[n], D, S, m, F, n)
  BY <1>3
<1> HIDE DEF upto
<1>5. sol \in [D -> S]
  BY <1>0, <1>4 DEF Follows
<1>6. \A x \in D : sol[x] = upto[m[x] + 1][x]
  OBVIOUS
<1> HIDE DEF sol
<1>7. ASSUME NEW x \in D PROVE sol[x] = F[x][sol]
  <2>1. m[x] \in Nat /\ m[x] + 1 \in Nat /\ m[x] < m[x] + 1
    BY <1>0
  <2>2. PICK h : Follows(h, D, S, m, F, m[x] + 1) /\ sol[x] = h[x]
    BY <1>4, <1>6, <2>1
  <2>3. ASSUME NEW y \in D, m[y] < m[x] PROVE sol[y] = h[y]
    <3>1. PICK k \in Nat : k = m[y] + 1 /\ m[y] < k
      BY <1>0
    <3>2. PICK u : Follows(u, D, S, m, F, k) /\ sol[y] = u[y]
      BY <1>4, <1>6, <3>1
    <3>3. Follows(h, D, S, m, F, k)
      BY <1>0, <2>2, <2>3, <3>1 DEF Follows
    <3>4. \A z \in D : m[z] < k => u[z] = h[z]
      BY <3>2, <3>3, FollowersAgree
    <3> QED
      BY <3>1, <3>2, <3>4
  <2>4. F[x][sol] = F[x][h]
    BY <1>5, <2>2, <2>3 DEF GivenFromBelow, Follows
  <2>5. h[x] = F[x][h]
    BY <2>1, <2>2 DEF Follows
  <2> QED
    BY <2>2, <2>4, <2>5
<1> QED
  BY <1>5, <1>7

\* There is no other.
SameFromBelow(D, m, f, g) ==
  /\ m \in [D -> Nat]
  /\ \A x \in D : (\A y \in D : m[y] < m[x] => f[y] = g[y]) => f[x] = g[x]

\* Functions that agree on all smaller entries give one value.
LEMMA NoOther ==
  ASSUME NEW D, NEW m, NEW f, NEW g, SameFromBelow(D, m, f, g)
  PROVE  \A x \in D : f[x] = g[x]
<1>0. /\ m \in [D -> Nat]
      /\ \A x \in D : (\A y \in D : m[y] < m[x] => f[y] = g[y]) => f[x] = g[x]
  BY DEF SameFromBelow
<1> DEFINE K == {k \in Nat : \A x \in D : m[x] < k => f[x] = g[x]}
<1>1. 0 \in K
  BY <1>0
<1>2. ASSUME NEW k \in Nat, k \in K PROVE k + 1 \in K
  <2> SUFFICES ASSUME NEW x \in D, m[x] < k + 1 PROVE f[x] = g[x]
    OBVIOUS
  <2>1. \A y \in D : m[y] < m[x] => f[y] = g[y]
    BY <1>0, <1>2, LessOrSame
  <2> QED
    BY <1>0, <2>1
<1> HIDE DEF K
<1>3. \A k \in Nat : k \in K
  BY <1>1, <1>2, SetInduction
<1>4. ASSUME NEW x \in D PROVE f[x] = g[x]
  <2>1. m[x] + 1 \in K /\ m[x] < m[x] + 1
    BY <1>0, <1>3
  <2> QED
    BY <2>1 DEF K
<1> QED
  BY <1>4

-----------------------------------------------------------------------------
(***************************************************************************)
(* Numerals: no two numbers have the same, and an alias is "E" and one of them.*)
(***************************************************************************)

\* What is written in texts.
Letters == Characters \union {"E"}
DigitSet == {Digits[d] : d \in DOMAIN Digits}

\* One sequence behind another, entry by entry.
LEMMA Joint ==
  ASSUME NEW S, NEW u \in Seq(S), NEW v \in Seq(S)
  PROVE  /\ u \o v \in Seq(S) /\ Len(u \o v) = Len(u) + Len(v)
         /\ \A i \in 1..Len(u) : (u \o v)[i] = u[i]
         /\ \A i \in 1..Len(v) : (u \o v)[Len(u) + i] = v[i]
<1>1. Len(u) \in Nat /\ Len(v) \in Nat
  BY LenProperties
<1>2. /\ u \o v \in Seq(S) /\ Len(u \o v) = Len(u) + Len(v)
      /\ \A i \in 1..Len(u) + Len(v) : (u \o v)[i] = IF i <= Len(u) THEN u[i] ELSE v[i - Len(u)]
  BY ConcatProperties
<1>3. \A i \in 1..Len(u) : (u \o v)[i] = u[i]
  BY <1>1, <1>2
<1>4. ASSUME NEW i \in 1..Len(v) PROVE (u \o v)[Len(u) + i] = v[i]
  <2>1. Len(u) + i \in 1..Len(u) + Len(v) /\ ~(Len(u) + i <= Len(u)) /\ (Len(u) + i) - Len(u) = i
    BY <1>1
  <2> QED
    BY <1>2, <2>1
<1> QED
  BY <1>2, <1>3, <1>4

\* A sequence of one entry.
LEMMA One ==
  ASSUME NEW S, NEW c \in S
  PROVE  <<c>> \in Seq(S) /\ Len(<<c>>) = 1 /\ <<c>>[1] = c
  OBVIOUS

\* The digits: there are two or more, and none is a separator or the "E".
LEMMA Base ==
  /\ Len(Digits) \in Nat /\ Len(Digits) > 1
  /\ \A d \in 1..Len(Digits) : Digits[d] \in DigitSet /\ IsDigit(Digits[d])
  /\ DigitSet \subseteq Characters /\ \A c \in DigitSet : IsDigit(c)
  /\ \A i, j \in 1..Len(Digits) : Digits[i] = Digits[j] => i = j
<1>1. Digits \in Seq(Characters) /\ Len(Digits) > 1
  BY PrivacyAssumption
<1>2. Len(Digits) \in Nat /\ DOMAIN Digits = 1..Len(Digits)
  BY <1>1, LenProperties
<1>3. \A d \in 1..Len(Digits) : Digits[d] \in Characters
  BY <1>1, ElementOfSeq
<1>4. \A i, j \in DOMAIN Digits : Digits[i] = Digits[j] => i = j
  BY PrivacyAssumption
<1> QED
  BY <1>1, <1>2, <1>3, <1>4 DEF DigitSet, IsDigit

\* A number of more than one digit is greater than what it is without the last.
LEMMA Quotient ==
  ASSUME NEW k \in Nat, NEW b \in Nat, b > 1
  PROVE  /\ k \div b \in Nat /\ k % b \in Nat /\ k % b < b
         /\ k = b * (k \div b) + (k % b)
         /\ k >= b => k \div b < k
<1>1. k \div b \in Nat /\ k % b \in Nat /\ k % b < b /\ k = b * (k \div b) + (k % b)
  OBVIOUS
<1>2. ASSUME k >= b PROVE k \div b < k
  <2>1. PICK q \in Nat : q = k \div b
    BY <1>1
  <2>2. b * q >= 2 * q
    OBVIOUS
  <2>3. k >= 2 * q /\ k >= 2
    BY <1>1, <1>2, <2>1, <2>2
  <2> QED
    BY <2>1, <2>3
<1> QED
  BY <1>1, <1>2

\* A numeral from the smaller ones.
NumeralStep(k, f) ==
  IF k < Len(Digits) THEN <<Digits[k + 1]>>
  ELSE f[k \div Len(Digits)] \o <<Digits[(k % Len(Digits)) + 1]>>

\* Numeral is what its definition says.
LEMMA NumeralForm ==
  Numeral \in [Nat -> Seq(DigitSet)] /\ \A k \in Nat : Numeral[k] = NumeralStep(k, Numeral)
<1> DEFINE S == Seq(DigitSet)
           m == [k \in Nat |-> k]
           F == [k \in Nat |-> [f \in [Nat -> S] |-> NumeralStep(k, f)]]
<1>1. ASSUME NEW k \in Nat, NEW f \in [Nat -> S] PROVE NumeralStep(k, f) \in S
  <2>1. CASE k < Len(Digits)
    <3>1. k + 1 \in 1..Len(Digits)
      BY <2>1, Base
    <3>2. Digits[k + 1] \in DigitSet
      BY <3>1, Base
    <3> QED
      BY <2>1, <3>2, One DEF NumeralStep
  <2>2. CASE ~(k < Len(Digits))
    <3>1. k \div Len(Digits) \in Nat /\ (k % Len(Digits)) + 1 \in 1..Len(Digits)
      <4>1. PICK b \in Nat : b = Len(Digits) /\ b > 1
        BY Base
      <4>2. k \div b \in Nat /\ k % b \in Nat /\ k % b < b
        BY <4>1, Quotient
      <4>3. k \div b \in Nat /\ (k % b) + 1 \in 1..b
        BY <4>2
      <4> QED
        BY <4>1, <4>3
    <3>2. Digits[(k % Len(Digits)) + 1] \in DigitSet
      BY <3>1, Base
    <3>3. <<Digits[(k % Len(Digits)) + 1]>> \in S /\ f[k \div Len(Digits)] \in S
      BY <3>1, <3>2, One
    <3> QED
      BY <2>2, <3>3, Joint DEF NumeralStep
  <2> QED
    BY <2>1, <2>2
<1>2. ASSUME NEW k \in Nat, NEW f, NEW g, \A j \in Nat : j < k => f[j] = g[j]
      PROVE  NumeralStep(k, f) = NumeralStep(k, g)
  <2>1. CASE k < Len(Digits)
    BY <2>1 DEF NumeralStep
  <2>2. CASE ~(k < Len(Digits))
    <3>1. PICK b \in Nat : b = Len(Digits) /\ b > 1 /\ k >= b
      BY <2>2, Base
    <3>2. k \div b \in Nat /\ k \div b < k
      BY <3>1, Quotient
    <3>3. f[k \div Len(Digits)] = g[k \div Len(Digits)]
      BY <1>2, <3>1, <3>2
    <3> QED
      BY <2>2, <3>3 DEF NumeralStep
  <2> QED
    BY <2>1, <2>2
<1>3. GivenFromBelow(Nat, S, m, F)
  <2>1. m \in [Nat -> Nat] /\ F \in [Nat -> [[Nat -> S] -> S]]
    <3> HIDE DEF S
    <3> QED
      BY <1>1
  <2>2. ASSUME NEW k \in Nat, NEW f \in [Nat -> S], NEW g \in [Nat -> S],
               \A j \in Nat : m[j] < m[k] => f[j] = g[j]
        PROVE  F[k][f] = F[k][g]
    <3>1. NumeralStep(k, f) = NumeralStep(k, g)
      BY <1>2, <2>2
    <3> HIDE DEF S
    <3> QED
      BY <3>1
  <2> HIDE DEF m, F, S
  <2> QED
    BY <2>1, <2>2 DEF GivenFromBelow
<1>4. S # {}
  BY EmptySeq
<1>5. PICK f \in [Nat -> S] : \A k \in Nat : f[k] = F[k][f]
  <2> HIDE DEF m, F, S
  <2> QED
    BY <1>3, <1>4, Recursion
<1>6. f = [k \in Nat |-> NumeralStep(k, f)]
  BY <1>5
<1>7. Numeral = CHOOSE g : g = [k \in Nat |-> NumeralStep(k, g)]
  BY DEF Numeral, NumeralStep
<1>8. Numeral = [k \in Nat |-> NumeralStep(k, Numeral)]
  BY <1>6, <1>7
<1>9. \A k \in Nat : Numeral[k] = NumeralStep(k, Numeral) /\ f[k] = NumeralStep(k, f)
  <2> HIDE DEF m, F, S
  <2> QED
    BY <1>6, <1>8
<1>10. \A k \in Nat : Numeral[k] = f[k]
  <2>1. \A k \in Nat : (\A j \in Nat : m[j] < m[k] => Numeral[j] = f[j]) => Numeral[k] = f[k]
    BY <1>2, <1>9
  <2>2. m \in [Nat -> Nat]
    OBVIOUS
  <2> HIDE DEF m, F, S
  <2>3. SameFromBelow(Nat, m, Numeral, f)
    BY <2>1, <2>2 DEF SameFromBelow
  <2> QED
    BY <2>3, NoOther
<1> HIDE DEF m, F, S
<1>11. Numeral \in [Nat -> S]
  BY <1>8, <1>10
<1> QED
  BY <1>9, <1>11 DEF S

\* A numeral is of digits, ...
LEMMA NumeralType == \A k \in Nat : Numeral[k] \in Seq(DigitSet) /\ Len(Numeral[k]) \in Nat
  BY NumeralForm, LenProperties

\* A numeral of one digit, ...
LEMMA ShortNumeral ==
  ASSUME NEW k \in Nat, k < Len(Digits)
  PROVE  Numeral[k] = <<Digits[k + 1]>> /\ Len(Numeral[k]) = 1
<1>1. Numeral[k] = <<Digits[k + 1]>>
  BY NumeralForm DEF NumeralStep
<1> QED
  BY <1>1

\* ... and one of more: k to the base b is q with the digit d behind it.
Cut(k, b, q, d) ==
  /\ k = b * q + (d - 1) /\ q < k
  /\ Numeral[k] = Numeral[q] \o <<Digits[d]>> /\ Len(Numeral[k]) = Len(Numeral[q]) + 1

LEMMA LongNumeral ==
  ASSUME NEW k \in Nat, NEW b \in Nat, b = Len(Digits), ~(k < b)
  PROVE  \E q \in Nat, d \in 1..b : Cut(k, b, q, d)
<1>1. b = Len(Digits) /\ b > 1 /\ k >= b
  BY Base
<1>2. PICK q \in Nat : q = k \div b /\ q < k
  BY <1>1, Quotient
<1>3. PICK d \in 1..b : d = (k % b) + 1
  <2>1. k % b \in Nat /\ k % b < b
    BY <1>1, Quotient
  <2> QED
    BY <2>1
<1>4. k = b * q + (d - 1)
  <2>1. k = b * (k \div b) + (k % b) /\ k % b \in Nat
    BY <1>1, Quotient
  <2>2. d - 1 = k % b
    BY <1>3, <2>1
  <2> QED
    BY <1>2, <2>1, <2>2
<1>5. Numeral[k] = Numeral[q] \o <<Digits[d]>>
  BY <1>1, <1>2, <1>3, NumeralForm DEF NumeralStep
<1>6. Numeral[q] \in Seq(DigitSet)
  BY NumeralType
<1>7. <<Digits[d]>> \in Seq(DigitSet) /\ Len(<<Digits[d]>>) = 1
  <2>1. Digits[d] \in DigitSet
    BY <1>1, Base
  <2> QED
    BY <2>1, One
<1>8. Len(Numeral[k]) = Len(Numeral[q]) + 1
  BY <1>5, <1>6, <1>7, Joint
<1>9. Cut(k, b, q, d)
  BY <1>2, <1>4, <1>5, <1>8 DEF Cut
<1> QED
  BY <1>9

\* ... and of one at least.
LEMMA NumeralLength == \A k \in Nat : Len(Numeral[k]) > 0
<1> SUFFICES ASSUME NEW k \in Nat PROVE Len(Numeral[k]) > 0
  OBVIOUS
<1>0. PICK b \in Nat : b = Len(Digits)
  BY Base
<1>1. CASE k < b
  <2>1. Len(Numeral[k]) = 1
    BY <1>0, <1>1, ShortNumeral
  <2> QED
    BY <2>1
<1>2. CASE ~(k < b)
  <2>0. PICK q \in Nat, d \in 1..b : Cut(k, b, q, d)
    BY <1>0, <1>2, LongNumeral
  <2>1. Len(Numeral[k]) = Len(Numeral[q]) + 1
    BY <2>0 DEF Cut
  <2>2. Len(Numeral[q]) \in Nat
    BY NumeralType
  <2> QED
    BY <2>1, <2>2
<1> QED
  BY <1>1, <1>2

\* Sequences of different last elements are different, and so are those of different rests.
LEMMA SameEnds ==
  ASSUME NEW S, NEW u \in Seq(S), NEW v \in Seq(S), NEW c \in S, NEW d \in S,
         u \o <<c>> = v \o <<d>>
  PROVE  u = v /\ c = d
<1>1. \A q \in Seq(S), e \in S : Append(q, e) = q \o <<e>>
  BY AppendIsConcat
<1>2. Append(u, c) = Append(v, d)
  <2>1. Append(u, c) = u \o <<c>>
    BY <1>1, Zenon
  <2>2. Append(v, d) = v \o <<d>>
    BY <1>1, Zenon
  <2>3. u \o <<c>> = v \o <<d>>
    OBVIOUS
  <2> QED
    BY ONLY <2>1, <2>2, <2>3, Zenon
<1>3. Append(u, c) = Append(v, d) <=> u = v /\ c = d
  BY AppendInjective
<1> QED
  BY ONLY <1>2, <1>3, Zenon

\* No two numbers have the same numeral.
LEMMA NumeralInjective == \A j, k \in Nat : Numeral[j] = Numeral[k] => j = k
<1> DEFINE K == {n \in Nat : \A j \in 0..n : \A k \in Nat : Numeral[j] = Numeral[k] => j = k}
<1>1. ASSUME NEW j \in Nat, NEW k \in Nat, Numeral[j] = Numeral[k],
             \A i \in 0..(j - 1) : \A l \in Nat : Numeral[i] = Numeral[l] => i = l
      PROVE  j = k
  <2>0. PICK b \in Nat : b = Len(Digits)
    BY Base
  <2>1. CASE j < b /\ k < b
    <3>1. j + 1 \in 1..b /\ k + 1 \in 1..b
      BY <2>1
    <3>2. <<Digits[j + 1]>> = <<Digits[k + 1]>>
      BY <1>1, <2>0, <2>1, ShortNumeral
    <3>3. Digits[j + 1] = Digits[k + 1]
      BY <3>2
    <3>4. j + 1 = k + 1
      BY <2>0, <3>1, <3>3, Base
    <3> QED
      BY <3>4
  <2>2. CASE ~(j < b) /\ ~(k < b)
    <3>1. PICK p \in Nat, c \in 1..b : Cut(j, b, p, c)
      BY <2>0, <2>2, LongNumeral
    <3>2. PICK q \in Nat, d \in 1..b : Cut(k, b, q, d)
      BY <2>0, <2>2, LongNumeral
    <3> DEFINE S == DigitSet  u == Numeral[p]  v == Numeral[q]  x == Digits[c]  y == Digits[d]
    <3>3. Digits[c] \in DigitSet /\ Digits[d] \in DigitSet
      BY <2>0, Base
    <3>4. Numeral[p] \in Seq(DigitSet) /\ Numeral[q] \in Seq(DigitSet)
      BY NumeralType
    <3>5. Numeral[p] \o <<Digits[c]>> = Numeral[q] \o <<Digits[d]>>
      BY <1>1, <3>1, <3>2 DEF Cut
    <3>6. Numeral[p] = Numeral[q] /\ Digits[c] = Digits[d]
      <4>1. u \in Seq(S) /\ v \in Seq(S) /\ x \in S /\ y \in S /\ u \o <<x>> = v \o <<y>>
        BY <3>3, <3>4, <3>5
      <4> HIDE DEF S, u, v, x, y
      <4>2. u = v /\ x = y
        BY <4>1, SameEnds
      <4> QED
        BY <4>2 DEF u, v, x, y
    <3>7. p \in 0..(j - 1)
      BY <3>1 DEF Cut
    <3>8. p = q
      BY <1>1, <3>6, <3>7
    <3>9. c = d
      BY <2>0, <3>6, Base
    <3> QED
      BY <3>1, <3>2, <3>8, <3>9 DEF Cut
  <2>3. ASSUME NEW s \in Nat, NEW l \in Nat, s < b, ~(l < b), Numeral[s] = Numeral[l] PROVE FALSE
    <3>0. PICK q \in Nat, d \in 1..b : Cut(l, b, q, d)
      BY <2>0, <2>3, LongNumeral
    <3>1. Len(Numeral[l]) = Len(Numeral[q]) + 1
      BY <3>0 DEF Cut
    <3>2. Len(Numeral[s]) = 1
      BY <2>0, <2>3, ShortNumeral
    <3>3. Len(Numeral[q]) \in Nat /\ Len(Numeral[q]) > 0
      BY NumeralType, NumeralLength
    <3>4. Len(Numeral[s]) = Len(Numeral[l])
      BY <2>3
    <3>5. Len(Numeral[q]) + 1 # 1
      BY ONLY <3>3
    <3> QED
      BY <3>1, <3>2, <3>4, <3>5
  <2> QED
    BY <1>1, <2>1, <2>2, <2>3
<1>2. 0 \in K
  <2>1. \A j \in 0..0 : j = 0 /\ j \in Nat /\ 0..(j - 1) = {}
    OBVIOUS
  <2> QED
    BY <1>1, <2>1
<1>3. ASSUME NEW n \in Nat, n \in K PROVE n + 1 \in K
  <2>1. \A k \in Nat : Numeral[n + 1] = Numeral[k] => n + 1 = k
    <3>1. (n + 1) - 1 = n
      OBVIOUS
    <3> QED
      BY <1>1, <1>3, <3>1
  <2>2. \A j \in 0..(n + 1) : j \in 0..n \/ j = n + 1
    OBVIOUS
  <2> QED
    BY <1>3, <2>1, <2>2
<1> HIDE DEF K
<1>4. Nat \subseteq K
  BY <1>2, <1>3, SetInduction
<1>5. ASSUME NEW j \in Nat, NEW k \in Nat, Numeral[j] = Numeral[k] PROVE j = k
  <2>1. j \in K /\ j \in 0..j
    BY <1>4
  <2> QED
    BY <1>5, <2>1 DEF K
<1> QED
  BY <1>5

\* "E" and digits: no character of an alias is a separator.
LEMMA AliasForm ==
  ASSUME NEW k \in Nat
  PROVE  /\ Alias(k) \in Seq(Letters) /\ Len(Alias(k)) \in Nat /\ Len(Alias(k)) > 1
         /\ Len(Alias(k)) = Len(Numeral[k]) + 1
         /\ Alias(k)[1] = "E"
         /\ \A i \in 2..Len(Alias(k)) : Alias(k)[i] = Numeral[k][i - 1] /\ Alias(k)[i] \in DigitSet
         /\ \A i \in 1..Len(Alias(k)) : Alias(k)[i] \notin Separators
<1> DEFINE n == Numeral[k]
<1>1. n \in Seq(DigitSet) /\ Len(n) \in Nat /\ Len(n) > 0
  BY NumeralType, NumeralLength
<1>2. DigitSet \subseteq Letters
  BY Base DEF Letters
<1>3. n \in Seq(Letters)
  BY <1>1, <1>2, SeqMonotonic
<1>4. \A i \in 1..Len(n) : n[i] \in DigitSet
  BY <1>1, ElementOfSeq
<1>5. <<"E">> \in Seq(Letters) /\ Len(<<"E">>) = 1 /\ <<"E">>[1] = "E"
  BY One DEF Letters
<1>6. Alias(k) = <<"E">> \o n
  BY DEF Alias
<1> HIDE DEF n
<1>7. /\ Alias(k) \in Seq(Letters) /\ Len(Alias(k)) = Len(n) + 1 /\ Alias(k)[1] = "E"
      /\ \A i \in 1..Len(n) : Alias(k)[1 + i] = n[i]
  BY <1>1, <1>3, <1>5, <1>6, Joint
<1>8. ASSUME NEW i \in 2..Len(Alias(k)) PROVE Alias(k)[i] = n[i - 1] /\ Alias(k)[i] \in DigitSet
  <2>1. i - 1 \in 1..Len(n) /\ 1 + (i - 1) = i
    BY <1>1, <1>7
  <2> QED
    BY <1>4, <1>7, <2>1
<1>9. \A i \in 1..Len(Alias(k)) : Alias(k)[i] \notin Separators
  <2>1. "E" \notin Separators /\ \A c \in DigitSet : c \notin Separators
    BY PrivacyAssumption, Base
  <2>2. \A i \in 1..Len(Alias(k)) : i = 1 \/ i \in 2..Len(Alias(k))
    BY <1>1, <1>7
  <2> QED
    BY <1>7, <1>8, <2>1, <2>2
<1> QED
  BY <1>1, <1>7, <1>8, <1>9 DEF n

-----------------------------------------------------------------------------
(***************************************************************************)
(* ReplaceOnce: the rest of a text, from each position on.                 *)
(***************************************************************************)

\* What Occurs and Stands say of the single characters.
At(w, T, i) == i + Len(w) - 1 <= Len(T) /\ \A k \in 1..Len(w) : T[i + k - 1] = w[k]

\* A word at i that ends with the text or before a separator.
Whole(w, T, i) == At(w, T, i) /\ (i + Len(w) = Len(T) + 1 \/ T[i + Len(w)] \in Separators)

\* Occurs, by the single characters; ...
LEMMA OccursAt ==
  ASSUME NEW S, NEW w \in Seq(S), NEW T \in Seq(S), NEW i \in Nat, i > 0, Len(w) > 0
  PROVE  Occurs(w, T, i) <=> At(w, T, i)
<1>1. Len(w) \in Nat /\ Len(T) \in Nat
  BY LenProperties
<1>2. CASE ~(i + Len(w) - 1 <= Len(T))
  <2>1. ~Occurs(w, T, i)
    BY ONLY <1>2, Zenon DEF Occurs
  <2>2. ~At(w, T, i)
    BY ONLY <1>2, Zenon DEF At
  <2> QED
    BY <2>1, <2>2
<1>3. CASE i + Len(w) - 1 <= Len(T)
  <2>1. PICK l \in Int : l = i + Len(w) - 1
    <3>1. i + Len(w) - 1 \in Int
      BY <1>1
    <3> QED
      BY ONLY <3>1
  <2>2. \A k \in i..l : T[k] \in S
    <3>1. \A k \in i..l : k \in 1..Len(T)
      BY <1>1, <1>3, <2>1
    <3> QED
      BY <3>1, ElementOfSeq
  <2>3. /\ SubSeq(T, i, l) \in Seq(S)
        /\ Len(SubSeq(T, i, l)) = IF i <= l THEN l - i + 1 ELSE 0
        /\ \A k \in 1..(l - i + 1) : SubSeq(T, i, l)[k] = T[i + k - 1]
    BY <2>2, SubSeqProperties
  <2>4. l - i + 1 = Len(w) /\ i <= l
    BY <1>1, <2>1
  <2>5. Len(SubSeq(T, i, l)) = Len(w) /\ \A k \in 1..Len(w) : SubSeq(T, i, l)[k] = T[i + k - 1]
    BY <2>3, <2>4
  <2>6. ASSUME At(w, T, i) PROVE SubSeq(T, i, l) = w
    <3>1. \A k \in 1..Len(SubSeq(T, i, l)) : SubSeq(T, i, l)[k] = w[k]
      BY <2>5, <2>6 DEF At
    <3> QED
      BY <2>3, <2>5, <3>1, SeqEqual
  <2>7. ASSUME SubSeq(T, i, l) = w PROVE At(w, T, i)
    BY <1>3, <2>5, <2>7 DEF At
  <2> QED
    BY <1>3, <2>1, <2>6, <2>7 DEF Occurs
<1> QED
  BY <1>2, <1>3

\* ... Stands, with what is around them.
LEMMA StandsAt ==
  ASSUME NEW S, NEW w \in Seq(S), NEW T \in Seq(S), NEW i \in Nat, i > 0, Len(w) > 0
  PROVE  Stands(w, T, i) <=> Whole(w, T, i) /\ (i = 1 \/ T[i - 1] \in Separators)
<1>1. Occurs(w, T, i) <=> At(w, T, i)
  BY OccursAt
<1> QED
  BY <1>1 DEF Stands, Whole

\* A word to be replaced: it has no "E", and does not begin with a digit.
Word(w) == w \in Seq(Characters) /\ Len(w) \in Nat /\ Len(w) > 0 /\ ~IsDigit(w[1])

\* No character of a word is the "E".
LEMMA WordForm ==
  ASSUME NEW w, Word(w)
  PROVE  w \in Seq(Letters) /\ \A k \in 1..Len(w) : w[k] # "E"
<1>1. w \in Seq(Letters)
  BY SeqMonotonic DEF Word, Letters
<1>2. ASSUME NEW k \in 1..Len(w) PROVE w[k] # "E"
  <2>1. w[k] \in Characters
    BY ElementOfSeq DEF Word
  <2> QED
    BY <2>1, NicksAssumption
<1> QED
  BY <1>1, <1>2

\* Every nick is such a word.
LEMMA NickIsWord == \A n \in Nicks : Word(n)
<1> SUFFICES ASSUME NEW n \in Nicks PROVE Word(n)
  OBVIOUS
<1>1. n \in Seq(Characters) /\ n # <<>>
  BY PrivacyAssumption
<1>2. Len(n) \in Nat \ {0}
  BY <1>1, EmptySeq
<1>3. ~IsDigit(n[1])
  BY NicksAssumption
<1> QED
  BY <1>1, <1>2, <1>3 DEF Word

\* What a match at i is.
LEMMA MatchForm ==
  ASSUME NEW w, Word(w), NEW T \in Seq(Letters), NEW i \in 1..Len(T), Match(w, T, i) # 0
  PROVE  LET m == Match(w, T, i) IN
           /\ m \in Nat /\ m \in 1..Len(T) /\ Stands(w, T, m) /\ m + Len(w) <= Len(T) + 1
           /\ (m = i /\ i = 1) \/ (m = i + 1 /\ T[i] \in Separators)
           /\ i = 1 /\ Stands(w, T, 1) => m = 1
<1> DEFINE m == Match(w, T, i)
<1>1. Len(T) \in Nat /\ i \in Nat /\ i > 0 /\ Len(w) \in Nat /\ Len(w) > 0
  BY LenProperties DEF Word
<1>2. /\ (m = i /\ i = 1) \/ (m = i + 1 /\ T[i] \in Separators)
      /\ i = 1 /\ Stands(w, T, 1) => m = 1
      /\ Stands(w, T, m)
  BY <1>1 DEF Match
<1>3. m \in Nat /\ m > 0
  BY <1>1, <1>2
<1>4. m + Len(w) - 1 <= Len(T)
  BY <1>2 DEF Stands, Occurs
<1> HIDE DEF m
<1>5. m \in 1..Len(T) /\ m + Len(w) <= Len(T) + 1
  BY <1>1, <1>3, <1>4
<1> QED
  BY <1>2, <1>3, <1>5 DEF m

\* Where there is no match, nothing begins that stands.
LEMMA NoMatch ==
  ASSUME NEW w, NEW T, NEW i \in Nat, i > 0, Match(w, T, i) = 0
  PROVE  ~(i = 1 /\ Stands(w, T, 1)) /\ ~(T[i] \in Separators /\ Stands(w, T, i + 1))
BY DEF Match

\* The rest of the text from i on, with the word replaced.
ReplaceStep(T, w, a, i, rest) ==
  IF i > Len(T) THEN <<>>
  ELSE IF Match(w, T, i) = 0 THEN <<T[i]>> \o rest[i + 1]
  ELSE LET next == Match(w, T, i) + Len(w) IN
         SubSeq(T, i, Match(w, T, i) - 1) \o a
           \o (IF next <= Len(T) THEN <<T[next]>> \o rest[next + 1] ELSE <<>>)

\* rest is what follows from each position on.
Replaces(T, w, a, rest) ==
  /\ rest \in [1..(Len(T) + 1) -> Seq(Letters)]
  /\ \A i \in 1..(Len(T) + 1) : rest[i] = ReplaceStep(T, w, a, i, rest)

\* The rest is text, ...
LEMMA ReplaceStepType ==
  ASSUME NEW T \in Seq(Letters), NEW w, Word(w), NEW a \in Seq(Letters),
         NEW i \in 1..(Len(T) + 1), NEW rest \in [1..(Len(T) + 1) -> Seq(Letters)]
  PROVE  ReplaceStep(T, w, a, i, rest) \in Seq(Letters)
<1>0. Len(T) \in Nat /\ i \in Nat /\ i > 0 /\ Len(w) \in Nat /\ Len(w) > 0
  BY LenProperties DEF Word
<1>1. CASE i > Len(T)
  BY <1>1, EmptySeq DEF ReplaceStep
<1>2. CASE ~(i > Len(T)) /\ Match(w, T, i) = 0
  <2>1. T[i] \in Letters /\ i + 1 \in 1..(Len(T) + 1)
    BY <1>0, <1>2, ElementOfSeq
  <2>2. <<T[i]>> \in Seq(Letters) /\ rest[i + 1] \in Seq(Letters)
    BY <2>1, One
  <2>3. ReplaceStep(T, w, a, i, rest) = <<T[i]>> \o rest[i + 1]
    BY <1>2 DEF ReplaceStep
  <2> QED
    BY <2>2, <2>3, Joint
<1>3. CASE ~(i > Len(T)) /\ Match(w, T, i) # 0
  <2>1. i \in 1..Len(T)
    BY <1>0, <1>3
  <2>2. PICK m \in Nat : m = Match(w, T, i) /\ m \in 1..Len(T) /\ m + Len(w) <= Len(T) + 1
    BY <1>3, <2>1, MatchForm
  <2>3. SubSeq(T, i, m - 1) \in Seq(Letters)
    <3>1. m - 1 \in Int /\ i \in Int
      BY <1>0
    <3>2. \A k \in i..(m - 1) : k \in 1..Len(T)
      BY <1>0, <2>2
    <3>3. \A k \in i..(m - 1) : T[k] \in Letters
      BY <3>2, ElementOfSeq
    <3> QED
      BY <3>1, <3>3, SubSeqProperties
  <2>4. PICK n \in Nat : n = m + Len(w) /\ n > 0
    BY <1>0, <2>2
  <2> DEFINE tail == IF n <= Len(T) THEN <<T[n]>> \o rest[n + 1] ELSE <<>>
  <2>5. tail \in Seq(Letters)
    <3>1. CASE n <= Len(T)
      <4>1. T[n] \in Letters /\ n + 1 \in 1..(Len(T) + 1)
        BY <1>0, <2>4, <3>1, ElementOfSeq
      <4>2. <<T[n]>> \in Seq(Letters) /\ rest[n + 1] \in Seq(Letters)
        BY <4>1, One
      <4> QED
        BY <3>1, <4>2, Joint
    <3>2. CASE ~(n <= Len(T))
      BY <3>2, EmptySeq
    <3> QED
      BY <3>1, <3>2
  <2>6. ReplaceStep(T, w, a, i, rest) = SubSeq(T, i, m - 1) \o a \o tail
    BY <1>3, <2>2, <2>4 DEF ReplaceStep
  <2> HIDE DEF tail
  <2>7. SubSeq(T, i, m - 1) \o a \in Seq(Letters)
    BY <2>3, Joint
  <2> QED
    BY <2>5, <2>6, <2>7, Joint
<1> QED
  BY <1>1, <1>2, <1>3

\* ... and depends on what is further behind only: ...
LEMMA ReplaceStepBelow ==
  ASSUME NEW T \in Seq(Letters), NEW w, Word(w), NEW a,
         NEW i \in 1..(Len(T) + 1), NEW f, NEW g,
         \A j \in 1..(Len(T) + 1) : j > i => f[j] = g[j]
  PROVE  ReplaceStep(T, w, a, i, f) = ReplaceStep(T, w, a, i, g)
<1>0. Len(T) \in Nat /\ i \in Nat /\ i > 0 /\ Len(w) \in Nat /\ Len(w) > 0
  BY LenProperties DEF Word
<1>1. CASE i > Len(T)
  BY <1>1 DEF ReplaceStep
<1>2. CASE ~(i > Len(T)) /\ Match(w, T, i) = 0
  <2>1. i + 1 \in 1..(Len(T) + 1) /\ i + 1 > i
    BY <1>0, <1>2
  <2>2. f[i + 1] = g[i + 1]
    BY <2>1
  <2> QED
    BY <1>2, <2>2 DEF ReplaceStep
<1>3. CASE ~(i > Len(T)) /\ Match(w, T, i) # 0
  <2>1. i \in 1..Len(T)
    BY <1>0, <1>3
  <2>2. PICK m \in Nat : m = Match(w, T, i) /\ m \in 1..Len(T) /\ (m = i \/ m = i + 1)
    BY <1>3, <2>1, MatchForm
  <2>3. PICK n \in Nat : n = m + Len(w)
    BY <1>0
  <2>4. n <= Len(T) => f[n + 1] = g[n + 1]
    <3> SUFFICES ASSUME n <= Len(T) PROVE f[n + 1] = g[n + 1]
      OBVIOUS
    <3>1. n + 1 \in 1..(Len(T) + 1) /\ n + 1 > i
      BY <1>0, <2>2, <2>3
    <3> QED
      BY <3>1
  <2> QED
    BY <1>3, <2>2, <2>3, <2>4 DEF ReplaceStep
<1> QED
  BY <1>1, <1>2, <1>3

\* ... ReplaceOnce is what its definition says.
LEMMA ReplaceForm ==
  ASSUME NEW T \in Seq(Letters), NEW w, Word(w), NEW a \in Seq(Letters)
  PROVE  \E rest : Replaces(T, w, a, rest) /\ ReplaceOnce(T, w, a) = rest[1]
<1> DEFINE n == Len(T) + 1
           D == 1..n
           S == Seq(Letters)
           m == [i \in D |-> n - i]
           F == [i \in D |-> [f \in [D -> S] |-> ReplaceStep(T, w, a, i, f)]]
           rest == CHOOSE f : f = [i \in D |-> ReplaceStep(T, w, a, i, f)]
<1>0. n \in Nat
  BY LenProperties
<1>1. ASSUME NEW i \in D, NEW f \in [D -> S] PROVE ReplaceStep(T, w, a, i, f) \in S
  BY ReplaceStepType
<1>2. ASSUME NEW i \in D, NEW f, NEW g, \A j \in D : m[j] < m[i] => f[j] = g[j]
      PROVE  ReplaceStep(T, w, a, i, f) = ReplaceStep(T, w, a, i, g)
  <2>1. \A j \in D : j > i => f[j] = g[j]
    <3> HIDE DEF n
    <3> QED
      BY <1>0, <1>2
  <2> QED
    BY <2>1, ReplaceStepBelow
<1>3. m \in [D -> Nat]
  <2> HIDE DEF n
  <2> QED
    BY <1>0
<1>4. GivenFromBelow(D, S, m, F)
  <2>1. F \in [D -> [[D -> S] -> S]]
    <3> HIDE DEF D, S
    <3> QED
      BY <1>1
  <2>2. ASSUME NEW i \in D, NEW f \in [D -> S], NEW g \in [D -> S],
               \A j \in D : m[j] < m[i] => f[j] = g[j]
        PROVE  F[i][f] = F[i][g]
    <3>1. ReplaceStep(T, w, a, i, f) = ReplaceStep(T, w, a, i, g)
      BY <1>2, <2>2
    <3> HIDE DEF D, S, m
    <3> QED
      BY <3>1
  <2> HIDE DEF m, F, S, D
  <2> QED
    BY <1>3, <2>1, <2>2 DEF GivenFromBelow
<1>5. S # {}
  BY EmptySeq
<1>6. PICK f \in [D -> S] : \A i \in D : f[i] = F[i][f]
  <2> HIDE DEF m, F, S, D
  <2> QED
    BY <1>4, <1>5, Recursion
<1>7. f = [i \in D |-> ReplaceStep(T, w, a, i, f)]
  <2> HIDE DEF D, S
  <2> QED
    BY <1>6
<1>8. rest = [i \in D |-> ReplaceStep(T, w, a, i, rest)]
  BY <1>7
<1>9. ReplaceOnce(T, w, a) = rest[1]
  BY DEF ReplaceOnce, ReplaceStep
<1> HIDE DEF rest
<1>10. \A i \in D : rest[i] = ReplaceStep(T, w, a, i, rest) /\ f[i] = ReplaceStep(T, w, a, i, f)
  <2> HIDE DEF m, F, S, D
  <2> QED
    BY <1>7, <1>8
<1>11. \A i \in D : rest[i] = f[i]
  <2>1. \A i \in D : (\A j \in D : m[j] < m[i] => rest[j] = f[j]) => rest[i] = f[i]
    BY <1>2, <1>10
  <2> HIDE DEF m, F, S, D
  <2>2. SameFromBelow(D, m, rest, f)
    BY <1>3, <2>1 DEF SameFromBelow
  <2> QED
    BY <2>2, NoOther
<1>12. rest \in [D -> S]
  <2> HIDE DEF m, F, S, D
  <2> QED
    BY <1>8, <1>11
<1>13. Replaces(T, w, a, rest)
  BY <1>10, <1>12 DEF Replaces
<1> QED
  BY <1>9, <1>13

-----------------------------------------------------------------------------
(***************************************************************************)
(* What one pass leaves, by induction from the end of the text.            *)
(***************************************************************************)

\* Induction from the end of a text to its start.
LEMMA Downward ==
  ASSUME NEW n \in Nat, NEW P, \A i \in 1..n : (\A j \in 1..n : j > i => j \in P) => i \in P
  PROVE  \A i \in 1..n : i \in P
<1> DEFINE K == {k \in Nat : \A i \in 1..n : n - i < k => i \in P}
<1>1. 0 \in K
  OBVIOUS
<1>2. ASSUME NEW k \in Nat, k \in K PROVE k + 1 \in K
  <2> SUFFICES ASSUME NEW i \in 1..n, n - i < k + 1 PROVE i \in P
    OBVIOUS
  <2>1. \A j \in 1..n : j > i => n - j < k
    OBVIOUS
  <2>2. \A j \in 1..n : j > i => j \in P
    BY <1>2, <2>1
  <2> QED
    BY <2>2
<1> HIDE DEF K
<1>3. n \in K
  BY <1>1, <1>2, SetInduction
<1>4. \A i \in 1..n : n - i < n
  OBVIOUS
<1> QED
  BY <1>3, <1>4 DEF K

\* k characters at j of X without an "E", and behind them a separator or the end ...
Clear(X, j, k) ==
  /\ j + k <= Len(X) + 1
  /\ \A q \in 1..k : X[j + q - 1] # "E"
  /\ j + k = Len(X) + 1 \/ X[j + k] \in Separators

\* ... are, with what is behind them, those at p of T.
Same(X, j, T, p, k) ==
  /\ p + k <= Len(T) + 1
  /\ \A q \in 1..k : T[p + q - 1] = X[j + q - 1]
  /\ j + k = Len(X) + 1 => p + k = Len(T) + 1
  /\ j + k <= Len(X) => p + k <= Len(T) /\ T[p + k] = X[j + k]

\* X is Y behind d other characters.
Behind(X, d, Y) == Len(X) = d + Len(Y) /\ \A q \in 1..Len(Y) : X[d + q] = Y[q]

\* The clear characters of what is behind, ...
LEMMA Shift ==
  ASSUME NEW X \in Seq(Letters), NEW Y \in Seq(Letters), NEW d \in Nat, Behind(X, d, Y),
         NEW j \in Nat, j > 0, NEW k \in Nat
  PROVE  /\ Clear(X, d + j, k) <=> Clear(Y, j, k)
         /\ \A T \in Seq(Letters) : \A p \in Nat : Clear(Y, j, k) /\ Same(Y, j, T, p, k) => Same(X, d + j, T, p, k)
<1>0. Len(X) \in Nat /\ Len(Y) \in Nat /\ Len(X) = d + Len(Y)
  BY LenProperties DEF Behind
<1>1. d + j + k <= Len(X) + 1 <=> j + k <= Len(Y) + 1
  BY <1>0
<1>2. d + j + k = Len(X) + 1 <=> j + k = Len(Y) + 1
  BY <1>0
<1>3. j + k <= Len(Y) => X[d + j + k] = Y[j + k]
  <2> SUFFICES ASSUME j + k <= Len(Y) PROVE X[d + j + k] = Y[j + k]
    OBVIOUS
  <2>1. j + k \in 1..Len(Y) /\ d + j + k = d + (j + k)
    BY <1>0
  <2> QED
    BY <2>1 DEF Behind
<1>4. j + k <= Len(Y) + 1 => \A q \in 1..k : X[d + j + q - 1] = Y[j + q - 1]
  <2> SUFFICES ASSUME j + k <= Len(Y) + 1, NEW q \in 1..k PROVE X[d + j + q - 1] = Y[j + q - 1]
    OBVIOUS
  <2>1. j + q - 1 \in 1..Len(Y) /\ d + j + q - 1 = d + (j + q - 1)
    BY <1>0
  <2> QED
    BY <2>1 DEF Behind
<1>5. Clear(X, d + j, k) <=> Clear(Y, j, k)
  <2>1. j + k <= Len(Y) + 1 => j + k = Len(Y) + 1 \/ j + k <= Len(Y)
    BY <1>0
  <2> QED
    BY <1>1, <1>2, <1>3, <1>4, <2>1 DEF Clear
<1>6. ASSUME NEW T \in Seq(Letters), NEW p \in Nat, Clear(Y, j, k), Same(Y, j, T, p, k)
      PROVE  Same(X, d + j, T, p, k)
  <2>1. d + j + k <= Len(X) <=> j + k <= Len(Y)
    BY <1>0
  <2>2. j + k <= Len(Y) + 1
    BY <1>6 DEF Clear
  <2> QED
    BY <1>2, <1>3, <1>4, <1>6, <2>1, <2>2 DEF Same
<1> QED
  BY <1>5, <1>6

\* ... from the first one on.
LEMMA ShiftByOne ==
  ASSUME NEW X \in Seq(Letters), NEW Y \in Seq(Letters), Behind(X, 1, Y), NEW k \in Nat,
         NEW T \in Seq(Letters), NEW p \in Nat, Clear(Y, 1, k), Same(Y, 1, T, p, k)
  PROVE  Same(X, 1 + 1, T, p, k)
<1>1. PICK d \in Nat : d = 1
  OBVIOUS
<1>2. Behind(X, d, Y) /\ d > 0 /\ Clear(Y, d, k) /\ Same(Y, d, T, p, k)
  BY <1>1
<1>3. Same(X, d + d, T, p, k)
  <2>1. d \in Nat
    OBVIOUS
  <2> QED
    BY ONLY <1>2, <2>1, Shift, X \in Seq(Letters), Y \in Seq(Letters), k \in Nat, T \in Seq(Letters), p \in Nat
<1> QED
  BY <1>1, <1>3

\* ... and those they are the same as.
LEMMA Carried ==
  ASSUME NEW w, Word(w), NEW X \in Seq(Letters), NEW j \in Nat, j > 0, Whole(w, X, j)
  PROVE  /\ Clear(X, j, Len(w))
         /\ \A T \in Seq(Letters) : \A p \in Nat : Same(X, j, T, p, Len(w)) => Whole(w, T, p)
<1>0. Len(X) \in Nat /\ Len(w) \in Nat /\ Len(w) > 0
  BY LenProperties DEF Word
<1>1. \A k \in 1..Len(w) : w[k] # "E"
  BY WordForm
<1>2. j + Len(w) <= Len(X) + 1
  BY <1>0 DEF Whole, At
<1>3. Clear(X, j, Len(w))
  BY <1>1, <1>2 DEF Whole, At, Clear
<1>4. ASSUME NEW T \in Seq(Letters), NEW p \in Nat, Same(X, j, T, p, Len(w))
      PROVE  Whole(w, T, p)
  <2>1. p + Len(w) - 1 <= Len(T)
    <3>1. Len(T) \in Nat /\ p + Len(w) <= Len(T) + 1
      BY <1>4, LenProperties DEF Same
    <3> QED
      BY <1>0, <3>1
  <2>2. \A k \in 1..Len(w) : T[p + k - 1] = w[k]
    BY <1>4 DEF Same, Whole, At
  <2>3. p + Len(w) = Len(T) + 1 \/ T[p + Len(w)] \in Separators
    <3>1. j + Len(w) = Len(X) + 1 \/ (j + Len(w) <= Len(X) /\ X[j + Len(w)] \in Separators)
      BY <1>0, <1>2 DEF Whole
    <3> QED
      BY <1>4, <3>1 DEF Same
  <2> QED
    BY <2>1, <2>2, <2>3 DEF Whole, At
<1> QED
  BY <1>3, <1>4

\* The rest of the text: at its end, ...
AtEnd(T, rest, i) == i = Len(T) + 1 /\ Len(rest[i]) = 0

\* ... where its first character stays, ...
Stays(T, w, rest, i) ==
  /\ i \in 1..Len(T) /\ Match(w, T, i) = 0
  /\ Behind(rest[i], 1, rest[i + 1]) /\ rest[i][1] = T[i]

\* ... and where the word goes that stands at m, with s characters before the alias.
Goes(T, w, a, rest, i, m, s) ==
  /\ i \in 1..Len(T) /\ m = i + s /\ Stands(w, T, m)
  /\ (s = 0 /\ i = 1) \/ (s = 1 /\ T[i] \in Separators /\ rest[i][1] = T[i])
  /\ i = 1 /\ Stands(w, T, 1) => m = 1
  /\ \A q \in 1..Len(a) : rest[i][s + q] = a[q]
  /\ \/ m + Len(w) = Len(T) + 1 /\ Len(rest[i]) = s + Len(a)
     \/ /\ m + Len(w) \in 1..Len(T)
        /\ rest[i][s + Len(a) + 1] = T[m + Len(w)]
        /\ Behind(rest[i], s + Len(a) + 1, rest[m + Len(w) + 1])

\* A sum, with the one that moves into it.
LEMMA OneMore == \A s, x, y, z \in Nat : z = 1 + y => s + x + z = s + x + 1 + y
  OBVIOUS

\* A match leaves what is before it, the alias, and what follows.
LEMMA GoesForm ==
  ASSUME NEW T \in Seq(Letters), NEW w, Word(w), NEW a \in Seq(Letters), NEW rest,
         Replaces(T, w, a, rest), NEW i \in 1..Len(T), Match(w, T, i) # 0
  PROVE  \E m \in Nat, s \in {0, 1} : Goes(T, w, a, rest, i, m, s)
<1>0. Len(T) \in Nat /\ i \in Nat /\ i > 0 /\ Len(w) \in Nat /\ Len(w) > 0 /\ Len(a) \in Nat
  BY LenProperties DEF Word
<1>1. PICK m \in Nat :
         /\ m = Match(w, T, i) /\ m \in 1..Len(T) /\ Stands(w, T, m) /\ m + Len(w) <= Len(T) + 1
         /\ (m = i /\ i = 1) \/ (m = i + 1 /\ T[i] \in Separators)
         /\ i = 1 /\ Stands(w, T, 1) => m = 1
  BY MatchForm
<1>2. PICK s \in {0, 1} : s \in Nat /\ m = i + s /\ ((s = 0 /\ i = 1) \/ (s = 1 /\ T[i] \in Separators))
  BY <1>0, <1>1
<1> DEFINE u == SubSeq(T, i, m - 1)
           n == m + Len(w)
           tail == IF n <= Len(T) THEN <<T[n]>> \o rest[n + 1] ELSE <<>>
<1>3. u \in Seq(Letters) /\ Len(u) = s /\ (s = 1 => u[1] = T[i])
  <2>1. m - 1 \in Int /\ i \in Int
    BY <1>0
  <2>2. \A k \in i..(m - 1) : k \in 1..Len(T)
    BY <1>0, <1>1
  <2>3. \A k \in i..(m - 1) : T[k] \in Letters
    BY <2>2, ElementOfSeq
  <2>4. /\ u \in Seq(Letters) /\ Len(u) = IF i <= m - 1 THEN (m - 1) - i + 1 ELSE 0
        /\ \A k \in 1..((m - 1) - i + 1) : u[k] = T[i + k - 1]
    BY <2>1, <2>3, SubSeqProperties
  <2> HIDE DEF u
  <2> QED
    BY <1>0, <1>2, <2>4
<1>4. rest[i] = (u \o a) \o tail
  <2>1. i \in 1..(Len(T) + 1) /\ ~(i > Len(T))
    BY <1>0
  <2> QED
    BY <1>1, <2>1 DEF Replaces, ReplaceStep
<1> HIDE DEF u
<1>5. /\ u \o a \in Seq(Letters) /\ Len(u \o a) = s + Len(a)
      /\ \A q \in 1..s : (u \o a)[q] = u[q]
      /\ \A q \in 1..Len(a) : (u \o a)[s + q] = a[q]
  BY <1>3, Joint
<1>6. n \in Nat /\ n > 0
  BY <1>0
<1>7. CASE n <= Len(T)
  <2>1. T[n] \in Letters /\ n + 1 \in 1..(Len(T) + 1) /\ n \in 1..Len(T)
    BY <1>0, <1>6, <1>7, ElementOfSeq
  <2>2. <<T[n]>> \in Seq(Letters) /\ Len(<<T[n]>>) = 1 /\ <<T[n]>>[1] = T[n]
    BY <2>1, One
  <2>3. rest[n + 1] \in Seq(Letters)
    BY <2>1 DEF Replaces
  <2>4. tail = <<T[n]>> \o rest[n + 1]
    BY <1>7
  <2> HIDE DEF tail, n
  <2>5. /\ tail \in Seq(Letters) /\ Len(tail) = 1 + Len(rest[n + 1]) /\ tail[1] = T[n]
        /\ \A q \in 1..Len(rest[n + 1]) : tail[1 + q] = rest[n + 1][q]
    BY <2>2, <2>3, <2>4, Joint
  <2> DEFINE v == u \o a
  <2> HIDE DEF v
  <2>6. /\ Len(rest[i]) = s + Len(a) + Len(tail)
        /\ \A q \in 1..(s + Len(a)) : rest[i][q] = (u \o a)[q]
        /\ \A q \in 1..Len(tail) : rest[i][s + Len(a) + q] = tail[q]
    <3>1. v \in Seq(Letters) /\ Len(v) = s + Len(a) /\ rest[i] = v \o tail
      BY <1>4, <1>5 DEF v
    <3>2. v \in Seq(Letters) /\ tail \in Seq(Letters)
      BY ONLY <2>5, <3>1
    <3>3. /\ Len(v \o tail) = Len(v) + Len(tail)
          /\ \A q \in 1..Len(v) : (v \o tail)[q] = v[q]
          /\ \A q \in 1..Len(tail) : (v \o tail)[Len(v) + q] = tail[q]
      BY <3>2, Joint
    <3> QED
      BY <3>1, <3>3 DEF v
  <2>7. Len(rest[n + 1]) \in Nat
    BY <2>3, LenProperties
  <2>8. /\ s = 1 => rest[i][1] = T[i]
        /\ \A q \in 1..Len(a) : rest[i][s + q] = a[q]
    <3>1. \A q \in 1..Len(a) : s + q \in 1..(s + Len(a))
      BY <1>0
    <3>2. s = 1 => 1 \in 1..(s + Len(a)) /\ 1 \in 1..s
      BY <1>0
    <3> QED
      BY <1>3, <1>5, <2>6, <3>1, <3>2
  <2>9. rest[i][s + Len(a) + 1] = T[n]
    <3>1. 1 \in 1..Len(tail)
      BY <2>5, <2>7
    <3> QED
      BY <2>5, <2>6, <3>1
  <2>10. Behind(rest[i], s + Len(a) + 1, rest[n + 1])
    <3>1. Len(rest[i]) = s + Len(a) + 1 + Len(rest[n + 1])
      <4>1. PICK x \in Nat, y \in Nat, z \in Nat :
               x = Len(a) /\ y = Len(rest[n + 1]) /\ z = Len(tail) /\ z = 1 + y
        BY <1>0, <2>5, <2>7
      <4>2. s + x + z = s + x + 1 + y
        <5>1. s \in Nat
          BY <1>2
        <5>2. z = 1 + y
          BY <4>1
        <5> QED
          BY <5>1, <5>2, OneMore
      <4> QED
        BY <2>6, <4>1, <4>2
    <3>2. ASSUME NEW q \in 1..Len(rest[n + 1]) PROVE rest[i][s + Len(a) + 1 + q] = rest[n + 1][q]
      <4>1. 1 + q \in 1..Len(tail) /\ s + Len(a) + 1 + q = s + Len(a) + (1 + q)
        BY <1>0, <2>5, <2>7
      <4> QED
        BY <2>5, <2>6, <4>1
    <3> QED
      BY <3>1, <3>2 DEF Behind
  <2>11. Goes(T, w, a, rest, i, m, s)
    BY <1>1, <1>2, <2>1, <2>8, <2>9, <2>10 DEF Goes, n
  <2> QED
    BY <2>11
<1>8. CASE ~(n <= Len(T))
  <2>1. n = Len(T) + 1
    BY <1>0, <1>1, <1>8
  <2>2. tail = <<>>
    BY <1>8
  <2> HIDE DEF tail, n
  <2>3. rest[i] = u \o a
    BY <1>4, <1>5, <2>2, ConcatEmptySeq
  <2>4. /\ s = 1 => rest[i][1] = T[i]
        /\ \A q \in 1..Len(a) : rest[i][s + q] = a[q]
        /\ Len(rest[i]) = s + Len(a)
    <3>1. s = 1 => rest[i][1] = T[i]
      BY <1>3, <1>5, <2>3
    <3>2. Len(rest[i]) = s + Len(a) /\ \A q \in 1..Len(a) : rest[i][s + q] = a[q]
      BY <1>5, <2>3
    <3> QED
      BY ONLY <3>1, <3>2
  <2>5. m + Len(w) = Len(T) + 1
    BY <2>1 DEF n
  <2>6. i \in 1..Len(T) /\ m = i + s /\ Stands(w, T, m) /\ (i = 1 /\ Stands(w, T, 1) => m = 1)
    BY <1>1, <1>2
  <2>7. (s = 0 /\ i = 1) \/ (s = 1 /\ T[i] \in Separators /\ rest[i][1] = T[i])
    BY <1>2, <2>4
  <2> QED
    BY <2>4, <2>5, <2>6, <2>7 DEF Goes
<1> QED
  BY <1>7, <1>8

\* Each position is of one of the three kinds.
LEMMA RestForm ==
  ASSUME NEW T \in Seq(Letters), NEW w, Word(w), NEW a \in Seq(Letters), NEW rest,
         Replaces(T, w, a, rest), NEW i \in 1..(Len(T) + 1)
  PROVE  \/ AtEnd(T, rest, i)
         \/ Stays(T, w, rest, i)
         \/ \E m \in Nat, s \in {0, 1} : Goes(T, w, a, rest, i, m, s)
<1>0. Len(T) \in Nat
  BY LenProperties
<1>1. rest[i] = ReplaceStep(T, w, a, i, rest)
  BY DEF Replaces
<1>2. CASE i = Len(T) + 1
  <2>1. rest[i] = <<>>
    BY <1>0, <1>1, <1>2 DEF ReplaceStep
  <2> QED
    BY <1>2, <2>1, EmptySeq DEF AtEnd
<1>3. CASE i # Len(T) + 1 /\ Match(w, T, i) = 0
  <2>1. i \in 1..Len(T) /\ ~(i > Len(T)) /\ i + 1 \in 1..(Len(T) + 1)
    BY <1>0, <1>3
  <2>2. <<T[i]>> \in Seq(Letters) /\ Len(<<T[i]>>) = 1 /\ <<T[i]>>[1] = T[i]
    <3>1. T[i] \in Letters
      BY <2>1, ElementOfSeq
    <3> QED
      BY <3>1, One
  <2>3. rest[i + 1] \in Seq(Letters)
    BY <2>1 DEF Replaces
  <2>4. rest[i] = <<T[i]>> \o rest[i + 1]
    BY <1>1, <1>3, <2>1 DEF ReplaceStep
  <2> DEFINE x == <<T[i]>>
  <2> HIDE DEF x
  <2>5. Behind(rest[i], 1, rest[i + 1]) /\ rest[i][1] = T[i]
    <3>1. /\ Len(rest[i]) = Len(x) + Len(rest[i + 1])
          /\ \A q \in 1..Len(x) : rest[i][q] = x[q]
          /\ \A q \in 1..Len(rest[i + 1]) : rest[i][Len(x) + q] = rest[i + 1][q]
      BY <2>2, <2>3, <2>4, Joint DEF x
    <3>2. Len(x) = 1 /\ x[1] = T[i] /\ 1 \in 1..1
      BY <2>2 DEF x
    <3> QED
      BY <3>1, <3>2 DEF Behind
  <2> QED
    BY <1>3, <2>1, <2>5 DEF Stays
<1>4. CASE i # Len(T) + 1 /\ Match(w, T, i) # 0
  <2>1. i \in 1..Len(T)
    BY <1>0, <1>4
  <2> QED
    BY <1>4, <2>1, GoesForm
<1> QED
  BY <1>2, <1>3, <1>4

\* No character of an alias is a separator, and the first is the "E".
Pseudonym(a) ==
  /\ a \in Seq(Letters) /\ Len(a) \in Nat /\ Len(a) > 1 /\ a[1] = "E"
  /\ \A q \in 1..Len(a) : a[q] \notin Separators

\* The characters at the start of the rest are those at i.
StartsAlike(T, rest, i) == \A k \in Nat : Clear(rest[i], 1, k) => Same(rest[i], 1, T, i, k)

\* Those behind a separator were behind one.
Comes(T, rest, i) ==
  \A j, k \in Nat : j > 1 /\ Clear(rest[i], j, k) /\ rest[i][j - 1] \in Separators =>
    \E p \in Nat : p > i /\ T[p - 1] \in Separators /\ Same(rest[i], j, T, p, k)

\* A word that still stands behind a separator has an alias before it, where it stood too.
Remains(T, w, a, rest, i) ==
  \A j \in Nat : j > 1 /\ Whole(w, rest[i], j) /\ rest[i][j - 1] \in Separators =>
    \E o \in Nat : /\ o > 0 /\ Stands(w, T, o) /\ Stands(w, T, o + Len(w) + 1)
                   /\ j - 1 - Len(a) > 0 /\ At(a, rest[i], j - 1 - Len(a))

\* Clear characters without the first.
LEMMA ClearFurther ==
  ASSUME NEW X, Len(X) \in Nat, NEW j \in Nat, NEW k \in Nat, k > 0, Clear(X, j, k)
  PROVE  Clear(X, j + 1, k - 1)
<1>1. \A q \in 1..(k - 1) : q + 1 \in 1..k /\ (j + 1) + q - 1 = j + (q + 1) - 1
  OBVIOUS
<1>2. (j + 1) + (k - 1) = j + k
  OBVIOUS
<1>3. \A q \in 1..(k - 1) : X[(j + 1) + q - 1] # "E"
  BY <1>1 DEF Clear
<1> QED
  BY <1>2, <1>3 DEF Clear

\* The same characters, with one before them.
LEMMA SameFromOneBefore ==
  ASSUME NEW X, NEW T, Len(X) \in Nat, Len(T) \in Nat, NEW j \in Nat, NEW p \in Nat,
         NEW k \in Nat, k > 0,
         X[j] = T[p], Same(X, j + 1, T, p + 1, k - 1)
  PROVE  Same(X, j, T, p, k)
<1>1. \A q \in 1..k : q = 1 \/ (q - 1 \in 1..(k - 1) /\ (j + 1) + (q - 1) - 1 = j + q - 1
                                /\ (p + 1) + (q - 1) - 1 = p + q - 1)
  OBVIOUS
<1>2. (j + 1) + (k - 1) = j + k /\ (p + 1) + (k - 1) = p + k /\ j + 1 - 1 = j /\ p + 1 - 1 = p
  OBVIOUS
<1>3. \A q \in 1..k : T[p + q - 1] = X[j + q - 1]
  BY <1>1, <1>2 DEF Same
<1> QED
  BY <1>2, <1>3 DEF Same

\* What is clear behind a separator is behind the alias, and behind the character that follows.
LEMMA Beyond ==
  ASSUME NEW T \in Seq(Letters), NEW w, Word(w), NEW a, Pseudonym(a), NEW rest, NEW i \in Nat,
         Replaces(T, w, a, rest), i \in 1..(Len(T) + 1), NEW m \in Nat, NEW s \in {0, 1}, Goes(T, w, a, rest, i, m, s),
         NEW j \in Nat, NEW k \in Nat, j > 1, Clear(rest[i], j, k), rest[i][j - 1] \in Separators
  PROVE  /\ m + Len(w) \in 1..Len(T) /\ j - 1 >= s + Len(a) + 1
         /\ rest[i][s + Len(a) + 1] = T[m + Len(w)]
         /\ Behind(rest[i], s + Len(a) + 1, rest[m + Len(w) + 1])
<1> DEFINE X == rest[i]
<1>0. Len(X) \in Nat /\ Len(a) \in Nat /\ Len(a) > 1 /\ s \in Nat
  <2>1. X \in Seq(Letters)
    BY DEF Replaces
  <2> QED
    BY <2>1, LenProperties DEF Pseudonym
<1>1. /\ \A q \in 1..Len(a) : X[s + q] = a[q] /\ a[q] \notin Separators
      /\ a[1] = "E"
  BY DEF Goes, Pseudonym
<1>2. j + k <= Len(X) + 1
  BY DEF Clear
<1>3. ~(j - 1 <= s)
  <2> SUFFICES ASSUME j - 1 <= s PROVE FALSE
    OBVIOUS
  <2>1. s = 1 /\ j = 2 /\ 1 \in 1..Len(a)
    BY <1>0
  <2>2. X[2] = "E" /\ X[2] \notin Separators
    BY <1>1, <2>1
  <2>3. Len(X) >= 2
    <3>1. CASE Len(X) = s + Len(a)
      BY <1>0, <2>1, <3>1
    <3>2. CASE m + Len(w) \in 1..Len(T) /\ Behind(X, s + Len(a) + 1, rest[m + Len(w) + 1])
      <4>1. m + Len(w) + 1 \in 1..(Len(T) + 1)
        <5>1. Len(T) \in Nat
          BY LenProperties
        <5> QED
          BY <3>2, <5>1
      <4>2. rest[m + Len(w) + 1] \in Seq(Letters)
        BY <4>1 DEF Replaces
      <4>3. PICK y \in Nat : Len(X) = s + Len(a) + 1 + y
        BY <3>2, <4>2, LenProperties DEF Behind
      <4> QED
        BY <1>0, <4>3
    <3> QED
      BY <3>1, <3>2 DEF Goes
  <2>4. k = 0 \/ 1 \in 1..k
    OBVIOUS
  <2>5. k = 0 => X[j + k] \notin Separators /\ j + k # Len(X) + 1
    BY <1>0, <2>1, <2>2, <2>3
  <2>6. 1 \in 1..k => X[j + 1 - 1] = "E"
    BY <2>1, <2>2
  <2> QED
    BY <2>4, <2>5, <2>6 DEF Clear
<1>4. ~(j - 1 \in (s + 1)..(s + Len(a)))
  <2> SUFFICES ASSUME j - 1 \in (s + 1)..(s + Len(a)) PROVE FALSE
    OBVIOUS
  <2>1. PICK q \in 1..Len(a) : j - 1 = s + q
    <3>1. (j - 1) - s \in 1..Len(a) /\ j - 1 = s + ((j - 1) - s)
      BY <1>0
    <3> QED
      BY <3>1
  <2> QED
    BY <1>1, <2>1
<1>5. j - 1 >= s + Len(a) + 1
  BY <1>0, <1>3, <1>4
<1>6. Len(X) # s + Len(a)
  BY <1>0, <1>2, <1>5
<1> QED
  BY <1>5, <1>6 DEF Goes

\* The same, with a name for what it is said of.
Further(T, w, a, rest, i, m, s, j, k) ==
  /\ T \in Seq(Letters) /\ Word(w) /\ Pseudonym(a) /\ Replaces(T, w, a, rest)
  /\ i \in Nat /\ i \in 1..(Len(T) + 1) /\ m \in Nat /\ s \in {0, 1} /\ Goes(T, w, a, rest, i, m, s)
  /\ j \in Nat /\ k \in Nat /\ j > 1 /\ Clear(rest[i], j, k) /\ rest[i][j - 1] \in Separators

\* What follows there.
LEMMA FurtherBehind ==
  ASSUME NEW T, NEW w, NEW a, NEW rest, NEW i, NEW m, NEW s, NEW j, NEW k,
         Further(T, w, a, rest, i, m, s, j, k)
  PROVE  /\ m + Len(w) \in 1..Len(T) /\ j - 1 >= s + Len(a) + 1
         /\ rest[i][s + Len(a) + 1] = T[m + Len(w)]
         /\ Behind(rest[i], s + Len(a) + 1, rest[m + Len(w) + 1])
<1>1. T \in Seq(Letters) /\ Word(w) /\ Pseudonym(a) /\ Replaces(T, w, a, rest)
  BY DEF Further
<1>2. i \in Nat /\ i \in 1..(Len(T) + 1) /\ m \in Nat /\ s \in {0, 1} /\ Goes(T, w, a, rest, i, m, s)
  BY DEF Further
<1>3. j \in Nat /\ k \in Nat /\ j > 1 /\ Clear(rest[i], j, k) /\ rest[i][j - 1] \in Separators
  BY DEF Further
<1> QED
  BY ONLY <1>1, <1>2, <1>3, Beyond

\* Each position begins so when those behind it do, ...
LEMMA StartsAlikeHere ==
  ASSUME NEW T \in Seq(Letters), NEW w, Word(w), NEW a, Pseudonym(a), NEW rest, Replaces(T, w,
         a, rest),
         NEW i \in 1..(Len(T) + 1), \A j \in 1..(Len(T) + 1) : j > i => StartsAlike(T, rest, j)
  PROVE  StartsAlike(T, rest, i)
<1> DEFINE X == rest[i]
<1>0. Len(T) \in Nat /\ Len(X) \in Nat /\ i \in Nat /\ a \in Seq(Letters) /\ X \in Seq(Letters)
  BY LenProperties DEF Replaces, Pseudonym
<1> SUFFICES ASSUME NEW k \in Nat, Clear(X, 1, k) PROVE Same(X, 1, T, i, k)
  BY DEF StartsAlike
<1>1. CASE AtEnd(T, rest, i)
  <2>1. k = 0 /\ Len(X) = 0 /\ i = Len(T) + 1
    BY <1>1 DEF AtEnd, Clear
  <2> QED
    BY <1>0, <2>1 DEF Same
<1>2. CASE k = 0 /\ i <= Len(T) /\ X[1] = T[i] /\ Len(X) > 0
  BY <1>0, <1>2 DEF Same
<1>3. CASE Stays(T, w, rest, i)
  <2>1. i \in 1..Len(T) /\ Behind(X, 1, rest[i + 1]) /\ X[1] = T[i] /\ i + 1 \in 1..(Len(T) + 1)
    BY <1>0, <1>3 DEF Stays
  <2>2. rest[i + 1] \in Seq(Letters)
    BY <2>1 DEF Replaces
  <2>3. Len(X) > 0
    <3>1. PICK y \in Nat : Len(X) = 1 + y
      BY <2>1, <2>2, LenProperties DEF Behind
    <3> QED
      BY <3>1
  <2>4. CASE k > 0
    <3>1. Clear(X, 1 + 1, k - 1) /\ k - 1 \in Nat
      BY <1>0, <2>4, ClearFurther
    <3>2. Clear(rest[i + 1], 1, k - 1)
      BY <1>0, <2>1, <2>2, <3>1, Shift
    <3>3. Same(rest[i + 1], 1, T, i + 1, k - 1)
      BY <1>0, <2>1, <3>1, <3>2 DEF StartsAlike
    <3>4. Same(X, 1 + 1, T, i + 1, k - 1)
      BY <1>0, <2>1, <2>2, <3>1, <3>2, <3>3, ShiftByOne
    <3> QED
      BY <1>0, <2>1, <2>4, <3>4, SameFromOneBefore
  <2> QED
    BY <1>0, <1>2, <2>1, <2>3, <2>4
<1>4. ASSUME NEW m \in Nat, NEW s \in {0, 1}, Goes(T, w, a, rest, i, m, s) PROVE Same(X, 1, T, i, k)
  <2>1. /\ X[s + 1] = "E" /\ X[s + 1] \notin Separators
        /\ i <= Len(T)
        /\ s = 1 => X[1] = T[i]
    <3>1. 1 \in 1..Len(a) /\ a[1] = "E" /\ a[1] \notin Separators
      BY DEF Pseudonym
    <3>2. X[s + 1] = a[1]
      BY <1>4, <3>1 DEF Goes
    <3>3. i <= Len(T) /\ (s = 1 => X[1] = T[i])
      BY <1>0, <1>4 DEF Goes
    <3> QED
      BY <3>1, <3>2, <3>3
  <2>2. Len(X) > s
    <3>0. Len(a) \in Nat /\ Len(a) > 1 /\ s \in Nat
      BY DEF Pseudonym
    <3>1. CASE Len(X) = s + Len(a)
      BY <1>0, <3>0, <3>1
    <3>2. CASE m + Len(w) \in 1..Len(T) /\ Behind(X, s + Len(a) + 1, rest[m + Len(w) + 1])
      <4>1. m + Len(w) + 1 \in 1..(Len(T) + 1)
        BY <1>0, <3>2 DEF Word
      <4>2. rest[m + Len(w) + 1] \in Seq(Letters)
        BY <4>1 DEF Replaces
      <4>3. PICK y \in Nat : Len(X) = s + Len(a) + 1 + y
        BY <3>2, <4>2, LenProperties DEF Behind
      <4> QED
        BY <1>0, <3>0, <4>3
    <3> QED
      BY <1>4, <3>1, <3>2 DEF Goes
  <2>3. k <= s
    <3> SUFFICES ASSUME k > s PROVE FALSE
      OBVIOUS
    <3>1. s + 1 \in 1..k /\ 1 + (s + 1) - 1 = s + 1
      OBVIOUS
    <3> QED
      BY <2>1, <3>1 DEF Clear
  <2>4. k # s
    BY <1>0, <2>1, <2>2 DEF Clear
  <2>5. k = 0 /\ s = 1
    BY <2>3, <2>4
  <2> QED
    BY <1>0, <1>2, <2>1, <2>2, <2>5
<1> QED
  BY <1>0, <1>1, <1>3, <1>4, RestForm

\* X has Y behind d characters, the last of them the one before n.
LeadsOn(T, X, i, j, d, n, Y) ==
  /\ n \in 1..(Len(T) + 1) /\ n > i /\ d > 0 /\ j - 1 >= d
  /\ Behind(X, d, Y) /\ T[n - 1] = X[d]

\* ... what comes behind a separator does, ...
LEMMA ComesHere ==
  ASSUME NEW T \in Seq(Letters), NEW w, Word(w), NEW a, Pseudonym(a), NEW rest, Replaces(T, w,
         a, rest),
         NEW i \in 1..(Len(T) + 1),
         \A j \in 1..(Len(T) + 1) : j > i => StartsAlike(T, rest, j) /\ Comes(T, rest, j)
  PROVE  Comes(T, rest, i)
<1> DEFINE X == rest[i]
<1>0. Len(T) \in Nat /\ Len(X) \in Nat /\ i \in Nat /\ a \in Seq(Letters) /\ X \in Seq(Letters)
  BY LenProperties DEF Replaces, Pseudonym
<1> SUFFICES ASSUME NEW j \in Nat, NEW k \in Nat, j > 1, Clear(X, j, k), X[j - 1] \in Separators
             PROVE  \E p \in Nat : p > i /\ T[p - 1] \in Separators /\ Same(X, j, T, p, k)
  BY DEF Comes
<1>1. ~AtEnd(T, rest, i)
  BY DEF AtEnd, Clear
<1>2. ASSUME NEW d \in Nat, NEW n \in Nat, LeadsOn(T, X, i, j, d, n, rest[n])
      PROVE  \E p \in Nat : p > i /\ T[p - 1] \in Separators /\ Same(X, j, T, p, k)
  <2>0. /\ n \in 1..(Len(T) + 1) /\ n > i /\ d > 0 /\ j - 1 >= d
        /\ Behind(X, d, rest[n]) /\ T[n - 1] = X[d]
    BY <1>2 DEF LeadsOn
  <2>1. rest[n] \in Seq(Letters) /\ Len(rest[n]) \in Nat /\ Len(X) = d + Len(rest[n])
    BY <2>0, LenProperties DEF Replaces, Behind
  <2>2. PICK l \in Nat : j = d + l /\ l > 0
    <3>1. j - d \in Nat /\ j = d + (j - d) /\ j - d > 0
      BY <2>0
    <3> QED
      BY <3>1
  <2>3. Clear(rest[n], l, k)
    BY <1>0, <2>0, <2>1, <2>2, Shift
  <2>4. PICK p \in Nat : p > i /\ T[p - 1] \in Separators /\ Same(rest[n], l, T, p, k)
    <3>1. CASE l = 1
      <4>1. Same(rest[n], 1, T, n, k)
        BY <2>0, <2>3, <3>1 DEF StartsAlike
      <4>2. j - 1 = d
        BY <2>2, <3>1
      <4> QED
        BY <2>0, <3>1, <4>1, <4>2
    <3>2. CASE l > 1
      <4>1. l - 1 \in 1..Len(rest[n]) /\ d + (l - 1) = j - 1
        BY <2>1, <2>2, <2>3, <3>2 DEF Clear
      <4>2. rest[n][l - 1] \in Separators
        BY <2>0, <4>1 DEF Behind
      <4>3. \E p \in Nat : p > n /\ T[p - 1] \in Separators /\ Same(rest[n], l, T, p, k)
        BY <2>0, <2>3, <3>2, <4>2 DEF Comes
      <4> QED
        BY <1>0, <2>0, <4>3
    <3> QED
      BY <2>2, <3>1, <3>2
  <2>5. Same(X, j, T, p, k)
    BY <1>0, <2>0, <2>1, <2>2, <2>3, <2>4, Shift
  <2> QED
    BY <2>4, <2>5
<1>3. CASE Stays(T, w, rest, i)
  <2>1. PICK n \in Nat : n = i + 1 /\ n \in 1..(Len(T) + 1) /\ n > i /\ j - 1 >= 1 /\ n - 1 = i
    BY <1>0, <1>3 DEF Stays
  <2>2. Behind(X, 1, rest[n]) /\ T[n - 1] = X[1]
    BY <1>3, <2>1 DEF Stays
  <2>3. LeadsOn(T, X, i, j, 1, n, rest[n])
    BY <2>1, <2>2 DEF LeadsOn
  <2> QED
    BY <1>2, <2>3
<1>4. ASSUME NEW m \in Nat, NEW s \in {0, 1}, Goes(T, w, a, rest, i, m, s)
      PROVE  \E p \in Nat : p > i /\ T[p - 1] \in Separators /\ Same(X, j, T, p, k)
  <2>1. /\ m + Len(w) \in 1..Len(T) /\ j - 1 >= s + Len(a) + 1
        /\ X[s + Len(a) + 1] = T[m + Len(w)]
        /\ Behind(X, s + Len(a) + 1, rest[m + Len(w) + 1])
    <3>1. Further(T, w, a, rest, i, m, s, j, k)
      BY <1>0, <1>4 DEF Further
    <3> QED
      BY ONLY <3>1, FurtherBehind
  <2>2. PICK d \in Nat : d = s + Len(a) + 1 /\ d > 0
    <3>1. s \in Nat /\ Len(a) \in Nat
      BY DEF Pseudonym
    <3>2. s + Len(a) + 1 \in Nat /\ s + Len(a) + 1 > 0
      BY ONLY <3>1
    <3> QED
      BY ONLY <3>2
  <2>3. PICK n \in Nat : n = m + Len(w) + 1 /\ n \in 1..(Len(T) + 1) /\ n > i /\ n - 1 = m + Len(w)
    <3>1. Len(w) \in Nat /\ Len(w) > 0
      BY LenProperties DEF Word
    <3>2. m = i + s /\ m + Len(w) \in 1..Len(T)
      BY <1>4, <2>1 DEF Goes
    <3> QED
      BY <1>0, <3>1, <3>2
  <2>4. LeadsOn(T, X, i, j, d, n, rest[n])
    BY <2>1, <2>2, <2>3 DEF LeadsOn
  <2> QED
    BY <1>2, <2>4
<1> QED
  BY <1>0, <1>1, <1>3, <1>4, RestForm

\* A word at the start of the rest ...
LEMMA WholeBehind ==
  ASSUME NEW w, Word(w), NEW X \in Seq(Letters), NEW Y \in Seq(Letters), NEW d \in Nat,
         Behind(X, d, Y),
         NEW j \in Nat, j > 0
  PROVE  Whole(w, X, d + j) <=> Whole(w, Y, j)
<1>0. Len(X) \in Nat /\ Len(Y) \in Nat /\ Len(X) = d + Len(Y) /\ Len(w) \in Nat /\ Len(w) > 0
  BY LenProperties DEF Behind, Word
<1>1. d + j + Len(w) - 1 <= Len(X) <=> j + Len(w) - 1 <= Len(Y)
  BY <1>0
<1>2. d + j + Len(w) = Len(X) + 1 <=> j + Len(w) = Len(Y) + 1
  BY <1>0
<1>3. ASSUME j + Len(w) <= Len(Y) PROVE X[d + j + Len(w)] = Y[j + Len(w)]
  <2>1. j + Len(w) \in 1..Len(Y) /\ d + j + Len(w) = d + (j + Len(w))
    BY <1>0, <1>3
  <2> QED
    BY <2>1 DEF Behind
<1>4. ASSUME j + Len(w) - 1 <= Len(Y), NEW k \in 1..Len(w) PROVE X[d + j + k - 1] = Y[j + k - 1]
  <2>1. j + k - 1 \in 1..Len(Y) /\ d + j + k - 1 = d + (j + k - 1)
    BY <1>0, <1>4
  <2> QED
    BY <2>1 DEF Behind
<1>5. At(w, X, d + j) <=> At(w, Y, j)
  BY <1>1, <1>4 DEF At
<1>6. j + Len(w) - 1 <= Len(Y) => j + Len(w) = Len(Y) + 1 \/ j + Len(w) <= Len(Y)
  BY <1>0
<1> QED
  BY <1>2, <1>3, <1>5, <1>6 DEF Whole, At

\* ... or further on in it.
LEMMA AtBehind ==
  ASSUME NEW a, Len(a) \in Nat, NEW X, NEW Y, NEW d \in Nat, Behind(X, d, Y),
         Len(Y) \in Nat, NEW j \in Nat, j > 0, At(a, Y, j)
  PROVE  At(a, X, d + j)
<1>1. Len(X) = d + Len(Y) /\ j + Len(a) - 1 <= Len(Y)
  BY DEF Behind, At
<1>2. ASSUME NEW k \in 1..Len(a) PROVE X[d + j + k - 1] = a[k]
  <2>1. j + k - 1 \in 1..Len(Y) /\ d + j + k - 1 = d + (j + k - 1)
    BY <1>1
  <2> QED
    BY <2>1 DEF Behind, At
<1>3. d + j + Len(a) - 1 <= Len(X)
  BY <1>1
<1> QED
  BY <1>2, <1>3 DEF At

\* ... and what remains, too.
LEMMA RemainsHere ==
  ASSUME NEW T \in Seq(Letters), NEW w, Word(w), NEW a, Pseudonym(a), NEW rest, Replaces(T, w,
         a, rest),
         NEW i \in 1..(Len(T) + 1),
         \A j \in 1..(Len(T) + 1) : j > i => StartsAlike(T, rest, j) /\ Remains(T, w, a, rest, j)
  PROVE  Remains(T, w, a, rest, i)
<1> DEFINE X == rest[i]
<1>0. /\ Len(T) \in Nat /\ Len(X) \in Nat /\ i \in Nat /\ a \in Seq(Letters) /\ X \in Seq(Letters)
      /\ Len(w) \in Nat /\ Len(w) > 0 /\ Len(a) \in Nat /\ w \in Seq(Letters)
  BY LenProperties, WordForm DEF Replaces, Pseudonym, Word
<1> DEFINE Shown(j) == \E o \in Nat : /\ o > 0 /\ Stands(w, T, o) /\ Stands(w, T, o + Len(w) + 1)
                                     /\ j - 1 - Len(a) > 0 /\ At(a, X, j - 1 - Len(a))
<1> SUFFICES ASSUME NEW j \in Nat, j > 1, Whole(w, X, j), X[j - 1] \in Separators PROVE Shown(j)
  BY DEF Remains
<1>1. Clear(X, j, Len(w))
  BY <1>0, Carried
<1>2. ~AtEnd(T, rest, i)
  BY <1>0, <1>1 DEF AtEnd, Clear
\* Right behind the character before the rest from n on: the word stands in the text.
<1>3. ASSUME NEW d \in Nat, NEW n \in Nat, n \in 1..(Len(T) + 1), n > i, d > 0, j = d + 1,
             Behind(X, d, rest[n]), T[n - 1] = X[d]
      PROVE  Stands(w, T, n)
  <2>1. rest[n] \in Seq(Letters)
    BY <1>3 DEF Replaces
  <2>2. Whole(w, rest[n], 1)
    <3>1. PICK l \in Nat : l = 1
      OBVIOUS
    <3>2. Whole(w, X, d + l) /\ l > 0 /\ Behind(X, d, rest[n])
      BY <1>3, <3>1
    <3>3. Whole(w, rest[n], l)
      BY <1>0, <2>1, <3>2, WholeBehind
    <3> QED
      BY <3>1, <3>3
  <2>3. Clear(rest[n], 1, Len(w))
    BY <2>1, <2>2, Carried
  <2>4. Same(rest[n], 1, T, n, Len(w))
    BY <1>0, <1>3, <2>3 DEF StartsAlike
  <2>5. Whole(w, T, n)
    BY <2>1, <2>2, <2>4, Carried
  <2>6. X[d] \in Separators
    BY <1>3
  <2> QED
    BY <1>0, <1>3, <2>5, <2>6, StandsAt
\* Further behind.
<1>4. ASSUME NEW d \in Nat, NEW n \in Nat, n \in 1..(Len(T) + 1), n > i, d > 0, j > d + 1,
             Behind(X, d, rest[n])
      PROVE  Shown(j)
  <2>1. rest[n] \in Seq(Letters) /\ Len(rest[n]) \in Nat /\ Len(X) = d + Len(rest[n])
    BY <1>4, LenProperties DEF Replaces, Behind
  <2>2. PICK l \in Nat : j = d + l /\ l > 1
    <3>1. j - d \in Nat /\ j = d + (j - d) /\ j - d > 1
      BY <1>4
    <3> QED
      BY <3>1
  <2>3. Whole(w, rest[n], l)
    <3>1. l > 0 /\ Whole(w, X, d + l)
      BY <2>2
    <3>2. Whole(w, X, d + l) <=> Whole(w, rest[n], l)
      BY <1>0, <1>4, <2>1, <3>1, WholeBehind
    <3> QED
      BY <3>1, <3>2
  <2>4. rest[n][l - 1] \in Separators
    <3>1. l - 1 \in 1..Len(rest[n]) /\ d + (l - 1) = j - 1
      <4>1. j + Len(w) <= Len(X) + 1
        BY <1>1 DEF Clear
      <4>2. Len(w) \in Nat /\ Len(w) > 0
        BY <1>0
      <4> QED
        BY <2>1, <2>2, <4>1, <4>2
    <3> QED
      BY <1>4, <3>1 DEF Behind
  <2>5. PICK o \in Nat : /\ o > 0 /\ Stands(w, T, o) /\ Stands(w, T, o + Len(w) + 1)
                         /\ l - 1 - Len(a) > 0 /\ At(a, rest[n], l - 1 - Len(a))
    BY <1>4, <2>2, <2>3, <2>4 DEF Remains
  <2>6. PICK q \in Nat : q = l - 1 - Len(a) /\ q > 0 /\ j - 1 - Len(a) = d + q
    <3>1. l - 1 - Len(a) \in Nat /\ j - 1 - Len(a) = d + (l - 1 - Len(a))
      BY <1>0, <2>2, <2>5
    <3> QED
      BY <2>5, <3>1
  <2>7. At(a, X, d + q)
    BY <1>0, <1>4, <2>1, <2>5, <2>6, AtBehind
  <2>8. j - 1 - Len(a) > 0
    BY <2>6
  <2> QED
    BY <2>5, <2>6, <2>7, <2>8
<1>5. CASE Stays(T, w, rest, i)
  <2>1. PICK n \in Nat : n = i + 1 /\ n \in 1..(Len(T) + 1) /\ n > i /\ n - 1 = i
    BY <1>0, <1>5 DEF Stays
  <2>2. Behind(X, 1, rest[n]) /\ T[n - 1] = X[1]
    BY <1>5, <2>1 DEF Stays
  <2>3. ~(j = 1 + 1)
    <3> SUFFICES ASSUME j = 1 + 1 PROVE FALSE
      OBVIOUS
    <3>1. Stands(w, T, i + 1)
      BY <1>3, <2>1, <2>2
    <3>2. T[i] \in Separators
      BY <2>1, <2>2
    <3>3. i > 0 /\ Match(w, T, i) = 0
      BY <1>5 DEF Stays
    <3> QED
      BY <1>0, <3>1, <3>2, <3>3, NoMatch
  <2> QED
    BY <1>4, <2>1, <2>2, <2>3
<1>6. ASSUME NEW m \in Nat, NEW s \in {0, 1}, Goes(T, w, a, rest, i, m, s) PROVE Shown(j)
  <2>1. /\ m + Len(w) \in 1..Len(T) /\ j - 1 >= s + Len(a) + 1
        /\ X[s + Len(a) + 1] = T[m + Len(w)]
        /\ Behind(X, s + Len(a) + 1, rest[m + Len(w) + 1])
    <3>1. Further(T, w, a, rest, i, m, s, j, Len(w))
      BY <1>0, <1>1, <1>6 DEF Further
    <3> QED
      BY ONLY <3>1, FurtherBehind
  <2>2. PICK d \in Nat : d = s + Len(a) + 1 /\ d > 0
    <3>1. s \in Nat /\ Len(a) \in Nat
      BY DEF Pseudonym
    <3>2. s + Len(a) + 1 \in Nat /\ s + Len(a) + 1 > 0
      BY ONLY <3>1
    <3> QED
      BY ONLY <3>2
  <2>3. PICK n \in Nat : n = m + Len(w) + 1 /\ n \in 1..(Len(T) + 1) /\ n > i /\ n - 1 = m + Len(w)
    BY <1>0, <1>6, <2>1 DEF Goes
  <2>4. CASE j = d + 1
    <3>1. Stands(w, T, n)
      BY <1>3, <2>1, <2>2, <2>3, <2>4
    <3>2. m > 0 /\ Stands(w, T, m)
      BY <1>0, <1>6 DEF Goes
    <3>3. j - 1 - Len(a) = s + 1 /\ s + 1 > 0
      BY <1>0, <2>2, <2>4
    <3>4. At(a, X, s + 1)
      <4>1. \A q \in 1..Len(a) : X[(s + 1) + q - 1] = a[q]
        <5>1. \A q \in 1..Len(a) : X[s + q] = a[q] /\ (s + 1) + q - 1 = s + q
          BY <1>6 DEF Goes
        <5> QED
          BY <5>1
      <4>2. (s + 1) + Len(a) - 1 <= Len(X)
        <5>1. j + Len(w) <= Len(X) + 1
          BY <1>1 DEF Clear
        <5> QED
          BY <1>0, <2>2, <2>4, <5>1
      <4> QED
        BY <4>1, <4>2 DEF At
    <3> QED
      BY <2>3, <3>1, <3>2, <3>3, <3>4
  <2>5. CASE j > d + 1
    BY <1>4, <2>1, <2>2, <2>3, <2>5
  <2> QED
    BY <2>1, <2>2, <2>4, <2>5
<1> QED
  BY <1>0, <1>2, <1>5, <1>6, RestForm

\* So it is at every position.
LEMMA AllHere ==
  ASSUME NEW T \in Seq(Letters), NEW w, Word(w), NEW a, Pseudonym(a), NEW rest, Replaces(T, w,
         a, rest)
  PROVE  StartsAlike(T, rest, 1) /\ Comes(T, rest, 1) /\ Remains(T, w, a, rest, 1)
<1> DEFINE P == {i \in 1..(Len(T) + 1) :
                   StartsAlike(T, rest, i) /\ Comes(T, rest, i) /\ Remains(T, w, a, rest, i)}
<1>0. Len(T) + 1 \in Nat /\ 1 \in 1..(Len(T) + 1)
  BY LenProperties
<1>1. ASSUME NEW i \in 1..(Len(T) + 1), \A j \in 1..(Len(T) + 1) : j > i => j \in P
      PROVE  i \in P
  <2>1. StartsAlike(T, rest, i)
    BY <1>1, StartsAlikeHere
  <2>2. Comes(T, rest, i)
    BY <1>1, ComesHere
  <2>3. Remains(T, w, a, rest, i)
    BY <1>1, RemainsHere
  <2> QED
    BY <2>1, <2>2, <2>3
<1> HIDE DEF P
<1>2. \A i \in 1..(Len(T) + 1) : i \in P
  BY <1>0, <1>1, Downward
<1> QED
  BY <1>0, <1>2 DEF P

\* No word begins to stand anywhere.
LEMMA NothingComes ==
  ASSUME NEW T \in Seq(Letters), NEW w, Word(w), NEW a, Pseudonym(a), NEW v, Word(v),
         NEW j \in Nat, j > 0, Stands(v, ReplaceOnce(T, w, a), j)
  PROVE  \E p \in Nat : p > 0 /\ Stands(v, T, p)
<1>0. a \in Seq(Letters) /\ v \in Seq(Letters) /\ Len(v) \in Nat /\ Len(v) > 0 /\ Len(T) \in Nat
  BY WordForm, LenProperties DEF Pseudonym, Word
<1>1. PICK rest : Replaces(T, w, a, rest) /\ ReplaceOnce(T, w, a) = rest[1]
  BY <1>0, ReplaceForm
<1>2. rest[1] \in Seq(Letters)
  <2>1. 1 \in 1..(Len(T) + 1)
    BY <1>0
  <2> QED
    BY <1>1, <2>1 DEF Replaces
<1>3. Whole(v, rest[1], j) /\ (j = 1 \/ rest[1][j - 1] \in Separators)
  BY <1>0, <1>1, <1>2, StandsAt
<1>4. Clear(rest[1], j, Len(v))
  BY <1>2, <1>3, Carried
<1>5. StartsAlike(T, rest, 1) /\ Comes(T, rest, 1)
  BY <1>1, AllHere
<1>6. CASE j = 1
  <2>1. Same(rest[1], 1, T, 1, Len(v))
    BY <1>0, <1>4, <1>5, <1>6 DEF StartsAlike
  <2>2. Whole(v, T, 1)
    BY <1>2, <1>3, <1>6, <2>1, Carried
  <2> QED
    BY <1>0, <2>2, StandsAt
<1>7. CASE j > 1
  <2>1. rest[1][j - 1] \in Separators
    BY <1>3, <1>7
  <2>2. PICK p \in Nat : p > 1 /\ T[p - 1] \in Separators /\ Same(rest[1], j, T, p, Len(v))
    BY <1>0, <1>4, <1>5, <1>7, <2>1 DEF Comes
  <2>3. Whole(v, T, p)
    BY <1>2, <1>3, <2>2, Carried
  <2>4. p > 0 /\ Stands(v, T, p)
    BY <1>0, <2>2, <2>3, StandsAt
  <2> QED
    BY <2>4
<1> QED
  BY <1>6, <1>7

\* The word itself stands only behind an alias, where two of it stood side by side.
LEMMA OnlyBehindAlias ==
  ASSUME NEW T \in Seq(Letters), NEW w, Word(w), NEW a, Pseudonym(a),
         NEW j \in Nat, j > 0, Stands(w, ReplaceOnce(T, w, a), j)
  PROVE  /\ \E o \in Nat : o > 0 /\ Stands(w, T, o) /\ Stands(w, T, o + Len(w) + 1)
         /\ j - 1 - Len(a) > 0 /\ At(a, ReplaceOnce(T, w, a), j - 1 - Len(a))
<1>0. /\ a \in Seq(Letters) /\ w \in Seq(Letters) /\ Len(w) \in Nat /\ Len(w) > 0 /\ Len(T) \in Nat
      /\ Len(a) \in Nat /\ Len(a) > 1 /\ a[1] = "E" /\ 1 \in 1..Len(w) /\ 1 \in 1..Len(a) /\ w[1] # "E"
  <2>1. 1 \in 1..Len(w)
    BY DEF Word
  <2> QED
    BY <2>1, WordForm, LenProperties DEF Pseudonym, Word
<1>1. PICK rest : Replaces(T, w, a, rest) /\ ReplaceOnce(T, w, a) = rest[1]
  BY <1>0, ReplaceForm
<1>2. rest[1] \in Seq(Letters) /\ 1 \in 1..(Len(T) + 1)
  <2>1. 1 \in 1..(Len(T) + 1)
    BY <1>0
  <2> QED
    BY <1>1, <2>1 DEF Replaces
<1>3. Whole(w, rest[1], j) /\ (j = 1 \/ rest[1][j - 1] \in Separators)
  BY <1>0, <1>1, <1>2, StandsAt
<1>4. StartsAlike(T, rest, 1) /\ Remains(T, w, a, rest, 1)
  BY <1>1, AllHere
<1>5. j # 1
  <2> SUFFICES ASSUME j = 1 PROVE FALSE
    OBVIOUS
  <2>1. Clear(rest[1], 1, Len(w))
    BY <1>2, <1>3, Carried
  <2>2. Same(rest[1], 1, T, 1, Len(w))
    BY <1>0, <1>4, <2>1 DEF StartsAlike
  <2>3. Whole(w, T, 1)
    BY <1>2, <1>3, <2>2, Carried
  <2>4. Stands(w, T, 1)
    BY <1>0, <2>3, StandsAt
  <2>5. rest[1][1] = w[1] /\ Len(rest[1]) >= Len(w)
    BY <1>0, <1>3 DEF Whole, At
  <2>6. ~AtEnd(T, rest, 1)
    BY <1>0, <2>5 DEF AtEnd
  <2>7. ~Stays(T, w, rest, 1)
    BY <2>4, NoMatch DEF Stays
  <2>8. PICK m \in Nat, s \in {0, 1} : Goes(T, w, a, rest, 1, m, s)
    BY <1>0, <1>1, <1>2, <2>6, <2>7, RestForm
  <2>9. rest[1][s + 1] = "E"
    BY <1>0, <2>8 DEF Goes
  <2>10. s = 0
    BY <2>4, <2>8 DEF Goes
  <2> QED
    BY <1>0, <2>5, <2>9, <2>10
<1> QED
  BY <1>1, <1>3, <1>4, <1>5 DEF Remains

-----------------------------------------------------------------------------
(***************************************************************************)
(* SanitizeText: two passes leave nothing of a word, and a pass that changes*)
(* nothing ends the loop.                                                  *)
(***************************************************************************)

\* What is done again and again, from one value to the next, exists.
Iterable(D, S, x, G) ==
  /\ D \subseteq Nat /\ \A k \in D : k = 0 \/ k - 1 \in D
  /\ x \in S /\ G \in [D -> [S -> S]]

\* The values, one for each time.
LEMMA Iteration ==
  ASSUME NEW D, NEW S, NEW x, NEW G, Iterable(D, S, x, G)
  PROVE  \E f \in [D -> S] : \A k \in D : f[k] = IF k = 0 THEN x ELSE G[k][f[k - 1]]
<1>0. /\ D \subseteq Nat /\ \A k \in D : k = 0 \/ k - 1 \in D
      /\ x \in S /\ G \in [D -> [S -> S]]
  BY DEF Iterable
<1> DEFINE m == [k \in D |-> k]
           F == [k \in D |-> [f \in [D -> S] |-> IF k = 0 THEN x ELSE G[k][f[k - 1]]]]
<1>1. m \in [D -> Nat] /\ \A k \in D : m[k] = k
  BY <1>0
<1>2. \A k \in D, f \in [D -> S] : F[k][f] = IF k = 0 THEN x ELSE G[k][f[k - 1]]
  OBVIOUS
<1>3. F \in [D -> [[D -> S] -> S]]
  <2>1. ASSUME NEW k \in D, NEW f \in [D -> S]
        PROVE  (IF k = 0 THEN x ELSE G[k][f[k - 1]]) \in S
    BY <1>0
  <2> QED
    BY <2>1
<1> HIDE DEF m, F
<1>4. ASSUME NEW k \in D, NEW f \in [D -> S], NEW g \in [D -> S],
             \A j \in D : m[j] < m[k] => f[j] = g[j]
      PROVE  F[k][f] = F[k][g]
  <2>1. k # 0 => f[k - 1] = g[k - 1]
    <3> SUFFICES ASSUME k # 0 PROVE f[k - 1] = g[k - 1]
      OBVIOUS
    <3>1. k - 1 \in D /\ k - 1 < k
      BY <1>0
    <3> QED
      BY <1>1, <1>4, <3>1
  <2> QED
    BY <1>2, <2>1
<1>5. GivenFromBelow(D, S, m, F)
  BY <1>1, <1>3, <1>4 DEF GivenFromBelow
<1>6. \E f \in [D -> S] : \A k \in D : f[k] = F[k][f]
  BY <1>0, <1>5, Recursion
<1> QED
  BY <1>2, <1>6

\* Every alias is a pseudonym.
LEMMA AliasIsPseudonym == \A k \in Nat : Pseudonym(Alias(k))
  BY AliasForm DEF Pseudonym

\* A pass leaves text.
LEMMA OnceType ==
  ASSUME NEW T \in Seq(Letters), NEW w, Word(w), NEW a, Pseudonym(a)
  PROVE  ReplaceOnce(T, w, a) \in Seq(Letters)
<1>1. PICK rest : Replaces(T, w, a, rest) /\ ReplaceOnce(T, w, a) = rest[1]
  BY ReplaceForm DEF Pseudonym
<1>2. 1 \in 1..(Len(T) + 1)
  BY LenProperties
<1> QED
  BY <1>1, <1>2 DEF Replaces

\* No nick is to be read.
StandsNowhere(w, T) == \A p \in Nat : p > 0 => ~Stands(w, T, p)

\* Two passes leave nothing of the word.
LEMMA TwoPasses ==
  ASSUME NEW T \in Seq(Letters), NEW w, Word(w), NEW a, Pseudonym(a)
  PROVE  StandsNowhere(w, ReplaceOnce(ReplaceOnce(T, w, a), w, a))
<1> DEFINE U == ReplaceOnce(T, w, a)
<1>0. U \in Seq(Letters)
  BY OnceType
<1> HIDE DEF U
<1> SUFFICES ASSUME NEW j \in Nat, j > 0, Stands(w, ReplaceOnce(U, w, a), j) PROVE FALSE
  BY DEF StandsNowhere, U
<1>1. PICK o \in Nat : o > 0 /\ Stands(w, U, o) /\ Stands(w, U, o + Len(w) + 1)
  BY <1>0, OnlyBehindAlias
<1>2. /\ Len(w) \in Nat /\ Len(w) > 0 /\ w \in Seq(Letters) /\ \A k \in 1..Len(w) : w[k] # "E"
      /\ Len(a) \in Nat /\ Len(a) > 1 /\ a[1] = "E" /\ \A k \in 1..Len(a) : a[k] \notin Separators
  BY WordForm DEF Word, Pseudonym
<1>3. PICK l \in Nat : l = o + Len(w) + 1 /\ l > 0
  BY <1>2
<1>4. l - 1 - Len(a) > 0 /\ At(a, U, l - 1 - Len(a))
  <2>1. Stands(w, ReplaceOnce(T, w, a), l)
    BY <1>1, <1>3 DEF U
  <2>2. l - 1 - Len(a) > 0 /\ At(a, ReplaceOnce(T, w, a), l - 1 - Len(a))
    BY <1>3, <2>1, OnlyBehindAlias
  <2> QED
    BY <2>2 DEF U
\* The alias and the word end at the same place.
<1>5. PICK q \in Nat : q = l - 1 - Len(a) /\ q > 0 /\ q + Len(a) = o + Len(w)
  <2>1. l - 1 - Len(a) \in Nat /\ (l - 1 - Len(a)) + Len(a) = o + Len(w)
    BY <1>2, <1>3, <1>4
  <2> QED
    BY <1>4, <2>1
<1>6. \A k \in 1..Len(a) : U[q + k - 1] = a[k]
  BY <1>4, <1>5 DEF At
<1>7. Whole(w, U, o) /\ (o = 1 \/ U[o - 1] \in Separators)
  BY <1>0, <1>1, <1>2, StandsAt
<1>8. \A k \in 1..Len(w) : U[o + k - 1] = w[k]
  BY <1>7 DEF Whole, At
<1>9. CASE q >= o
  <2>1. (q - o) + 1 \in 1..Len(w) /\ o + ((q - o) + 1) - 1 = q
    BY <1>2, <1>5, <1>9
  <2>2. U[q] = w[(q - o) + 1]
    BY <1>8, <2>1
  <2>3. 1 \in 1..Len(a) /\ q + 1 - 1 = q
    BY <1>2
  <2>4. U[q] = "E"
    BY <1>2, <1>6, <2>3
  <2> QED
    BY <1>2, <2>1, <2>2, <2>4
<1>10. CASE q < o
  <2>1. o - q \in 1..Len(a) /\ q + (o - q) - 1 = o - 1 /\ o # 1
    BY <1>2, <1>5, <1>10
  <2>2. U[o - 1] = a[o - q]
    BY <1>6, <2>1
  <2> QED
    BY <1>2, <1>7, <2>1, <2>2
<1> QED
  BY <1>9, <1>10

\* A pass changes nothing where nothing stands.
LEMMA NothingToReplace ==
  ASSUME NEW T \in Seq(Letters), NEW w, Word(w), NEW a, Pseudonym(a), StandsNowhere(w, T)
  PROVE  ReplaceOnce(T, w, a) = T
<1>0. Len(T) \in Nat /\ a \in Seq(Letters)
  BY LenProperties DEF Pseudonym
<1>1. PICK rest : Replaces(T, w, a, rest) /\ ReplaceOnce(T, w, a) = rest[1]
  BY <1>0, ReplaceForm
<1> DEFINE P == {i \in 1..(Len(T) + 1) : Behind(T, i - 1, rest[i])}
<1>2. ASSUME NEW i \in 1..(Len(T) + 1), \A j \in 1..(Len(T) + 1) : j > i => j \in P
      PROVE  i \in P
  <2>1. CASE AtEnd(T, rest, i)
    BY <1>0, <2>1 DEF AtEnd, Behind
  <2>2. CASE Stays(T, w, rest, i)
    <3>1. i \in 1..Len(T) /\ i + 1 \in 1..(Len(T) + 1) /\ i + 1 > i /\ (i + 1) - 1 = i
      BY <1>0, <2>2 DEF Stays
    <3>2. rest[i + 1] \in Seq(Letters) /\ Len(rest[i + 1]) \in Nat
      BY <1>1, <3>1, LenProperties DEF Replaces
    <3>3. Behind(T, i, rest[i + 1])
      BY <1>2, <3>1
    <3>4. Behind(rest[i], 1, rest[i + 1]) /\ rest[i][1] = T[i]
      BY <2>2 DEF Stays
    <3>5. Len(T) = (i - 1) + Len(rest[i])
      BY <3>1, <3>2, <3>3, <3>4 DEF Behind
    <3>6. ASSUME NEW q \in 1..Len(rest[i]) PROVE T[(i - 1) + q] = rest[i][q]
      <4>1. q = 1 \/ (q - 1 \in 1..Len(rest[i + 1]) /\ 1 + (q - 1) = q /\ i + (q - 1) = (i - 1) + q)
        BY <3>2, <3>4 DEF Behind
      <4>2. (i - 1) + 1 = i
        OBVIOUS
      <4> QED
        BY <3>3, <3>4, <4>1, <4>2 DEF Behind
    <3> QED
      BY <3>5, <3>6 DEF Behind
  <2>3. ASSUME NEW m \in Nat, NEW s \in {0, 1}, Goes(T, w, a, rest, i, m, s) PROVE FALSE
    <3>1. m > 0
      BY <1>0, <2>3 DEF Goes
    <3> QED
      BY <2>3, <3>1 DEF Goes, StandsNowhere
  <2> QED
    BY <1>0, <1>1, <2>1, <2>2, <2>3, RestForm
<1>3. 1 \in 1..(Len(T) + 1) /\ Len(T) + 1 \in Nat
  BY <1>0
<1>4. Behind(T, 0, rest[1])
  <2>1. \A i \in 1..(Len(T) + 1) : i \in P
    <3> HIDE DEF P
    <3> QED
      BY <1>2, <1>3, Downward
  <2>2. 1 - 1 = 0
    OBVIOUS
  <2> QED
    BY <1>3, <2>1, <2>2
<1>5. rest[1] \in Seq(Letters)
  BY <1>1, <1>3 DEF Replaces
<1>6. Len(rest[1]) \in Nat
  BY <1>5, LenProperties
<1>7. Len(rest[1]) = Len(T) /\ \A q \in 1..Len(rest[1]) : rest[1][q] = T[q]
  BY <1>4, <1>6 DEF Behind
<1> QED
  BY <1>1, <1>5, <1>7, SeqEqual

\* The loop leaves nothing of the word, and brings no other.
LEMMA NothingIsLeft ==
  ASSUME NEW T \in Seq(Letters), NEW w, Word(w), NEW a, Pseudonym(a)
  PROVE  /\ ReplaceWords(T, w, a) \in Seq(Letters)
         /\ StandsNowhere(w, ReplaceWords(T, w, a))
         /\ \A v : Word(v) /\ StandsNowhere(v, T) => StandsNowhere(v, ReplaceWords(T, w, a))
<1> DEFINE S == Seq(Letters)
           G == [k \in Nat |-> [t \in S |-> ReplaceOnce(t, w, a)]]
           after == CHOOSE f : f = [k \in Nat |-> IF k = 0 THEN T ELSE ReplaceOnce(f[k - 1], w, a)]
           K == CHOOSE k \in 0..Len(T) : after[k + 1] = after[k]
<1>1. \A t \in S : ReplaceOnce(t, w, a) \in S
  BY OnceType
<1>2. PICK f \in [Nat -> S] : \A k \in Nat : f[k] = IF k = 0 THEN T ELSE ReplaceOnce(f[k - 1], w, a)
  <2>1. G \in [Nat -> [S -> S]]
    <3> HIDE DEF S
    <3> QED
      BY <1>1
  <2>2. \A k \in Nat : \A t \in S : G[k][t] = ReplaceOnce(t, w, a)
    <3> HIDE DEF S
    <3> QED
      OBVIOUS
  <2> HIDE DEF G, S
  <2>3. \A k \in Nat : k = 0 \/ k - 1 \in Nat
    OBVIOUS
  <2>4. T \in S
    BY DEF S
  <2>5. PICK f \in [Nat -> S] : \A k \in Nat : f[k] = IF k = 0 THEN T ELSE G[k][f[k - 1]]
    <3> DEFINE D == Nat
    <3>1. Iterable(D, S, T, G)
      BY <2>1, <2>3, <2>4 DEF Iterable
    <3> HIDE DEF D
    <3>2. \E f \in [D -> S] : \A k \in D : f[k] = IF k = 0 THEN T ELSE G[k][f[k - 1]]
      BY <3>1, Iteration
    <3> QED
      BY <3>2 DEF D
  <2>6. \A k \in Nat : k # 0 => f[k - 1] \in S
    BY <2>3, <2>5
  <2>7. \A k \in Nat : f[k] = IF k = 0 THEN T ELSE ReplaceOnce(f[k - 1], w, a)
    BY <2>2, <2>5, <2>6
  <2> QED
    BY <2>5, <2>7
<1>3. f = [k \in Nat |-> IF k = 0 THEN T ELSE ReplaceOnce(f[k - 1], w, a)]
  <2> HIDE DEF S
  <2> QED
    BY <1>2
<1>4. after = [k \in Nat |-> IF k = 0 THEN T ELSE ReplaceOnce(after[k - 1], w, a)]
  BY <1>3
<1>5. ReplaceWords(T, w, a) = after[K]
  BY DEF ReplaceWords
<1> HIDE DEF after, S
<1>6. after[0] = T /\ \A k \in Nat : after[k + 1] = ReplaceOnce(after[k], w, a)
  <2>1. \A k \in Nat : after[k] = IF k = 0 THEN T ELSE ReplaceOnce(after[k - 1], w, a)
    BY <1>4
  <2>2. \A k \in Nat : k + 1 \in Nat /\ k + 1 # 0 /\ (k + 1) - 1 = k
    OBVIOUS
  <2> QED
    BY <2>1, <2>2
<1>7. \A k \in Nat : /\ after[k] \in S
                     /\ \A v : Word(v) /\ StandsNowhere(v, T) => StandsNowhere(v, after[k])
  <2> DEFINE P == {k \in Nat : /\ after[k] \in S
                               /\ \A v : Word(v) /\ StandsNowhere(v, T) => StandsNowhere(v, after[k])}
  <2>1. 0 \in P
    BY <1>6 DEF S
  <2>2. ASSUME NEW k \in Nat, k \in P PROVE k + 1 \in P
    <3>1. after[k + 1] = ReplaceOnce(after[k], w, a) /\ after[k] \in S
      BY <1>6, <2>2
    <3>2. after[k + 1] \in S
      BY <1>1, <3>1
    <3>3. ASSUME NEW v, Word(v), StandsNowhere(v, T), NEW j \in Nat, j > 0, Stands(v,
                 after[k + 1], j)
          PROVE  FALSE
      <4>1. PICK t \in Seq(Letters) : t = after[k]
        BY <3>1 DEF S
      <4>2. Stands(v, ReplaceOnce(t, w, a), j)
        BY <3>1, <3>3, <4>1
      <4>3. \E p \in Nat : p > 0 /\ Stands(v, t, p)
        BY <3>3, <4>2, NothingComes
      <4>4. StandsNowhere(v, t)
        BY <2>2, <3>3, <4>1
      <4> QED
        BY <4>3, <4>4 DEF StandsNowhere
    <3> QED
      BY <3>2, <3>3 DEF StandsNowhere
  <2> HIDE DEF P
  <2>3. Nat \subseteq P
    BY <2>1, <2>2, SetInduction
  <2> QED
    BY <2>3 DEF P
<1>8. \E k \in 0..Len(T) : after[k + 1] = after[k]
  <2>0. Len(T) \in Nat /\ Len(w) \in Nat /\ Len(w) > 0
    BY LenProperties DEF Word
  <2>1. \A k \in Nat : StandsNowhere(w, after[k]) => after[k + 1] = after[k]
    BY <1>6, <1>7, NothingToReplace DEF S
  <2>2. CASE StandsNowhere(w, T)
    <3>1. 0 \in 0..Len(T) /\ 0 \in Nat
      BY <2>0
    <3> QED
      BY <1>6, <2>1, <2>2, <3>1
  <2>3. ASSUME NEW p \in Nat, p > 0, Stands(w, T, p), StandsNowhere(w, after[1])
        PROVE  \E k \in 0..Len(T) : after[k + 1] = after[k]
    <3>1. p + Len(w) - 1 <= Len(T)
      BY <2>3 DEF Stands, Occurs
    <3>2. 1 \in 0..Len(T)
      BY <2>0, <2>3, <3>1
    <3> QED
      BY <2>1, <2>3, <3>2
  <2>4. ASSUME NEW j \in Nat, j > 0, Stands(w, after[1], j)
        PROVE  \E k \in 0..Len(T) : after[k + 1] = after[k]
    <3>1. after[1] = ReplaceOnce(T, w, a)
      <4>1. 0 + 1 = 1
        OBVIOUS
      <4> QED
        BY <1>6, <4>1
    <3>2. PICK o \in Nat : o > 0 /\ Stands(w, T, o + Len(w) + 1)
      <4>1. Stands(w, ReplaceOnce(T, w, a), j)
        BY <2>4, <3>1
      <4>2. \E o \in Nat : o > 0 /\ Stands(w, T, o) /\ Stands(w, T, o + Len(w) + 1)
        BY <2>4, <4>1, OnlyBehindAlias
      <4> QED
        BY <4>2
    <3>3. o + Len(w) + 1 + Len(w) - 1 <= Len(T)
      BY <3>2 DEF Stands, Occurs
    <3>4. 2 \in 0..Len(T)
      BY <2>0, <3>2, <3>3
    <3>5. after[2] = ReplaceOnce(ReplaceOnce(T, w, a), w, a)
      <4>1. 1 + 1 = 2
        OBVIOUS
      <4> QED
        BY <1>6, <3>1, <4>1
    <3>6. StandsNowhere(w, after[2])
      BY <3>5, TwoPasses
    <3> QED
      BY <2>1, <3>4, <3>6
  <2>5. StandsNowhere(w, after[1]) \/ \E j \in Nat : j > 0 /\ Stands(w, after[1], j)
    BY DEF StandsNowhere
  <2>6. StandsNowhere(w, T) \/ \E p \in Nat : p > 0 /\ Stands(w, T, p)
    BY DEF StandsNowhere
  <2> QED
    BY <2>2, <2>3, <2>4, <2>5, <2>6
<1>9. K \in 0..Len(T) /\ after[K + 1] = after[K]
  BY <1>8
<1> HIDE DEF K
<1>10. K \in Nat
  BY <1>9
<1>11. StandsNowhere(w, after[K])
  <2>1. after[K] \in Seq(Letters) /\ after[K] = ReplaceOnce(after[K], w, a)
    BY <1>6, <1>7, <1>9, <1>10 DEF S
  <2>2. StandsNowhere(w, ReplaceOnce(ReplaceOnce(after[K], w, a), w, a))
    BY <2>1, TwoPasses
  <2> QED
    BY <2>1, <2>2
<1> QED
  BY <1>5, <1>7, <1>10, <1>11 DEF S

\* An order of all the names, the largest first.
IsOrder(order, size, n) ==
  /\ order \in [1..n -> 1..n]
  /\ \A i, j \in 1..n : i < j => size[order[i]] >= size[order[j]]
  /\ \A i, j \in 1..n : order[i] = order[j] => i = j
  /\ \A k \in 1..n : \E i \in 1..n : order[i] = k

\* sort.Slice leaves none out.
LEMMA OrderIsOnto ==
  ASSUME NEW n \in Nat, NEW size, DOMAIN size = 1..n, NEW order, order \in LargestFirst(size)
  PROVE  IsOrder(order, size, n)
<1>1. /\ order \in [1..n -> 1..n]
      /\ \A i, j \in 1..n : i < j => size[order[i]] >= size[order[j]]
      /\ \A i, j \in 1..n : order[i] = order[j] => i = j
  BY DEF LargestFirst
<1>2. order \in Injection(1..n, 1..n)
  BY <1>1 DEF Injection, IsInjective
<1>3. IsFiniteSet(1..n)
  BY FS_Interval
<1>4. order \in Surjection(1..n, 1..n)
  <2> DEFINE I == 1..n
  <2>1. order \in Injection(I, I) /\ IsFiniteSet(I)
    BY <1>2, <1>3
  <2> HIDE DEF I
  <2>2. order \in Surjection(I, I)
    BY <2>1, FS_Injection
  <2> QED
    BY <2>2 DEF I
<1> QED
  BY <1>1, <1>4 DEF Surjection, IsOrder

\* What is sanitized has no nick of the session in it.
LEMMA NoNickIsLeft ==
  ASSUME NEW names \in Seq(Nicks), NEW order \in NickOrders(names), NEW text \in Seq(Letters)
  PROVE  /\ SanitizeText(names, order, text) \in Seq(Letters)
         /\ \A i \in DOMAIN names : StandsNowhere(names[i], SanitizeText(names, order, text))
<1> DEFINE n == Len(names)
           D == 0..n
           S == Seq(Letters)
           Step(k, t) == ReplaceWords(t, names[order[k]], Alias(order[k]))
           G == [k \in D |-> [t \in S |-> IF k = 0 THEN t ELSE Step(k, t)]]
           out == CHOOSE f : f = [k \in D |-> IF k = 0 THEN text ELSE Step(k, f[k - 1])]
<1>0. n \in Nat /\ DOMAIN names = 1..n
  BY LenProperties
<1>1. /\ order \in [1..n -> 1..n]
      /\ \A k \in 1..n : \E i \in 1..n : order[i] = k
  <2> DEFINE size == [k \in DOMAIN names |-> Len(names[k])]
  <2>1. DOMAIN size = 1..n /\ order \in LargestFirst(size)
    BY <1>0 DEF NickOrders
  <2> HIDE DEF size, n
  <2>2. IsOrder(order, size, n)
    BY <1>0, <2>1, OrderIsOnto
  <2> QED
    BY <2>2 DEF IsOrder
<1>2. \A k \in 1..n : Word(names[order[k]]) /\ Pseudonym(Alias(order[k])) /\ k \in Nat /\ order[k] \in 1..n
  <2> SUFFICES ASSUME NEW k \in 1..n
               PROVE  Word(names[order[k]]) /\ Pseudonym(Alias(order[k])) /\ k \in Nat /\ order[k] \in 1..n
    OBVIOUS
  <2>1. order[k] \in 1..n /\ order[k] \in Nat /\ k \in Nat
    BY <1>1
  <2>2. names[order[k]] \in Nicks
    BY <2>1, ElementOfSeq
  <2> QED
    BY <2>1, <2>2, NickIsWord, AliasIsPseudonym
<1>3. \A k \in 1..n : \A t \in S :
        /\ Step(k, t) \in S
        /\ StandsNowhere(names[order[k]], Step(k, t))
        /\ \A v : Word(v) /\ StandsNowhere(v, t) => StandsNowhere(v, Step(k, t))
  BY <1>2, NothingIsLeft
<1>4. SanitizeText(names, order, text) = out[n]
  BY DEF SanitizeText
<1> HIDE DEF n, Step, S
<1>5. D \subseteq Nat /\ \A k \in D : k = 0 \/ (k - 1 \in D /\ k \in 1..n)
  BY <1>0
<1>6. G \in [D -> [S -> S]]
  BY <1>3, <1>5
<1>7. \A k \in D : \A t \in S : k # 0 => G[k][t] = Step(k, t)
  OBVIOUS
<1>8. PICK f \in [D -> S] : \A k \in D : f[k] = IF k = 0 THEN text ELSE Step(k, f[k - 1])
  <2> HIDE DEF G, D
  <2>1. text \in S /\ \A k \in D : k = 0 \/ k - 1 \in D
    BY <1>5 DEF S
  <2>2. PICK f \in [D -> S] : \A k \in D : f[k] = IF k = 0 THEN text ELSE G[k][f[k - 1]]
    <3>1. Iterable(D, S, text, G)
      BY <1>5, <1>6, <2>1 DEF Iterable
    <3> QED
      BY <3>1, Iteration
  <2>3. \A k \in D : f[k] = IF k = 0 THEN text ELSE Step(k, f[k - 1])
    BY <1>7, <2>1, <2>2
  <2> QED
    BY <2>2, <2>3
<1>9. f = [k \in D |-> IF k = 0 THEN text ELSE Step(k, f[k - 1])]
  <2> HIDE DEF D
  <2> QED
    BY <1>8
<1>10. out = [k \in D |-> IF k = 0 THEN text ELSE Step(k, out[k - 1])]
  BY <1>9
<1> HIDE DEF out, G
<1>11. \A k \in D : out[k] = IF k = 0 THEN text ELSE Step(k, out[k - 1])
  <2> HIDE DEF D
  <2> QED
    BY <1>10
<1> DEFINE P == {k \in Nat : k <= n =>
                  out[k] \in S /\ \A i \in 1..k : StandsNowhere(names[order[i]], out[k])}
<1>12. 0 \in P
  <2>1. 0 \in D /\ 1..0 = {}
    BY <1>0
  <2> QED
    BY <1>11, <2>1 DEF S
<1>13. ASSUME NEW k \in Nat, k \in P PROVE k + 1 \in P
  <2> SUFFICES ASSUME k + 1 <= n
               PROVE  out[k + 1] \in S /\ \A i \in 1..(k + 1) : StandsNowhere(names[order[i]], out[k + 1])
    OBVIOUS
  <2>1. k + 1 \in D /\ k + 1 \in 1..n /\ k + 1 # 0 /\ (k + 1) - 1 = k /\ k <= n
    BY <1>0
  <2>2. out[k + 1] = Step(k + 1, out[k])
    BY <1>11, <2>1
  <2>3. out[k] \in S /\ \A i \in 1..k : StandsNowhere(names[order[i]], out[k])
    BY <1>13, <2>1
  <2>4. out[k + 1] \in S /\ StandsNowhere(names[order[k + 1]], out[k + 1])
    BY <1>3, <2>1, <2>2, <2>3
  <2>5. ASSUME NEW i \in 1..k PROVE StandsNowhere(names[order[i]], out[k + 1])
    <3>1. i \in 1..n
      BY <1>0, <2>1
    <3>2. Word(names[order[i]]) /\ StandsNowhere(names[order[i]], out[k])
      BY <1>2, <2>3, <3>1
    <3> QED
      BY <1>3, <2>1, <2>2, <2>3, <3>2
  <2>6. \A i \in 1..(k + 1) : i \in 1..k \/ i = k + 1
    OBVIOUS
  <2> QED
    BY <2>4, <2>5, <2>6
<1> HIDE DEF P
<1>14. n \in P
  BY <1>0, <1>12, <1>13, SetInduction
<1>15. out[n] \in S /\ \A i \in 1..n : StandsNowhere(names[order[i]], out[n])
  BY <1>0, <1>14 DEF P
<1>16. \A i \in DOMAIN names : StandsNowhere(names[i], out[n])
  BY <1>0, <1>1, <1>15
<1> QED
  BY <1>4, <1>15, <1>16 DEF S

-----------------------------------------------------------------------------
(***************************************************************************)
(* ReplaceText: what stays and what goes, at the start of a text.          *)
(***************************************************************************)

\* Which texts are joined first does not matter.
LEMMA Regroup == \A x, y, z \in Seq(Letters) : (x \o y) \o z = x \o (y \o z)
<1> SUFFICES ASSUME NEW x \in Seq(Letters), NEW y \in Seq(Letters), NEW z \in Seq(Letters)
             PROVE  (x \o y) \o z = x \o (y \o z)
  OBVIOUS
<1> DEFINE S == Letters
<1>1. x \in Seq(S) /\ y \in Seq(S) /\ z \in Seq(S)
  OBVIOUS
<1> HIDE DEF S
<1> QED
  BY <1>1, ConcatAssociative

\* Texts, by a name that the provers leave closed.
IsText(x) == x \in Seq(Letters)

AreTexts(x, y, z) == IsText(x) /\ IsText(y) /\ IsText(z)

\* Regroup, with those names.
LEMMA RegroupText ==
  ASSUME NEW x, NEW y, NEW z, AreTexts(x, y, z)
  PROVE  (x \o y) \o z = x \o (y \o z)
BY Regroup DEF AreTexts, IsText

\* The rest of the text from i on, with each occurrence replaced.
TextStep(T, old, new, i, rest) ==
  IF i > Len(T) THEN <<>>
  ELSE IF Occurs(old, T, i) THEN new \o rest[i + Len(old)]
  ELSE <<T[i]>> \o rest[i + 1]

\* rest is what follows from each position on.
TextReplaces(T, old, new, rest) ==
  /\ rest \in [1..(Len(T) + 1) -> Seq(Letters)]
  /\ \A i \in 1..(Len(T) + 1) : rest[i] = TextStep(T, old, new, i, rest)

\* The rest is text, ...
LEMMA TextNext ==
  ASSUME NEW T \in Seq(Letters), NEW old \in Seq(Letters), Len(old) > 0,
         NEW i \in 1..(Len(T) + 1), ~(i > Len(T))
  PROVE  /\ i \in 1..Len(T) /\ i + 1 \in 1..(Len(T) + 1)
         /\ Occurs(old, T, i) => i + Len(old) \in 1..(Len(T) + 1) /\ i + Len(old) > i
<1>1. Len(T) \in Nat /\ Len(old) \in Nat
  BY LenProperties
<1>2. Occurs(old, T, i) => i + Len(old) - 1 <= Len(T)
  BY DEF Occurs
<1> QED
  BY <1>1, <1>2

\* ... and ReplaceText is what its definition says.
LEMMA TextForm ==
  ASSUME NEW T \in Seq(Letters), NEW old \in Seq(Letters), Len(old) > 0, NEW new \in Seq(Letters)
  PROVE  \E rest : TextReplaces(T, old, new, rest) /\ ReplaceText(T, old, new) = rest[1]
<1> DEFINE n == Len(T) + 1
           D == 1..n
           S == Seq(Letters)
           m == [i \in D |-> n - i]
           F == [i \in D |-> [f \in [D -> S] |-> TextStep(T, old, new, i, f)]]
           rest == CHOOSE f : f = [i \in D |-> TextStep(T, old, new, i, f)]
<1>0. n \in Nat
  BY LenProperties
<1>1. ASSUME NEW i \in D, NEW f \in [D -> S] PROVE TextStep(T, old, new, i, f) \in S
  <2>1. CASE i > Len(T)
    BY <2>1, EmptySeq DEF TextStep
  <2>2. CASE ~(i > Len(T)) /\ Occurs(old, T, i)
    <3>1. i + Len(old) \in D
      BY <2>2, TextNext
    <3>2. f[i + Len(old)] \in S
      BY <3>1
    <3> QED
      BY <2>2, <3>2, Joint DEF TextStep
  <2>3. CASE ~(i > Len(T)) /\ ~Occurs(old, T, i)
    <3>1. i \in 1..Len(T) /\ i + 1 \in D
      BY <2>3, TextNext
    <3>2. f[i + 1] \in S /\ T[i] \in Letters
      BY <3>1, ElementOfSeq
    <3>3. <<T[i]>> \in S
      BY <3>2, One
    <3> QED
      BY <2>3, <3>2, <3>3, Joint DEF TextStep
  <2> QED
    BY <2>1, <2>2, <2>3
<1>2. ASSUME NEW i \in D, NEW f, NEW g, \A j \in D : m[j] < m[i] => f[j] = g[j]
      PROVE  TextStep(T, old, new, i, f) = TextStep(T, old, new, i, g)
  <2>1. \A j \in D : j > i => f[j] = g[j]
    <3> HIDE DEF n
    <3> QED
      BY <1>0, <1>2
  <2>2. CASE i > Len(T)
    BY <2>2 DEF TextStep
  <2>3. CASE ~(i > Len(T))
    <3>1. f[i + 1] = g[i + 1]
      BY <2>1, <2>3, TextNext
    <3>2. Occurs(old, T, i) => f[i + Len(old)] = g[i + Len(old)]
      BY <2>1, <2>3, TextNext
    <3> QED
      BY <2>3, <3>1, <3>2 DEF TextStep
  <2> QED
    BY <2>2, <2>3
<1>3. m \in [D -> Nat]
  <2> HIDE DEF n
  <2> QED
    BY <1>0
<1>4. GivenFromBelow(D, S, m, F)
  <2>1. F \in [D -> [[D -> S] -> S]]
    <3> HIDE DEF D, S
    <3> QED
      BY <1>1
  <2>2. ASSUME NEW i \in D, NEW f \in [D -> S], NEW g \in [D -> S],
               \A j \in D : m[j] < m[i] => f[j] = g[j]
        PROVE  F[i][f] = F[i][g]
    <3>1. TextStep(T, old, new, i, f) = TextStep(T, old, new, i, g)
      BY <1>2, <2>2
    <3> HIDE DEF D, S, m
    <3> QED
      BY <3>1
  <2> HIDE DEF m, F, S, D
  <2> QED
    BY <1>3, <2>1, <2>2 DEF GivenFromBelow
<1>5. S # {}
  BY EmptySeq
<1>6. PICK f \in [D -> S] : \A i \in D : f[i] = F[i][f]
  <2> HIDE DEF m, F, S, D
  <2> QED
    BY <1>4, <1>5, Recursion
<1>7. f = [i \in D |-> TextStep(T, old, new, i, f)]
  <2> HIDE DEF D, S
  <2> QED
    BY <1>6
<1>8. rest = [i \in D |-> TextStep(T, old, new, i, rest)]
  BY <1>7
<1>9. ReplaceText(T, old, new) = rest[1]
  BY DEF ReplaceText, TextStep
<1> HIDE DEF rest
<1>10. \A i \in D : rest[i] = TextStep(T, old, new, i, rest) /\ f[i] = TextStep(T, old, new, i, f)
  <2> HIDE DEF m, F, S, D
  <2> QED
    BY <1>7, <1>8
<1>11. \A i \in D : rest[i] = f[i]
  <2>1. \A i \in D : (\A j \in D : m[j] < m[i] => rest[j] = f[j]) => rest[i] = f[i]
    BY <1>2, <1>10
  <2> HIDE DEF m, F, S, D
  <2>2. SameFromBelow(D, m, rest, f)
    BY <1>3, <2>1 DEF SameFromBelow
  <2> QED
    BY <2>2, NoOther
<1>12. rest \in [D -> S]
  <2> HIDE DEF m, F, S, D
  <2> QED
    BY <1>8, <1>11
<1>13. TextReplaces(T, old, new, rest)
  BY <1>10, <1>12 DEF TextReplaces
<1> QED
  BY <1>9, <1>13

\* An occurrence behind other text is one of what is behind.
LEMMA OccursBehind ==
  ASSUME NEW old \in Seq(Letters), Len(old) > 0, NEW u \in Seq(Letters), NEW v \in Seq(Letters),
         NEW i \in Nat, i > 0
  PROVE  Occurs(old, u \o v, Len(u) + i) <=> Occurs(old, v, i)
<1> DEFINE T == u \o v
<1>0. /\ Len(old) \in Nat /\ Len(u) \in Nat /\ Len(v) \in Nat
      /\ T \in Seq(Letters) /\ Len(T) = Len(u) + Len(v)
      /\ \A q \in 1..Len(v) : T[Len(u) + q] = v[q]
  BY LenProperties, Joint
<1> HIDE DEF T
<1>1. Occurs(old, v, i) <=> At(old, v, i)
  BY OccursAt
<1>2. Occurs(old, T, Len(u) + i) <=> At(old, T, Len(u) + i)
  <2>1. Len(u) + i \in Nat /\ Len(u) + i > 0
    BY <1>0
  <2> QED
    BY <1>0, <2>1, OccursAt
<1>3. Len(u) + i + Len(old) - 1 <= Len(T) <=> i + Len(old) - 1 <= Len(v)
  BY <1>0
<1>4. ASSUME i + Len(old) - 1 <= Len(v), NEW k \in 1..Len(old)
      PROVE  T[Len(u) + i + k - 1] = v[i + k - 1]
  <2>1. i + k - 1 \in 1..Len(v) /\ Len(u) + i + k - 1 = Len(u) + (i + k - 1)
    BY <1>0, <1>4
  <2> QED
    BY <1>0, <2>1
<1> QED
  BY <1>1, <1>2, <1>3, <1>4 DEF At, T

\* What is behind other text is replaced as it is alone.
LEMMA RestBehind ==
  ASSUME NEW old \in Seq(Letters), Len(old) > 0, NEW new \in Seq(Letters),
         NEW u \in Seq(Letters), NEW v \in Seq(Letters),
         NEW f, TextReplaces(u \o v, old, new, f), NEW g, TextReplaces(v, old, new, g)
  PROVE  f[Len(u) + 1] = g[1]
<1> DEFINE T == u \o v
           P == {i \in 1..(Len(v) + 1) : f[Len(u) + i] = g[i]}
<1>0. /\ Len(old) \in Nat /\ Len(u) \in Nat /\ Len(v) \in Nat
      /\ T \in Seq(Letters) /\ Len(T) = Len(u) + Len(v)
      /\ \A q \in 1..Len(v) : T[Len(u) + q] = v[q]
  BY LenProperties, Joint
<1> HIDE DEF T
<1>1. ASSUME NEW i \in 1..(Len(v) + 1), \A j \in 1..(Len(v) + 1) : j > i => j \in P
      PROVE  i \in P
  <2>0. Len(u) + i \in 1..(Len(T) + 1) /\ i \in Nat /\ i > 0
    BY <1>0
  <2>1. f[Len(u) + i] = TextStep(T, old, new, Len(u) + i, f) /\ g[i] = TextStep(v, old, new, i, g)
    BY <2>0 DEF TextReplaces, T
  <2>2. Len(u) + i > Len(T) <=> i > Len(v)
    BY <1>0
  <2>3. CASE i > Len(v)
    BY <2>1, <2>2, <2>3 DEF TextStep
  <2>4. CASE ~(i > Len(v)) /\ Occurs(old, v, i)
    <3>1. Occurs(old, T, Len(u) + i)
      BY <2>0, <2>4, OccursBehind DEF T
    <3>2. i + Len(old) \in 1..(Len(v) + 1) /\ i + Len(old) > i
      BY <2>4, TextNext
    <3>3. Len(u) + i + Len(old) = Len(u) + (i + Len(old))
      BY <1>0, <2>0
    <3>4. f[Len(u) + i + Len(old)] = g[i + Len(old)]
      BY <1>1, <3>2, <3>3
    <3> QED
      BY <2>1, <2>2, <2>4, <3>1, <3>4 DEF TextStep
  <2>5. CASE ~(i > Len(v)) /\ ~Occurs(old, v, i)
    <3>1. ~Occurs(old, T, Len(u) + i)
      BY <2>0, <2>5, OccursBehind DEF T
    <3>2. i \in 1..Len(v) /\ i + 1 \in 1..(Len(v) + 1) /\ i + 1 > i /\ Len(u) + i + 1 = Len(u) + (i + 1)
      BY <1>0, <2>5
    <3>3. f[Len(u) + i + 1] = g[i + 1] /\ T[Len(u) + i] = v[i]
      BY <1>0, <1>1, <3>2
    <3> QED
      BY <2>1, <2>2, <2>5, <3>1, <3>3 DEF TextStep
  <2> QED
    BY <2>3, <2>4, <2>5
<1>2. 1 \in 1..(Len(v) + 1) /\ Len(v) + 1 \in Nat
  BY <1>0
<1>3. \A i \in 1..(Len(v) + 1) : i \in P
  <2> HIDE DEF P
  <2> QED
    BY <1>1, <1>2, Downward
<1> QED
  BY <1>2, <1>3

\* strings.ReplaceAll leaves text.
LEMMA TextType ==
  ASSUME NEW T \in Seq(Letters), NEW old \in Seq(Letters), Len(old) > 0, NEW new \in Seq(Letters)
  PROVE  ReplaceText(T, old, new) \in Seq(Letters)
<1>1. PICK rest : TextReplaces(T, old, new, rest) /\ ReplaceText(T, old, new) = rest[1]
  BY TextForm
<1>2. 1 \in 1..(Len(T) + 1)
  BY LenProperties
<1> QED
  BY <1>1, <1>2 DEF TextReplaces

\* Three texts, with the first two joined first, or the last two.
FirstTwo(x, y, z) == (x \o y) \o z
LastTwo(x, y, z) == x \o (y \o z)

\* That is the same.
LEMMA JoinedText ==
  ASSUME NEW x, NEW y, NEW z, AreTexts(x, y, z)
  PROVE  FirstTwo(x, y, z) = LastTwo(x, y, z)
BY RegroupText DEF FirstTwo, LastTwo

\* Nothing that is replaced begins in u.
OccursNot(old, u, v) == \A i \in 1..Len(u) : ~Occurs(old, u \o v, i)

\* Such text stays.
LEMMA TextStays ==
  ASSUME NEW old \in Seq(Letters), Len(old) > 0, NEW new \in Seq(Letters),
         NEW u \in Seq(Letters), NEW v \in Seq(Letters), OccursNot(old, u, v)
  PROVE  ReplaceText(u \o v, old, new) = u \o ReplaceText(v, old, new)
<1>a. \A i \in 1..Len(u) : ~Occurs(old, u \o v, i)
  BY DEF OccursNot
<1> DEFINE T == u \o v
           n == Len(u)
<1>0. /\ n \in Nat /\ Len(v) \in Nat /\ T \in Seq(Letters) /\ Len(T) = n + Len(v)
      /\ \A q \in 1..n : T[q] = u[q]
  BY LenProperties, Joint
<1>1. PICK g : TextReplaces(v, old, new, g) /\ ReplaceText(v, old, new) = g[1]
  BY TextForm
<1>2. PICK f : TextReplaces(T, old, new, f) /\ ReplaceText(T, old, new) = f[1]
  BY <1>0, TextForm
<1>3. f[n + 1] = g[1]
  BY <1>1, <1>2, RestBehind
<1>4. g[1] \in Seq(Letters)
  BY <1>1, TextType
<1> HIDE DEF T
<1> DEFINE P == {i \in 1..(n + 1) : f[i] = SubSeq(u, i, n) \o g[1]}
<1>5. ASSUME NEW i \in 1..(n + 1), \A j \in 1..(n + 1) : j > i => j \in P
      PROVE  i \in P
  <2>1. CASE i = n + 1
    <3>1. SubSeq(u, i, n) = <<>>
      BY <1>0, <2>1, SubSeqEmpty
    <3> QED
      BY <1>3, <1>4, <2>1, <3>1, ConcatEmptySeq
  <2>2. CASE i # n + 1
    <3>1. i \in 1..n /\ i + 1 \in 1..(n + 1) /\ i + 1 > i /\ i \in 1..(Len(T) + 1) /\ ~(i > Len(T))
      BY <1>0, <2>2
    <3>2. f[i] = <<u[i]>> \o f[i + 1]
      BY <1>0, <1>2, <1>a, <3>1 DEF TextReplaces, TextStep, T
    <3>3. f[i + 1] = SubSeq(u, i + 1, n) \o g[1]
      BY <1>5, <3>1
    <3>4. SubSeq(u, i, n) = <<u[i]>> \o SubSeq(u, i + 1, n)
      <4>1. n \in i..Len(u)
        BY <1>0, <3>1
      <4> QED
        BY <3>1, <4>1, SubSeqRecursiveFirst
    <3>5. <<u[i]>> \in Seq(Letters) /\ SubSeq(u, i + 1, n) \in Seq(Letters)
      <4>1. u[i] \in Letters
        BY <3>1, ElementOfSeq
      <4>2. \A k \in (i + 1)..n : u[k] \in Letters
        <5>1. \A k \in (i + 1)..n : k \in 1..n
          BY <1>0, <3>1
        <5> QED
          BY <5>1, ElementOfSeq
      <4>3. i + 1 \in Int /\ n \in Int
        BY <1>0
      <4>4. SubSeq(u, i + 1, n) \in Seq(Letters)
        BY <4>2, <4>3, SubSeqProperties
      <4> QED
        BY <4>1, <4>4, One
    <3>6. PICK p, q, r : p = <<u[i]>> /\ q = SubSeq(u, i + 1, n) /\ r = g[1]
      OBVIOUS
    <3>7. AreTexts(p, q, r)
      BY <1>4, <3>5, <3>6 DEF AreTexts, IsText
    <3>8. FirstTwo(p, q, r) = LastTwo(p, q, r)
      BY ONLY <3>7, JoinedText
    <3> QED
      BY <3>2, <3>3, <3>4, <3>6, <3>8 DEF FirstTwo, LastTwo
  <2> QED
    BY <2>1, <2>2
<1>6. 1 \in 1..(n + 1) /\ n + 1 \in Nat
  BY <1>0
<1>7. f[1] = SubSeq(u, 1, n) \o g[1]
  <2>1. \A i \in 1..(n + 1) : i \in P
    <3> HIDE DEF P, n
    <3> QED
      BY <1>5, <1>6, Downward
  <2> QED
    BY <1>6, <2>1
<1>8. SubSeq(u, 1, n) = u
  BY SubSeqFull
<1> QED
  BY <1>1, <1>2, <1>7, <1>8 DEF T

\* What is replaced goes.
LEMMA TextGoes ==
  ASSUME NEW old \in Seq(Letters), Len(old) > 0, NEW new \in Seq(Letters), NEW v \in Seq(Letters)
  PROVE  ReplaceText(old \o v, old, new) = new \o ReplaceText(v, old, new)
<1> DEFINE T == old \o v
<1>0. /\ Len(old) \in Nat /\ Len(v) \in Nat /\ T \in Seq(Letters) /\ Len(T) = Len(old) + Len(v)
      /\ \A q \in 1..Len(old) : T[q] = old[q]
  BY LenProperties, Joint
<1>1. PICK g : TextReplaces(v, old, new, g) /\ ReplaceText(v, old, new) = g[1]
  BY TextForm
<1>2. PICK f : TextReplaces(T, old, new, f) /\ ReplaceText(T, old, new) = f[1]
  BY <1>0, TextForm
<1>3. f[Len(old) + 1] = g[1]
  BY <1>1, <1>2, RestBehind
<1> HIDE DEF T
<1>4. Occurs(old, T, 1)
  <2>1. At(old, T, 1)
    BY <1>0 DEF At
  <2>2. Occurs(old, T, 1) <=> At(old, T, 1)
    BY <1>0, OccursAt
  <2> QED
    BY ONLY <2>1, <2>2
<1>5. 1 \in 1..(Len(T) + 1) /\ ~(1 > Len(T)) /\ 1 + Len(old) = Len(old) + 1
  BY <1>0
<1>6. f[1] = new \o f[1 + Len(old)]
  BY <1>2, <1>4, <1>5 DEF TextReplaces, TextStep
<1> QED
  BY <1>1, <1>2, <1>3, <1>5, <1>6 DEF T

-----------------------------------------------------------------------------
(***************************************************************************)
(* DesanitizeText: an answer, piece by piece.                              *)
(***************************************************************************)

\* A function from the first numbers is a sequence.
LEMMA FunctionIsSeq ==
  ASSUME NEW S, NEW n \in Nat, NEW f \in [1..n -> S]
  PROVE  f \in Seq(S) /\ Len(f) = n
<1>1. f \in Seq(S)
  BY SeqDef
<1>2. Len(f) \in Nat /\ DOMAIN f = 1..Len(f) /\ DOMAIN f = 1..n
  BY <1>1, LenProperties
<1> QED
  BY <1>1, <1>2

\* The texts one behind the other.
Flattens(n, seqs, fl) ==
  /\ fl \in [0..n -> Seq(Letters)] /\ fl[0] = <<>>
  /\ \A k \in 1..n : fl[k] = fl[k - 1] \o seqs[k]

\* FlattenSeq is what its definition says.
LEMMA FlattenForm ==
  ASSUME NEW n \in Nat, NEW seqs \in [1..n -> Seq(Letters)]
  PROVE  \E fl : Flattens(n, seqs, fl) /\ SE!FlattenSeq(seqs) = fl[n]
<1> DEFINE D == 0..n
           S == Seq(Letters)
           G == [k \in D |-> [t \in S |-> IF k = 0 THEN t ELSE t \o seqs[k]]]
           flat == CHOOSE f : f = [i \in 1..n |-> IF i = 1 THEN seqs[i] ELSE f[i - 1] \o seqs[i]]
<1>0. D \subseteq Nat /\ \A k \in D : k = 0 \/ (k - 1 \in D /\ k \in 1..n)
  OBVIOUS
<1>1. <<>> \in S
  BY EmptySeq
<1>2. \A k \in 1..n : seqs[k] \in S
  OBVIOUS
<1>3. \A k \in 1..n : \A t \in S : t \o seqs[k] \in S
  BY <1>2, Joint
<1> HIDE DEF S
<1>4. G \in [D -> [S -> S]] /\ \A k \in D : \A t \in S : k # 0 => G[k][t] = t \o seqs[k]
  BY <1>0, <1>3
<1>5. PICK fl \in [D -> S] : \A k \in D : fl[k] = IF k = 0 THEN <<>> ELSE G[k][fl[k - 1]]
  <2> HIDE DEF D, G
  <2>1. \A k \in D : k = 0 \/ k - 1 \in D
    BY <1>0
  <2>2. Iterable(D, S, <<>>, G)
    BY <1>0, <1>1, <1>4, <2>1 DEF Iterable
  <2> QED
    BY <2>2, Iteration
<1>6. Flattens(n, seqs, fl)
  <2>1. fl[0] = <<>>
    BY <1>5
  <2>2. ASSUME NEW k \in 1..n PROVE fl[k] = fl[k - 1] \o seqs[k]
    <3>1. k \in D /\ k # 0 /\ k - 1 \in D
      OBVIOUS
    <3>2. fl[k] = G[k][fl[k - 1]] /\ fl[k - 1] \in S
      BY <1>5, <3>1
    <3> HIDE DEF D, G
    <3> QED
      BY <1>4, <3>1, <3>2
  <2> QED
    BY <1>5, <2>1, <2>2 DEF Flattens, S
<1>7. Len(seqs) = n /\ (n = 0 => seqs = <<>>)
  <2>1. seqs \in Seq(S) /\ Len(seqs) = n
    BY FunctionIsSeq DEF S
  <2>2. n = 0 => seqs = <<>>
    BY <2>1, EmptySeq
  <2> QED
    BY <2>1, <2>2
<1>8. CASE n = 0
  <2>1. SE!FlattenSeq(seqs) = seqs
    BY <1>7, <1>8 DEF SE!FlattenSeq
  <2> QED
    BY <1>6, <1>7, <1>8, <2>1 DEF Flattens
<1>9. CASE n # 0
  <2>1. SE!FlattenSeq(seqs) = flat[n]
    BY <1>7, <1>9 DEF SE!FlattenSeq
  <2> DEFINE f == [i \in 1..n |-> fl[i]]
  <2>2. \A i \in 1..n : f[i] = IF i = 1 THEN seqs[i] ELSE f[i - 1] \o seqs[i]
    <3> SUFFICES ASSUME NEW i \in 1..n PROVE f[i] = IF i = 1 THEN seqs[i] ELSE f[i - 1] \o seqs[i]
      OBVIOUS
    <3>1. f[i] = fl[i] /\ fl[i] = fl[i - 1] \o seqs[i]
      BY <1>6 DEF Flattens
    <3>2. CASE i = 1
      <4>1. fl[i - 1] = <<>>
        BY <1>6, <3>2 DEF Flattens
      <4>2. <<>> \o seqs[i] = seqs[i]
        BY <1>2, ConcatEmptySeq DEF S
      <4> QED
        BY <3>1, <3>2, <4>1, <4>2
    <3>3. CASE i # 1
      <4>1. i - 1 \in 1..n
        BY <3>3
      <4> QED
        BY <3>1, <3>3, <4>1
    <3> QED
      BY <3>2, <3>3
  <2>3. f = [i \in 1..n |-> IF i = 1 THEN seqs[i] ELSE f[i - 1] \o seqs[i]]
    BY <2>2
  <2>4. flat = [i \in 1..n |-> IF i = 1 THEN seqs[i] ELSE flat[i - 1] \o seqs[i]]
    <3> HIDE DEF f
    <3> QED
      BY <2>3
  <2>5. \A i \in 1..n : flat[i] = IF i = 1 THEN seqs[i] ELSE flat[i - 1] \o seqs[i]
    <3> HIDE DEF flat
    <3> QED
      BY <2>4
  <2> HIDE DEF flat
  <2> DEFINE P == {k \in Nat : k \in 1..n => flat[k] = fl[k]}
  <2>6. 0 \in P
    OBVIOUS
  <2>7. ASSUME NEW k \in Nat, k \in P PROVE k + 1 \in P
    <3> SUFFICES ASSUME k + 1 \in 1..n PROVE flat[k + 1] = fl[k + 1]
      OBVIOUS
    <3>1. f[k + 1] = fl[k + 1]
      OBVIOUS
    <3>2. CASE k = 0
      <4>1. k + 1 = 1
        BY <3>2
      <4>2. flat[k + 1] = seqs[k + 1] /\ f[k + 1] = seqs[k + 1]
        BY <2>2, <2>5, <4>1
      <4> QED
        BY <3>1, <4>2
    <3>3. CASE k # 0
      <4>1. k \in 1..n /\ k + 1 # 1 /\ (k + 1) - 1 = k
        BY <3>3
      <4>2. flat[k + 1] = flat[k] \o seqs[k + 1]
        BY <2>5, <4>1
      <4>3. fl[k + 1] = fl[k] \o seqs[k + 1]
        BY <1>6, <4>1 DEF Flattens
      <4> QED
        BY <2>7, <4>1, <4>2, <4>3
    <3> QED
      BY <3>2, <3>3
  <2> HIDE DEF P
  <2>8. n \in P
    BY <2>6, <2>7, SetInduction
  <2>9. flat[n] = fl[n]
    BY <1>9, <2>8 DEF P
  <2> QED
    BY <1>6, <2>1, <2>9
<1> QED
  BY <1>8, <1>9

\* Text that no digit of an alias before it goes on in.
Free(v) == v = <<>> \/ ~IsDigit(v[1])

\* Wherever c is, what comes of it is d.
Turns(c, d, old, new) ==
  \A v \in Seq(Letters) : Free(v) => ReplaceText(c \o v, old, new) = d \o ReplaceText(v, old, new)

\* What turns, one behind the other, turns together, ...
LEMMA TurnsTogether ==
  ASSUME NEW old, NEW new, IsText(old), Len(old) > 0, IsText(new), NEW u, NEW t, NEW c, NEW d,
         IsText(u), IsText(t), IsText(c), IsText(d), Free(c),
         Turns(u, t, old, new), Turns(c, d, old, new)
  PROVE  Turns(u \o c, t \o d, old, new)
<1> SUFFICES ASSUME NEW v, IsText(v), Free(v)
             PROVE  ReplaceText((u \o c) \o v, old, new) = (t \o d) \o ReplaceText(v, old, new)
  BY DEF Turns, IsText
<1>1. PICK r : r = ReplaceText(v, old, new)
  OBVIOUS
<1>2. IsText(r)
  BY <1>1, TextType DEF IsText
<1>3. PICK w : w = c \o v
  OBVIOUS
<1>4. IsText(w)
  BY <1>3, Joint DEF IsText
<1>5. Free(w)
  <2>1. CASE c = <<>>
    BY <1>3, <2>1, ConcatEmptySeq DEF IsText
  <2>2. CASE c # <<>>
    <3>1. Len(c) \in Nat \ {0}
      BY <2>2, EmptySeq DEF IsText
    <3>2. w[1] = c[1]
      BY <1>3, <3>1, Joint DEF IsText
    <3> QED
      BY <2>2, <3>2 DEF Free
  <2> QED
    BY <2>1, <2>2
<1>6. (u \o c) \o v = u \o w
  <2>1. AreTexts(u, c, v)
    BY DEF AreTexts
  <2>2. (u \o c) \o v = u \o (c \o v)
    BY <2>1, RegroupText
  <2> QED
    BY <1>3, <2>2
<1>7. (t \o d) \o r = t \o (d \o r)
  <2>1. AreTexts(t, d, r)
    BY <1>2 DEF AreTexts
  <2> QED
    BY <2>1, RegroupText
<1>8. ReplaceText(u \o w, old, new) = t \o ReplaceText(w, old, new)
  BY <1>4, <1>5 DEF Turns, IsText
<1>9. ReplaceText(w, old, new) = d \o r
  BY <1>1, <1>3 DEF Turns, IsText
<1> QED
  BY <1>1, <1>6, <1>7, <1>8, <1>9

\* ... and so do all the pieces of a text.
AllTurn(n, cs, ds, old, new) ==
  /\ IsText(old) /\ Len(old) > 0 /\ IsText(new) /\ n \in Nat
  /\ cs \in [1..n -> Seq(Letters)] /\ ds \in [1..n -> Seq(Letters)]
  /\ \A k \in 1..n : Free(cs[k]) /\ Turns(cs[k], ds[k], old, new)

\* strings.ReplaceAll works on a text piece by piece where each piece does.
LEMMA FlattenTurns ==
  ASSUME NEW n, NEW cs, NEW ds, NEW old, NEW new, AllTurn(n, cs, ds, old, new)
  PROVE  ReplaceText(SE!FlattenSeq(cs), old, new) = SE!FlattenSeq(ds)
<1>0. old \in Seq(Letters) /\ Len(old) > 0 /\ new \in Seq(Letters) /\ n \in Nat
  BY DEF AllTurn, IsText
<1>a. cs \in [1..n -> Seq(Letters)] /\ ds \in [1..n -> Seq(Letters)]
  BY DEF AllTurn
<1>b. \A k \in 1..n : Free(cs[k]) /\ Turns(cs[k], ds[k], old, new)
  BY DEF AllTurn
<1>1. PICK fc : Flattens(n, cs, fc) /\ SE!FlattenSeq(cs) = fc[n]
  BY <1>0, <1>a, FlattenForm
<1>2. PICK fd : Flattens(n, ds, fd) /\ SE!FlattenSeq(ds) = fd[n]
  BY <1>0, <1>a, FlattenForm
<1> DEFINE P == {k \in Nat : k <= n => Turns(fc[k], fd[k], old, new)}
<1>3. 0 \in P
  <2>1. fc[0] = <<>> /\ fd[0] = <<>>
    BY <1>1, <1>2 DEF Flattens
  <2>2. ASSUME NEW v \in Seq(Letters)
        PROVE  ReplaceText(<<>> \o v, old, new) = <<>> \o ReplaceText(v, old, new)
    <3>1. ReplaceText(v, old, new) \in Seq(Letters)
      BY <1>0, TextType
    <3> QED
      BY <3>1, ConcatEmptySeq
  <2> QED
    BY <2>1, <2>2 DEF Turns
<1>4. ASSUME NEW k \in Nat, k \in P PROVE k + 1 \in P
  <2> SUFFICES ASSUME k + 1 <= n PROVE Turns(fc[k + 1], fd[k + 1], old, new)
    OBVIOUS
  <2>1. k + 1 \in 1..n /\ k \in 0..n /\ (k + 1) - 1 = k /\ k <= n
    BY <1>0
  <2>2. /\ IsText(fc[k]) /\ IsText(fd[k]) /\ IsText(cs[k + 1]) /\ IsText(ds[k + 1])
        /\ fc[k + 1] = fc[k] \o cs[k + 1] /\ fd[k + 1] = fd[k] \o ds[k + 1]
    BY <1>1, <1>2, <1>a, <2>1 DEF Flattens, IsText
  <2>3. Free(cs[k + 1]) /\ Turns(cs[k + 1], ds[k + 1], old, new) /\ Turns(fc[k], fd[k], old, new)
    BY <1>4, <1>b, <2>1
  <2>4. Turns(fc[k] \o cs[k + 1], fd[k] \o ds[k + 1], old, new)
    BY <1>0, <2>2, <2>3, TurnsTogether DEF IsText
  <2> QED
    BY <2>2, <2>4
<1> HIDE DEF P
<1>5. n \in P
  BY <1>0, <1>3, <1>4, SetInduction
<1>6. Turns(fc[n], fd[n], old, new)
  BY <1>0, <1>5 DEF P
<1>7. ReplaceText(<<>>, old, new) = <<>>
  <2>1. <<>> \in Seq(Letters) /\ Len(<<>>) = 0
    BY EmptySeq
  <2>2. PICK rest : TextReplaces(<<>>, old, new, rest) /\ ReplaceText(<<>>, old, new) = rest[1]
    BY <1>0, <2>1, TextForm
  <2>3. 1 \in 1..(Len(<<>>) + 1) /\ 1 > Len(<<>>)
    BY <2>1
  <2>4. rest[1] = TextStep(<<>>, old, new, 1, rest)
    BY <2>2, <2>3 DEF TextReplaces
  <2> QED
    BY <2>2, <2>3, <2>4 DEF TextStep
<1>8. <<>> \in Seq(Letters) /\ Free(<<>>)
  BY EmptySeq DEF Free
<1>9. fc[n] \in Seq(Letters) /\ fd[n] \in Seq(Letters)
  <2>1. n \in 0..n
    BY <1>0
  <2> QED
    BY <1>1, <1>2, <2>1 DEF Flattens
<1>10. fc[n] \o <<>> = fc[n] /\ fd[n] \o <<>> = fd[n]
  BY <1>9, ConcatEmptySeq
<1>11. ReplaceText(fc[n] \o <<>>, old, new) = fd[n] \o ReplaceText(<<>>, old, new)
  BY <1>6, <1>8 DEF Turns
<1> QED
  BY <1>1, <1>2, <1>7, <1>10, <1>11

\* T is v behind u.
IsJoint(T, u, v) ==
  /\ T \in Seq(Letters) /\ T = u \o v /\ Len(T) = Len(u) + Len(v)
  /\ \A q \in 1..Len(u) : T[q] = u[q]
  /\ \A q \in 1..Len(v) : T[Len(u) + q] = v[q]

\* There is such a text.
LEMMA TextJoint ==
  ASSUME NEW u \in Seq(Letters), NEW v \in Seq(Letters)
  PROVE  \E T : IsJoint(T, u, v)
<1> DEFINE L == Letters
<1>1. u \in Seq(L) /\ v \in Seq(L)
  OBVIOUS
<1> HIDE DEF L
<1>2. /\ u \o v \in Seq(L) /\ Len(u \o v) = Len(u) + Len(v)
      /\ \A i \in 1..Len(u) : (u \o v)[i] = u[i]
      /\ \A i \in 1..Len(v) : (u \o v)[Len(u) + i] = v[i]
  BY ONLY <1>1, Joint
<1>3. IsJoint(u \o v, u, v)
  <2> USE DEF L
  <2> QED
    BY ONLY <1>2 DEF IsJoint, L
<1> QED
  BY ONLY <1>3

\* Text without an "E" stays as it is.
LEMMA PlainTurns ==
  ASSUME NEW old, Pseudonym(old), NEW new \in Seq(Letters), NEW c \in Seq(Characters)
  PROVE  c \in Seq(Letters) /\ Turns(c, c, old, new)
<1>0. old \in Seq(Letters) /\ Len(old) \in Nat /\ Len(old) > 1 /\ old[1] = "E"
  BY DEF Pseudonym
<1>1. c \in Seq(Letters)
  BY SeqMonotonic DEF Letters
<1>2. ASSUME NEW v \in Seq(Letters), NEW i \in 1..Len(c), Occurs(old, c \o v, i) PROVE FALSE
  <2>0. Len(c) \in Nat
    BY <1>1, LenProperties
  <2>1. PICK T : IsJoint(T, c, v)
    BY <1>1, TextJoint
  <2>2a. T \in Seq(Letters) /\ T = c \o v /\ T[i] = c[i]
    BY <2>1 DEF IsJoint
  <2>2. c[i] \in Characters
    BY ElementOfSeq
  <2>3. At(old, T, i)
    <3>1. i \in Nat /\ i > 0
      BY <2>0
    <3>2. Occurs(old, T, i) /\ Len(old) > 0
      BY <1>0, <1>2, <2>2a
    <3>3. Occurs(old, T, i) <=> At(old, T, i)
      BY <1>0, <2>2a, <3>1, <3>2, OccursAt
    <3> QED
      BY <3>2, <3>3
  <2>4. 1 \in 1..Len(old) /\ i + 1 - 1 = i
    BY <1>0, <2>0
  <2>5. T[i] = "E"
    BY <1>0, <2>3, <2>4 DEF At
  <2> QED
    BY <2>2a, <2>2, <2>5, NicksAssumption
<1>3. ASSUME NEW v \in Seq(Letters)
      PROVE  ReplaceText(c \o v, old, new) = c \o ReplaceText(v, old, new)
  <2>1. Len(old) > 0
    BY <1>0
  <2> QED
    <3>1. OccursNot(old, c, v)
      BY <1>2 DEF OccursNot
    <3> QED
      BY <1>0, <1>1, <2>1, <3>1, TextStays
<1> QED
  BY <1>1, <1>3 DEF Turns

\* So does an alias that is not longer, where no digit follows, ...
LEMMA OtherAliasTurns ==
  ASSUME NEW o \in Nat, NEW l \in Nat, l # o, Len(Alias(l)) <= Len(Alias(o)),
         NEW new \in Seq(Letters)
  PROVE  Turns(Alias(l), Alias(l), Alias(o), new)
<1>0. PICK a, b : a = Alias(o) /\ b = Alias(l)
  OBVIOUS
<1>1. /\ a \in Seq(Letters) /\ Len(a) \in Nat /\ Len(a) > 1 /\ Len(a) = Len(Numeral[o]) + 1
      /\ a[1] = "E" /\ \A i \in 2..Len(a) : a[i] = Numeral[o][i - 1] /\ a[i] \in DigitSet
  BY <1>0, AliasForm
<1>2. /\ b \in Seq(Letters) /\ Len(b) \in Nat /\ Len(b) > 1 /\ Len(b) = Len(Numeral[l]) + 1
      /\ b[1] = "E" /\ \A i \in 2..Len(b) : b[i] = Numeral[l][i - 1] /\ b[i] \in DigitSet
  BY <1>0, AliasForm
<1>3. "E" \notin DigitSet /\ \A c \in DigitSet : IsDigit(c)
  BY Base, NicksAssumption
<1>4. ASSUME NEW v \in Seq(Letters), Free(v), NEW i \in 1..Len(b), Occurs(a, b \o v, i) PROVE FALSE
  <2>0. PICK T : IsJoint(T, b, v)
    BY <1>2, TextJoint
  <2>1. /\ T \in Seq(Letters) /\ T = b \o v /\ Len(T) = Len(b) + Len(v)
        /\ \A q \in 1..Len(b) : T[q] = b[q]
        /\ \A q \in 1..Len(v) : T[Len(b) + q] = v[q]
    BY <2>0 DEF IsJoint
  <2>2. At(a, T, i)
    <3>1. i \in Nat /\ i > 0
      BY <1>2
    <3>2. Occurs(a, T, i) /\ Len(a) > 0
      BY <1>1, <1>4, <2>1
    <3>3. Occurs(a, T, i) <=> At(a, T, i)
      BY <1>1, <2>1, <3>1, <3>2, OccursAt
    <3> QED
      BY <3>2, <3>3
  <2>3. i = 1
    <3>1. 1 \in 1..Len(a) /\ i + 1 - 1 = i
      BY <1>1, <1>2
    <3>2. T[i] = "E"
      BY <1>1, <2>2, <3>1 DEF At
    <3>3. i # 1 => i \in 2..Len(b)
      BY <1>2
    <3> QED
      BY <1>2, <1>3, <2>1, <3>2, <3>3
  <2>4. Len(a) <= Len(T) /\ \A q \in 1..Len(a) : T[q] = a[q]
    <3>1. 1 + Len(a) - 1 = Len(a) /\ \A q \in 1..Len(a) : 1 + q - 1 = q
      BY <1>1
    <3>2. At(a, T, 1)
      BY <2>2, <2>3
    <3>3. 1 + Len(a) - 1 <= Len(T) /\ \A q \in 1..Len(a) : T[1 + q - 1] = a[q]
      BY ONLY <3>2 DEF At
    <3> QED
      BY ONLY <3>1, <3>3
  <2>5. Len(v) \in Nat
    BY LenProperties
  <2>6. CASE Len(b) < Len(a)
    <3>1. 1 \in 1..Len(v) /\ Len(b) + 1 \in 2..Len(a) /\ Len(b) + 1 \in 1..Len(a) /\ v # <<>>
      <4>1. Len(v) > 0
        <5>1. /\ Len(T) = Len(b) + Len(v) /\ Len(a) <= Len(T) /\ Len(b) < Len(a)
              /\ Len(a) \in Nat /\ Len(b) \in Nat /\ Len(v) \in Nat
          BY <1>1, <1>2, <2>1, <2>4, <2>5, <2>6
        <5> QED
          BY ONLY <5>1
      <4>2. v # <<>>
        BY <4>1, EmptySeq
      <4>3. 1 \in 1..Len(v)
        BY <2>5, <4>1
      <4>4. Len(b) + 1 \in 2..Len(a) /\ Len(b) + 1 \in 1..Len(a)
        <5>1. Len(a) \in Nat /\ Len(b) \in Nat /\ Len(b) > 1 /\ Len(b) < Len(a)
          BY <1>1, <1>2, <2>6
        <5> QED
          BY ONLY <5>1
      <4> QED
        BY <4>2, <4>3, <4>4
    <3>2. v[1] = a[Len(b) + 1]
      BY <2>1, <2>4, <3>1
    <3> QED
      BY <1>1, <1>3, <1>4, <3>1, <3>2 DEF Free
  <2>7. CASE Len(b) = Len(a)
    <3>1. Len(Numeral[l]) = Len(Numeral[o])
      <4>1. PICK x \in Nat, y \in Nat : x = Len(Numeral[l]) /\ y = Len(Numeral[o])
        BY NumeralType
      <4>2. x + 1 = y + 1
        BY <1>1, <1>2, <2>7, <4>1
      <4>3. x = y
        BY <4>2
      <4> QED
        BY <4>1, <4>3
    <3>2. ASSUME NEW q \in 1..Len(Numeral[l]) PROVE Numeral[l][q] = Numeral[o][q]
      <4>1. q + 1 \in 2..Len(b) /\ q + 1 \in 1..Len(b) /\ (q + 1) - 1 = q
        <5>1. Len(Numeral[l]) \in Nat
          BY NumeralType
        <5> QED
          BY <1>2, <5>1
      <4>2. b[q + 1] = a[q + 1]
        BY <2>1, <2>4, <2>7, <4>1
      <4> QED
        BY <1>1, <1>2, <2>7, <4>1, <4>2
    <3>3. Numeral[l] = Numeral[o]
      BY <3>1, <3>2, NumeralType, SeqEqual
    <3> QED
      BY <3>3, NumeralInjective
  <2> QED
    BY <1>0, <1>1, <1>2, <2>6, <2>7
<1>5. ASSUME NEW v \in Seq(Letters), Free(v)
      PROVE  ReplaceText(b \o v, a, new) = b \o ReplaceText(v, a, new)
  <2>1. Len(a) > 0
    BY <1>1
  <2>2. OccursNot(a, b, v)
    BY <1>4, <1>5 DEF OccursNot
  <2>3. a \in Seq(Letters) /\ b \in Seq(Letters)
    BY <1>1, <1>2
  <2> QED
    BY <2>1, <2>2, <2>3, TextStays
<1> QED
  BY <1>0, <1>5 DEF Turns

\* ... and the alias itself becomes the nick.
LEMMA OwnAliasTurns ==
  ASSUME NEW o \in Nat, NEW new \in Seq(Letters)
  PROVE  Turns(Alias(o), new, Alias(o), new)
<1>1. PICK a : a = Alias(o)
  OBVIOUS
<1>2. a \in Seq(Letters) /\ Len(a) > 0
  BY <1>1, AliasForm
<1>3. \A v \in Seq(Letters) : ReplaceText(a \o v, a, new) = new \o ReplaceText(v, a, new)
  BY <1>2, TextGoes
<1> QED
  BY <1>1, <1>3 DEF Turns

\* An answer to a session of these nicks.
PieceOf(names, piece) ==
  /\ piece.alias \in 0..Len(names)
  /\ piece.alias = 0 => piece.text \in Plain

\* A piece when the aliases of the first k of the order are nicks again.
Part(names, order, k, piece) ==
  IF piece.alias = 0 THEN piece.text
  ELSE IF \E i \in 1..k : order[i] = piece.alias THEN names[piece.alias] ELSE Alias(piece.alias)

\* A pass of DesanitizeText turns each piece from one part into the next.
LEMMA PartTurns ==
  ASSUME NEW names \in Seq(Nicks), NEW order, IsOrder(order,
         [k \in DOMAIN names |-> Len(Alias(k))], Len(names)),
         NEW k \in Nat, k + 1 <= Len(names), NEW piece, PieceOf(names, piece)
  PROVE  LET c == Part(names, order, k, piece)
             d == Part(names, order, k + 1, piece) IN
           /\ c \in Seq(Letters) /\ d \in Seq(Letters) /\ Free(c)
           /\ Turns(c, d, Alias(order[k + 1]), names[order[k + 1]])
<1> DEFINE c == Part(names, order, k, piece)
           d == Part(names, order, k + 1, piece)
           n == Len(names)
           p == piece.alias
<1>0. n \in Nat /\ DOMAIN names = 1..n
  BY LenProperties
<1>1. /\ order \in [1..n -> 1..n]
      /\ \A i, j \in 1..n : i < j => Len(Alias(order[i])) >= Len(Alias(order[j]))
      /\ \A i, j \in 1..n : order[i] = order[j] => i = j
      /\ \A q \in 1..n : \E i \in 1..n : order[i] = q
  <2>0. PICK size : /\ size = [q \in DOMAIN names |-> Len(Alias(q))]
                    /\ IsOrder(order, size, Len(names))
    OBVIOUS
  <2>1. \A q \in 1..n : size[q] = Len(Alias(q))
    BY <1>0, <2>0
  <2>a. IsOrder(order, size, n)
    BY <2>0
  <2> HIDE DEF n
  <2>2. /\ order \in [1..n -> 1..n]
        /\ \A i, j \in 1..n : i < j => size[order[i]] >= size[order[j]]
        /\ \A i, j \in 1..n : order[i] = order[j] => i = j
        /\ \A q \in 1..n : \E i \in 1..n : order[i] = q
    BY ONLY <2>a DEF IsOrder
  <2>3. \A i \in 1..n : size[order[i]] = Len(Alias(order[i]))
    BY <2>1, <2>2
  <2>4. ASSUME NEW i \in 1..n, NEW j \in 1..n, i < j
        PROVE  Len(Alias(order[i])) >= Len(Alias(order[j]))
    <3>1. size[order[i]] >= size[order[j]]
      BY <2>2, <2>4
    <3>2. size[order[i]] = Len(Alias(order[i])) /\ size[order[j]] = Len(Alias(order[j]))
      BY <2>3
    <3> QED
      BY ONLY <3>1, <3>2, Zenon
  <2> QED
    BY ONLY <2>2, <2>4
<1>2. /\ k + 1 \in 1..n /\ order[k + 1] \in 1..n /\ order[k + 1] \in Nat
      /\ \A i \in 1..(k + 1) : i \in 1..k \/ i = k + 1
      /\ \A i \in 1..k : i \in 1..(k + 1) /\ i # k + 1 /\ i \in 1..n
  <2> HIDE DEF n
  <2>0. k + 1 <= n
    BY DEF n
  <2>1. k + 1 \in 1..n
    BY <1>0, <2>0
  <2>2. order[k + 1] \in 1..n
    BY <1>1, <2>1
  <2>3. \A i \in 1..k : i \in 1..(k + 1) /\ i # k + 1 /\ i \in 1..n
    BY <1>0, <2>0
  <2>4. \A i \in 1..(k + 1) : i \in 1..k \/ i = k + 1
    OBVIOUS
  <2> QED
    BY <2>1, <2>2, <2>3, <2>4
<1>3. \A q \in 1..n : /\ names[q] \in Nicks /\ names[q] \in Seq(Characters) /\ names[q] \in Seq(Letters)
                      /\ Free(names[q]) /\ Pseudonym(Alias(q)) /\ Free(Alias(q)) /\ q \in Nat
  <2> SUFFICES ASSUME NEW q \in 1..n
               PROVE  /\ names[q] \in Nicks /\ names[q] \in Seq(Characters) /\ names[q] \in Seq(Letters)
                      /\ Free(names[q]) /\ Pseudonym(Alias(q)) /\ Free(Alias(q)) /\ q \in Nat
    OBVIOUS
  <2>1. names[q] \in Nicks /\ q \in Nat
    BY ElementOfSeq
  <2>2. Word(names[q])
    BY <2>1, NickIsWord
  <2>3. names[q] \in Seq(Letters)
    BY <2>2, WordForm
  <2>4. Pseudonym(Alias(q))
    BY <2>1, AliasIsPseudonym
  <2>5. ~IsDigit("E")
    <3>1. \A i \in DOMAIN Digits : Digits[i] \in Characters
      BY PrivacyAssumption, ElementOfSeq, LenProperties
    <3> QED
      BY <3>1, NicksAssumption DEF IsDigit
  <2> QED
    BY <2>1, <2>2, <2>3, <2>4, <2>5 DEF Word, Free, Pseudonym
<1>4. PICK a, w : /\ a = Alias(order[k + 1]) /\ w = names[order[k + 1]]
                  /\ Pseudonym(a) /\ w \in Seq(Letters)
  BY <1>2, <1>3
<1>5. CASE p = 0
  <2>1. c = piece.text /\ d = piece.text
    BY <1>5 DEF Part
  <2>2. piece.text \in Seq(Characters) /\ Free(piece.text)
    BY <1>5 DEF PieceOf, Plain, Free
  <2>3. piece.text \in Seq(Letters) /\ Turns(piece.text, piece.text, a, w)
    BY <1>4, <2>2, PlainTurns
  <2> QED
    BY <1>4, <2>1, <2>2, <2>3
<1>6. CASE p # 0
  <2>0. p \in 1..n
    BY <1>0, <1>6 DEF PieceOf
  <2>1. PICK i \in 1..n : order[i] = p
    BY <1>1, <2>0
  <2>2. \A j \in 1..n : order[j] = p => j = i
    BY <1>1, <2>1
  <2>3. CASE i <= k
    <3>1. i \in 1..k /\ i \in 1..(k + 1)
      BY <1>0, <2>3
    <3>2. c = names[p] /\ d = names[p]
      BY <1>6, <2>1, <3>1 DEF Part
    <3>3. names[p] \in Seq(Characters)
      BY <1>3, <2>0
    <3>4. Turns(names[p], names[p], a, w)
      BY <1>4, <3>3, PlainTurns
    <3> QED
      BY <1>3, <1>4, <2>0, <3>2, <3>4
  <2>4. CASE i = k + 1
    <3>1. c = Alias(p)
      BY <1>2, <1>6, <2>2, <2>4 DEF Part
    <3>2. d = names[p]
      <4>1. k + 1 \in 1..(k + 1)
        OBVIOUS
      <4> QED
        BY <1>6, <2>1, <2>4, <4>1 DEF Part
    <3>3. Turns(Alias(p), names[p], Alias(p), names[p])
      BY <1>3, <2>0, OwnAliasTurns
    <3>4. Alias(p) \in Seq(Letters)
      BY <1>3, <2>0 DEF Pseudonym
    <3> QED
      BY <1>3, <2>0, <2>1, <2>4, <3>1, <3>2, <3>3, <3>4
  <2>5. CASE i > k + 1
    <3>1. \A j \in 1..(k + 1) : order[j] # p
      <4>1. \A j \in 1..(k + 1) : j \in 1..n /\ j # i
        BY <1>0, <2>5
      <4> QED
        BY <2>2, <4>1
    <3>2. c = Alias(p) /\ d = Alias(p)
      BY <1>2, <1>6, <3>1 DEF Part
    <3>3. p # order[k + 1]
      BY <1>2, <2>2, <2>5
    <3>4. Len(Alias(p)) <= Len(Alias(order[k + 1]))
      <4>1. Len(Alias(order[k + 1])) >= Len(Alias(order[i]))
        BY <1>1, <1>2, <2>5
      <4>2. Len(Alias(p)) \in Nat /\ Len(Alias(order[k + 1])) \in Nat
        BY <1>2, <1>3, <2>0 DEF Pseudonym
      <4> QED
        BY <2>1, <4>1, <4>2
    <3>5. Turns(Alias(p), Alias(p), Alias(order[k + 1]), w)
      BY <1>2, <1>3, <1>4, <2>0, <3>3, <3>4, OtherAliasTurns
    <3>6. Alias(p) \in Seq(Letters)
      BY <1>3, <2>0 DEF Pseudonym
    <3> QED
      BY <1>3, <1>4, <2>0, <3>2, <3>5, <3>6
  <2> QED
    BY <1>0, <2>3, <2>4, <2>5
<1> QED
  BY <1>5, <1>6

\* Each part is text.
LEMMA PartIsText ==
  ASSUME NEW names \in Seq(Nicks), NEW order, NEW k, NEW piece, PieceOf(names, piece)
  PROVE  Part(names, order, k, piece) \in Seq(Letters)
<1>1. CASE piece.alias = 0
  <2>1. piece.text \in Seq(Characters)
    BY <1>1 DEF PieceOf, Plain
  <2>2. piece.text \in Seq(Letters)
    BY <2>1, SeqMonotonic DEF Letters
  <2> QED
    BY <1>1, <2>2 DEF Part
<1>2. CASE piece.alias # 0
  <2>1. PICK p : p = piece.alias
    OBVIOUS
  <2>2. p \in 1..Len(names) /\ p \in Nat
    BY <1>2, <2>1, LenProperties DEF PieceOf
  <2>3. names[p] \in Nicks
    BY <2>2, ElementOfSeq
  <2>4. names[p] \in Seq(Letters)
    BY <2>3, NickIsWord, WordForm
  <2>5. Alias(p) \in Seq(Letters)
    BY <2>2, AliasForm
  <2> QED
    BY <1>2, <2>1, <2>4, <2>5 DEF Part
<1> QED
  BY <1>1, <1>2

\* The pieces of an answer, ...
ArePieces(names, m, pieces) == DOMAIN pieces = 1..m /\ \A i \in 1..m : PieceOf(names, pieces[i])

\* ... their parts after k aliases, ...
Parts(names, order, k, pieces) == [i \in DOMAIN pieces |-> Part(names, order, k, pieces[i])]

\* ... and an order with the longest aliases first.
ByLength(names, order) == IsOrder(order, [k \in DOMAIN names |-> Len(Alias(k))], Len(names))

\* A pass turns all the parts into the next.
LEMMA PartsTurn ==
  ASSUME NEW names \in Seq(Nicks), NEW order, ByLength(names, order),
         NEW m \in Nat, NEW pieces, ArePieces(names, m, pieces),
         NEW k \in Nat, k + 1 <= Len(names)
  PROVE  /\ order[k + 1] \in 1..Len(names)
         /\ ReplaceText(SE!FlattenSeq(Parts(names, order, k, pieces)), Alias(order[k + 1]), names[order[k + 1]])
              = SE!FlattenSeq(Parts(names, order, k + 1, pieces))
<1>0. DOMAIN pieces = 1..m /\ \A i \in 1..m : PieceOf(names, pieces[i])
  BY DEF ArePieces
<1>1. PICK cs, ds : cs = Parts(names, order, k, pieces) /\ ds = Parts(names, order, k + 1, pieces)
  OBVIOUS
<1>2. cs \in [1..m -> Seq(Letters)] /\ ds \in [1..m -> Seq(Letters)]
  BY <1>0, <1>1, PartIsText DEF Parts
<1>3. /\ \A i \in 1..m : cs[i] = Part(names, order, k, pieces[i])
      /\ \A i \in 1..m : ds[i] = Part(names, order, k + 1, pieces[i])
  BY <1>0, <1>1 DEF Parts
<1>4. PICK old, new : old = Alias(order[k + 1]) /\ new = names[order[k + 1]]
  OBVIOUS
<1>5. ASSUME NEW i \in 1..m PROVE Free(cs[i]) /\ Turns(cs[i], ds[i], old, new)
  <2>1. PieceOf(names, pieces[i])
    BY <1>0
  <2>2. /\ Free(Part(names, order, k, pieces[i]))
        /\ Turns(Part(names, order, k, pieces[i]), Part(names, order, k + 1, pieces[i]),
                 Alias(order[k + 1]), names[order[k + 1]])
    BY <2>1, PartTurns DEF ByLength
  <2> QED
    BY <1>3, <1>4, <2>2
<1>6. order[k + 1] \in 1..Len(names) /\ order[k + 1] \in Nat
  <2>1. PICK n, size : n \in Nat /\ n = Len(names) /\ IsOrder(order, size, n)
    BY LenProperties DEF ByLength
  <2>2. k + 1 \in 1..n
    BY <2>1
  <2>3. order \in [1..n -> 1..n]
    BY <2>1 DEF IsOrder
  <2> QED
    BY <2>1, <2>2, <2>3
<1>7. old \in Seq(Letters) /\ Len(old) > 0
  BY <1>4, <1>6, AliasForm
<1>8. new \in Seq(Letters)
  <2>1. new \in Nicks
    BY <1>4, <1>6, ElementOfSeq
  <2> QED
    BY <2>1, NickIsWord, WordForm
<1>9. ReplaceText(SE!FlattenSeq(cs), old, new) = SE!FlattenSeq(ds)
  <2>1. AllTurn(m, cs, ds, old, new)
    BY <1>2, <1>5, <1>7, <1>8 DEF AllTurn, IsText
  <2> QED
    BY <2>1, FlattenTurns
<1> QED
  BY <1>1, <1>4, <1>6, <1>9

\* What the API says with an alias is read with the nick that has it.
LEMMA AnswerIsBack ==
  ASSUME NEW names \in Seq(Nicks), NEW order \in AliasOrders(names),
         NEW m \in Nat, NEW pieces, ArePieces(names, m, pieces)
  PROVE  DesanitizeText(names, order, SE!FlattenSeq([i \in DOMAIN pieces |-> Masked(pieces[i])]))
           = SE!FlattenSeq([i \in DOMAIN pieces |->
               IF pieces[i].alias = 0 THEN pieces[i].text ELSE names[pieces[i].alias]])
<1> DEFINE n == Len(names)
           D == 0..n
           S == Seq(Letters)
           text == SE!FlattenSeq([i \in DOMAIN pieces |-> Masked(pieces[i])])
           Step(k, t) == ReplaceText(t, Alias(order[k]), names[order[k]])
           G == [k \in D |-> [t \in S |-> IF k = 0 THEN t ELSE Step(k, t)]]
           out == CHOOSE f : f = [k \in D |-> IF k = 0 THEN text ELSE Step(k, f[k - 1])]
<1>0. n \in Nat /\ DOMAIN names = 1..n
  BY LenProperties
<1>a. DOMAIN pieces = 1..m /\ \A i \in 1..m : PieceOf(names, pieces[i])
  BY DEF ArePieces
<1>1. ByLength(names, order)
  <2> DEFINE size == [k \in DOMAIN names |-> Len(Alias(k))]
  <2>1. DOMAIN size = 1..n /\ order \in LargestFirst(size)
    BY <1>0 DEF AliasOrders
  <2> HIDE DEF size
  <2>2. IsOrder(order, size, n)
    BY <1>0, <2>1, OrderIsOnto
  <2> QED
    BY <2>2 DEF ByLength, size
<1>2. ASSUME NEW k \in 1..n, NEW t \in S PROVE Step(k, t) \in S
  <2>1. order \in [1..n -> 1..n]
    BY <1>1 DEF ByLength, IsOrder
  <2>2. order[k] \in 1..n /\ order[k] \in Nat
    BY <1>0, <2>1
  <2>3. names[order[k]] \in Nicks
    BY <2>2, ElementOfSeq
  <2>4. names[order[k]] \in Seq(Letters)
    BY <2>3, NickIsWord, WordForm
  <2>5. Alias(order[k]) \in Seq(Letters) /\ Len(Alias(order[k])) > 0
    <3>1. PICK p \in Nat : p = order[k]
      BY <2>2
    <3>2. Alias(p) \in Seq(Letters) /\ Len(Alias(p)) > 0
      <4>1. Pseudonym(Alias(p))
        BY AliasIsPseudonym
      <4> QED
        BY <4>1 DEF Pseudonym
    <3> QED
      BY ONLY <3>1, <3>2
  <2> QED
    BY <2>4, <2>5, TextType
<1>3. text = SE!FlattenSeq(Parts(names, order, 0, pieces))
  <2>1. ASSUME NEW i \in DOMAIN pieces PROVE Part(names, order, 0, pieces[i]) = Masked(pieces[i])
    <3>1. 1..0 = {}
      OBVIOUS
    <3> QED
      BY <3>1 DEF Part, Masked
  <2>2. Parts(names, order, 0, pieces) = [i \in DOMAIN pieces |-> Masked(pieces[i])]
    BY <2>1 DEF Parts
  <2> QED
    BY <2>2
<1>b. text \in S
  <2>1. PICK cs : cs = Parts(names, order, 0, pieces)
    OBVIOUS
  <2>2. cs \in [1..m -> Seq(Letters)]
    BY <1>a, <2>1, PartIsText DEF Parts
  <2>3. PICK fl : Flattens(m, cs, fl) /\ SE!FlattenSeq(cs) = fl[m]
    BY <2>2, FlattenForm
  <2>4. m \in 0..m
    OBVIOUS
  <2>5. fl[m] \in Seq(Letters)
    BY <2>3, <2>4 DEF Flattens
  <2> QED
    BY <1>3, <2>1, <2>3, <2>5
<1>4. DesanitizeText(names, order, text) = out[n]
  BY DEF DesanitizeText
<1> HIDE DEF n, Step, S, text
<1>5. D \subseteq Nat /\ \A k \in D : k = 0 \/ (k - 1 \in D /\ k \in 1..n)
  BY <1>0
<1>6. G \in [D -> [S -> S]]
  BY <1>2, <1>5
<1>7. \A k \in D : \A t \in S : k # 0 => G[k][t] = Step(k, t)
  OBVIOUS
<1>8. PICK f \in [D -> S] : \A k \in D : f[k] = IF k = 0 THEN text ELSE Step(k, f[k - 1])
  <2> HIDE DEF G, D
  <2>1. text \in S /\ \A k \in D : k = 0 \/ k - 1 \in D
    BY <1>5, <1>b
  <2>2. PICK f \in [D -> S] : \A k \in D : f[k] = IF k = 0 THEN text ELSE G[k][f[k - 1]]
    <3>1. Iterable(D, S, text, G)
      BY <1>5, <1>6, <2>1 DEF Iterable
    <3> QED
      BY <3>1, Iteration
  <2>3. \A k \in D : f[k] = IF k = 0 THEN text ELSE Step(k, f[k - 1])
    BY <1>7, <2>1, <2>2
  <2> QED
    BY <2>2, <2>3
<1>9. f = [k \in D |-> IF k = 0 THEN text ELSE Step(k, f[k - 1])]
  <2> HIDE DEF D
  <2> QED
    BY <1>8
<1>10. out = [k \in D |-> IF k = 0 THEN text ELSE Step(k, out[k - 1])]
  BY <1>9
<1> HIDE DEF out, G
<1>11. \A k \in D : out[k] = IF k = 0 THEN text ELSE Step(k, out[k - 1])
  <2> HIDE DEF D
  <2> QED
    BY <1>10
<1> DEFINE P == {k \in Nat : k <= n => out[k] = SE!FlattenSeq(Parts(names, order, k, pieces))}
<1>12. 0 \in P
  <2>1. 0 \in D
    BY <1>0
  <2> QED
    BY <1>3, <1>11, <2>1
<1>13. ASSUME NEW k \in Nat, k \in P PROVE k + 1 \in P
  <2> SUFFICES ASSUME k + 1 <= n
               PROVE  out[k + 1] = SE!FlattenSeq(Parts(names, order, k + 1, pieces))
    OBVIOUS
  <2>1. k + 1 \in D /\ k + 1 # 0 /\ (k + 1) - 1 = k /\ k <= n
    BY <1>0
  <2>2. out[k + 1] = Step(k + 1, out[k])
    BY <1>11, <2>1
  <2>3. out[k] = SE!FlattenSeq(Parts(names, order, k, pieces))
    BY <1>13, <2>1
  <2>4. k + 1 <= Len(names)
    BY DEF n
  <2>5. ReplaceText(SE!FlattenSeq(Parts(names, order, k, pieces)), Alias(order[k + 1]), names[order[k + 1]])
          = SE!FlattenSeq(Parts(names, order, k + 1, pieces))
    BY <1>1, <2>4, PartsTurn
  <2> QED
    BY <2>2, <2>3, <2>5 DEF Step
<1> HIDE DEF P
<1>14. n \in P
  BY <1>0, <1>12, <1>13, SetInduction
<1>15. out[n] = SE!FlattenSeq(Parts(names, order, n, pieces))
  BY <1>0, <1>14 DEF P
<1>16. Parts(names, order, n, pieces)
         = [i \in DOMAIN pieces |-> IF pieces[i].alias = 0 THEN pieces[i].text ELSE names[pieces[i].alias]]
  <2>1. ASSUME NEW i \in DOMAIN pieces, pieces[i].alias # 0
        PROVE  \E j \in 1..n : order[j] = pieces[i].alias
    <3>1. PICK p : p = pieces[i].alias
      OBVIOUS
    <3>2. p \in 1..n
      BY <1>0, <1>a, <2>1, <3>1 DEF PieceOf, n
    <3>3. \A q \in 1..n : \E j \in 1..n : order[j] = q
      BY <1>1 DEF ByLength, IsOrder, n
    <3> QED
      BY <3>1, <3>2, <3>3
  <2>2. ASSUME NEW i \in DOMAIN pieces
        PROVE  Part(names, order, n, pieces[i])
                 = IF pieces[i].alias = 0 THEN pieces[i].text ELSE names[pieces[i].alias]
    BY <2>1 DEF Part
  <2> QED
    BY <2>2 DEF Parts
<1> QED
  BY <1>4, <1>15, <1>16 DEF text

-----------------------------------------------------------------------------
(***************************************************************************)
(* Sessions, prompts and answers.                                          *)
(***************************************************************************)

\* The nicks that may have an alias, and a session of them.
Maskable == Nicks \ Excluded
Named(names, l) == names \in Seq(Maskable) /\ Len(names) <= l

\* Mask adds one at most, ...
LEMMA MaskType ==
  ASSUME NEW l \in Nat, NEW names, Named(names, l), NEW nick \in Nicks
  PROVE  Named(Mask(names, nick), l + 1)
<1>1. PICK s : s = names /\ s \in Seq(Maskable) /\ Len(s) \in Nat /\ Len(s) <= l
  BY LenProperties DEF Named
<1>2. CASE nick \in Excluded \/ SE!Contains(names, nick)
  BY <1>1, <1>2 DEF Mask, Named
<1>3. CASE ~(nick \in Excluded \/ SE!Contains(names, nick))
  <2>1. nick \in Maskable
    BY <1>3 DEF Maskable
  <2>2. Append(s, nick) \in Seq(Maskable) /\ Len(Append(s, nick)) = Len(s) + 1
    BY <1>1, <2>1, AppendProperties
  <2>3. Len(Append(s, nick)) <= l + 1
    BY <1>1, <2>2
  <2> QED
    BY <1>1, <1>3, <2>2, <2>3 DEF Mask, Named
<1> QED
  BY <1>2, <1>3

\* ... and MaskAll one for each nick.
LEMMA MaskAllType ==
  ASSUME NEW l \in Nat, NEW names, Named(names, l), NEW nicks \in Seq(Nicks)
  PROVE  Named(MaskAll(names, nicks), l + Len(nicks))
<1> DEFINE n == Len(nicks)
           D == 0..n
           S == Seq(Maskable)
           Step(k, t) == Mask(t, nicks[k])
           G == [k \in D |-> [t \in S |-> IF k = 0 THEN t ELSE Step(k, t)]]
           out == CHOOSE f : f = [k \in D |-> IF k = 0 THEN names ELSE Step(k, f[k - 1])]
<1>0. n \in Nat /\ DOMAIN nicks = 1..n
  BY LenProperties
<1>1. \A k \in 1..n : nicks[k] \in Nicks
  BY ElementOfSeq
<1>2. ASSUME NEW k \in 1..n, NEW t \in S PROVE Step(k, t) \in S
  <2>1. Len(t) \in Nat
    BY LenProperties
  <2>2. Named(t, Len(t))
    BY <2>1 DEF Named
  <2> QED
    BY <1>1, <2>1, <2>2, MaskType DEF Named
<1>b. names \in S
  BY DEF Named
<1>4. MaskAll(names, nicks) = out[n]
  BY DEF MaskAll
<1> HIDE DEF n, Step, S
<1>5. D \subseteq Nat /\ \A k \in D : k = 0 \/ (k - 1 \in D /\ k \in 1..n)
  BY <1>0
<1>6. G \in [D -> [S -> S]]
  BY <1>2, <1>5
<1>7. \A k \in D : \A t \in S : k # 0 => G[k][t] = Step(k, t)
  OBVIOUS
<1>8. PICK f \in [D -> S] : \A k \in D : f[k] = IF k = 0 THEN names ELSE Step(k, f[k - 1])
  <2> HIDE DEF G, D
  <2>1. names \in S /\ \A k \in D : k = 0 \/ k - 1 \in D
    BY <1>5, <1>b
  <2>2. PICK f \in [D -> S] : \A k \in D : f[k] = IF k = 0 THEN names ELSE G[k][f[k - 1]]
    <3>1. Iterable(D, S, names, G)
      BY <1>5, <1>6, <2>1 DEF Iterable
    <3> QED
      BY <3>1, Iteration
  <2>3. \A k \in D : f[k] = IF k = 0 THEN names ELSE Step(k, f[k - 1])
    BY <1>7, <2>1, <2>2
  <2> QED
    BY <2>2, <2>3
<1>9. f = [k \in D |-> IF k = 0 THEN names ELSE Step(k, f[k - 1])]
  <2> HIDE DEF D
  <2> QED
    BY <1>8
<1>10. out = [k \in D |-> IF k = 0 THEN names ELSE Step(k, out[k - 1])]
  BY <1>9
<1> HIDE DEF out, G
<1>11. \A k \in D : out[k] = IF k = 0 THEN names ELSE Step(k, out[k - 1])
  <2> HIDE DEF D
  <2> QED
    BY <1>10
<1> DEFINE P == {k \in Nat : k <= n => Named(out[k], l + k)}
<1>12. 0 \in P
  <2>1. 0 \in D /\ l + 0 = l
    BY <1>0
  <2> QED
    BY <1>11, <2>1
<1>13. ASSUME NEW k \in Nat, k \in P PROVE k + 1 \in P
  <2> SUFFICES ASSUME k + 1 <= n
               PROVE  Named(out[k + 1], l + (k + 1))
    OBVIOUS
  <2>1. k + 1 \in D /\ k + 1 \in 1..n /\ k + 1 # 0 /\ (k + 1) - 1 = k /\ k <= n
    BY <1>0
  <2>2. out[k + 1] = Mask(out[k], nicks[k + 1])
    BY <1>11, <2>1 DEF Step
  <2>3. Named(out[k], l + k) /\ l + k \in Nat /\ (l + k) + 1 = l + (k + 1)
    BY <1>13, <2>1
  <2>4. Named(Mask(out[k], nicks[k + 1]), (l + k) + 1)
    BY <1>1, <2>1, <2>3, MaskType
  <2> QED
    BY <2>2, <2>3, <2>4
<1> HIDE DEF P
<1>14. n \in P
  BY <1>0, <1>12, <1>13, SetInduction
<1>15. Named(out[n], l + n)
  BY <1>0, <1>14 DEF P
<1> QED
  BY <1>4, <1>15 DEF n

\* The session of one sender.
LEMMA FirstMask == \A nick \in Nicks : Named(Mask(<<>>, nick), 1)
<1>1. Named(<<>>, 0)
  BY EmptySeq DEF Named
<1> SUFFICES ASSUME NEW nick \in Nicks PROVE Named(Mask(<<>>, nick), 1)
  OBVIOUS
<1>2. Named(Mask(<<>>, nick), 0 + 1)
  BY <1>1, MaskType
<1> QED
  BY <1>2

\* What the rows of a history give.
LEMMA HistoryForm ==
  ASSUME NEW history \in Histories
  PROVE  /\ Speakers(history) \in Seq(Nicks) /\ Len(Speakers(history)) = Len(history)
         /\ Len(history) \in 0..MaxHistory /\ DOMAIN history = 1..Len(history)
         /\ \A i \in DOMAIN history : history[i].text \in Seq(Letters)
         /\ history # <<>> => Len(history) > 0
<1>1. PICK k \in 0..MaxHistory : history \in [1..k -> [by : Nicks, text : Texts]]
  BY DEF Histories
<1>2. k \in Nat
  BY PrivacyAssumption
<1>3. history \in Seq([by : Nicks, text : Texts]) /\ Len(history) = k
  BY <1>1, <1>2, FunctionIsSeq
<1>4. Speakers(history) \in [1..k -> Nicks]
  BY <1>1 DEF Speakers
<1>5. Speakers(history) \in Seq(Nicks) /\ Len(Speakers(history)) = k
  BY <1>2, <1>4, FunctionIsSeq
<1>6. \A i \in DOMAIN history : history[i].text \in Seq(Letters)
  BY <1>1, PrivacyAssumption DEF Letters
<1>7. history # <<>> => k > 0
  BY <1>2, <1>3, EmptySeq
<1>8. DOMAIN history = 1..k
  BY <1>1
<1> QED
  BY <1>3, <1>5, <1>6, <1>7, <1>8

\* Those who have spoken, from the oldest row on.
LEMMA ReverseType ==
  ASSUME NEW s \in Seq(Nicks), NEW i \in 1..Len(s)
  PROVE  LET r == SE!Reverse(SubSeq(s, i, Len(s))) IN r \in Seq(Nicks) /\ Len(r) <= Len(s)
<1>0. PICK n \in Nat : n = Len(s)
  BY LenProperties
<1>1. \A q \in i..n : s[q] \in Nicks
  <2>1. \A q \in i..n : q \in 1..Len(s)
    BY <1>0
  <2> QED
    BY <2>1, ElementOfSeq
<1>2. PICK u : u = SubSeq(s, i, n)
  OBVIOUS
<1>3. i \in Int /\ n \in Int /\ i <= n
  BY <1>0
<1>4. u \in Seq(Nicks) /\ Len(u) = n - i + 1
  BY <1>1, <1>2, <1>3, SubSeqProperties
<1>5. PICK l \in Nat : l = Len(u) /\ l <= n
  BY <1>0, <1>3, <1>4
<1>6. \A q \in 1..l : u[(l - q) + 1] \in Nicks
  <2>1. \A q \in 1..l : (l - q) + 1 \in 1..l
    OBVIOUS
  <2> QED
    BY <1>4, <1>5, <2>1, ElementOfSeq
<1>7. SE!Reverse(u) \in [1..l -> Nicks]
  BY <1>5, <1>6 DEF SE!Reverse
<1>8. SE!Reverse(u) \in Seq(Nicks) /\ Len(SE!Reverse(u)) = l
  BY <1>7, FunctionIsSeq
<1> QED
  BY <1>0, <1>2, <1>5, <1>8

\* What is asked for has no nick of the session in it.
NothingStands(names, texts) ==
  \A text \in texts, nick \in {names[k] : k \in DOMAIN names} :
    \A i \in DOMAIN text : ~Stands(nick, text, i)

\* What SanitizeText leaves is safe, in any order, ...
LEMMA SanitizedIsSafe ==
  ASSUME NEW l, NEW names, Named(names, l), NEW text \in Seq(Letters)
  PROVE  NothingStands(names, Sanitized(names, text))
<1>1. names \in Seq(Nicks)
  BY SeqMonotonic DEF Named, Maskable
<1> SUFFICES ASSUME NEW order \in NickOrders(names), NEW k \in DOMAIN names,
                    NEW i \in DOMAIN SanitizeText(names, order, text)
             PROVE  ~Stands(names[k], SanitizeText(names, order, text), i)
  BY DEF NothingStands, Sanitized
<1>2. PICK t : t = SanitizeText(names, order, text)
  OBVIOUS
<1>3. t \in Seq(Letters) /\ StandsNowhere(names[k], t)
  BY <1>1, <1>2, NoNickIsLeft
<1>4. i \in Nat /\ i > 0
  BY <1>2, <1>3, LenProperties
<1> QED
  BY <1>2, <1>3, <1>4 DEF StandsNowhere

\* ... and so are all such texts together.
LEMMA TogetherSafe ==
  ASSUME NEW names, NEW texts, NEW Many, NothingStands(names, texts),
         \A one \in Many : NothingStands(names, one)
  PROVE  NothingStands(names, texts \union UNION Many)
BY DEF NothingStands

\* The inductive invariant: an answer is there only when it has been read.
PrivacyInv == PrivacyTypeOK /\ (stage # "answered" => meant = <<>>)

\* What a prompt does to a session.
Prompts ==
  \E names, texts, as :
    /\ Sends(names, texts, as) /\ Named(names, MaxHistory + 1) /\ as \in {"asked", "recapped"}
    /\ as = "asked" => NothingStands(names, texts)

\* GenerateReply, ...
LEMMA RepliesPrompt ==
  ASSUME NEW sender \in Nicks, NEW question \in Texts, NEW history \in Histories,
         GenerateReply(sender, question, history)
  PROVE  Prompts
<1> DEFINE names == MaskAll(Mask(<<>>, sender), Speakers(history))
           Many == {Sanitized(names, history[i].text) : i \in DOMAIN history}
           said == Sanitized(names, question) \union UNION Many
<1>1. names = MaskAll(Mask(<<>>, sender), Speakers(history))
  OBVIOUS
<1>2. Many = {Sanitized(names, history[i].text) : i \in DOMAIN history}
  OBVIOUS
<1>3. PICK found \in SUBSET Remembered :
        Sends(names, said \union UNION {Sanitized(names, text) : text \in found}, "asked")
  BY Zenon DEF GenerateReply
<1> HIDE DEF names, Many
<1>4. Named(names, MaxHistory + 1)
  <2>1. PICK l : l = Len(Speakers(history)) /\ l \in 0..MaxHistory
    BY HistoryForm
  <2>2. Named(Mask(<<>>, sender), 1) /\ 1 \in Nat
    BY FirstMask
  <2>3. Speakers(history) \in Seq(Nicks)
    BY HistoryForm
  <2>4. Named(names, 1 + l)
    BY <1>1, <2>1, <2>2, <2>3, MaskAllType
  <2>5. names \in Seq(Maskable) /\ Len(names) \in Nat /\ Len(names) <= 1 + l
    BY <2>4, LenProperties DEF Named
  <2>6. MaxHistory \in Nat
    BY PrivacyAssumption
  <2>7. Len(names) <= MaxHistory + 1
    BY <2>1, <2>5, <2>6
  <2> QED
    BY <2>5, <2>7 DEF Named
<1>5. NothingStands(names, Sanitized(names, question))
  <2>1. question \in Seq(Letters)
    BY PrivacyAssumption DEF Letters
  <2> QED
    BY <1>4, <2>1, SanitizedIsSafe
<1>6. \A one \in Many : NothingStands(names, one)
  <2>1. \A i \in DOMAIN history : history[i].text \in Seq(Letters)
    BY HistoryForm
  <2>2. \A i \in DOMAIN history : NothingStands(names, Sanitized(names, history[i].text))
    BY <1>4, <2>1, SanitizedIsSafe
  <2> QED
    BY <1>2, <2>2
<1>7. NothingStands(names, Sanitized(names, question) \union UNION Many)
  BY <1>5, <1>6, TogetherSafe
<1>8. PICK Found : Found = {Sanitized(names, text) : text \in found}
  OBVIOUS
<1>9. \A one \in Found : NothingStands(names, one)
  <2>1. \A text \in found : text \in Seq(Letters)
    BY <1>3, PrivacyAssumption DEF Letters
  <2>2. \A text \in found : NothingStands(names, Sanitized(names, text))
    BY <1>4, <2>1, SanitizedIsSafe
  <2> QED
    BY <1>8, <2>2
<1>10. NothingStands(names, (Sanitized(names, question) \union UNION Many) \union UNION Found)
  BY <1>7, <1>9, TogetherSafe
<1>11. PICK texts : /\ texts = (Sanitized(names, question) \union UNION Many) \union UNION Found
                    /\ Sends(names, texts, "asked")
  BY <1>3, <1>8
<1>12. NothingStands(names, texts)
  BY <1>10, <1>11
<1> QED
  BY <1>4, <1>11, <1>12 DEF Prompts

\* ... handleAsk ...
LEMMA AsksPrompt ==
  ASSUME NEW sender \in Nicks, NEW question \in Texts, HandleAsk(sender, question)
  PROVE  Prompts
<1>1. PICK names : names = Mask(<<>>, sender)
  OBVIOUS
<1>2. Sends(names, Sanitized(names, question), "asked")
  BY <1>1 DEF HandleAsk
<1>3. Named(names, MaxHistory + 1)
  <2>1. names \in Seq(Maskable) /\ Len(names) \in Nat /\ Len(names) <= 1
    BY <1>1, FirstMask, LenProperties DEF Named
  <2>2. MaxHistory \in Nat
    BY PrivacyAssumption
  <2>3. Len(names) <= MaxHistory + 1
    BY <2>1, <2>2
  <2> QED
    BY <2>1, <2>3 DEF Named
<1>4. question \in Seq(Letters)
  BY PrivacyAssumption DEF Letters
<1>5. NothingStands(names, Sanitized(names, question))
  BY <1>3, <1>4, SanitizedIsSafe
<1> QED
  BY <1>2, <1>3, <1>5 DEF Prompts

\* ... and handleRecap prompt with a session of the nicks they know.
LEMMA RecapsPrompt ==
  ASSUME NEW history \in Histories, HandleRecap(history)
  PROVE  Prompts
<1>1. PICK s, n : /\ s = Speakers(history) /\ n = Len(history) /\ n = Len(s)
                  /\ s \in Seq(Nicks) /\ n \in 0..MaxHistory
  BY HistoryForm
<1>2. MaxHistory \in Nat
  BY PrivacyAssumption
<1>3. history # <<>> /\ n > 0
  BY <1>1, HistoryForm DEF HandleRecap
<1>4. PICK r : r = SE!Reverse(SubSeq(s, 1, n))
  OBVIOUS
<1>5. r \in Seq(Nicks) /\ Len(r) \in Nat /\ Len(r) <= n
  <2>1. 1 \in 1..Len(s)
    BY <1>1, <1>3
  <2>2. r \in Seq(Nicks) /\ Len(r) <= n
    BY <1>1, <1>4, <2>1, ReverseType
  <2> QED
    BY <2>2, LenProperties
<1>6. PICK names : names = MaskAll(<<>>, r)
  OBVIOUS
<1>7. \E texts : Sends(names, texts, "recapped")
  BY <1>1, <1>4, <1>6 DEF HandleRecap
<1>8. Named(names, MaxHistory + 1)
  <2>1. Named(<<>>, 0) /\ 0 \in Nat
    BY EmptySeq DEF Named
  <2>2. Named(names, 0 + Len(r))
    BY <1>5, <1>6, <2>1, MaskAllType
  <2>3. names \in Seq(Maskable) /\ Len(names) \in Nat /\ Len(names) <= 0 + Len(r)
    BY <2>2, LenProperties DEF Named
  <2>4. Len(names) <= MaxHistory + 1
    BY <1>1, <1>2, <1>5, <2>3
  <2> QED
    BY <2>3, <2>4 DEF Named
<1> QED
  BY <1>7, <1>8 DEF Prompts

\* A prompt keeps the invariant, ...
LEMMA PromptKeeps ==
  ASSUME PrivacyInv, Prompts
  PROVE  PrivacyInv' /\ PseudonymsHold'
<1>1. PICK names, texts, as :
        /\ Sends(names, texts, as) /\ Named(names, MaxHistory + 1) /\ as \in {"asked", "recapped"}
        /\ as = "asked" => NothingStands(names, texts)
  BY DEF Prompts
<1>2. stage = "new" /\ stage' = as /\ session' = names /\ prompt' = texts /\ meant' = meant
  BY <1>1 DEF Sends
<1>3. meant' = <<>> /\ DOMAIN meant' = {}
  BY <1>2 DEF PrivacyInv
<1>4. PrivacyInv'
  <2>1. session' \in Seq(Nicks \ Excluded) /\ Len(session') <= MaxHistory + 1
    BY <1>1, <1>2 DEF Named, Maskable
  <2>2. stage' \in {"new", "asked", "recapped", "answered"}
    BY <1>1, <1>2
  <2> QED
    BY <1>3, <2>1, <2>2 DEF PrivacyInv, PrivacyTypeOK
<1>5. PseudonymsHold'
  <2>1. stage' = "asked" => NothingStands(session', prompt')
    BY <1>1, <1>2
  <2>2. stage' # "answered"
    BY <1>1, <1>2
  <2> QED
    BY <2>1, <2>2 DEF PseudonymsHold, NothingStands
<1> QED
  BY <1>4, <1>5

\* ... and so does an answer, which has each nick back.
LEMMA AnswerKeeps ==
  ASSUME PrivacyInv, NEW k \in 0..MaxPieces, NEW pieces \in [1..k -> Pieces], Answered(pieces)
  PROVE  PrivacyInv' /\ PseudonymsHold'
<1>1. stage' = "answered" /\ meant' = pieces /\ session' = session
  BY DEF Answered
<1>2. PICK order \in AliasOrders(session) :
        answer' = DesanitizeText(session, order, SE!FlattenSeq([i \in DOMAIN pieces |-> Masked(pieces[i])]))
  BY DEF Answered
<1>3. session \in Seq(Nicks) /\ session \in Seq(Nicks \ Excluded) /\ Len(session) <= MaxHistory + 1
  BY SeqMonotonic DEF PrivacyInv, PrivacyTypeOK
<1>4. k \in Nat
  BY PrivacyAssumption
<1>5. \A i \in 1..k : PieceOf(session, pieces[i])
  <2>1. DOMAIN session = 1..Len(session) /\ Len(session) \in Nat
    BY <1>3, LenProperties
  <2>2. ASSUME NEW piece \in Pieces PROVE PieceOf(session, piece)
    BY <2>1 DEF Pieces, PieceOf
  <2> QED
    BY <2>2
<1>6. ArePieces(session, k, pieces)
  BY <1>5 DEF ArePieces
<1>7. answer' = SE!FlattenSeq([i \in DOMAIN pieces |->
                  IF pieces[i].alias = 0 THEN pieces[i].text ELSE session[pieces[i].alias]])
  BY <1>2, <1>3, <1>4, <1>6, AnswerIsBack
<1>8. PseudonymsHold'
  BY <1>1, <1>7 DEF PseudonymsHold, Unmasked
<1>9. PrivacyInv'
  <2>1. \A i \in DOMAIN meant' : meant'[i].alias \in 0..Len(session')
    BY <1>1, <1>5 DEF PieceOf
  <2> QED
    BY <1>1, <1>3, <2>1 DEF PrivacyInv, PrivacyTypeOK
<1> QED
  BY <1>8, <1>9

\* The invariant holds at first ...
LEMMA PrivacyStart == PrivacyInit => PrivacyInv /\ PseudonymsHold
<1> SUFFICES ASSUME PrivacyInit PROVE PrivacyInv /\ PseudonymsHold
  OBVIOUS
<1>1. <<>> \in Seq(Nicks \ Excluded) /\ Len(<<>>) = 0
  BY EmptySeq
<1>2. MaxHistory \in Nat
  BY PrivacyAssumption
<1>3. Len(<<>>) <= MaxHistory + 1 /\ DOMAIN <<>> = {}
  BY <1>1, <1>2
<1>4. PrivacyInv
  BY <1>1, <1>3 DEF PrivacyInit, PrivacyInv, PrivacyTypeOK
<1>5. PseudonymsHold
  BY DEF PrivacyInit, PseudonymsHold
<1> QED
  BY <1>4, <1>5

\* ... and every step keeps it.
LEMMA PrivacySteps ==
  ASSUME PrivacyInv, PseudonymsHold, [PrivacyNext]_privacyVars
  PROVE  PrivacyInv' /\ PseudonymsHold'
<1>1. CASE \E sender \in Nicks, question \in Texts :
             \/ \E history \in Histories : GenerateReply(sender, question, history)
             \/ HandleAsk(sender, question)
  <2>1. Prompts
    BY <1>1, RepliesPrompt, AsksPrompt
  <2> QED
    BY <2>1, PromptKeeps
<1>2. CASE \E history \in Histories : HandleRecap(history)
  <2>1. Prompts
    BY <1>2, RecapsPrompt
  <2> QED
    BY <2>1, PromptKeeps
<1>3. CASE \E k \in 0..MaxPieces : \E pieces \in [1..k -> Pieces] : Answered(pieces)
  BY <1>3, AnswerKeeps
<1>4. CASE UNCHANGED privacyVars
  <2>1. /\ session' = session /\ prompt' = prompt /\ answer' = answer
        /\ meant' = meant /\ stage' = stage
    BY <1>4 DEF privacyVars
  <2>2. PrivacyInv'
    BY <2>1 DEF PrivacyInv, PrivacyTypeOK
  <2>3. PseudonymsHold'
    BY <2>1 DEF PseudonymsHold, Unmasked
  <2> QED
    BY <2>2, <2>3
<1> QED
  BY <1>1, <1>2, <1>3, <1>4 DEF PrivacyNext

\* A session has at most the sender and a nick for each row, none of them the bot's
\* own, and whatever is answered names those alone (privacy.go:24-54).
THEOREM PrivacyTypeCorrect == PrivacySpec => []PrivacyTypeOK
<1>1. PrivacyInv => PrivacyTypeOK
  BY DEF PrivacyInv
<1> QED
  BY <1>1, PrivacyStart, PrivacySteps, PTL DEF PrivacySpec

\* For nicks that have no Entity_ in them and do not begin with a digit, which the code
\* does not demand of them (NicksAssumption): the prompt of a reply or of a question has
\* no nick of the session in it, and in the answer each alias is the nick again that it
\* was given for (privacy.go:56-142). It is not said of what goes to the API beside the
\* prompt, the embedded question and the cached memory.
THEOREM PseudonymsAlwaysHold == PrivacySpec => []PseudonymsHold
  BY PrivacyStart, PrivacySteps, PTL DEF PrivacySpec
=============================================================================
