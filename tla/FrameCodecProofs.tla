--------------------------- MODULE FrameCodecProofs ---------------------------
(***************************************************************************)
(* What the two ends of the wire format promise, proved for texts of any   *)
(* length: what one end writes is what the other one reads.                *)
(***************************************************************************)
EXTENDS FrameCodec, SequenceTheorems, WellFoundedInduction, TLAPS

(***************************************************************************)
(* Induction and recursion.  A property of all numbers holds if there is   *)
(* no least one without it.  A recursive function on D that calls itself   *)
(* at before[d], whose measure is smaller, exists and has its type.        *)
(***************************************************************************)

Descends(D, measure, base, before) ==
  /\ measure \in [D -> Nat]
  /\ base \in SUBSET D
  /\ before \in [D -> D]
  /\ \A d \in D \ base : measure[before[d]] < measure[d]

Inherits(T, D, base, before) ==
  /\ D \cap base \subseteq T
  /\ \A d \in D \ base : before[d] \in T => d \in T

Recurs(f, D, base, first, before, step) ==
  f = [d \in D |-> IF d \in base THEN first[d] ELSE step[<<d, f[before[d]]>>]]

(* A set of numbers has a least element.                                   *)
LEMMA Least ==
  ASSUME NEW T \in SUBSET Nat, T # {}
  PROVE  \E i \in T : \A j \in T : i <= j
<1> DEFINE R == {ss \in Nat \X Nat : ss[1] < ss[2]}
<1>1. IsWellFoundedOn(R, Nat)
  BY NatLessThanWellFounded, Zenon DEF OpToRel
<1>2. PICK i \in T : \A j \in T : ~(<<j, i>> \in R)
  BY <1>1, WFMin, Zenon
<1>3. ASSUME NEW j \in T
      PROVE  i <= j
  <2>1. <<j, i>> \in Nat \X Nat /\ ~(<<j, i>> \in R)
    BY <1>2
  <2>2. ~(j < i)
    BY <2>1
  <2> QED
    BY <2>2
<1> QED
  BY <1>3

(* So has the measure of the elements of a set.                            *)
LEMMA LeastMeasure ==
  ASSUME NEW D, NEW measure \in [D -> Nat], NEW T \in SUBSET D, T # {}
  PROVE  \E t \in T : \A u \in T : measure[t] <= measure[u]
<1> DEFINE M == {measure[u] : u \in T}
<1>1. M \in SUBSET Nat /\ M # {}
  OBVIOUS
<1>2. \A u \in T : measure[u] \in M
  OBVIOUS
<1>3. \A m \in M : \E t \in T : measure[t] = m
  OBVIOUS
<1> HIDE DEF M
<1>4. PICK m \in M : \A k \in M : m <= k
  BY <1>1, Least
<1> QED
  BY <1>2, <1>3, <1>4

(* Induction along before: what holds on base, and at d if it does at     *)
(* before[d], holds on D.                                                  *)
LEMMA Descent ==
  ASSUME NEW D, NEW measure, NEW base, NEW before,
         Descends(D, measure, base, before),
         NEW T, Inherits(T, D, base, before)
  PROVE  D \subseteq T
<1> DEFINE U == {d \in D : d \notin T}
<1> SUFFICES ASSUME U # {}
             PROVE  FALSE
  OBVIOUS
<1>1. measure \in [D -> Nat] /\ U \in SUBSET D
  BY DEF Descends
<1> HIDE DEF U
<1>2. PICK t \in U : \A u \in U : measure[t] <= measure[u]
  BY <1>1, LeastMeasure
<1>3. t \in D /\ t \notin T
  BY <1>2 DEF U
<1>4. t \notin base
  BY <1>3 DEF Inherits
<1>5. before[t] \in D /\ measure[before[t]] < measure[t]
  BY <1>3, <1>4 DEF Descends
<1>6. before[t] \notin U
  BY <1>1, <1>2, <1>3, <1>5
<1> QED
  BY <1>3, <1>4, <1>5, <1>6 DEF U, Inherits

(* There is a function that obeys the definition, of its type.             *)
LEMMA Recursion ==
  ASSUME NEW D, NEW V, NEW measure, NEW base, NEW before,
         Descends(D, measure, base, before),
         NEW first \in [D -> V], NEW step \in [D \X V -> V]
  PROVE  \E f \in [D -> V] : Recurs(f, D, base, first, before, step)
<1> DEFINE Below(n) == {d \in D : measure[d] < n}
           Value(f, d) == IF d \in base THEN first[d]
                          ELSE step[<<d, f[before[d]]>>]
           Partial(n) == {g \in [Below(n) -> V] :
                            \A d \in Below(n) : g[d] = Value(g, d)}
<1>0. /\ measure \in [D -> Nat] /\ before \in [D -> D]
      /\ \A d \in D \ base : measure[before[d]] < measure[d]
  BY DEF Descends
<1>1. ASSUME NEW m \in Nat, NEW k \in Nat, NEW g \in Partial(m),
             NEW h \in Partial(k), NEW d \in Below(m), d \in Below(k)
      PROVE  g[d] = h[d]
  <2> DEFINE T == {e \in D : e \in Below(m) /\ e \in Below(k) /\ g[e] # h[e]}
  <2> SUFFICES ASSUME T # {}
               PROVE  FALSE
    BY <1>1
  <2>1. T \in SUBSET D
    OBVIOUS
  <2> HIDE DEF T
  <2>2. PICK t \in T : \A u \in T : measure[t] <= measure[u]
    BY <1>0, <2>1, LeastMeasure
  <2>3. t \in D /\ t \in Below(m) /\ t \in Below(k) /\ g[t] # h[t]
    BY <2>2 DEF T
  <2>4. g[t] = Value(g, t) /\ h[t] = Value(h, t)
    BY <2>3
  <2>5. t \notin base /\ g[before[t]] # h[before[t]]
    BY <2>3, <2>4
  <2>6. before[t] \in D /\ measure[before[t]] < measure[t]
    BY <1>0, <2>3, <2>5
  <2>7. before[t] \in Below(m) /\ before[t] \in Below(k)
    BY <1>0, <2>3, <2>6
  <2>8. before[t] \in T
    BY <2>5, <2>6, <2>7 DEF T
  <2>9. measure[t] \in Nat /\ measure[before[t]] \in Nat
    BY <1>0, <2>3, <2>6
  <2> QED
    BY <2>2, <2>6, <2>8, <2>9
<1>2. ASSUME NEW n \in Nat
      PROVE  Partial(n) # {}
  <2> DEFINE T == {m \in Nat : Partial(m) = {}}
  <2> SUFFICES ASSUME T # {}
               PROVE  FALSE
    OBVIOUS
  <2>1. T \in SUBSET Nat
    OBVIOUS
  <2> HIDE DEF T
  <2>2. PICK m \in T : \A j \in T : m <= j
    BY <2>1, Least
  <2>3. m \in Nat /\ Partial(m) = {}
    BY <2>2 DEF T
  <2>4. CASE m = 0
    <3>1. Below(m) = {}
      BY <1>0, <2>4
    <3> DEFINE g == [d \in Below(m) |-> first[d]]
    <3>2. g \in Partial(m)
      BY <3>1
    <3> QED
      BY <2>3, <3>2
  <2>5. CASE m # 0
    <3>1. m - 1 \in Nat /\ m - 1 < m
      BY <2>3, <2>5
    <3>2. m - 1 \notin T
      BY <2>2, <2>3, <3>1
    <3>3. PICK h : h \in Partial(m - 1)
      BY <3>1, <3>2 DEF T
    <3> DEFINE g == [d \in Below(m) |-> Value(h, d)]
    <3>4. \A d \in Below(m) : d \in D /\ (d \notin base => before[d] \in Below(m - 1))
      BY <1>0, <2>3
    <3>5. \A d \in Below(m) : Value(h, d) \in V
      BY <3>3, <3>4
    <3>6. g \in [Below(m) -> V] /\ \A d \in Below(m) : g[d] = Value(h, d)
      BY <3>5
    <3> HIDE DEF g
    <3>7. \A d \in Below(m - 1) : d \in Below(m)
      BY <1>0, <2>3
    <3>8. \A d \in Below(m - 1) : g[d] = h[d]
      BY <3>3, <3>6, <3>7
    <3>9. \A d \in Below(m) : g[d] = Value(g, d)
      BY <3>4, <3>6, <3>8
    <3>10. g \in Partial(m)
      BY <3>6, <3>9
    <3> QED
      BY <2>3, <3>10
  <2> QED
    BY <2>4, <2>5
<1> DEFINE G(n) == CHOOSE g : g \in Partial(n)
           f == [d \in D |-> G(measure[d] + 1)[d]]
<1>3. \A n \in Nat : G(n) \in Partial(n)
  BY <1>2
<1> HIDE DEF G
<1>4. \A d \in D : f[d] = G(measure[d] + 1)[d]
  OBVIOUS
<1>5. ASSUME NEW d \in D
      PROVE  f[d] = Value(f, d)
  <2>1. /\ measure[d] \in Nat /\ measure[d] + 1 \in Nat
        /\ d \in Below(measure[d] + 1)
    BY <1>0
  <2>2. f[d] = Value(G(measure[d] + 1), d)
    BY <1>3, <1>4, <2>1
  <2>3. d \notin base => G(measure[d] + 1)[before[d]] = f[before[d]]
    <3> SUFFICES ASSUME d \notin base
                 PROVE  G(measure[d] + 1)[before[d]] = f[before[d]]
      OBVIOUS
    <3> DEFINE m == measure[d] + 1
               k == measure[before[d]] + 1
    <3>1. /\ before[d] \in D /\ k \in Nat /\ m \in Nat
          /\ before[d] \in Below(m) /\ before[d] \in Below(k)
      BY <1>0
    <3>2. G(m) \in Partial(m) /\ G(k) \in Partial(k)
      BY <1>3, <3>1
    <3>3. f[before[d]] = G(k)[before[d]]
      BY <1>4, <3>1
    <3> HIDE DEF m, k, Partial, Below, f
    <3>4. G(m)[before[d]] = G(k)[before[d]]
      BY <1>1, <3>1, <3>2
    <3> QED
      BY <3>3, <3>4 DEF m
  <2> QED
    BY <2>2, <2>3
<1>6. f = [d \in D |-> Value(f, d)]
  <2> HIDE DEF Value
  <2>1. \A d \in D : f[d] = Value(f, d)
    BY <1>5
  <2> HIDE DEF f
  <2>2. f = [d \in D |-> f[d]]
    BY DEF f
  <2> QED
    BY <2>1, <2>2
<1>7. f \in [D -> V]
  <2>1. \A d \in D : f[d] \in V
    <3> SUFFICES ASSUME NEW d \in D
                 PROVE  f[d] \in V
      OBVIOUS
    <3>1. measure[d] + 1 \in Nat /\ d \in Below(measure[d] + 1)
      BY <1>0
    <3>2. G(measure[d] + 1)[d] \in V
      BY <1>3, <3>1
    <3> QED
      BY <1>4, <3>2
  <2> QED
    BY <2>1
<1> QED
  BY <1>6, <1>7 DEF Recurs

(***************************************************************************)
(* Texts.                                                                  *)
(***************************************************************************)

(* A text with one more character is a text, and not the empty one.        *)
LEMMA Appended ==
  ASSUME NEW S, NEW s \in Seq(S), NEW d \in S
  PROVE  Append(s, d) \in Seq(S) \ {<<>>}
BY AppendProperties


(***************************************************************************)
(* Numbers.                                                                *)
(***************************************************************************)

(* A number is its last digit and ten times the rest.                      *)
LEMMA LastDigit ==
  ASSUME NEW n \in Nat
  PROVE  /\ n \div 10 \in Nat
         /\ n >= 10 => n \div 10 < n
         /\ n % 10 \in Digit
         /\ n = 10 * (n \div 10) + (n % 10)
<1>1. n = 10 * (n \div 10) + (n % 10)
  OBVIOUS
<1>2. n % 10 \in 0 .. 9 /\ n \div 10 \in Nat
  OBVIOUS
<1>3. n >= 10 => n \div 10 < n
  OBVIOUS
<1> QED
  BY <1>1, <1>2, <1>3 DEF Digit

(* The decimal digits of a number are never none, and are its last digit   *)
(* after the digits of the rest.                                           *)
LEMMA DecimalDigits ==
  ASSUME NEW n \in Nat
  PROVE  /\ Decimal(n) \in Seq(Digit)
         /\ Decimal(n) # <<>>
         /\ Decimal(n) = IF n < 10 THEN <<n>>
                         ELSE Append(Decimal(n \div 10), n % 10)
<1> DEFINE digits[m \in Nat] ==
             IF m < 10 THEN <<m>> ELSE Append(digits[m \div 10], m % 10)
           V == Seq(Digit) \ {<<>>}
           measure == [m \in Nat |-> m]
           base == 0 .. 9
           first == [m \in Nat |-> IF m < 10 THEN <<m>> ELSE <<0>>]
           before == [m \in Nat |-> m \div 10]
           step == [mv \in Nat \X V |-> Append(mv[2], mv[1] % 10)]
<1>1. \A m \in Nat : m \div 10 \in Nat /\ m % 10 \in Digit
                     /\ (m >= 10 => m \div 10 < m) /\ (m \in base <=> m < 10)
  BY DEF Digit
<1>2. first \in [Nat -> V]
  BY DEF Digit
<1>3. Descends(Nat, measure, base, before)
  BY <1>1 DEF Descends
<1>4. step \in [Nat \X V -> V]
  BY <1>1
<1>5. PICK f \in [Nat -> V] : Recurs(f, Nat, base, first, before, step)
  <2> HIDE DEF measure, base, first, before, step, V
  <2> QED
    BY <1>2, <1>3, <1>4, Recursion, Zenon
<1>7. f = [m \in Nat |-> IF m < 10 THEN <<m>> ELSE Append(f[m \div 10], m % 10)]
  BY <1>1, <1>5 DEF Recurs
<1>8. digits = [m \in Nat |->
                 IF m < 10 THEN <<m>> ELSE Append(digits[m \div 10], m % 10)]
  BY <1>7
<1>9. \A m \in Nat : Decimal(m) = digits[m]
  BY DEF Decimal
<1> HIDE DEF digits
<1>10. digits \in [Nat -> V]
  <2>1. DOMAIN digits = Nat /\ digits = [m \in Nat |-> digits[m]]
    BY <1>8
  <2>2. \A m \in Nat : digits[m] = IF m < 10 THEN <<m>>
                                    ELSE Append(digits[m \div 10], m % 10)
    BY <1>8
  <2> DEFINE T == {m \in Nat : digits[m] \in V}
  <2>3. ASSUME NEW m \in base
        PROVE  m \in T
    <3>1. m \in Nat /\ m < 10 /\ m \in Digit
      BY DEF Digit
    <3>2. <<m>> \in V
      BY <3>1
    <3> QED
      BY <2>2, <3>1, <3>2
  <2>4. ASSUME NEW m \in Nat \ base, before[m] \in T
        PROVE  m \in T
    <3>1. digits[m \div 10] \in V /\ m % 10 \in Digit /\ ~(m < 10)
      BY <1>1, <2>4
    <3>2. Append(digits[m \div 10], m % 10) \in V
      BY <3>1, Appended
    <3> QED
      BY <2>2, <3>1, <3>2
  <2>5. Inherits(T, Nat, base, before)
    BY <2>3, <2>4 DEF Inherits
  <2> HIDE DEF T, measure, base, before
  <2>6. Nat \subseteq T
    BY <1>3, <2>5, Descent
  <2> QED
    BY <2>1, <2>6 DEF T
<1> QED
  BY <1>1, <1>8, <1>9, <1>10

(* The values of the first digits of a text, as Number computes them.      *)
Values(s) ==
  LET value[n \in 0 .. Len(s)] ==
        IF n = 0 THEN 0 ELSE 10 * value[n - 1] + s[n]
  IN  value

(* They are numbers, and each of them continues the one before.            *)
LEMMA ValuesOfDigits ==
  ASSUME NEW s \in Seq(Digit)
  PROVE  /\ Values(s) \in [0 .. Len(s) -> Nat]
         /\ \A n \in 0 .. Len(s) :
              Values(s)[n] = IF n = 0 THEN 0 ELSE 10 * Values(s)[n - 1] + s[n]
<1> DEFINE D == 0 .. Len(s)
           value[n \in D] == IF n = 0 THEN 0 ELSE 10 * value[n - 1] + s[n]
           measure == [n \in D |-> n]
           first == [n \in D |-> 0]
           before == [n \in D |-> IF n = 0 THEN 0 ELSE n - 1]
           step == [nv \in D \X Nat |-> IF nv[1] = 0 THEN 0
                                        ELSE 10 * nv[2] + s[nv[1]]]
<1>1. Len(s) \in Nat /\ \A n \in D : n # 0 => n - 1 \in D /\ s[n] \in Nat
  <2>1. Len(s) \in Nat
    BY LenProperties
  <2>2. \A n \in 1 .. Len(s) : s[n] \in Digit
    BY ElementOfSeq
  <2> QED
    BY <2>1, <2>2 DEF Digit
<1>2. Descends(D, measure, {0}, before)
  BY <1>1 DEF Descends
<1>3. first \in [D -> Nat] /\ step \in [D \X Nat -> Nat]
  BY <1>1
<1>4. PICK f \in [D -> Nat] : Recurs(f, D, {0}, first, before, step)
  <2> HIDE DEF D, measure, first, before, step
  <2> QED
    BY <1>2, <1>3, Recursion
<1>5. f = [n \in D |-> IF n = 0 THEN 0 ELSE 10 * f[n - 1] + s[n]]
  BY <1>1, <1>4 DEF Recurs
<1>6. value = [n \in D |-> IF n = 0 THEN 0 ELSE 10 * value[n - 1] + s[n]]
  BY <1>5
<1>7. Values(s) = value
  BY DEF Values
<1> HIDE DEF value
<1>8. value \in [D -> Nat]
  <2>1. \A n \in D : value[n] = IF n = 0 THEN 0 ELSE 10 * value[n - 1] + s[n]
    BY <1>6
  <2> DEFINE T == {n \in D : value[n] \in Nat}
  <2>2. 0 \in D => 0 \in T
    BY <2>1
  <2>3. ASSUME NEW n \in D \ {0}, before[n] \in T
        PROVE  n \in T
    <3>1. value[n - 1] \in Nat /\ s[n] \in Nat /\ n # 0
      BY <1>1, <2>3
    <3> QED
      BY <2>1, <3>1
  <2>4. Inherits(T, D, {0}, before)
    BY <2>2, <2>3 DEF Inherits
  <2> HIDE DEF T, D, measure, before
  <2>5. D \subseteq T
    BY <1>2, <2>4, Descent
  <2> QED
    BY <1>6, <2>5 DEF T
<1> QED
  BY <1>6, <1>7, <1>8

(* The value of digits is a number, and each digit counts ten times the    *)
(* next one.                                                               *)
LEMMA NumberOfDigits ==
  ASSUME NEW s \in Seq(Digit), NEW d \in Digit
  PROVE  /\ Number(s) \in Nat
         /\ s = <<>> => Number(s) = 0
         /\ Number(Append(s, d)) = 10 * Number(s) + d
<1> DEFINE t == Append(s, d)
           n == Len(s)
<1>1. \A r \in Seq(Digit) : Number(r) = Values(r)[Len(r)]
  BY DEF Number, Values
<1>2. /\ t \in Seq(Digit) /\ n \in Nat /\ Len(t) = n + 1
      /\ t[n + 1] = d /\ \A i \in 1 .. n : t[i] = s[i]
  BY LenProperties, AppendProperties
<1> HIDE DEF t, n
<1>3. /\ Values(s) \in [0 .. n -> Nat]
      /\ \A i \in 0 .. n :
           Values(s)[i] = IF i = 0 THEN 0 ELSE 10 * Values(s)[i - 1] + s[i]
  BY ValuesOfDigits DEF n
<1>4. \A i \in 0 .. n + 1 :
        Values(t)[i] = IF i = 0 THEN 0 ELSE 10 * Values(t)[i - 1] + t[i]
  BY <1>2, ValuesOfDigits
<1>5. \A i \in 0 .. n : Values(t)[i] = Values(s)[i]
  <2> DEFINE T == {i \in 0 .. n : Values(t)[i] # Values(s)[i]}
  <2> SUFFICES ASSUME T # {}
               PROVE  FALSE
    OBVIOUS
  <2>1. T \in SUBSET Nat
    OBVIOUS
  <2> HIDE DEF T
  <2>2. PICK i \in T : \A j \in T : i <= j
    BY <2>1, Least
  <2>3. i \in 0 .. n /\ Values(t)[i] # Values(s)[i]
    BY <2>2 DEF T
  <2>4. i # 0
    BY <1>2, <1>3, <1>4, <2>3
  <2>5. i - 1 \in 0 .. n /\ i \in 1 .. n /\ i \in 0 .. n + 1
    BY <1>2, <2>3, <2>4
  <2>6. Values(t)[i - 1] = Values(s)[i - 1]
    BY <1>2, <2>2, <2>3, <2>5 DEF T
  <2> QED
    BY <1>2, <1>3, <1>4, <2>3, <2>4, <2>5, <2>6
<1>6. n + 1 \in 0 .. n + 1 /\ n \in 0 .. n /\ n + 1 # 0 /\ n + 1 - 1 = n
  BY <1>2
<1>7. Values(t)[n + 1] = 10 * Values(t)[n] + t[n + 1]
  BY <1>4, <1>6
<1> QED
  <2>1. Number(s) = Values(s)[n] /\ Number(t) = Values(t)[n + 1]
    BY <1>1, <1>2 DEF n
  <2>2. s = <<>> => n = 0
    BY DEF n
  <2> QED
    BY <1>2, <1>3, <1>5, <1>6, <1>7, <2>1, <2>2 DEF t

(* Reading the decimal digits of a number gives the number.                *)
LEMMA NumberOfDecimal ==
  ASSUME NEW n \in Nat
  PROVE  Number(Decimal(n)) = n
<1> DEFINE T == {i \in Nat : Number(Decimal(i)) # i}
<1> SUFFICES ASSUME T # {}
             PROVE  FALSE
  OBVIOUS
<1>1. T \in SUBSET Nat
  OBVIOUS
<1> HIDE DEF T
<1>2. PICK i \in T : \A j \in T : i <= j
  BY <1>1, Least
<1>3. i \in Nat /\ Number(Decimal(i)) # i
  BY <1>2 DEF T
<1>4. CASE i < 10
  <2>1. i \in Digit /\ <<>> \in Seq(Digit) /\ Decimal(i) = Append(<<>>, i)
    BY <1>3, <1>4, DecimalDigits DEF Digit
  <2>2. Number(Decimal(i)) = 10 * Number(<<>>) + i /\ Number(<<>>) = 0
    BY <2>1, NumberOfDigits
  <2> QED
    BY <1>3, <2>2
<1>5. CASE ~(i < 10)
  <2>1. /\ i \div 10 \in Nat /\ i \div 10 < i /\ i % 10 \in Digit
        /\ i = 10 * (i \div 10) + (i % 10)
    BY <1>3, <1>5, LastDigit
  <2>2. Number(Decimal(i \div 10)) = i \div 10
    <3>1. i \div 10 \notin T
      BY <1>2, <1>3, <2>1
    <3> QED
      BY <2>1, <3>1 DEF T
  <2>3. /\ Decimal(i \div 10) \in Seq(Digit)
        /\ Decimal(i) = Append(Decimal(i \div 10), i % 10)
    BY <1>3, <1>5, <2>1, DecimalDigits
  <2>4. Number(Decimal(i)) = 10 * Number(Decimal(i \div 10)) + (i % 10)
    <3> DEFINE rest == Decimal(i \div 10)
               last == i % 10
    <3>1. rest \in Seq(Digit) /\ last \in Digit /\ Decimal(i) = Append(rest, last)
      BY <2>1, <2>3
    <3> HIDE DEF rest, last
    <3>2. Number(Decimal(i)) = 10 * Number(rest) + last
      BY <3>1, NumberOfDigits
    <3> QED
      BY <3>2, Zenon DEF rest, last
  <2> QED
    BY <1>3, <2>1, <2>2, <2>4
<1> QED
  BY <1>4, <1>5

(***************************************************************************)
(* The parts of a text.                                                    *)
(***************************************************************************)

(* Where the characters of two texts are in the text of both.              *)
LEMMA Joined ==
  ASSUME NEW S, NEW s \in Seq(S), NEW t \in Seq(S)
  PROVE  /\ s \o t \in Seq(S)
         /\ Len(s) \in Nat /\ Len(t) \in Nat
         /\ Len(s \o t) = Len(s) + Len(t)
         /\ \A i \in 1 .. Len(s) : (s \o t)[i] = s[i]
         /\ \A i \in 1 .. Len(t) : (s \o t)[Len(s) + i] = t[i]
<1>1. Len(s) \in Nat /\ Len(t) \in Nat
  BY LenProperties
<1>2. /\ s \o t \in Seq(S)
      /\ Len(s \o t) = Len(s) + Len(t)
      /\ \A i \in 1 .. Len(s) + Len(t) :
           (s \o t)[i] = IF i <= Len(s) THEN s[i] ELSE t[i - Len(s)]
  BY ConcatProperties
<1>3. ASSUME NEW i \in 1 .. Len(s)
      PROVE  (s \o t)[i] = s[i]
  <2>1. i \in 1 .. Len(s) + Len(t) /\ i <= Len(s)
    BY <1>1
  <2> QED
    BY <1>2, <2>1
<1>4. ASSUME NEW i \in 1 .. Len(t)
      PROVE  (s \o t)[Len(s) + i] = t[i]
  <2>1. /\ Len(s) + i \in 1 .. Len(s) + Len(t) /\ ~(Len(s) + i <= Len(s))
        /\ Len(s) + i - Len(s) = i
    BY <1>1
  <2> QED
    BY <1>2, <2>1
<1> QED
  BY <1>1, <1>2, <1>3, <1>4

(* A part of a text is the text whose characters stand there.              *)
LEMMA PartIs ==
  ASSUME NEW S, NEW s \in Seq(S), NEW t \in Seq(S), NEW m \in Nat,
         m + Len(t) <= Len(s), \A i \in 1 .. Len(t) : s[m + i] = t[i]
  PROVE  SubSeq(s, m + 1, m + Len(t)) = t
<1> DEFINE a == m + 1
           b == m + Len(t)
<1>1. Len(s) \in Nat /\ Len(t) \in Nat
  BY LenProperties
<1>2. /\ a \in Int /\ b \in Int /\ b - a + 1 = Len(t)
      /\ a <= b <=> Len(t) > 0
      /\ \A i \in a .. b : i \in 1 .. Len(s)
      /\ \A i \in 1 .. Len(t) : a + i - 1 = m + i
  BY <1>1
<1>3. \A i \in a .. b : s[i] \in S
  BY <1>2, ElementOfSeq
<1> HIDE DEF a, b
<1>4. /\ SubSeq(s, a, b) \in Seq(S)
      /\ Len(SubSeq(s, a, b)) = IF a <= b THEN b - a + 1 ELSE 0
      /\ \A i \in 1 .. b - a + 1 : SubSeq(s, a, b)[i] = s[a + i - 1]
  BY <1>2, <1>3, SubSeqProperties
<1>5. Len(SubSeq(s, a, b)) = Len(t)
  BY <1>1, <1>2, <1>4
<1>6. \A i \in 1 .. Len(t) : SubSeq(s, a, b)[i] = t[i]
  BY <1>2, <1>4
<1>7. SubSeq(s, a, b) = t
  BY <1>4, <1>5, <1>6, SeqEqual
<1> QED
  BY <1>7 DEF a, b

IsNext(s, c, i, j) ==
  /\ j \in i .. Len(s) + 1
  /\ j <= Len(s) => s[j] = c
  /\ \A k \in i .. j - 1 : s[k] # c

(* The next place of a character is the one place before which, from i on, *)
(* it is nowhere.                                                          *)
LEMMA NextIs ==
  ASSUME NEW S, NEW s \in Seq(S), NEW c, NEW i \in Nat,
         NEW j, IsNext(s, c, i, j)
  PROVE  NextOf(s, c, i) = j
<1>0. j \in i .. Len(s) + 1
  BY DEF IsNext
<1>1. Len(s) \in Nat
  BY LenProperties
<1>2. ASSUME NEW m \in i .. Len(s) + 1, IsNext(s, c, i, m)
      PROVE  m = j
  <2>1. CASE m < j
    <3>1. m \in i .. j - 1 /\ m <= Len(s)
      BY <1>0, <1>1, <2>1
    <3> QED
      BY <1>2, <3>1 DEF IsNext
  <2>2. CASE m > j
    <3>1. j \in i .. m - 1 /\ j <= Len(s)
      BY <1>0, <1>1, <2>2
    <3> QED
      BY <1>2, <3>1 DEF IsNext
  <2> QED
    BY <1>0, <1>1, <2>1, <2>2
<1>3. NextOf(s, c, i) = CHOOSE m \in i .. Len(s) + 1 : IsNext(s, c, i, m)
  BY DEF NextOf, IsNext
<1> QED
  BY <1>0, <1>2, <1>3

(***************************************************************************)
(* Packets as text: a type, a colon, the digits of an id, a plus if it     *)
(* asks for data, a colon, an endpoint, and a data fragment.               *)
(***************************************************************************)

Text == Seq(Character)

Free(e) == \A i \in 1 .. Len(e) : e[i] # Colon

(* The parts a packet's text can be made of.                               *)
Parts(t, id, plus, e, d) ==
  /\ t \in 0 .. 8
  /\ id \in Seq(Digit)
  /\ plus \in {<<>>, <<Plus>>}
  /\ e \in Text
  /\ d \in Text /\ (d # <<>> => d[1] = Colon)

Joint(t, id, plus, e, d) == <<t, Colon>> \o id \o plus \o <<Colon>> \o e \o d

(* Where the characters of two texts are in the text of both.              *)
LEMMA JoinedText ==
  ASSUME NEW s \in Text, NEW t \in Text
  PROVE  /\ s \o t \in Text
         /\ Len(s) \in Nat /\ Len(t) \in Nat
         /\ Len(s \o t) = Len(s) + Len(t)
         /\ \A i \in 1 .. Len(s) : (s \o t)[i] = s[i]
         /\ \A i \in 1 .. Len(t) : (s \o t)[Len(s) + i] = t[i]
<1>1. s \in Seq(Character) /\ t \in Seq(Character)
  BY DEF Text
<1>2. s \o t \in Text
  BY <1>1, Joined DEF Text
<1> QED
  BY <1>1, <1>2, Joined

(* Where the parts stand in the text, the second colon at k.               *)
LaidOut(s, k, t, id, plus, e, d) ==
  /\ s \in Text
  /\ Len(id) \in Nat /\ Len(plus) \in Nat /\ Len(e) \in Nat /\ Len(d) \in Nat
  /\ k = Len(id) + Len(plus) + 3
  /\ Len(s) = k + Len(e) + Len(d)
  /\ s[1] = t /\ s[2] = Colon /\ s[k] = Colon
  /\ \A i \in 1 .. Len(id) : s[2 + i] = id[i]
  /\ plus # <<>> => Len(plus) = 1 /\ s[k - 1] = Plus
  /\ plus = <<>> => Len(plus) = 0
  /\ \A i \in 1 .. Len(e) : s[k + i] = e[i]
  /\ \A i \in 1 .. Len(d) : s[k + Len(e) + i] = d[i]

(* They stand there.                                                       *)
LEMMA Layout ==
  ASSUME NEW t, NEW id, NEW plus, NEW e, NEW d, Parts(t, id, plus, e, d),
         NEW s, s = Joint(t, id, plus, e, d),
         NEW k, k = Len(id) + Len(plus) + 3
  PROVE  LaidOut(s, k, t, id, plus, e, d)
<1> DEFINE s0 == <<t, Colon>>
           s1 == s0 \o id
           s2 == s1 \o plus
           s3 == s2 \o <<Colon>>
           s4 == s3 \o e
<1>1. /\ s0 \in Text /\ Len(s0) = 2 /\ s0[1] = t /\ s0[2] = Colon
      /\ id \in Text /\ e \in Text /\ d \in Text
      /\ <<Colon>> \in Text /\ Len(<<Colon>>) = 1 /\ <<Colon>>[1] = Colon
  <2>1. t \in Character /\ Colon \in Character /\ Digit \subseteq Character
    BY DEF Parts, Character, Colon, Digit
  <2>2. id \in Text
    BY <2>1, SeqMonotonic DEF Parts, Text
  <2> QED
    BY <2>1, <2>2 DEF Parts, Text
<1>2. /\ plus \in Text
      /\ plus # <<>> => Len(plus) = 1 /\ plus[1] = Plus
      /\ plus = <<>> => Len(plus) = 0
  <2>1. Plus \in Character
    BY DEF Plus, Character
  <2>2. CASE plus = <<>>
    <3>1. Len(plus) = 0 /\ plus \in Text
      BY <2>2, EmptySeq DEF Text
    <3> QED
      BY <2>2, <3>1
  <2>3. CASE plus = <<Plus>>
    <3>1. Len(plus) = 1 /\ plus[1] = Plus /\ plus \in Text
      BY <2>1, <2>3 DEF Text
    <3>2. plus # <<>>
      BY <3>1
    <3> QED
      BY <3>1, <3>2
  <2> QED
    BY <2>2, <2>3 DEF Parts
<1>3. s = s4 \o d
  BY DEF Joint
<1> HIDE DEF s0, Text
<1>4. /\ s1 \in Text
      /\ Len(id) \in Nat
      /\ Len(s1) = 2 + Len(id)
      /\ s1[1] = t /\ s1[2] = Colon
      /\ \A i \in 1 .. Len(id) : s1[2 + i] = id[i]
  <2>1. /\ s1 \in Text /\ Len(id) \in Nat /\ Len(s1) = Len(s0) + Len(id)
        /\ \A i \in 1 .. Len(s0) : s1[i] = s0[i]
        /\ \A i \in 1 .. Len(id) : s1[Len(s0) + i] = id[i]
    BY <1>1, JoinedText
  <2> HIDE DEF s1
  <2> QED
    BY <1>1, <2>1
<1> HIDE DEF s1
<1>5. /\ s2 \in Text
      /\ Len(plus) \in Nat
      /\ Len(s2) = k - 1
      /\ s2[1] = t /\ s2[2] = Colon
      /\ \A i \in 1 .. Len(id) : s2[2 + i] = id[i]
      /\ plus # <<>> => s2[k - 1] = Plus
  <2>1. /\ s2 \in Text /\ Len(plus) \in Nat /\ Len(s2) = Len(s1) + Len(plus)
        /\ \A i \in 1 .. Len(s1) : s2[i] = s1[i]
        /\ \A i \in 1 .. Len(plus) : s2[Len(s1) + i] = plus[i]
    BY <1>2, <1>4, JoinedText
  <2> HIDE DEF s2
  <2>2. \A i \in 1 .. Len(id) : 2 + i \in 1 .. Len(s1)
    BY <1>4
  <2>3. plus # <<>> => s2[k - 1] = Plus
    <3> SUFFICES ASSUME plus # <<>>
                 PROVE  s2[k - 1] = Plus
      OBVIOUS
    <3>1. Len(plus) = 1 /\ plus[1] = Plus
      BY <1>2
    <3>2. Len(s1) + 1 = k - 1
      BY <1>4, <3>1
    <3>3. s2[Len(s1) + 1] = plus[1]
      BY <2>1, <3>1
    <3> QED
      BY <3>1, <3>2, <3>3
  <2> QED
    BY <1>2, <1>4, <2>1, <2>2, <2>3
<1> HIDE DEF s2
<1>6. /\ s3 \in Text
      /\ Len(s3) = k
      /\ \A i \in 1 .. k - 1 : s3[i] = s2[i]
      /\ s3[k] = Colon
  <2>1. /\ s3 \in Text /\ Len(s3) = Len(s2) + 1
        /\ \A i \in 1 .. Len(s2) : s3[i] = s2[i]
        /\ \A i \in 1 .. 1 : s3[Len(s2) + i] = <<Colon>>[i]
    BY <1>1, <1>5, JoinedText
  <2> HIDE DEF s3
  <2> QED
    BY <1>1, <1>4, <1>5, <2>1
<1> HIDE DEF s3
<1>7. /\ s4 \in Text
      /\ Len(e) \in Nat
      /\ Len(s4) = k + Len(e)
      /\ \A i \in 1 .. k : s4[i] = s3[i]
      /\ \A i \in 1 .. Len(e) : s4[k + i] = e[i]
  <2>1. /\ s4 \in Text /\ Len(e) \in Nat /\ Len(s4) = Len(s3) + Len(e)
        /\ \A i \in 1 .. Len(s3) : s4[i] = s3[i]
        /\ \A i \in 1 .. Len(e) : s4[Len(s3) + i] = e[i]
    BY <1>1, <1>6, JoinedText
  <2> HIDE DEF s4
  <2> QED
    BY <1>6, <2>1
<1> HIDE DEF s4
<1>8. /\ s \in Text
      /\ Len(d) \in Nat
      /\ Len(s) = k + Len(e) + Len(d)
      /\ \A i \in 1 .. k + Len(e) : s[i] = s4[i]
      /\ \A i \in 1 .. Len(d) : s[k + Len(e) + i] = d[i]
  <2> DEFINE s5 == s4 \o d
  <2>1. /\ s5 \in Text /\ Len(d) \in Nat /\ Len(s5) = Len(s4) + Len(d)
        /\ \A i \in 1 .. Len(s4) : s5[i] = s4[i]
        /\ \A i \in 1 .. Len(d) : s5[Len(s4) + i] = d[i]
    BY <1>1, <1>7, JoinedText
  <2>2. s = s5
    BY <1>3
  <2> HIDE DEF s5
  <2> QED
    BY <1>7, <2>1, <2>2
<1>9. /\ k \in Nat /\ k - 1 >= 2 /\ Len(e) \in Nat
      /\ \A i \in 1 .. k - 1 : s[i] = s2[i]
      /\ s[k] = Colon
  <2>1. k \in Nat /\ k - 1 >= 2 /\ Len(e) \in Nat
    BY <1>4, <1>5, <1>7
  <2>2. \A i \in 1 .. k : i \in 1 .. k + Len(e)
    BY <2>1
  <2>3. \A i \in 1 .. k : s[i] = s3[i]
    BY <1>7, <1>8, <2>2
  <2>4. k \in 1 .. k /\ \A i \in 1 .. k - 1 : i \in 1 .. k
    BY <2>1
  <2> QED
    BY <1>6, <2>1, <2>3, <2>4
<1>10. \A i \in 1 .. Len(e) : s[k + i] = e[i]
  <2>1. \A i \in 1 .. Len(e) : k + i \in 1 .. k + Len(e)
    BY <1>9
  <2> QED
    BY <1>7, <1>8, <2>1
<1>11. \A i \in 1 .. Len(id) : s[2 + i] = id[i]
  <2>1. \A i \in 1 .. Len(id) : 2 + i \in 1 .. k - 1
    BY <1>4, <1>5
  <2> QED
    BY <1>5, <1>9, <2>1
<1>12. s[1] = t /\ s[2] = Colon /\ (plus # <<>> => s[k - 1] = Plus)
  <2>1. 1 \in 1 .. k - 1 /\ 2 \in 1 .. k - 1 /\ k - 1 \in 1 .. k - 1
    BY <1>9
  <2> QED
    BY <1>5, <1>9, <2>1
<1> QED
  BY <1>2, <1>4, <1>5, <1>7, <1>8, <1>9, <1>10, <1>11, <1>12 DEF LaidOut

(* A part of a text, from one place to another.                            *)
LEMMA Part ==
  ASSUME NEW S, NEW s \in Seq(S), NEW m \in Nat, NEW n \in Nat,
         m >= 1, m - 1 <= n, n <= Len(s)
  PROVE  /\ SubSeq(s, m, n) \in Seq(S)
         /\ Len(SubSeq(s, m, n)) = n - m + 1
         /\ DOMAIN SubSeq(s, m, n) = 1 .. n - m + 1
         /\ \A i \in 1 .. n - m + 1 : SubSeq(s, m, n)[i] = s[m - 1 + i]
<1>1. Len(s) \in Nat
  BY LenProperties
<1>2. m \in Int /\ n \in Int /\ \A i \in m .. n : i \in 1 .. Len(s)
  BY <1>1
<1>3. \A i \in m .. n : s[i] \in S
  BY <1>2, ElementOfSeq
<1> DEFINE u == SubSeq(s, m, n)
<1>4. /\ u \in Seq(S)
      /\ Len(u) = IF m <= n THEN n - m + 1 ELSE 0
      /\ \A i \in 1 .. n - m + 1 : u[i] = s[m + i - 1]
  BY <1>2, <1>3, SubSeqProperties
<1>5. DOMAIN u = 1 .. Len(u)
  BY <1>4, LenProperties
<1> HIDE DEF u
<1>6. Len(u) = n - m + 1 /\ \A i \in 1 .. n - m + 1 : m + i - 1 = m - 1 + i
  BY <1>4
<1>7. u \in Seq(S) /\ Len(u) = n - m + 1 /\ DOMAIN u = 1 .. n - m + 1
      /\ \A i \in 1 .. n - m + 1 : u[i] = s[m - 1 + i]
  BY <1>4, <1>5, <1>6
<1> QED
  BY <1>7 DEF u

(* What the client's pattern matches in such a text is where its first two *)
(* colons are, even if its data hold another match.                        *)
LEMMA TheMatch ==
  ASSUME NEW t, NEW id, NEW plus, NEW e, NEW d, Parts(t, id, plus, e, d),
         NEW s, s = Joint(t, id, plus, e, d),
         NEW k, k = Len(id) + Len(plus) + 3
  PROVE  /\ PacketMatches(s) # {}
         /\ (CHOOSE m \in PacketMatches(s) : \A n \in PacketMatches(s) : m[1] <= n[1])
              = <<2, k>>
<1> DEFINE IsId(u) == \/ AllDigits(u)
                      \/ u[Len(u)] = Plus /\ AllDigits(SubSeq(u, 1, Len(u) - 1))
           IsMatch(j, n) ==
             /\ 1 < j /\ j < n
             /\ s[j] = Colon /\ s[j - 1] # Colon /\ s[n] = Colon
             /\ IsId(SubSeq(s, j + 1, n - 1))
<1>1. /\ s \in Text
      /\ Len(id) \in Nat /\ Len(plus) \in Nat /\ Len(e) \in Nat /\ Len(d) \in Nat
      /\ Len(s) = k + Len(e) + Len(d)
      /\ s[1] = t /\ s[2] = Colon /\ s[k] = Colon
      /\ \A i \in 1 .. Len(id) : s[2 + i] = id[i]
      /\ plus # <<>> => Len(plus) = 1 /\ s[k - 1] = Plus
      /\ plus = <<>> => Len(plus) = 0
  <2>1. LaidOut(s, k, t, id, plus, e, d)
    BY Layout
  <2> QED
    BY <2>1 DEF LaidOut
<1>2. /\ t \in 0 .. 8 /\ id \in Seq(Digit)
      /\ \A i \in 1 .. Len(id) : id[i] \in Digit
  BY ElementOfSeq DEF Parts
<1>3. k \in Nat /\ k >= 3 /\ k <= Len(s) /\ Len(s) \in Nat
  BY <1>1
<1>4. DOMAIN s = 1 .. Len(s) /\ s \in Seq(Character)
  BY <1>1, LenProperties DEF Text
<1>5. \A j, n : <<j, n>> \in PacketMatches(s)
                  <=> j \in 1 .. Len(s) /\ n \in 1 .. Len(s) /\ IsMatch(j, n)
  <2> HIDE DEF Parts
  <2> QED
    BY <1>4 DEF PacketMatches
<1>6. s[1] # Colon
  BY <1>1, <1>2 DEF Colon
<1>7. IsMatch(2, k)
  <2>1. 1 < 2 /\ 2 < k /\ s[2 - 1] # Colon /\ 2 + 1 = 3
    BY <1>1, <1>3, <1>6
  <2>2. CASE plus = <<>>
    <3>1. /\ 2 + 1 = 3 /\ 2 + Len(id) = k - 1 /\ 2 + Len(id) <= Len(s)
          /\ Digit \subseteq Character
      BY <1>1, <1>3, <2>2 DEF Digit, Character
    <3>2. id \in Seq(Character) /\ 2 \in Nat
      BY <1>2, <3>1, SeqMonotonic
    <3>3. SubSeq(s, 2 + 1, 2 + Len(id)) = id
      BY <1>1, <1>4, <3>1, <3>2, PartIs
    <3>4. AllDigits(id)
      BY <1>2, LenProperties DEF AllDigits
    <3>5. IsId(SubSeq(s, 2 + 1, k - 1))
      BY <3>1, <3>3, <3>4
    <3> HIDE DEF IsId
    <3> QED
      BY <1>1, <2>1, <3>5
  <2>3. CASE plus # <<>>
    <3> DEFINE u == SubSeq(s, 2 + 1, k - 1)
               w == SubSeq(u, 1, Len(u) - 1)
    <3>0. Len(plus) = 1 /\ s[k - 1] = Plus
      BY <1>1, <2>3
    <3>1. Len(plus) = 1 /\ s[k - 1] = Plus /\ k = Len(id) + 4
      BY <1>1, <3>0
    <3>2. /\ 2 + 1 \in Nat /\ 2 + 1 >= 1 /\ k - 1 \in Nat /\ 2 + 1 - 1 <= k - 1
          /\ k - 1 <= Len(s)
      BY <1>1, <1>3, <3>1
    <3>3. /\ u \in Seq(Character) /\ Len(u) = k - 1 - (2 + 1) + 1
          /\ \A i \in 1 .. k - 1 - (2 + 1) + 1 : u[i] = s[(2 + 1) - 1 + i]
      BY <1>4, <3>2, Part
    <3> HIDE DEF u
    <3>4. Len(u) = Len(id) + 1 /\ \A i \in 1 .. Len(id) + 1 : u[i] = s[2 + i]
      BY <1>1, <3>1, <3>3
    <3>5. u[Len(u)] = Plus
      <4>1. Len(id) + 1 \in 1 .. Len(id) + 1 /\ 2 + (Len(id) + 1) = k - 1
        BY <1>1, <3>1
      <4> QED
        BY <3>1, <3>4, <4>1
    <3>6. /\ w \in Seq(Character) /\ DOMAIN w = 1 .. Len(id)
          /\ \A i \in 1 .. Len(id) : w[i] = u[i]
      <4>1. /\ 1 \in Nat /\ 1 >= 1 /\ Len(u) - 1 \in Nat /\ 1 - 1 <= Len(u) - 1
            /\ Len(u) - 1 <= Len(u) /\ Len(u) - 1 - 1 + 1 = Len(id)
        BY <1>1, <3>4
      <4>2. /\ w \in Seq(Character) /\ DOMAIN w = 1 .. Len(u) - 1 - 1 + 1
            /\ \A i \in 1 .. Len(u) - 1 - 1 + 1 : w[i] = u[1 - 1 + i]
        BY <3>3, <4>1, Part
      <4> HIDE DEF w
      <4>3. \A i \in 1 .. Len(id) : 1 - 1 + i = i
        BY <1>1
      <4> QED
        BY <4>1, <4>2, <4>3
    <3> HIDE DEF w
    <3>7. \A i \in 1 .. Len(id) : w[i] \in Digit
      <4>1. \A i \in 1 .. Len(id) : i \in 1 .. Len(id) + 1
        BY <1>1
      <4> QED
        BY <1>1, <1>2, <3>4, <3>6, <4>1
    <3>8. AllDigits(w)
      BY <3>6, <3>7 DEF AllDigits
    <3>9. IsId(SubSeq(s, 2 + 1, k - 1))
      BY <3>5, <3>8 DEF u, w
    <3> HIDE DEF IsId
    <3> QED
      BY <1>1, <2>1, <3>9
  <2> QED
    BY <2>2, <2>3
<1>8. ASSUME NEW n \in 1 .. Len(s), IsMatch(2, n)
      PROVE  n = k
  <2>1. n \in Nat /\ 2 < n /\ s[n] = Colon
    BY <1>3, <1>8
  <2>2. ASSUME n < k
        PROVE  FALSE
    <3>1. CASE n = k - 1 /\ plus # <<>>
      BY <1>1, <2>1, <3>1 DEF Colon, Plus
    <3>2. CASE ~(n = k - 1 /\ plus # <<>>)
      <4>1. n - 2 \in 1 .. Len(id) /\ 2 + (n - 2) = n
        <5> DEFINE l == Len(id)
                   pl == Len(plus)
        <5>0. /\ l \in Nat /\ pl \in {0, 1} /\ (plus = <<>> => pl = 0)
              /\ k = l + pl + 3
          BY <1>1
        <5> HIDE DEF l, pl
        <5>1. k <= Len(id) + 4 /\ (plus = <<>> => k = Len(id) + 3)
          BY <5>0 DEF l
        <5>2. n <= Len(id) + 2
          BY <1>1, <1>3, <2>1, <2>2, <3>2, <5>1
        <5> QED
          BY <1>1, <2>1, <5>2
      <4>2. s[n] \in Digit
        BY <1>1, <1>2, <4>1
      <4> QED
        BY <2>1, <4>2 DEF Colon, Digit
    <3> QED
      BY <3>1, <3>2
  <2>3. ASSUME n > k
        PROVE  FALSE
    <3> DEFINE u == SubSeq(s, 2 + 1, n - 1)
               w == SubSeq(u, 1, Len(u) - 1)
    <3>1. /\ 2 + 1 \in Nat /\ 2 + 1 >= 1 /\ n - 1 \in Nat /\ 2 + 1 - 1 <= n - 1
          /\ n - 1 <= Len(s)
      BY <1>3, <2>1, <2>3
    <3>2. /\ u \in Seq(Character) /\ Len(u) = n - 1 - (2 + 1) + 1
          /\ DOMAIN u = 1 .. n - 1 - (2 + 1) + 1
          /\ \A i \in 1 .. n - 1 - (2 + 1) + 1 : u[i] = s[(2 + 1) - 1 + i]
      BY <1>4, <3>1, Part
    <3>3. IsId(u)
      BY <1>8
    <3> HIDE DEF u
    <3>4. /\ Len(u) = n - 3 /\ DOMAIN u = 1 .. n - 3
          /\ \A i \in 1 .. n - 3 : u[i] = s[2 + i]
      BY <2>1, <3>2
    <3>5. k - 2 \in 1 .. n - 3 /\ 2 + (k - 2) = k
      BY <1>3, <2>1, <2>3
    <3>6. u[k - 2] = Colon /\ u[k - 2] \notin Digit
      BY <1>1, <3>4, <3>5 DEF Colon, Digit
    <3>7. ~AllDigits(u)
      BY <3>4, <3>5, <3>6 DEF AllDigits
    <3>8. u[n - 3] = Plus /\ AllDigits(w)
      BY <3>3, <3>4, <3>7
    <3>9. k - 2 \in 1 .. n - 4
      BY <1>3, <2>1, <2>3, <3>5, <3>6, <3>8 DEF Colon, Plus
    <3>10. /\ w \in Seq(Character) /\ DOMAIN w = 1 .. n - 4
           /\ \A i \in 1 .. n - 4 : w[i] = u[i]
      <4>1. /\ 1 \in Nat /\ 1 >= 1 /\ Len(u) - 1 \in Nat /\ 1 - 1 <= Len(u) - 1
            /\ Len(u) - 1 <= Len(u) /\ Len(u) - 1 - 1 + 1 = n - 4
        BY <2>1, <3>4, <3>5
      <4>2. /\ w \in Seq(Character) /\ DOMAIN w = 1 .. Len(u) - 1 - 1 + 1
            /\ \A i \in 1 .. Len(u) - 1 - 1 + 1 : w[i] = u[1 - 1 + i]
        BY <3>2, <4>1, Part
      <4> HIDE DEF w
      <4>3. \A i \in 1 .. n - 4 : 1 - 1 + i = i
        BY <2>1
      <4> QED
        BY <4>1, <4>2, <4>3
    <3> HIDE DEF w
    <3>11. w[k - 2] \in Digit
      BY <3>8, <3>9, <3>10 DEF AllDigits
    <3> QED
      BY <3>6, <3>9, <3>10, <3>11
  <2> QED
    BY <1>3, <2>1, <2>2, <2>3
<1> HIDE DEF IsMatch
<1>9. <<2, k>> \in PacketMatches(s)
  BY <1>3, <1>5, <1>7
<1>10. ASSUME NEW m \in PacketMatches(s)
       PROVE  /\ m = <<m[1], m[2]>>
              /\ m[1] \in 1 .. Len(s) /\ m[2] \in 1 .. Len(s)
              /\ IsMatch(m[1], m[2]) /\ m[1] >= 2
  <2>1. m = <<m[1], m[2]>>
    BY DEF PacketMatches
  <2>2. m[1] \in 1 .. Len(s) /\ m[2] \in 1 .. Len(s) /\ IsMatch(m[1], m[2])
    BY <1>5, <2>1
  <2> QED
    <3>1. 1 < m[1] /\ m[1] \in Nat
      BY <1>3, <2>2 DEF IsMatch
    <3> QED
      BY <2>1, <2>2, <3>1
<1>11. \A n \in PacketMatches(s) : <<2, k>>[1] <= n[1]
  BY <1>10
<1>12. ASSUME NEW m \in PacketMatches(s), \A n \in PacketMatches(s) : m[1] <= n[1]
       PROVE  m = <<2, k>>
  <2>1. m[1] <= 2
    BY <1>9, <1>12
  <2>2. m[1] = 2
    BY <1>10, <2>1
  <2> QED
    BY <1>8, <1>10, <2>2
<1> QED
  BY <1>9, <1>11, <1>12

(* What the client decodes from such a text are its parts, if there is no  *)
(* colon in the endpoint.                                                  *)
LEMMA DecodeParts ==
  ASSUME NEW t, NEW id, NEW plus, NEW e, NEW d, Parts(t, id, plus, e, d), Free(e)
  PROVE  DecodePacket(Joint(t, id, plus, e, d)) =
           WithData(Packet(Types[t + 1], e, Number(id),
                           IF id = <<>> THEN "none"
                           ELSE IF plus # <<>> THEN "data" ELSE "true",
                           IF t = 7 THEN NoReason ELSE 0, <<>>),
                    IF d = <<>> THEN <<>> ELSE Tail(d))
<1> DEFINE s == Joint(t, id, plus, e, d)
           second == Len(id) + Len(plus) + 3
           jk == CHOOSE m \in PacketMatches(s) : \A n \in PacketMatches(s) : m[1] <= n[1]
           j == jk[1]
           k == jk[2]
           before == CHOOSE i \in 0 .. j - 1 :
                       /\ i > 0 => s[i] = Colon
                       /\ \A h \in i + 1 .. j - 1 : s[h] # Colon
           type == SubSeq(s, before + 1, j - 1)
           hasPlus == s[k - 1] = Plus
           ident == SubSeq(s, j + 1, IF hasPlus THEN k - 2 ELSE k - 1)
           colon == NextOf(s, Colon, k + 1)
           packet ==
             Packet(IF Len(type) = 1 /\ type[1] + 1 \in DOMAIN Types
                    THEN Types[type[1] + 1] ELSE "undefined",
                    SubSeq(s, k + 1, colon - 1),
                    Number(ident),
                    IF ident = <<>> THEN "none"
                    ELSE IF hasPlus THEN "data" ELSE "true",
                    IF type = <<7>> THEN NoReason ELSE 0,
                    <<>>)
<1>1. PacketMatches(s) # {} /\ jk = <<2, second>>
  <2> HIDE DEF s, second
  <2>1. s = Joint(t, id, plus, e, d) /\ second = Len(id) + Len(plus) + 3
    BY DEF s, second
  <2> QED
    BY <2>1, TheMatch
<1>2. DecodePacket(s) = WithData(packet, SubSeq(s, colon + 1, Len(s)))
  <2> HIDE DEF s
  <2> QED
    BY <1>1 DEF DecodePacket
<1> HIDE DEF jk, s, second
<1>3. j = 2 /\ k = second
  BY <1>1
<1> USE DEF s, second
<1>4. LaidOut(s, second, t, id, plus, e, d)
  BY Layout
<1> HIDE DEF j, k, s
<1>5. /\ s \in Seq(Character) /\ Len(s) \in Nat
      /\ Len(id) \in Nat /\ Len(plus) \in Nat /\ Len(e) \in Nat /\ Len(d) \in Nat
      /\ Len(s) = k + Len(e) + Len(d)
      /\ s[1] = t /\ s[2] = Colon /\ s[k] = Colon
      /\ \A i \in 1 .. Len(id) : s[2 + i] = id[i]
      /\ plus # <<>> => Len(plus) = 1 /\ s[k - 1] = Plus
      /\ plus = <<>> => Len(plus) = 0
      /\ \A i \in 1 .. Len(e) : s[k + i] = e[i]
      /\ \A i \in 1 .. Len(d) : s[k + Len(e) + i] = d[i]
  <2>1. s \in Seq(Character)
    BY <1>4 DEF LaidOut, Text
  <2>2. Len(s) \in Nat
    BY <2>1, LenProperties
  <2> QED
    BY <1>3, <1>4, <2>1, <2>2 DEF LaidOut
<1>6. /\ t \in 0 .. 8 /\ t \in Character /\ t # Colon
      /\ id \in Seq(Digit) /\ id \in Seq(Character)
      /\ \A i \in 1 .. Len(id) : id[i] \in Digit
      /\ e \in Seq(Character) /\ d \in Seq(Character) /\ Free(e)
      /\ d # <<>> => d[1] = Colon
  <2>1. Digit \subseteq Character
    BY DEF Digit, Character
  <2>2. id \in Seq(Digit)
    BY DEF Parts
  <2>3. id \in Seq(Character) /\ \A i \in 1 .. Len(id) : id[i] \in Digit
    BY <2>1, <2>2, SeqMonotonic, ElementOfSeq
  <2> QED
    BY <2>2, <2>3 DEF Parts, Colon, Character, Text
<1>7. k \in Nat /\ k = Len(id) + Len(plus) + 3
  BY <1>3, <1>5
<1> HIDE DEF second
<1>8. before = 0
  <2>1. \A i \in 0 .. j - 1 : i = 0 \/ i = 1
    BY <1>3
  <2>2. 0 \in 0 .. j - 1 /\ \A h \in 0 + 1 .. j - 1 : h = 1
    BY <1>3
  <2> QED
    BY <1>5, <1>6, <2>1, <2>2
<1> HIDE DEF before
<1>9. type = <<t>>
  <2>1. /\ <<t>> \in Seq(Character) /\ Len(<<t>>) = 1 /\ 0 + 1 <= Len(s)
        /\ \A i \in 1 .. 1 : s[0 + i] = <<t>>[i]
    BY <1>5, <1>6, <1>7
  <2>2. SubSeq(s, 0 + 1, 0 + Len(<<t>>)) = <<t>>
    BY <1>5, <2>1, PartIs
  <2>3. before + 1 = 0 + 1 /\ j - 1 = 0 + Len(<<t>>)
    BY <1>3, <1>8, <2>1
  <2> QED
    BY <2>2, <2>3
<1> HIDE DEF type
<1>10. hasPlus <=> plus # <<>>
  <2>1. CASE plus # <<>>
    BY <1>5, <2>1
  <2>2. CASE plus = <<>> /\ id = <<>>
    <3>1. Len(id) = 0 /\ Len(plus) = 0
      BY <1>5, <2>2
    <3>2. k - 1 = 2
      BY <1>7, <3>1
    <3> QED
      BY <1>5, <2>2, <3>2 DEF Colon, Plus
  <2>3. CASE plus = <<>> /\ id # <<>>
    <3>1. Len(id) # 0 /\ Len(plus) = 0
      BY <1>5, <1>6, <2>3, EmptySeq
    <3>2. Len(id) \in 1 .. Len(id) /\ k - 1 = 2 + Len(id)
      BY <1>5, <1>7, <3>1
    <3>3. s[k - 1] \in Digit
      BY <1>5, <1>6, <3>2
    <3> QED
      BY <2>3, <3>3 DEF Digit, Plus
  <2> QED
    BY <2>1, <2>2, <2>3
<1> HIDE DEF hasPlus
<1>11. ident = id
  <2>1. 2 \in Nat /\ 2 + Len(id) <= Len(s)
    BY <1>5, <1>7
  <2>2. SubSeq(s, 2 + 1, 2 + Len(id)) = id
    BY <1>5, <1>6, <2>1, PartIs
  <2>3. j + 1 = 2 + 1
    BY <1>3
  <2>4. 2 + Len(id) = IF hasPlus THEN k - 2 ELSE k - 1
    <3> DEFINE l == Len(id)
               pl == Len(plus)
    <3>1. /\ l \in Nat /\ pl \in Nat /\ k = l + pl + 3
          /\ (plus = <<>> => pl = 0) /\ (plus # <<>> => pl = 1)
      BY <1>5, <1>7
    <3> HIDE DEF l, pl
    <3> QED
      BY <1>10, <3>1 DEF l
  <2> QED
    BY <2>2, <2>3, <2>4
<1> HIDE DEF ident
<1>12. colon = k + Len(e) + 1
  <2> DEFINE from == k + 1
             place == k + Len(e) + 1
  <2>1. from \in Nat /\ place \in from .. Len(s) + 1
    BY <1>5, <1>7
  <2>2. place <= Len(s) => s[place] = Colon
    <3> SUFFICES ASSUME place <= Len(s)
                 PROVE  s[place] = Colon
      OBVIOUS
    <3>1. 1 \in 1 .. Len(d)
      BY <1>5, <1>7
    <3>2. d # <<>>
      BY <3>1
    <3> QED
      BY <1>5, <1>6, <3>1, <3>2
  <2>3. ASSUME NEW i \in from .. place - 1
        PROVE  s[i] # Colon
    <3>1. i - k \in 1 .. Len(e) /\ k + (i - k) = i
      BY <1>5, <1>7
    <3> QED
      BY <1>5, <1>6, <3>1 DEF Free
  <2> HIDE DEF from, place
  <2>4. IsNext(s, Colon, from, place)
    BY <2>1, <2>2, <2>3 DEF IsNext
  <2>5. NextOf(s, Colon, from) = place
    BY <1>5, <2>1, <2>4, NextIs
  <2> QED
    BY <2>5 DEF from, place
<1> HIDE DEF colon
<1>13. SubSeq(s, k + 1, colon - 1) = e
  <2>1. k + Len(e) <= Len(s) /\ colon - 1 = k + Len(e)
    BY <1>5, <1>7, <1>12
  <2>2. SubSeq(s, k + 1, k + Len(e)) = e
    BY <1>5, <1>6, <1>7, <2>1, PartIs
  <2> QED
    BY <2>1, <2>2
<1>14. SubSeq(s, colon + 1, Len(s)) = IF d = <<>> THEN <<>> ELSE Tail(d)
  <2>1. CASE d = <<>>
    <3>1. Len(d) = 0
      BY <2>1
    <3>2. colon + 1 \in Int /\ Len(s) \in Int /\ Len(s) < colon + 1
      BY <1>5, <1>7, <1>12, <3>1
    <3> QED
      BY <2>1, <3>2, SubSeqEmpty
  <2>2. CASE d # <<>>
    <3> DEFINE r == Tail(d)
    <3>1. /\ r \in Seq(Character) /\ Len(r) = Len(d) - 1
          /\ \A i \in 1 .. Len(r) : r[i] = d[i + 1]
      BY <1>6, <2>2, HeadTailProperties
    <3>2. Len(r) \in Nat
      BY <3>1, LenProperties
    <3> HIDE DEF r
    <3>3. colon \in Nat /\ colon + Len(r) <= Len(s) /\ colon + Len(r) = Len(s)
      BY <1>5, <1>7, <1>12, <3>1, <3>2
    <3>4. ASSUME NEW i \in 1 .. Len(r)
          PROVE  s[colon + i] = r[i]
      <4>1. /\ i + 1 \in 1 .. Len(d) /\ colon + i = k + Len(e) + (i + 1)
        BY <1>5, <1>7, <1>12, <3>1, <3>2
      <4> QED
        BY <1>5, <3>1, <4>1
    <3>5. SubSeq(s, colon + 1, colon + Len(r)) = r
      BY <1>5, <3>1, <3>3, <3>4, PartIs
    <3> QED
      BY <2>2, <3>3, <3>5 DEF r
  <2> QED
    BY <2>1, <2>2
<1>15. Len(<<t>>) = 1 /\ <<t>>[1] = t /\ t + 1 \in DOMAIN Types /\ (<<t>> = <<7>> <=> t = 7)
  BY <1>6 DEF Types
<1>16. packet = Packet(Types[t + 1], e, Number(id),
                       IF id = <<>> THEN "none"
                       ELSE IF plus # <<>> THEN "data" ELSE "true",
                       IF t = 7 THEN NoReason ELSE 0, <<>>)
  BY <1>9, <1>10, <1>11, <1>13, <1>15
<1> HIDE DEF packet
<1> QED
  BY <1>2, <1>14, <1>16 DEF s

(***************************************************************************)
(* The data fragment, by type of packet.                                   *)
(***************************************************************************)

(* A text after a colon, and what is left of it without the colon.         *)
LEMMA FragmentOf ==
  ASSUME NEW c \in Character, NEW s \in Text
  PROVE  LET f == <<c>> \o s
         IN  f \in Text /\ f # <<>> /\ f[1] = c /\ Tail(f) = s
<1> DEFINE f == <<c>> \o s
<1>1. <<c>> \in Text /\ Len(<<c>>) = 1 /\ <<c>>[1] = c
  BY DEF Text
<1>2. /\ f \in Text /\ Len(s) \in Nat /\ Len(f) = 1 + Len(s)
      /\ \A i \in 1 .. 1 : f[i] = <<c>>[i]
      /\ \A i \in 1 .. Len(s) : f[1 + i] = s[i]
  BY <1>1, JoinedText
<1> HIDE DEF f
<1>3. f \in Seq(Character) /\ s \in Seq(Character) /\ f # <<>> /\ f[1] = c
  <2>1. f # <<>>
    BY <1>2
  <2> QED
    BY <1>1, <1>2, <2>1 DEF Text
<1>4. /\ Tail(f) \in Seq(Character) /\ Len(Tail(f)) = Len(f) - 1
      /\ \A i \in 1 .. Len(Tail(f)) : Tail(f)[i] = f[i + 1]
  BY <1>3, HeadTailProperties
<1>5. Tail(f) = s
  <2> DEFINE r == Tail(f)
  <2>1. r \in Seq(Character) /\ Len(r) = Len(s)
    BY <1>2, <1>4
  <2>2. \A i \in 1 .. Len(r) : r[i] = s[i]
    <3>1. \A i \in 1 .. Len(r) : r[i] = f[i + 1]
      BY <1>4
    <3> HIDE DEF r
    <3>2. \A i \in 1 .. Len(r) : i \in 1 .. Len(s) /\ i + 1 = 1 + i
      BY <1>2, <2>1
    <3> QED
      BY <1>2, <3>1, <3>2
  <2> HIDE DEF r
  <2>3. r = s
    BY <1>3, <2>1, <2>2, SeqEqual
  <2> QED
    BY <2>3 DEF r
<1>6. f \in Text /\ f # <<>> /\ f[1] = c /\ Tail(f) = s
  BY <1>2, <1>3, <1>5
<1> QED
  BY <1>6 DEF f

(* JSON reads the value that it has written.                               *)
LEMMA JsonOf ==
  ASSUME NEW v \in Text
  PROVE  LET u == Stringify(v)
         IN  /\ u \in Text /\ Len(u) = Len(v) + 2 /\ u # <<>>
             /\ u[1] = Mark /\ (v # <<>> => u[2] = v[1])
             /\ IsJson(u) /\ Parse(u) = v
             /\ \A i \in 1 .. Len(v) : u[1 + i] = v[i]
<1> DEFINE w == <<Mark>> \o v
           u == w \o <<Mark>>
<1>1. <<Mark>> \in Text /\ Len(<<Mark>>) = 1 /\ <<Mark>>[1] = Mark
  BY DEF Text, Mark, Character
<1>2. /\ w \in Text /\ Len(v) \in Nat /\ Len(w) = 1 + Len(v)
      /\ \A i \in 1 .. 1 : w[i] = <<Mark>>[i]
      /\ \A i \in 1 .. Len(v) : w[1 + i] = v[i]
  BY <1>1, JoinedText
<1> HIDE DEF w
<1>3. /\ u \in Text /\ Len(u) = Len(w) + 1
      /\ \A i \in 1 .. Len(w) : u[i] = w[i]
      /\ \A i \in 1 .. 1 : u[Len(w) + i] = <<Mark>>[i]
  BY <1>1, <1>2, JoinedText
<1> HIDE DEF u
<1>4. /\ Len(u) = Len(v) + 2
      /\ u[1] = Mark /\ u[Len(v) + 2] = Mark
      /\ \A i \in 1 .. Len(v) : u[1 + i] = v[i]
  <2>1. Len(u) = Len(v) + 2 /\ 1 \in 1 .. Len(w) /\ Len(w) + 1 = Len(v) + 2
    BY <1>2, <1>3
  <2>2. \A i \in 1 .. Len(v) : 1 + i \in 1 .. Len(w)
    BY <1>2
  <2> QED
    BY <1>1, <1>2, <1>3, <2>1, <2>2
<1>5. u # <<>> /\ IsJson(u)
  <2>1. Len(u) > 1
    BY <1>2, <1>4
  <2>2. u # <<>>
    BY <2>1
  <2> QED
    BY <1>4, <2>1, <2>2 DEF IsJson
<1>6. Parse(u) = v
  <2>1. /\ u \in Seq(Character) /\ v \in Seq(Character) /\ 1 \in Nat
        /\ 1 + Len(v) <= Len(u)
    BY <1>2, <1>3, <1>4 DEF Text
  <2>2. SubSeq(u, 1 + 1, 1 + Len(v)) = v
    BY <1>4, <2>1, PartIs
  <2>3. 1 + 1 = 2 /\ 1 + Len(v) = Len(u) - 1
    BY <1>2, <1>4
  <2> QED
    BY <2>2, <2>3 DEF Parse
<1>7. v # <<>> => u[2] = v[1]
  <2> SUFFICES ASSUME v # <<>>
               PROVE  u[2] = v[1]
    OBVIOUS
  <2>1. Len(v) # 0
    BY <1>2, EmptySeq DEF Text
  <2>2. 1 \in 1 .. Len(v) /\ 1 + 1 = 2
    BY <1>2, <2>1
  <2> QED
    BY <1>4, <2>2
<1>8. u = Stringify(v)
  BY DEF Stringify, u, w
<1> QED
  BY <1>3, <1>4, <1>5, <1>6, <1>7, <1>8

(* The value's text, but for its marks, has the characters of the value.   *)
LEMMA JsonHolds ==
  ASSUME NEW v \in Text, LineEnd \notin Range(v)
  PROVE  LineEnd \notin Range(Stringify(v))
<1> DEFINE u == Stringify(v)
<1>1. /\ u \in Text /\ Len(u) = Len(v) + 2 /\ u[1] = Mark /\ IsJson(u)
      /\ \A i \in 1 .. Len(v) : u[1 + i] = v[i]
  BY JsonOf
<1> HIDE DEF u
<1>2. /\ Len(v) \in Nat /\ DOMAIN v = 1 .. Len(v)
      /\ DOMAIN u = 1 .. Len(v) + 2 /\ u[Len(v) + 2] = Mark
  <2>1. Len(v) \in Nat /\ DOMAIN v = 1 .. Len(v) /\ DOMAIN u = 1 .. Len(u)
    BY <1>1, LenProperties DEF Text
  <2> QED
    BY <1>1, <2>1 DEF IsJson
<1>3. \A i \in 1 .. Len(v) : v[i] # LineEnd
  BY <1>2 DEF Range
<1>4. ASSUME NEW i \in 1 .. Len(v) + 2
      PROVE  u[i] # LineEnd
  <2>1. CASE i = 1 \/ i = Len(v) + 2
    BY <1>1, <1>2, <2>1 DEF Mark, LineEnd
  <2>2. CASE i # 1 /\ i # Len(v) + 2
    <3>1. i - 1 \in 1 .. Len(v) /\ 1 + (i - 1) = i
      BY <1>2, <2>2
    <3>2. u[i] = v[i - 1]
      BY <1>1, <3>1
    <3> QED
      BY <1>3, <3>1, <3>2
  <2> QED
    BY <2>1, <2>2
<1>5. LineEnd \notin Range(u)
  BY <1>2, <1>4 DEF Range
<1> QED
  BY <1>5 DEF u

(* A packet that the client can write, of each type.                       *)
IsPacket(p) ==
  /\ p = Packet(p.type, p.endpoint, p.id, p.ack, p.num, p.text)
  /\ p.endpoint \in Text
  /\ p.id \in Nat /\ p.ack \in {"none", "true", "data"}
  /\ p.id = 0 <=> p.ack = "none"
  /\ \/ /\ p.type \in {"message", "connect", "json"}
        /\ p.num = 0 /\ p.text \in Text
     \/ p.type = "event" /\ p.num \in Character /\ p.text \in Text
     \/ p.type = "ack" /\ p.num \in Nat /\ p.text \in Text
     \/ /\ p.type = "error"
        /\ p.num \in 0 .. NoReason /\ p.text \in {<<>>, Reconnect}
     \/ /\ p.type \in {"disconnect", "heartbeat", "noop"}
        /\ p.num = 0 /\ p.text = <<>>

(* The packet as the client decodes it before it reads the data.           *)
Blank(p) ==
  Packet(p.type, p.endpoint, p.id, p.ack,
         IF p.type = "error" THEN NoReason ELSE 0, <<>>)

(* Both fields of the data, filled in.                                     *)
LEMMA Filled ==
  ASSUME NEW p, NEW num, NEW text
  PROVE  [Blank(p) EXCEPT !.num = num, !.text = text]
           = Packet(p.type, p.endpoint, p.id, p.ack, num, text)
<1> DEFINE r == Packet(p.type, p.endpoint, p.id, p.ack, num, <<>>)
<1>1. [Blank(p) EXCEPT !.num = num, !.text = text]
        = [[Blank(p) EXCEPT !.num = num] EXCEPT !.text = text]
  OBVIOUS
<1>2. [Blank(p) EXCEPT !.num = num] = r
  BY DEF Blank, Packet
<1>3. [r EXCEPT !.text = text]
        = Packet(p.type, p.endpoint, p.id, p.ack, num, text)
  BY DEF Packet
<1> HIDE DEF r
<1> QED
  BY <1>1, <1>2, <1>3

Unprefixed(d) == IF d = <<>> THEN <<>> ELSE Tail(d)

IsFragment(d) == d \in Text /\ (d # <<>> => d[1] = Colon)

(* Messages and connections: the data is the text, if there is one.        *)
LEMMA MessageData ==
  ASSUME NEW p, IsPacket(p), p.type \in {"message", "connect"}
  PROVE  IsFragment(Data(p)) /\ WithData(Blank(p), Unprefixed(Data(p))) = p
<1>1. p = Packet(p.type, p.endpoint, p.id, p.ack, 0, p.text) /\ p.text \in Text
  BY DEF IsPacket
<1>2. Data(p) = IF p.text = <<>> THEN <<>> ELSE <<Colon>> \o p.text
  BY DEF Data
<1>3. IsFragment(Data(p)) /\ Unprefixed(Data(p)) = p.text
  <2>1. CASE p.text = <<>>
    <3>1. <<>> \in Text
      BY EmptySeq DEF Text
    <3> QED
      BY <1>2, <2>1, <3>1 DEF IsFragment, Unprefixed
  <2>2. CASE p.text # <<>>
    <3> DEFINE f == <<Colon>> \o p.text
    <3>0. Colon \in Character
      BY DEF Colon, Character
    <3>1. f \in Text /\ f # <<>> /\ f[1] = Colon /\ Tail(f) = p.text
      BY <1>1, <3>0, FragmentOf, Zenon
    <3>2. Data(p) = f
      BY <1>2, <2>2
    <3> HIDE DEF f
    <3> QED
      BY <3>1, <3>2 DEF IsFragment, Unprefixed
  <2> QED
    BY <2>1, <2>2
<1>4. WithData(Blank(p), p.text) = [Blank(p) EXCEPT !.text = p.text]
  BY DEF WithData, Blank, Packet
<1>5. [Blank(p) EXCEPT !.text = p.text]
        = Packet(p.type, p.endpoint, p.id, p.ack, 0, p.text)
  BY DEF Blank, Packet
<1> QED
  BY <1>1, <1>3, <1>4, <1>5

(* JSON values.                                                            *)
LEMMA JsonData ==
  ASSUME NEW p, IsPacket(p), p.type = "json"
  PROVE  IsFragment(Data(p)) /\ WithData(Blank(p), Unprefixed(Data(p))) = p
<1> DEFINE u == Stringify(p.text)
           f == <<Colon>> \o u
<1>1. p = Packet(p.type, p.endpoint, p.id, p.ack, 0, p.text) /\ p.text \in Text
  BY DEF IsPacket
<1>2. u \in Text /\ IsJson(u) /\ Parse(u) = p.text
  BY <1>1, JsonOf
<1>3. Data(p) = f
  BY DEF Data
<1> HIDE DEF u
<1>4. f \in Text /\ f # <<>> /\ f[1] = Colon /\ Tail(f) = u
  BY <1>2, FragmentOf DEF Colon, Character
<1> HIDE DEF f
<1>5. IsFragment(Data(p)) /\ Unprefixed(Data(p)) = u
  BY <1>3, <1>4 DEF IsFragment, Unprefixed
<1>6. WithData(Blank(p), u) = [Blank(p) EXCEPT !.text = p.text]
  BY <1>2 DEF WithData, Blank, Packet
<1>7. [Blank(p) EXCEPT !.text = p.text]
        = Packet(p.type, p.endpoint, p.id, p.ack, 0, p.text)
  BY DEF Blank, Packet
<1> QED
  BY <1>1, <1>5, <1>6, <1>7

(* Events: the name, and then the arguments.                               *)
LEMMA EventData ==
  ASSUME NEW p, IsPacket(p), p.type = "event"
  PROVE  IsFragment(Data(p)) /\ WithData(Blank(p), Unprefixed(Data(p))) = p
<1> DEFINE v == <<p.num>> \o p.text
           u == Stringify(v)
           f == <<Colon>> \o u
<1>1. /\ p = Packet(p.type, p.endpoint, p.id, p.ack, p.num, p.text)
      /\ p.text \in Text /\ p.num \in Character
  BY DEF IsPacket
<1>2. Data(p) = f
  BY DEF Data
<1>3. v \in Text /\ v # <<>> /\ v[1] = p.num /\ Tail(v) = p.text
  BY <1>1, FragmentOf
<1> HIDE DEF v
<1>4. /\ u \in Text /\ Len(u) = Len(v) + 2 /\ u[2] = v[1]
      /\ IsJson(u) /\ Parse(u) = v
  BY <1>3, JsonOf
<1> HIDE DEF u
<1>5. f \in Text /\ f # <<>> /\ f[1] = Colon /\ Tail(f) = u
  BY <1>4, FragmentOf DEF Colon, Character
<1> HIDE DEF f
<1>6. IsFragment(Data(p)) /\ Unprefixed(Data(p)) = u
  BY <1>2, <1>5 DEF IsFragment, Unprefixed
<1>7. Len(u) > 2
  <2>1. Len(v) \in Nat /\ Len(v) # 0
    BY <1>3, LenProperties, EmptySeq DEF Text
  <2> QED
    BY <1>4, <2>1
<1>8. WithData(Blank(p), u) = [Blank(p) EXCEPT !.num = u[2], !.text = Tail(Parse(u))]
  BY <1>4, <1>7 DEF WithData, Blank, Packet
<1>9. [Blank(p) EXCEPT !.num = p.num, !.text = p.text]
        = Packet(p.type, p.endpoint, p.id, p.ack, p.num, p.text)
  BY Filled
<1> QED
  BY <1>1, <1>3, <1>4, <1>6, <1>8, <1>9

(* Disconnections, heartbeats and noops: no data.                          *)
LEMMA NoData ==
  ASSUME NEW p, IsPacket(p), p.type \in {"disconnect", "heartbeat", "noop"}
  PROVE  IsFragment(Data(p)) /\ WithData(Blank(p), Unprefixed(Data(p))) = p
<1>1. p = Packet(p.type, p.endpoint, p.id, p.ack, 0, <<>>)
  BY DEF IsPacket
<1>2. Data(p) = <<>> /\ <<>> \in Text
  BY EmptySeq DEF Data, Text
<1>3. WithData(Blank(p), <<>>) = Blank(p)
  BY DEF WithData, Blank, Packet
<1>4. Blank(p) = Packet(p.type, p.endpoint, p.id, p.ack, 0, <<>>)
  BY DEF Blank
<1> QED
  BY <1>1, <1>2, <1>3, <1>4 DEF IsFragment, Unprefixed

(* The two halves of a text.                                               *)
LEMMA Halves ==
  ASSUME NEW a \in Text, NEW b \in Text
  PROVE  LET s == a \o b
         IN  /\ s \in Text /\ Len(a) \in Nat /\ Len(b) \in Nat
             /\ Len(s) = Len(a) + Len(b)
             /\ SubSeq(s, 1, Len(a)) = a
             /\ SubSeq(s, Len(a) + 1, Len(s)) = b
             /\ \A i \in 1 .. Len(a) : s[i] = a[i]
             /\ \A i \in 1 .. Len(b) : s[Len(a) + i] = b[i]
<1> DEFINE s == a \o b
<1>1. /\ s \in Text /\ Len(a) \in Nat /\ Len(b) \in Nat
      /\ Len(s) = Len(a) + Len(b)
      /\ \A i \in 1 .. Len(a) : s[i] = a[i]
      /\ \A i \in 1 .. Len(b) : s[Len(a) + i] = b[i]
  BY JoinedText
<1> HIDE DEF s
<1>2. s \in Seq(Character) /\ a \in Seq(Character) /\ b \in Seq(Character)
  BY <1>1 DEF Text
<1>3. SubSeq(s, 1, Len(a)) = a
  <2>1. 0 \in Nat /\ 0 + Len(a) <= Len(s) /\ \A i \in 1 .. Len(a) : s[0 + i] = a[i]
    BY <1>1
  <2>2. SubSeq(s, 0 + 1, 0 + Len(a)) = a
    BY <1>2, <2>1, PartIs
  <2>3. 0 + 1 = 1 /\ 0 + Len(a) = Len(a)
    BY <1>1
  <2> QED
    BY <2>2, <2>3
<1>4. SubSeq(s, Len(a) + 1, Len(s)) = b
  <2>1. Len(a) + Len(b) <= Len(s)
    BY <1>1
  <2>2. SubSeq(s, Len(a) + 1, Len(a) + Len(b)) = b
    BY <1>1, <1>2, <2>1, PartIs
  <2> QED
    BY <1>1, <2>2
<1>5. /\ s \in Text /\ Len(a) \in Nat /\ Len(b) \in Nat
      /\ Len(s) = Len(a) + Len(b)
      /\ SubSeq(s, 1, Len(a)) = a
      /\ SubSeq(s, Len(a) + 1, Len(s)) = b
      /\ \A i \in 1 .. Len(a) : s[i] = a[i]
      /\ \A i \in 1 .. Len(b) : s[Len(a) + i] = b[i]
  BY <1>1, <1>3, <1>4
<1> QED
  BY <1>5 DEF s

(* Errors: a reason, and an advice after a plus.                           *)
LEMMA ErrorData ==
  ASSUME NEW p, IsPacket(p), p.type = "error"
  PROVE  IsFragment(Data(p)) /\ WithData(Blank(p), Unprefixed(Data(p))) = p
<1> DEFINE reason == IF p.num = NoReason THEN <<>> ELSE <<p.num>>
           advice == IF p.text = Reconnect THEN <<Plus, 0>> ELSE <<>>
           data == reason \o advice
           plus == NextOf(data, Plus, 1)
<1>1. /\ p = Packet(p.type, p.endpoint, p.id, p.ack, p.num, p.text)
      /\ p.num \in 0 .. 3 /\ p.text \in {<<>>, Reconnect}
      /\ Reconnect # <<>> /\ <<>> \in Text
  <2>1. Reconnect # <<>>
    BY DEF Reconnect
  <2>2. <<>> \in Text
    BY EmptySeq DEF Text
  <2> QED
    BY <2>1, <2>2 DEF IsPacket, NoReason
<1>2. /\ reason \in Text
      /\ p.num = 3 => Len(reason) = 0
      /\ p.num # 3 => Len(reason) = 1 /\ reason[1] = p.num
  <2>1. CASE p.num = 3
    <3>1. reason = <<>> /\ Len(<<>>) = 0
      BY <2>1 DEF NoReason
    <3> QED
      BY <1>1, <2>1, <3>1
  <2>2. CASE p.num # 3
    <3>1. reason = <<p.num>> /\ p.num \in Character
      BY <1>1, <2>2 DEF NoReason, Character
    <3>2. <<p.num>> \in Text /\ Len(<<p.num>>) = 1 /\ <<p.num>>[1] = p.num
      BY <3>1 DEF Text
    <3> QED
      BY <2>2, <3>1, <3>2
  <2> QED
    BY <2>1, <2>2
<1>3. /\ advice \in Text
      /\ p.text = <<>> => Len(advice) = 0
      /\ p.text # <<>> => Len(advice) = 2 /\ advice[1] = Plus /\ advice[2] = 0
  <2>1. CASE p.text = <<>>
    <3>1. advice = <<>> /\ Len(<<>>) = 0
      BY <1>1, <2>1
    <3> QED
      BY <1>1, <2>1, <3>1
  <2>2. CASE p.text # <<>>
    <3>1. advice = <<Plus, 0>> /\ Plus \in Character /\ 0 \in Character
      BY <1>1, <2>2 DEF Plus, Character
    <3>2. /\ <<Plus, 0>> \in Text /\ Len(<<Plus, 0>>) = 2
          /\ <<Plus, 0>>[1] = Plus /\ <<Plus, 0>>[2] = 0
      BY <3>1 DEF Text
    <3> QED
      BY <2>2, <3>1, <3>2
  <2> QED
    BY <2>1, <2>2
<1>4. Data(p) = IF p.num = 3 /\ p.text = <<>> THEN <<>> ELSE <<Colon>> \o data
  <2>1. CASE p.text = Reconnect
    <3>1. advice = <<Plus, 0>> /\ p.text # <<>>
      BY <1>1, <2>1
    <3> QED
      BY <2>1, <3>1 DEF Data
  <2>2. CASE p.text = <<>> /\ p.num = 3
    BY <1>1, <2>2 DEF Data, NoReason
  <2>3. CASE p.text = <<>> /\ p.num # 3
    <3>1. advice = <<>> /\ reason = <<p.num>> /\ <<p.num>> # <<>>
      BY <1>1, <2>3 DEF NoReason
    <3>2. data = reason
      BY <1>2, <3>1, ConcatEmptySeq DEF Text
    <3> QED
      BY <1>1, <2>3, <3>1, <3>2 DEF Data, NoReason
  <2> QED
    BY <1>1, <2>1, <2>2, <2>3
<1> HIDE DEF reason, advice
<1>5. /\ data \in Text /\ Len(reason) \in Nat /\ Len(advice) \in Nat
      /\ Len(data) = Len(reason) + Len(advice)
      /\ SubSeq(data, 1, Len(reason)) = reason
      /\ \A i \in 1 .. Len(reason) : data[i] = reason[i]
      /\ \A i \in 1 .. Len(advice) : data[Len(reason) + i] = advice[i]
  BY <1>2, <1>3, Halves
<1> HIDE DEF data
<1>6. IsFragment(Data(p)) /\ Unprefixed(Data(p)) = data
  <2>1. CASE p.num = 3 /\ p.text = <<>>
    <3>1. Len(data) = 0
      BY <1>2, <1>3, <1>5, <2>1
    <3>2. data = <<>>
      BY <1>5, <3>1, EmptySeq DEF Text
    <3> QED
      BY <1>1, <1>4, <2>1, <3>2 DEF IsFragment, Unprefixed
  <2>2. CASE ~(p.num = 3 /\ p.text = <<>>)
    <3> DEFINE f == <<Colon>> \o data
    <3>0. Colon \in Character
      BY DEF Colon, Character
    <3>1. f \in Text /\ f # <<>> /\ f[1] = Colon /\ Tail(f) = data
      BY <1>5, <3>0, FragmentOf, Zenon
    <3>2. Data(p) = f
      BY <1>4, <2>2
    <3> HIDE DEF f
    <3> QED
      BY <3>1, <3>2 DEF IsFragment, Unprefixed
  <2> QED
    BY <2>1, <2>2
<1>7. plus = Len(reason) + 1
  <2> DEFINE place == Len(reason) + 1
  <2>1. 1 \in Nat /\ place \in 1 .. Len(data) + 1
    BY <1>5
  <2>2. place <= Len(data) => data[place] = Plus
    <3> SUFFICES ASSUME place <= Len(data)
                 PROVE  data[place] = Plus
      OBVIOUS
    <3>1. Len(advice) # 0
      BY <1>5
    <3>2. 1 \in 1 .. Len(advice) /\ advice[1] = Plus
      BY <1>3, <1>5, <3>1
    <3> QED
      BY <1>5, <3>2
  <2>3. ASSUME NEW i \in 1 .. place - 1
        PROVE  data[i] # Plus
    <3>1. i \in 1 .. Len(reason)
      BY <1>5
    <3>2. p.num # 3 /\ i = 1
      BY <1>2, <1>5, <3>1
    <3> QED
      BY <1>1, <1>2, <1>5, <3>1, <3>2 DEF Plus
  <2> HIDE DEF place
  <2>4. IsNext(data, Plus, 1, place)
    BY <2>1, <2>2, <2>3 DEF IsNext
  <2>5. data \in Seq(Character)
    BY <1>5 DEF Text
  <2>6. plus = place
    BY <2>1, <2>4, <2>5, NextIs
  <2> QED
    BY <2>6 DEF place
<1> HIDE DEF plus
<1>8. SubSeq(data, 1, plus - 1) = reason
  <2>1. plus - 1 = Len(reason)
    BY <1>5, <1>7
  <2> QED
    BY <1>5, <2>1
<1>9. (IF reason \in {<<0>>, <<1>>, <<2>>} THEN reason[1] ELSE NoReason) = p.num
  <2>1. CASE p.num = 3
    <3>1. reason \notin {<<0>>, <<1>>, <<2>>}
      BY <1>2, <2>1
    <3> QED
      BY <2>1, <3>1 DEF NoReason
  <2>2. CASE p.num # 3
    <3>1. reason = <<p.num>> /\ p.num \in {0, 1, 2}
      BY <1>1, <2>2 DEF reason, NoReason
    <3>2. reason \in {<<0>>, <<1>>, <<2>>}
      BY <3>1
    <3> QED
      BY <1>2, <2>2, <3>2
  <2> QED
    BY <2>1, <2>2
<1>10. (IF SubSeq(data, plus + 1, Len(data)) = Reconnect THEN Reconnect ELSE <<>>)
         = p.text
  <2>1. CASE p.text = <<>>
    <3>1. plus + 1 \in Int /\ Len(data) \in Int /\ Len(data) < plus + 1
      BY <1>3, <1>5, <1>7, <2>1
    <3>2. SubSeq(data, plus + 1, Len(data)) = <<>>
      BY <3>1, SubSeqEmpty
    <3> QED
      BY <1>1, <2>1, <3>2
  <2>2. CASE p.text # <<>>
    <3>1. /\ data \in Seq(Character) /\ <<0>> \in Seq(Character)
          /\ Len(<<0>>) = 1 /\ <<0>>[1] = 0
      BY <1>5 DEF Text, Character
    <3>2. plus \in Nat /\ plus + 1 = Len(data) /\ plus + 1 = Len(reason) + 2
      BY <1>3, <1>5, <1>7, <2>2
    <3>3. data[plus + 1] = 0
      <4>1. 2 \in 1 .. Len(advice) /\ advice[2] = 0
        BY <1>3, <2>2
      <4> QED
        BY <1>5, <3>2, <4>1
    <3>4. plus + Len(<<0>>) <= Len(data) /\ \A i \in 1 .. Len(<<0>>) : i = 1
      BY <3>1, <3>2
    <3>5. SubSeq(data, plus + 1, plus + Len(<<0>>)) = <<0>>
      BY <3>1, <3>2, <3>3, <3>4, PartIs
    <3>6. SubSeq(data, plus + 1, Len(data)) = Reconnect
      BY <3>1, <3>2, <3>5 DEF Reconnect
    <3> QED
      BY <1>1, <2>2, <3>6
  <2> QED
    BY <2>1, <2>2
<1>11. WithData(Blank(p), data)
         = [Blank(p) EXCEPT
              !.num = IF reason \in {<<0>>, <<1>>, <<2>>} THEN reason[1]
                      ELSE NoReason,
              !.text = IF SubSeq(data, plus + 1, Len(data)) = Reconnect
                       THEN Reconnect ELSE <<>>]
  BY <1>8 DEF WithData, Blank, Packet, plus
<1>12. WithData(Blank(p), data) = [Blank(p) EXCEPT !.num = p.num, !.text = p.text]
  BY <1>9, <1>10, <1>11
<1>13. [Blank(p) EXCEPT !.num = p.num, !.text = p.text]
         = Packet(p.type, p.endpoint, p.id, p.ack, p.num, p.text)
  BY Filled
<1> QED
  BY <1>1, <1>6, <1>12, <1>13

(* Acknowledgments: the digits of a message's id, and arguments after a    *)
(* plus.  The digits end where the plus is, the arguments with the line.   *)
LEMMA AckData ==
  ASSUME NEW p, IsPacket(p), p.type = "ack"
  PROVE  /\ IsFragment(Data(p))
         /\ LineEnd \notin Range(p.text) =>
              WithData(Blank(p), Unprefixed(Data(p))) = p
<1> DEFINE id == Decimal(p.num)
           json == Stringify(p.text)
           args == IF p.text = <<>> THEN <<>> ELSE <<Plus>> \o json
           data == id \o args
           f == <<Colon>> \o data
           digits == CHOOSE n \in 0 .. Len(data) :
                       /\ AllDigits(SubSeq(data, 1, n))
                       /\ n < Len(data) => data[n + 1] \notin Digit
           rest == SubSeq(data, digits + 1, Len(data))
           read == IF rest # <<>> /\ rest[1] = Plus THEN Tail(rest) ELSE rest
<1>0. /\ p = Packet(p.type, p.endpoint, p.id, p.ack, p.num, p.text)
      /\ p.text \in Text /\ p.num \in Nat
      /\ Colon \in Character /\ Plus \in Character /\ Plus \notin Digit
  BY DEF IsPacket, Colon, Plus, Character, Digit
<1>1. Data(p) = f
  BY DEF Data
<1>2. id \in Seq(Digit) /\ id # <<>> /\ Number(id) = p.num
  BY <1>0, DecimalDigits, NumberOfDecimal
<1> HIDE DEF id
<1>3. id \in Text /\ \A i \in 1 .. Len(id) : id[i] \in Digit
  <2>1. Digit \subseteq Character
    BY DEF Digit, Character
  <2> QED
    BY <1>2, <2>1, SeqMonotonic, ElementOfSeq DEF Text
<1>4. json \in Text /\ IsJson(json) /\ Parse(json) = p.text
  BY <1>0, JsonOf
<1> HIDE DEF json
<1>5. /\ args \in Text
      /\ p.text = <<>> => args = <<>>
      /\ p.text # <<>> => args # <<>> /\ args[1] = Plus /\ Tail(args) = json
  <2>1. CASE p.text = <<>>
    <3>1. <<>> \in Text
      BY EmptySeq DEF Text
    <3> QED
      BY <2>1, <3>1
  <2>2. CASE p.text # <<>>
    <3> DEFINE g == <<Plus>> \o json
    <3>1. g \in Text /\ g # <<>> /\ g[1] = Plus /\ Tail(g) = json
      BY <1>0, <1>4, FragmentOf, Zenon
    <3>2. args = g
      BY <2>2
    <3> HIDE DEF g, args
    <3> QED
      BY <2>2, <3>1, <3>2
  <2> QED
    BY <2>1, <2>2
<1> HIDE DEF args
<1>6. /\ data \in Text /\ Len(id) \in Nat /\ Len(args) \in Nat
      /\ Len(data) = Len(id) + Len(args)
      /\ SubSeq(data, 1, Len(id)) = id
      /\ SubSeq(data, Len(id) + 1, Len(data)) = args
      /\ \A i \in 1 .. Len(id) : data[i] = id[i]
      /\ \A i \in 1 .. Len(args) : data[Len(id) + i] = args[i]
  BY <1>3, <1>5, Halves
<1> HIDE DEF data
<1>7. f \in Text /\ f # <<>> /\ f[1] = Colon /\ Tail(f) = data
  BY <1>0, <1>6, FragmentOf, Zenon
<1> HIDE DEF f
<1>8. IsFragment(Data(p)) /\ Unprefixed(Data(p)) = data
  BY <1>1, <1>7 DEF IsFragment, Unprefixed
<1>9. Len(id) < Len(data) => data[Len(id) + 1] \notin Digit
  <2> SUFFICES ASSUME Len(id) < Len(data)
               PROVE  data[Len(id) + 1] \notin Digit
    OBVIOUS
  <2>1. 1 \in 1 .. Len(args)
    BY <1>6
  <2>2. args # <<>>
    BY <2>1
  <2>3. args[1] = Plus
    BY <1>5, <2>2
  <2> QED
    BY <1>0, <1>6, <2>1, <2>3
<1>10. digits = Len(id)
  <2>1. Len(id) \in 0 .. Len(data)
    BY <1>6
  <2>2. AllDigits(SubSeq(data, 1, Len(id)))
    <3>1. DOMAIN id = 1 .. Len(id)
      BY <1>2, LenProperties
    <3> QED
      BY <1>3, <1>6, <3>1 DEF AllDigits
  <2>3. ASSUME NEW n \in 0 .. Len(data),
               AllDigits(SubSeq(data, 1, n)),
               n < Len(data) => data[n + 1] \notin Digit
        PROVE  n = Len(id)
    <3>1. CASE n < Len(id)
      <4>1. n + 1 \in 1 .. Len(id) /\ n < Len(data)
        BY <1>6, <3>1
      <4> QED
        BY <1>3, <1>6, <2>3, <4>1
    <3>2. CASE n > Len(id)
      <4> DEFINE u == SubSeq(data, 1, n)
                 l == Len(id) + 1
      <4>1. /\ 1 \in Nat /\ n \in Nat /\ 1 >= 1 /\ 1 - 1 <= n /\ n <= Len(data)
            /\ data \in Seq(Character) /\ n - 1 + 1 = n
        BY <1>6 DEF Text
      <4>2. DOMAIN u = 1 .. n - 1 + 1 /\ \A i \in 1 .. n - 1 + 1 : u[i] = data[1 - 1 + i]
        BY <4>1, Part
      <4>3. AllDigits(u)
        BY <2>3
      <4>4. l \in 1 .. n /\ 1 - 1 + l = l /\ Len(id) < Len(data)
        BY <1>6, <3>2
      <4> HIDE DEF u, l
      <4>5. u[l] \in Digit /\ u[l] = data[l]
        BY <4>1, <4>2, <4>3, <4>4 DEF AllDigits
      <4> QED
        BY <1>9, <4>4, <4>5 DEF l
    <3>3. n \in Int /\ Len(id) \in Int
      BY <1>6
    <3> QED
      BY <3>1, <3>2, <3>3
  <2> QED
    BY <1>9, <2>1, <2>2, <2>3
<1> SUFFICES ASSUME LineEnd \notin Range(p.text)
             PROVE  WithData(Blank(p), data) = p
  BY <1>8
<1>11. digits # 0
  BY <1>2, <1>6, <1>10, EmptySeq
<1>12. /\ SubSeq(data, 1, digits) = id
       /\ rest = args
  BY <1>6, <1>10
<1>13. (IF IsJson(read) /\ LineEnd \notin Range(read) THEN Parse(read) ELSE <<>>)
         = p.text
  <2> HIDE DEF rest
  <2>1. CASE p.text = <<>>
    <3>1. read = <<>>
      BY <1>5, <1>12, <2>1
    <3>2. ~IsJson(<<>>)
      BY DEF IsJson
    <3> HIDE DEF read
    <3> QED
      BY <2>1, <3>1, <3>2
  <2>2. CASE p.text # <<>>
    <3>1. read = json
      BY <1>5, <1>12, <2>2
    <3> HIDE DEF read
    <3>2. LineEnd \notin Range(json)
      BY <1>0, JsonHolds DEF json
    <3> QED
      BY <1>4, <3>1, <3>2
  <2> QED
    BY <2>1, <2>2
<1>14. WithData(Blank(p), data)
         = [Blank(p) EXCEPT !.num = Number(SubSeq(data, 1, digits)),
                            !.text = IF IsJson(read) /\ LineEnd \notin Range(read)
                                     THEN Parse(read) ELSE <<>>]
  BY <1>11 DEF WithData, Blank, Packet
<1> HIDE DEF digits, rest, read
<1>15. WithData(Blank(p), data) = [Blank(p) EXCEPT !.num = p.num, !.text = p.text]
  BY <1>2, <1>12, <1>13, <1>14
<1>16. [Blank(p) EXCEPT !.num = p.num, !.text = p.text]
         = Packet(p.type, p.endpoint, p.id, p.ack, p.num, p.text)
  BY Filled
<1> QED
  BY <1>0, <1>15, <1>16

(* The client reads from the data of a packet of any type what it has      *)
(* written there.                                                          *)
LEMMA DataRoundTrip ==
  ASSUME NEW p, IsPacket(p)
  PROVE  /\ IsFragment(Data(p))
         /\ Legible(p) => WithData(Blank(p), Unprefixed(Data(p))) = p
<1>1. p.type \in {"message", "connect", "json", "event", "ack", "error",
                  "disconnect", "heartbeat", "noop"}
  BY DEF IsPacket
<1> QED
  BY <1>1, MessageData, JsonData, EventData, NoData, ErrorData, AckData DEF Legible

(* The endpoint of a packet without a colon.                               *)
LEMMA FreeEndpoint ==
  ASSUME NEW p, IsPacket(p), NoColon(p)
  PROVE  Free(p.endpoint)
<1>1. DOMAIN p.endpoint = 1 .. Len(p.endpoint)
  BY LenProperties DEF IsPacket, Text
<1> QED
  BY <1>1 DEF NoColon, Free, Range

(***************************************************************************)
(* A packet, written and read.                                             *)
(***************************************************************************)

(* The types are found at their places, of which each has one type.        *)
LEMMA TypeIndex ==
  ASSUME NEW i \in 1 .. 9
  PROVE  IndexOf(Types, Types[i]) = i - 1
<1>1. DOMAIN Types = 1 .. 9
  BY DEF Types
<1>2. \A j, k \in 1 .. 9 : Types[j] = Types[k] => j = k
  <2>1. /\ Types[1] = "disconnect" /\ Types[2] = "connect" /\ Types[3] = "heartbeat"
        /\ Types[4] = "message" /\ Types[5] = "json" /\ Types[6] = "event"
        /\ Types[7] = "ack" /\ Types[8] = "error" /\ Types[9] = "noop"
    BY DEF Types
  <2>2. \A j \in 1 .. 9 : j = 1 \/ j = 2 \/ j = 3 \/ j = 4 \/ j = 5 \/ j = 6 \/ j = 7
                            \/ j = 8 \/ j = 9
    OBVIOUS
  <2> QED
    BY <2>1, <2>2
<1> DEFINE u == SubSeq(Types, 1, i - 1)
           S == {Types[j] : j \in 1 .. 9}
<1>3. /\ DOMAIN u = 1 .. i - 1
      /\ \A j \in 1 .. i - 1 : u[j] = Types[j]
  <2>1. 1 \in Int /\ i - 1 \in Int /\ \A j \in 1 .. i - 1 : Types[j] \in S
    OBVIOUS
  <2> HIDE DEF S
  <2>2. /\ u \in Seq(S) /\ Len(u) = IF 1 <= i - 1 THEN i - 1 - 1 + 1 ELSE 0
        /\ \A j \in 1 .. i - 1 - 1 + 1 : u[j] = Types[1 + j - 1]
    BY <2>1, SubSeqProperties
  <2>3. DOMAIN u = 1 .. Len(u)
    BY <2>2, LenProperties
  <2> HIDE DEF u
  <2> QED
    BY <2>2, <2>3
<1>4. \A j \in DOMAIN u : j \in 1 .. 9 /\ j # i /\ u[j] = Types[j]
  <2> HIDE DEF u
  <2> QED
    BY <1>3
<1>5. Types[i] \notin Range(u)
  <2> HIDE DEF u
  <2> QED
    BY <1>2, <1>4 DEF Range
<1>6. \E j \in DOMAIN Types : Types[j] = Types[i]
  BY <1>1
<1>7. (CHOOSE j \in DOMAIN Types :
         Types[j] = Types[i] /\ Types[i] \notin Range(SubSeq(Types, 1, j - 1))) = i
  BY <1>1, <1>2, <1>5
<1> QED
  BY <1>6, <1>7 DEF IndexOf

(* The id and the request for data that a packet is written with.          *)
IdOf(p) == IF p.id = 0 THEN <<>> ELSE Decimal(p.id)
PlusOf(p) == IF p.ack = "data" THEN <<Plus>> ELSE <<>>

(* The text of a packet is made of such parts.                             *)
LEMMA EncodedParts ==
  ASSUME NEW p, IsPacket(p)
  PROVE  LET t == IndexOf(Types, p.type)
         IN  /\ t \in 0 .. 8 /\ Types[t + 1] = p.type
             /\ Parts(t, IdOf(p), PlusOf(p), p.endpoint, Data(p))
             /\ EncodePacket(p) = Joint(t, IdOf(p), PlusOf(p), p.endpoint, Data(p))
<1> DEFINE t == IndexOf(Types, p.type)
<1>1. PICK i \in 1 .. 9 : p.type = Types[i]
  BY DEF IsPacket, Types
<1>2. t = i - 1
  BY <1>1, TypeIndex
<1>3. t \in 0 .. 8 /\ Types[t + 1] = p.type
  BY <1>1, <1>2
<1>4. EncodePacket(p) = Joint(t, IdOf(p), PlusOf(p), p.endpoint, Data(p))
  BY DEF EncodePacket, Joint, IdOf, PlusOf
<1> HIDE DEF t
<1>5. IdOf(p) \in Seq(Digit)
  BY DecimalDigits, EmptySeq DEF IdOf, IsPacket
<1>6. Data(p) \in Text /\ (Data(p) # <<>> => Data(p)[1] = Colon)
  BY DataRoundTrip DEF IsFragment
<1>7. Parts(t, IdOf(p), PlusOf(p), p.endpoint, Data(p))
  BY <1>3, <1>5, <1>6 DEF Parts, PlusOf, IsPacket
<1> QED
  BY <1>3, <1>4, <1>7 DEF t

(* The text of a packet is a text, and not the empty one.                  *)
LEMMA EncodedText ==
  ASSUME NEW p, IsPacket(p)
  PROVE  EncodePacket(p) \in Text /\ Len(EncodePacket(p)) > 0
<1> DEFINE s == EncodePacket(p)
           t == IndexOf(Types, p.type)
           k == Len(IdOf(p)) + Len(PlusOf(p)) + 3
<1>1. /\ Parts(t, IdOf(p), PlusOf(p), p.endpoint, Data(p))
      /\ s = Joint(t, IdOf(p), PlusOf(p), p.endpoint, Data(p))
  BY EncodedParts
<1> HIDE DEF s, t
<1>2. LaidOut(s, k, t, IdOf(p), PlusOf(p), p.endpoint, Data(p))
  BY <1>1, Layout
<1>3. s \in Text /\ Len(s) > 0
  <2>1. /\ s \in Text /\ Len(s) = k + Len(p.endpoint) + Len(Data(p)) /\ k \in Nat
        /\ k >= 3 /\ Len(p.endpoint) \in Nat /\ Len(Data(p)) \in Nat
    BY <1>2 DEF LaidOut
  <2> HIDE DEF k
  <2> QED
    BY <2>1
<1> QED
  BY <1>3 DEF s

(* A packet starts with its type, which is no separator.                   *)
LEMMA PacketStarts ==
  ASSUME NEW p, IsPacket(p), NEW s, s = EncodePacket(p)
  PROVE  s \in Text /\ Len(s) \in Nat /\ Len(s) > 0 /\ s[1] # Separator
<1> DEFINE t == IndexOf(Types, p.type)
           k == Len(IdOf(p)) + Len(PlusOf(p)) + 3
<1>1. /\ Parts(t, IdOf(p), PlusOf(p), p.endpoint, Data(p))
      /\ s = Joint(t, IdOf(p), PlusOf(p), p.endpoint, Data(p))
      /\ t \in 0 .. 8
  BY EncodedParts
<1> HIDE DEF t
<1>2. LaidOut(s, k, t, IdOf(p), PlusOf(p), p.endpoint, Data(p))
  BY <1>1, Layout
<1>3. s[1] # Separator
  BY <1>1, <1>2 DEF LaidOut, Separator
<1>4. s \in Text /\ Len(s) > 0
  BY EncodedText
<1> QED
  BY <1>3, <1>4, LenProperties DEF Text

(* What a client reads of the text of a packet is the packet, if its       *)
(* endpoint has no colon and, in an acknowledgment, the arguments end no   *)
(* line.                                                                   *)
THEOREM PacketRoundTrip ==
  ASSUME NEW p, IsPacket(p), Legible(p)
  PROVE  DecodePacket(EncodePacket(p)) = p
<1> DEFINE t == IndexOf(Types, p.type)
           id == IdOf(p)
           plus == PlusOf(p)
<1>1. /\ t \in 0 .. 8 /\ Types[t + 1] = p.type
      /\ Parts(t, id, plus, p.endpoint, Data(p))
      /\ EncodePacket(p) = Joint(t, id, plus, p.endpoint, Data(p))
  BY EncodedParts
<1> HIDE DEF t
<1>2. DecodePacket(EncodePacket(p)) =
        WithData(Packet(Types[t + 1], p.endpoint, Number(id),
                        IF id = <<>> THEN "none"
                        ELSE IF plus # <<>> THEN "data" ELSE "true",
                        IF t = 7 THEN NoReason ELSE 0, <<>>),
                 IF Data(p) = <<>> THEN <<>> ELSE Tail(Data(p)))
  BY <1>1, FreeEndpoint, DecodeParts DEF Legible
<1>3. /\ p.id \in Nat /\ p.ack \in {"none", "true", "data"}
      /\ p.id = 0 <=> p.ack = "none"
  BY DEF IsPacket
<1>4. Number(id) = p.id /\ (id = <<>> <=> p.id = 0)
  <2>1. CASE p.id = 0
    <3>1. id = <<>> /\ <<>> \in Seq(Digit) /\ 0 \in Digit
      BY <2>1, EmptySeq DEF IdOf, Digit
    <3>2. Number(<<>>) = 0
      BY <3>1, NumberOfDigits
    <3> QED
      BY <2>1, <3>1, <3>2
  <2>2. CASE p.id # 0
    BY <1>3, <2>2, DecimalDigits, NumberOfDecimal DEF IdOf
  <2> QED
    BY <2>1, <2>2
<1>5. (IF id = <<>> THEN "none" ELSE IF plus # <<>> THEN "data" ELSE "true") = p.ack
  <2>1. plus # <<>> <=> p.ack = "data"
    BY DEF PlusOf
  <2> HIDE DEF id, plus
  <2> QED
    BY <1>3, <1>4, <2>1
<1>6. t = 7 <=> p.type = "error"
  BY <1>1 DEF Types
<1>7. DecodePacket(EncodePacket(p)) = WithData(Blank(p), Unprefixed(Data(p)))
  <2> HIDE DEF id, plus
  <2> QED
    BY <1>1, <1>2, <1>4, <1>5, <1>6 DEF Blank, Unprefixed
<1> QED
  BY <1>7, DataRoundTrip

(***************************************************************************)
(* A frame of the server.                                                  *)
(***************************************************************************)

(* What the client decodes from a frame.                                   *)
Understood(type, data) ==
  WithData(Packet(Types[type + 1], <<>>, 0, "none",
                  IF type = 7 THEN NoReason ELSE 0, <<>>), data)

(* A frame is a packet without an id and with the root's endpoint, and the *)
(* client decodes its type and its data.                                   *)
LEMMA FrameRead ==
  ASSUME NEW type \in 0 .. 8, NEW data \in Text
  PROVE  DecodePayload(EncodeFrame(Frame(type, data))) = <<Understood(type, data)>>
<1> DEFINE s == EncodeFrame(Frame(type, data))
           head == <<type, Colon, Colon, Colon>>
           d == <<Colon>> \o data
           r == Joint(type, <<>>, <<>>, <<>>, d)
<1>1. /\ Colon \in Character /\ type \in Character /\ type # Separator
      /\ <<>> \in Text /\ <<>> \in Seq(Digit) /\ Len(<<>>) = 0 /\ 0 \in Digit
  <2>1. Colon \in Character /\ type \in Character /\ type # Separator /\ 0 \in Digit
    BY DEF Colon, Character, Separator, Digit
  <2>2. <<>> \in Text /\ <<>> \in Seq(Digit) /\ Len(<<>>) = 0
    BY EmptySeq DEF Text
  <2> QED
    BY <2>1, <2>2
<1>2. d \in Text /\ d # <<>> /\ d[1] = Colon /\ Tail(d) = data
  BY <1>1, FragmentOf, Zenon
<1>3. /\ Len(data) \in Nat /\ Len(d) = 1 + Len(data)
      /\ \A i \in 1 .. Len(data) : d[1 + i] = data[i]
  <2>1. <<Colon>> \in Text /\ Len(<<Colon>>) = 1
    BY <1>1 DEF Text
  <2>2. /\ Len(data) \in Nat /\ Len(d) = Len(<<Colon>>) + Len(data)
        /\ \A i \in 1 .. Len(data) : d[Len(<<Colon>>) + i] = data[i]
    BY <2>1, JoinedText
  <2> HIDE DEF d
  <2> QED
    BY <2>1, <2>2
<1>4. /\ s \in Text /\ Len(s) = 4 + Len(data)
      /\ s[1] = type /\ s[2] = Colon /\ s[3] = Colon /\ s[4] = Colon
      /\ \A i \in 1 .. Len(data) : s[4 + i] = data[i]
  <2> DEFINE u == head \o data
  <2>1. /\ head \in Text /\ Len(head) = 4 /\ head[1] = type
        /\ head[2] = Colon /\ head[3] = Colon /\ head[4] = Colon
    BY <1>1 DEF Text
  <2>2. s = u
    BY DEF EncodeFrame, Frame
  <2> HIDE DEF head
  <2>3. /\ u \in Text /\ Len(u) = Len(head) + Len(data)
        /\ \A i \in 1 .. Len(head) : u[i] = head[i]
        /\ \A i \in 1 .. Len(data) : u[Len(head) + i] = data[i]
    BY <2>1, JoinedText
  <2> HIDE DEF u, s
  <2> QED
    BY <2>1, <2>2, <2>3
<1> HIDE DEF d
<1>5. Parts(type, <<>>, <<>>, <<>>, d)
  BY <1>1, <1>2 DEF Parts
<1>6. /\ r \in Text /\ Len(r) = 3 + Len(d)
      /\ r[1] = type /\ r[2] = Colon /\ r[3] = Colon
      /\ \A i \in 1 .. Len(d) : r[3 + i] = d[i]
  <2>1. LaidOut(r, Len(<<>>) + Len(<<>>) + 3, type, <<>>, <<>>, <<>>, d)
    BY <1>5, Layout
  <2>2. Len(<<>>) + Len(<<>>) + 3 = 3
    BY <1>1
  <2>3. LaidOut(r, 3, type, <<>>, <<>>, <<>>, d)
    BY <2>1, <2>2
  <2> HIDE DEF r
  <2> QED
    BY <1>1, <2>3 DEF LaidOut
<1> HIDE DEF s, r
<1>7. s = r
  <2>1. s \in Seq(Character) /\ r \in Seq(Character) /\ Len(s) = Len(r)
    BY <1>3, <1>4, <1>6 DEF Text
  <2>2. ASSUME NEW i \in 1 .. Len(s)
        PROVE  s[i] = r[i]
    <3>1. CASE i <= 3
      <4>1. i = 1 \/ i = 2 \/ i = 3
        BY <1>3, <1>4, <3>1
      <4> QED
        BY <1>4, <1>6, <4>1
    <3>2. CASE i = 4
      <4>1. 1 \in 1 .. Len(d) /\ 3 + 1 = 4
        BY <1>3
      <4> QED
        BY <1>2, <1>4, <1>6, <3>2, <4>1
    <3>3. CASE i > 4
      <4>1. /\ i - 4 \in 1 .. Len(data) /\ 4 + (i - 4) = i
            /\ 1 + (i - 4) \in 1 .. Len(d) /\ 3 + (1 + (i - 4)) = i
        BY <1>3, <1>4, <3>3
      <4> QED
        BY <1>3, <1>4, <1>6, <4>1
    <3> QED
      BY <1>3, <1>4, <3>1, <3>2, <3>3
  <2> QED
    BY <2>1, <2>2, SeqEqual
<1>8. DecodePacket(r) = Understood(type, data)
  <2>1. DecodePacket(Joint(type, <<>>, <<>>, <<>>, d)) =
          WithData(Packet(Types[type + 1], <<>>, Number(<<>>),
                          IF <<>> = <<>> THEN "none"
                          ELSE IF <<>> # <<>> THEN "data" ELSE "true",
                          IF type = 7 THEN NoReason ELSE 0, <<>>),
                   IF d = <<>> THEN <<>> ELSE Tail(d))
    BY <1>1, <1>5, DecodeParts DEF Free
  <2>2. Number(<<>>) = 0
    BY <1>1, NumberOfDigits
  <2> QED
    BY <1>2, <2>1, <2>2 DEF r, Understood
<1>9. DecodePayload(s) = <<DecodePacket(s)>>
  BY <1>1, <1>4 DEF DecodePayload
<1> QED
  BY <1>7, <1>8, <1>9 DEF s

(***************************************************************************)
(* Payloads: several texts in one, each after its length.                  *)
(***************************************************************************)

(* There is a next place, if only the end of the text.                     *)
LEMMA NextOfIsNext ==
  ASSUME NEW S, NEW s \in Seq(S), NEW c, NEW i \in Nat, i <= Len(s) + 1
  PROVE  IsNext(s, c, i, NextOf(s, c, i))
<1> DEFINE T == {j \in i .. Len(s) + 1 : j <= Len(s) => s[j] = c}
<1>1. Len(s) \in Nat
  BY LenProperties
<1>2. T \in SUBSET Nat /\ Len(s) + 1 \in T
  BY <1>1
<1> HIDE DEF T
<1>3. PICK j \in T : \A k \in T : j <= k
  BY <1>2, Least
<1>4. j \in i .. Len(s) + 1 /\ (j <= Len(s) => s[j] = c)
  BY <1>3 DEF T
<1>5. ASSUME NEW k \in i .. j - 1
      PROVE  s[k] # c
  <2>1. k \in i .. Len(s) + 1 /\ k <= Len(s) /\ ~(j <= k)
    BY <1>1, <1>4
  <2>2. k \notin T
    BY <1>3, <2>1
  <2> QED
    BY <2>1, <2>2 DEF T
<1>6. IsNext(s, c, i, j)
  BY <1>4, <1>5 DEF IsNext
<1>7. NextOf(s, c, i) = j
  BY <1>6, NextIs
<1> QED
  BY <1>6, <1>7

(* A text of digits only.                                                  *)
LEMMA DigitsOnly ==
  ASSUME NEW s \in Text, AllDigits(s)
  PROVE  s \in Seq(Digit)
<1>1. /\ Len(s) \in Nat /\ s \in [1 .. Len(s) -> Character]
      /\ DOMAIN s = 1 .. Len(s)
  BY LenProperties DEF Text
<1>2. \A i \in 1 .. Len(s) : s[i] \in Digit
  BY <1>1 DEF AllDigits
<1>3. s \in [1 .. Len(s) -> Digit]
  BY <1>1, <1>2
<1> QED
  BY <1>1, <1>3, SeqDef

(* Where the texts of a sequence stand in the text of all.                 *)
Offsets(off, texts, s) ==
  /\ off \in [1 .. Len(texts) + 1 -> Nat]
  /\ s \in Text
  /\ off[1] = 0 /\ off[Len(texts) + 1] = Len(s)
  /\ \A i \in 1 .. Len(texts) :
       /\ off[i + 1] = off[i] + Len(texts[i])
       /\ off[i + 1] <= Len(s)
       /\ \A j \in 1 .. Len(texts[i]) : s[off[i] + j] = texts[i][j]

(* The text of the first texts.                                            *)
Flattened(texts) ==
  LET flatten[i \in 1 .. Len(texts)] ==
        IF i = 1 THEN texts[i] ELSE flatten[i - 1] \o texts[i]
  IN  flatten

(* It grows from text to text.                                             *)
LEMMA FlattenedIs ==
  ASSUME NEW texts \in Seq(Text), texts # <<>>
  PROVE  /\ Flattened(texts) \in [1 .. Len(texts) -> Text]
         /\ Flattened(texts)[1] = texts[1]
         /\ \A i \in 2 .. Len(texts) :
              Flattened(texts)[i] = Flattened(texts)[i - 1] \o texts[i]
         /\ FlattenSeq(texts) = Flattened(texts)[Len(texts)]
<1> DEFINE n == Len(texts)
           D == 1 .. n
           flatten[i \in D] == IF i = 1 THEN texts[i] ELSE flatten[i - 1] \o texts[i]
           measure == [i \in D |-> i]
           first == [i \in D |-> texts[i]]
           before == [i \in D |-> IF i = 1 THEN 1 ELSE i - 1]
           step == [iv \in D \X Text |-> iv[2] \o texts[iv[1]]]
<1>1. /\ n \in Nat /\ n # 0
      /\ \A i \in D : texts[i] \in Text /\ i \in Nat /\ (i # 1 => i - 1 \in D)
  <2>1. n \in Nat /\ n # 0
    BY LenProperties, EmptySeq
  <2>2. \A i \in D : texts[i] \in Text
    BY ElementOfSeq
  <2> QED
    BY <2>1, <2>2
<1> HIDE DEF n
<1>2. Descends(D, measure, {1}, before)
  BY <1>1 DEF Descends
<1>3. first \in [D -> Text]
  BY <1>1
<1>4. step \in [D \X Text -> Text]
  <2>1. \A iv \in D \X Text : iv[2] \o texts[iv[1]] \in Text
    <3>1. \A u, v \in Text : u \o v \in Text
      BY JoinedText
    <3> QED
      BY <1>1, <3>1
  <2> QED
    BY <2>1
<1>5. PICK f \in [D -> Text] : Recurs(f, D, {1}, first, before, step)
  <2> HIDE DEF D, measure, first, before, step
  <2> QED
    BY <1>2, <1>3, <1>4, Recursion
<1>6. f = [i \in D |-> IF i = 1 THEN texts[i] ELSE f[i - 1] \o texts[i]]
  BY <1>1, <1>5 DEF Recurs
<1>7. flatten = [i \in D |-> IF i = 1 THEN texts[i] ELSE flatten[i - 1] \o texts[i]]
  BY <1>6
<1>8. Flattened(texts) = flatten /\ FlattenSeq(texts) = flatten[n]
  BY <1>1 DEF Flattened, FlattenSeq, n
<1> HIDE DEF flatten
<1>9. \A i \in D : flatten[i] = IF i = 1 THEN texts[i] ELSE flatten[i - 1] \o texts[i]
  BY <1>7
<1>10. flatten \in [D -> Text]
  <2> DEFINE T == {i \in D : flatten[i] \in Text}
  <2>1. 1 \in D => 1 \in T
    BY <1>1, <1>9
  <2>2. ASSUME NEW i \in D \ {1}, before[i] \in T
        PROVE  i \in T
    <3>1. flatten[i - 1] \in Text /\ texts[i] \in Text /\ i # 1
      BY <1>1, <2>2
    <3>2. flatten[i - 1] \o texts[i] \in Text
      BY <3>1, JoinedText
    <3> QED
      BY <1>9, <3>1, <3>2
  <2>3. Inherits(T, D, {1}, before)
    BY <2>1, <2>2 DEF Inherits
  <2> HIDE DEF T, D, measure, before
  <2>4. D \subseteq T
    BY <1>2, <2>3, Descent
  <2> QED
    BY <1>7, <2>4 DEF T
<1>11. flatten[1] = texts[1]
  BY <1>1, <1>9
<1>12. \A i \in 2 .. n : flatten[i] = flatten[i - 1] \o texts[i]
  <2>1. \A i \in 2 .. n : i \in D /\ i # 1
    OBVIOUS
  <2> HIDE DEF D
  <2> QED
    BY <1>9, <2>1
<1> QED
  BY <1>8, <1>10, <1>11, <1>12 DEF n

(* In the text of all, the texts stand one after the other.                *)
LEMMA TextsAt ==
  ASSUME NEW texts \in Seq(Text), texts # <<>>
  PROVE  \E off : Offsets(off, texts, FlattenSeq(texts))
<1> DEFINE n == Len(texts)
           fl == Flattened(texts)
           s == FlattenSeq(texts)
           Extends(u, v) == /\ Len(v) <= Len(u)
                            /\ \A j \in 1 .. Len(v) : u[j] = v[j]
           off == [i \in 1 .. n + 1 |-> IF i = 1 THEN 0 ELSE Len(fl[i - 1])]
<1>1. /\ fl \in [1 .. n -> Text] /\ fl[1] = texts[1] /\ s = fl[n]
      /\ \A i \in 2 .. n : fl[i] = fl[i - 1] \o texts[i]
  BY FlattenedIs
<1>2. n \in Nat /\ n >= 1 /\ \A i \in 1 .. n : texts[i] \in Text
  BY LenProperties, EmptySeq, ElementOfSeq
<1> HIDE DEF n, fl, s
<1>3. \A i \in 1 .. n : fl[i] \in Text /\ Len(fl[i]) \in Nat /\ Len(texts[i]) \in Nat
  <2>1. \A t \in Text : Len(t) \in Nat
    BY LenProperties DEF Text
  <2> QED
    BY <1>1, <1>2, <2>1
<1>4. ASSUME NEW i \in 2 .. n
      PROVE  /\ Len(fl[i]) = Len(fl[i - 1]) + Len(texts[i])
             /\ Extends(fl[i], fl[i - 1])
             /\ \A j \in 1 .. Len(texts[i]) : fl[i][Len(fl[i - 1]) + j] = texts[i][j]
  <2> DEFINE a == fl[i - 1]
             b == texts[i]
             u == a \o b
  <2>0. i \in 1 .. n /\ i - 1 \in 1 .. n
    BY <1>2
  <2>1. a \in Text /\ b \in Text /\ fl[i] = u
    BY <1>1, <1>2, <2>0
  <2> HIDE DEF a, b
  <2>2. /\ Len(a) \in Nat /\ Len(b) \in Nat /\ Len(u) = Len(a) + Len(b)
        /\ \A j \in 1 .. Len(a) : u[j] = a[j]
        /\ \A j \in 1 .. Len(b) : u[Len(a) + j] = b[j]
    BY <2>1, JoinedText
  <2> HIDE DEF u
  <2>3. Len(u) = Len(a) + Len(b) /\ Extends(u, a)
    BY <2>2
  <2> HIDE DEF Extends
  <2> QED
    BY <2>1, <2>2, <2>3 DEF a, b
<1>5. ASSUME NEW i \in 1 .. n, NEW k \in i .. n
      PROVE  Extends(fl[k], fl[i])
  <2> DEFINE T == {m \in i .. n : ~Extends(fl[m], fl[i])}
  <2> SUFFICES ASSUME T # {}
               PROVE  FALSE
    OBVIOUS
  <2>1. T \in SUBSET Nat
    BY <1>2
  <2> HIDE DEF T
  <2>2. PICK m \in T : \A j \in T : m <= j
    BY <2>1, Least
  <2>3. m \in i .. n /\ ~Extends(fl[m], fl[i])
    BY <2>2 DEF T
  <2>4. m # i
    BY <1>3, <2>3
  <2>5. m \in 2 .. n /\ m - 1 \in i .. n /\ ~(m <= m - 1)
    BY <1>2, <2>3, <2>4
  <2>6. Extends(fl[m - 1], fl[i]) /\ Extends(fl[m], fl[m - 1])
    <3> HIDE DEF Extends
    <3>1. m - 1 \notin T
      BY <2>2, <2>5
    <3> QED
      BY <1>4, <2>5, <3>1 DEF T
  <2>7. /\ Len(fl[m]) \in Nat /\ Len(fl[m - 1]) \in Nat /\ Len(fl[i]) \in Nat
    BY <1>3, <2>3, <2>5
  <2>8. Extends(fl[m], fl[i])
    BY <2>6, <2>7
  <2> HIDE DEF Extends
  <2> QED
    BY <2>3, <2>8
<1>6. /\ off \in [1 .. n + 1 -> Nat] /\ off[1] = 0 /\ off[n + 1] = Len(s)
      /\ s \in Text
  <2>1. \A i \in 1 .. n + 1 : i # 1 => i - 1 \in 1 .. n
    BY <1>2
  <2>2. off \in [1 .. n + 1 -> Nat]
    BY <1>3, <2>1
  <2>3. 1 \in 1 .. n + 1 /\ n + 1 \in 1 .. n + 1 /\ n + 1 # 1 /\ n + 1 - 1 = n
        /\ n \in 1 .. n
    BY <1>2
  <2> QED
    BY <1>1, <1>3, <2>2, <2>3
<1>7. ASSUME NEW i \in 1 .. n
      PROVE  /\ off[i + 1] = off[i] + Len(texts[i])
             /\ off[i + 1] <= Len(s)
             /\ \A j \in 1 .. Len(texts[i]) : s[off[i] + j] = texts[i][j]
  <2>1. /\ i \in 1 .. n + 1 /\ i + 1 \in 1 .. n + 1 /\ i + 1 # 1 /\ i + 1 - 1 = i
        /\ n \in i .. n
    BY <1>2
  <2>2. off[i + 1] = Len(fl[i]) /\ off[i] = IF i = 1 THEN 0 ELSE Len(fl[i - 1])
    BY <2>1
  <2>3. Extends(s, fl[i])
    <3> HIDE DEF Extends
    <3> QED
      BY <1>1, <1>5, <2>1
  <2> HIDE DEF off
  <2>4. /\ Len(fl[i]) = off[i] + Len(texts[i])
        /\ off[i] \in Nat
        /\ \A j \in 1 .. Len(texts[i]) : fl[i][off[i] + j] = texts[i][j]
    <3>1. CASE i = 1
      <4>1. off[i] = 0 /\ fl[i] = texts[i] /\ \A j \in 1 .. Len(texts[i]) : 0 + j = j
        BY <1>1, <1>3, <2>2, <3>1
      <4> QED
        BY <1>3, <4>1
    <3>2. CASE i # 1
      <4>1. i \in 2 .. n /\ i - 1 \in 1 .. n
        BY <1>2, <3>2
      <4> HIDE DEF Extends
      <4> QED
        BY <1>3, <1>4, <2>2, <3>2, <4>1
    <3> QED
      BY <3>1, <3>2
  <2>5. ASSUME NEW j \in 1 .. Len(texts[i])
        PROVE  s[off[i] + j] = texts[i][j]
    <3>1. off[i] + j \in 1 .. Len(fl[i])
      BY <1>3, <2>4
    <3> QED
      BY <2>3, <2>4, <3>1
  <2> QED
    BY <2>2, <2>3, <2>4, <2>5
<1> HIDE DEF off
<1>8. Offsets(off, texts, s)
  BY <1>6, <1>7 DEF Offsets, n
<1> QED
  BY <1>8 DEF s

(* A function on 1 .. n is a sequence.                                     *)
LEMMA FunctionIsSeq ==
  ASSUME NEW S, NEW n \in Nat, NEW f \in [1 .. n -> S]
  PROVE  f \in Seq(S) /\ Len(f) = n
<1>1. f \in Seq(S)
  BY SeqDef
<1>2. DOMAIN f = 1 .. n /\ DOMAIN f = 1 .. Len(f) /\ Len(f) \in Nat
  BY <1>1, LenProperties
<1>3. Len(f) = n
  BY <1>2
<1> QED
  BY <1>1, <1>3

(* A text in a payload, after its length.                                  *)
Block(m) == <<Separator>> \o Decimal(Len(m)) \o <<Separator>> \o m

(* Where its parts stand.                                                  *)
LEMMA BlockIs ==
  ASSUME NEW m \in Text
  PROVE  LET l == Len(Decimal(Len(m)))
         IN  /\ Block(m) \in Text /\ l \in Nat /\ Len(m) \in Nat
             /\ Len(Block(m)) = l + 2 + Len(m)
             /\ Block(m)[1] = Separator /\ Block(m)[l + 2] = Separator
             /\ \A i \in 1 .. l : Block(m)[1 + i] = Decimal(Len(m))[i]
             /\ \A i \in 1 .. Len(m) : Block(m)[l + 2 + i] = m[i]
<1> DEFINE id == Decimal(Len(m))
           l == Len(id)
           one == <<Separator>>
           a == one \o id
           b == a \o one
           c == b \o m
<1>1. /\ Len(m) \in Nat /\ id \in Text
      /\ one \in Text /\ Len(one) = 1 /\ one[1] = Separator
  <2>1. Len(m) \in Nat
    BY LenProperties DEF Text
  <2>2. id \in Seq(Digit) /\ Digit \subseteq Character
    BY <2>1, DecimalDigits DEF Digit, Character
  <2>3. one \in Text /\ Len(one) = 1 /\ one[1] = Separator
    BY DEF Text, Separator, Character
  <2> HIDE DEF id, one
  <2>4. id \in Text
    BY <2>2, SeqMonotonic DEF Text
  <2> QED
    BY <2>1, <2>3, <2>4
<1>2. Block(m) = c
  BY DEF Block
<1> HIDE DEF id, one
<1>3. /\ a \in Text /\ l \in Nat /\ Len(a) = 1 + l
      /\ a[1] = Separator /\ \A i \in 1 .. l : a[1 + i] = id[i]
  <2>1. /\ a \in Text /\ l \in Nat /\ Len(a) = Len(one) + l
        /\ \A i \in 1 .. Len(one) : a[i] = one[i]
        /\ \A i \in 1 .. l : a[Len(one) + i] = id[i]
    BY <1>1, JoinedText
  <2> HIDE DEF a, l
  <2> QED
    BY <1>1, <2>1
<1> HIDE DEF a, l
<1>4. /\ b \in Text /\ Len(b) = l + 2
      /\ \A i \in 1 .. 1 + l : b[i] = a[i]
      /\ b[l + 2] = Separator
  <2>1. /\ b \in Text /\ Len(b) = Len(a) + Len(one)
        /\ \A i \in 1 .. Len(a) : b[i] = a[i]
        /\ \A i \in 1 .. Len(one) : b[Len(a) + i] = one[i]
    BY <1>1, <1>3, JoinedText
  <2> HIDE DEF b
  <2>2. Len(a) + 1 = l + 2 /\ 1 \in 1 .. Len(one)
    BY <1>1, <1>3
  <2>3. b[l + 2] = Separator
    BY <1>1, <2>1, <2>2
  <2> QED
    BY <1>1, <1>3, <2>1, <2>3
<1> HIDE DEF b
<1>5. /\ c \in Text /\ Len(c) = l + 2 + Len(m)
      /\ \A i \in 1 .. l + 2 : c[i] = b[i]
      /\ \A i \in 1 .. Len(m) : c[l + 2 + i] = m[i]
  <2>1. /\ c \in Text /\ Len(c) = Len(b) + Len(m)
        /\ \A i \in 1 .. Len(b) : c[i] = b[i]
        /\ \A i \in 1 .. Len(m) : c[Len(b) + i] = m[i]
    BY <1>4, JoinedText
  <2> HIDE DEF c
  <2> QED
    BY <1>4, <2>1
<1> HIDE DEF c
<1>6. c[1] = Separator /\ c[l + 2] = Separator
  <2>1. 1 \in 1 .. l + 2 /\ l + 2 \in 1 .. l + 2 /\ 1 \in 1 .. 1 + l
    BY <1>3
  <2> QED
    BY <1>3, <1>4, <1>5, <2>1
<1>7. \A i \in 1 .. l : c[1 + i] = id[i]
  <2>1. \A i \in 1 .. l : 1 + i \in 1 .. l + 2 /\ 1 + i \in 1 .. 1 + l
    BY <1>3
  <2> QED
    BY <1>3, <1>4, <1>5, <2>1
<1> QED
  BY <1>1, <1>2, <1>3, <1>5, <1>6, <1>7 DEF id, l

(* The packets that the client reads from a payload, from each place on.   *)
From(s) ==
  LET from[i \in 1 .. Len(s) + 2] ==
        LET j == NextOf(s, Separator, i)
            length == Number(SubSeq(s, i, j - 1))
            end == IF j + length > Len(s) THEN Len(s) ELSE j + length
        IN
        IF i > Len(s) \/ j > Len(s) THEN <<>>
        ELSE IF ~AllDigits(SubSeq(s, i, j - 1)) THEN <<Undefined>>
        ELSE <<DecodePacket(SubSeq(s, j + 1, end))>> \o from[end + 2]
  IN  from

(* Where a packet's length ends, and where the packet does.                *)
LengthEnd(s, i) == NextOf(s, Separator, i)
LengthAt(s, i) == SubSeq(s, i, LengthEnd(s, i) - 1)
PacketEnd(s, i) ==
  IF LengthEnd(s, i) + Number(LengthAt(s, i)) > Len(s) THEN Len(s)
  ELSE LengthEnd(s, i) + Number(LengthAt(s, i))

(* It reads one after the other.                                           *)
LEMMA FromIs ==
  ASSUME NEW s \in Text, NEW i \in 1 .. Len(s) + 2
  PROVE  From(s)[i] =
           IF i > Len(s) \/ LengthEnd(s, i) > Len(s) THEN <<>>
           ELSE IF ~AllDigits(LengthAt(s, i)) THEN <<Undefined>>
           ELSE <<DecodePacket(SubSeq(s, LengthEnd(s, i) + 1, PacketEnd(s, i)))>>
                  \o From(s)[PacketEnd(s, i) + 2]
<1> DEFINE D == 1 .. Len(s) + 2
           Stops(k) == k > Len(s) \/ LengthEnd(s, k) > Len(s)
           packet(k) == DecodePacket(SubSeq(s, LengthEnd(s, k) + 1, PacketEnd(s, k)))
           W == {packet(k) : k \in D} \cup {Undefined}
           V == Seq(W)
           measure == [k \in D |-> Len(s) + 2 - k]
           base == {k \in D : Stops(k) \/ ~AllDigits(LengthAt(s, k))}
           first == [k \in D |-> IF Stops(k) THEN <<>> ELSE <<Undefined>>]
           before == [k \in D |-> IF k \in base THEN k ELSE PacketEnd(s, k) + 2]
           step == [kv \in D \X V |-> <<packet(kv[1])>> \o kv[2]]
           from[k \in D] ==
             IF Stops(k) THEN <<>>
             ELSE IF ~AllDigits(LengthAt(s, k)) THEN <<Undefined>>
             ELSE <<packet(k)>> \o from[PacketEnd(s, k) + 2]
<1>1. Len(s) \in Nat /\ s \in Seq(Character)
  BY LenProperties DEF Text
<1>2. ASSUME NEW k \in D, k \notin base
      PROVE  PacketEnd(s, k) \in Nat /\ PacketEnd(s, k) >= k /\ PacketEnd(s, k) <= Len(s)
  <2> DEFINE j == LengthEnd(s, k)
             u == LengthAt(s, k)
  <2>1. k <= Len(s) /\ ~(j > Len(s)) /\ AllDigits(u)
    BY <1>1, <1>2
  <2>2. k \in Nat /\ k <= Len(s) + 1
    BY <1>1, <2>1
  <2>3. j \in k .. Len(s) + 1
    <3>1. IsNext(s, Separator, k, j)
      BY <1>1, <2>2, NextOfIsNext DEF LengthEnd
    <3> QED
      BY <3>1 DEF IsNext
  <2> HIDE DEF j
  <2>4. u = SubSeq(s, k, j - 1)
    BY DEF LengthAt, j
  <2>5. u \in Text
    <3>1. /\ k \in Nat /\ j - 1 \in Nat /\ k >= 1 /\ k - 1 <= j - 1 /\ j - 1 <= Len(s)
      BY <1>1, <2>1, <2>3
    <3> QED
      BY <1>1, <2>4, <3>1, Part DEF Text
  <2>6. Number(u) \in Nat
    <3>1. 0 \in Digit
      BY DEF Digit
    <3> HIDE DEF u
    <3> QED
      BY <2>1, <2>5, <3>1, DigitsOnly, NumberOfDigits
  <2>7. PacketEnd(s, k) = IF j + Number(u) > Len(s) THEN Len(s) ELSE j + Number(u)
    BY DEF PacketEnd, j
  <2> HIDE DEF u
  <2> QED
    BY <1>1, <2>1, <2>3, <2>6, <2>7
<1>3. Descends(D, measure, base, before)
  <2>1. \A k \in D : before[k] \in D
    BY <1>1, <1>2
  <2>2. measure \in [D -> Nat]
    BY <1>1
  <2>3. \A k \in D \ base : measure[before[k]] < measure[k]
    <3> SUFFICES ASSUME NEW k \in D, k \notin base
                 PROVE  measure[before[k]] < measure[k]
      OBVIOUS
    <3>1. before[k] = PacketEnd(s, k) + 2 /\ before[k] \in D
      BY <2>1
    <3>2. PacketEnd(s, k) \in Nat /\ PacketEnd(s, k) >= k
      BY <1>2
    <3>3. measure[before[k]] = Len(s) + 2 - before[k] /\ measure[k] = Len(s) + 2 - k
      BY <3>1
    <3> HIDE DEF measure, before, base
    <3> QED
      BY <1>1, <3>1, <3>2, <3>3
  <2> QED
    BY <2>1, <2>2, <2>3 DEF Descends
<1>4. first \in [D -> V]
  <2>1. <<>> \in V /\ <<Undefined>> \in V
    <3> HIDE DEF packet
    <3> QED
      BY EmptySeq
  <2> HIDE DEF V
  <2> QED
    BY <2>1
<1>5. step \in [D \X V -> V]
  <2>1. ASSUME NEW k \in D, NEW v \in V
        PROVE  <<packet(k)>> \o v \in V
    <3>1. packet(k) \in W
      OBVIOUS
    <3> HIDE DEF W, packet
    <3>2. <<packet(k)>> \in Seq(W)
      BY <3>1
    <3> QED
      BY <3>2, ConcatProperties
  <2> HIDE DEF V, packet
  <2> QED
    BY <2>1
<1>6. PICK f \in [D -> V] : Recurs(f, D, base, first, before, step)
  <2> HIDE DEF D, V, measure, base, first, before, step
  <2> QED
    BY <1>3, <1>4, <1>5, Recursion
<1>7. f = [k \in D |-> IF Stops(k) THEN <<>>
                       ELSE IF ~AllDigits(LengthAt(s, k)) THEN <<Undefined>>
                       ELSE <<packet(k)>> \o f[PacketEnd(s, k) + 2]]
  <2>1. f = [k \in D |-> f[k]]
    OBVIOUS
  <2>2. ASSUME NEW k \in D
        PROVE  f[k] = IF Stops(k) THEN <<>>
                      ELSE IF ~AllDigits(LengthAt(s, k)) THEN <<Undefined>>
                      ELSE <<packet(k)>> \o f[PacketEnd(s, k) + 2]
    <3>1. f[k] = IF k \in base THEN first[k] ELSE step[<<k, f[before[k]]>>]
      BY <1>6 DEF Recurs
    <3>2. CASE k \in base
      <4> HIDE DEF packet, V, W
      <4> QED
        BY <3>1, <3>2
    <3>3. CASE k \notin base
      <4>1. before[k] = PacketEnd(s, k) + 2 /\ ~Stops(k) /\ AllDigits(LengthAt(s, k))
        BY <3>3
      <4>2. before[k] \in D
        BY <1>3 DEF Descends
      <4>3. f[before[k]] \in V
        BY <4>2
      <4>4. step[<<k, f[before[k]]>>] = <<packet(k)>> \o f[before[k]]
        BY <4>3
      <4> HIDE DEF packet, V, W, base, before, step, Stops
      <4> QED
        BY <3>1, <3>3, <4>1, <4>4
    <3> QED
      BY <3>2, <3>3
  <2> HIDE DEF packet, Stops
  <2> QED
    BY <2>1, <2>2
<1>8. from = [k \in D |-> IF Stops(k) THEN <<>>
                          ELSE IF ~AllDigits(LengthAt(s, k)) THEN <<Undefined>>
                          ELSE <<packet(k)>> \o from[PacketEnd(s, k) + 2]]
  <2> HIDE DEF packet, Stops
  <2> QED
    BY <1>7
<1>9. From(s) = from
  BY DEF From, LengthEnd, LengthAt, PacketEnd
<1> HIDE DEF from, packet, Stops
<1>10. From(s)[i] = IF Stops(i) THEN <<>>
                    ELSE IF ~AllDigits(LengthAt(s, i)) THEN <<Undefined>>
                    ELSE <<packet(i)>> \o From(s)[PacketEnd(s, i) + 2]
  BY <1>8, <1>9
<1> QED
  BY <1>10 DEF packet, Stops

Blocks(messages) == [i \in DOMAIN messages |-> Block(messages[i])]

(* Where a length ends, where its packet ends, and what both are.          *)
LEMMA BlockRead ==
  ASSUME NEW s \in Text, NEW m \in Text, NEW o \in Nat,
         NEW b, b = Block(m), o + Len(b) <= Len(s),
         \A i \in 1 .. Len(b) : s[o + i] = b[i]
  PROVE  /\ ~(o + 2 > Len(s)) /\ ~(LengthEnd(s, o + 2) > Len(s))
         /\ AllDigits(LengthAt(s, o + 2))
         /\ PacketEnd(s, o + 2) = o + Len(b)
         /\ SubSeq(s, LengthEnd(s, o + 2) + 1, PacketEnd(s, o + 2)) = m
         /\ LengthAt(s, o + 2) = Decimal(Len(m))
         /\ LengthEnd(s, o + 2) >= o + 2
         /\ LengthEnd(s, o + 2) + Len(m) = o + Len(b)
         /\ \A i \in 1 .. Len(m) : s[LengthEnd(s, o + 2) + i] = m[i]
<1> DEFINE id == Decimal(Len(m))
           l == Len(id)
           place == o + 2
           colon == o + l + 2
<1>1. /\ l \in Nat /\ Len(m) \in Nat /\ Len(b) = l + 2 + Len(m)
      /\ b[l + 2] = Separator
      /\ \A i \in 1 .. l : b[1 + i] = id[i]
      /\ \A i \in 1 .. Len(m) : b[l + 2 + i] = m[i]
  BY BlockIs
<1>2. /\ id \in Seq(Digit) /\ id \in Seq(Character) /\ Number(id) = Len(m)
      /\ \A i \in 1 .. l : id[i] \in Digit
      /\ AllDigits(id)
  <2>1. id \in Seq(Digit) /\ Number(id) = Len(m)
    BY <1>1, DecimalDigits, NumberOfDecimal
  <2> HIDE DEF id
  <2>2. Digit \subseteq Character
    BY DEF Digit, Character
  <2>3. id \in Seq(Character) /\ \A i \in 1 .. l : id[i] \in Digit
    BY <2>1, <2>2, SeqMonotonic, ElementOfSeq
  <2>4. AllDigits(id)
    BY <2>1, <2>3, LenProperties DEF AllDigits
  <2> QED
    BY <2>1, <2>3, <2>4
<1> HIDE DEF id
<1>3. s \in Seq(Character) /\ m \in Seq(Character) /\ Len(s) \in Nat
  BY LenProperties DEF Text
<1>4. /\ \A i \in 1 .. l : s[o + 1 + i] = id[i]
      /\ s[colon] = Separator
      /\ \A i \in 1 .. Len(m) : s[colon + i] = m[i]
  <2>1. ASSUME NEW i \in 1 .. l
        PROVE  s[o + 1 + i] = id[i]
    <3>1. 1 + i \in 1 .. Len(b) /\ o + (1 + i) = o + 1 + i
      BY <1>1
    <3>2. s[o + (1 + i)] = b[1 + i]
      BY <3>1
    <3> QED
      BY <1>1, <3>1, <3>2
  <2>2. s[colon] = Separator
    <3>1. l + 2 \in 1 .. Len(b) /\ o + (l + 2) = colon
      BY <1>1
    <3>2. s[o + (l + 2)] = b[l + 2]
      BY <3>1
    <3> QED
      BY <1>1, <3>1, <3>2
  <2>3. ASSUME NEW i \in 1 .. Len(m)
        PROVE  s[colon + i] = m[i]
    <3>1. l + 2 + i \in 1 .. Len(b) /\ o + (l + 2 + i) = colon + i
      BY <1>1
    <3>2. s[o + (l + 2 + i)] = b[l + 2 + i]
      BY <3>1
    <3> QED
      BY <1>1, <3>1, <3>2
  <2> QED
    BY <2>1, <2>2, <2>3
<1>5. /\ l # 0 /\ place \in Nat /\ colon \in Nat /\ place <= colon
      /\ colon + Len(m) = o + Len(b) /\ colon <= Len(s) /\ ~(place > Len(s))
      /\ o + 1 \in Nat /\ o + 1 + 1 = place /\ o + 1 + l = colon - 1
  <2>1. l # 0
    <3>1. id # <<>>
      BY <1>1, DecimalDigits DEF id
    <3> QED
      BY <1>1, <1>2, <3>1, EmptySeq
  <2> HIDE DEF l
  <2> QED
    BY <1>1, <1>3, <2>1
<1>6. ASSUME NEW i \in place .. colon - 1
      PROVE  s[i] # Separator
  <2>1. i - (o + 1) \in 1 .. l /\ o + 1 + (i - (o + 1)) = i
    BY <1>1, <1>5
  <2>2. s[i] = id[i - (o + 1)]
    BY <1>4, <2>1
  <2>3. s[i] \in Digit
    BY <1>2, <2>1, <2>2
  <2> QED
    BY <2>3 DEF Digit, Separator
<1> HIDE DEF place, colon
<1>7. LengthEnd(s, place) = colon
  <2>1. IsNext(s, Separator, place, colon)
    <3>1. colon \in place .. Len(s) + 1
      BY <1>3, <1>5
    <3> QED
      BY <1>4, <1>6, <3>1 DEF IsNext
  <2> QED
    BY <1>3, <1>5, <2>1, NextIs DEF LengthEnd
<1>8. LengthAt(s, place) = id
  <2>1. o + 1 + l <= Len(s)
    BY <1>3, <1>5
  <2>2. SubSeq(s, o + 1 + 1, o + 1 + l) = id
    BY <1>2, <1>3, <1>4, <1>5, <2>1, PartIs
  <2> QED
    BY <1>5, <1>7, <2>2 DEF LengthAt
<1>9. PacketEnd(s, place) = colon + Len(m)
  <2>1. PacketEnd(s, place) = IF colon + Len(m) > Len(s) THEN Len(s) ELSE colon + Len(m)
    BY <1>2, <1>7, <1>8 DEF PacketEnd
  <2>2. ~(colon + Len(m) > Len(s))
    BY <1>1, <1>3, <1>5
  <2> QED
    BY <2>1, <2>2
<1>10. SubSeq(s, colon + 1, colon + Len(m)) = m
  <2>1. colon + Len(m) <= Len(s)
    BY <1>5
  <2> QED
    BY <1>3, <1>4, <1>5, <2>1, PartIs
<1>11. /\ ~(place > Len(s)) /\ ~(LengthEnd(s, place) > Len(s))
       /\ AllDigits(LengthAt(s, place))
       /\ PacketEnd(s, place) = o + Len(b)
       /\ SubSeq(s, LengthEnd(s, place) + 1, PacketEnd(s, place)) = m
       /\ LengthAt(s, place) = Decimal(Len(m))
       /\ LengthEnd(s, place) >= place
       /\ LengthEnd(s, place) + Len(m) = o + Len(b)
       /\ \A i \in 1 .. Len(m) : s[LengthEnd(s, place) + i] = m[i]
  <2>1. ~(colon > Len(s)) /\ colon >= place
    BY <1>3, <1>5
  <2>2. /\ LengthAt(s, place) = Decimal(Len(m))
        /\ LengthEnd(s, place) >= place
        /\ LengthEnd(s, place) + Len(m) = o + Len(b)
        /\ \A i \in 1 .. Len(m) : s[LengthEnd(s, place) + i] = m[i]
    BY <1>4, <1>5, <1>7, <1>8, <2>1 DEF id
  <2> QED
    BY <1>2, <1>5, <1>7, <1>8, <1>9, <1>10, <2>1, <2>2
<1> QED
  BY <1>11 DEF place

(* What a client reads of a payload are the packets of its texts, in their *)
(* order.                                                                  *)
LEMMA PayloadPackets ==
  ASSUME NEW messages \in Seq(Text), messages # <<>>,
         \A i \in 1 .. Len(messages) : Len(messages[i]) > 0
                                       /\ messages[i][1] # Separator
  PROVE  DecodePayload(EncodePayload(messages)) =
           [i \in DOMAIN messages |-> DecodePacket(messages[i])]
<1> DEFINE n == Len(messages)
           packets == [i \in DOMAIN messages |-> DecodePacket(messages[i])]
           W == {DecodePacket(messages[i]) : i \in 1 .. n}
<1>1. /\ n \in Nat /\ n # 0 /\ DOMAIN messages = 1 .. n
      /\ \A i \in 1 .. n : messages[i] \in Text
  BY LenProperties, EmptySeq, ElementOfSeq
<1> HIDE DEF n
<1>2. /\ packets \in Seq(W) /\ Len(packets) = n
      /\ \A i \in 1 .. n : packets[i] = DecodePacket(messages[i])
  <2>1. packets = [i \in 1 .. n |-> DecodePacket(messages[i])]
    BY <1>1
  <2>2. packets \in [1 .. n -> W]
    BY <2>1
  <2>3. \A i \in 1 .. n : packets[i] = DecodePacket(messages[i])
    BY <2>1
  <2> HIDE DEF packets, W
  <2> QED
    BY <1>1, <2>2, <2>3, FunctionIsSeq
<1> HIDE DEF packets, W
<1>3. CASE n = 1
  <2> DEFINE s == messages[1]
  <2>1. s \in Seq(Character) /\ Len(s) > 0 /\ s[1] # Separator
    BY <1>1, <1>3 DEF n, Text
  <2>2. EncodePayload(messages) = s
    BY <1>3 DEF EncodePayload, n
  <2> HIDE DEF s
  <2>3. DecodePayload(s) = <<DecodePacket(s)>>
    BY <2>1 DEF DecodePayload
  <2>4. packets = <<DecodePacket(s)>>
    <3>1. /\ <<DecodePacket(s)>> \in Seq(W) /\ Len(<<DecodePacket(s)>>) = 1
          /\ <<DecodePacket(s)>>[1] = DecodePacket(s)
      BY <1>3 DEF W, s
    <3>2. \A i \in 1 .. n : packets[i] = <<DecodePacket(s)>>[i]
      <4>1. \A i \in 1 .. n : i = 1
        BY <1>3
      <4> QED
        BY <1>2, <3>1, <4>1 DEF s
    <3> QED
      BY <1>2, <1>3, <3>1, <3>2, SeqEqual
  <2> QED
    BY <2>2, <2>3, <2>4 DEF packets
<1>4. CASE n # 1
  <2> DEFINE blocks == Blocks(messages)
             s == FlattenSeq(blocks)
  <2>1. /\ blocks \in Seq(Text) /\ Len(blocks) = n /\ blocks # <<>>
        /\ \A i \in 1 .. n : blocks[i] = Block(messages[i])
    <3>1. blocks = [i \in 1 .. n |-> Block(messages[i])]
      BY <1>1 DEF Blocks
    <3>2. \A i \in 1 .. n : Block(messages[i]) \in Text
      BY <1>1, BlockIs
    <3>3. blocks \in [1 .. n -> Text]
      BY <3>1, <3>2
    <3>4. \A i \in 1 .. n : blocks[i] = Block(messages[i])
      BY <3>1
    <3> HIDE DEF blocks
    <3>5. blocks \in Seq(Text) /\ Len(blocks) = n
      BY <1>1, <3>3, FunctionIsSeq
    <3>6. blocks # <<>>
      BY <1>1, <3>5
    <3> QED
      BY <3>4, <3>5, <3>6
  <2>2. EncodePayload(messages) = s
    BY <1>4 DEF EncodePayload, Blocks, Block, n
  <2> HIDE DEF blocks
  <2>3. PICK off : Offsets(off, blocks, s)
    BY <2>1, TextsAt
  <2> HIDE DEF s
  <2>4. /\ off \in [1 .. n + 1 -> Nat] /\ s \in Text /\ s \in Seq(Character)
        /\ Len(s) \in Nat
        /\ off[1] = 0 /\ off[n + 1] = Len(s)
        /\ \A i \in 1 .. n :
             /\ off[i + 1] = off[i] + Len(blocks[i])
             /\ off[i + 1] <= Len(s)
             /\ \A j \in 1 .. Len(blocks[i]) : s[off[i] + j] = blocks[i][j]
    <3>1. s \in Seq(Character)
      BY <2>3 DEF Offsets, Text
    <3> QED
      BY <2>1, <2>3, <3>1, LenProperties DEF Offsets
  <2> DEFINE D == 1 .. n + 1
             T == {i \in D : From(s)[off[i] + 2] = SubSeq(packets, i, n)}
             measure == [i \in D |-> n + 1 - i]
             before == [i \in D |-> IF i = n + 1 THEN i ELSE i + 1]
  <2>5. Descends(D, measure, {n + 1}, before)
    BY <1>1 DEF Descends
  <2>6. n + 1 \in T
    <3>1. n + 1 \in D /\ Len(s) + 2 \in 1 .. Len(s) + 2 /\ Len(s) + 2 > Len(s)
      BY <1>1, <2>4
    <3>2. From(s)[Len(s) + 2] = <<>>
      BY <2>4, <3>1, FromIs
    <3>3. SubSeq(packets, n + 1, n) = <<>>
      <4>1. n + 1 \in Int /\ n \in Int /\ n < n + 1
        BY <1>1
      <4> QED
        BY <4>1, SubSeqEmpty
    <3> QED
      BY <2>4, <3>1, <3>2, <3>3
  <2>7. ASSUME NEW i \in D \ {n + 1}, before[i] \in T
        PROVE  i \in T
    <3> DEFINE o == off[i]
               m == messages[i]
               b == blocks[i]
               p == o + 2
    <3>1. /\ i \in 1 .. n /\ i + 1 \in D /\ before[i] = i + 1
          /\ n \in i .. n /\ i \in D
      BY <1>1
    <3>2. From(s)[off[i + 1] + 2] = SubSeq(packets, i + 1, n)
      BY <2>7, <3>1
    <3>3. /\ o \in Nat /\ m \in Text /\ b = Block(m)
          /\ off[i + 1] = o + Len(b) /\ o + Len(b) <= Len(s)
          /\ \A j \in 1 .. Len(b) : s[o + j] = b[j]
      BY <1>1, <2>1, <2>4, <3>1
    <3> HIDE DEF o, m, b
    <3>4. /\ ~(p > Len(s)) /\ ~(LengthEnd(s, p) > Len(s))
          /\ AllDigits(LengthAt(s, p))
          /\ PacketEnd(s, p) = o + Len(b)
          /\ SubSeq(s, LengthEnd(s, p) + 1, PacketEnd(s, p)) = m
      BY <2>4, <3>3, BlockRead, SMTT(60)
    <3>5. p \in 1 .. Len(s) + 2
      BY <2>4, <3>3, <3>4
    <3> HIDE DEF p
    <3>6. From(s)[p] = <<DecodePacket(m)>> \o From(s)[o + Len(b) + 2]
      BY <2>4, <3>4, <3>5, FromIs
    <3>7. From(s)[o + Len(b) + 2] = SubSeq(packets, i + 1, n)
      BY <3>2, <3>3
    <3>8. DecodePacket(m) = packets[i]
      BY <1>2, <3>1 DEF m
    <3>9. SubSeq(packets, i, n) = <<packets[i]>> \o SubSeq(packets, i + 1, n)
      BY <1>2, <3>1, SubSeqRecursiveFirst
    <3>10. From(s)[off[i] + 2] = SubSeq(packets, i, n)
      BY <3>6, <3>7, <3>8, <3>9 DEF p, o
    <3> QED
      BY <3>1, <3>10
  <2>8. Inherits(T, D, {n + 1}, before)
    BY <2>6, <2>7 DEF Inherits
  <2>9. D \subseteq T
    <3> HIDE DEF T, D, measure, before
    <3> QED
      BY <2>5, <2>8, Descent
  <2>10. From(s)[2] = packets
    <3>1. 1 \in D
      BY <1>1
    <3>2. From(s)[off[1] + 2] = SubSeq(packets, 1, n)
      BY <2>9, <3>1
    <3>3. off[1] + 2 = 2
      BY <2>4
    <3>4. SubSeq(packets, 1, n) = packets
      BY <1>2, SubSeqFull
    <3> QED
      BY <3>2, <3>3, <3>4
  <2>11. s # <<>> /\ s[1] = Separator
    <3>1. 1 \in 1 .. n
      BY <1>1
    <3>2. /\ Len(blocks[1]) \in Nat /\ Len(blocks[1]) >= 1
          /\ blocks[1][1] = Separator
      <4>1. messages[1] \in Text /\ blocks[1] = Block(messages[1])
        BY <1>1, <2>1, <3>1
      <4> DEFINE m == messages[1]
                 l == Len(Decimal(Len(m)))
      <4>2. /\ l \in Nat /\ Len(m) \in Nat /\ Len(Block(m)) = l + 2 + Len(m)
            /\ Block(m)[1] = Separator
        BY <4>1, BlockIs
      <4>3. blocks[1] = Block(m)
        BY <4>1
      <4> HIDE DEF l, m
      <4>4. Len(Block(m)) \in Nat /\ Len(Block(m)) >= 1
        BY <4>2
      <4> QED
        BY <4>2, <4>3, <4>4
    <3>3. /\ 1 \in 1 .. Len(blocks[1]) /\ off[1] + 1 = 1 /\ off[1] = 0
          /\ off[1 + 1] = off[1] + Len(blocks[1]) /\ off[1 + 1] <= Len(s)
      BY <2>4, <3>1, <3>2
    <3>4. s[1] = Separator /\ Len(s) >= 1
      BY <2>4, <3>1, <3>2, <3>3
    <3> QED
      BY <2>4, <3>4
  <2>12. DecodePayload(s) = From(s)[2]
    BY <2>11 DEF DecodePayload, From
  <2> QED
    BY <2>2, <2>10, <2>12 DEF packets
<1> QED
  BY <1>3, <1>4

(* What a client reads of a payload are as many packets as were written,   *)
(* each in its place and, if the format can carry it, as it was written.   *)
THEOREM PayloadRoundTrip ==
  ASSUME NEW P, \A p \in P : IsPacket(p),
         NEW packets \in Seq(P), packets # <<>>
  PROVE  LET read == DecodePayload(EncodePayload([i \in DOMAIN packets |->
                                                    EncodePacket(packets[i])]))
         IN  /\ Len(read) = Len(packets)
             /\ \A i \in DOMAIN packets :
                  Legible(packets[i]) => read[i] = packets[i]
<1> DEFINE n == Len(packets)
           texts == [i \in DOMAIN packets |-> EncodePacket(packets[i])]
           read == [i \in DOMAIN texts |-> DecodePacket(texts[i])]
<1>1. /\ n \in Nat /\ n # 0 /\ DOMAIN packets = 1 .. n
      /\ packets \in [1 .. n -> P]
      /\ \A i \in 1 .. n : IsPacket(packets[i])
  <2>1. n \in Nat /\ n # 0 /\ DOMAIN packets = 1 .. n /\ packets \in [1 .. n -> P]
    BY LenProperties, EmptySeq
  <2> QED
    BY <2>1
<1>2. texts = [i \in 1 .. n |-> EncodePacket(packets[i])]
  BY <1>1
<1>3. \A i \in 1 .. n : texts[i] = EncodePacket(packets[i])
  BY <1>2
<1>4. \A i \in 1 .. n : texts[i] \in Text /\ Len(texts[i]) > 0
                        /\ texts[i][1] # Separator
  <2> SUFFICES ASSUME NEW p, IsPacket(p)
               PROVE  /\ EncodePacket(p) \in Text /\ Len(EncodePacket(p)) > 0
                      /\ EncodePacket(p)[1] # Separator
    BY <1>1, <1>3
  <2> QED
    BY PacketStarts
<1>5. texts \in [1 .. n -> Text]
  BY <1>2, <1>4
<1> HIDE DEF texts, n
<1>6. texts \in Seq(Text) /\ Len(texts) = n /\ DOMAIN texts = 1 .. n
  BY <1>1, <1>5, FunctionIsSeq
<1>7. texts # <<>>
  BY <1>1, <1>6
<1>8. DecodePayload(EncodePayload(texts)) = read
  BY <1>4, <1>6, <1>7, PayloadPackets
<1>9. Len(read) = n /\ \A i \in 1 .. n : read[i] = DecodePacket(texts[i])
  <2> DEFINE W == {DecodePacket(texts[i]) : i \in 1 .. n}
  <2>1. read = [i \in 1 .. n |-> DecodePacket(texts[i])]
    BY <1>6
  <2>2. read \in [1 .. n -> W] /\ \A i \in 1 .. n : read[i] = DecodePacket(texts[i])
    BY <2>1
  <2> HIDE DEF read, W
  <2> QED
    BY <1>1, <2>2, FunctionIsSeq
<1> HIDE DEF read
<1>10. ASSUME NEW i \in 1 .. n, Legible(packets[i])
       PROVE  read[i] = packets[i]
  BY <1>1, <1>3, <1>9, <1>10, PacketRoundTrip
<1> QED
  BY <1>1, <1>8, <1>9, <1>10 DEF texts, n

(***************************************************************************)
(* The server's parser.                                                    *)
(***************************************************************************)

(* Digits without a sign are a number, and it is what parseInt returns.    *)
LEMMA ParsedDigits ==
  ASSUME NEW s \in Seq(Digit), s # <<>>
  PROVE  ~NotANumber(s) /\ ParseInt(s) = Number(s)
<1>1. Len(s) \in Nat /\ Len(s) # 0 /\ DOMAIN s = 1 .. Len(s)
  BY LenProperties, EmptySeq
<1>2. \A i \in 1 .. Len(s) : s[i] \in Digit
  BY ElementOfSeq
<1>3. s[1] # Plus
  BY <1>1, <1>2 DEF Digit, Plus
<1>4. Unsigned(s) = s
  BY <1>3 DEF Unsigned
<1>5. AllDigits(s)
  BY <1>1, <1>2 DEF AllDigits
<1> QED
  BY <1>4, <1>5 DEF NotANumber, ParseInt

(* What parseInt returns is a natural number, as no text has a minus.      *)
LEMMA ParseIntIsNat ==
  ASSUME NEW s \in Text, ~NotANumber(s)
  PROVE  ParseInt(s) \in Nat
<1> DEFINE u == Unsigned(s)
<1>1. u \in Text
  <2>1. s # <<>> => Tail(s) \in Text
    BY HeadTailProperties DEF Text
  <2> QED
    BY <2>1 DEF Unsigned
<1>2. AllDigits(u)
  BY DEF NotANumber
<1>3. ParseInt(s) = Number(u)
  BY DEF ParseInt
<1> HIDE DEF u
<1>4. u \in Seq(Digit) /\ 0 \in Digit
  BY <1>1, <1>2, DigitsOnly DEF Digit
<1> QED
  BY <1>3, <1>4, NumberOfDigits

(* Where the server looks, from a place on: the end of a length, the       *)
(* length, and where the frame starts and ends.                            *)
Framed(s, o) == At(s, o) = Separator
LengthTo(s, o) == IndexFrom(s, Separator, o + 1)
LengthOf(s, o) == Substring(s, o + 1, LengthTo(s, o))
Unreadable(s, o) ==
  Framed(s, o) /\ (LengthTo(s, o) = -1 \/ NotANumber(LengthOf(s, o)))
FrameStart(s, o) == IF Framed(s, o) THEN LengthTo(s, o) + 1 ELSE o
FrameEnd(s, o) ==
  IF Framed(s, o) THEN FrameStart(s, o) + ParseInt(LengthOf(s, o)) ELSE Len(s)
HeadAt(s, o) == FrameAt(s, FrameStart(s, o), FrameEnd(s, o))

Result(frames) == [frames |-> frames, threw |-> FALSE]

(* The frames that the server reads, from each place on.                   *)
Served(s) ==
  LET from[start \in 0 .. Len(s)] ==
        LET framed == At(s, start) = Separator
            lengthEnd == IndexFrom(s, Separator, start + 1)
            length == Substring(s, start + 1, lengthEnd)
            first == IF framed THEN lengthEnd + 1 ELSE start
            messageEnd == IF framed THEN first + ParseInt(length) ELSE Len(s)
            head == FrameAt(s, first, messageEnd)
            rest == from[messageEnd]
        IN
        IF start = Len(s) THEN [frames |-> <<>>, threw |-> FALSE]
        ELSE IF framed /\ (lengthEnd = -1 \/ NotANumber(length)) THEN Exception
        ELSE IF head.threw \/ head.frames = <<>> THEN head
        ELSE IF rest.threw THEN rest
        ELSE [rest EXCEPT !.frames = head.frames \o @]
  IN  from

(* A length ends after the place from which it is looked for.              *)
LEMMA LengthToIs ==
  ASSUME NEW s \in Text, NEW o \in 0 .. Len(s) - 1
  PROVE  /\ Len(s) \in Nat /\ LengthTo(s, o) \in Int
         /\ LengthTo(s, o) = IF LengthEnd(s, o + 2) > Len(s) THEN -1
                             ELSE LengthEnd(s, o + 2) - 1
         /\ LengthTo(s, o) # -1 =>
              LengthTo(s, o) \in Nat /\ LengthTo(s, o) >= o + 1 /\ LengthTo(s, o) < Len(s)
<1>1. Len(s) \in Nat /\ s \in Seq(Character)
  BY LenProperties DEF Text
<1>2. o + 2 \in Nat /\ o + 2 <= Len(s) + 1 /\ o + 1 + 1 = o + 2
  BY <1>1
<1> DEFINE j == NextOf(s, Separator, o + 2)
<1>3. j \in o + 2 .. Len(s) + 1
  BY <1>1, <1>2, NextOfIsNext DEF IsNext
<1>4. LengthTo(s, o) = IF j > Len(s) THEN -1 ELSE j - 1
  BY <1>2 DEF LengthTo, IndexFrom
<1>5. LengthEnd(s, o + 2) = j
  BY DEF LengthEnd
<1> HIDE DEF j
<1> QED
  BY <1>1, <1>3, <1>4, <1>5

(* What is left of the payload when a frame has been read is shorter.      *)
LEMMA FrameEnds ==
  ASSUME NEW s \in Text, NEW o \in 0 .. Len(s) - 1,
         ~Unreadable(s, o), ~HeadAt(s, o).threw
  PROVE  FrameEnd(s, o) \in Nat /\ FrameEnd(s, o) > o /\ FrameEnd(s, o) <= Len(s)
<1>1. Len(s) \in Nat /\ s \in Seq(Character) /\ o \in Nat /\ o < Len(s)
  BY LenProperties DEF Text
<1>2. CASE Framed(s, o)
  <2> DEFINE e == LengthTo(s, o)
             u == LengthOf(s, o)
             a == e + 1
             b == FrameEnd(s, o)
  <2>1. e \in Nat /\ e >= o + 1 /\ e < Len(s) /\ ~NotANumber(u)
    BY <1>2, LengthToIs DEF Unreadable
  <2>2. u = SubSeq(s, o + 2, e)
    <3>1. o + 1 + 1 = o + 2
      BY <1>1
    <3> QED
      BY <3>1 DEF LengthOf, Substring
  <2> HIDE DEF e, u
  <2>3. u \in Text
    <3>1. o + 2 \in Nat /\ o + 2 >= 1 /\ o + 2 - 1 <= e /\ e <= Len(s)
      BY <1>1, <2>1
    <3> QED
      BY <1>1, <2>1, <2>2, <3>1, Part DEF Text
  <2>4. ParseInt(u) \in Nat
    BY <2>1, <2>3, ParseIntIsNat
  <2>5. b = a + ParseInt(u)
    BY <1>2 DEF FrameEnd, FrameStart, e, u
  <2> HIDE DEF b
  <2>6. b \in Nat /\ b > o
    BY <1>1, <2>1, <2>4, <2>5
  <2>7. ~(b > Len(s))
    BY DEF HeadAt, FrameAt, OutOfBounds, Exception, b
  <2> QED
    BY <1>1, <2>6, <2>7 DEF b
<1>3. CASE ~Framed(s, o)
  BY <1>1, <1>3 DEF FrameEnd
<1> QED
  BY <1>2, <1>3


(* The server reads one frame after the other, until one cannot be read.   *)
LEMMA ServedIs ==
  ASSUME NEW s \in Text, NEW o \in 0 .. Len(s)
  PROVE  /\ o = Len(s) => Served(s)[o] = Result(<<>>)
         /\ /\ o # Len(s) /\ ~Unreadable(s, o)
            /\ ~HeadAt(s, o).threw /\ HeadAt(s, o).frames # <<>>
            /\ ~Served(s)[FrameEnd(s, o)].threw
            => Served(s)[o] =
                 [Served(s)[FrameEnd(s, o)]
                    EXCEPT !.frames = HeadAt(s, o).frames \o @]
<1> DEFINE D == 0 .. Len(s)
           Stops(k) == \/ k = Len(s) \/ Unreadable(s, k)
                       \/ HeadAt(s, k).threw \/ HeadAt(s, k).frames = <<>>
           last(k) == IF k = Len(s) THEN Result(<<>>)
                      ELSE IF Unreadable(s, k) THEN Exception
                      ELSE HeadAt(s, k)
           joined(k, v) == IF v.threw THEN v
                           ELSE [v EXCEPT !.frames = HeadAt(s, k).frames \o @]
           W == UNION {{HeadAt(s, k).frames[i] : i \in DOMAIN HeadAt(s, k).frames} : k \in D}
           V == [frames : Seq(W), threw : BOOLEAN]
           measure == [k \in D |-> Len(s) - k]
           base == {k \in D : Stops(k)}
           firsts == [k \in D |-> IF k \in base THEN last(k) ELSE Result(<<>>)]
           before == [k \in D |-> IF k \in base THEN k ELSE FrameEnd(s, k)]
           step == [kv \in D \X V |-> joined(kv[1], kv[2])]
           from[k \in D] ==
             IF k = Len(s) THEN Result(<<>>)
             ELSE IF Unreadable(s, k) THEN Exception
             ELSE IF HeadAt(s, k).threw \/ HeadAt(s, k).frames = <<>> THEN HeadAt(s, k)
             ELSE IF from[FrameEnd(s, k)].threw THEN from[FrameEnd(s, k)]
             ELSE [from[FrameEnd(s, k)] EXCEPT !.frames = HeadAt(s, k).frames \o @]
<1>1. Len(s) \in Nat
  BY LenProperties DEF Text
<1>2. ASSUME NEW k \in D, k \notin base
      PROVE  FrameEnd(s, k) \in D /\ FrameEnd(s, k) > k
  <2>1. k \in 0 .. Len(s) - 1 /\ ~Unreadable(s, k) /\ ~HeadAt(s, k).threw
    BY <1>1, <1>2
  <2>2. FrameEnd(s, k) \in Nat /\ FrameEnd(s, k) > k /\ FrameEnd(s, k) <= Len(s)
    BY <2>1, FrameEnds
  <2> QED
    BY <1>1, <2>2
<1>3. Descends(D, measure, base, before)
  <2>1. \A k \in D : before[k] \in D
    <3> HIDE DEF base
    <3> QED
      BY <1>2
  <2>2. measure \in [D -> Nat]
    BY <1>1
  <2>3. \A k \in D \ base : measure[before[k]] < measure[k]
    <3> SUFFICES ASSUME NEW k \in D, k \notin base
                 PROVE  measure[before[k]] < measure[k]
      OBVIOUS
    <3>1. before[k] = FrameEnd(s, k) /\ before[k] \in D /\ before[k] > k
      BY <1>2
    <3>2. measure[before[k]] = Len(s) - before[k] /\ measure[k] = Len(s) - k
      BY <3>1
    <3> HIDE DEF measure, before, base
    <3> QED
      BY <1>1, <3>1, <3>2
  <2> QED
    BY <2>1, <2>2, <2>3 DEF Descends
<1>4. ASSUME NEW k \in D
      PROVE  HeadAt(s, k) \in V
  <2> DEFINE h == HeadAt(s, k)
             f == Frame(At(s, FrameStart(s, k)),
                        Substring(s, IndexFrom(s, Colon, IndexFrom(s, Colon, FrameStart(s, k) + 2) + 1) + 1,
                                  FrameEnd(s, k)))
  <2>1. \/ h = Exception \/ h = Result(<<>>)
        \/ h = Result(<<f>>)
    <3> HIDE DEF f
    <3>1. h = FrameAt(s, FrameStart(s, k), FrameEnd(s, k))
      BY DEF HeadAt
    <3> QED
      BY <3>1 DEF FrameAt, Result, f
  <2> HIDE DEF f
  <2>2. h.threw \in BOOLEAN /\ h = [frames |-> h.frames, threw |-> h.threw]
        /\ (h.frames = <<>> \/ h.frames = <<f>>)
    <3> HIDE DEF h
    <3>1. CASE h = Exception
      BY <3>1 DEF Exception
    <3>2. CASE h = Result(<<>>)
      BY <3>2 DEF Result
    <3>3. CASE h = Result(<<f>>)
      BY <3>3 DEF Result
    <3> QED
      BY <2>1, <3>1, <3>2, <3>3
  <2>3. \A i \in DOMAIN h.frames : h.frames[i] \in W
    OBVIOUS
  <2> HIDE DEF h, W
  <2>4. h.frames \in Seq(W)
    <3>1. CASE h.frames = <<>>
      BY <3>1, EmptySeq
    <3>2. CASE h.frames = <<f>>
      <4>1. 1 \in DOMAIN <<f>> /\ <<f>>[1] = f
        OBVIOUS
      <4>2. f \in W
        BY <2>3, <3>2, <4>1
      <4> QED
        BY <3>2, <4>2
    <3> QED
      BY <2>2, <3>1, <3>2
  <2> QED
    BY <2>2, <2>4 DEF h
<1>5. firsts \in [D -> V]
  <2>1. Exception \in V /\ Result(<<>>) \in V
    <3> HIDE DEF W
    <3>1. <<>> \in Seq(W)
      BY EmptySeq
    <3> QED
      BY <3>1 DEF Exception, Result
  <2> HIDE DEF V, base
  <2> QED
    BY <1>4, <2>1
<1>6. step \in [D \X V -> V]
  <2>1. ASSUME NEW k \in D, NEW v \in V
        PROVE  joined(k, v) \in V
    <3>1. HeadAt(s, k).frames \in Seq(W) /\ v.frames \in Seq(W)
      BY <1>4
    <3> HIDE DEF W
    <3>2. HeadAt(s, k).frames \o v.frames \in Seq(W)
      BY <3>1, ConcatProperties
    <3> QED
      BY <3>2
  <2> HIDE DEF V, joined
  <2> QED
    BY <2>1
<1>7. PICK g \in [D -> V] : Recurs(g, D, base, firsts, before, step)
  <2> HIDE DEF D, V, measure, base, firsts, before, step
  <2> QED
    BY <1>3, <1>5, <1>6, Recursion
<1> DEFINE Body(f, k) ==
             IF k = Len(s) THEN Result(<<>>)
             ELSE IF Unreadable(s, k) THEN Exception
             ELSE IF HeadAt(s, k).threw \/ HeadAt(s, k).frames = <<>> THEN HeadAt(s, k)
             ELSE IF f[FrameEnd(s, k)].threw THEN f[FrameEnd(s, k)]
             ELSE [f[FrameEnd(s, k)] EXCEPT !.frames = HeadAt(s, k).frames \o @]
<1>8. g = [k \in D |-> Body(g, k)]
  <2>1. g = [k \in D |-> g[k]]
    OBVIOUS
  <2>2. ASSUME NEW k \in D
        PROVE  g[k] = Body(g, k)
    <3>1. g[k] = IF k \in base THEN firsts[k] ELSE step[<<k, g[before[k]]>>]
      <4> HIDE DEF base, firsts, step, before
      <4> QED
        BY <1>7 DEF Recurs
    <3>2. CASE k \in base
      <4>1. g[k] = last(k) /\ Stops(k)
        <5> HIDE DEF last, Stops, step, before
        <5> QED
          BY <3>1, <3>2
      <4> HIDE DEF base, D, V
      <4> QED
        BY <4>1
    <3>3. CASE k \notin base
      <4>1. before[k] = FrameEnd(s, k) /\ ~Stops(k) /\ before[k] \in D
        <5> HIDE DEF Stops
        <5> QED
          BY <1>2, <3>3
      <4>2. g[before[k]] \in V
        BY <4>1
      <4>3. step[<<k, g[before[k]]>>] = joined(k, g[before[k]])
        <5> HIDE DEF joined, V, before
        <5> QED
          BY <4>2
      <4>4. g[k] = joined(k, g[FrameEnd(s, k)])
        <5> HIDE DEF joined, V, before, step, base, Stops
        <5> QED
          BY <3>1, <3>3, <4>1, <4>3
      <4> HIDE DEF base, D, V, before, step
      <4> QED
        BY <4>1, <4>4
    <3> QED
      BY <3>2, <3>3
  <2> HIDE DEF Body
  <2> QED
    BY <2>1, <2>2
<1>9. from = [k \in D |-> Body(from, k)]
  BY <1>8
<1>10. Served(s) = from
  BY DEF Served, Result, Unreadable, Framed, LengthTo, LengthOf, HeadAt, FrameStart, FrameEnd
<1> HIDE DEF from
<1>11. Served(s)[o] = Body(Served(s), o)
  <2> HIDE DEF Body
  <2> QED
    BY <1>9, <1>10
<1> QED
  BY <1>11


(* What the server reads of a packet.                                      *)
FrameOf(p) == Frame(IndexOf(Types, p.type), Tail(Data(p)))

(* It reads that wherever the packet stands in a payload.                  *)
LEMMA PacketServed ==
  ASSUME NEW p, IsPacket(p), Readable(p),
         NEW s \in Text, NEW a \in Nat, NEW m, m = EncodePacket(p),
         a + Len(m) <= Len(s), \A i \in 1 .. Len(m) : s[a + i] = m[i]
  PROVE  FrameAt(s, a, a + Len(m)) = Result(<<FrameOf(p)>>)
<1> DEFINE t == IndexOf(Types, p.type)
           id == IdOf(p)
           e == p.endpoint
           d == Data(p)
           l == Len(id)
           k == l + 3
           x == k + Len(e)
           n == Len(m)
<1>1. /\ t \in 0 .. 8 /\ Parts(t, id, <<>>, e, d)
      /\ m = Joint(t, id, <<>>, e, d) /\ d # <<>>
  <2>1. PlusOf(p) = <<>>
    BY DEF Readable, PlusOf
  <2> QED
    BY <2>1, EncodedParts DEF Readable
<1>2. Free(e)
  BY FreeEndpoint DEF Readable
<1> HIDE DEF t, id, e, d
<1>3. LaidOut(m, k, t, id, <<>>, e, d)
  <2>1. Len(<<>>) = 0
    BY EmptySeq
  <2>2. l \in Nat
    BY <1>1, LenProperties DEF Parts
  <2> HIDE DEF l
  <2>3. k = l + Len(<<>>) + 3
    BY <2>1, <2>2
  <2> HIDE DEF k
  <2> QED
    BY <1>1, <2>3, Layout DEF l
<1>4. /\ l \in Nat /\ Len(e) \in Nat /\ Len(d) \in Nat /\ n \in Nat
      /\ n = x + Len(d)
      /\ m[1] = t /\ m[2] = Colon /\ m[k] = Colon
      /\ \A i \in 1 .. l : m[2 + i] = id[i]
      /\ \A i \in 1 .. Len(e) : m[k + i] = e[i]
      /\ \A i \in 1 .. Len(d) : m[x + i] = d[i]
  <2>1. n \in Nat
    BY <1>3, LenProperties DEF LaidOut, Text
  <2> QED
    BY <1>3, <2>1 DEF LaidOut
<1>5. /\ Len(d) >= 1 /\ d[1] = Colon /\ d \in Seq(Character) /\ Tail(d) \in Seq(Character)
      /\ Len(Tail(d)) = Len(d) - 1 /\ \A i \in 1 .. Len(d) - 1 : Tail(d)[i] = d[i + 1]
  <2>1. d \in Seq(Character) /\ d[1] = Colon
    BY <1>1 DEF Parts, Text
  <2>2. Len(d) # 0
    BY <1>1, <2>1, EmptySeq
  <2>3. /\ Tail(d) \in Seq(Character) /\ Len(Tail(d)) = Len(d) - 1
        /\ \A i \in 1 .. Len(Tail(d)) : Tail(d)[i] = d[i + 1]
    BY <1>1, <2>1, HeadTailProperties
  <2> QED
    BY <1>4, <2>1, <2>2, <2>3
<1>6. Len(s) \in Nat /\ s \in Seq(Character) /\ a + n <= Len(s)
  BY LenProperties DEF Text
<1>7. \A i \in 1 .. n : s[a + i] = m[i]
  OBVIOUS
<1> HIDE DEF l, n
<1>8. At(s, a) = t /\ ~NotANumber(<<t>>)
  <2>1. 1 \in 1 .. n
    BY <1>4, <1>5
  <2>2. <<t>> \in Seq(Digit) /\ <<t>> # <<>>
    BY <1>1 DEF Digit
  <2>3. At(s, a) = t
    BY <1>4, <1>7, <2>1 DEF At
  <2> QED
    BY <2>2, <2>3, ParsedDigits
<1>9. IndexFrom(s, Colon, a + 2) = a + k - 1
  <2> DEFINE j == a + k
             i0 == a + 2 + 1
  <2>1. j \in Nat /\ i0 \in Nat /\ j \in i0 .. Len(s) + 1 /\ j <= Len(s)
    BY <1>4, <1>5, <1>6
  <2>2. s[j] = Colon
    <3>1. k \in 1 .. n
      BY <1>4, <1>5
    <3> QED
      BY <1>4, <1>7, <3>1
  <2>3. ASSUME NEW h \in i0 .. j - 1
        PROVE  s[h] # Colon
    <3> DEFINE i == h - a - 2
    <3>1. i \in 1 .. l /\ 2 + i \in 1 .. n /\ a + (2 + i) = h
      BY <1>4, <1>5
    <3>2. s[h] = id[i]
      BY <1>4, <1>7, <3>1
    <3>3. id[i] \in Digit
      BY <1>1, <3>1, ElementOfSeq DEF Parts, l
    <3> QED
      BY <3>2, <3>3 DEF Digit, Colon
  <2> HIDE DEF j, i0
  <2>4. NextOf(s, Colon, i0) = j
    <3>1. IsNext(s, Colon, i0, j)
      BY <2>1, <2>2, <2>3 DEF IsNext
    <3> QED
      BY <1>6, <2>1, <3>1, NextIs
  <2>5. ~(j > Len(s))
    BY <1>6, <2>1
  <2>6. IndexFrom(s, Colon, a + 2) = j - 1
    BY <2>4, <2>5 DEF IndexFrom, i0
  <2>7. j - 1 = a + k - 1
    BY <1>4 DEF j
  <2> QED
    BY <2>6, <2>7
<1>10. IndexFrom(s, Colon, a + k - 1 + 1) = a + x
  <2> DEFINE j == a + x + 1
             i0 == a + k - 1 + 1 + 1
  <2>1. j \in Nat /\ i0 \in Nat /\ j \in i0 .. Len(s) + 1 /\ j <= Len(s) /\ j - 1 = a + x
    BY <1>4, <1>5, <1>6
  <2>2. s[j] = Colon
    <3>1. x + 1 \in 1 .. n /\ 1 \in 1 .. Len(d) /\ a + (x + 1) = j
      BY <1>4, <1>5
    <3> QED
      BY <1>4, <1>5, <1>7, <3>1
  <2>3. ASSUME NEW h \in i0 .. j - 1
        PROVE  s[h] # Colon
    <3> DEFINE i == h - a - k
    <3>1. i \in 1 .. Len(e) /\ k + i \in 1 .. n /\ a + (k + i) = h
      BY <1>4, <1>5
    <3>2. s[h] = e[i]
      BY <1>4, <1>7, <3>1
    <3>3. e[i] # Colon
      BY <1>2, <3>1 DEF Free
    <3> QED
      BY <3>2, <3>3
  <2> HIDE DEF j, i0
  <2>4. NextOf(s, Colon, i0) = j
    <3>1. IsNext(s, Colon, i0, j)
      BY <2>1, <2>2, <2>3 DEF IsNext
    <3> QED
      BY <1>6, <2>1, <3>1, NextIs
  <2>5. ~(j > Len(s))
    BY <1>6, <2>1
  <2>6. IndexFrom(s, Colon, a + k - 1 + 1) = j - 1
    BY <2>4, <2>5 DEF IndexFrom, i0
  <2> QED
    BY <2>1, <2>6
<1>11. ASSUME NEW z \in Int, z = a + k - 1, z - (a + 2) > 1
       PROVE  ~NotANumber(Substring(s, a + 3, z))
  <2>1. l > 1
    BY <1>4, <1>11
  <2>2. id \in Seq(Digit) /\ id # <<>>
    BY <1>1, <1>4, <2>1, EmptySeq DEF Parts, l
  <2>3. /\ Tail(id) \in Seq(Digit) /\ Len(Tail(id)) = l - 1
        /\ \A i \in 1 .. Len(Tail(id)) : Tail(id)[i] = id[i + 1]
    BY <2>2, HeadTailProperties DEF l
  <2> DEFINE u == Tail(id)
  <2> HIDE DEF u
  <2>4. u # <<>>
    <3>1. Len(u) = l - 1
      BY <2>3 DEF u
    <3>2. Len(u) # 0
      BY <1>4, <2>1, <3>1
    <3> QED
      BY <3>2, EmptySeq
  <2>5. u \in Seq(Character) /\ a + 3 \in Nat /\ a + 3 + Len(u) <= Len(s)
        /\ a + 3 + Len(u) = z
    <3>1. Digit \subseteq Character
      BY DEF Digit, Character
    <3>2. u \in Seq(Character)
      BY <2>3, <3>1, SeqMonotonic DEF u
    <3>3. Len(u) = l - 1
      BY <2>3 DEF u
    <3> QED
      BY <1>4, <1>5, <1>6, <1>11, <2>1, <3>2, <3>3
  <2>6. ASSUME NEW i \in 1 .. Len(u)
        PROVE  s[a + 3 + i] = u[i]
    <3>0. Len(u) = l - 1
      BY <2>3 DEF u
    <3>1. i + 1 \in 1 .. l /\ 2 + (i + 1) \in 1 .. n /\ a + (2 + (i + 1)) = a + 3 + i
      BY <1>4, <1>5, <2>1, <3>0
    <3>2. s[a + 3 + i] = id[i + 1]
      BY <1>4, <1>7, <3>1
    <3>3. u[i] = id[i + 1]
      BY <2>3 DEF u
    <3> QED
      BY <3>2, <3>3
  <2>7. SubSeq(s, a + 3 + 1, a + 3 + Len(u)) = u
    BY <1>6, <2>5, <2>6, PartIs
  <2>8. Substring(s, a + 3, z) = u
    BY <2>5, <2>7 DEF Substring
  <2> QED
    BY <2>3, <2>4, <2>8, ParsedDigits DEF u
<1>12. Substring(s, a + x + 1, a + n) = Tail(d)
  <2> DEFINE u == Tail(d)
  <2> HIDE DEF u
  <2>1. /\ u \in Seq(Character) /\ a + x + 1 \in Nat /\ Len(u) = Len(d) - 1
        /\ a + x + 1 + Len(u) <= Len(s) /\ a + x + 1 + Len(u) = a + n
    <3>1. u \in Seq(Character) /\ Len(u) = Len(d) - 1
      BY <1>5 DEF u
    <3> QED
      BY <1>4, <1>5, <1>6, <3>1
  <2>2. ASSUME NEW i \in 1 .. Len(u)
        PROVE  s[a + x + 1 + i] = u[i]
    <3>1. /\ i + 1 \in 1 .. Len(d) /\ x + (i + 1) \in 1 .. n
          /\ a + (x + (i + 1)) = a + x + 1 + i
      BY <1>4, <1>5, <2>1
    <3>2. s[a + x + 1 + i] = d[i + 1]
      BY <1>4, <1>7, <3>1
    <3>3. u[i] = d[i + 1]
      BY <1>5, <2>1 DEF u
    <3> QED
      BY <3>2, <3>3
  <2>3. SubSeq(s, a + x + 1 + 1, a + x + 1 + Len(u)) = u
    BY <1>6, <2>1, <2>2, PartIs
  <2> QED
    BY <2>1, <2>3 DEF Substring, u
<1>13. /\ ~OutOfBounds(s, a, a + 1) /\ ~OutOfBounds(s, a + x + 1, a + n)
       /\ ~(t > 8)
  BY <1>1, <1>4, <1>5, <1>6 DEF OutOfBounds
<1> HIDE DEF k, x
<1>14. FrameAt(s, a, a + n) = Result(<<Frame(t, Tail(d))>>)
  <2> DEFINE idEnd == IndexFrom(s, Colon, a + 2)
             endpointEnd == IndexFrom(s, Colon, idEnd + 1)
             b == a + n
  <2>1. FrameAt(s, a, b) =
          IF \/ OutOfBounds(s, a, a + 1) \/ NotANumber(<<At(s, a)>>)
             \/ idEnd - (a + 2) > 1 /\ NotANumber(Substring(s, a + 3, idEnd))
             \/ OutOfBounds(s, endpointEnd + 1, b)
          THEN Exception
          ELSE IF At(s, a) > 8 THEN [frames |-> <<>>, threw |-> FALSE]
          ELSE [frames |-> <<Frame(At(s, a), Substring(s, endpointEnd + 1, b))>>,
                threw |-> FALSE]
    BY DEF FrameAt
  <2>2. idEnd = a + k - 1 /\ endpointEnd = a + x
    BY <1>9, <1>10
  <2> HIDE DEF idEnd, endpointEnd
  <2>3. /\ ~(idEnd - (a + 2) > 1 /\ NotANumber(Substring(s, a + 3, idEnd)))
        /\ ~OutOfBounds(s, endpointEnd + 1, b) /\ ~OutOfBounds(s, a, a + 1)
        /\ Substring(s, endpointEnd + 1, b) = Tail(d)
        /\ At(s, a) = t /\ ~NotANumber(<<At(s, a)>>) /\ ~(At(s, a) > 8)
    <3>1. ~(idEnd - (a + 2) > 1 /\ NotANumber(Substring(s, a + 3, idEnd)))
      <4>1. idEnd \in Int /\ idEnd = a + k - 1
        BY <1>4, <2>2 DEF k
      <4> QED
        BY <1>11, <4>1
    <3>2. ~OutOfBounds(s, endpointEnd + 1, b) /\ Substring(s, endpointEnd + 1, b) = Tail(d)
      BY <1>12, <1>13, <2>2
    <3>3. ~OutOfBounds(s, a, a + 1) /\ At(s, a) = t /\ ~NotANumber(<<At(s, a)>>)
      BY <1>8, <1>13
    <3>4. ~(At(s, a) > 8)
      BY <1>13, <3>3
    <3> QED
      BY <3>1, <3>2, <3>3, <3>4
  <2> HIDE DEF b
  <2>4. FrameAt(s, a, b) = [frames |-> <<Frame(t, Tail(d))>>, threw |-> FALSE]
    BY <2>1, <2>3
  <2> QED
    BY <2>4 DEF Result, b
<1> QED
  BY <1>14 DEF n, t, d, FrameOf


(* A text stands in another one, from a place on.                          *)
Stands(s, o, b) ==
  o + Len(b) <= Len(s) /\ \A i \in 1 .. Len(b) : s[o + i] = b[i]

(* A frame in a payload starts after its length, and ends where it says.   *)
LEMMA BlockServed ==
  ASSUME NEW s \in Text, NEW m \in Text, NEW o \in Nat,
         NEW b, b = Block(m), Stands(s, o, b),
         NEW p, IsPacket(p), Readable(p), m = EncodePacket(p)
  PROVE  /\ o \in 0 .. Len(s) /\ o # Len(s) /\ ~Unreadable(s, o)
         /\ FrameEnd(s, o) = o + Len(b)
         /\ HeadAt(s, o) = Result(<<FrameOf(p)>>)
<1> DEFINE a == LengthEnd(s, o + 2)
           id == Decimal(Len(m))
<1>0. o + Len(b) <= Len(s) /\ \A i \in 1 .. Len(b) : s[o + i] = b[i]
  BY DEF Stands
<1>1. /\ Len(m) \in Nat /\ Len(b) \in Nat /\ Len(b) >= 2 /\ b[1] = Separator
      /\ Len(s) \in Nat
  <2>1. /\ Len(m) \in Nat /\ Len(id) \in Nat /\ b[1] = Separator
        /\ Len(b) = Len(id) + 2 + Len(m)
    BY BlockIs
  <2>2. Len(s) \in Nat
    BY LenProperties DEF Text
  <2> HIDE DEF id
  <2> QED
    BY <2>1, <2>2
<1>2. o \in 0 .. Len(s) - 1 /\ o \in 0 .. Len(s) /\ o # Len(s)
  BY <1>0, <1>1
<1>3. Framed(s, o)
  <2>1. 1 \in 1 .. Len(b)
    BY <1>1
  <2> QED
    BY <1>0, <1>1, <2>1 DEF Framed, At
<1>4. /\ ~(a > Len(s)) /\ LengthAt(s, o + 2) = id
      /\ a >= o + 2 /\ a + Len(m) = o + Len(b)
      /\ \A i \in 1 .. Len(m) : s[a + i] = m[i]
  BY <1>0, BlockRead, SMTT(60)
<1>5. /\ id \in Seq(Digit) /\ id # <<>> /\ Number(id) = Len(m)
  BY <1>1, DecimalDigits, NumberOfDecimal
<1>6. ~NotANumber(id) /\ ParseInt(id) = Len(m)
  BY <1>5, ParsedDigits
<1>7. LengthTo(s, o) = a - 1
  BY <1>2, <1>4, LengthToIs
<1>8. a \in Nat
  <2>1. s \in Seq(Character) /\ o + 2 \in Nat /\ o + 2 <= Len(s) + 1
    BY <1>0, <1>1 DEF Text
  <2> QED
    BY <1>1, <2>1, NextOfIsNext DEF LengthEnd, IsNext
<1>9. LengthOf(s, o) = id
  <2>1. o + 1 + 1 = o + 2
    OBVIOUS
  <2>2. LengthOf(s, o) = SubSeq(s, o + 2, a - 1)
    BY <1>7, <2>1 DEF LengthOf, Substring
  <2> QED
    BY <1>4, <2>2 DEF LengthAt
<1> HIDE DEF a, id
<1>10. ~Unreadable(s, o)
  <2>1. a - 1 # -1
    BY <1>4, <1>8
  <2> QED
    BY <1>6, <1>7, <1>9, <2>1 DEF Unreadable
<1>11. FrameStart(s, o) = a
  <2>1. a - 1 + 1 = a
    BY <1>8
  <2> QED
    BY <1>3, <1>7, <2>1 DEF FrameStart
<1>12. FrameEnd(s, o) = a + Len(m)
  BY <1>3, <1>6, <1>9, <1>11 DEF FrameEnd
<1>13. HeadAt(s, o) = Result(<<FrameOf(p)>>)
  <2>1. a + Len(m) <= Len(s)
    BY <1>0, <1>4
  <2>2. FrameAt(s, a, a + Len(m)) = Result(<<FrameOf(p)>>)
    BY <1>4, <1>8, <2>1, PacketServed
  <2> QED
    BY <1>11, <1>12, <2>2 DEF HeadAt
<1> QED
  BY <1>2, <1>4, <1>10, <1>12, <1>13

(* A frame is the first of the frames that are read from where it starts.  *)
LEMMA OneServed ==
  ASSUME NEW s \in Text, NEW o \in 0 .. Len(s), o # Len(s), ~Unreadable(s, o),
         NEW f, HeadAt(s, o) = Result(<<f>>),
         NEW frames, Served(s)[FrameEnd(s, o)] = Result(frames)
  PROVE  Served(s)[o] = Result(<<f>> \o frames)
<1> DEFINE h == HeadAt(s, o)
           r == Served(s)[FrameEnd(s, o)]
<1>1. ~h.threw /\ h.frames = <<f>> /\ ~r.threw
  BY DEF Result
<1>2. h.frames # <<>>
  BY <1>1
<1>3. Served(s)[o] = [r EXCEPT !.frames = h.frames \o @]
  BY <1>1, <1>2, ServedIs
<1>4. r = [frames |-> frames, threw |-> FALSE]
  BY DEF Result
<1> HIDE DEF h, r
<1>5. Served(s)[o] = [frames |-> <<f>> \o frames, threw |-> FALSE]
  BY <1>1, <1>3, <1>4
<1> QED
  BY <1>5 DEF Result

(* What the server reads of a payload whose packets all have data, ask for *)
(* none and have no colon in their endpoint, are their types and their     *)
(* data, in their order.                                                   *)
THEOREM PayloadServed ==
  ASSUME NEW P, \A p \in P : IsPacket(p) /\ Readable(p),
         NEW packets \in Seq(P), packets # <<>>
  PROVE  ParseFrames(EncodePayload([i \in DOMAIN packets |->
                                      EncodePacket(packets[i])]))
           = Result([i \in DOMAIN packets |-> FrameOf(packets[i])])
<1> DEFINE n == Len(packets)
           messages == [i \in DOMAIN packets |-> EncodePacket(packets[i])]
           frames == [i \in DOMAIN packets |-> FrameOf(packets[i])]
           W == {FrameOf(p) : p \in P}
<1>1. /\ n \in Nat /\ n # 0 /\ DOMAIN packets = 1 .. n
      /\ \A i \in 1 .. n : packets[i] \in P
  BY LenProperties, EmptySeq, ElementOfSeq
<1> HIDE DEF n
<1>2. /\ messages \in Seq(Text) /\ Len(messages) = n /\ messages # <<>>
      /\ DOMAIN messages = 1 .. n
      /\ \A i \in 1 .. n : messages[i] = EncodePacket(packets[i])
  <2>1. messages = [i \in 1 .. n |-> EncodePacket(packets[i])]
    BY <1>1
  <2>2. \A i \in 1 .. n : EncodePacket(packets[i]) \in Text
    BY <1>1, EncodedText
  <2>3. messages \in [1 .. n -> Text]
    BY <2>1, <2>2
  <2>4. \A i \in 1 .. n : messages[i] = EncodePacket(packets[i])
    BY <2>1
  <2>5. DOMAIN messages = 1 .. n
    BY <2>1
  <2> HIDE DEF messages
  <2>6. messages \in Seq(Text) /\ Len(messages) = n
    BY <1>1, <2>3, FunctionIsSeq
  <2> QED
    BY <1>1, <2>4, <2>5, <2>6, EmptySeq
<1>3. /\ frames \in Seq(W) /\ Len(frames) = n
      /\ \A i \in 1 .. n : frames[i] = FrameOf(packets[i])
  <2>1. frames = [i \in 1 .. n |-> FrameOf(packets[i])]
    BY <1>1
  <2>2. frames \in [1 .. n -> W]
    BY <1>1, <2>1
  <2>3. \A i \in 1 .. n : frames[i] = FrameOf(packets[i])
    BY <2>1
  <2> HIDE DEF frames, W
  <2> QED
    BY <1>1, <2>2, <2>3, FunctionIsSeq
<1> HIDE DEF messages, frames, W
<1>4. \A i \in 1 .. n : IsPacket(packets[i]) /\ Readable(packets[i])
  BY <1>1
<1>5. CASE n = 1
  <2> DEFINE s == messages[1]
             p == packets[1]
  <2>1. 1 \in 1 .. n
    BY <1>5
  <2>2. /\ EncodePayload(messages) = s /\ s \in Text /\ s = EncodePacket(p)
        /\ IsPacket(p) /\ Readable(p)
    <3>1. EncodePayload(messages) = s
      BY <1>2, <1>5 DEF EncodePayload
    <3>2. messages[1] \in Text
      BY <1>2, <2>1, ElementOfSeq
    <3> QED
      BY <1>2, <1>4, <2>1, <3>1, <3>2
  <2>3. frames[1] = FrameOf(p)
    BY <1>3, <2>1
  <2> HIDE DEF s, p
  <2>4. Len(s) \in Nat /\ Len(s) > 0 /\ s[1] # Separator
    BY <2>2, PacketStarts
  <2>5. ~Framed(s, 0)
    <3>1. 0 + 1 = 1
      OBVIOUS
    <3> QED
      BY <2>4, <3>1 DEF Framed, At
  <2>6. FrameStart(s, 0) = 0 /\ FrameEnd(s, 0) = Len(s) /\ ~Unreadable(s, 0)
    BY <2>5 DEF FrameStart, FrameEnd, Unreadable
  <2>7. HeadAt(s, 0) = Result(<<FrameOf(p)>>)
    <3>1. 0 + Len(s) = Len(s) /\ 0 + Len(s) <= Len(s) /\ 0 \in Nat
          /\ \A i \in 1 .. Len(s) : s[0 + i] = s[i]
      BY <2>4
    <3>2. FrameAt(s, 0, 0 + Len(s)) = Result(<<FrameOf(p)>>)
      BY <2>2, <3>1, PacketServed
    <3> QED
      BY <2>6, <3>1, <3>2 DEF HeadAt
  <2>8. /\ 0 \in 0 .. Len(s) /\ 0 # Len(s) /\ Len(s) \in 0 .. Len(s)
    BY <2>4
  <2>9. Served(s)[Len(s)] = Result(<<>>)
    BY <2>2, <2>8, ServedIs
  <2>10. Served(s)[0] = Result(<<FrameOf(p)>> \o <<>>)
    <3>1. Served(s)[FrameEnd(s, 0)] = Result(<<>>)
      BY <2>6, <2>9
    <3> QED
      BY <2>2, <2>6, <2>7, <2>8, <3>1, OneServed
  <2>11. frames = <<FrameOf(p)>> \o <<>>
    <3> DEFINE one == <<FrameOf(p)>>
    <3>1. one \in Seq(W) /\ Len(one) = 1 /\ one[1] = FrameOf(p)
      <4>1. frames[1] \in W
        BY <1>3, <2>1, ElementOfSeq
      <4> QED
        BY <2>3, <4>1
    <3> HIDE DEF one
    <3>2. frames = one
      <4>1. \A i \in 1 .. Len(frames) : frames[i] = one[i]
        BY <1>3, <1>5, <2>3, <3>1
      <4> QED
        BY <1>3, <1>5, <3>1, <4>1, SeqEqual
    <3>3. one \o <<>> = one
      BY <3>1, ConcatEmptySeq
    <3> QED
      BY <3>2, <3>3 DEF one
  <2>12. ParseFrames(s) = Served(s)[0]
    BY DEF ParseFrames, Served
  <2> QED
    BY <2>2, <2>10, <2>11, <2>12 DEF messages, frames
<1>6. CASE n # 1
  <2> DEFINE blocks == Blocks(messages)
             s == FlattenSeq(blocks)
  <2>1. /\ blocks \in Seq(Text) /\ Len(blocks) = n /\ blocks # <<>>
        /\ \A i \in 1 .. n : blocks[i] = Block(messages[i])
        /\ \A i \in 1 .. n : messages[i] \in Text
    <3>1. blocks = [i \in 1 .. n |-> Block(messages[i])]
      BY <1>2 DEF Blocks
    <3>2. \A i \in 1 .. n : messages[i] \in Text
      BY <1>2, ElementOfSeq
    <3>3. \A i \in 1 .. n : Block(messages[i]) \in Text
      BY <3>2, BlockIs
    <3>4. blocks \in [1 .. n -> Text]
      BY <3>1, <3>3
    <3>5. \A i \in 1 .. n : blocks[i] = Block(messages[i])
      BY <3>1
    <3> HIDE DEF blocks
    <3>6. blocks \in Seq(Text) /\ Len(blocks) = n
      BY <1>1, <3>4, FunctionIsSeq
    <3>7. blocks # <<>>
      BY <1>1, <3>6
    <3> QED
      BY <3>2, <3>5, <3>6, <3>7
  <2>2. EncodePayload(messages) = s
    BY <1>2, <1>6 DEF EncodePayload, Blocks, Block
  <2> HIDE DEF blocks
  <2>3. PICK off : Offsets(off, blocks, s)
    BY <2>1, TextsAt
  <2> HIDE DEF s
  <2>4. /\ off \in [1 .. n + 1 -> Nat] /\ s \in Text /\ Len(s) \in Nat
        /\ off[1] = 0 /\ off[n + 1] = Len(s)
        /\ \A i \in 1 .. n :
             /\ off[i + 1] = off[i] + Len(blocks[i])
             /\ off[i + 1] <= Len(s)
             /\ \A j \in 1 .. Len(blocks[i]) : s[off[i] + j] = blocks[i][j]
    <3>1. Len(s) \in Nat
      BY <2>3, LenProperties DEF Offsets, Text
    <3> QED
      BY <2>1, <2>3, <3>1 DEF Offsets
  <2> DEFINE D == 1 .. n + 1
             T == {i \in D : Served(s)[off[i]] = Result(SubSeq(frames, i, n))}
             measure == [i \in D |-> n + 1 - i]
             before == [i \in D |-> IF i = n + 1 THEN i ELSE i + 1]
  <2>5. Descends(D, measure, {n + 1}, before)
    BY <1>1 DEF Descends
  <2>6. n + 1 \in T
    <3>1. n + 1 \in D /\ Len(s) \in 0 .. Len(s)
      BY <1>1, <2>4
    <3>2. Served(s)[Len(s)] = Result(<<>>)
      BY <2>4, <3>1, ServedIs
    <3>3. SubSeq(frames, n + 1, n) = <<>>
      <4>1. n + 1 \in Int /\ n \in Int /\ n < n + 1
        BY <1>1
      <4> QED
        BY <4>1, SubSeqEmpty
    <3> QED
      BY <2>4, <3>1, <3>2, <3>3
  <2>7. ASSUME NEW i \in D \ {n + 1}, before[i] \in T
        PROVE  i \in T
    <3> DEFINE o == off[i]
               m == messages[i]
               b == blocks[i]
               p == packets[i]
               rest == SubSeq(frames, i + 1, n)
    <3>1. /\ i \in 1 .. n /\ i + 1 \in D /\ before[i] = i + 1
          /\ n \in i .. n /\ i \in D
      BY <1>1
    <3>2. Served(s)[off[i + 1]] = Result(rest)
      BY <2>7, <3>1
    <3>3. /\ o \in Nat /\ m \in Text /\ b = Block(m)
          /\ off[i + 1] = o + Len(b) /\ o + Len(b) <= Len(s)
          /\ \A j \in 1 .. Len(b) : s[o + j] = b[j]
          /\ m = EncodePacket(p) /\ IsPacket(p) /\ Readable(p)
      BY <1>1, <1>2, <1>4, <2>1, <2>4, <3>1
    <3> HIDE DEF o, m, b, p, rest
    <3>4. /\ o \in 0 .. Len(s) /\ o # Len(s) /\ ~Unreadable(s, o)
          /\ FrameEnd(s, o) = o + Len(b)
          /\ HeadAt(s, o) = Result(<<FrameOf(p)>>)
      <4>1. Stands(s, o, b)
        BY <3>3 DEF Stands
      <4>2. /\ s \in Text /\ m \in Text /\ o \in Nat /\ b = Block(m)
            /\ IsPacket(p) /\ Readable(p) /\ m = EncodePacket(p)
        BY <2>4, <3>3
      <4> QED
        BY <4>1, <4>2, BlockServed
    <3>5. Served(s)[FrameEnd(s, o)] = Result(rest)
      BY <3>2, <3>3, <3>4
    <3>6. Served(s)[o] = Result(<<FrameOf(p)>> \o rest)
      BY <2>4, <3>4, <3>5, OneServed
    <3>7. FrameOf(p) = frames[i]
      BY <1>3, <3>1 DEF p
    <3>8. SubSeq(frames, i, n) = <<frames[i]>> \o SubSeq(frames, i + 1, n)
      BY <1>3, <3>1, SubSeqRecursiveFirst
    <3>9. Served(s)[off[i]] = Result(SubSeq(frames, i, n))
      BY <3>6, <3>7, <3>8 DEF o, rest
    <3> QED
      BY <3>1, <3>9
  <2>8. Inherits(T, D, {n + 1}, before)
    BY <2>6, <2>7 DEF Inherits
  <2>9. D \subseteq T
    <3> HIDE DEF T, D, measure, before
    <3> QED
      BY <2>5, <2>8, Descent
  <2>10. Served(s)[0] = Result(frames)
    <3>1. 1 \in D
      BY <1>1
    <3>2. Served(s)[off[1]] = Result(SubSeq(frames, 1, n))
      BY <2>9, <3>1
    <3>3. SubSeq(frames, 1, n) = frames
      BY <1>3, SubSeqFull
    <3> QED
      BY <2>4, <3>2, <3>3
  <2>11. ParseFrames(s) = Served(s)[0]
    BY DEF ParseFrames, Served
  <2> QED
    BY <2>2, <2>10, <2>11 DEF messages, frames
<1> QED
  BY <1>5, <1>6


(***************************************************************************)
(* The behaviours of the two ends.                                         *)
(***************************************************************************)

Writes == Packets(MaxText) \cup Packets(MaxShort)

(* A payload is what the client has written, and what is parsed and        *)
(* decoded is what stands in it, or in the one frame.                      *)
IInv ==
  /\ written \in Seq(Writes)
  /\ payload # NoText =>
       /\ written # <<>>
       /\ payload = EncodePayload([i \in DOMAIN written |-> EncodePacket(written[i])])
  /\ PayloadRead => decoded = DecodePayload(payload) /\ parsed = ParseFrames(payload)
  /\ frame # NoFrame =>
       /\ written = <<>> /\ payload = NoText
       /\ decoded = <<Understood(frame.type, frame.data)>>
  /\ payload = NoText /\ frame = NoFrame => decoded = <<>>

(* What is written are texts.                                              *)
LEMMA TextsAreText ==
  ASSUME NEW n \in Nat, NEW t \in Texts(n)
  PROVE  t \in Text
<1>1. PICK k \in 0 .. n : t \in [1 .. k -> {1, Colon, Plus, Separator, Mark, LineEnd}]
  BY DEF Texts
<1>2. {1, Colon, Plus, Separator, Mark, LineEnd} \subseteq Character
  BY DEF Colon, Plus, Separator, Mark, LineEnd, Character
<1>3. k \in Nat /\ t \in [1 .. k -> Character]
  BY <1>1, <1>2
<1> QED
  BY <1>3, SeqDef DEF Text

(* And packets.                                                            *)
LEMMA PacketsArePackets ==
  ASSUME NEW n \in Nat, NEW p \in Packets(n)
  PROVE  IsPacket(p)
<1>1. \A e \in Endpoints : e \in Text
  <2>1. <<>> \in Text
    BY EmptySeq DEF Text
  <2>2. <<Other, 1>> \in Text /\ <<Other, Colon, 1>> \in Text
    BY DEF Text, Other, Colon, Character
  <2> QED
    BY <2>1, <2>2 DEF Endpoints
<1>2. \A t \in Texts(n) : t \in Text
  BY TextsAreText
<1>3. \A a \in Acks : /\ a[1] \in Nat /\ a[2] \in {"none", "true", "data"}
                      /\ a[1] = 0 <=> a[2] = "none"
  BY DEF Acks
<1>4. ASSUME NEW type, NEW e \in Endpoints, NEW id, NEW ack, NEW num, NEW text,
             p = Packet(type, e, id, ack, num, text),
             id \in Nat /\ ack \in {"none", "true", "data"} /\ (id = 0 <=> ack = "none"),
             \/ type \in {"message", "connect", "json"} /\ num = 0 /\ text \in Text
             \/ type = "event" /\ num \in Character /\ text \in Text
             \/ type = "ack" /\ num \in Nat /\ text \in Text
             \/ type = "error" /\ num \in 0 .. NoReason /\ text \in {<<>>, Reconnect}
             \/ type \in {"disconnect", "heartbeat"} /\ num = 0 /\ text = <<>>
      PROVE  IsPacket(p)
  <2>1. /\ p.type = type /\ p.endpoint = e /\ p.id = id /\ p.ack = ack
        /\ p.num = num /\ p.text = text
    BY <1>4 DEF Packet
  <2> QED
    BY <1>1, <1>4, <2>1 DEF IsPacket
<1>5. 0 \in Nat /\ "none" \in {"none", "true", "data"} /\ (0 = 0 <=> "none" = "none")
  OBVIOUS
<1>6. CASE \E type \in {"message", "json"}, e \in Endpoints, t \in Texts(n), a \in Acks :
             p = Packet(type, e, a[1], a[2], 0, t)
  BY <1>2, <1>3, <1>4, <1>6
<1>7. CASE \E e \in Endpoints, t \in Texts(n), a \in Acks :
             p = Packet("event", e, a[1], a[2], 1, t)
  <2>1. 1 \in Character
    BY DEF Character
  <2> QED
    BY <1>2, <1>3, <1>4, <1>7, <2>1
<1>8. CASE \E e \in Endpoints, i \in {1, 17}, t \in Texts(n) :
             p = Packet("ack", e, 0, "none", i, t)
  BY <1>2, <1>4, <1>5, <1>8
<1>9. CASE \E e \in Endpoints, t \in Texts(n) : p = Packet("connect", e, 0, "none", 0, t)
  BY <1>2, <1>4, <1>5, <1>9
<1>10. CASE \E type \in {"disconnect", "heartbeat"}, e \in Endpoints :
              p = Packet(type, e, 0, "none", 0, <<>>)
  BY <1>4, <1>5, <1>10
<1>11. CASE \E e \in Endpoints, i \in 0 .. NoReason, t \in {<<>>, Reconnect} :
              p = Packet("error", e, 0, "none", i, t)
  BY <1>4, <1>5, <1>11
<1> QED
  BY <1>6, <1>7, <1>8, <1>9, <1>10, <1>11 DEF Packets

(* And frames.                                                             *)
LEMMA WritableAreFrames ==
  ASSUME NEW f \in Writable
  PROVE  \E type \in 0 .. 8, data \in Text : f = Frame(type, data)
<1>1. \A t \in Texts(MaxText) : t \in Text /\ Stringify(t) \in Text
  BY TextBoundsAssumption, TextsAreText, JsonOf
<1>2. \A type \in {0, 1, 2, 3, 4, 5} : type \in 0 .. 8
  OBVIOUS
<1> QED
  BY <1>1, <1>2 DEF Writable

(* Nothing is written in the beginning.                                    *)
LEMMA InitIInv ==
  CodecInit => IInv
<1> SUFFICES ASSUME CodecInit
             PROVE  IInv
  OBVIOUS
<1>1. <<>> \in Seq(Writes)
  BY EmptySeq
<1> QED
  BY <1>1 DEF CodecInit, IInv, PayloadRead

(* One step of either end.                                                 *)
LEMMA StepIInv ==
  ASSUME IInv, [CodecNext]_codecVars
  PROVE  IInv'
<1>1. CASE ClientWrites
  <2>1. PICK p \in Packets(IF written = <<>> THEN MaxText ELSE MaxShort) :
          written' = Append(written, p)
    BY <1>1 DEF ClientWrites
  <2>2. p \in Writes
    BY <2>1 DEF Writes
  <2>3. written \in Seq(Writes)
    BY DEF IInv
  <2>4. Writes' = Writes
    BY DEF Writes, Packets, Texts, Endpoints, Acks, Packet
  <2>5. (written \in Seq(Writes))'
    BY <2>1, <2>2, <2>3, <2>4, AppendProperties
  <2>6. /\ payload' = NoText /\ frame' = NoFrame /\ decoded' = <<>>
        /\ NoText' = NoText /\ NoFrame' = NoFrame
    BY <1>1 DEF ClientWrites, IInv, NoText, NoFrame, Frame
  <2> QED
    BY <2>5, <2>6 DEF IInv, PayloadRead
<1>2. CASE ClientSends
  <2> USE <1>2 DEF ClientSends
  <2>1. frame = NoFrame /\ decoded = <<>> /\ written # <<>>
    BY DEF IInv
  <2>2. /\ frame' = frame /\ decoded' = decoded /\ written' = written
        /\ payload' = EncodePayload([i \in DOMAIN written |-> EncodePacket(written[i])])
    OBVIOUS
  <2>3. (written \in Seq(Writes))'
    BY <2>2 DEF IInv, Writes
  <2>4. payload' = EncodePayload([i \in DOMAIN written' |-> EncodePacket(written'[i])])
    BY <2>2
  <2>5. frame' = NoFrame' /\ decoded' = <<>> /\ written' # <<>>
    BY <2>1, <2>2 DEF NoFrame
  <2> QED
    BY <2>3, <2>4, <2>5 DEF IInv, PayloadRead
<1>3. CASE PayloadIsRead
  <2>1. /\ written' = written /\ payload' = payload /\ frame' = frame
        /\ parsed' = ParseFrames(payload) /\ decoded' = DecodePayload(payload)
        /\ payload # NoText
    BY <1>3 DEF PayloadIsRead
  <2>2. frame = NoFrame
    BY <2>1 DEF IInv
  <2>3. (written \in Seq(Writes))'
    BY <2>1 DEF IInv, Writes
  <2>4. /\ written' # <<>>
        /\ payload' = EncodePayload([i \in DOMAIN written' |-> EncodePacket(written'[i])])
    BY <2>1 DEF IInv
  <2>5. decoded' = DecodePayload(payload') /\ parsed' = ParseFrames(payload')
    BY <2>1
  <2>6. frame' = NoFrame' /\ payload' # NoText'
    BY <2>1, <2>2 DEF NoFrame, NoText
  <2> QED
    BY <2>3, <2>4, <2>5, <2>6 DEF IInv
<1>4. CASE ServerWrites
  <2>1. PICK f \in Writable :
          frame' = f /\ decoded' = DecodePayload(EncodeFrame(f))
    BY <1>4 DEF ServerWrites
  <2>2. /\ written = <<>> /\ written' = <<>> /\ payload' = payload
    BY <1>4 DEF ServerWrites
  <2>3. payload = NoText
    BY <2>2 DEF IInv
  <2>4. PICK type \in 0 .. 8, data \in Text : f = Frame(type, data)
    BY WritableAreFrames
  <2>5. f.type = type /\ f.data = data
    BY <2>4 DEF Frame
  <2>6. DecodePayload(EncodeFrame(f)) = <<Understood(type, data)>>
    BY <2>4, FrameRead
  <2>7. decoded' = <<Understood(frame'.type, frame'.data)>>
    BY <2>1, <2>5, <2>6
  <2>8. frame' # NoFrame'
    <3>1. NoFrame.type = -1
      BY DEF NoFrame, Frame
    <3>2. type # -1
      OBVIOUS
    <3>3. NoFrame' = NoFrame
      BY DEF NoFrame
    <3> QED
      BY <2>1, <2>5, <3>1, <3>2, <3>3
  <2>9. (written \in Seq(Writes))'
    BY <2>2 DEF IInv, Writes
  <2>10. payload' = NoText'
    BY <2>2, <2>3 DEF NoText
  <2> QED
    BY <2>2, <2>7, <2>8, <2>9, <2>10 DEF IInv, PayloadRead
<1>5. CASE UNCHANGED codecVars
  BY <1>5 DEF IInv, PayloadRead, codecVars, Writes, NoText, NoFrame
<1> QED
  BY <1>1, <1>2, <1>3, <1>4, <1>5 DEF CodecNext

(* What has been written, sent and read, in every reachable state.         *)
THEOREM Invariance ==
  CodecSpec => []IInv
<1>1. CodecInit => IInv
  BY InitIInv
<1>2. IInv /\ [CodecNext]_codecVars => IInv'
  BY StepIInv
<1> QED
  BY <1>1, <1>2, PTL DEF CodecSpec

(* Decoding undoes encoding: what the client's decoder reads of a payload  *)
(* are the packets that the transport put into it, however long they are   *)
(* and whatever their texts hold, but for those with a colon in the        *)
(* endpoint and acknowledgments with a line end in their arguments.        *)
THEOREM SpecRoundTrip ==
  CodecSpec => []RoundTrip
<1>1. \A p \in Writes : IsPacket(p)
  BY TextBoundsAssumption, PacketsArePackets DEF Writes
<1>2. IInv => RoundTrip
  <2> SUFFICES ASSUME IInv, PayloadRead
               PROVE  /\ Len(decoded) = Len(written)
                      /\ \A i \in DOMAIN written :
                           Legible(written[i]) => decoded[i] = written[i]
    BY DEF RoundTrip
  <2>1. /\ written \in Seq(Writes) /\ written # <<>>
        /\ payload = EncodePayload([i \in DOMAIN written |-> EncodePacket(written[i])])
        /\ decoded = DecodePayload(payload)
    BY DEF IInv, PayloadRead
  <2> HIDE DEF Writes
  <2> QED
    BY <1>1, <2>1, PayloadRoundTrip
<1> QED
  BY <1>2, Invariance, PTL

(* The client reads from a frame of the server the type and the data that  *)
(* the server wrote.                                                       *)
THEOREM SpecClientUnderstands ==
  CodecSpec => []ClientUnderstands
<1>1. IInv => ClientUnderstands
  BY DEF IInv, ClientUnderstands, Understood
<1> QED
  BY <1>1, Invariance, PTL

(* The server reads from packets that have data, do not ask for data in    *)
(* their acknowledgment and have no colon in their endpoint, their types   *)
(* and their data, at any place of a payload and whatever is in the data.  *)
THEOREM SpecServerUnderstands ==
  CodecSpec => []ServerUnderstands
<1>1. \A p \in Writes : IsPacket(p)
  BY TextBoundsAssumption, PacketsArePackets DEF Writes
<1>2. IInv => ServerUnderstands
  <2> SUFFICES ASSUME IInv, PayloadRead,
                      \A i \in DOMAIN written : Readable(written[i])
               PROVE  parsed = Result([i \in DOMAIN written |-> FrameOf(written[i])])
    BY DEF ServerUnderstands, Result, FrameOf
  <2> DEFINE P == {p \in Writes : Readable(p)}
             n == Len(written)
  <2>1. /\ written \in Seq(Writes) /\ written # <<>>
        /\ payload = EncodePayload([i \in DOMAIN written |-> EncodePacket(written[i])])
        /\ parsed = ParseFrames(payload)
    BY DEF IInv, PayloadRead
  <2> HIDE DEF Writes
  <2>2. n \in Nat /\ DOMAIN written = 1 .. n /\ written \in [1 .. n -> Writes]
    BY <2>1, LenProperties
  <2> HIDE DEF n
  <2>3. written \in [1 .. n -> P]
    BY <2>2
  <2>4. written \in Seq(P)
    BY <2>2, <2>3, FunctionIsSeq
  <2>5. \A p \in P : IsPacket(p) /\ Readable(p)
    BY <1>1
  <2> HIDE DEF P
  <2> QED
    BY <2>1, <2>4, <2>5, PayloadServed
<1> QED
  BY <1>2, Invariance, PTL


==============================================================================
