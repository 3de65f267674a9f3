------------------------------ MODULE PriorityProofs ------------------------------
(***************************************************************************)
(* Theorems about Priority, for words of every width, trees of every depth *)
(* and any numbers of children.                                            *)
(***************************************************************************)
EXTENDS Priority, Recursion, SequenceTheorems

-----------------------------------------------------------------------------
(* Numbers and their bits. *)

\* The half of a number is less, and a number is its half twice and its last bit.
LEMMA Half ==
  ASSUME NEW n \in Nat
  PROVE  /\ n \div 2 \in Nat /\ n % 2 \in {0, 1} /\ n = 2 * (n \div 2) + (n % 2)
         /\ n # 0 => n \div 2 < n
<1>1. n \div 2 \in Nat /\ n % 2 \in {0, 1} /\ n = 2 * (n \div 2) + (n % 2)
  BY Z3
<1> QED BY <1>1

\* Halvings satisfies its equation.
LEMMA HalvingsEquation ==
  /\ Halvings \in [Nat -> Nat]
  /\ \A n \in Nat : Halvings[n] = IF n = 0 THEN 0 ELSE 1 + Halvings[n \div 2]
<1> DEFINE next == [n \in Nat |-> n \div 2]
           step == [p \in Nat \X Nat |-> 1 + p[2]]
           Equation(f) == f = [n \in Nat |-> IF n = 0 THEN 0 ELSE 1 + f[n \div 2]]
<1>1. next \in [Nat -> Nat] /\ step \in [Nat \X Nat -> Nat]
  BY Half
<1>2. \E m \in [Nat -> Nat] : \A x \in Nat \ {0} : m[next[x]] < m[x]
  <2> DEFINE m == [n \in Nat |-> n]
  <2>1. m \in [Nat -> Nat] /\ \A x \in Nat \ {0} : m[next[x]] < m[x]
    BY Half
  <2> HIDE DEF m, next
  <2> QED BY <2>1
<1>3. PICK f : StepDown(f, Nat, Nat, {0}, 0, next, step)
  <2>1. {0} \in SUBSET Nat /\ 0 \in Nat
    OBVIOUS
  <2> HIDE DEF next, step
  <2> QED BY <1>1, <1>2, <2>1, DownwardRecursion
<1>4. /\ f \in [Nat -> Nat]
      /\ \A n \in Nat : f[n] = IF n \in {0} THEN 0 ELSE step[<<n, f[next[n]]>>]
  BY <1>3 DEF StepDown
<1>5. \A n \in Nat : f[n] = IF n = 0 THEN 0 ELSE 1 + f[n \div 2]
  <2> TAKE n \in Nat
  <2>1. n \div 2 \in Nat /\ f[n \div 2] \in Nat
    BY <1>4, Half
  <2>2. next[n] = n \div 2 /\ step[<<n, f[n \div 2]>>] = 1 + f[n \div 2]
    BY <2>1
  <2> HIDE DEF next, step
  <2> QED BY <1>4, <2>2
<1>6. Equation(f)
  BY <1>4, <1>5
<1>7. Equation(Halvings)
  BY <1>6 DEF Halvings
<1>8. \A n \in Nat : Halvings[n] = IF n = 0 THEN 0 ELSE 1 + Halvings[n \div 2]
  BY <1>7
<1> DEFINE Wrong == {n \in Nat : Halvings[n] \notin Nat}
<1>9. ASSUME Wrong # {}
      PROVE  FALSE
  <2>1. PICK n \in Wrong : \A k \in Wrong : n <= k
    BY <1>9, LeastElement
  <2>2. n \in Nat /\ n \div 2 \in Nat /\ (n # 0 => n \div 2 < n)
    BY Half
  <2>3. n # 0 => Halvings[n \div 2] \in Nat
    BY <2>1, <2>2
  <2> QED BY <1>8, <2>2, <2>3
<1> QED BY <1>7, <1>8, <1>9

\* WordOf satisfies its equation.
LEMMA WordEquation ==
  /\ WordOf \in [Nat -> SUBSET Nat]
  /\ \A n \in Nat :
       WordOf[n] = IF n = 0 THEN {}
                   ELSE {b + 1 : b \in WordOf[n \div 2]} \cup (IF n % 2 = 1 THEN {0} ELSE {})
<1> DEFINE next == [n \in Nat |-> n \div 2]
           val(n, S) == {b + 1 : b \in S} \cup (IF n % 2 = 1 THEN {0} ELSE {})
           step == [p \in Nat \X SUBSET Nat |-> val(p[1], p[2])]
           Equation(f) == f = [n \in Nat |-> IF n = 0 THEN {} ELSE val(n, f[n \div 2])]
<1>1. \A n \in Nat : \A S \in SUBSET Nat : val(n, S) \in SUBSET Nat
  OBVIOUS
<1>2. next \in [Nat -> Nat] /\ step \in [Nat \X SUBSET Nat -> SUBSET Nat]
  <2> HIDE DEF val
  <2> QED BY <1>1, Half
<1>3. \E m \in [Nat -> Nat] : \A x \in Nat \ {0} : m[next[x]] < m[x]
  <2> DEFINE m == [n \in Nat |-> n]
  <2>1. m \in [Nat -> Nat] /\ \A x \in Nat \ {0} : m[next[x]] < m[x]
    BY Half
  <2> HIDE DEF m, next
  <2> QED BY <2>1
<1>4. PICK f : StepDown(f, Nat, SUBSET Nat, {0}, {}, next, step)
  <2>1. {0} \in SUBSET Nat /\ {} \in SUBSET Nat
    OBVIOUS
  <2> HIDE DEF next, step
  <2> QED BY <1>2, <1>3, <2>1, DownwardRecursion
<1>5. /\ f \in [Nat -> SUBSET Nat]
      /\ \A n \in Nat : f[n] = IF n \in {0} THEN {} ELSE step[<<n, f[next[n]]>>]
  BY <1>4 DEF StepDown
<1>6. \A n \in Nat : f[n] = IF n = 0 THEN {} ELSE val(n, f[n \div 2])
  <2> TAKE n \in Nat
  <2>1. n \div 2 \in Nat /\ f[n \div 2] \in SUBSET Nat
    BY <1>5, Half
  <2> HIDE DEF val
  <2>2. next[n] = n \div 2 /\ step[<<n, f[n \div 2]>>] = val(n, f[n \div 2])
    BY <2>1
  <2> HIDE DEF next, step
  <2> QED BY <1>5, <2>2
<1>7. Equation(f)
  <2> HIDE DEF val
  <2> QED BY <1>5, <1>6
<1>8. Equation(WordOf)
  BY <1>7 DEF WordOf
<1>9. \A n \in Nat : WordOf[n] = IF n = 0 THEN {} ELSE val(n, WordOf[n \div 2])
  <2> HIDE DEF val
  <2> QED BY <1>8
<1> DEFINE Wrong == {n \in Nat : WordOf[n] \notin SUBSET Nat}
<1>10. ASSUME Wrong # {}
       PROVE  FALSE
  <2>1. Wrong \in SUBSET Nat
    OBVIOUS
  <2>2. PICK n \in Wrong : \A k \in Wrong : n <= k
    <3> HIDE DEF Wrong
    <3> QED BY <1>10, <2>1, LeastElement
  <2>3. n \in Nat /\ n \div 2 \in Nat /\ (n # 0 => n \div 2 < n)
    BY Half
  <2>4. n # 0 => WordOf[n \div 2] \in SUBSET Nat
    BY <2>2, <2>3
  <2> HIDE DEF val
  <2> QED BY <1>1, <1>9, <2>3, <2>4
<1>11. WordOf \in [Nat -> SUBSET Nat]
  <2> HIDE DEF val
  <2> QED BY <1>8, <1>10
<1> QED BY <1>9, <1>11

\* A greater number takes no less bits.
LEMMA HalvingsRise ==
  ASSUME NEW c \in Nat, NEW d \in Nat, c <= d
  PROVE  Halvings[c] <= Halvings[d]
<1> DEFINE Wrong == {n \in Nat : \E k \in 0..n : ~(Halvings[k] <= Halvings[n])}
<1>1. ASSUME Wrong # {}
      PROVE  FALSE
  <2>1. Wrong \in SUBSET Nat
    OBVIOUS
  <2>2. PICK n \in Wrong : \A k \in Wrong : n <= k
    <3> HIDE DEF Wrong
    <3> QED BY <1>1, <2>1, LeastElement
  <2>3. PICK k \in 0..n : ~(Halvings[k] <= Halvings[n])
    OBVIOUS
  <2>4. n \in Nat /\ k \in Nat /\ k <= n
    OBVIOUS
  <2>5. /\ n \div 2 \in Nat /\ k \div 2 \in Nat /\ (n # 0 => n \div 2 < n)
        /\ k \div 2 <= n \div 2
    BY <2>4, Half
  <2>6. n # 0 => Halvings[k \div 2] <= Halvings[n \div 2]
    <3>1. n # 0 => n \div 2 \notin Wrong
      <4> HIDE DEF Wrong
      <4> QED BY <2>1, <2>2, <2>4, <2>5
    <3> QED BY <2>5, <3>1
  <2> HIDE DEF Wrong
  <2>7. CASE k = 0
    BY <2>3, <2>4, <2>7, HalvingsEquation
  <2>8. CASE k # 0
    <3>1. n # 0
      BY <2>4, <2>8
    <3>2. Halvings[k] = 1 + Halvings[k \div 2] /\ Halvings[n] = 1 + Halvings[n \div 2]
      BY <2>4, <2>8, <3>1, HalvingsEquation
    <3>3. Halvings[k \div 2] \in Nat /\ Halvings[n \div 2] \in Nat
      BY <2>5, HalvingsEquation
    <3> QED BY <2>3, <2>6, <3>1, <3>2, <3>3
  <2> QED BY <2>7, <2>8
<1> QED BY <1>1

\* The bits of a number are among those that it takes.
LEMMA WordFits ==
  ASSUME NEW n \in Nat
  PROVE  WordOf[n] \subseteq 0..(Halvings[n] - 1)
<1> DEFINE Wrong == {i \in Nat : \E b \in WordOf[i] : b \notin 0..(Halvings[i] - 1)}
<1>1. ASSUME Wrong # {}
      PROVE  FALSE
  <2>1. Wrong \in SUBSET Nat
    OBVIOUS
  <2>2. PICK i \in Wrong : \A k \in Wrong : i <= k
    <3> HIDE DEF Wrong
    <3> QED BY <1>1, <2>1, LeastElement
  <2>3. PICK b \in WordOf[i] : b \notin 0..(Halvings[i] - 1)
    OBVIOUS
  <2> DEFINE h == i \div 2
  <2>4. i \in Nat /\ i # 0 /\ h \in Nat /\ h < i
    <3>1. i # 0
      BY <2>3, WordEquation
    <3> QED BY <3>1, Half
  <2>5. h \notin Wrong
    <3> HIDE DEF Wrong, h
    <3> QED BY <2>1, <2>2, <2>4
  <2>6. WordOf[i] = {a + 1 : a \in WordOf[h]} \cup (IF i % 2 = 1 THEN {0} ELSE {})
    BY <2>4, WordEquation
  <2>7. Halvings[i] = 1 + Halvings[h] /\ Halvings[h] \in Nat
    BY <2>4, HalvingsEquation
  <2>8. \A a \in WordOf[h] : a \in 0..(Halvings[h] - 1)
    BY <2>4, <2>5
  <2> HIDE DEF h, Wrong
  <2>9. b = 0 \/ \E a \in WordOf[h] : b = a + 1
    BY <2>3, <2>6
  <2> QED BY <2>3, <2>7, <2>8, <2>9
<1> QED BY <1>1

\* Of two numbers the greater one has the highest bit in which they differ.
LEMMA HighestBit ==
  ASSUME NEW c \in Nat, NEW d \in Nat, c < d
  PROVE  \E b \in WordOf[d] \ WordOf[c] :
           \A e \in Nat : e > b => (e \in WordOf[c] <=> e \in WordOf[d])
<1> DEFINE Above(x, y, b) == \A e \in Nat : e > b => (e \in WordOf[x] <=> e \in WordOf[y])
           Wrong == {n \in Nat : \E k \in Nat : k < n /\ ~ \E b \in WordOf[n] \ WordOf[k] : Above(k, n, b)}
<1>1. ASSUME Wrong # {}
      PROVE  FALSE
  <2>1. Wrong \in SUBSET Nat
    OBVIOUS
  <2>2. PICK n \in Wrong : \A k \in Wrong : n <= k
    <3> HIDE DEF Wrong
    <3> QED BY <1>1, <2>1, LeastElement
  <2>3. PICK k \in Nat : k < n /\ ~ \E b \in WordOf[n] \ WordOf[k] : Above(k, n, b)
    OBVIOUS
  <2> DEFINE i == n \div 2
             j == k \div 2
  <2>4. /\ n \in Nat /\ n # 0 /\ i \in Nat /\ j \in Nat /\ i < n
        /\ (j < i \/ (j = i /\ n % 2 = 1 /\ k % 2 = 0))
    <3>1. n \in Nat /\ n # 0
      BY <2>3
    <3> QED BY <2>3, <3>1, Half
  <2>5. i \notin Wrong
    <3> HIDE DEF Wrong, i, j
    <3> QED BY <2>1, <2>2, <2>4
  <2>6. WordOf[i] \in SUBSET Nat /\ WordOf[j] \in SUBSET Nat
    BY <2>4, WordEquation
  <2>7. WordOf[n] = {a + 1 : a \in WordOf[i]} \cup (IF n % 2 = 1 THEN {0} ELSE {})
    BY <2>4, WordEquation
  <2>8. WordOf[k] = {a + 1 : a \in WordOf[j]} \cup (IF k % 2 = 1 THEN {0} ELSE {})
    <3>1. CASE k = 0
      <4>1. k % 2 = 0 /\ j = 0 /\ WordOf[0] = {}
        BY <3>1, WordEquation
      <4> HIDE DEF j
      <4> QED BY <3>1, <4>1
    <3>2. CASE k # 0
      BY <3>2, WordEquation
    <3> QED BY <3>1, <3>2
  <2>9. \A e \in Nat : /\ e + 1 \in WordOf[n] <=> e \in WordOf[i]
                       /\ e + 1 \in WordOf[k] <=> e \in WordOf[j]
    <3> HIDE DEF i, j, Wrong, Above
    <3> QED BY <2>6, <2>7, <2>8
  <2>10. CASE j < i
    <3>1. PICK b \in WordOf[i] \ WordOf[j] : Above(j, i, b)
      <4> HIDE DEF i, j, Above
      <4> QED BY <2>4, <2>5, <2>10
    <3>2. b \in Nat /\ b + 1 \in WordOf[n] \ WordOf[k]
      <4> HIDE DEF i, j, Wrong, Above
      <4> QED BY <2>6, <2>9, <3>1
    <3>3. ASSUME NEW e \in Nat, e > b + 1
          PROVE  e \in WordOf[k] <=> e \in WordOf[n]
      <4>1. e - 1 \in Nat /\ e - 1 > b /\ e = (e - 1) + 1
        BY <3>2, <3>3
      <4>2. e - 1 \in WordOf[j] <=> e - 1 \in WordOf[i]
        BY <3>1, <4>1
      <4> HIDE DEF i, j, Wrong, Above
      <4> QED BY <2>9, <4>1, <4>2
    <3> QED BY <2>3, <3>2, <3>3
  <2>11. CASE j = i /\ n % 2 = 1 /\ k % 2 = 0
    <3>1. 0 \in WordOf[n] \ WordOf[k]
      <4> HIDE DEF i, j, Wrong, Above
      <4> QED BY <2>6, <2>7, <2>8, <2>11
    <3>2. ASSUME NEW e \in Nat, e > 0
          PROVE  e \in WordOf[k] <=> e \in WordOf[n]
      <4>1. e - 1 \in Nat /\ e = (e - 1) + 1
        BY <3>2
      <4> HIDE DEF i, j, Wrong, Above
      <4> QED BY <2>9, <2>11, <4>1
    <3> QED BY <2>3, <3>1, <3>2
  <2> QED BY <2>4, <2>10, <2>11
<1>2. d \notin Wrong
  <2> HIDE DEF Wrong
  <2> QED BY <1>1
<1> QED BY <1>2

\* The number of a child fits in the bits that its siblings take.
LEMMA NumberFits ==
  ASSUME NEW kids \in KidCounts, NEW c \in 0..(kids - 1)
  PROVE  Log(kids) \in 0..(CkIntbits - 1) /\ WordOf[c] \in SUBSET (0..(Log(kids) - 1))
<1>1. kids \in Nat \ {0} /\ kids - 1 \in Nat /\ c \in Nat /\ c <= kids - 1
  BY PriorityAssumption
<1>2. Halvings[c] \in Nat /\ Halvings[kids - 1] \in Nat /\ Halvings[c] <= Halvings[kids - 1]
  BY <1>1, HalvingsEquation, HalvingsRise
<1>3. WordOf[c] \subseteq 0..(Halvings[c] - 1)
  BY <1>1, WordFits
<1>4. Log(kids) < CkIntbits /\ CkIntbits \in Nat
  BY KidAssumption, PriorityAssumption
<1> QED BY <1>2, <1>3, <1>4 DEF Log

-----------------------------------------------------------------------------
(* Paths and the bits they stand for. *)

Path == Seq((Nat \ {0}) \X Nat)

\* The number c of one of the kids, in as many bits as it takes to number them all.
Number(kids, c) == [j \in 1..Log(kids) |-> Log(kids) - j \in WordOf[c]]

\* A path without its last step.
Above(path) == SubSeq(path, 1, Len(path) - 1)

\* The path above is shorter, and is the one that the last step was added to.
LEMMA AboveShorter ==
  /\ \A path \in Path : path # <<>> =>
       /\ Above(path) \in Path /\ Len(Above(path)) < Len(path)
       /\ Len(path) \in Nat \ {0} /\ path[Len(path)] \in (Nat \ {0}) \X Nat
  /\ \A path \in Path : \A last \in (Nat \ {0}) \X Nat :
       /\ Append(path, last) \in Path /\ Append(path, last) # <<>>
       /\ Above(Append(path, last)) = path
       /\ Append(path, last)[Len(Append(path, last))] = last
<1>1. ASSUME NEW path \in Path, path # <<>>
      PROVE  /\ Above(path) \in Path /\ Len(Above(path)) < Len(path)
             /\ Len(path) \in Nat \ {0} /\ path[Len(path)] \in (Nat \ {0}) \X Nat
  <2> DEFINE S == (Nat \ {0}) \X Nat
             n == Len(path)
  <2>1. path \in Seq(S)
    BY DEF Path
  <2> HIDE DEF S
  <2>2. n \in Nat \ {0} /\ \A i \in 1..n : path[i] \in S
    BY <1>1, <2>1, EmptySeq, ElementOfSeq
  <2> HIDE DEF n
  <2>3. n - 1 \in Int /\ 1 \in Int /\ \A i \in 1..(n - 1) : path[i] \in S
    BY <2>2
  <2>4. /\ SubSeq(path, 1, n - 1) \in Seq(S)
        /\ Len(SubSeq(path, 1, n - 1)) = IF 1 <= n - 1 THEN n - 1 - 1 + 1 ELSE 0
    BY <2>3, SubSeqProperties
  <2>5. Len(SubSeq(path, 1, n - 1)) < n /\ path[n] \in S
    BY <2>2, <2>4
  <2> QED BY <2>2, <2>4, <2>5 DEF Above, Path, n, S
<1>2. ASSUME NEW path \in Path, NEW last \in (Nat \ {0}) \X Nat
      PROVE  /\ Append(path, last) \in Path /\ Append(path, last) # <<>>
             /\ Above(Append(path, last)) = path
             /\ Append(path, last)[Len(Append(path, last))] = last
  <2> DEFINE S == (Nat \ {0}) \X Nat
             n == Len(path)
             longer == Append(path, last)
  <2>1. path \in Seq(S) /\ last \in S
    BY DEF Path
  <2> HIDE DEF S
  <2>2. /\ longer \in Seq(S) /\ Len(longer) = n + 1 /\ n \in Nat
        /\ longer[n + 1] = last /\ \A i \in 1..n : longer[i] = path[i]
    BY <2>1, AppendProperties, LenProperties
  <2> HIDE DEF longer
  <2>3. longer # <<>>
    BY <2>2, EmptySeq
  <2>4. SubSeq(longer, 1, n) = path
    <3> DEFINE before == SubSeq(longer, 1, n)
    <3>1. \A i \in 1..n : longer[i] \in S
      BY <2>2, ElementOfSeq
    <3>2. /\ before \in Seq(S) /\ Len(before) = IF 1 <= n THEN n - 1 + 1 ELSE 0
          /\ \A i \in 1..(n - 1 + 1) : before[i] = longer[1 + i - 1]
      BY <2>2, <3>1, SubSeqProperties
    <3> HIDE DEF before
    <3>3. Len(before) = n /\ \A i \in 1..n : before[i] = path[i]
      BY <2>2, <3>2
    <3>4. before = path
      BY <2>1, <3>2, <3>3, SeqEqual
    <3> QED BY <3>4 DEF before
  <2>5. Len(longer) - 1 = n
    BY <2>2
  <2> HIDE DEF n
  <2> QED BY <2>2, <2>3, <2>4, <2>5 DEF Path, Above, longer, S
<1> QED BY <1>1, <1>2

\* A function on the first n numbers is a sequence.
LEMMA FunctionIsSeq ==
  ASSUME NEW n \in Nat, NEW S, NEW f \in [1..n -> S]
  PROVE  f \in Seq(S) /\ Len(f) = n
OBVIOUS

\* The number of a child is a sequence of bits.
LEMMA NumberSeq ==
  ASSUME NEW kids \in Nat \ {0}, NEW c \in Nat
  PROVE  /\ Number(kids, c) \in Seq(BOOLEAN) /\ Log(kids) \in Nat
         /\ Len(Number(kids, c)) = Log(kids)
         /\ \A j \in 1..Log(kids) : Number(kids, c)[j] = (Log(kids) - j \in WordOf[c])
<1>1. Log(kids) \in Nat
  BY HalvingsEquation DEF Log
<1> DEFINE n == Log(kids)
           bit(j) == n - j \in WordOf[c]
<1>2. \A j \in 1..n : bit(j) \in BOOLEAN
  OBVIOUS
<1>3. Number(kids, c) = [j \in 1..n |-> bit(j)]
  BY DEF Number
<1> HIDE DEF bit
<1>4. Number(kids, c) \in [1..n -> BOOLEAN] /\ \A j \in 1..n : Number(kids, c)[j] = bit(j)
  BY <1>2, <1>3, Zenon
<1>5. Number(kids, c) \in Seq(BOOLEAN) /\ Len(Number(kids, c)) = n
  BY <1>1, <1>4, FunctionIsSeq
<1> QED BY <1>1, <1>4, <1>5, Zenon DEF bit

\* Encoded satisfies its equation.
LEMMA EncodedEquation ==
  /\ Encoded \in [Path -> Seq(BOOLEAN)]
  /\ Encoded[<<>>] = <<FALSE>>
  /\ \A path \in Path : \A kids \in Nat \ {0} : \A c \in Nat :
       Encoded[Append(path, <<kids, c>>)] = Encoded[path] \o Number(kids, c)
<1> DEFINE B == Seq(BOOLEAN)
           num(path) == Number(path[Len(path)][1], path[Len(path)][2])
           val(path, E) == E \o num(path)
           next == [path \in Path |-> IF path = <<>> THEN path ELSE Above(path)]
           step == [p \in Path \X B |-> IF p[1] = <<>> THEN <<FALSE>> ELSE val(p[1], p[2])]
           Equation(f) == f = [path \in Path |-> IF path = <<>> THEN <<FALSE>>
                                                 ELSE val(path, f[Above(path)])]
<1>1. <<>> \in Path /\ <<FALSE>> \in B
  <2>1. <<>> \in Path
    BY EmptySeq DEF Path
  <2>2. <<FALSE>> \in B
    OBVIOUS
  <2> QED BY <2>1, <2>2
<1>2. \A path \in Path : \A E \in B : path # <<>> => val(path, E) \in B
  <2> TAKE path \in Path
  <2> TAKE E \in B
  <2> HAVE path # <<>>
  <2>1. path[Len(path)][1] \in Nat \ {0} /\ path[Len(path)][2] \in Nat
    BY AboveShorter
  <2>2. num(path) \in Seq(BOOLEAN)
    BY <2>1, NumberSeq
  <2> QED BY <2>2, ConcatProperties
<1> HIDE DEF val
<1>3. next \in [Path -> Path] /\ step \in [Path \X B -> B]
  <2>1. next \in [Path -> Path]
    BY AboveShorter
  <2>2. \A p \in Path \X B : (IF p[1] = <<>> THEN <<FALSE>> ELSE val(p[1], p[2])) \in B
    <3> HIDE DEF B
    <3> QED BY <1>1, <1>2
  <2> QED BY <2>1, <2>2
<1> DEFINE m == [path \in Path |-> Len(path)]
<1>4. m \in [Path -> Nat] /\ \A path \in Path \ {<<>>} : m[next[path]] < m[path]
  <2>1. \A path \in Path : Len(path) \in Nat
    BY DEF Path
  <2>2. \A path \in Path \ {<<>>} : next[path] = Above(path) /\ Above(path) \in Path
    BY AboveShorter
  <2>3. \A path \in Path \ {<<>>} : m[next[path]] = Len(Above(path)) /\ m[path] = Len(path)
    <3> HIDE DEF next
    <3> QED BY <2>2
  <2>4. m \in [Path -> Nat]
    BY <2>1
  <2> HIDE DEF m, next
  <2> QED BY <2>3, <2>4, AboveShorter
<1>5. PICK f : StepDown(f, Path, B, {<<>>}, <<FALSE>>, next, step)
  <2>1. {<<>>} \in SUBSET Path
    BY <1>1
  <2>2. \E mm \in [Path -> Nat] : \A path \in Path \ {<<>>} : mm[next[path]] < mm[path]
    <3> HIDE DEF m, next
    <3> QED BY <1>4
  <2> HIDE DEF next, step, B
  <2> QED BY <1>1, <1>3, <2>1, <2>2, DownwardRecursion
<1>6. /\ f \in [Path -> B]
      /\ \A path \in Path :
           f[path] = IF path \in {<<>>} THEN <<FALSE>> ELSE step[<<path, f[next[path]]>>]
  BY <1>5 DEF StepDown
<1>7. \A path \in Path : f[path] = IF path = <<>> THEN <<FALSE>> ELSE val(path, f[Above(path)])
  <2> TAKE path \in Path
  <2>1. CASE path = <<>>
    BY <1>6, <2>1
  <2>2. CASE path # <<>>
    <3>1. next[path] = Above(path) /\ Above(path) \in Path
      BY <2>2, AboveShorter
    <3>2. f[Above(path)] \in B
      BY <1>6, <3>1
    <3>3. step[<<path, f[Above(path)]>>] = val(path, f[Above(path)])
      <4> HIDE DEF B
      <4> QED BY <2>2, <3>2
    <3> HIDE DEF next, step, B
    <3> QED BY <1>6, <2>2, <3>1, <3>3
  <2> QED BY <2>1, <2>2
<1>8. Equation(f)
  <2> HIDE DEF B, next, step
  <2> QED BY <1>6, <1>7
<1>9. Equation(Encoded)
  <2>1. \A g : Equation(g) <=>
          g = [path \in Seq((Nat \ {0}) \X Nat) |->
                 IF path = <<>> THEN <<FALSE>>
                 ELSE LET last == path[Len(path)]
                          k    == Log(last[1])
                      IN g[SubSeq(path, 1, Len(path) - 1)] \o
                           [j \in 1..k |-> k - j \in WordOf[last[2]]]]
    BY Zenon DEF val, Number, Above, Path
  <2> HIDE DEF Equation
  <2> QED BY <1>8, <2>1 DEF Encoded
<1>10. \A path \in Path :
         Encoded[path] = IF path = <<>> THEN <<FALSE>> ELSE val(path, Encoded[Above(path)])
  BY <1>9, Zenon
<1> DEFINE Wrong == {path \in Path : Encoded[path] \notin B}
<1>11. ASSUME Wrong # {}
       PROVE  FALSE
  <2>1. Wrong \in SUBSET Path
    OBVIOUS
  <2>2. PICK path : Least(path, Wrong, m)
    <3> HIDE DEF Wrong, m
    <3> QED BY <1>4, <1>11, <2>1, LeastMeasure
  <2>3. path \in Wrong /\ \A p \in Wrong : ~(m[p] < m[path])
    BY <2>2 DEF Least
  <2>4. path \in Path /\ Encoded[path] \notin B
    BY <2>3
  <2>5. path # <<>>
    <3> HIDE DEF B
    <3> QED BY <1>1, <1>10, <2>4
  <2>6. Above(path) \in Path /\ m[Above(path)] < m[path]
    <3>1. next[path] = Above(path) /\ Above(path) \in Path
      BY <2>4, <2>5, AboveShorter
    <3> HIDE DEF m, next
    <3> QED BY <1>4, <2>4, <2>5, <3>1
  <2>7. Encoded[Above(path)] \in B
    <3> HIDE DEF B, m
    <3> QED BY <2>3, <2>6
  <2> HIDE DEF B
  <2> QED BY <1>2, <1>10, <2>4, <2>5, <2>7
<1>12. Encoded \in [Path -> B]
  <2>1. \A path \in Path : Encoded[path] \in B
    BY <1>11
  <2>2. Encoded = [path \in Path |-> IF path = <<>> THEN <<FALSE>> ELSE val(path, Encoded[Above(path)])]
    BY <1>9
  <2> HIDE DEF B
  <2> QED BY <1>10, <2>1, <2>2
<1>13. Encoded[<<>>] = <<FALSE>>
  BY <1>1, <1>10
<1>14. ASSUME NEW path \in Path, NEW kids \in Nat \ {0}, NEW c \in Nat
       PROVE  Encoded[Append(path, <<kids, c>>)] = Encoded[path] \o Number(kids, c)
  <2> DEFINE last == <<kids, c>>
             longer == Append(path, last)
  <2>1. last \in (Nat \ {0}) \X Nat /\ last[1] = kids /\ last[2] = c
    OBVIOUS
  <2> HIDE DEF last
  <2>2. longer \in Path /\ longer # <<>> /\ Above(longer) = path /\ longer[Len(longer)] = last
    BY <2>1, AboveShorter
  <2> HIDE DEF longer
  <2>3. Encoded[longer] = val(longer, Encoded[path])
    BY <1>10, <2>2
  <2>4. Encoded[longer] = Encoded[path] \o Number(kids, c)
    BY <2>1, <2>2, <2>3, Zenon DEF val
  <2> QED BY <2>4 DEF longer, last
<1> QED BY <1>12, <1>13, <1>14

-----------------------------------------------------------------------------
(* Bits and the words they are in. *)

\* Division of a sum of a multiple and less than the divisor.
LEMMA Division ==
  ASSUME NEW n \in Nat \ {0}, NEW a \in Nat, NEW q \in Nat, NEW r \in 0..(n - 1), a = n * q + r
  PROVE  a \div n = q /\ a % n = r
BY Z3

\* There is such a sum for every number.
LEMMA Divided ==
  ASSUME NEW n \in Nat \ {0}, NEW a \in Nat
  PROVE  a \div n \in Nat /\ a % n \in 0..(n - 1) /\ a = n * (a \div n) + (a % n)
BY Z3

\* Products grow with a factor.
LEMMA Growing ==
  ASSUME NEW n \in Nat, NEW v \in Int, NEW w \in Int, v <= w
  PROVE  v * n <= w * n /\ v * n \in Int /\ w * n \in Int
BY Z3

\* The words of a priority whose last word has u bits in use.
LEMMA WordCount ==
  ASSUME NEW W \in Nat \ {0}, NEW u \in 1..CkIntbits, NEW bits \in Nat,
         bits = (W - 1) * CkIntbits + u
  PROVE  /\ CkPriobitsToInts(bits) = W
         /\ bits % CkIntbits = IF u = CkIntbits THEN 0 ELSE u
<1> DEFINE C == CkIntbits
<1>1. C \in Nat \ {0} /\ u \in 1..C
  BY PriorityAssumption
<1> HIDE DEF C
<1>2. (W - 1) * C = C * (W - 1) /\ C * (W - 1) + C = C * W /\ C * W \in Nat /\ C * (W - 1) \in Nat
  BY <1>1
<1>3. bits = C * (W - 1) + u
  BY <1>2 DEF C
<1>4. (bits + C - 1) \div C = W
  <2>1. bits + C - 1 \in Nat /\ u - 1 \in 0..(C - 1) /\ bits + C - 1 = C * W + (u - 1)
    BY <1>1, <1>2, <1>3
  <2> QED BY <1>1, <2>1, Division
<1>5. CASE u = C
  <2>1. bits = C * W + 0 /\ 0 \in 0..(C - 1) /\ W \in Nat
    BY <1>1, <1>2, <1>3, <1>5
  <2>2. bits % C = 0
    BY <1>1, <2>1, Division
  <2> QED BY <1>4, <1>5, <2>2 DEF CkPriobitsToInts, C
<1>6. CASE u # C
  <2>1. u \in 0..(C - 1) /\ W - 1 \in Nat
    BY <1>1, <1>6
  <2>2. bits % C = u
    BY <1>1, <1>3, <2>1, Division
  <2> QED BY <1>4, <1>6, <2>2 DEF CkPriobitsToInts, C
<1> QED BY <1>5, <1>6

\* Of every priority the last word has a bit in use.
LEMMA LastWord ==
  ASSUME NEW bits \in Nat \ {0}
  PROVE  \E W \in Nat \ {0} : \E u \in 1..CkIntbits : bits = (W - 1) * CkIntbits + u
<1> DEFINE C == CkIntbits
           W == (bits + C - 1) \div C
           r == (bits + C - 1) % C
<1>1. C \in Nat \ {0}
  BY PriorityAssumption
<1>2. bits + C - 1 \in Nat
  BY <1>1
<1>3. W \in Nat /\ r \in 0..(C - 1) /\ bits + C - 1 = C * W + r
  <2> HIDE DEF C
  <2> QED BY <1>1, <1>2, Divided
<1> HIDE DEF C, W, r
<1>4. W # 0
  <2>1. W = 0 => C * W = 0
    BY <1>1
  <2> QED BY <1>1, <1>3, <2>1
<1>5. (W - 1) * C = C * W - C /\ C * W \in Nat
  BY <1>1, <1>3
<1>6. r + 1 \in 1..C /\ bits = (W - 1) * C + (r + 1)
  BY <1>1, <1>3, <1>5
<1> QED BY <1>3, <1>4, <1>6 DEF C

\* The place of bit i: its word and, counted from the least, its bit in the word.
LEMMA Places ==
  ASSUME NEW L \in Nat, NEW i \in 1..(L * CkIntbits)
  PROVE  /\ 1 + (i - 1) \div CkIntbits \in 1..L
         /\ CkIntbits - 1 - ((i - 1) % CkIntbits) \in WordBit
         /\ i = (1 + (i - 1) \div CkIntbits) * CkIntbits - (CkIntbits - 1 - ((i - 1) % CkIntbits))
<1> DEFINE C == CkIntbits
           q == (i - 1) \div C
           r == (i - 1) % C
<1>1. C \in Nat \ {0} /\ L * C \in Nat /\ i \in 1..(L * C)
  BY PriorityAssumption
<1>2. i - 1 \in Nat
  BY <1>1
<1>3. q \in Nat /\ r \in 0..(C - 1) /\ i - 1 = C * q + r
  <2> HIDE DEF C
  <2> QED BY <1>1, <1>2, Divided
<1> HIDE DEF C, q, r
<1>4. (1 + q) * C = C * q + C /\ C * q = q * C /\ C * q \in Nat
  BY <1>1, <1>3
<1>5. 1 + q \in 1..L
  <2>1. L <= q => L * C <= q * C
    BY <1>1, <1>3, Growing
  <2> QED BY <1>1, <1>3, <1>4, <2>1
<1>6. C - 1 - r \in 0..(C - 1) /\ i = (1 + q) * C - (C - 1 - r)
  BY <1>1, <1>3, <1>4
<1> QED BY <1>5, <1>6 DEF WordBit, C, q, r

\* A word and a bit of it are the place of a bit.
LEMMA PlaceOf ==
  ASSUME NEW L \in Nat, NEW w \in 1..L, NEW b \in WordBit
  PROVE  /\ w * CkIntbits - b \in 1..(L * CkIntbits)
         /\ \A v \in 1..L : \A a \in WordBit :
              v < w \/ (v = w /\ a > b) => v * CkIntbits - a < w * CkIntbits - b
<1> DEFINE C == CkIntbits
<1>1. C \in Nat \ {0} /\ b \in 0..(C - 1)
  BY PriorityAssumption DEF WordBit
<1>2. w * C >= C /\ w * C \in Int /\ w * C <= L * C /\ L * C \in Int
  <2>1. 1 * C <= w * C
    <3> HIDE DEF C
    <3>1. C \in Nat /\ 1 \in Int /\ w \in Int /\ 1 <= w
      BY <1>1
    <3> QED BY <3>1, Growing
  <2>2. w * C <= L * C /\ w * C \in Int /\ L * C \in Int
    <3> HIDE DEF C
    <3>1. C \in Nat /\ L \in Int /\ w \in Int /\ w <= L
      BY <1>1
    <3> QED BY <3>1, Growing
  <2> HIDE DEF C
  <2> QED BY <1>1, <2>1, <2>2
<1>3. ASSUME NEW v \in 1..L, NEW a \in WordBit, v < w \/ (v = w /\ a > b)
      PROVE  v * C - a < w * C - b
  <2>1. a \in 0..(C - 1)
    BY DEF WordBit
  <2> HIDE DEF C
  <2>2. CASE v < w
    <3>1. (v + 1) * C <= w * C /\ (v + 1) * C = v * C + C /\ v * C \in Int
      <4>1. C \in Nat /\ v + 1 \in Int /\ w \in Int /\ v + 1 <= w /\ v \in Int
        BY <1>1, <2>2
      <4> QED BY <4>1, Growing
    <3> QED BY <1>1, <1>2, <2>1, <3>1
  <2>3. CASE v = w /\ a > b
    BY <1>1, <1>2, <2>1, <2>3
  <2> QED BY <1>3, <2>2, <2>3
<1>4. w * C - b \in 1..(L * C)
  <2> HIDE DEF C
  <2> QED BY <1>1, <1>2
<1> QED BY <1>3, <1>4

-----------------------------------------------------------------------------
(* The words of a child. *)

\* Position p of the bits E is 1.
On(E, p) == p \in DOMAIN E /\ E[p]

\* The words q hold the bits E, from the most significant end on, and no other 1.
Spells(q, E) ==
  \A w \in 1..Len(q) : \A b \in WordBit : b \in q[w] <=> On(E, w * CkIntbits - b)

\* F has the bits of E and, behind them, k bits of word.
Extends(F, E, k, word) ==
  /\ F \in Seq(BOOLEAN) /\ Len(F) = Len(E) + k
  /\ \A p \in Nat \ {0} :
       /\ p <= Len(E) => (On(F, p) <=> On(E, p))
       /\ p > Len(E) => ~On(E, p) /\ (On(F, p) <=> k + Len(E) - p \in word)

\* What is at the positions of a priority with the number of a child appended.
LEMMA Positions ==
  ASSUME NEW E \in Seq(BOOLEAN), NEW kids \in KidCounts, NEW c \in 0..(kids - 1)
  PROVE  Extends(E \o Number(kids, c), E, Log(kids), WordOf[c])
<1> DEFINE N == Number(kids, c)
           F == E \o N
           k == Log(kids)
           n == Len(E)
<1>1. kids \in Nat \ {0} /\ c \in Nat
  BY PriorityAssumption
<1>2. /\ N \in Seq(BOOLEAN) /\ k \in Nat /\ Len(N) = k
      /\ \A j \in 1..k : N[j] = (k - j \in WordOf[c])
  BY <1>1, NumberSeq
<1>3. WordOf[c] \in SUBSET (0..(k - 1))
  BY NumberFits
<1> HIDE DEF N, k
<1>4. /\ F \in Seq(BOOLEAN) /\ Len(F) = n + k /\ n \in Nat
      /\ \A i \in 1..(n + k) : F[i] = IF i <= n THEN E[i] ELSE N[i - n]
  <2>1. n \in Nat
    BY LenProperties
  <2>2. /\ F \in Seq(BOOLEAN) /\ Len(F) = Len(E) + Len(N)
        /\ \A i \in 1..(Len(E) + Len(N)) : F[i] = IF i <= Len(E) THEN E[i] ELSE N[i - Len(E)]
    <3>1. \A s, t \in Seq(BOOLEAN) :
            /\ s \o t \in Seq(BOOLEAN) /\ Len(s \o t) = Len(s) + Len(t)
            /\ \A i \in 1..(Len(s) + Len(t)) :
                 (s \o t)[i] = IF i <= Len(s) THEN s[i] ELSE t[i - Len(s)]
      BY ConcatProperties, Zenon
    <3> QED BY <1>2, <3>1, Zenon
  <2> QED BY <1>2, <2>1, <2>2, Zenon
<1>5. DOMAIN F = 1..(n + k) /\ DOMAIN E = 1..n
  <2> HIDE DEF F
  <2> QED BY <1>4, LenProperties
<1> HIDE DEF F, n
<1>6. ASSUME NEW p \in Nat \ {0}
      PROVE  /\ p <= n => (On(F, p) <=> On(E, p))
             /\ p > n => ~On(E, p) /\ (On(F, p) <=> k + n - p \in WordOf[c])
  <2>1. CASE p <= n
    <3>1. p \in 1..n /\ p \in 1..(n + k) /\ ~(p > n)
      BY <1>2, <1>4, <2>1
    <3>2. F[p] = E[p]
      BY <1>4, <2>1, <3>1
    <3> QED BY <1>5, <2>1, <3>1, <3>2 DEF On
  <2>2. CASE p > n
    <3>1. p \notin 1..n /\ ~(p <= n)
      BY <1>4, <2>2
    <3>2. CASE p <= n + k
      <4>1. p \in 1..(n + k) /\ p - n \in 1..k /\ k - (p - n) = k + n - p
        BY <1>2, <1>4, <2>2, <3>2
      <4>2. F[p] = N[p - n]
        BY <1>4, <3>1, <4>1
      <4>3. F[p] = (k + n - p \in WordOf[c])
        BY <1>2, <4>1, <4>2
      <4> QED BY <1>5, <3>1, <4>1, <4>3, Zenon DEF On
    <3>3. CASE p > n + k
      <4>1. p \notin 1..(n + k) /\ k + n - p \notin 0..(k - 1)
        BY <1>2, <1>4, <3>3
      <4> QED BY <1>3, <1>5, <3>1, <4>1, Zenon DEF On
    <3>4. p <= n + k \/ p > n + k
      BY <1>2, <1>4
    <3> QED BY <3>2, <3>3, <3>4
  <2>3. p <= n \/ p > n
    BY <1>4
  <2> QED BY <2>1, <2>2, <2>3
<1>7. Extends(F, E, k, WordOf[c])
  BY <1>4, <1>6 DEF Extends, n
<1> QED BY <1>7 DEF F, N, k

\* What is in a word shifted to the left.
LEMMA Leftwards ==
  ASSUME NEW word \in SUBSET Nat, NEW n \in WordBit
  PROVE  /\ ShiftLeft(word, n) \in SUBSET WordBit
         /\ \A x \in WordBit : x \in ShiftLeft(word, n) <=> x - n \in word
<1>1. ShiftLeft(word, n) = {b + n : b \in word} \cap WordBit
  BY DEF ShiftLeft
<1>2. n \in Int /\ WordBit \in SUBSET Int
  BY PriorityAssumption DEF WordBit
<1>3. \A x \in Int : x \in {b + n : b \in word} <=> x - n \in word
  BY <1>2
<1> QED BY <1>1, <1>2, <1>3

\* What is in a word shifted to the right.
LEMMA Rightwards ==
  ASSUME NEW word \in SUBSET Nat, NEW n \in WordBit
  PROVE  \A x \in Int : x \in ShiftRight(word, n) <=> x >= 0 /\ x + n \in word
<1>1. ShiftRight(word, n) = {b - n : b \in {b \in word : b >= n}}
  BY DEF ShiftRight
<1>2. n \in Int
  BY PriorityAssumption DEF WordBit
<1>3. ASSUME NEW x \in Int, x \in ShiftRight(word, n)
      PROVE  x >= 0 /\ x + n \in word
  <2>1. PICK b \in word : b >= n /\ x = b - n
    BY <1>1, <1>3
  <2>2. b \in Int /\ x + n = b
    BY <1>2, <2>1
  <2> QED BY <1>2, <2>1, <2>2
<1>4. ASSUME NEW x \in Int, x >= 0, x + n \in word
      PROVE  x \in ShiftRight(word, n)
  <2>1. x + n >= n /\ x = (x + n) - n
    BY <1>2, <1>4
  <2> QED BY <1>1, <1>4, <2>1
<1> QED BY <1>3, <1>4

\* A number of bits that a UShort holds does not wrap.
LEMMA NoWrap ==
  ASSUME NEW n \in Nat, n < UShortRange
  PROVE  n % UShortRange = n
<1>1. UShortRange \in Nat \ {0}
  BY DepthAssumption
<1>2. n = UShortRange * 0 + n /\ n \in 0..(UShortRange - 1) /\ 0 \in Nat
  BY <1>1
<1> QED BY <1>1, <1>2, Division

\* The words of the first child of the root hold its bits.
LEMMA FirstChild ==
  ASSUME NEW kids \in KidCounts, NEW c \in 0..(kids - 1), NEW F,
         F = <<FALSE>> \o Number(kids, c), 1 + Log(kids) < UShortRange
  PROVE  LET words == getPriorityInfo(1, <<>>, Log(kids), WordOf[c])
         IN /\ words \in Seq(SUBSET WordBit) /\ Len(words) = CkPriobitsToInts(1 + Log(kids))
            /\ Spells(words, F)
<1> DEFINE C == CkIntbits
           k == Log(kids)
           word == WordOf[c]
           s == C - (1 + k)
           words == getPriorityInfo(1, <<>>, k, word)
<1>1. C \in Nat \ {0} /\ k \in 0..(C - 1) /\ word \in SUBSET (0..(k - 1))
  BY PriorityAssumption, NumberFits
<1>2. /\ F \in Seq(BOOLEAN) /\ Len(F) = 1 + k
      /\ \A p \in Nat \ {0} :
           /\ p <= 1 => (On(F, p) <=> On(<<FALSE>>, p))
           /\ p > 1 => (On(F, p) <=> k + 1 - p \in word)
  <2> DEFINE E == <<FALSE>>
  <2>1. E \in Seq(BOOLEAN) /\ Len(E) = 1
    OBVIOUS
  <2>2. F = E \o Number(kids, c)
    OBVIOUS
  <2> HIDE DEF E
  <2>3. Extends(F, E, k, word)
    BY <2>1, <2>2, Positions
  <2> HIDE DEF k, word
  <2> QED BY <2>1, <2>3, Zenon DEF Extends, E
<1>3. words = <<ShiftLeft(word, s)>>
  <2>1. (1 + k) % UShortRange = 1 + k
    BY <1>1, NoWrap
  <2> QED BY <2>1, Zenon DEF getPriorityInfo
<1>4. word \in SUBSET Nat /\ s \in WordBit
  BY <1>1 DEF WordBit
<1>5. /\ ShiftLeft(word, s) \in SUBSET WordBit
      /\ \A x \in WordBit : x \in ShiftLeft(word, s) <=> x - s \in word
  <2> HIDE DEF word, s
  <2> QED BY <1>4, Leftwards
<1>6. CkPriobitsToInts(1 + k) = 1
  <2>1. 1 \in Nat \ {0} /\ 1 + k \in 1..CkIntbits /\ 1 + k \in Nat
    BY <1>1
  <2>2. 1 + k = (1 - 1) * CkIntbits + (1 + k)
    BY <1>1
  <2> HIDE DEF k
  <2> QED BY <2>1, <2>2, WordCount
<1>7. ~On(<<FALSE>>, 1)
  BY DEF On
<1>8. ASSUME NEW x \in WordBit
      PROVE  x - s \in word <=> On(F, C - x)
  <2>1. x \in 0..(C - 1) /\ C - x \in Nat \ {0}
    BY <1>1, <1>8 DEF WordBit
  <2>2. CASE x = C - 1
    <3>1. C - x = 1 /\ x - s \notin word
      BY <1>1, <2>2
    <3> HIDE DEF word, k, s, C
    <3> QED BY <1>2, <1>7, <2>1, <3>1
  <2>3. CASE x # C - 1
    <3>1. C - x > 1 /\ k + 1 - (C - x) = x - s
      BY <1>1, <2>1, <2>3
    <3> HIDE DEF word, k, s, C
    <3> QED BY <1>2, <2>1, <3>1
  <2> QED BY <2>2, <2>3
<1>9. Spells(words, F)
  <2> HIDE DEF word, k, s, words
  <2>1. Len(words) = 1 /\ words[1] = ShiftLeft(word, s)
    BY <1>3
  <2>2. \A w \in 1..Len(words) : w = 1 /\ w * CkIntbits = C
    BY <1>1, <2>1
  <2> QED BY <1>5, <1>8, <2>1, <2>2 DEF Spells
<1>10. words \in Seq(SUBSET WordBit) /\ Len(words) = 1
  <2> HIDE DEF word, s, words
  <2> QED BY <1>3, <1>5
<1> QED BY <1>6, <1>9, <1>10

\* The words of a child of any other chare hold its bits, wherever they end.
LEMMA LaterChild ==
  ASSUME NEW ptr \in Seq(SUBSET WordBit), NEW E \in Seq(BOOLEAN), Len(E) # 0,
         Len(ptr) = CkPriobitsToInts(Len(E)), Spells(ptr, E),
         NEW kids \in KidCounts, NEW c \in 0..(kids - 1), NEW F, F = E \o Number(kids, c),
         Len(E) + Log(kids) < UShortRange
  PROVE  LET words == getPriorityInfo(Len(E), ptr, Log(kids), WordOf[c])
         IN /\ words \in Seq(SUBSET WordBit) /\ Len(words) = CkPriobitsToInts(Len(E) + Log(kids))
            /\ Spells(words, F)
<1> DEFINE C == CkIntbits
           n == Len(E)
           k == Log(kids)
           word == WordOf[c]
           words == getPriorityInfo(n, ptr, k, word)
<1>1. C \in Nat \ {0} /\ k \in 0..(C - 1) /\ word \in SUBSET (0..(k - 1))
  BY PriorityAssumption, NumberFits
<1>2. n \in Nat \ {0}
  BY LenProperties
<1>3. Extends(F, E, k, word)
  BY Positions
<1>4. PICK W \in Nat \ {0} : \E u \in 1..C : n = (W - 1) * C + u
  <2> HIDE DEF n
  <2> QED BY <1>2, LastWord
<1>5. PICK u \in 1..C : n = (W - 1) * C + u
  BY <1>4
<1> DEFINE P == (W - 1) * C
<1>6. P \in Nat /\ n = P + u /\ W * C = P + C /\ (W + 1) * C = P + 2 * C /\ u \in 1..C
  <2> HIDE DEF C, n
  <2>1. W * C \in Nat /\ P = W * C - C /\ (W + 1) * C = W * C + C
    BY <1>1, <1>4
  <2>2. 0 * C <= P
    BY <1>1, <1>4, Growing
  <2> QED BY <1>1, <1>4, <1>5, <2>1, <2>2
<1>7. CkPriobitsToInts(n) = W /\ n % C = IF u = C THEN 0 ELSE u
  <2>1. n \in Nat /\ W \in Nat \ {0} /\ u \in 1..CkIntbits /\ n = (W - 1) * CkIntbits + u
    BY <1>2, <1>4, <1>5
  <2> QED BY <2>1, WordCount
<1>8. Len(ptr) = W /\ ptr # <<>> /\ W \in 1..W /\ W \in Nat \ {0}
  <2>1. Len(ptr) = W
    BY <1>7
  <2> QED BY <1>4, <2>1, EmptySeq
<1>9. \A w \in 1..W : \A b \in WordBit : b \in ptr[w] <=> On(E, w * C - b)
  BY <1>8 DEF Spells
<1>10. word \in SUBSET Nat /\ WordBit = 0..(C - 1) /\ (n + k) % UShortRange = n + k
  <2>1. (n + k) % UShortRange = n + k
    BY <1>1, <1>2, NoWrap
  <2> QED BY <1>1, <2>1 DEF WordBit
<1> HIDE DEF C, n, k, word, P, words
<1>11. \A p \in Nat \ {0} :
         /\ p <= n => (On(F, p) <=> On(E, p))
         /\ p > n => ~On(E, p) /\ (On(F, p) <=> k + n - p \in word)
  BY <1>3 DEF Extends, n
\* Words before the last one that the parent has are as the child needs them.
<1>12. ASSUME NEW w \in 1..(W - 1), NEW x \in WordBit
       PROVE  x \in ptr[w] <=> On(F, w * C - x)
  <2>1. w * C <= P /\ w * C >= C
    <3>1. w * C <= (W - 1) * C /\ 1 * C <= w * C
      BY <1>1, <1>8, Growing
    <3> QED BY <1>1, <3>1 DEF P
  <2>2. w * C \in Int /\ w \in 1..W
    BY <1>1, <1>8
  <2>3. w * C - x \in Nat \ {0} /\ w * C - x <= n
    <3> DEFINE wC == w * C
    <3>1. wC \in Int /\ wC <= P /\ wC >= C
      BY <2>1, <2>2
    <3> HIDE DEF wC
    <3>2. wC - x \in Nat \ {0} /\ wC - x <= n
      BY <1>1, <1>6, <1>10, <3>1
    <3> QED BY <3>2 DEF wC
  <2> QED BY <1>9, <1>11, <2>2, <2>3
\* The last word has a place for what its free bits take.
<1>13. ASSUME NEW x \in WordBit
       PROVE  /\ x >= C - u => (x \in ptr[W] <=> On(F, W * C - x))
              /\ x < C - u => x \notin ptr[W] /\ (On(F, W * C - x) <=> x + (k + u - C) \in word)
  <2>1. W * C - x \in Nat \ {0} /\ W * C - x = P + C - x
    BY <1>1, <1>6, <1>10
  <2>2. x \in ptr[W] <=> On(E, W * C - x)
    BY <1>8, <1>9
  <2>3. ASSUME x >= C - u
        PROVE  W * C - x <= n
    BY <1>1, <1>6, <1>10, <2>1, <2>3
  <2>4. ASSUME x < C - u
        PROVE  W * C - x > n /\ k + n - (W * C - x) = x + (k + u - C)
    BY <1>1, <1>6, <1>10, <2>1, <2>4
  <2> QED BY <1>11, <2>1, <2>2, <2>3, <2>4
\* A new word holds nothing but what is left of the number.
<1>14. ASSUME NEW x \in WordBit
       PROVE  On(F, (W + 1) * C - x) <=> x + (k + u - 2 * C) \in word
  <2>1. (W + 1) * C - x \in Nat \ {0} /\ (W + 1) * C - x > n
    BY <1>1, <1>6, <1>10
  <2>2. k + n - ((W + 1) * C - x) = x + (k + u - 2 * C)
    BY <1>1, <1>6, <1>10
  <2> QED BY <1>11, <2>1, <2>2
\* The number fits in the free bits.
<1>15. CASE u + k <= C
  <2> DEFINE s == C - (u + k)
  <2>1. s \in WordBit /\ n + k = P + (u + k) /\ u + k \in 1..C /\ n + k \in Nat
    BY <1>1, <1>6, <1>10, <1>15
  <2>2. CkPriobitsToInts(n + k) = W /\ (n + k) % C = IF u + k = C THEN 0 ELSE u + k
    BY <1>8, <2>1, WordCount DEF P, C
  <2>3. Padding(n + k) = s
    BY <1>1, <1>6, <2>2 DEF Padding, C
  <2>4. /\ ShiftLeft(word, s) \in SUBSET WordBit
        /\ \A x \in WordBit : x \in ShiftLeft(word, s) <=> x - s \in word
    <3> HIDE DEF s
    <3> QED BY <1>10, <2>1, Leftwards
  <2> HIDE DEF s
  <2>5. words = [ptr EXCEPT ![W] = @ \cup ShiftLeft(word, s)]
    <3>1. ~(CkPriobitsToInts(n + k) > CkPriobitsToInts(n))
      BY <1>7, <1>8, <2>2
    <3> QED BY <1>7, <1>8, <1>10, <2>3, <3>1 DEF getPriorityInfo, words
  <2>6. ptr[W] \cup ShiftLeft(word, s) \in SUBSET WordBit
    BY <1>8, <2>4, ElementOfSeq
  <2>7. /\ words \in Seq(SUBSET WordBit) /\ Len(words) = W
        /\ \A w \in 1..W : words[w] = IF w = W THEN ptr[W] \cup ShiftLeft(word, s) ELSE ptr[w]
    BY <1>8, <2>5, <2>6, ExceptSeq
  <2>8. ASSUME NEW w \in 1..W, NEW x \in WordBit
        PROVE  x \in words[w] <=> On(F, w * C - x)
    <3>1. CASE w = W
      <4>1. x \in words[w] <=> x \in ptr[W] \/ x - s \in word
        BY <2>4, <2>7, <3>1
      <4>2. CASE x >= C - u
        <5>1. x - s \notin 0..(k - 1)
          BY <1>1, <1>6, <1>10, <4>2 DEF s
        <5> QED BY <1>1, <1>13, <3>1, <4>1, <4>2, <5>1
      <4>3. CASE x < C - u
        <5>1. x - s = x + (k + u - C)
          BY <1>1, <1>6, <1>10 DEF s
        <5> QED BY <1>13, <3>1, <4>1, <4>3, <5>1
      <4>4. x >= C - u \/ x < C - u
        BY <1>1, <1>6, <1>10
      <4> QED BY <4>2, <4>3, <4>4
    <3>2. CASE w # W
      <4>1. w \in 1..(W - 1)
        BY <1>8, <3>2
      <4> QED BY <1>12, <2>7, <3>2, <4>1
    <3> QED BY <3>1, <3>2
  <2>9. Spells(words, F)
    BY <2>7, <2>8 DEF Spells, C
  <2> QED BY <2>2, <2>7, <2>9 DEF words, n, k, word
\* The number needs another word.
<1>16. CASE u + k > C
  <2> DEFINE s == 2 * C - (u + k)
             old == IF u = C THEN ptr[W] ELSE ptr[W] \cup ShiftRight(word, k - (C - u))
             base == [ptr EXCEPT ![W] = old]
  <2>1. s \in WordBit /\ n + k = P + C + (u + k - C) /\ u + k - C \in 1..C /\ n + k \in Nat
    BY <1>1, <1>6, <1>10, <1>16
  <2>2. CkPriobitsToInts(n + k) = W + 1
    <3>1. W + 1 \in Nat \ {0} /\ ((W + 1) - 1) * CkIntbits = P + C
      BY <1>6, <1>8 DEF C
    <3> HIDE DEF s
    <3> QED BY <2>1, <3>1, WordCount DEF C
  <2>3. /\ ShiftLeft(word, s) \in SUBSET WordBit
        /\ \A x \in WordBit : x \in ShiftLeft(word, s) <=> x - s \in word
    <3> HIDE DEF s
    <3> QED BY <1>10, <2>1, Leftwards
  <2>4. ptr[W] \in SUBSET WordBit
    BY <1>8, ElementOfSeq
  <2>5. ASSUME u # C
        PROVE  /\ k - (C - u) \in WordBit
               /\ \A x \in Int : x \in ShiftRight(word, k - (C - u)) <=> x >= 0 /\ x + (k - (C - u)) \in word
    <3>1. k - (C - u) \in WordBit
      BY <1>1, <1>6, <1>10, <1>16, <2>5
    <3> QED BY <1>10, <3>1, Rightwards
  <2>6. old \in SUBSET WordBit
    <3>1. ASSUME u # C, NEW x \in ShiftRight(word, k - (C - u))
          PROVE  x \in WordBit
      <4>1. x \in Int
        <5> DEFINE r == k - (C - u)
        <5>1. ShiftRight(word, r) = {b - r : b \in {b \in word : b >= r}} /\ r \in Int
          BY <1>1, <1>6, <2>5, <3>1 DEF ShiftRight
        <5> HIDE DEF r
        <5>2. \A y \in ShiftRight(word, r) : y \in Int
          BY <1>10, <5>1
        <5> QED BY <3>1, <5>2 DEF r
      <4>2. x >= 0 /\ x + (k - (C - u)) \in 0..(k - 1)
        BY <1>1, <2>5, <3>1, <4>1
      <4> QED BY <1>1, <1>6, <1>10, <4>1, <4>2
    <3> QED BY <2>4, <3>1
  <2>7. /\ base \in Seq(SUBSET WordBit) /\ Len(base) = W
        /\ \A w \in 1..W : base[w] = IF w = W THEN old ELSE ptr[w]
    <3> HIDE DEF old
    <3> QED BY <1>8, <2>6, ExceptSeq
  <2>8. words = Append(base, ShiftLeft(word, s))
    <3>1. CkPriobitsToInts(n + k) > CkPriobitsToInts(n)
      BY <1>7, <1>8, <2>2
    <3>2. CASE u = C
      <4>1. n % C = 0 /\ base = ptr /\ C - k = s
        <5>1. base = ptr
          <6>1. \A w \in 1..W : base[w] = ptr[w]
            BY <2>7, <3>2
          <6> HIDE DEF base
          <6> QED BY <1>8, <2>7, <6>1, SeqEqual
        <5> QED BY <1>1, <1>7, <3>2, <5>1
      <4>2. words = Append(ptr, ShiftLeft(word, C - k))
        BY <1>8, <3>1, <4>1 DEF getPriorityInfo, words, C
      <4> QED BY <4>1, <4>2
    <3>3. CASE u # C
      <4>1. n % C = u /\ n % C # 0 /\ C - k + (C - u) = s
        BY <1>1, <1>6, <1>7, <3>3
      <4>2. words = Append([ptr EXCEPT ![W] = @ \cup ShiftRight(word, k - (C - u))],
                           ShiftLeft(word, C - k + (C - u)))
        <5> HIDE DEF s, old, base
        <5> QED BY <1>7, <1>8, <3>1, <4>1 DEF getPriorityInfo, words, C, HigherBits
      <4>3. base = [ptr EXCEPT ![W] = @ \cup ShiftRight(word, k - (C - u))]
        BY <3>3
      <4> QED BY <4>1, <4>2, <4>3
    <3> QED BY <3>2, <3>3
  <2> HIDE DEF base
  <2>9. /\ words \in Seq(SUBSET WordBit) /\ Len(words) = W + 1
        /\ words[W + 1] = ShiftLeft(word, s) /\ \A w \in 1..W : words[w] = base[w]
    <3> HIDE DEF s
    <3> QED BY <2>3, <2>7, <2>8, AppendProperties
  <2>10. ASSUME NEW w \in 1..(W + 1), NEW x \in WordBit
         PROVE  x \in words[w] <=> On(F, w * C - x)
    <3>1. CASE w = W + 1
      <4>1. x - s = x + (k + u - 2 * C)
        BY <1>1, <1>6, <1>10
      <4> HIDE DEF s
      <4> QED BY <1>14, <2>3, <2>9, <3>1, <4>1
    <3>2. CASE w = W
      <4>1. x \in words[w] <=> x \in old
        <5> HIDE DEF old
        <5> QED BY <1>8, <2>7, <2>9, <3>2
      <4>2. CASE u = C
        <5>1. x >= C - u
          BY <1>1, <1>6, <1>10, <4>2
        <5> QED BY <1>13, <3>2, <4>1, <4>2, <5>1
      <4>3. CASE u # C
        <5>1. x \in Int /\ x >= 0 /\ x + (k - (C - u)) = x + (k + u - C)
          BY <1>1, <1>6, <1>10
        <5>2. x \in words[w] <=> x \in ptr[W] \/ x + (k + u - C) \in word
          BY <2>5, <4>1, <4>3, <5>1
        <5>3. x >= C - u => x + (k + u - C) \notin 0..(k - 1)
          BY <1>1, <1>6, <1>10
        <5>4. x >= C - u \/ x < C - u
          BY <1>1, <1>6, <1>10
        <5> HIDE DEF old, s
        <5> QED BY <1>1, <1>13, <3>2, <5>2, <5>3, <5>4
      <4> QED BY <4>2, <4>3
    <3>3. CASE w \in 1..(W - 1)
      <4>1. w \in 1..W /\ w # W
        BY <1>8, <3>3
      <4> HIDE DEF old
      <4> QED BY <1>12, <2>7, <2>9, <3>3, <4>1
    <3>4. w = W + 1 \/ w = W \/ w \in 1..(W - 1)
      BY <1>8
    <3> QED BY <3>1, <3>2, <3>3, <3>4
  <2>11. Spells(words, F)
    <3> HIDE DEF s, old
    <3> QED BY <2>9, <2>10 DEF Spells, C
  <2> HIDE DEF s, old
  <2> QED BY <2>2, <2>9, <2>11 DEF words, n, k, word
<1>17. u + k <= C \/ u + k > C
  BY <1>1, <1>6
<1> QED BY <1>15, <1>16, <1>17

-----------------------------------------------------------------------------
(* The inductive invariant. *)

\* The bits of a chare at this depth are no more than a number in each level takes.
FewBits(bits, depth) == depth <= MaxDepth /\ bits <= 1 + depth * (CkIntbits - 1)

\* The priority of a chare is what its path stands for, its words hold that, and
\* its number of bits has not wrapped.
ChareOK(n) ==
  /\ n.path \in Path /\ FewBits(n.bits, Len(n.path))
  /\ n.bits = Len(Encoded[n.path]) /\ n.bits # 0
  /\ n.path = <<>> => n = Root
  /\ n.path # <<>> =>
       /\ n.ptr \in Seq(SUBSET WordBit) /\ Len(n.ptr) = CkPriobitsToInts(n.bits)
       /\ Spells(n.ptr, Encoded[n.path])

\* Where the bits D and E first differ it is E that has the 1.
Before(D, E) ==
  \E i \in DOMAIN D \cap DOMAIN E :
    ~On(D, i) /\ On(E, i) /\ \A j \in 1..(i - 1) : On(D, j) <=> On(E, j)

\* The two chares are in different branches.
Apart ==
  left.path # <<>> /\ right.path # <<>> /\ Before(Encoded[left.path], Encoded[right.path])

IInv == ChareOK(left) /\ ChareOK(right) /\ (left = right \/ Apart)

\* The root is as the invariant says.
LEMMA RootOK == ChareOK(Root)
<1>1. Root.path = <<>> /\ Root.bits = 1
  BY DEF Root
<1>2. <<>> \in Path
  BY EmptySeq DEF Path
<1>3. Len(Encoded[<<>>]) = 1
  BY EncodedEquation
<1>4. FewBits(1, Len(<<>>))
  BY PriorityAssumption DEF FewBits
<1> QED BY <1>1, <1>2, <1>3, <1>4 DEF ChareOK

\* One level deeper there is room for the number of one more child.
LEMMA RoomBelow ==
  ASSUME NEW bits \in Nat, NEW depth \in Nat, NEW k \in 0..(CkIntbits - 1),
         FewBits(bits, depth), depth < MaxDepth
  PROVE  FewBits(bits + k, depth + 1) /\ bits + k < UShortRange
<1> DEFINE K == CkIntbits - 1
<1>1. K \in Nat /\ k <= K /\ MaxDepth \in Nat
  BY PriorityAssumption
<1>2. bits <= 1 + depth * K /\ 1 + MaxDepth * K < UShortRange /\ UShortRange \in Nat
  BY DepthAssumption DEF FewBits
<1> HIDE DEF K
<1>3. (depth + 1) * K = depth * K + K /\ depth * K \in Nat
  BY <1>1
<1>4. (depth + 1) * K <= MaxDepth * K /\ MaxDepth * K \in Int
  BY <1>1, Growing
<1>5. bits + k <= 1 + (depth + 1) * K /\ bits + k < UShortRange
  <2> DEFINE a == depth * K
             m == MaxDepth * K
  <2>1. a \in Nat /\ m \in Int /\ a + K <= m /\ bits <= 1 + a /\ 1 + m < UShortRange
    BY <1>2, <1>3, <1>4
  <2> HIDE DEF a, m
  <2>2. bits + k <= 1 + (a + K) /\ bits + k < UShortRange
    BY <1>1, <1>2, <2>1
  <2> QED BY <1>3, <2>2 DEF a
<1>6. depth + 1 <= MaxDepth
  BY <1>1
<1> QED BY <1>5, <1>6 DEF FewBits, K

\* A child has the bits of its parent and then its number.
LEMMA ChildOK ==
  ASSUME NEW n, ChareOK(n), Len(n.path) < MaxDepth,
         NEW kids \in KidCounts, NEW c \in 0..(kids - 1)
  PROVE  /\ ChareOK(Child(n, kids, c)) /\ Child(n, kids, c).path # <<>>
         /\ Encoded[n.path] \in Seq(BOOLEAN)
         /\ Extends(Encoded[Child(n, kids, c).path], Encoded[n.path], Log(kids), WordOf[c])
<1> DEFINE E == Encoded[n.path]
           child == Child(n, kids, c)
           F == E \o Number(kids, c)
           k == Log(kids)
<1>1. n.path \in Path /\ n.bits = Len(E) /\ Len(E) # 0 /\ E \in Seq(BOOLEAN)
  BY EncodedEquation DEF ChareOK
<1>2. kids \in Nat \ {0} /\ c \in Nat /\ <<kids, c>> \in (Nat \ {0}) \X Nat
  BY PriorityAssumption
<1>3. /\ child.bits = n.bits + k /\ child.path = Append(n.path, <<kids, c>>)
      /\ child.ptr = getPriorityInfo(n.bits, n.ptr, k, WordOf[c])
      /\ n.bits + k < UShortRange /\ FewBits(n.bits + k, Len(n.path) + 1)
  <2>1. Len(n.path) \in Nat /\ n.bits \in Nat
    BY <1>1, LenProperties DEF Path
  <2>2. k \in 0..(CkIntbits - 1) /\ k \in Nat
    BY NumberFits, PriorityAssumption
  <2>3. n.bits + k < UShortRange /\ FewBits(n.bits + k, Len(n.path) + 1)
    <3> HIDE DEF k
    <3> QED BY <2>1, <2>2, RoomBelow DEF ChareOK
  <2>4. (n.bits + k) % UShortRange = n.bits + k
    <3> HIDE DEF k
    <3> QED BY <2>1, <2>2, <2>3, NoWrap
  <2> QED BY <2>3, <2>4 DEF Child
<1>4. /\ child.path \in Path /\ child.path # <<>> /\ Encoded[child.path] = F
      /\ Len(child.path) = Len(n.path) + 1
  <2>1. Encoded[Append(n.path, <<kids, c>>)] = F
    BY <1>1, <1>2, EncodedEquation, Zenon
  <2> DEFINE last == <<kids, c>>
  <2>2. last \in (Nat \ {0}) \X Nat
    BY <1>2
  <2> HIDE DEF last
  <2>3. /\ Append(n.path, last) \in Path /\ Append(n.path, last) # <<>>
        /\ Len(Append(n.path, last)) = Len(n.path) + 1
    <3>1. Append(n.path, last) \in Path /\ Append(n.path, last) # <<>>
      BY <1>1, <2>2, AboveShorter
    <3>2. Len(Append(n.path, last)) = Len(n.path) + 1
      <4> DEFINE S == (Nat \ {0}) \X Nat
      <4>1. n.path \in Seq(S) /\ last \in S
        BY <1>1, <2>2 DEF Path
      <4> HIDE DEF S
      <4> QED BY <4>1, AppendProperties
    <3> QED BY <3>1, <3>2
  <2> QED BY <1>3, <2>1, <2>3, Zenon DEF last
<1>5. Extends(F, E, k, WordOf[c])
  BY <1>1, Positions
<1>6. Len(F) = Len(E) + k /\ k \in Nat /\ Len(E) \in Nat
  BY <1>1, <1>2, <1>5, NumberSeq, LenProperties DEF Extends
<1>7. child.bits = Len(F) /\ child.bits # 0
  BY <1>1, <1>3, <1>6
<1>8. /\ child.ptr \in Seq(SUBSET WordBit) /\ Len(child.ptr) = CkPriobitsToInts(child.bits)
      /\ Spells(child.ptr, F)
  <2>1. CASE n.path = <<>>
    <3>1. n.bits = 1 /\ n.ptr = <<>> /\ E = <<FALSE>>
      BY <2>1, EncodedEquation DEF ChareOK, Root
    <3>2. F = <<FALSE>> \o Number(kids, c)
      BY <3>1
    <3>3. 1 + Log(kids) < UShortRange
      BY <1>3, <3>1
    <3> HIDE DEF F, child
    <3> QED BY <1>3, <3>1, <3>2, <3>3, FirstChild
  <2>2. CASE n.path # <<>>
    <3>1. /\ n.ptr \in Seq(SUBSET WordBit) /\ Len(n.ptr) = CkPriobitsToInts(Len(E))
          /\ Spells(n.ptr, E)
      BY <1>1, <2>2 DEF ChareOK
    <3> DEFINE words == getPriorityInfo(Len(E), n.ptr, k, WordOf[c])
    <3>2. /\ words \in Seq(SUBSET WordBit) /\ Len(words) = CkPriobitsToInts(Len(E) + k)
          /\ Spells(words, F)
      <4>1. Len(E) + Log(kids) < UShortRange
        BY <1>1, <1>3
      <4> QED BY <1>1, <3>1, <4>1, LaterChild
    <3>3. child.ptr = words /\ child.bits = Len(E) + k
      BY <1>1, <1>3
    <3> HIDE DEF words, child, F, E, k
    <3> QED BY <3>2, <3>3
  <2> QED BY <2>1, <2>2
<1> HIDE DEF child, F
<1>9. ChareOK(child)
  BY <1>3, <1>4, <1>7, <1>8 DEF ChareOK
<1>10. Extends(Encoded[child.path], E, k, WordOf[c])
  BY <1>4, <1>5
<1> QED BY <1>1, <1>4, <1>9, <1>10 DEF child

\* F begins with the bits of E.
Begins(E, F) ==
  DOMAIN E \subseteq DOMAIN F /\ \A p \in DOMAIN E : On(F, p) <=> On(E, p)

\* What is longer begins with what it was made from.
LEMMA ExtendsBegins ==
  ASSUME NEW E \in Seq(BOOLEAN), NEW F, NEW k \in Nat, NEW word, Extends(F, E, k, word)
  PROVE  Begins(E, F)
<1>1. Len(E) \in Nat /\ DOMAIN E = 1..Len(E) /\ DOMAIN F = 1..(Len(E) + k)
  BY LenProperties DEF Extends
<1> QED BY <1>1 DEF Extends, Begins

\* Bits that differ do so whatever is appended to them.
LEMMA BeforeKept ==
  ASSUME NEW D \in Seq(BOOLEAN), NEW E \in Seq(BOOLEAN), NEW G, NEW H,
         Before(D, E), Begins(D, G), Begins(E, H)
  PROVE  Before(G, H)
<1>1. PICK i \in DOMAIN D \cap DOMAIN E :
        ~On(D, i) /\ On(E, i) /\ \A j \in 1..(i - 1) : On(D, j) <=> On(E, j)
  BY DEF Before
<1>2. \A j \in 1..(i - 1) : j \in DOMAIN D /\ j \in DOMAIN E
  <2>1. /\ DOMAIN D = 1..Len(D) /\ DOMAIN E = 1..Len(E) /\ Len(D) \in Nat /\ Len(E) \in Nat
    BY LenProperties
  <2> QED BY <2>1
<1> QED BY <1>1, <1>2 DEF Before, Begins

\* Of two children of a chare the one created first has the less bits.
LEMMA ChildrenApart ==
  ASSUME NEW n, ChareOK(n), Len(n.path) < MaxDepth,
         NEW kids \in KidCounts, NEW c \in 0..(kids - 1), NEW d \in 0..(kids - 1), c < d
  PROVE  Before(Encoded[Child(n, kids, c).path], Encoded[Child(n, kids, d).path])
<1> DEFINE E == Encoded[n.path]
           F == Encoded[Child(n, kids, c).path]
           G == Encoded[Child(n, kids, d).path]
           k == Log(kids)
           len == Len(E)
<1>1. E \in Seq(BOOLEAN) /\ Extends(F, E, k, WordOf[c]) /\ Extends(G, E, k, WordOf[d])
  BY ChildOK
<1>2. /\ k \in Nat /\ WordOf[c] \in SUBSET (0..(k - 1)) /\ WordOf[d] \in SUBSET (0..(k - 1))
      /\ c \in Nat /\ d \in Nat
  BY PriorityAssumption, NumberFits
<1>3. PICK b \in WordOf[d] \ WordOf[c] :
        \A e \in Nat : e > b => (e \in WordOf[c] <=> e \in WordOf[d])
  BY <1>2, HighestBit
<1> HIDE DEF E, F, G, k
<1>4. len \in Nat /\ Len(F) = len + k /\ Len(G) = len + k
  BY <1>1, LenProperties DEF Extends
<1>5. DOMAIN F = 1..(len + k) /\ DOMAIN G = 1..(len + k)
  BY <1>1, <1>4, LenProperties DEF Extends
<1>6. \A p \in Nat \ {0} :
        /\ p <= len => (On(F, p) <=> On(G, p))
        /\ p > len => /\ On(F, p) <=> k + len - p \in WordOf[c]
                      /\ On(G, p) <=> k + len - p \in WordOf[d]
  BY <1>1, Zenon DEF Extends
<1> HIDE DEF len
<1> DEFINE i == len + k - b
<1>7. i \in 1..(len + k) /\ i \in Nat \ {0} /\ i > len /\ k + len - i = b /\ b \in Nat
  BY <1>2, <1>3, <1>4
<1>8. ~On(F, i) /\ On(G, i)
  <2> HIDE DEF i
  <2> QED BY <1>3, <1>6, <1>7
<1>9. ASSUME NEW j \in 1..(i - 1)
      PROVE  On(F, j) <=> On(G, j)
  <2>1. CASE j <= len
    <3>1. j \in Nat \ {0}
      BY <1>7
    <3> QED BY <1>6, <2>1, <3>1
  <2>2. CASE j > len
    <3>1. k + len - j > b /\ k + len - j \in Nat /\ j \in Nat \ {0}
      BY <1>2, <1>4, <1>7, <2>2
    <3> HIDE DEF i
    <3> QED BY <1>3, <1>6, <2>2, <3>1
  <2>3. j <= len \/ j > len
    BY <1>4
  <2> QED BY <2>1, <2>2, <2>3
<1>10. Before(F, G)
  <2> HIDE DEF i
  <2> QED BY <1>5, <1>7, <1>8, <1>9 DEF Before
<1> QED BY <1>10 DEF F, G

\* The words of less bits come first.
LEMMA BeforeIsUrgent ==
  ASSUME NEW n, NEW m, ChareOK(n), ChareOK(m), n.path # <<>>, m.path # <<>>,
         Before(Encoded[n.path], Encoded[m.path])
  PROVE  Urgent(n, m)
<1> DEFINE C == CkIntbits
           D == Encoded[n.path]
           E == Encoded[m.path]
           L == Len(n.ptr)
           M == Len(m.ptr)
<1>1. /\ n.ptr \in Seq(SUBSET WordBit) /\ m.ptr \in Seq(SUBSET WordBit)
      /\ L = CkPriobitsToInts(Len(D)) /\ M = CkPriobitsToInts(Len(E))
      /\ Spells(n.ptr, D) /\ Spells(m.ptr, E)
      /\ D \in Seq(BOOLEAN) /\ E \in Seq(BOOLEAN)
  BY EncodedEquation DEF ChareOK
<1>2. L \in Nat /\ M \in Nat /\ DOMAIN n.ptr = 1..L /\ DOMAIN m.ptr = 1..M
  BY <1>1, LenProperties
<1>3. PICK i \in DOMAIN D \cap DOMAIN E :
        ~On(D, i) /\ On(E, i) /\ \A j \in 1..(i - 1) : On(D, j) <=> On(E, j)
  BY DEF Before
<1>4. \A bits \in Seq(BOOLEAN) : \A p \in DOMAIN bits :
        p \in 1..(CkPriobitsToInts(Len(bits)) * CkIntbits)
  <2> TAKE bits \in Seq(BOOLEAN)
  <2> TAKE p \in DOMAIN bits
  <2>1. Len(bits) \in Nat \ {0} /\ p \in 1..Len(bits)
    BY LenProperties
  <2> DEFINE len == Len(bits)
  <2> HIDE DEF len
  <2>2. len \in Nat \ {0} /\ p \in 1..len
    BY <2>1 DEF len
  <2>3. PICK W \in Nat \ {0} : \E u \in 1..CkIntbits : len = (W - 1) * CkIntbits + u
    BY <2>2, LastWord
  <2>4. PICK u \in 1..CkIntbits : len = (W - 1) * CkIntbits + u
    BY <2>3
  <2>5. CkPriobitsToInts(len) = W
    <3>1. len \in Nat
      BY <2>2
    <3> QED BY <2>3, <2>4, <3>1, WordCount
  <2>6. W * CkIntbits \in Nat /\ (W - 1) * CkIntbits = W * CkIntbits - CkIntbits
    BY <2>3, PriorityAssumption
  <2>7. p \in 1..(W * CkIntbits)
    BY <2>2, <2>4, <2>6, PriorityAssumption
  <2> QED BY <2>5, <2>7 DEF len
<1>5. i \in 1..(L * CkIntbits) /\ i \in 1..(M * CkIntbits)
  BY <1>1, <1>3, <1>4
<1> HIDE DEF D, E, L, M
<1> DEFINE w == 1 + (i - 1) \div CkIntbits
           b == CkIntbits - 1 - ((i - 1) % CkIntbits)
<1>6. w \in 1..L /\ w \in 1..M /\ b \in WordBit /\ i = w * CkIntbits - b
  BY <1>2, <1>5, Places
<1> HIDE DEF w, b
<1>7. b \in m.ptr[w] \ n.ptr[w]
  BY <1>1, <1>3, <1>6 DEF Spells, L, M
<1>8. ASSUME NEW v \in 1..w, NEW a \in WordBit, v < w \/ (v = w /\ a > b)
      PROVE  a \in n.ptr[v] <=> a \in m.ptr[v]
  <2>1. v \in 1..L /\ v \in 1..M
    BY <1>2, <1>6
  <2> DEFINE j == v * CkIntbits - a
  <2>2. j \in 1..(L * CkIntbits) /\ j < i
    BY <1>2, <1>6, <1>8, <2>1, PlaceOf
  <2>3. j \in 1..(i - 1)
    BY <2>2, <1>5, PriorityAssumption, <1>2
  <2>4. (a \in n.ptr[v] <=> On(D, j)) /\ (a \in m.ptr[v] <=> On(E, j))
    BY <1>1, <2>1 DEF Spells, L, M
  <2> HIDE DEF j
  <2> QED BY <1>3, <2>3, <2>4
<1>9. \A v \in 1..w : n.ptr[v] \in SUBSET WordBit /\ m.ptr[v] \in SUBSET WordBit
  BY <1>1, <1>2, <1>6, ElementOfSeq DEF L, M
<1>10. Less(n.ptr[w], m.ptr[w])
  <2>1. ASSUME NEW d \in n.ptr[w] \ m.ptr[w]
        PROVE  d < b
    <3>1. w \in 1..w /\ d \in WordBit /\ d # b /\ d \in Int /\ b \in Int
      BY <1>6, <1>7, <1>9, PriorityAssumption DEF WordBit
    <3>2. ~(d > b)
      BY <1>8, <2>1, <3>1
    <3> QED BY <3>1, <3>2
  <2> QED BY <1>7, <2>1 DEF Less
<1>11. ASSUME NEW v \in 1..(w - 1)
       PROVE  n.ptr[v] = m.ptr[v]
  <2>1. v \in 1..w /\ v < w
    BY <1>6
  <2>2. \A a \in WordBit : a \in n.ptr[v] <=> a \in m.ptr[v]
    BY <1>8, <2>1
  <2> QED BY <1>9, <2>1, <2>2
<1>12. w \in DOMAIN n.ptr \cap DOMAIN m.ptr
  BY <1>2, <1>6
<1> QED BY <1>10, <1>11, <1>12 DEF Urgent

\* The invariant holds of the root, and every chare created keeps it.
THEOREM Inductive == Spec => []IInv
<1>1. Init => IInv
  BY RootOK DEF Init, IInv
<1>2. IInv /\ [Next]_vars => IInv'
  <2> SUFFICES ASSUME IInv, [Next]_vars
               PROVE  IInv'
    OBVIOUS
  <2>1. ChareOK(left) /\ ChareOK(right) /\ (left = right \/ Apart)
    BY DEF IInv
  <2>2. CASE Together
    <3> PICK kids \in KidCounts : \E c \in 0..(kids - 1) : left' = Child(left, kids, c)
      BY <2>2 DEF Together
    <3>1. PICK c \in 0..(kids - 1) : left' = Child(left, kids, c)
      OBVIOUS
    <3>2. right' = left' /\ ChareOK(left)'
      <4>1. ChareOK(left')
        BY <2>1, <2>2, <3>1, ChildOK DEF Together
      <4> QED BY <2>2, <4>1 DEF Together, ChareOK
    <3> QED BY <3>2 DEF IInv, ChareOK
  <2>3. CASE Part
    <3>1. left = right
      BY <2>3 DEF Part
    <3> PICK kids \in KidCounts : \E c, d \in 0..(kids - 1) :
            c < d /\ left' = Child(left, kids, c) /\ right' = Child(right, kids, d)
      BY <2>3 DEF Part
    <3>2. PICK c \in 0..(kids - 1), d \in 0..(kids - 1) :
            c < d /\ left' = Child(left, kids, c) /\ right' = Child(right, kids, d)
      OBVIOUS
    <3>3. /\ ChareOK(left') /\ left'.path # <<>> /\ ChareOK(right') /\ right'.path # <<>>
      BY <2>1, <2>3, <3>1, <3>2, ChildOK DEF Part
    <3>4. Before(Encoded[left'.path], Encoded[right'.path])
      BY <2>1, <2>3, <3>1, <3>2, ChildrenApart DEF Part
    <3> QED BY <3>3, <3>4 DEF IInv, ChareOK, Apart
  <2>4. CASE DeeperLeft
    <3>1. Apart /\ right' = right
      BY <2>1, <2>4 DEF DeeperLeft
    <3> PICK kids \in KidCounts : \E c \in 0..(kids - 1) : left' = Child(left, kids, c)
      BY <2>4 DEF DeeperLeft
    <3>2. PICK c \in 0..(kids - 1) : left' = Child(left, kids, c)
      OBVIOUS
    <3>3. /\ ChareOK(left') /\ left'.path # <<>>
          /\ Encoded[left.path] \in Seq(BOOLEAN)
          /\ Extends(Encoded[left'.path], Encoded[left.path], Log(kids), WordOf[c])
      BY <2>1, <2>4, <3>2, ChildOK DEF DeeperLeft
    <3>4. Begins(Encoded[left.path], Encoded[left'.path])
      BY <3>3, PriorityAssumption, NumberSeq, ExtendsBegins
    <3>5. Encoded[right.path] \in Seq(BOOLEAN)
      BY <2>1, EncodedEquation DEF ChareOK
    <3>6. Before(Encoded[left'.path], Encoded[right.path])
      <4>1. Begins(Encoded[right.path], Encoded[right.path])
        BY DEF Begins
      <4> QED BY <3>1, <3>3, <3>4, <3>5, <4>1, BeforeKept DEF Apart
    <3> QED BY <2>1, <3>1, <3>3, <3>6 DEF IInv, ChareOK, Apart
  <2>5. CASE DeeperRight
    <3>1. Apart /\ left' = left
      BY <2>1, <2>5 DEF DeeperRight
    <3> PICK kids \in KidCounts : \E c \in 0..(kids - 1) : right' = Child(right, kids, c)
      BY <2>5 DEF DeeperRight
    <3>2. PICK c \in 0..(kids - 1) : right' = Child(right, kids, c)
      OBVIOUS
    <3>3. /\ ChareOK(right') /\ right'.path # <<>>
          /\ Encoded[right.path] \in Seq(BOOLEAN)
          /\ Extends(Encoded[right'.path], Encoded[right.path], Log(kids), WordOf[c])
      BY <2>1, <2>5, <3>2, ChildOK DEF DeeperRight
    <3>4. Begins(Encoded[right.path], Encoded[right'.path])
      BY <3>3, PriorityAssumption, NumberSeq, ExtendsBegins
    <3>5. Encoded[left.path] \in Seq(BOOLEAN)
      BY <2>1, EncodedEquation DEF ChareOK
    <3>6. Before(Encoded[left.path], Encoded[right'.path])
      <4>1. Begins(Encoded[left.path], Encoded[left.path])
        BY DEF Begins
      <4> QED BY <3>1, <3>3, <3>4, <3>5, <4>1, BeforeKept DEF Apart
    <3> QED BY <2>1, <3>1, <3>3, <3>6 DEF IInv, ChareOK, Apart
  <2>6. CASE UNCHANGED vars
    BY <2>1, <2>6 DEF vars, IInv, ChareOK, Apart
  <2> QED BY <2>2, <2>3, <2>4, <2>5, <2>6 DEF Next
<1> QED BY <1>1, <1>2, PTL DEF Spec

-----------------------------------------------------------------------------
(* What the runs check on words of four bits. *)

\* Every chare has the words that its bits need, each of no more bits than a
\* word has: none of the shifts of getPriorityInfo is ever undefined.
THEOREM WordsFit == Spec => []TypeOK
<1>1. ASSUME NEW n, ChareOK(n)
      PROVE  /\ n.bits \in Nat \ {0} /\ n.ptr \in Seq(SUBSET WordBit)
             /\ n = Root \/ Len(n.ptr) = CkPriobitsToInts(n.bits)
  <2>1. n.bits \in Nat \ {0}
    BY <1>1, EncodedEquation, LenProperties DEF ChareOK
  <2>2. CASE n.path = <<>>
    <3>1. n.ptr = <<>> /\ n = Root
      BY <1>1, <2>2 DEF ChareOK, Root
    <3> QED BY <2>1, <3>1, EmptySeq
  <2>3. CASE n.path # <<>>
    BY <1>1, <2>1, <2>3 DEF ChareOK
  <2> QED BY <2>2, <2>3
<1>2. IInv => TypeOK
  BY <1>1 DEF IInv, TypeOK
<1> QED BY <1>2, Inductive, PTL

\* The bits in the words of a chare are those of its parent with its own number
\* behind them, however the number falls across the words, and no other bit is set.
THEOREM WordsHoldThePath == Spec => []PathEncoded
<1>1. ASSUME NEW n, ChareOK(n), n # Root, NEW i \in 1..(Len(n.ptr) * CkIntbits)
      PROVE  IsSet(n, i) <=> i \in DOMAIN Encoded[n.path] /\ Encoded[n.path][i]
  <2>1. n.path # <<>>
    BY <1>1 DEF ChareOK
  <2>2. n.ptr \in Seq(SUBSET WordBit) /\ Spells(n.ptr, Encoded[n.path])
    BY <1>1, <2>1 DEF ChareOK
  <2> DEFINE w == 1 + (i - 1) \div CkIntbits
             b == CkIntbits - 1 - ((i - 1) % CkIntbits)
  <2>3. w \in 1..Len(n.ptr) /\ b \in WordBit /\ i = w * CkIntbits - b
    <3>1. Len(n.ptr) \in Nat
      BY <2>2, LenProperties
    <3> QED BY <1>1, <3>1, Places
  <2>4. IsSet(n, i) <=> b \in n.ptr[w]
    BY DEF IsSet
  <2> HIDE DEF w, b
  <2>5. b \in n.ptr[w] <=> On(Encoded[n.path], i)
    BY <2>2, <2>3 DEF Spells
  <2> QED BY <2>4, <2>5, Zenon DEF On
<1>2. IInv => PathEncoded
  BY <1>1, Zenon DEF IInv, PathEncoded
<1> QED BY <1>2, Inductive, PTL

\* Of two branches every chare of the one created first has the more urgent
\* priority, at whatever depths the two chares are and however many children
\* the chares on the way have had.
THEOREM BranchesInOrder == Spec => []TreeOrder
<1>1. IInv => TreeOrder
  BY BeforeIsUrgent DEF IInv, Apart, TreeOrder
<1> QED BY <1>1, Inductive, PTL

=============================================================================
