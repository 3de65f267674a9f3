-------------------------------- MODULE Priority --------------------------------
(***************************************************************************)
(* The bit-vector priorities of chares (--do-priority=true): a chare hands *)
(* each child its own priority with the number of the child appended to    *)
(* it, packed into words (Node::getPriorityInfo). The state follows two    *)
(* chares down the tree: the same one at first, then two in different      *)
(* branches, left created before right.                                    *)
(***************************************************************************)
EXTENDS Integers, Sequences

CONSTANTS
  CkIntbits,    \* the bits of an int, 32 on the machines the program runs on
  UShortRange,  \* how many values a UShort has, 65536 on those machines
  KidCounts,    \* how many children a chare may create
  MaxDepth      \* a bound: how deep the tree is

ASSUME PriorityAssumption ==
  /\ CkIntbits \in Nat \ {0}
  /\ KidCounts \subseteq Nat \ {0}
  /\ MaxDepth \in Nat

\* The number of bits is a UShort. A tree so deep that it wraps (with 32 bits
\* and 65536 values, more than 2114 levels) is beyond the bound.
ASSUME DepthAssumption ==
  UShortRange \in Nat /\ 1 + MaxDepth * (CkIntbits - 1) < UShortRange

VARIABLES left, right

vars == <<left, right>>

-----------------------------------------------------------------------------
\* A word is the set of its bits that are 1, the bit of value 1 being 0.
WordBit == 0..(CkIntbits - 1)

\* What a shift by as many bits as an int has, or by less than none, leaves in a
\* word is undefined: a bit that no word has.
Undefined == {-1}

ShiftLeft(word, n) ==
  IF n \in WordBit THEN {b + n : b \in word} \cap WordBit ELSE Undefined

ShiftRight(word, n) ==
  IF n \in WordBit THEN {b - n : b \in {b \in word : b >= n}} ELSE Undefined

\* The turns of the loop of _log.
Halvings[n \in Nat] == IF n = 0 THEN 0 ELSE 1 + Halvings[n \div 2]

\* _log: how many bits it takes to number n children.
Log(n) == Halvings[n - 1]

\* The number of children is an int and not negative: it takes less than a word.
ASSUME KidAssumption == \A n \in KidCounts : Log(n) < CkIntbits

\* The word that holds the number n: its lowest bit, and those of its half.
WordOf[n \in Nat] ==
  IF n = 0 THEN {}
  ELSE {b + 1 : b \in WordOf[n \div 2]} \cup (IF n % 2 = 1 THEN {0} ELSE {})

\* Mutant of CkPriobitsToInts: a full last word counts twice.
CkPriobitsToIntsOver(bits) == bits \div CkIntbits + 1

CkPriobitsToInts(bits) == (bits + CkIntbits - 1) \div CkIntbits

\* Mutant of Padding: the number is not moved to its place in the word.
PaddingNone(bits) == 0

\* How many bits of the last word are free behind the first bits.
Padding(bits) == IF bits % CkIntbits = 0 THEN 0 ELSE CkIntbits - (bits % CkIntbits)

\* Mutant of HigherBits: what does not fit is dropped.
HigherBitsLost(childnum, childBits, inusebits) == {}

\* What of the number goes to the inusebits bits left in a word.
HigherBits(childnum, childBits, inusebits) == ShiftRight(childnum, childBits - inusebits)

\* The words of a child, from those of its parent: ptr, of which bits are in use.
getPriorityInfo(bits, ptr, childBits, childnum) ==
  LET newBits   == (bits + childBits) % UShortRange
      words     == CkPriobitsToInts(bits)
      inusebits == CkIntbits - (bits % CkIntbits)
      appended  == CkPriobitsToInts(bits + childBits) > words
  IN CASE ptr = <<>> ->
            <<ShiftLeft(childnum, CkIntbits - newBits)>>
       [] ptr # <<>> /\ ~appended ->
            [ptr EXCEPT ![words] = @ \cup ShiftLeft(childnum, Padding(newBits))]
       [] ptr # <<>> /\ appended /\ bits % CkIntbits = 0 ->
            Append(ptr, ShiftLeft(childnum, CkIntbits - childBits))
       [] OTHER ->
            Append([ptr EXCEPT ![words] = @ \cup HigherBits(childnum, childBits, inusebits)],
                   ShiftLeft(childnum, CkIntbits - childBits + inusebits))

-----------------------------------------------------------------------------
\* The root has one bit of priority and no words. path is what the properties
\* compare with: how many children each chare has had, and which one came next.
Root == [bits |-> 1, ptr |-> <<>>, path |-> <<>>]

\* Child c of the kids that chare n creates in colorRemotely.
Child(n, kids, c) ==
  [bits |-> (n.bits + Log(kids)) % UShortRange,
   ptr  |-> getPriorityInfo(n.bits, n.ptr, Log(kids), WordOf[c]),
   path |-> Append(n.path, <<kids, c>>)]

Init == left = Root /\ right = Root

\* Both are the same child of the same chare.
Together ==
  /\ left = right /\ Len(left.path) < MaxDepth
  /\ \E kids \in KidCounts : \E c \in 0..(kids - 1) : left' = Child(left, kids, c)
  /\ right' = left'

\* Both are children of the same chare, and left is created first.
Part ==
  /\ left = right /\ Len(left.path) < MaxDepth
  /\ \E kids \in KidCounts : \E c, d \in 0..(kids - 1) :
       c < d /\ left' = Child(left, kids, c) /\ right' = Child(right, kids, d)

\* In different branches, each becomes a child of its own.
DeeperLeft ==
  /\ left # right /\ Len(left.path) < MaxDepth
  /\ \E kids \in KidCounts : \E c \in 0..(kids - 1) : left' = Child(left, kids, c)
  /\ UNCHANGED right

DeeperRight ==
  /\ left # right /\ Len(right.path) < MaxDepth
  /\ \E kids \in KidCounts : \E c \in 0..(kids - 1) : right' = Child(right, kids, c)
  /\ UNCHANGED left

Next == Together \/ Part \/ DeeperLeft \/ DeeperRight

Spec == Init /\ [][Next]_vars
-----------------------------------------------------------------------------
\* The words are as many as the bits need, and no shift was undefined.
TypeOK ==
  \A n \in {left, right} :
    /\ n.bits \in Nat \ {0}
    /\ n.ptr \in Seq(SUBSET WordBit)
    /\ n = Root \/ Len(n.ptr) = CkPriobitsToInts(n.bits)

\* Bit i of a priority, counted from 1 at its most significant end.
IsSet(n, i) == CkIntbits - 1 - ((i - 1) % CkIntbits) \in n.ptr[1 + (i - 1) \div CkIntbits]

\* The bits that path stands for: 0 for the root, then the number of each child.
Encoded[path \in Seq((Nat \ {0}) \X Nat)] ==
  IF path = <<>> THEN <<FALSE>>
  ELSE LET last == path[Len(path)]
           k    == Log(last[1])
       IN Encoded[SubSeq(path, 1, Len(path) - 1)] \o
            [j \in 1..k |-> k - j \in WordOf[last[2]]]

\* The priority of a chare is that of its parent followed by its number in as
\* many bits as its siblings need, wherever the words end ("Ptr00, Ptr01, Ptr10",
\* Node.cpp:604-607, 641-689).
PathEncoded ==
  \A n \in {left, right} : n # Root =>
    \A i \in 1..(Len(n.ptr) * CkIntbits) :
      IsSet(n, i) <=> i \in DOMAIN Encoded[n.path] /\ Encoded[n.path][i]

\* As numbers, the word v is less than w: it lacks the highest bit they differ in.
Less(v, w) == \E b \in w \ v : \A d \in v \ w : d < b

\* Charm++ takes messages in the lexical order of the words of their priorities.
Urgent(n, m) ==
  \E i \in DOMAIN n.ptr \cap DOMAIN m.ptr :
    Less(n.ptr[i], m.ptr[i]) /\ \A j \in 1..(i - 1) : n.ptr[j] = m.ptr[j]

\* Of two branches the chares of the one created first, which has the better
\* colour or the larger subgraph, come before all of the other, at any depth
\* (Node.cpp:596-607).
TreeOrder == left # right => Urgent(left, right)
=============================================================================
