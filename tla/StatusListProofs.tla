-------------------------- MODULE StatusListProofs --------------------------
(***************************************************************************)
(* A published status list is read back as it is, for a list of any        *)
(* length, any entry of it and every width of an entry.                    *)
(***************************************************************************)
EXTENDS StatusList, TLAPS

\* Bit i of entry k lies in the byte, and at the place in it, where the service
\* has put it; k entries of the given width end within n bytes.
LEMMA BitPlace ==
    ASSUME NEW bits \in Widths, NEW k \in Nat, NEW i \in 0..(bits - 1),
           NEW n \in Nat, k <= Capacity(n, bits) - 1
    PROVE  LET o == k * bits + i IN
           /\ o \div 8 \in 0..(n - 1) /\ o % 8 \in 0..7
           /\ (o \div 8) * (8 \div bits) + (o % 8) \div bits = k
           /\ (o % 8) % bits = i
<1>1. CASE bits = 1
  BY <1>1 DEF Capacity
<1>2. CASE bits = 2
  BY <1>2 DEF Capacity
<1>3. CASE bits = 4
  BY <1>3 DEF Capacity
<1>4. CASE bits = 8
  BY <1>4 DEF Capacity
<1>. QED
  BY <1>1, <1>2, <1>3, <1>4 DEF Widths

\* isIndexListed finds an entry listed exactly when the service listed it: no
\* neighbour's bit is taken for its own, at the seams of bytes and at the end.
THEOREM ReadsBack ==
    ASSUME NEW bits \in Widths, NEW n \in Nat, NEW listed,
           NEW code \in SUBSET (0..(bits - 1)), code # {},
           NEW k \in Nat, k <= Capacity(n, bits) - 1
    PROVE  isIndexListed(Publish(listed, n, bits, code), k, bits) =
               IF k \in listed THEN "listed" ELSE "unlisted"
<1> DEFINE list == Publish(listed, n, bits, code)
           On(i) == LET o == k * bits + i IN list[o \div 8 + 1][o % 8] = 1
<1>1. Len(list) = n /\ bits \in 1..8
  BY DEF Publish, Widths
<1>2. ASSUME NEW i \in 0..(bits - 1) PROVE On(i) <=> (k \in listed /\ i \in code)
  <2> DEFINE o == k * bits + i
  <2>1. /\ o \div 8 \in 0..(n - 1) /\ o % 8 \in 0..7
        /\ (o \div 8) * (8 \div bits) + (o % 8) \div bits = k
        /\ (o % 8) % bits = i
    BY BitPlace
  <2> HIDE DEF o
  <2>2. o \div 8 + 1 \in 1..n /\ (o \div 8 + 1) - 1 = o \div 8
    BY <2>1
  <2>3. list[o \div 8 + 1][o % 8] =
          IF ((o \div 8 + 1) - 1) * (8 \div bits) + (o % 8) \div bits \in listed
                /\ (o % 8) % bits \in code THEN 1 ELSE 0
    BY <2>1, <2>2, Zenon DEF Publish
  <2>4. (list[o \div 8 + 1][o % 8] = 1) <=> (k \in listed /\ i \in code)
    BY <2>1, <2>2, <2>3
  <2>. QED
    BY <2>4 DEF o
<1>3. \A i \in 0..(bits - 1) : i < WordWidth /\ (k * bits + i) \div 8 < Len(list)
  BY <1>1, BitPlace DEF WordWidth
<1>4. ~(k < 0 \/ bits <= 0) /\ ~(k > Capacity(Len(list), bits) - 1)
  BY <1>1 DEF Capacity
<1>5. isIndexListed(list, k, bits) =
        IF \E i \in 0..(bits - 1) : On(i) THEN "listed" ELSE "unlisted"
  <2> HIDE DEF list
  <2>. QED
    BY <1>3, <1>4, Zenon DEF isIndexListed
<1>6. (\E i \in 0..(bits - 1) : On(i)) <=> k \in listed
  <2> HIDE DEF On
  <2>. QED
    BY <1>2
<1>. QED
  BY <1>5, <1>6

\* Products of naturals, which the provers do not multiply out by themselves.
LEMMA Products ==
    ASSUME NEW k \in Nat, NEW c \in Nat, k < c, NEW b \in Nat
    PROVE  (k + 1) * b <= c * b
<1> DEFINE d == c - (k + 1)
<1>1. d \in Nat /\ c = k + 1 + d
  OBVIOUS
<1>2. d * b \in Nat /\ (k + 1) * b \in Nat
  BY <1>1
<1>3. c * b = (k + 1) * b + d * b
  BY <1>1
<1>. QED
  BY <1>2, <1>3

\* An entry that the length check lets through lies within the list with all of
\* its bits, whatever their number: no bit is looked for past the end, and an
\* entry of width 3, say, that would reach past it counts as past the end.
THEOREM EntryWithinList ==
    ASSUME NEW n \in Nat, NEW bits \in Nat \ {0}, NEW k \in Nat, NEW i \in 0..(bits - 1),
           k <= Capacity(n, bits) - 1
    PROVE  (k * bits + i) \div 8 \in 0..(n - 1)
<1> DEFINE c == Capacity(n, bits)
<1>1. c \in Nat /\ c * bits <= 8 * n
  <2> DEFINE m == 8 * n
             r == m % bits
  <2>1. m \in Nat
    OBVIOUS
  <2> HIDE DEF m
  <2>2. c \in Int /\ r \in Nat /\ m = bits * c + r
    BY <2>1 DEF Capacity, m
  <2>3. c >= 0
    BY <2>1 DEF Capacity, m
  <2> HIDE DEF c, r
  <2>4. bits * c = c * bits
    BY <2>2
  <2>. QED
    BY <2>2, <2>3, <2>4 DEF m
<1>2. (k + 1) * bits <= c * bits /\ (k + 1) * bits = k * bits + bits /\ k * bits \in Nat
  <2> HIDE DEF c
  <2>1. k < c
    BY <1>1 DEF c
  <2>. QED
    BY <1>1, <2>1, Products
<1>3. k * bits + i \in Nat /\ k * bits + i < 8 * n
  <2> HIDE DEF c
  <2>. QED
    BY <1>1, <1>2
<1>. QED
  BY <1>3

=============================================================================
