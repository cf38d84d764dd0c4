----------------------------- MODULE StatusList -----------------------------
(***************************************************************************)
(* A status list: entries of a few bits each, packed into bytes.  The      *)
(* status list service publishes it, and isIndexListed reads one entry.    *)
(* A byte is the function of its bits: b[0] is the least significant.      *)
(***************************************************************************)
EXTENDS Integers, Sequences

\* int is 64 bits wide: a bit shifted further to the left is lost.
WordWidth == 64

\* The list the service publishes, n bytes long: each byte holds 8 \div bits
\* entries, the first in the lowest bits, and code is the set of bits that are on
\* in the status of a listed entry.
Publish(listed, n, bits, code) ==
    [k \in 1..n |-> [p \in 0..7 |->
        IF (k - 1) * (8 \div bits) + p \div bits \in listed /\ p % bits \in code
        THEN 1 ELSE 0]]

Widths == {1, 2, 4, 8}
Capacity(n, bits) == (8 * n) \div bits

\* Fault: the last entry counts as past the end.
isIndexListed_Short(bitset, index, bitsPerEntry) ==
    LET bit(o) == bitset[o \div 8 + 1][o % 8]
    IN  IF index >= Capacity(Len(bitset), bitsPerEntry) - 1 THEN "unlisted"
        ELSE IF \E i \in 0..(bitsPerEntry - 1) : bit(index * bitsPerEntry + i) = 1
        THEN "listed" ELSE "unlisted"

\* Fault: one bit too many is read.
isIndexListed_Wide(bitset, index, bitsPerEntry) ==
    LET bit(o) == bitset[o \div 8 + 1][o % 8]
    IN  IF index > Capacity(Len(bitset), bitsPerEntry) - 1 THEN "unlisted"
        ELSE IF \E i \in 0..bitsPerEntry :
                /\ (index * bitsPerEntry + i) \div 8 < Len(bitset)
                /\ bit(index * bitsPerEntry + i) = 1
        THEN "listed" ELSE "unlisted"

\* Whether any bit of the entry is set.  An index past the end of the list is
\* not listed.
isIndexListed(bitset, index, bitsPerEntry) ==
    LET bit(o) == bitset[o \div 8 + 1][o % 8]
        offset == index * bitsPerEntry
    IN  IF index < 0 \/ bitsPerEntry <= 0 THEN "error"
        ELSE IF index > Capacity(Len(bitset), bitsPerEntry) - 1 THEN "unlisted"
        ELSE IF \E i \in 0..(bitsPerEntry - 1) :
                /\ i < WordWidth
                /\ (offset + i) \div 8 < Len(bitset)
                /\ bit(offset + i) = 1
        THEN "listed" ELSE "unlisted"

=============================================================================
