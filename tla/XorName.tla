------------------------------ MODULE XorName ------------------------------
(***************************************************************************)
(* Names, XOR distance, prefixes and destinations (the xor_name crate and  *)
(* src/location, not in this repository; modelled from the spec, sections *)
(* 3, 4.1 and 4.3).  Names are the integers 0 .. 2^NameBits - 1, read as   *)
(* bit strings with bit 0 the most significant; XOR distance is computed  *)
(* bit by bit.  A prefix is a record [bits, len]: the first len bits of a *)
(* name.                                                                   *)
(***************************************************************************)
EXTENDS Naturals

CONSTANT NameBits     \* width of a name in bits (256 in the code)

ASSUME NameBitsAssumption == NameBits \in Nat \ {0}

Names == 0 .. 2^NameBits - 1

\* Bit i (0 = most significant) of name n.
Bit(n, i) == (n \div 2^(NameBits - 1 - i)) % 2

\* XorName ^ XorName, read as an unsigned integer (spec 3, "Identifier").
Xor(a, b) ==
  LET acc[i \in 0 .. NameBits] ==
        IF i = 0 THEN 0
        ELSE 2 * acc[i - 1] + (IF Bit(a, i - 1) = Bit(b, i - 1) THEN 0 ELSE 1)
  IN  acc[NameBits]

\* XorName::cmp_distance(t, a, b) = Less: a is strictly closer to t than b.
Closer(t, a, b) == Xor(t, a) < Xor(t, b)

AllPrefixes == UNION { [bits : 0 .. 2^l - 1, len : {l}] : l \in 0 .. NameBits }

\* Prefix::matches: the first p.len bits of n are p.bits.
Matches(p, n) == n \div 2^(NameBits - p.len) = p.bits

\* Bit i of prefix p (i < p.len).
PBit(p, i) == (p.bits \div 2^(p.len - 1 - i)) % 2

MinLen(p, q) == IF p.len < q.len THEN p.len ELSE q.len

\* Prefix::is_neighbour (spec 4.1): neither prefix contains the other and
\* the last bit position at which they differ is min(|p|, |q|) - 1.
IsNeighbour(p, q) ==
  LET diff == { i \in 0 .. MinLen(p, q) - 1 : PBit(p, i) # PBit(q, i) }
  IN  /\ diff # {}
      /\ MinLen(p, q) - 1 \in diff

\* The centre of the region of prefix p, against which the section map
\* measures XOR distance (spec 4.3).
Centre(p) ==
  p.bits * 2^(NameBits - p.len)
    + (IF p.len < NameBits THEN 2^(NameBits - p.len - 1) ELSE 0)

\* Order of SectionMap::closest and sorted_by_distance_to: by XOR distance
\* of the centre to t, then the longer prefix, then the smaller bits.
PrefixBefore(t, p, q) ==
  \/ Xor(t, Centre(p)) < Xor(t, Centre(q))
  \/ /\ Xor(t, Centre(p)) = Xor(t, Centre(q))
     /\ \/ p.len > q.len
        \/ p.len = q.len /\ p.bits < q.bits

\* Destinations (DstLocation).
Dst == [kind : {"Node", "Section"}, name : Names] \cup [kind : {"Direct"}]

\* DstLocation::contains(name, prefix), used by Stage::in_dst_location.
DstContains(dst, us, ourPrefix) ==
  CASE dst.kind = "Node"    -> dst.name = us
    [] dst.kind = "Section" -> Matches(ourPrefix, dst.name)
    [] dst.kind = "Direct"  -> TRUE
=============================================================================
