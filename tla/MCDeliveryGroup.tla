-------------------------- MODULE MCDeliveryGroup --------------------------
(***************************************************************************)
(* Checks delivery_targets and signature_targets of DeliveryGroup on every *)
(* input of a small instance: every way of splitting a 3-bit name space    *)
(* into sections listed in Layouts, every choice of up to ElderSize        *)
(* elders per section, every position of our node, every member table of  *)
(* our section and every destination.  The inputs are the state; Next     *)
(* only stutters.                                                          *)
(***************************************************************************)
EXTENDS DeliveryGroup, TLC

CONSTANT ElderSize    \* NetworkParams::elder_size, at most this many elders

ASSUME ElderSizeAssumption == ElderSize \in Nat \ {0}

VARIABLES
  sections,   \* SectionMap: known prefix -> names of its elders
  ourPrefix,  \* our section's prefix
  us,         \* our name
  members,    \* names held by our section's member table (SectionMembers)
  dst         \* the destination routed to

vars == << sections, ourPrefix, us, members, dst >>

P(bits, len) == [bits |-> bits, len |-> len]

\* Partitions of the 3-bit name space into sections.
Layouts ==
  { {P(0, 0)},
    {P(0, 1), P(1, 1)},
    {P(0, 1), P(2, 2), P(3, 2)},
    {P(0, 2), P(1, 2), P(1, 1)},
    {P(0, 2), P(1, 2), P(2, 2), P(3, 2)} }

SectionNames(p) == { n \in Names : Matches(p, n) }

ElderSets(p) ==
  { S \in SUBSET SectionNames(p) : Cardinality(S) \in 1 .. ElderSize }

\* Every section map with domain ps whose elders match their prefix.
RECURSIVE SectionMaps(_)
SectionMaps(ps) ==
  IF ps = {} THEN { << >> }
  ELSE LET p == CHOOSE x \in ps : TRUE
       IN  { (p :> e) @@ f : f \in SectionMaps(ps \ {p}), e \in ElderSets(p) }

Init ==
  /\ \E L \in Layouts :
       /\ ourPrefix \in L
       /\ sections \in SectionMaps(L)
  /\ us \in SectionNames(ourPrefix)
  /\ members \in { M \in SUBSET SectionNames(ourPrefix) :
                     sections[ourPrefix] \cup {us} \subseteq M }
  /\ dst \in Dst

Next == UNCHANGED vars

Spec == Init /\ [][Next]_vars

-----------------------------------------------------------------------------
Result == DeliveryTargets(dst, us, members, sections, ourPrefix)

IsElderPath == us \in sections[ourPrefix]

\* The section (of the partition) that holds name n.
SectionOf(n) == CHOOSE p \in DOMAIN sections : Matches(p, n)

(***************************************************************************)
(* Reference: delivery_targets as spec 4.6 states it, declaratively.  An   *)
(* elder routes a message for Node(t) to t when it knows t; otherwise,    *)
(* and for Section(t), to the elders of the section holding t (less       *)
(* ourselves).  The whole section is the delivery group when that         *)
(* section is ours or (for Section(t)) a neighbour; otherwise it is       *)
(* ceil(n/3) of it.  A group of size 0 cannot be routed to.               *)
(***************************************************************************)
RefKnown == dst.kind = "Node" /\ GetPeer(dst.name, members, sections) # NoPeer

RefTargets ==
  IF RefKnown THEN {dst.name} ELSE sections[SectionOf(dst.name)] \ {us}

\* Section(t) for our own or a neighbouring section: the whole section.
RefWholeSection ==
  /\ dst.kind = "Section"
  /\ SectionOf(dst.name) = ourPrefix \/ IsNeighbour(SectionOf(dst.name), ourPrefix)

\* ceil(n/3): the least k with 3k >= n (spec 4.6, "Quorum formula").
RefGroupSize(n) == CHOOSE k \in 0 .. n : 3 * k >= n /\ \A j \in 0 .. k - 1 : 3 * j < n

RefDg ==
  CASE RefKnown                      -> 1
    [] RefWholeSection               -> Cardinality(RefTargets)
    [] SectionOf(dst.name) = ourPrefix -> Cardinality(RefTargets)
    [] OTHER                         -> RefGroupSize(Cardinality(RefTargets))

\* On the elder path, delivery_targets returns exactly the targets and the
\* group size of the reference, sorted nearest first, or CannotRoute when
\* the reference group is empty and it had to pick candidates.  This
\* covers the loop of `candidates`: it never goes past the closest section
\* (spec 9, open question (a)).
MatchesReference ==
  IsElderPath /\ dst.kind # "Direct" /\ ~(dst.kind = "Node" /\ dst.name = us)
    => IF RefDg > 0 \/ RefWholeSection
       THEN /\ Result.ok
            /\ Range(Result.targets) = RefTargets
            /\ Result.dg = RefDg
            /\ ~RefWholeSection =>
                 IsSorted(Result.targets, LAMBDA a, b : Closer(dst.name, a, b))
       ELSE ~Result.ok

(***************************************************************************)
(* signature_targets returns delivery_group_size(|E|) of our elders, and   *)
(* they are the ones closest to the destination (spec 8, scenario 1).      *)
(***************************************************************************)
SignatureTargetsClosest ==
  dst.kind # "Direct" =>
    LET E   == sections[ourPrefix]
        sig == SignatureTargets(dst, E)
    IN  /\ Len(sig) = RefGroupSize(Cardinality(E))
        /\ Range(sig) \subseteq E
        /\ \A x \in Range(sig), y \in E \ Range(sig) : Closer(dst.name, x, y)
=============================================================================
