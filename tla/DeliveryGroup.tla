--------------------------- MODULE DeliveryGroup ---------------------------
(***************************************************************************)
(* Delivery-group selection of src/delivery_group.rs: the targets an       *)
(* approved node relays a message to, and the number of them the message   *)
(* must reach (the delivery group size), for a destination DstLocation.    *)
(*                                                                         *)
(* Names, prefixes and destinations are those of XorName.  The            *)
(* section map (src/section, not in this repository, modelled from the    *)
(* spec, sections 3 and 4.3) is a function from the known prefixes (ours  *)
(* and the neighbours') to the set of names of that section's elders.     *)
(* Every operator is pure: it takes the node's state as arguments.        *)
(***************************************************************************)
EXTENDS Naturals, FiniteSets, Sequences, SequencesExt, GroupSize, XorName

\* SectionMap::sorted_by_distance_to(t): the known prefixes, closest first.
SortedByDistanceTo(sections, t) ==
  SetToSortSeq(DOMAIN sections, LAMBDA p, q : PrefixBefore(t, p, q))

\* SectionMap::closest(t).
ClosestPrefix(sections, t) == SortedByDistanceTo(sections, t)[1]

\* Elders of a section in the order of their BTreeMap: by name.
ByName(S) == SetToSortSeq(S, <)

\* A set of peers sorted with target.cmp_distance (nearest first).
ByDistance(S, t) == SetToSortSeq(S, LAMBDA a, b : Closer(t, a, b))

NoPeer == -1

\* The result of delivery_targets: Ok((targets, dg_size)) or Err(CannotRoute).
Ok(targets, dg) == [ok |-> TRUE, targets |-> targets, dg |-> dg]
CannotRoute == [ok |-> FALSE, targets |-> << >>, dg |-> 0]

-----------------------------------------------------------------------------
(***************************************************************************)
(* src/delivery_group.rs                                                   *)
(***************************************************************************)

\* get_peer: a member of our section first, then an elder of any known
\* section (SectionMap::get_elder); NoPeer if neither knows the name.
GetPeer(name, members, sections) ==
  IF name \in members \/ \E p \in DOMAIN sections : name \in sections[p]
  THEN name ELSE NoPeer

\* One iteration of the loop of `candidates` over the section with prefix
\* p at position idx, from the loop state st = [nodes, dg, done].
CandidatesStep(st, idx, p, sections, us, ourPrefix) ==
  LET nodes == st.nodes \cup sections[p]
      dg    == DeliveryGroupSize(Cardinality(sections[p]))
  IN  IF p = ourPrefix
      THEN [nodes |-> nodes \ {us}, dg |-> Cardinality(nodes \ {us}),
            done |-> TRUE]
      ELSE [nodes |-> nodes, dg |-> dg,
            done |-> idx = 0 /\ Cardinality(nodes) >= dg]

\* The state of that loop after the first i sections (the loop stops at the
\* first iteration that sets done).
CandidatesLoop(t, us, sections, ourPrefix) ==
  LET secs == SortedByDistanceTo(sections, t)
      st[i \in 0 .. Len(secs)] ==
        IF i = 0 THEN [nodes |-> {}, dg |-> 0, done |-> FALSE]
        ELSE IF st[i - 1].done THEN st[i - 1]
        ELSE CandidatesStep(st[i - 1], i - 1, secs[i], sections, us, ourPrefix)
  IN  st[Len(secs)]

\* candidates(target_name, our_id, sections).
Candidates(t, us, sections, ourPrefix) ==
  LET st == CandidatesLoop(t, us, sections, ourPrefix)
  IN  IF st.dg > 0 /\ Cardinality(st.nodes) >= st.dg
      THEN Ok(ByDistance(st.nodes, t), st.dg)
      ELSE CannotRoute

\* delivery_targets(dst, our_id, our_members, sections).
DeliveryTargets(dst, us, members, sections, ourPrefix) ==
  LET ourElders == sections[ourPrefix]
  IN
  IF us \notin ourElders
  THEN Ok(ByName(ourElders), Cardinality(ourElders))
  ELSE CASE dst.kind = "Node" ->
              IF dst.name = us THEN Ok(<< >>, 0)
              ELSE IF GetPeer(dst.name, members, sections) # NoPeer
                   THEN Ok(<< GetPeer(dst.name, members, sections) >>, 1)
                   ELSE Candidates(dst.name, us, sections, ourPrefix)
         [] dst.kind = "Section" ->
              LET info == ClosestPrefix(sections, dst.name)
              IN  IF info = ourPrefix \/ IsNeighbour(info, ourPrefix)
                  THEN Ok(ByName(sections[info] \ {us}),
                          Cardinality(sections[info] \ {us}))
                  ELSE Candidates(dst.name, us, sections, ourPrefix)
         [] dst.kind = "Direct" -> CannotRoute

\* Variant of SignatureTargets keeping the elders in name order.
SignatureTargetsByName(dst, ourElders) ==
  IF dst.kind = "Direct" THEN << >>
  ELSE LET list == ByName(ourElders)
       IN  SubSeq(list, 1, DeliveryGroupSize(Len(list)))

\* signature_targets(dst, our_elders): the delivery_group_size(|E|) elders
\* closest to the destination name; empty for Direct.
SignatureTargets(dst, ourElders) ==
  IF dst.kind = "Direct" THEN << >>
  ELSE LET list == ByDistance(ourElders, dst.name)
       IN  SubSeq(list, 1, DeliveryGroupSize(Len(list)))
=============================================================================
