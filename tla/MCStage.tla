------------------------------- MODULE MCStage ------------------------------
(***************************************************************************)
(* Two sections of the 3-bit name space, 0 and 1, each with two elders and *)
(* one adult.  The adult 3 of section 0 joins, bootstrapping from elder 0. *)
(* User messages go to an adult of the other section and to a section.    *)
(***************************************************************************)
EXTENDS Stage, DeliveryGroup, TLC

\* delivery_targets for every node, destination and membership of the
\* joiner, computed once: the sections never change.
MCRelayTable ==
  [ x \in Nodes \X (UserDsts \cup {Direct}) \X BOOLEAN |->
      DeliveryTargets(x[2], x[1],
                      { y \in SectionMembers[PrefixOf(x[1])] : y # Joiner \/ x[3] },
                      SectionElders, PrefixOf(x[1])) ]

P(bits, len) == [bits |-> bits, len |-> len]

MCSectionElders == P(0, 1) :> {0, 1} @@ P(1, 1) :> {4, 6}
MCSectionMembers == P(0, 1) :> {0, 1, 3} @@ P(1, 1) :> {4, 6, 7}
MCUserDsts == { [kind |-> "Node", name |-> 7], [kind |-> "Section", name |-> 5] }
\* A network started by Stage::first_node on node 0, which node 3 joins.
MCFirstElders == FirstEldersInfo(0)
MCFirstMembers == FirstSharedState(0, 3)
MCFirstUserDsts == { [kind |-> "Node", name |-> 0], [kind |-> "Section", name |-> 5] }
=============================================================================
