---------------------------- MODULE StageProofs -----------------------------
(***************************************************************************)
(* Proofs about Stage for every network of fixed sections: the nodes'     *)
(* stages, the messages in flight, the filters and the handled messages   *)
(* keep their types through relaying, replies and user sends.             *)
(***************************************************************************)
EXTENDS Stage, FiniteSetTheorems, TLAPS

NetMsgs == [to : Nodes, from : Nodes, msg : Msgs]

\* The type invariant is not inductive alone: SendMessage numbers a new
\* user message Cardinality(sent) + 1, which is a number only for a finite
\* set of sent messages.
StageIInv ==
  /\ TypeOK
  /\ IsFiniteSet(sent)

-----------------------------------------------------------------------------
USE StageAssumption, RelayTableAssumption

\* Every node lies in one of the sections, whose elders are nodes.
LEMMA PrefixOfType ==
  ASSUME NEW n \in Nodes
  PROVE  /\ PrefixOf(n) \in DOMAIN SectionElders
         /\ SectionElders[PrefixOf(n)] \subseteq Nodes
<1>1. \E p \in DOMAIN SectionElders : Matches(p, n)
  OBVIOUS
<1>2. PrefixOf(n) \in DOMAIN SectionElders
  BY <1>1 DEF PrefixOf
<1>3. SectionElders[PrefixOf(n)] \subseteq SectionMembers[PrefixOf(n)]
  BY <1>2
<1> QED
  BY <1>2, <1>3 DEF Nodes

\* The messages' destinations are those RelayTable is defined for.
LEMMA MsgDst ==
  ASSUME NEW m \in Msgs
  PROVE  m.dst \in UserDsts \cup {Direct}
BY DEF Msgs, UserMsgs, BootstrapRequest, BootstrapJoin, JoinRequest, NodeApproval

\* What relay_message forwards to are nodes.
LEMMA RelayToType ==
  ASSUME joined \in BOOLEAN, NEW n \in Nodes, NEW m \in Msgs
  PROVE  RelayTo(n, m) \subseteq Nodes
<1>1. RelayResult(n, m) \in RelayResults
  BY MsgDst DEF RelayResult
<1> QED
  BY <1>1 DEF RelayTo, RelayResults

\* The replies of the three states are well-typed messages.
LEMMA RepliesType ==
  ASSUME TypeOK, NEW n \in Nodes, NEW e \in NetMsgs
  PROVE  Replies(n, e) \subseteq NetMsgs
<1>1. SectionElders[PrefixOf(n)] \subseteq Nodes
  BY PrefixOfType
<1>2. {JoinRequest, BootstrapJoin, NodeApproval} \subseteq Msgs
  BY DEF Msgs
<1> QED
  BY <1>1, <1>2 DEF Replies, NetMsgs, BootstrapJoin, BootstrapRequest,
                   JoinRequest, NodeApproval

\* The state a message moves a node to is one of the three.
LEMMA NextStageType ==
  ASSUME TypeOK, NEW n \in Nodes, NEW m
  PROVE  NextStage(n, m) \in StageKinds
BY DEF NextStage, TypeOK, StageKinds

\* The initial state satisfies the inductive invariant.
THEOREM StageInitIInv == Init => StageIInv
<1> SUFFICES ASSUME Init PROVE StageIInv
  OBVIOUS
<1>1. TypeOK
  <2>1. BootstrapRequest \in Msgs
    BY DEF Msgs
  <2>2. stage \in [Nodes -> StageKinds]
    BY DEF Init, StageKinds
  <2>3. net \subseteq [to : Nodes, from : Nodes, msg : Msgs]
    BY <2>1 DEF Init
  <2>4. outFilter = {} /\ handled = {} /\ sent = {} /\ joined = FALSE
    BY DEF Init
  <2> QED
    BY <2>2, <2>3, <2>4 DEF TypeOK
<1>2. IsFiniteSet(sent)
  BY FS_EmptySet DEF Init
<1> QED
  BY <1>1, <1>2 DEF StageIInv

\* Stage::process_message keeps the inductive invariant: relaying forwards
\* the message to nodes delivery_targets returned, the replies are
\* messages of the exchange, and the next state is one of the three.
LEMMA ProcessMessageIInv ==
  ASSUME StageIInv, NEW n \in Nodes, NEW e \in net, ProcessMessage(n, e)
  PROVE  StageIInv'
<1> DEFINE m      == e.msg
           relay  == IF NeedsRelay(n, m) /\ ~RelayFails(n, m) THEN RelayTo(n, m) ELSE {}
           handle == InDstLocation(n, m) /\ ~RelayFails(n, m)
<1> USE DEF StageIInv
<1>1. /\ outFilter' = outFilter \cup { << n, m, t >> : t \in relay }
      /\ net' = (net \ {e}) \cup { [to |-> t, from |-> n, msg |-> m] : t \in relay }
                             \cup (IF handle THEN Replies(n, e) ELSE {})
      /\ stage' = IF handle THEN [stage EXCEPT ![n] = NextStage(n, m)] ELSE stage
      /\ handled' = IF handle /\ stage[n] = "Approved"
                    THEN handled \cup { << n, m >> } ELSE handled
      /\ joined' = (joined \/ (handle /\ stage[n] = "Approved" /\ m = JoinRequest))
      /\ UNCHANGED sent
  BY DEF ProcessMessage
<1>2. e \in NetMsgs /\ m \in Msgs
  BY DEF TypeOK, NetMsgs
<1>3. relay \subseteq Nodes
  BY <1>2, RelayToType DEF TypeOK
<1>4. stage' \in [Nodes -> StageKinds]
  BY <1>1, NextStageType DEF TypeOK
<1>5. net' \subseteq NetMsgs
  <2>1. Replies(n, e) \subseteq NetMsgs
    BY <1>2, RepliesType
  <2>2. { [to |-> t, from |-> n, msg |-> m] : t \in relay } \subseteq NetMsgs
    BY <1>2, <1>3 DEF NetMsgs
  <2> QED
    BY <1>1, <2>1, <2>2 DEF TypeOK, NetMsgs
<1>6. /\ outFilter' \subseteq Nodes \X Msgs \X Nodes
      /\ handled' \subseteq Nodes \X Msgs
      /\ joined' \in BOOLEAN
  BY <1>1, <1>2, <1>3 DEF TypeOK
<1> QED
  BY <1>1, <1>4, <1>5, <1>6 DEF TypeOK, NetMsgs

\* Stage::send_message keeps it: the new user message's id stays within
\* MaxUserMsgs, and the set of sent messages stays finite.
LEMMA SendMessageIInv ==
  ASSUME StageIInv, NEW n \in Nodes, NEW dst \in UserDsts, SendMessage(n, dst)
  PROVE  StageIInv'
<1> USE DEF StageIInv
<1> DEFINE m == [kind |-> "User", id |-> Cardinality(sent) + 1, dst |-> dst]
<1>1. sent' = sent \cup {m} /\ net' = net \cup { [to |-> n, from |-> n, msg |-> m] }
      /\ Cardinality(sent) < MaxUserMsgs
  BY DEF SendMessage
<1>2. Cardinality(sent) \in Nat
  BY FS_CardinalityType
<1>3. m \in UserMsgs
  BY <1>1, <1>2 DEF UserMsgs
<1>4. TypeOK'
  <2>1. [to |-> n, from |-> n, msg |-> m] \in NetMsgs
    BY <1>3 DEF NetMsgs, Msgs
  <2> QED
    BY <1>1, <1>3, <2>1 DEF SendMessage, TypeOK, NetMsgs
<1>5. IsFiniteSet(sent')
  BY <1>1, FS_AddElement
<1> QED
  BY <1>4, <1>5

\* Every step of the network keeps the inductive invariant.
THEOREM StageNextIInv == StageIInv /\ [Next]_vars => StageIInv'
<1> SUFFICES ASSUME StageIInv, [Next]_vars PROVE StageIInv'
  OBVIOUS
<1>1. CASE UNCHANGED vars
  BY <1>1 DEF vars, StageIInv, TypeOK
<1>2. CASE \E n \in Nodes, e \in net : ProcessMessage(n, e)
  BY <1>2, ProcessMessageIInv
<1>3. CASE \E n \in Nodes, dst \in UserDsts : SendMessage(n, dst)
  BY <1>3, SendMessageIInv
<1> QED
  BY <1>1, <1>2, <1>3 DEF Next

-----------------------------------------------------------------------------
\* The inductive invariant holds in every reachable state of the network.
THEOREM StageSpecIInv == Spec => []StageIInv
BY StageInitIInv, StageNextIInv, PTL DEF Spec

\* Whatever delivery_targets returns (RelayResults) and whatever the
\* states reply, the nodes' stages, the messages in flight, both filters
\* and the handled messages always have their types
\* (Stage::process_message, Stage::send_message).
THEOREM StageTypeCorrect == Spec => []TypeOK
<1>1. StageIInv => TypeOK
  BY DEF StageIInv
<1> QED
  BY StageSpecIInv, <1>1, PTL
=============================================================================
