------------------------------- MODULE Stage -------------------------------
(***************************************************************************)
(* Nodes of a small network, each driven by its Stage (src/node/stage/     *)
(* mod.rs): the node is Bootstrapping, Joining or Approved, and            *)
(* process_message first decides with in_dst_location whether a message   *)
(* is for it (an approved node relays it on through delivery_targets when *)
(* it is not, or when it is for a whole section) and then hands it to the *)
(* current state, which may move the node to its next state.              *)
(*                                                                         *)
(* The sections are fixed: SectionElders maps each prefix of a partition   *)
(* of the name space to its elders, SectionMembers to all its members      *)
(* (elders and adults).  Every approved node knows this map.  One member, *)
(* Joiner, starts out Bootstrapping and must join its section.  The code  *)
(* of the three states (stage/bootstrapping.rs, joining.rs, approved.rs)   *)
(* is not in this repository; their handlers follow the spec (sections 5   *)
(* and 4.7): the message filters, the bootstrap and join exchanges and     *)
(* relay_message.                                                          *)
(***************************************************************************)
EXTENDS XorName, FiniteSets, Sequences

CONSTANTS
  SectionElders,   \* prefix -> names of its elders
  SectionMembers,  \* prefix -> names of all its members
  Joiner,          \* the member that starts Bootstrapping
  Seed,            \* the contact the joiner bootstraps from
  UserDsts,        \* destinations user messages are sent to
  MaxUserMsgs,     \* number of user messages sent in a run
  RelayTable       \* delivery_targets of each node, see RelayResults

Nodes == UNION { SectionMembers[p] : p \in DOMAIN SectionMembers }

\* The prefix of the section that holds name n.
PrefixOf(n) == CHOOSE p \in DOMAIN SectionElders : Matches(p, n)

\* Messages: user messages carry an id; the others are the bootstrap and
\* join exchange of the joiner.  Every message has a DstLocation.
UserMsgs == [kind : {"User"}, id : 1 .. MaxUserMsgs, dst : UserDsts]
Direct == [kind |-> "Direct"]
BootstrapRequest == [kind |-> "BootstrapRequest", dst |-> Direct]
BootstrapJoin == [kind |-> "BootstrapJoin", dst |-> Direct]
JoinRequest == [kind |-> "JoinRequest", dst |-> Direct]
NodeApproval == [kind |-> "NodeApproval", dst |-> Direct]
Msgs == UserMsgs \cup {BootstrapRequest, BootstrapJoin, JoinRequest, NodeApproval}

StageKinds == {"Bootstrapping", "Joining", "Approved"}

\* The sections partition the names of the nodes, each section's elders
\* are among its members, the joiner and its seed are nodes, and the
\* bounds are numbers.
ASSUME StageAssumption ==
  /\ DOMAIN SectionElders = DOMAIN SectionMembers
  /\ \A p \in DOMAIN SectionElders : SectionElders[p] \subseteq SectionMembers[p]
  /\ \A n \in Nodes : \E p \in DOMAIN SectionElders : Matches(p, n)
  /\ Joiner \in Nodes /\ Seed \in Nodes
  /\ UserDsts \subseteq Dst
  /\ MaxUserMsgs \in Nat

VARIABLES
  stage,       \* node -> the variant of its State
  net,         \* messages in flight: [to, from, msg]
  outFilter,   \* outgoing message filter: <<sender, msg, recipient>> sent
  handled,     \* <<node, msg>>: the message reached the node's handler
  sent,        \* user messages sent so far
  joined       \* the joiner's section has approved it (a member now)

vars == << stage, net, outFilter, handled, sent, joined >>

TypeOK ==
  /\ stage \in [Nodes -> StageKinds]
  /\ net \subseteq [to : Nodes, from : Nodes, msg : Msgs]
  /\ outFilter \subseteq Nodes \X Msgs \X Nodes
  /\ handled \subseteq Nodes \X Msgs
  /\ sent \subseteq UserMsgs
  /\ joined \in BOOLEAN

\* The joiner starts with a BootstrapRequest to its seed in flight
\* (Stage::bootstrap, Bootstrapping::new); everyone else is approved.
Init ==
  /\ stage = [n \in Nodes |-> IF n = Joiner THEN "Bootstrapping" ELSE "Approved"]
  /\ net = { [to |-> Seed, from |-> Joiner, msg |-> BootstrapRequest] }
  /\ outFilter = {}
  /\ handled = {}
  /\ sent = {}
  /\ joined = FALSE

\* create_first_elders_info: Stage::first_node starts a network of one
\* node, the only elder of the section of the whole name space
\* (Prefix::default()); its proof (create_first_proof) is a signature
\* and is left out.
FirstEldersInfo(first) == [p \in {[bits |-> 0, len |-> 0]} |-> {first}]

\* create_first_shared_state: every elder of that section enters the
\* member table as joined; the joiner is the one node that joins later.
FirstSharedState(first, joiner) == [p \in DOMAIN FirstEldersInfo(first) |-> {first, joiner}]

-----------------------------------------------------------------------------
\* Stage::in_dst_location, the decision: a node that is not approved only
\* takes messages for its own name and direct messages; an approved one
\* takes what DstLocation::contains(our name, our prefix).
InDstLocation(n, m) ==
  IF stage[n] = "Approved"
  THEN DstContains(m.dst, n, PrefixOf(n))
  ELSE CASE m.dst.kind = "Node"    -> m.dst.name = n
         [] m.dst.kind = "Section" -> FALSE
         [] m.dst.kind = "Direct"  -> TRUE

\* Variant of NeedsRelay that relays only what is not for us.
NeedsRelayOnlyElsewhere(n, m) ==
  stage[n] = "Approved" /\ ~DstContains(m.dst, n, PrefixOf(n))

\* Stage::in_dst_location, the relay: an approved node relays a message
\* not for it, and a message for a whole section.
NeedsRelay(n, m) ==
  stage[n] = "Approved" /\ (~DstContains(m.dst, n, PrefixOf(n)) \/ m.dst.kind = "Section")

\* Approved::relay_message (spec 4.7 steps 3 and 5): delivery_targets from
\* our view of the network (the member table of our section holds the
\* joiner only once it is approved), the first dg_size targets, less those
\* the outgoing filter says already have the message.  The sections never
\* change, so delivery_targets is a table, RelayTable, indexed by the node,
\* the destination and whether the joiner is a member; MCStage computes it
\* with DeliveryGroup's DeliveryTargets.  What the stage relies on is its
\* shape: Ok((targets, dg_size)) with dg_size at most the number of
\* targets, all of them nodes, or Err(CannotRoute).
RelayResults ==
  { r \in [ok : BOOLEAN, targets : Seq(Nodes), dg : Nat] : r.dg <= Len(r.targets) }

ASSUME RelayTableAssumption ==
  RelayTable \in [Nodes \X (UserDsts \cup {Direct}) \X BOOLEAN -> RelayResults]

RelayResult(n, m) == RelayTable[<< n, m.dst, joined >>]

\* Variant of RelayTo without the outgoing filter.
RelayToUnfiltered(n, m) ==
  LET r == RelayResult(n, m)
  IN  { r.targets[i] : i \in 1 .. r.dg }

RelayTo(n, m) ==
  LET r == RelayResult(n, m)
  IN  { r.targets[i] : i \in 1 .. r.dg } \ { t \in Nodes : << n, m, t >> \in outFilter }

\* relay_message returns Err(CannotRoute); in_dst_location's `?` ends
\* process_message there.
RelayFails(n, m) == NeedsRelay(n, m) /\ ~RelayResult(n, m).ok

\* What the state's process_message does with a message for it.
\* Bootstrapping: BootstrapResponse::Join moves to Joining and sends a
\* JoinRequest to each elder of the target section.  Joining: a
\* NodeApproval makes the node Approved.  Approved: answers a
\* BootstrapRequest with Join (the joiner's name is in our prefix), an
\* elder approves a JoinRequest (the joiner becomes a member) and replies
\* NodeApproval, and a user message is handed to the user.  Anything else
\* is ignored.
NextStage(n, m) ==
  CASE stage[n] = "Bootstrapping" /\ m = BootstrapJoin -> "Joining"
    [] stage[n] = "Joining" /\ m = NodeApproval -> "Approved"
    [] OTHER -> stage[n]

Replies(n, e) ==
  CASE stage[n] = "Bootstrapping" /\ e.msg = BootstrapJoin ->
         { [to |-> x, from |-> n, msg |-> JoinRequest] : x \in SectionElders[PrefixOf(n)] }
    [] stage[n] = "Approved" /\ e.msg = BootstrapRequest ->
         { [to |-> e.from, from |-> n, msg |-> BootstrapJoin] }
    [] stage[n] = "Approved" /\ e.msg = JoinRequest ->
         { [to |-> e.from, from |-> n, msg |-> NodeApproval] }
    [] OTHER -> {}

\* Stage::process_message(sender, msg), one message of node n's queue.
ProcessMessage(n, e) ==
  /\ e \in net /\ e.to = n
  /\ LET m      == e.msg
         relay  == IF NeedsRelay(n, m) /\ ~RelayFails(n, m) THEN RelayTo(n, m) ELSE {}
         handle == InDstLocation(n, m) /\ ~RelayFails(n, m)
     IN  /\ outFilter' = outFilter \cup { << n, m, t >> : t \in relay }
         /\ net' = (net \ {e}) \cup { [to |-> t, from |-> n, msg |-> m] : t \in relay }
                                \cup (IF handle THEN Replies(n, e) ELSE {})
         /\ stage' = IF handle THEN [stage EXCEPT ![n] = NextStage(n, m)] ELSE stage
         /\ handled' = IF handle /\ stage[n] = "Approved"
                       THEN handled \cup { << n, m >> } ELSE handled
         /\ joined' = (joined \/ (handle /\ stage[n] = "Approved" /\ m = JoinRequest))
  /\ UNCHANGED sent

\* Stage::send_message: only an approved node sends (any other state
\* returns InvalidState and nothing changes); send_user_message routes the
\* message from us as it routes an incoming one.
SendMessage(n, dst) ==
  /\ stage[n] = "Approved"
  /\ Cardinality(sent) < MaxUserMsgs
  /\ LET m == [kind |-> "User", id |-> Cardinality(sent) + 1, dst |-> dst]
     IN  /\ sent' = sent \cup {m}
         /\ net' = net \cup { [to |-> n, from |-> n, msg |-> m] }
  /\ UNCHANGED << stage, outFilter, handled, joined >>

Next ==
  \/ \E n \in Nodes, e \in net : ProcessMessage(n, e)
  \/ \E n \in Nodes, dst \in UserDsts : SendMessage(n, dst)

\* Stage::process_timeout is not an action: it only hands the token to the
\* current state's process_timeout, which returns Result<()> and never
\* reassigns self.state, so a timer firing leaves the stage as it was.
\* The timeout handlers of the three states are not in this repository.

\* Each node's event loop takes every message that reaches it.  Sends are
\* not forced.
Spec == Init /\ [][Next]_vars /\ \A n \in Nodes : WF_vars(\E e \in net : ProcessMessage(n, e))

-----------------------------------------------------------------------------
(***************************************************************************)
(* Properties                                                              *)
(***************************************************************************)

\* Who a user message is for: the named node, or every elder of the
\* section holding the name.
Recipients(dst) ==
  IF dst.kind = "Node" THEN {dst.name} ELSE SectionElders[PrefixOf(dst.name)]

(***************************************************************************)
(* Every user message an approved node sends reaches the handler of every  *)
(* node it is for: relayed hop by hop by in_dst_location and               *)
(* delivery_targets from whichever node sent it, and for a section also    *)
(* relayed across that section by the elders that receive it.             *)
(***************************************************************************)
UserMessagesDelivered ==
  \A m \in UserMsgs :
    [](m \in sent => <>(\A x \in Recipients(m.dst) : << x, m >> \in handled))

(***************************************************************************)
(* Relaying stops: every node passes each message on at most once per      *)
(* recipient (outgoing filter), so although elders of a section relay a   *)
(* section message to one another, the network eventually falls silent.  *)
(***************************************************************************)
Quiescence == <>[](net = {})
=============================================================================
