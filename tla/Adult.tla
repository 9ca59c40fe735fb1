------------------------------- MODULE Adult -------------------------------
(***************************************************************************)
(* The Adult state of a node (src/states/adult/mod.rs): an approved member *)
(* of a section that is not one of its elders.  It receives the section's  *)
(* signed routing messages (hop messages and signature shares) from the    *)
(* elders, keeps the ones addressed to its location in a backlog for when *)
(* it is promoted, forwards every message to its elders, installs the      *)
(* section's GenesisUpdates, answers bootstrap requests, backlogs join     *)
(* requests, obeys Relocate and reports its knowledge on a timer.          *)
(*                                                                         *)
(* One adult is modelled, with its environment: the elders of its section  *)
(* (who send it messages), other peers (who send it direct messages), the  *)
(* timer and the consensus engine.  Messages in flight form a set; each    *)
(* elder sends its own copy of a section message, so the adult sees        *)
(* duplicates, in any order across elders.                                 *)
(***************************************************************************)
EXTENDS Naturals, FiniteSets, Sequences

CONSTANTS
  Elders,       \* elders of our section (model values)
  Peers,        \* other nodes sending us direct messages (model values)
  UserIds,      \* identities of signed messages other than GenesisUpdate
  MaxVersion,   \* number of section changes (GenesisUpdates) in a run
  Threshold,    \* signature shares the accumulator needs (spec 4.5)
  Tokens,       \* timer tokens; the live ones are pairwise distinct
  MaxDirect     \* bound on the direct messages peers and elders send

ASSUME ConstantsAssumption ==
  /\ Elders # {} /\ IsFiniteSet(Elders)
  /\ MaxVersion \in Nat
  /\ Threshold \in 1 .. Cardinality(Elders)
  /\ MaxDirect \in Nat
  /\ IsFiniteSet(Tokens) /\ Cardinality(Tokens) >= 3

(***************************************************************************)
(* Signed routing messages.  A GenesisUpdate carries the parsec version of *)
(* the new GenesisPfxInfo and the index of the section key its proof chain *)
(* starts from (SignedRoutingMessage::verify, not in this repository:      *)
(* spec 4.7 step 4).  Other signed messages are identified by an id and    *)
(* say whether our location is in their destination (Chain::in_location). *)
(***************************************************************************)
Versions == 0 .. MaxVersion

GenesisMsgs ==
  { [kind |-> "Genesis", ver |-> v, from |-> s] : v \in 1 .. MaxVersion, s \in 0 .. MaxVersion }

UserMsgs == [kind : {"User"}, id : UserIds, forUs : BOOLEAN]

SignedMsgs == GenesisMsgs \cup UserMsgs

\* Messages in flight to us: hop messages and signature shares from
\* elders, and direct messages (DirectMessage) from elders and peers.
HopMsgs == [type : {"Hop", "Sig"}, msg : SignedMsgs, src : Elders]
PeerMsgs == [type : {"JoinRequest", "MemberKnowledge", "BootstrapResponse"}, src : Peers]
BootstrapRequests == [type : {"BootstrapRequest"}, src : Peers, matches : BOOLEAN]
RelocateMsgs == [type : {"Relocate"}, src : Elders, forUs : BOOLEAN, valid : BOOLEAN]
NetMsgs == HopMsgs \cup PeerMsgs \cup BootstrapRequests \cup RelocateMsgs

\* What the Adult value became (Transition of the state machine).
States == {"Adult", "Elder", "Relocating", "Bootstrapping", "Paused"}

VARIABLES
  state,           \* "Adult" while this Adult value is live
  finished,        \* finish_handle_transition has run
  genVersion,      \* gen_pfx_info.parsec_version; the chain is built from it
  filter,          \* routing_msg_filter, incoming: signed messages seen
  outFilter,       \* routing_msg_filter, outgoing: <<message, elder>> sent
  routingBacklog,  \* routing_msg_backlog
  directBacklog,   \* direct_msg_backlog: <<peer, message type>>
  sigAcc,          \* sig_accumulator: message -> elders whose share it holds
  knowledgeToken,  \* knowledge_timer_token
  timers,          \* tokens scheduled on the timer, not yet fired
  replies,         \* BootstrapResponses sent: <<peer, "Join" | "Rebootstrap">>
  net,             \* messages in flight to us
  secVersion,      \* environment: the section's latest parsec version
  issued,          \* environment: signed messages the section has issued
  directSent       \* environment: direct messages sent to us so far

adultVars == << state, finished, genVersion, filter, outFilter, routingBacklog,
                directBacklog, sigAcc, knowledgeToken, timers, replies >>
envVars == << net, secVersion, issued, directSent >>
vars == << adultVars, envVars >>

TypeOK ==
  /\ state \in States
  /\ finished \in BOOLEAN
  /\ genVersion \in Versions
  /\ filter \subseteq SignedMsgs
  /\ outFilter \subseteq SignedMsgs \X Elders
  /\ routingBacklog \in Seq(SignedMsgs)
  /\ directBacklog \in Seq(Peers \X {"JoinRequest", "MemberKnowledge"})
  /\ sigAcc \in [SignedMsgs -> SUBSET Elders]
  /\ knowledgeToken \in Tokens
  /\ timers \subseteq Tokens
  /\ replies \subseteq Peers \X {"Join", "Rebootstrap"}
  /\ net \subseteq NetMsgs
  /\ secVersion \in Versions
  /\ issued \subseteq SignedMsgs
  /\ directSent \in 0 .. MaxDirect

-----------------------------------------------------------------------------
(***************************************************************************)
(* Initial state: Adult::new from AdultDetails, handed over by the joining *)
(* state: the parsec version of the genesis info it joined with (0), the   *)
(* backlogs, filter and accumulator carried over (a message for us the    *)
(* joining state backlogged, or nothing; an empty filter), and the         *)
(* knowledge timer scheduled.  A token of the previous state's timer may   *)
(* still be pending.                                                       *)
(***************************************************************************)
Init ==
  /\ state = "Adult"
  /\ finished = FALSE
  /\ genVersion = 0
  /\ filter = {}
  /\ outFilter = {}
  /\ \E m \in { x \in UserMsgs : x.forUs } :
       /\ routingBacklog \in { << >>, << m >> }
       /\ issued = { routingBacklog[i] : i \in 1 .. Len(routingBacklog) }
  /\ directBacklog = << >>
  /\ sigAcc = [m \in SignedMsgs |-> {}]
  /\ \E k \in Tokens, stale \in SUBSET Tokens :
       /\ Cardinality(stale) <= 1
       /\ knowledgeToken = k
       /\ timers = {k} \cup stale
  /\ replies = {}
  /\ net = {}
  /\ secVersion = 0
  /\ directSent = 0

-----------------------------------------------------------------------------
(***************************************************************************)
(* Message handling (the Base and Approved handlers of Adult).             *)
(***************************************************************************)

\* The adult handles messages once the transition into it has finished.
Live == state = "Adult" /\ finished

\* verify_signed_message: VerifyStatus::Full when the proof chain of the
\* message starts from a key our chain (built from gen_pfx_info) knows;
\* otherwise ProofTooNew, returned as Err(UntrustedMessage).
Trusted(m) == m.from <= genVersion

\* Variant of HandleGenesisUpdate without the early return for an update
\* that is not newer than ours.
HandleGenesisUpdateNoBailOut(m) ==
  /\ genVersion' = m.ver
  /\ routingBacklog' = << >>
  /\ directBacklog' = << >>

\* handle_genesis_update: bail out if we are already up to date, else
\* install the new genesis info (parsec and chain re-initialised) and
\* drop both backlogs.
HandleGenesisUpdate(m) ==
  IF m.ver <= genVersion
  THEN UNCHANGED << genVersion, routingBacklog, directBacklog >>
  ELSE /\ genVersion' = m.ver
       /\ routingBacklog' = << >>
       /\ directBacklog' = << >>

\* send_signed_message_to_elders: send to each elder the outgoing filter has
\* not seen it sent to, then mark the message seen incoming.
SendSignedMessageToElders(m) ==
  /\ outFilter' = outFilter \cup { <<m, e>> : e \in Elders }
  /\ filter' = filter \cup {m}

\* handle_filtered_signed_message: a GenesisUpdate for our location is
\* verified and handled, and not forwarded; a verification failure
\* returns the error (`?`).  Any other message for our location is
\* backlogged; every message that gets here is forwarded to our elders.
HandleFilteredSignedMessage(m) ==
  IF m.kind = "Genesis"
  THEN /\ filter' = filter \cup {m}
       /\ UNCHANGED outFilter
       /\ IF Trusted(m)
          THEN HandleGenesisUpdate(m)
          ELSE UNCHANGED << genVersion, routingBacklog, directBacklog >>
  ELSE /\ routingBacklog' = IF m.forUs THEN Append(routingBacklog, m)
                                       ELSE routingBacklog
       /\ SendSignedMessageToElders(m)
       /\ UNCHANGED << genVersion, directBacklog >>

\* Variant of HandleSignedMessage without the incoming filter's check.
HandleSignedMessageUnfiltered(m) ==
  /\ filter' = filter \cup {m}
  /\ HandleFilteredSignedMessage(m)

\* handle_signed_message: the incoming filter first marks the message as
\* seen; a message it already knew is not handled further.
HandleSignedMessage(m) ==
  IF m \in filter
  THEN UNCHANGED << filter, outFilter, genVersion, routingBacklog, directBacklog >>
  ELSE /\ filter' = filter \cup {m}
       /\ HandleFilteredSignedMessage(m)

\* handle_hop_message: a signed message relayed to us by an elder.
HandleHopMessage(r) ==
  /\ Live
  /\ r \in net /\ r.type = "Hop"
  /\ net' = net \ {r}
  /\ HandleSignedMessage(r.msg)
  /\ UNCHANGED << state, finished, sigAcc, knowledgeToken, timers, replies,
                  secVersion, issued, directSent >>

\* Variant of HandleMessageSignature that needs one share more than the
\* threshold.
HandleMessageSignatureLate(r) ==
  /\ Live
  /\ r \in net /\ r.type = "Sig"
  /\ net' = net \ {r}
  /\ LET m     == r.msg
         proofs == sigAcc[m] \cup {r.src}
     IN  /\ sigAcc' = [sigAcc EXCEPT ![m] = proofs]
         /\ IF r.src \notin sigAcc[m] /\ Cardinality(proofs) = Threshold + 1
            THEN HandleSignedMessage(m)
            ELSE UNCHANGED << filter, outFilter, genVersion, routingBacklog,
                             directBacklog >>
  /\ UNCHANGED << state, finished, knowledgeToken, timers, replies,
                  secVersion, issued, directSent >>

\* handle_message_signature: add the share to the accumulator; on the
\* share that completes the signature (add_proof returns Some, once per
\* message: spec 4.5) handle the signed message.
HandleMessageSignature(r) ==
  /\ Live
  /\ r \in net /\ r.type = "Sig"
  /\ net' = net \ {r}
  /\ LET m     == r.msg
         proofs == sigAcc[m] \cup {r.src}
     IN  /\ sigAcc' = [sigAcc EXCEPT ![m] = proofs]
         /\ IF r.src \notin sigAcc[m] /\ Cardinality(proofs) = Threshold
            THEN HandleSignedMessage(m)
            ELSE UNCHANGED << filter, outFilter, genVersion, routingBacklog,
                             directBacklog >>
  /\ UNCHANGED << state, finished, knowledgeToken, timers, replies,
                  secVersion, issued, directSent >>

\* handle_bootstrap_request: answer Join with our section's info when our
\* prefix matches the requested name, else Rebootstrap with our elders.
HandleBootstrapRequest(r) ==
  /\ Live
  /\ r \in net /\ r.type = "BootstrapRequest"
  /\ net' = net \ {r}
  /\ replies' = replies \cup {<< r.src, IF r.matches THEN "Join" ELSE "Rebootstrap" >>}
  /\ UNCHANGED << state, finished, genVersion, filter, outFilter, routingBacklog,
                  directBacklog, sigAcc, knowledgeToken, timers,
                  secVersion, issued, directSent >>

\* Variant of HandleDirectBacklogged that backlogs a BootstrapResponse too.
HandleDirectBackloggedAll(r) ==
  /\ Live
  /\ r \in net /\ r.type \in {"JoinRequest", "MemberKnowledge", "BootstrapResponse"}
  /\ net' = net \ {r}
  /\ directBacklog' = Append(directBacklog, << r.src, r.type >>)
  /\ UNCHANGED << state, finished, genVersion, filter, outFilter, routingBacklog,
                  sigAcc, knowledgeToken, timers, replies,
                  secVersion, issued, directSent >>

\* handle_direct_message: JoinRequest and MemberKnowledge are kept in the
\* direct backlog for when we are an elder; a BootstrapResponse is dropped.
HandleDirectBacklogged(r) ==
  /\ Live
  /\ r \in net /\ r.type \in {"JoinRequest", "MemberKnowledge", "BootstrapResponse"}
  /\ net' = net \ {r}
  /\ directBacklog' = IF r.type = "BootstrapResponse" THEN directBacklog
                      ELSE Append(directBacklog, << r.src, r.type >>)
  /\ UNCHANGED << state, finished, genVersion, filter, outFilter, routingBacklog,
                  sigAcc, knowledgeToken, timers, replies,
                  secVersion, issued, directSent >>

\* handle_relocate: a Relocate for another node (a duplicate of one already
\* handled) or with details that fail the signature check is ignored;
\* otherwise disconnect from every peer (what was in flight is lost) and
\* leave for the bootstrapping state of the relocation.
HandleRelocate(r) ==
  /\ Live
  /\ r \in net /\ r.type = "Relocate"
  /\ IF r.forUs /\ r.valid
     THEN /\ state' = "Relocating"
          /\ net' = {}
     ELSE /\ net' = net \ {r}
          /\ UNCHANGED state
  /\ UNCHANGED << finished, genVersion, filter, outFilter, routingBacklog,
                  directBacklog, sigAcc, knowledgeToken, timers, replies,
                  secVersion, issued, directSent >>

\* Variant of HandleTimeout that does not schedule the timer again.
HandleTimeoutOnce(t) ==
  /\ Live
  /\ t \in timers
  /\ timers' = timers \ {t}
  /\ UNCHANGED << knowledgeToken, state, finished, genVersion, filter, outFilter,
                  routingBacklog, directBacklog, sigAcc, replies, net, secVersion,
                  issued, directSent >>

\* handle_timeout: when the knowledge timer fires, send our member knowledge
\* to the elders and schedule the timer again (a fresh token); any other
\* token is not ours and is ignored.
HandleTimeout(t) ==
  /\ Live
  /\ t \in timers
  /\ IF t = knowledgeToken
     THEN \E k \in Tokens \ timers :
            /\ knowledgeToken' = k
            /\ timers' = (timers \ {t}) \cup {k}
     ELSE /\ timers' = timers \ {t}
          /\ UNCHANGED knowledgeToken
  /\ UNCHANGED << state, finished, genVersion, filter, outFilter, routingBacklog,
                  directBacklog, sigAcc, replies, net, secVersion, issued,
                  directSent >>

\* The knowledge timer firing: the step that sends MemberKnowledge.
SendMemberKnowledge == \E t \in timers : t = knowledgeToken /\ HandleTimeout(t)

\* Variant of FinishHandleTransition that does not replay the backlogs.
FinishWithoutReplay ==
  /\ state = "Adult" /\ ~finished
  /\ finished' = TRUE
  /\ UNCHANGED << state, genVersion, filter, outFilter, routingBacklog,
                  directBacklog, sigAcc, knowledgeToken, timers, replies, net,
                  secVersion, issued, directSent >>

\* finish_handle_transition: replay the direct backlog (JoinRequest and
\* MemberKnowledge go back into it, in order) and then the routing backlog
\* through handle_filtered_signed_message (everything carried over is a
\* message for our location other than a GenesisUpdate: it is backlogged
\* again and forwarded to our elders).
FinishHandleTransition ==
  /\ state = "Adult" /\ ~finished
  /\ finished' = TRUE
  /\ outFilter' = outFilter \cup
                  { <<routingBacklog[i], e>> : i \in 1 .. Len(routingBacklog), e \in Elders }
  /\ filter' = filter \cup { routingBacklog[i] : i \in 1 .. Len(routingBacklog) }
  /\ UNCHANGED << state, genVersion, routingBacklog, directBacklog, sigAcc,
                  knowledgeToken, timers, replies, net, secVersion, issued,
                  directSent >>

\* handle_section_info_event when a SectionInfo consensus makes us an
\* elder (Chain::is_self_elder): into_elder hands the chain, backlogs and
\* accumulator to the Elder state with a fresh message filter.  (When it
\* does not, the event is only logged.)
IntoElder ==
  /\ Live
  /\ state' = "Elder"
  /\ filter' = {}
  /\ UNCHANGED << finished, genVersion, outFilter, routingBacklog, directBacklog,
                  sigAcc, knowledgeToken, timers, replies, net, secVersion,
                  issued, directSent >>

\* rebootstrap: leave for Bootstrapping with a new identity in our prefix.
Rebootstrap ==
  /\ Live
  /\ state' = "Bootstrapping"
  /\ UNCHANGED << finished, genVersion, filter, outFilter, routingBacklog,
                  directBacklog, sigAcc, knowledgeToken, timers, replies, net,
                  secVersion, issued, directSent >>

\* pause: the state is handed out as a PausedState, without its timer.
Pause ==
  /\ Live
  /\ state' = "Paused"
  /\ timers' = {}
  /\ UNCHANGED << finished, genVersion, filter, outFilter, routingBacklog,
                  directBacklog, sigAcc, knowledgeToken, replies, net,
                  secVersion, issued, directSent >>

\* Variant of Resume that keeps the old token and schedules nothing.
ResumeUnscheduled ==
  /\ state = "Paused"
  /\ state' = "Adult"
  /\ UNCHANGED << knowledgeToken, timers, finished, genVersion, filter, outFilter,
                  routingBacklog, directBacklog, sigAcc, replies, net, secVersion,
                  issued, directSent >>

\* resume: an Adult again from the PausedState, with a new timer on which
\* the knowledge timer is scheduled.
Resume ==
  /\ state = "Paused"
  /\ state' = "Adult"
  /\ \E k \in Tokens :
       /\ knowledgeToken' = k
       /\ timers' = {k}
  /\ UNCHANGED << finished, genVersion, filter, outFilter, routingBacklog,
                  directBacklog, sigAcc, replies, net, secVersion, issued,
                  directSent >>

-----------------------------------------------------------------------------
(***************************************************************************)
(* Environment: the section changes (its elders each send the adult the    *)
(* GenesisUpdate, signed with a proof chain starting at some earlier key), *)
(* the section issues other signed messages (each elder relays a copy, or  *)
(* each sends its signature share), peers send direct messages, and an     *)
(* elder may send a Relocate.                                              *)
(***************************************************************************)
SectionChange ==
  /\ secVersion < MaxVersion
  /\ secVersion' = secVersion + 1
  /\ \E s \in 0 .. secVersion :
       LET m == [kind |-> "Genesis", ver |-> secVersion + 1, from |-> s]
       IN  /\ issued' = issued \cup {m}
           /\ net' = net \cup { [type |-> "Hop", msg |-> m, src |-> e] : e \in Elders }
  /\ UNCHANGED << adultVars, directSent >>

IssueMessage ==
  /\ \E m \in UserMsgs, how \in {"Hop", "Sig"} :
       /\ \A x \in issued : x.kind = "User" => x.id # m.id
       /\ issued' = issued \cup {m}
       /\ net' = net \cup { [type |-> how, msg |-> m, src |-> e] : e \in Elders }
  /\ UNCHANGED << adultVars, secVersion, directSent >>

PeerSends ==
  /\ directSent < MaxDirect
  /\ directSent' = directSent + 1
  /\ \E r \in PeerMsgs \cup BootstrapRequests : net' = net \cup {r}
  /\ UNCHANGED << adultVars, secVersion, issued >>

ElderSendsRelocate ==
  /\ directSent < MaxDirect
  /\ directSent' = directSent + 1
  /\ \E r \in RelocateMsgs : net' = net \cup {r}
  /\ UNCHANGED << adultVars, secVersion, issued >>

-----------------------------------------------------------------------------
\* Delivery of one message in flight to the handler for its type.
Receive(r) ==
  \/ HandleHopMessage(r)
  \/ HandleMessageSignature(r)
  \/ HandleBootstrapRequest(r)
  \/ HandleDirectBacklogged(r)
  \/ HandleRelocate(r)

AdultNext ==
  \/ \E r \in net : Receive(r)
  \/ \E t \in timers : HandleTimeout(t)
  \/ FinishHandleTransition
  \/ IntoElder
  \/ Rebootstrap
  \/ Pause
  \/ Resume

EnvNext ==
  \/ SectionChange
  \/ IssueMessage
  \/ PeerSends
  \/ ElderSendsRelocate

Next == AdultNext \/ EnvNext

(***************************************************************************)
(* Fairness: the transport delivers every message and the event loop       *)
(* handles it; the timer fires; the state machine finishes the transition. *)
(* Promotion, relocation, pausing and everything the environment does are  *)
(* not forced.                                                             *)
(***************************************************************************)
Fairness ==
  /\ \A r \in NetMsgs : WF_vars(Receive(r))
  /\ \A t \in Tokens : WF_vars(HandleTimeout(t))
  /\ WF_vars(FinishHandleTransition)

Spec == Init /\ [][Next]_vars /\ Fairness

-----------------------------------------------------------------------------
(***************************************************************************)
(* Properties                                                              *)
(***************************************************************************)
BacklogSet == { routingBacklog[i] : i \in 1 .. Len(routingBacklog) }

(***************************************************************************)
(* The routing backlog never holds a message twice, although every elder   *)
(* relays its own copy, signature shares keep arriving after the one that  *)
(* completes a signature, and finish_handle_transition replays the backlog *)
(* into itself: the incoming filter and the accumulator's once-only        *)
(* completion together keep each message out after its first handling.     *)
(***************************************************************************)
BacklogNoDuplicates ==
  \A i, j \in 1 .. Len(routingBacklog) : i # j => routingBacklog[i] # routingBacklog[j]

(***************************************************************************)
(* Once the transition into Adult has finished, every non-GenesisUpdate    *)
(* message the adult has seen (incoming filter) or holds in its backlog    *)
(* has been sent to every elder of its section                             *)
(* (send_signed_message_to_elders), so nothing addressed to the section    *)
(* stalls at an adult.                                                     *)
(***************************************************************************)
RelayedToElders ==
  Live =>
    \A m \in (filter \cup BacklogSet) \cap UserMsgs, e \in Elders : << m, e >> \in outFilter

(***************************************************************************)
(* While the adult is live, the knowledge timer is scheduled: the token it *)
(* waits for (knowledge_timer_token) is pending on the timer, across       *)
(* handle_timeout rescheduling it and pause/resume replacing the timer.    *)
(***************************************************************************)
KnowledgeTimerArmed == Live => knowledgeToken \in timers

(***************************************************************************)
(* An adult that stays an adult sends its MemberKnowledge to the elders    *)
(* again and again (handle_timeout: send_member_knowledge on every         *)
(* knowledge timeout).                                                     *)
(***************************************************************************)
KnowledgeKeepsFlowing == <>[]Live => []<><<SendMemberKnowledge>>_vars

(***************************************************************************)
(* An adult that stays an adult eventually takes in every message its      *)
(* section issues, whether the elders relay it whole (handle_hop_message)  *)
(* or each send a signature share (handle_message_signature: the share    *)
(* that brings the accumulator to the threshold hands the message on),     *)
(* across pause, resume and section changes.                               *)
(***************************************************************************)
IssuedMessagesTakenIn ==
  <>[]Live => \A m \in UserMsgs : [](m \in issued => <>(m \in filter))

(***************************************************************************)
(* An adult that stays an adult eventually installs the section's latest   *)
(* GenesisUpdate (spec 4.7 step 4: an update whose proof is too new is     *)
(* kept and re-evaluated when the chain catches up).                       *)
(***************************************************************************)
GenesisCatchUp == <>[]Live => <>[](genVersion = secVersion)

-----------------------------------------------------------------------------
(***************************************************************************)
(* Refinement: the adult implements AdultRouting.  Its mode is read from   *)
(* state and finished; what it has taken in is what its incoming filter   *)
(* and its backlog hold; what it has forwarded is its outgoing filter;     *)
(* the routing backlog is the abstract pending list.                       *)
(***************************************************************************)
Mode ==
  CASE state = "Adult" /\ ~finished -> "Joined"
    [] state = "Adult" /\ finished   -> "Active"
    [] state = "Paused"             -> "Paused"
    [] OTHER                        -> "Gone"

AR == INSTANCE AdultRouting WITH
        mode      <- Mode,
        version   <- genVersion,
        latest    <- secVersion,
        published <- issued \cap UserMsgs,
        accepted  <- (filter \cup BacklogSet) \cap UserMsgs,
        pending   <- routingBacklog,
        forwarded <- { p \in outFilter : p[1] \in UserMsgs }

(***************************************************************************)
(* Every step of the adult is a step of AdultRouting or leaves it          *)
(* unchanged.  So, across duplicated and reordered hop messages and        *)
(* signature shares: a GenesisUpdate older than ours is ignored            *)
(* (handle_genesis_update's early return) and none is installed before the *)
(* section issued it; each message is taken in and backlogged once and     *)
(* forwarded to every elder; the backlog is cleared on, and only on, a     *)
(* section key change.                                                     *)
(***************************************************************************)
ImplementsAdultRouting == AR!Spec
=============================================================================
