---------------------------- MODULE AdultProofs ----------------------------
(***************************************************************************)
(* Proofs about Adult for every value of the constants: the type          *)
(* invariant, the knowledge timer staying armed, the routing backlog       *)
(* holding no duplicates and every message an adult has seen being         *)
(* forwarded to its elders.                                                *)
(***************************************************************************)
EXTENDS Adult, TLAPS

(***************************************************************************)
(* The inductive invariant.  The properties are stated for a live adult;   *)
(* to carry them across pause and resume they must hold of the paused      *)
(* value too, and to carry them across finish_handle_transition the state  *)
(* before it must be pinned down: nothing handled yet (an empty filter)    *)
(* and at most the one message carried over in the backlog.                *)
(***************************************************************************)
Kept == state \in {"Adult", "Paused"} /\ finished

TimerInv == state = "Adult" => knowledgeToken \in timers

FreshInv == ~finished => filter = {} /\ Len(routingBacklog) <= 1

BacklogInv == Kept => BacklogSet \subseteq filter

RelayInv ==
  Kept => \A m \in (filter \cup BacklogSet) \cap UserMsgs, e \in Elders :
            << m, e >> \in outFilter

IInv ==
  /\ TypeOK
  /\ TimerInv
  /\ FreshInv
  /\ BacklogInv
  /\ BacklogNoDuplicates
  /\ RelayInv

-----------------------------------------------------------------------------
USE ConstantsAssumption

\* The initial state (Adult::new, before finish_handle_transition)
\* satisfies the inductive invariant.
THEOREM InitIInv == Init => IInv
<1> SUFFICES ASSUME Init PROVE IInv
  OBVIOUS
<1>1. PICK m \in { x \in UserMsgs : x.forUs } :
        /\ routingBacklog \in { << >>, << m >> }
        /\ issued = { routingBacklog[i] : i \in 1 .. Len(routingBacklog) }
  BY DEF Init
<1>2. TypeOK
  <2>1. routingBacklog \in Seq(SignedMsgs) /\ issued \subseteq SignedMsgs
    <3>1. m \in SignedMsgs
      BY DEF SignedMsgs
    <3>2. CASE routingBacklog = << >>
      BY <1>1, <3>2
    <3>3. CASE routingBacklog = << m >>
      BY <1>1, <3>1, <3>3
    <3> QED
      BY <1>1, <3>2, <3>3
  <2>2. knowledgeToken \in Tokens /\ timers \subseteq Tokens
    BY DEF Init
  <2>3. sigAcc \in [SignedMsgs -> SUBSET Elders]
    BY DEF Init
  <2>4. /\ state \in States /\ finished \in BOOLEAN /\ genVersion \in Versions
        /\ secVersion \in Versions /\ directSent \in 0 .. MaxDirect
    <3>1. state = "Adult" /\ finished = FALSE /\ genVersion = 0
          /\ secVersion = 0 /\ directSent = 0
      BY DEF Init
    <3>2. state \in States
      BY <3>1 DEF States
    <3>3. finished \in BOOLEAN
      BY <3>1
    <3>4. genVersion \in Versions /\ secVersion \in Versions
      BY <3>1 DEF Versions
    <3>5. directSent \in 0 .. MaxDirect
      BY <3>1
    <3> QED
      BY <3>2, <3>3, <3>4, <3>5
  <2>5. /\ filter \subseteq SignedMsgs /\ outFilter \subseteq SignedMsgs \X Elders
        /\ directBacklog \in Seq(Peers \X {"JoinRequest", "MemberKnowledge"})
        /\ replies \subseteq Peers \X {"Join", "Rebootstrap"} /\ net \subseteq NetMsgs
    BY DEF Init
  <2> QED
    BY <2>1, <2>2, <2>3, <2>4, <2>5 DEF TypeOK
<1>3. TimerInv /\ FreshInv /\ BacklogInv /\ RelayInv
  BY <1>1 DEF Init, TimerInv, FreshInv, BacklogInv, RelayInv, Kept
<1>4. BacklogNoDuplicates
  BY <1>1 DEF BacklogNoDuplicates
<1> QED
  BY <1>2, <1>3, <1>4 DEF IInv

\* What handle_signed_message can do to the adult's message state: nothing
\* (a message seen before), mark a GenesisUpdate seen with or without
\* installing it, or mark another message seen, forward it to every elder
\* and possibly backlog it.
LEMMA SignedMessageEffect ==
  ASSUME NEW m \in SignedMsgs, HandleSignedMessage(m)
  PROVE  \/ UNCHANGED << filter, outFilter, genVersion, routingBacklog, directBacklog >>
         \/ /\ m \notin filter /\ m \in GenesisMsgs /\ filter' = filter \cup {m}
            /\ UNCHANGED << outFilter, genVersion, routingBacklog, directBacklog >>
         \/ /\ m \notin filter /\ m \in GenesisMsgs /\ filter' = filter \cup {m}
            /\ UNCHANGED outFilter /\ ~(m.ver <= genVersion) /\ genVersion' = m.ver
            /\ routingBacklog' = << >> /\ directBacklog' = << >>
         \/ /\ m \notin filter /\ m \in UserMsgs /\ filter' = filter \cup {m}
            /\ outFilter' = outFilter \cup { << m, e >> : e \in Elders }
            /\ routingBacklog' = IF m.forUs THEN Append(routingBacklog, m)
                                            ELSE routingBacklog
            /\ UNCHANGED << genVersion, directBacklog >>
<1>1. m \in GenesisMsgs <=> m.kind = "Genesis"
  BY DEF SignedMsgs, GenesisMsgs, UserMsgs
<1>2. CASE m \in filter
  BY <1>2 DEF HandleSignedMessage
<1>3. CASE m \notin filter /\ m \in GenesisMsgs
  <2>1. filter' = filter \cup {m} /\ UNCHANGED outFilter
    BY <1>1, <1>3 DEF HandleSignedMessage, HandleFilteredSignedMessage
  <2>2. \/ UNCHANGED << genVersion, routingBacklog, directBacklog >>
        \/ /\ ~(m.ver <= genVersion) /\ genVersion' = m.ver
           /\ routingBacklog' = << >> /\ directBacklog' = << >>
    BY <1>1, <1>3 DEF HandleSignedMessage, HandleFilteredSignedMessage,
                     HandleGenesisUpdate
  <2> QED
    BY <1>3, <2>1, <2>2
<1>4. CASE m \notin filter /\ m \notin GenesisMsgs
  <2>1. m \in UserMsgs
    BY <1>4 DEF SignedMsgs
  <2>2. /\ filter' = filter \cup {m}
        /\ outFilter' = outFilter \cup { << m, e >> : e \in Elders }
        /\ routingBacklog' = IF m.forUs THEN Append(routingBacklog, m)
                                        ELSE routingBacklog
        /\ UNCHANGED << genVersion, directBacklog >>
    BY <1>1, <1>4 DEF HandleSignedMessage, HandleFilteredSignedMessage,
                     SendSignedMessageToElders
  <2> QED
    BY <1>4, <2>1, <2>2
<1> QED
  BY <1>2, <1>3, <1>4

\* A live adult handling a signed message (from a hop message or a
\* completed signature) keeps the invariant, whatever it does to the
\* accumulator and the messages in flight.
LEMMA SignedMessageInv ==
  ASSUME IInv, Live, NEW m \in SignedMsgs, HandleSignedMessage(m),
         UNCHANGED << state, finished, knowledgeToken, timers, replies,
                      secVersion, issued, directSent >>,
         sigAcc' \in [SignedMsgs -> SUBSET Elders], net' \subseteq NetMsgs
  PROVE  IInv'
<1> USE DEF IInv
<1>1. Kept /\ Kept'
  BY DEF Live, Kept
<1>2. CASE UNCHANGED << filter, outFilter, genVersion, routingBacklog, directBacklog >>
  BY <1>2 DEF TypeOK, TimerInv, FreshInv, BacklogInv, RelayInv, Kept,
              BacklogSet, BacklogNoDuplicates
<1>3. CASE /\ m \notin filter /\ m \in GenesisMsgs /\ filter' = filter \cup {m}
           /\ UNCHANGED << outFilter, genVersion, routingBacklog, directBacklog >>
  <2>1. TypeOK'
    BY <1>3 DEF TypeOK, SignedMsgs
  <2>2. m \notin UserMsgs
    BY <1>3 DEF GenesisMsgs, UserMsgs
  <2> QED
    BY <1>1, <1>3, <2>1, <2>2 DEF TimerInv, FreshInv, BacklogInv, RelayInv,
                                 BacklogSet, BacklogNoDuplicates, Live
<1>4. CASE /\ m \notin filter /\ m \in GenesisMsgs /\ filter' = filter \cup {m}
           /\ UNCHANGED outFilter /\ genVersion' = m.ver
           /\ routingBacklog' = << >> /\ directBacklog' = << >>
  <2>1. TypeOK'
    BY <1>4 DEF TypeOK, SignedMsgs, GenesisMsgs, Versions
  <2>2. m \notin UserMsgs
    BY <1>4 DEF GenesisMsgs, UserMsgs
  <2>3. BacklogSet' = {}
    BY <1>4 DEF BacklogSet
  <2> QED
    BY <1>1, <1>4, <2>1, <2>2, <2>3 DEF TimerInv, FreshInv, BacklogInv, RelayInv,
                                       BacklogNoDuplicates, Live
<1>5. CASE /\ m \notin filter /\ m \in UserMsgs /\ filter' = filter \cup {m}
           /\ outFilter' = outFilter \cup { << m, e >> : e \in Elders }
           /\ routingBacklog' \in { routingBacklog, Append(routingBacklog, m) }
           /\ UNCHANGED << genVersion, directBacklog >>
  <2>1. TypeOK'
    <3>1. m \in SignedMsgs
      BY DEF SignedMsgs
    <3>2. routingBacklog' \in Seq(SignedMsgs)
      <4>1. routingBacklog \in Seq(SignedMsgs)
        BY DEF TypeOK
      <4>2. CASE routingBacklog' = Append(routingBacklog, m)
        BY <3>1, <4>1, <4>2
      <4> QED
        BY <1>5, <4>1, <4>2
    <3>3. filter' \subseteq SignedMsgs /\ outFilter' \subseteq SignedMsgs \X Elders
      BY <1>5, <3>1 DEF TypeOK
    <3> QED
      BY <1>5, <3>2, <3>3 DEF TypeOK
  <2>2. m \notin BacklogSet
    BY <1>1, <1>5 DEF BacklogInv
  <2>3. BacklogSet' \subseteq BacklogSet \cup {m}
    BY <1>5 DEF TypeOK, BacklogSet
  <2>4. BacklogNoDuplicates'
    BY <1>5, <2>2 DEF TypeOK, BacklogSet, BacklogNoDuplicates
  <2>5. BacklogInv'
    BY <1>1, <1>5, <2>3 DEF BacklogInv
  <2>6. RelayInv'
    BY <1>1, <1>5, <2>3 DEF RelayInv
  <2>7. TimerInv' /\ FreshInv'
    BY <1>5 DEF TimerInv, FreshInv, Live
  <2> QED
    BY <2>1, <2>4, <2>5, <2>6, <2>7
<1> QED
  BY <1>2, <1>3, <1>4, <1>5, SignedMessageEffect

\* Every step of the adult or its environment preserves the inductive
\* invariant.
THEOREM NextIInv == IInv /\ [Next]_vars => IInv'
<1> SUFFICES ASSUME IInv, [Next]_vars PROVE IInv'
  OBVIOUS
<1> USE DEF IInv
<1>1. CASE UNCHANGED vars
  BY <1>1 DEF vars, adultVars, envVars, TypeOK, TimerInv, FreshInv,
              BacklogInv, RelayInv, Kept, BacklogSet, BacklogNoDuplicates
<1>2. ASSUME NEW r \in net, HandleHopMessage(r) PROVE IInv'
  <2>1. r \in HopMsgs /\ r.msg \in SignedMsgs
    BY <1>2 DEF HandleHopMessage, TypeOK, NetMsgs, HopMsgs, PeerMsgs,
                BootstrapRequests, RelocateMsgs
  <2> QED
    BY <1>2, <2>1, SignedMessageInv DEF HandleHopMessage, TypeOK
<1>3. ASSUME NEW r \in net, HandleMessageSignature(r) PROVE IInv'
  <2>1. r \in HopMsgs /\ r.msg \in SignedMsgs /\ r.src \in Elders
    BY <1>3 DEF HandleMessageSignature, TypeOK, NetMsgs, HopMsgs, PeerMsgs,
                BootstrapRequests, RelocateMsgs
  <2>2. sigAcc' \in [SignedMsgs -> SUBSET Elders] /\ net' \subseteq NetMsgs
    BY <1>3, <2>1 DEF HandleMessageSignature, TypeOK
  <2>3. CASE r.src \notin sigAcc[r.msg] /\ Cardinality(sigAcc[r.msg] \cup {r.src}) = Threshold
    BY <1>3, <2>1, <2>2, <2>3, SignedMessageInv DEF HandleMessageSignature
  <2>4. CASE ~(r.src \notin sigAcc[r.msg] /\ Cardinality(sigAcc[r.msg] \cup {r.src}) = Threshold)
    <3>1. UNCHANGED << filter, outFilter, genVersion, routingBacklog, directBacklog,
                      state, finished, knowledgeToken, timers, replies, secVersion,
                      issued, directSent >>
      BY <1>3, <2>4 DEF HandleMessageSignature
    <3> QED
      BY <2>2, <3>1 DEF TypeOK, TimerInv, FreshInv, BacklogInv, RelayInv, Kept,
                        BacklogSet, BacklogNoDuplicates
  <2> QED
    BY <2>3, <2>4
<1>4. ASSUME NEW r \in net, HandleBootstrapRequest(r) PROVE IInv'
  BY <1>4 DEF HandleBootstrapRequest, TypeOK, TimerInv, FreshInv, BacklogInv,
              RelayInv, Kept, BacklogSet, BacklogNoDuplicates, BootstrapRequests,
              NetMsgs, HopMsgs, PeerMsgs, RelocateMsgs
<1>5. ASSUME NEW r \in net, HandleDirectBacklogged(r) PROVE IInv'
  <2>1. r \in PeerMsgs
    BY <1>5 DEF HandleDirectBacklogged, TypeOK, NetMsgs, HopMsgs, PeerMsgs,
                BootstrapRequests, RelocateMsgs
  <2>2. directBacklog' \in Seq(Peers \X {"JoinRequest", "MemberKnowledge"})
    <3>1. directBacklog \in Seq(Peers \X {"JoinRequest", "MemberKnowledge"})
      BY DEF TypeOK
    <3>2. CASE r.type = "BootstrapResponse"
      BY <1>5, <3>1, <3>2 DEF HandleDirectBacklogged
    <3>3. CASE r.type # "BootstrapResponse"
      <4>1. << r.src, r.type >> \in Peers \X {"JoinRequest", "MemberKnowledge"}
        BY <2>1, <3>3 DEF PeerMsgs
      <4> QED
        BY <1>5, <3>1, <3>3, <4>1 DEF HandleDirectBacklogged
    <3> QED
      BY <3>2, <3>3
  <2> QED
    BY <1>5, <2>2 DEF HandleDirectBacklogged, TypeOK, TimerInv, FreshInv, BacklogInv,
                     RelayInv, Kept, BacklogSet, BacklogNoDuplicates
<1>6. ASSUME NEW r \in net, HandleRelocate(r) PROVE IInv'
  BY <1>6 DEF HandleRelocate, TypeOK, TimerInv, FreshInv, BacklogInv,
              RelayInv, Kept, BacklogSet, BacklogNoDuplicates, States, Live
<1>7. ASSUME NEW t \in timers, HandleTimeout(t) PROVE IInv'
  BY <1>7 DEF HandleTimeout, TypeOK, TimerInv, FreshInv, BacklogInv,
              RelayInv, Kept, BacklogSet, BacklogNoDuplicates
<1>8. CASE FinishHandleTransition
  BY <1>8 DEF FinishHandleTransition, TypeOK, TimerInv, FreshInv, BacklogInv,
              RelayInv, Kept, BacklogSet, BacklogNoDuplicates
<1>9. CASE IntoElder
  BY <1>9 DEF IntoElder, TypeOK, TimerInv, FreshInv, BacklogInv,
              RelayInv, Kept, BacklogSet, BacklogNoDuplicates, States, Live
<1>10. CASE Rebootstrap
  BY <1>10 DEF Rebootstrap, TypeOK, TimerInv, FreshInv, BacklogInv,
               RelayInv, Kept, BacklogSet, BacklogNoDuplicates, States, Live
<1>11. CASE Pause
  BY <1>11 DEF Pause, TypeOK, TimerInv, FreshInv, BacklogInv,
               RelayInv, Kept, BacklogSet, BacklogNoDuplicates, States, Live
<1>12. CASE Resume
  BY <1>12 DEF Resume, TypeOK, TimerInv, FreshInv, BacklogInv,
               RelayInv, Kept, BacklogSet, BacklogNoDuplicates, States
<1>13. CASE SectionChange
  BY <1>13 DEF SectionChange, TypeOK, TimerInv, FreshInv, BacklogInv,
               RelayInv, Kept, BacklogSet, BacklogNoDuplicates, adultVars,
               Versions, NetMsgs, HopMsgs, SignedMsgs, GenesisMsgs
<1>14. CASE IssueMessage
  BY <1>14 DEF IssueMessage, TypeOK, TimerInv, FreshInv, BacklogInv,
               RelayInv, Kept, BacklogSet, BacklogNoDuplicates, adultVars,
               NetMsgs, HopMsgs, SignedMsgs
<1>15. CASE PeerSends
  <2>1. net' \subseteq NetMsgs /\ directSent' \in 0 .. MaxDirect
    BY <1>15 DEF PeerSends, TypeOK, NetMsgs
  <2> QED
    BY <1>15, <2>1 DEF PeerSends, TypeOK, TimerInv, FreshInv, BacklogInv,
                      RelayInv, Kept, BacklogSet, BacklogNoDuplicates, adultVars
<1>16. CASE ElderSendsRelocate
  BY <1>16 DEF ElderSendsRelocate, TypeOK, TimerInv, FreshInv, BacklogInv,
               RelayInv, Kept, BacklogSet, BacklogNoDuplicates, adultVars, NetMsgs
<1> QED
  BY <1>1, <1>2, <1>3, <1>4, <1>5, <1>6, <1>7, <1>8, <1>9, <1>10, <1>11,
     <1>12, <1>13, <1>14, <1>15, <1>16
     DEF Next, AdultNext, EnvNext, Receive

-----------------------------------------------------------------------------
\* The inductive invariant holds in every reachable state of the adult.
THEOREM SpecIInv == Spec => []IInv
BY InitIInv, NextIInv, PTL DEF Spec

\* The adult's variables always have their types.
THEOREM TypeCorrect == Spec => []TypeOK
<1>1. IInv => TypeOK
  BY DEF IInv
<1> QED
  BY SpecIInv, <1>1, PTL

\* While an adult is live its knowledge timer is pending, through
\* handle_timeout's rescheduling and through pause and resume.
THEOREM KnowledgeTimerAlwaysArmed == Spec => []KnowledgeTimerArmed
<1>1. IInv => KnowledgeTimerArmed
  BY DEF IInv, TimerInv, KnowledgeTimerArmed, Live
<1> QED
  BY SpecIInv, <1>1, PTL

\* The routing backlog never holds a message twice (incoming filter,
\* accumulator and finish_handle_transition's replay together).
THEOREM BacklogNeverDuplicates == Spec => []BacklogNoDuplicates
<1>1. IInv => BacklogNoDuplicates
  BY DEF IInv
<1> QED
  BY SpecIInv, <1>1, PTL

\* A live adult has forwarded every non-GenesisUpdate message it has seen
\* or backlogged to every elder of its section.
THEOREM AdultRelaysToElders == Spec => []RelayedToElders
<1>1. IInv => RelayedToElders
  BY DEF IInv, RelayInv, RelayedToElders, Live, Kept
<1> QED
  BY SpecIInv, <1>1, PTL

=============================================================================
