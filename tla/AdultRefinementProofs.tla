------------------------ MODULE AdultRefinementProofs ------------------------
(***************************************************************************)
(* Proof that Adult implements AdultRouting under the refinement mapping  *)
(* of Adult.tla (ImplementsAdultRouting), for every value of the          *)
(* constants.                                                              *)
(***************************************************************************)
EXTENDS AdultProofs

(***************************************************************************)
(* What the mapping needs besides IInv: nothing is installed or taken in  *)
(* that the section has not issued (every signed message in flight, seen   *)
(* or backlogged was issued, and no issued GenesisUpdate is newer than the *)
(* section), the backlog holds only messages other than GenesisUpdates,   *)
(* and only a finished adult can be paused.                               *)
(***************************************************************************)
IssuedInv ==
  /\ genVersion <= secVersion
  /\ \A g \in issued \cap GenesisMsgs : g.ver <= secVersion
  /\ \A r \in net : r.type \in {"Hop", "Sig"} => r.msg \in issued
  /\ (filter \cap UserMsgs) \cup BacklogSet \subseteq issued
  /\ BacklogSet \subseteq UserMsgs
  /\ state = "Paused" => finished

RInv == IInv /\ IssuedInv

-----------------------------------------------------------------------------
USE ConstantsAssumption

\* The initial state satisfies IssuedInv: the one message carried over
\* is the only one issued, nothing is in flight and no key has changed.
LEMMA InitIssued == Init => IssuedInv
<1> SUFFICES ASSUME Init PROVE IssuedInv
  OBVIOUS
<1>1. PICK m \in { x \in UserMsgs : x.forUs } :
        /\ routingBacklog \in { << >>, << m >> }
        /\ issued = { routingBacklog[i] : i \in 1 .. Len(routingBacklog) }
  BY DEF Init
<1>2. issued = BacklogSet /\ BacklogSet \subseteq UserMsgs
  BY <1>1 DEF BacklogSet
<1>3. issued \cap GenesisMsgs = {}
  BY <1>2 DEF UserMsgs, GenesisMsgs
<1> QED
  BY <1>2, <1>3 DEF Init, IssuedInv

\* Handling an issued signed message keeps IssuedInv: a GenesisUpdate
\* installed was issued, so is not newer than the section; a message
\* marked seen or backlogged was issued.
LEMMA SignedMessageIssued ==
  ASSUME IInv, IssuedInv, Live, NEW m \in SignedMsgs, m \in issued,
         HandleSignedMessage(m), UNCHANGED << state, finished, secVersion, issued >>,
         net' \subseteq net
  PROVE  IssuedInv'
<1>1. \A r \in net' : r.type \in {"Hop", "Sig"} => r.msg \in issued'
  BY DEF IssuedInv
<1>2. state' = "Paused" => finished'
  BY DEF Live
<1>3. \A g \in issued' \cap GenesisMsgs : g.ver <= secVersion'
  BY DEF IssuedInv
<1>4. CASE UNCHANGED << filter, outFilter, genVersion, routingBacklog, directBacklog >>
  BY <1>1, <1>2, <1>3, <1>4 DEF IssuedInv, BacklogSet
<1>5. CASE /\ m \notin filter /\ m \in GenesisMsgs /\ filter' = filter \cup {m}
           /\ UNCHANGED << outFilter, genVersion, routingBacklog, directBacklog >>
  <2>1. m \notin UserMsgs
    BY <1>5 DEF GenesisMsgs, UserMsgs
  <2> QED
    BY <1>1, <1>2, <1>3, <1>5, <2>1 DEF IssuedInv, BacklogSet
<1>6. CASE /\ m \notin filter /\ m \in GenesisMsgs /\ filter' = filter \cup {m}
           /\ UNCHANGED outFilter /\ ~(m.ver <= genVersion) /\ genVersion' = m.ver
           /\ routingBacklog' = << >> /\ directBacklog' = << >>
  <2>1. m \notin UserMsgs
    BY <1>6 DEF GenesisMsgs, UserMsgs
  <2>2. genVersion' <= secVersion'
    BY <1>6 DEF IssuedInv
  <2>3. BacklogSet' = {}
    BY <1>6 DEF BacklogSet
  <2> QED
    BY <1>1, <1>2, <1>3, <1>6, <2>1, <2>2, <2>3 DEF IssuedInv
<1>7. CASE /\ m \notin filter /\ m \in UserMsgs /\ filter' = filter \cup {m}
           /\ outFilter' = outFilter \cup { << m, e >> : e \in Elders }
           /\ routingBacklog' = IF m.forUs THEN Append(routingBacklog, m)
                                           ELSE routingBacklog
           /\ UNCHANGED << genVersion, directBacklog >>
  <2>1. BacklogSet' \subseteq BacklogSet \cup {m}
    BY <1>7 DEF IInv, TypeOK, BacklogSet
  <2> QED
    BY <1>1, <1>2, <1>3, <1>7, <2>1 DEF IssuedInv
<1> QED
  BY <1>4, <1>5, <1>6, <1>7, SignedMessageEffect

\* Every step keeps IssuedInv.
LEMMA NextIssued == IInv /\ IssuedInv /\ [Next]_vars => IssuedInv'
<1> SUFFICES ASSUME IInv, IssuedInv, [Next]_vars PROVE IssuedInv'
  OBVIOUS
<1>1. CASE UNCHANGED vars
  BY <1>1 DEF vars, adultVars, envVars, IssuedInv, BacklogSet
<1>2. ASSUME NEW r \in net, HandleHopMessage(r) PROVE IssuedInv'
  <2>1. r.msg \in SignedMsgs /\ r.msg \in issued
    BY <1>2 DEF HandleHopMessage, IInv, TypeOK, NetMsgs, HopMsgs, PeerMsgs,
                BootstrapRequests, RelocateMsgs, IssuedInv
  <2> QED
    BY <1>2, <2>1, SignedMessageIssued DEF HandleHopMessage
<1>3. ASSUME NEW r \in net, HandleMessageSignature(r) PROVE IssuedInv'
  <2>1. r.msg \in SignedMsgs /\ r.msg \in issued
    BY <1>3 DEF HandleMessageSignature, IInv, TypeOK, NetMsgs, HopMsgs, PeerMsgs,
                BootstrapRequests, RelocateMsgs, IssuedInv
  <2>2. CASE r.src \notin sigAcc[r.msg] /\ Cardinality(sigAcc[r.msg] \cup {r.src}) = Threshold
    BY <1>3, <2>1, <2>2, SignedMessageIssued DEF HandleMessageSignature
  <2>3. CASE ~(r.src \notin sigAcc[r.msg] /\ Cardinality(sigAcc[r.msg] \cup {r.src}) = Threshold)
    BY <1>3, <2>3 DEF HandleMessageSignature, IssuedInv, BacklogSet
  <2> QED
    BY <2>2, <2>3
<1>4. ASSUME NEW r \in net, HandleBootstrapRequest(r) PROVE IssuedInv'
  BY <1>4 DEF HandleBootstrapRequest, IssuedInv, BacklogSet
<1>5. ASSUME NEW r \in net, HandleDirectBacklogged(r) PROVE IssuedInv'
  BY <1>5 DEF HandleDirectBacklogged, IssuedInv, BacklogSet
<1>6. ASSUME NEW r \in net, HandleRelocate(r) PROVE IssuedInv'
  BY <1>6 DEF HandleRelocate, IssuedInv, BacklogSet
<1>7. ASSUME NEW t \in timers, HandleTimeout(t) PROVE IssuedInv'
  BY <1>7 DEF HandleTimeout, IssuedInv, BacklogSet
<1>8. CASE FinishHandleTransition
  <2>1. filter' \cap UserMsgs \subseteq issued
    BY <1>8 DEF FinishHandleTransition, IssuedInv, BacklogSet
  <2> QED
    BY <1>8, <2>1 DEF FinishHandleTransition, IssuedInv, BacklogSet
<1>9. CASE IntoElder
  BY <1>9 DEF IntoElder, IssuedInv, BacklogSet
<1>10. CASE Rebootstrap
  BY <1>10 DEF Rebootstrap, IssuedInv, BacklogSet
<1>11. CASE Pause
  BY <1>11 DEF Pause, IssuedInv, BacklogSet, Live
<1>12. CASE Resume
  BY <1>12 DEF Resume, IssuedInv, BacklogSet
<1>13. CASE SectionChange
  <2>1. PICK s \in 0 .. secVersion :
          LET m == [kind |-> "Genesis", ver |-> secVersion + 1, from |-> s]
          IN  /\ issued' = issued \cup {m}
              /\ net' = net \cup { [type |-> "Hop", msg |-> m, src |-> e] : e \in Elders }
    BY <1>13 DEF SectionChange
  <2>2. secVersion \in Nat /\ genVersion \in Nat
    BY DEF IInv, TypeOK, Versions
  <2> QED
    BY <1>13, <2>1, <2>2 DEF SectionChange, IssuedInv, BacklogSet, adultVars,
                            GenesisMsgs
<1>14. CASE IssueMessage
  <2>1. PICK m \in UserMsgs, how \in {"Hop", "Sig"} :
          /\ issued' = issued \cup {m}
          /\ net' = net \cup { [type |-> how, msg |-> m, src |-> e] : e \in Elders }
    BY <1>14 DEF IssueMessage
  <2>2. m \notin GenesisMsgs
    BY DEF UserMsgs, GenesisMsgs
  <2> QED
    BY <1>14, <2>1, <2>2 DEF IssueMessage, IssuedInv, BacklogSet, adultVars
<1>15. CASE PeerSends
  BY <1>15 DEF PeerSends, IssuedInv, BacklogSet, adultVars, PeerMsgs,
               BootstrapRequests
<1>16. CASE ElderSendsRelocate
  BY <1>16 DEF ElderSendsRelocate, IssuedInv, BacklogSet, adultVars, RelocateMsgs
<1> QED
  BY <1>1, <1>2, <1>3, <1>4, <1>5, <1>6, <1>7, <1>8, <1>9, <1>10, <1>11,
     <1>12, <1>13, <1>14, <1>15, <1>16
     DEF Next, AdultNext, EnvNext, Receive

\* The strengthened invariant holds in every reachable state.
THEOREM SpecRInv == Spec => []RInv
<1>1. Init => RInv
  BY InitIInv, InitIssued DEF RInv
<1>2. RInv /\ [Next]_vars => RInv'
  BY NextIInv, NextIssued DEF RInv
<1> QED
  BY <1>1, <1>2, PTL DEF Spec

-----------------------------------------------------------------------------
(***************************************************************************)
(* The refinement step.                                                    *)
(***************************************************************************)

\* A live adult is an active one, before and after a step that does not
\* touch its state.
LEMMA LiveIsActive ==
  ASSUME Live, UNCHANGED << state, finished >>
  PROVE  Mode = "Active" /\ Mode' = "Active"
BY DEF Live, Mode

\* Handling an issued signed message is an AdultRouting step: nothing
\* (seen before, or a GenesisUpdate not installed), Install of the
\* GenesisUpdate's version, or Accept of the message.
LEMMA SignedMessageRefines ==
  ASSUME IInv, IssuedInv, Live, NEW m \in SignedMsgs, m \in issued,
         HandleSignedMessage(m), UNCHANGED << state, finished, secVersion, issued >>
  PROVE  [AR!Next]_AR!avars
<1>0. Mode = "Active" /\ Mode' = "Active"
  BY LiveIsActive
<1>1. BacklogSet \subseteq filter
  BY DEF IInv, BacklogInv, Kept, Live
<1>2. CASE UNCHANGED << filter, outFilter, genVersion, routingBacklog, directBacklog >>
  <2>1. UNCHANGED AR!avars
    BY <1>0, <1>2 DEF AR!avars, BacklogSet
  <2> QED
    BY <2>1
<1>3. CASE /\ m \notin filter /\ m \in GenesisMsgs /\ filter' = filter \cup {m}
           /\ UNCHANGED << outFilter, genVersion, routingBacklog, directBacklog >>
  <2>1. m \notin UserMsgs
    BY <1>3 DEF GenesisMsgs, UserMsgs
  <2>2. UNCHANGED AR!avars
    BY <1>0, <1>3, <2>1 DEF AR!avars, BacklogSet
  <2> QED
    BY <2>2
<1>4. CASE /\ m \notin filter /\ m \in GenesisMsgs /\ filter' = filter \cup {m}
           /\ UNCHANGED outFilter /\ ~(m.ver <= genVersion) /\ genVersion' = m.ver
           /\ routingBacklog' = << >> /\ directBacklog' = << >>
  <2>1. m \notin UserMsgs /\ m.ver \in 1 .. MaxVersion
    BY <1>4 DEF GenesisMsgs, UserMsgs
  <2>2. genVersion \in Nat /\ secVersion \in Nat
    BY DEF IInv, TypeOK, Versions
  <2>3. m.ver \in genVersion + 1 .. secVersion
    BY <1>4, <2>1, <2>2 DEF IssuedInv
  <2>4. BacklogSet' = {}
    BY <1>4 DEF BacklogSet
  <2>5. (filter' \cup BacklogSet') \cap UserMsgs = (filter \cup BacklogSet) \cap UserMsgs
    BY <1>1, <1>4, <2>1, <2>4
  <2>6. AR!Install(m.ver)
    BY <1>0, <1>4, <2>3, <2>5 DEF AR!Install
  <2> QED
    BY <2>1, <2>6 DEF AR!Next
<1>5. CASE /\ m \notin filter /\ m \in UserMsgs /\ filter' = filter \cup {m}
           /\ outFilter' = outFilter \cup { << m, e >> : e \in Elders }
           /\ routingBacklog' = IF m.forUs THEN Append(routingBacklog, m)
                                           ELSE routingBacklog
           /\ UNCHANGED << genVersion, directBacklog >>
  <2>1. BacklogSet' = IF m.forUs THEN BacklogSet \cup {m} ELSE BacklogSet
    BY <1>5 DEF IInv, TypeOK, BacklogSet
  <2>2. m \in (issued \cap UserMsgs) \ ((filter \cup BacklogSet) \cap UserMsgs)
    BY <1>1, <1>5
  <2>3. (filter' \cup BacklogSet') \cap UserMsgs
          = ((filter \cup BacklogSet) \cap UserMsgs) \cup {m}
    BY <1>5, <2>1
  <2>4. { p \in outFilter' : p[1] \in UserMsgs }
          = { p \in outFilter : p[1] \in UserMsgs } \cup ({m} \X Elders)
    BY <1>5
  <2>5. AR!Accept(m)
    BY <1>0, <1>5, <2>2, <2>3, <2>4 DEF AR!Accept
  <2>6. m \in AR!Msgs
    BY <1>5 DEF AR!Msgs, UserMsgs
  <2>7. \E x \in AR!Msgs : AR!Accept(x) \/ AR!Publish(x)
    BY <2>5, <2>6
  <2> QED
    BY <2>7 DEF AR!Next
<1> QED
  BY <1>2, <1>3, <1>4, <1>5, SignedMessageEffect

\* A step that leaves the adult's routing state, its mode and the section
\* alone is a stuttering step of AdultRouting.
LEMMA Stutter ==
  ASSUME UNCHANGED << state, finished, genVersion, filter, outFilter,
                      routingBacklog, secVersion, issued >>
  PROVE  UNCHANGED AR!avars
BY DEF AR!avars, Mode, BacklogSet

\* Every step of the adult or its environment is a step of AdultRouting
\* or leaves its variables unchanged.
THEOREM NextRefines == RInv /\ [Next]_vars => [AR!Next]_AR!avars
<1> SUFFICES ASSUME IInv, IssuedInv, [Next]_vars PROVE [AR!Next]_AR!avars
  BY DEF RInv
<1>1. CASE UNCHANGED vars
  BY <1>1, Stutter DEF vars, adultVars, envVars
<1>2. ASSUME NEW r \in net, HandleHopMessage(r) PROVE [AR!Next]_AR!avars
  <2>1. r.msg \in SignedMsgs /\ r.msg \in issued
    BY <1>2 DEF HandleHopMessage, IInv, TypeOK, NetMsgs, HopMsgs, PeerMsgs,
                BootstrapRequests, RelocateMsgs, IssuedInv
  <2> QED
    BY <1>2, <2>1, SignedMessageRefines DEF HandleHopMessage
<1>3. ASSUME NEW r \in net, HandleMessageSignature(r) PROVE [AR!Next]_AR!avars
  <2>1. r.msg \in SignedMsgs /\ r.msg \in issued
    BY <1>3 DEF HandleMessageSignature, IInv, TypeOK, NetMsgs, HopMsgs, PeerMsgs,
                BootstrapRequests, RelocateMsgs, IssuedInv
  <2>2. CASE r.src \notin sigAcc[r.msg] /\ Cardinality(sigAcc[r.msg] \cup {r.src}) = Threshold
    BY <1>3, <2>1, <2>2, SignedMessageRefines DEF HandleMessageSignature
  <2>3. CASE ~(r.src \notin sigAcc[r.msg] /\ Cardinality(sigAcc[r.msg] \cup {r.src}) = Threshold)
    BY <1>3, <2>3, Stutter DEF HandleMessageSignature
  <2> QED
    BY <2>2, <2>3
<1>4. ASSUME NEW r \in net, HandleBootstrapRequest(r) PROVE [AR!Next]_AR!avars
  BY <1>4, Stutter DEF HandleBootstrapRequest
<1>5. ASSUME NEW r \in net, HandleDirectBacklogged(r) PROVE [AR!Next]_AR!avars
  BY <1>5, Stutter DEF HandleDirectBacklogged
<1>6. ASSUME NEW r \in net, HandleRelocate(r) PROVE [AR!Next]_AR!avars
  <2>1. CASE r.forUs /\ r.valid
    <3>1. Mode = "Active" /\ Mode' = "Gone"
      BY <1>6, <2>1 DEF HandleRelocate, Live, Mode
    <3>2. AR!Leave
      BY <1>6, <2>1, <3>1 DEF HandleRelocate, AR!Leave, BacklogSet
    <3> QED
      BY <3>2 DEF AR!Next
  <2>2. CASE ~(r.forUs /\ r.valid)
    BY <1>6, <2>2, Stutter DEF HandleRelocate
  <2> QED
    BY <2>1, <2>2
<1>7. ASSUME NEW t \in timers, HandleTimeout(t) PROVE [AR!Next]_AR!avars
  BY <1>7, Stutter DEF HandleTimeout
<1>8. CASE FinishHandleTransition
  <2>1. Mode = "Joined" /\ Mode' = "Active"
    BY <1>8 DEF FinishHandleTransition, Mode
  <2>2. filter = {} /\ BacklogSet \subseteq UserMsgs
    BY <1>8 DEF FinishHandleTransition, IInv, FreshInv, IssuedInv
  <2>3. BacklogSet' = BacklogSet /\ filter' = BacklogSet
    BY <1>8, <2>2 DEF FinishHandleTransition, BacklogSet
  <2>4. { p \in outFilter' : p[1] \in UserMsgs }
          = { p \in outFilter : p[1] \in UserMsgs } \cup (BacklogSet \X Elders)
    BY <1>8, <2>2 DEF FinishHandleTransition, BacklogSet
  <2>5. AR!Activate
    BY <1>8, <2>1, <2>2, <2>3, <2>4 DEF FinishHandleTransition, AR!Activate
  <2> QED
    BY <2>5 DEF AR!Next
<1>9. CASE IntoElder
  <2>1. Mode = "Active" /\ Mode' = "Gone"
    BY <1>9 DEF IntoElder, Live, Mode
  <2>2. AR!Leave
    BY <1>9, <2>1 DEF IntoElder, AR!Leave, BacklogSet
  <2> QED
    BY <2>2 DEF AR!Next
<1>10. CASE Rebootstrap
  <2>1. Mode = "Active" /\ Mode' = "Gone"
    BY <1>10 DEF Rebootstrap, Live, Mode
  <2>2. AR!Leave
    BY <1>10, <2>1 DEF Rebootstrap, AR!Leave, BacklogSet
  <2> QED
    BY <2>2 DEF AR!Next
<1>11. CASE Pause
  <2>1. Mode = "Active" /\ Mode' = "Paused"
    BY <1>11 DEF Pause, Live, Mode
  <2>2. AR!Pause
    BY <1>11, <2>1 DEF Pause, AR!Pause, BacklogSet
  <2> QED
    BY <2>2 DEF AR!Next
<1>12. CASE Resume
  <2>1. Mode = "Paused" /\ Mode' = "Active"
    BY <1>12 DEF Resume, Mode, IssuedInv
  <2>2. AR!Resume
    BY <1>12, <2>1 DEF Resume, AR!Resume, BacklogSet
  <2> QED
    BY <2>2 DEF AR!Next
<1>13. CASE SectionChange
  <2>1. PICK s \in 0 .. secVersion :
          issued' = issued \cup {[kind |-> "Genesis", ver |-> secVersion + 1, from |-> s]}
    BY <1>13 DEF SectionChange
  <2>2. issued' \cap UserMsgs = issued \cap UserMsgs
    BY <2>1 DEF UserMsgs
  <2>3. AR!NewVersion
    BY <1>13, <2>2 DEF SectionChange, AR!NewVersion, adultVars, Mode, BacklogSet
  <2> QED
    BY <2>3 DEF AR!Next
<1>14. CASE IssueMessage
  <2>1. PICK m \in UserMsgs, how \in {"Hop", "Sig"} :
          /\ \A x \in issued : x.kind = "User" => x.id # m.id
          /\ issued' = issued \cup {m}
    BY <1>14 DEF IssueMessage
  <2>2. \A x \in issued \cap UserMsgs : x.id # m.id
    BY <2>1 DEF UserMsgs
  <2>3. AR!Publish(m)
    BY <1>14, <2>1, <2>2 DEF IssueMessage, AR!Publish, adultVars, Mode, BacklogSet
  <2>4. m \in AR!Msgs
    BY DEF AR!Msgs, UserMsgs
  <2> QED
    BY <2>3, <2>4 DEF AR!Next
<1>15. CASE PeerSends
  BY <1>15, Stutter DEF PeerSends, adultVars
<1>16. CASE ElderSendsRelocate
  BY <1>16, Stutter DEF ElderSendsRelocate, adultVars
<1> QED
  BY <1>1, <1>2, <1>3, <1>4, <1>5, <1>6, <1>7, <1>8, <1>9, <1>10, <1>11,
     <1>12, <1>13, <1>14, <1>15, <1>16
     DEF Next, AdultNext, EnvNext, Receive

\* The initial state of the adult maps to an initial state of AdultRouting.
THEOREM InitRefines == Init => AR!Init
<1> SUFFICES ASSUME Init PROVE AR!Init
  OBVIOUS
<1>1. PICK m \in { x \in UserMsgs : x.forUs } :
        /\ routingBacklog \in { << >>, << m >> }
        /\ issued = { routingBacklog[i] : i \in 1 .. Len(routingBacklog) }
  BY DEF Init
<1>2. BacklogSet \subseteq UserMsgs /\ issued = BacklogSet
  BY <1>1 DEF BacklogSet
<1>3. Mode = "Joined"
  BY DEF Init, Mode
<1>4. m \in { x \in AR!Msgs : x.forUs }
  BY DEF AR!Msgs, UserMsgs
<1>5. AR!PendingSet = BacklogSet
  BY DEF AR!PendingSet, BacklogSet
<1> QED
  BY <1>1, <1>2, <1>3, <1>4, <1>5 DEF Init, AR!Init

(***************************************************************************)
(* The adult implements AdultRouting: under the mapping of Adult.tla, its   *)
(* behaviours are behaviours of the abstract specification.  In            *)
(* particular handle_genesis_update never moves the adult to an older key   *)
(* or past the section's, and each issued message is taken in, backlogged  *)
(* and forwarded once, whatever the order and the number of copies in      *)
(* which the elders' hop messages and signature shares arrive.            *)
(***************************************************************************)
THEOREM AdultImplementsRouting == Spec => ImplementsAdultRouting
<1>1. Spec => []RInv
  BY SpecRInv
<1>2. Spec => Init
  BY DEF Spec
<1> QED
  BY <1>1, <1>2, InitRefines, NextRefines, PTL
     DEF Spec, ImplementsAdultRouting, AR!Spec
=============================================================================
