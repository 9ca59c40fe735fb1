---------------------------- MODULE AdultRouting ----------------------------
(***************************************************************************)
(* What an adult promises its section, stated without the machinery of    *)
(* src/states/adult/mod.rs (filters, accumulator, timers, the network):   *)
(*                                                                         *)
(*  - it takes in each section message at most once, and only a message   *)
(*    the section issued; one addressed to its location is kept, in the   *)
(*    order taken, for the day it becomes an elder;                       *)
(*  - whatever it takes in is forwarded to every elder of its section;    *)
(*    what it took in before its transition finished is forwarded then;   *)
(*  - it moves to a newer section key only, never past the section's      *)
(*    latest, and on each move drops the messages it kept;                *)
(*  - once it leaves the Adult state (promotion, relocation,              *)
(*    rebootstrap) it promises nothing more, and may forget.              *)
(*                                                                         *)
(* Adult refines this specification (Adult.tla, ImplementsAdultRouting).  *)
(***************************************************************************)
EXTENDS Naturals, Sequences

CONSTANTS
  Elders,       \* elders of the adult's section
  UserIds,      \* identities of the section's messages
  MaxVersion    \* number of section changes in a run

VARIABLES
  mode,         \* "Joined" (transition unfinished), "Active", "Paused", "Gone"
  version,      \* the section key the adult trusts
  latest,       \* the section's latest key
  published,    \* the messages the section has issued
  accepted,     \* the messages the adult has taken in
  pending,      \* the messages kept for later, in the order taken
  forwarded     \* <<message, elder>>: forwarded to that elder

avars == << mode, version, latest, published, accepted, pending, forwarded >>

Msgs == [kind : {"User"}, id : UserIds, forUs : BOOLEAN]

PendingSet == { pending[i] : i \in 1 .. Len(pending) }

Init ==
  /\ mode = "Joined"
  /\ version = 0
  /\ latest = 0
  /\ \E m \in { x \in Msgs : x.forUs } : pending \in { << >>, << m >> }
  /\ accepted = PendingSet
  /\ published = PendingSet
  /\ forwarded = {}

\* The transition finishes: what was taken in so far is forwarded.
Activate ==
  /\ mode = "Joined"
  /\ mode' = "Active"
  /\ forwarded' = forwarded \cup (accepted \X Elders)
  /\ UNCHANGED << version, latest, published, accepted, pending >>

\* A message the section issued is taken in for the first time.
Accept(m) ==
  /\ mode = "Active"
  /\ m \in published \ accepted
  /\ accepted' = accepted \cup {m}
  /\ pending' = IF m.forUs THEN Append(pending, m) ELSE pending
  /\ forwarded' = forwarded \cup ({m} \X Elders)
  /\ UNCHANGED << mode, version, latest, published >>

\* A newer section key, no later than the section's, is installed.
Install(v) ==
  /\ mode = "Active"
  /\ v \in version + 1 .. latest
  /\ version' = v
  /\ pending' = << >>
  /\ UNCHANGED << mode, latest, published, accepted, forwarded >>

Pause ==
  /\ mode = "Active"
  /\ mode' = "Paused"
  /\ UNCHANGED << version, latest, published, accepted, pending, forwarded >>

Resume ==
  /\ mode = "Paused"
  /\ mode' = "Active"
  /\ UNCHANGED << version, latest, published, accepted, pending, forwarded >>

\* The adult stops being one; it may forget what it took in.
Leave ==
  /\ mode = "Active"
  /\ mode' = "Gone"
  /\ accepted' \in SUBSET accepted
  /\ UNCHANGED << version, latest, published, pending, forwarded >>

\* The section moves to a new key.
NewVersion ==
  /\ latest < MaxVersion
  /\ latest' = latest + 1
  /\ UNCHANGED << mode, version, published, accepted, pending, forwarded >>

\* The section issues a message with a fresh identity.
Publish(m) ==
  /\ \A x \in published : x.id # m.id
  /\ published' = published \cup {m}
  /\ UNCHANGED << mode, version, latest, accepted, pending, forwarded >>

Next ==
  \/ Activate
  \/ \E m \in Msgs : Accept(m) \/ Publish(m)
  \/ \E v \in 0 .. MaxVersion : Install(v)
  \/ Pause \/ Resume \/ Leave
  \/ NewVersion

Spec == Init /\ [][Next]_avars
=============================================================================
