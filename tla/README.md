# TLA+ verification of sn_routing (legacy adult, stage and delivery groups)

This directory holds TLA+ models of the routing code in `src/`:
- TLC configurations that model-check the models on small instances;
- an abstract specification of what an adult promises its section (`AdultRouting`), which the adult is shown to implement;
- TLAPS proofs, for every value of the constants, of the adult's safety invariants, of that refinement, of the stage's type invariant, and of what `delivery_group_size` computes.

`PROJECT.json` lists each part of the system, run, mutant, finding and hazard. It also maps every definition to the source lines it translates.

## The system and how its parts interact

A node moves through the stages `Bootstrapping → Joining → Approved` (`src/node/stage/mod.rs`). Every incoming message first goes through `Stage::in_dst_location`:
- an approved node relays a message that is not for it, or that is for its section;
- relaying uses `delivery_targets` (`src/delivery_group.rs`), which picks the peers closer to the destination and the number of them that must receive it (the delivery group);
- the node then handles the message when it is a destination.

The legacy `Adult` state (`src/states/adult/mod.rs`) is a member of a section that is not an elder. It handles:
- hop messages, which are section-signed messages, whose signature shares it accumulates;
- `GenesisUpdate`s, which move it to a new trusted section key;
- direct messages: bootstrap requests, `Relocate`, and join requests and member knowledge, which it backlogs;
- a periodic knowledge timer.

It leaves the state by being promoted (`into_elder`), by rebootstrapping, by relocating or by pausing. It forwards what it receives to its section's elders (`send_signed_message_to_elders`). Until its first `GenesisUpdate` (the transition) has finished, it keeps messages in two backlogs, which `finish_handle_transition` replays.

`GetGroupKeyResponse::merge` (`src/messages/get_group_key_response.rs`) is a legacy helper. It merges the key lists of several group members by a histogram.

The identifier, prefix and section-map types (spec C1, C3) are not in this repository. Nor are the member table (C4), the signature accumulator (C5) and the consensus adapter (C9). Where the code calls them, the model follows `spec.md` and says so (`spec_modelled` in the map).

## Modules

| Module | Models | State and actions |
|---|---|---|
| `GroupSize` | `delivery_group.rs` | `delivery_group_size`, apart so that it can be proved about. |
| `GroupSizeProofs` | — | Two theorems on `DeliveryGroupSize`. |
| `XorName` | — (spec §3, §4.1) | Names, XOR distance, prefixes and `DstLocation`; no sequences, so that `Stage` can be proved about. |
| `DeliveryGroup` | `delivery_group.rs` | Pure operators; no variables. |
| `MCDeliveryGroup` | — | All small inputs as the initial states, with the reference definition and the properties. |
| `Adult` | `states/adult/mod.rs` | One variable per field of `Adult` that changes; its environment (network, section versions, message ids). |
| `AdultProofs` | — | The inductive invariant and the TLAPS proofs. |
| `AdultRouting` | — | The abstract specification of an adult: what it takes in, keeps, forwards and which key it trusts. |
| `AdultRefinementProofs` | — | The proof that `Adult` implements `AdultRouting`. |
| `MCAdult` | — | Model values for elders, peers and timer tokens; symmetry. |
| `GroupKeyMerge` | `get_group_key_response.rs` | The pure operator `Merge` with its histogram. |
| `MCGroupKeyMerge` | — | All small inputs; reference characterisation. |
| `Stage` | `node/stage/mod.rs` | Stages of a set of nodes; the network as a set of messages in flight. |
| `StageProofs` | — | The inductive invariant of `Stage` and its TLAPS proofs. |
| `MCStage` | — | Two sections of a 3-bit name space and one joining node; or the one-node network of `first_node` and one joining node. |

### DeliveryGroup

Names are integers of `NameBits` bits, with bit 0 the most significant. A prefix is `[bits, len]`. A section map is a function from known prefixes to sets of elder names.

Each function of the file is an operator:
- `DeliveryGroupSize` is `delivery_group_size`;
- `GetPeer` is `get_peer`;
- `DeliveryTargets` is `delivery_targets`;
- `SignatureTargets` is `signature_targets`.

The loop of `candidates` is the recursive function in `CandidatesLoop`. Its body is `CandidatesStep`, including the `break` at our own prefix and the `break` when `idx == 0`. `Candidates` adds the trailing sort by distance and the final check.

`SectionMap::closest` and `sorted_by_distance_to` measure the distance from the centre of a prefix. `Prefix::is_neighbour` follows spec §4.1: the last differing bit is at `min(len) - 1`. These are spec-modelled.

### Adult

`Adult.tla` maps the fields of `Adult` to variables:
- `routing_msg_filter` (incoming and outgoing) maps to `filter` and `outFilter`;
- `routing_msg_backlog` maps to `routingBacklog`, a sequence;
- `direct_msg_backlog` maps to `directBacklog`;
- the signature accumulator maps to `sigAcc`;
- `knowledge_timer_token` maps to `knowledgeToken`;
- the pending timers map to `timers`;
- `gen_pfx_info.version` maps to `genVersion`.

The state of the node is `state`, one of "Adult", "Paused", "Elder", "Bootstrapping" or "Relocating". The environment adds the following variables:
- `net`, the messages in flight;
- `secVersion`, the section's latest key version;
- `issued`, the message ids issued;
- `directSent`, the number of direct messages peers have sent.

There is one action per handler, and each covers the whole handler:
- `HandleSignedMessage` does the filter, then `HandleFilteredSignedMessage` (verify, GenesisUpdate or backlog, then forwarding).
- `FinishHandleTransition` replays the routing backlog through the filtered handler. It sends the replayed messages to the elders and adds them to the filter.
- `HandleTimeout` re-arms the timer only for the current token.

The environment issues messages, changes the section (a new key version, with a GenesisUpdate from every elder), and lets peers send direct messages. Messages can be duplicated: every elder sends its own copy. They can also be reordered: `net` is a set.

### AdultRouting and the refinement

`AdultRouting` states what an adult promises, without filters, accumulator, timers or network. Its variables are `mode` ("Joined" until the transition finishes, "Active", "Paused", "Gone"), `version` and `latest` (the key the adult trusts and the section's latest), `published` and `accepted` (messages the section issued and the adult took in), `pending` (the messages kept for later, in order) and `forwarded` (message, elder pairs). Its actions:
- `Accept(m)`: an issued message not taken in before is taken in, kept when it is for our location, and forwarded to every elder;
- `Install(v)`: a strictly newer key, no later than the section's, is trusted, and the kept messages are dropped;
- `Activate`: the transition finishes, and what was taken in is forwarded;
- `Pause`, `Resume`, `Leave` (it may then forget), and the environment's `NewVersion` and `Publish`.

`Adult` defines the refinement mapping as `AR == INSTANCE AdultRouting WITH ...`:
- `mode` is read from `state` and `finished` (`Mode`);
- `version` and `latest` are `genVersion` and `secVersion`;
- `published` is the user messages issued;
- `accepted` is the user messages in the filter or the backlog;
- `pending` is `routingBacklog`;
- `forwarded` is the user-message part of the outgoing filter.

`ImplementsAdultRouting == AR!Spec` is checked by TLC (run `adult_refinement`) and proved by TLAPS (`AdultImplementsRouting`). Every adult step maps to one abstract step or to a stutter:
- a hop message or the completing share of a user message is `Accept`;
- a trusted, newer GenesisUpdate is `Install`;
- a duplicate, an older GenesisUpdate, an untrusted one, a share below the threshold, a bootstrap request, a direct message or a timer is a stutter;
- `finish_handle_transition` is `Activate`;
- `into_elder`, `rebootstrap` and a valid `Relocate` are `Leave`.

The refinement ties together the hazards of out-of-order GenesisUpdates, duplicated copies and the replay of the backlog. A GenesisUpdate older than ours that was applied (mutant `HandleGenesisUpdateNoBailOut`) is a step no abstract action allows.

### Stage

`Stage.tla` has one stage per node. The messages are:
- user messages for a `Node` or a `Section` destination;
- the control messages of joining (BootstrapRequest, BootstrapJoin, JoinRequest, NodeApproval), which are `Direct`.

`ProcessMessage(n, e)` is `process_message` in full:
1. `InDstLocation` decides, relaying via `RelayTo` when `NeedsRelay` holds;
2. if the message is not for the node, the action stops there;
3. otherwise the stage's own handler runs: `NextStage` and `Replies`.

`RelayTo` sends to the first `dg` targets of `delivery_targets` that the outgoing filter has not seen. Because the sections are fixed, `delivery_targets` is a table, the constant `RelayTable`, indexed by node, destination and whether the joiner is a member. `MCStage` computes it with `DeliveryGroup`'s `DeliveryTargets` (`MCRelayTable`). `Stage` assumes only its shape (`RelayTableAssumption`): `Ok` with `dg_size` at most the number of targets, all of them nodes, or `CannotRoute`. TLC evaluates that assumption on every Stage run. The table keeps `Stage` free of `SequencesExt`'s recursive operators. The per-stage handlers and `relay_message` are not in this repository and follow spec §4.7 and §5.

`Stage::process_timeout` (lines 272-281) is not an action. It only hands the token to the current state's `process_timeout`, which returns `Result<()>`; `self.state` is reassigned only in `process_message`. A timer firing therefore cannot move a node between stages, whatever spec §4.8 says of `JOIN_TIMEOUT` ("restart from Bootstrapping"). What the three states do on their own timers is not in this repository.

`FirstEldersInfo` and `FirstSharedState` are `create_first_elders_info` and `create_first_shared_state`: the network `Stage::first_node` starts has one section, of the whole name space (`Prefix::default()`), whose only elder and member is the first node. The proofs of that section info are signatures and are left out.

### GroupKeyMerge

`Merge(self, others, order)` builds the histogram with `FoldLeft`/`BagAdd`. `order` is one order of `sort_by_highest`: any order by decreasing count, since ties are unspecified. Then:
- it returns `None` when a target differs;
- it returns `Panic` when an assertion at line 69 or 77 fails;
- otherwise it returns `Some` of the first `GROUP_SIZE` keys.

## Runs

| Run | Checks | Result |
|---|---|---|
| `delivery_group` | `MatchesReference`, `SignatureTargetsClosest` | pass, 701,760 states |
| `adult_safety` | `TypeOK`, `BacklogNoDuplicates`, `RelayedToElders`, `KnowledgeTimerArmed` | pass, about 272k states |
| `adult_liveness` | `KnowledgeKeepsFlowing` | pass, about 540k states |
| `adult_genesis_catch_up` | `GenesisCatchUp` | **violation** (finding 1) |
| `group_key_merge` | `MergeSelectsMostFrequent` | pass |
| `group_key_merge_panic` | `MergeNeverPanics` | **violation** (finding 2) |
| `stage_routing` | `UserMessagesDelivered`, `Quiescence` | pass, 1,130 states |
| `stage_first_node` | `UserMessagesDelivered` | pass, 195 states |
| `adult_refinement` | `ImplementsAdultRouting` | pass, about 1.39M states |
| `adult_takes_in` | `IssuedMessagesTakenIn` | pass, about 57k states |

- **MatchesReference:** an elder's `delivery_targets` equals a declarative reading of spec §4.6, with an independent `ceil(n/3)`.
- **SignatureTargetsClosest:** signature targets are the `ceil(|E|/3)` elders closest to the destination.
- **BacklogNoDuplicates:** duplicated copies and late signature shares never put a message twice into the backlog.
- **RelayedToElders:** a live adult has forwarded every user message it saw to every elder.
- **KnowledgeTimerArmed, KnowledgeKeepsFlowing:** the knowledge timer is always pending and fires infinitely often. This holds through stale tokens and pause/resume.
- **MergeSelectsMostFrequent:** `None` exactly on a foreign target, and a panic exactly when the assertions fail. Otherwise the result is `GROUP_SIZE` keys, none less frequent than one left out. This is checked for every tie order.
- **UserMessagesDelivered:** every user message sent is eventually handled by every node it is for: the node, or every elder of the destination section.
- **Quiescence:** relaying stops, because the outgoing filter cuts the section ping-pong.
- **ImplementsAdultRouting:** every behaviour of the adult is a behaviour of `AdultRouting` (see above).
- **IssuedMessagesTakenIn:** an adult that stays an adult eventually takes in every message its section issues. This holds whether the message comes whole or as signature shares completing at the threshold, and across pause, resume and a section change.

Every property of a passing run has a mutant in `PROJECT.json`. A mutant is a plausible bug in the mapped definition that TLC catches.

### Bounds

**DeliveryGroup** uses 3-bit names and the five layouts of 1 to 4 sections. These include neighbours and non-neighbours, and our section nearest or farthest. It allows up to 4 elders per section and every member table. Sections with 1 to 4 elders give the group sizes 1 and 2. They also produce both `break`s and the `CannotRoute` case.

**Adult** (`MCAdult`) uses:
- three elders and threshold 2 in the safety run, so a share arrives after the one that completes a signature;
- two elders and threshold 2 in the liveness, catch-up, refinement and taking-in runs. A threshold equal to the number of elders is the boundary: a count off by one strands the message (mutant `HandleMessageSignatureLate`), where a third elder would hide it;
- key versions up to 2, enough for two GenesisUpdates to arrive out of order;
- one user message, two in the refinement run so that two messages interleave in the backlog;
- key versions up to 1 in the taking-in run, to keep its liveness check short;
- three timer tokens, so that one is stale and one is fresh;
- one direct message from a peer.

Symmetry over elders and tokens is used in the safety and refinement runs, whose properties are safety properties. The liveness runs have no symmetry.

**Stage** uses two sections, `0` with members {0,1,3} and `1` with members {4,6,7}, and one user message. Node 3 bootstraps from node 0 and joins while the user message is relayed. The messages are for node 7 (a relay across sections) and for section 5 (relayed within the section).

The first-node instance (`MCStageFirst.cfg`) has node 0 as the only elder of the root prefix, as `first_node` creates it. Node 3 joins it, and two user messages go to node 0 and to section 5. Either node may send them, the joiner only once approved. It checks the delivery group of a one-elder section. `Quiescence` is not checked there: with one elder there is no ping-pong to cut.

**GroupKeyMerge** uses `GROUP_SIZE` 2, three keys and up to two other responses of up to two keys.

### Fairness

- **Adult:** weak fairness on receiving each message, on each timer and on finishing the transition. Peers and the event loop deliver what is sent. The timer fires every `KNOWLEDGE_TIMEOUT`. `finish_handle_transition` is called once by the state machine after the transition.
- **Stage:** weak fairness on each node processing some message of its inbox. The event loop processes every message it receives.

Environment steps (section changes, new messages, promotion, pause) are not fair: they may never happen.

`CHECK_DEADLOCK FALSE` is set in two places:
- **Adult:** once the node leaves the Adult state, its model stops. The `Adult` value is consumed by the transition.
- **Stage:** once every message is handled and no one sends more, nothing is enabled.

## Proofs (AdultProofs)

The invariants of the safety run are proved for every set of elders, peers, user ids and tokens, every `MaxVersion`, `Threshold ≥ 1` and `MaxDirect` (assumption `ConstantsAssumption`):
- `TypeCorrect`: `Spec => []TypeOK`;
- `KnowledgeTimerAlwaysArmed`: `Spec => []KnowledgeTimerArmed`;
- `BacklogNeverDuplicates`: `Spec => []BacklogNoDuplicates`;
- `AdultRelaysToElders`: `Spec => []RelayedToElders`.

None of these is inductive alone, so each is a corollary of `SpecIInv: Spec => []IInv`. `IInv` strengthens them:
- **FreshInv:** before the transition finishes, the filter is empty and the backlog holds at most the one message the state was created with. Without it, `FinishHandleTransition` could replay a message already in the filter and break `BacklogNoDuplicates`.
- **BacklogInv:** every backlogged message is already in the filter. Without it, a later copy could be backlogged again.
- **RelayInv:** `RelayedToElders` extended to the paused state. Otherwise `Resume` would restore a state with no proof of its relays.
- **TimerInv:** the timer fact for the state "Adult" itself.

TLC checked `IInv` on the liveness instance before the proof. The proof has three parts:
- `InitIInv`;
- `NextIInv`, one case per action, with the signed-message handler in its own lemmas `SignedMessageEffect` and `SignedMessageInv`;
- the temporal step `BY PTL`.

## Proofs (AdultRefinementProofs)

`AdultImplementsRouting: Spec => ImplementsAdultRouting` holds for every value of the constants under `ConstantsAssumption`. The proof follows the standard refinement shape:
- `InitRefines`: `Init => AR!Init`;
- `NextRefines`: `RInv /\ [Next]_vars => [AR!Next]_AR!avars`;
- the temporal step `BY PTL`.

`NextRefines` has one case per adult and environment action. The signed-message handler is in its own lemma, `SignedMessageRefines`. It splits into a stutter, `Install(m.ver)` or `Accept(m)`, using `SignedMessageEffect` from `AdultProofs`.

`IInv` alone is not enough. `SpecRInv: Spec => []RInv` proves `RInv == IInv /\ IssuedInv`. `IssuedInv` adds what the abstract guards need:
- `genVersion <= secVersion`, and every issued GenesisUpdate is at most `secVersion`. `Install(v)` needs `v <= latest`.
- Every hop or share in flight carries an issued message, and everything in the filter or backlog was issued. `Accept(m)` needs `m \in published`.
- The backlog holds only user messages, so that `pending` is a sequence of abstract messages.
- A paused adult had finished its transition. `Resume` goes back to "Active", never to "Joined".

TLC checked `RInv` as an invariant on the refinement instance (1.39M states) before the proof.

`Mode` is written with disjoint `CASE` arms. When arms overlap, `CASE` picks one of them arbitrarily, and its value could not be proved.

## Proofs (GroupSizeProofs)

- `DeliveryGroupSizeIsCeiling`: for every `n \in Nat`, `delivery_group_size(n)` is the least integer at least `n/3`, which is the claim of its comment.
- `DeliveryGroupSizeInRange`: for every `n \geq 1` it lies in `1..n`. This is the fact on which the `idx == 0` stop of `candidates` rests (hazard at `delivery_group.rs:116`).

`DeliveryGroupSize` lives in `GroupSize` because `DeliveryGroup` extends `SequencesExt`. That module reaches `RECURSIVE` operators, which `tlapm` cannot use with its SMT backend.

## Proofs (StageProofs)

The type invariant of `Stage` is proved for every network of fixed sections, every joiner, seed, set of destinations and bounds, and every `RelayTable` of the right shape (assumptions `StageAssumption` and `RelayTableAssumption`). `StageAssumption` says:
- the sections cover every node;
- each section's elders are among its members;
- the joiner and its seed are nodes.

The theorem is `StageTypeCorrect`: `Spec => []TypeOK`. It holds whatever `delivery_targets` returns within `RelayResults`. It is a corollary of `StageSpecIInv: Spec => []StageIInv`, where `StageIInv` adds `IsFiniteSet(sent)`: `send_message` numbers a new user message `Cardinality(sent) + 1`, which is a number only for a finite set.

`ProcessMessageIInv` covers `process_message` as a whole: relay, decision, handler, stage change and replies. It rests on `RelayToType` (relaying goes to nodes), `RepliesType` and `NextStageType`. `SendMessageIInv` covers the other action.

`TypeOK` is not in a Stage run: no plausible bug in the mapped code breaks it that a run would show, so it is a lemma of the proofs rather than a property the runs check.

### Model-checked only

The following are checked by TLC only, not proved:
- **Liveness:** `KnowledgeKeepsFlowing`, `IssuedMessagesTakenIn`, `Quiescence` and `UserMessagesDelivered`. TLAPS cannot reason about `ENABLED` and fairness here.
- **DeliveryGroup and GroupKeyMerge:** `MatchesReference`, `SignatureTargetsClosest` and `MergeSelectsMostFrequent` are about what `SetToSortSeq`, `FoldLeft` and the recursive `candidates` loop compute for every input. That is induction over data, which the provers cannot do here, and the modules reach `RECURSIVE` operators. `MCDeliveryGroup` also uses one.
- **Stage's liveness** (above) depends on what `delivery_targets` returns, which the proofs leave abstract in `RelayTable`.

## Findings

1. **A GenesisUpdate that arrives too early is lost for good** (`states/adult/mod.rs:389`).
   - `handle_signed_message` adds the message to the filter before `verify_signed_message` rejects it with `ProofTooNew`.
   - Every later copy is then dropped as known.
   - Run `adult_genesis_catch_up`: update v2 (proved from key v1) arrives before v1. The adult installs v1 and stays there while the section is at v2.
   - Spec §4.7 step 4 says such a message is buffered and re-evaluated.
2. **`merge` panics on a small group** (`messages/get_group_key_response.rs:77`).
   - `assert_eq!(merged_group.len(), GROUP_SIZE)` fails when fewer than `GROUP_SIZE` distinct keys are received, for example when a single member answers.
   - The TODO at line 70 says it should return `None`.

## Not modelled

- `event.rs`: a data type and its `Debug` text.
- `vote.rs`: signing and verification.
- Parsec request and response handling in `Adult`.
- The transport (`send_message_to_target`) and the signatures of `create_first_proof`.
- `Stage`'s Approved → Bootstrapping transition (relocation or restart, spec §5). It is decided in `approved.rs`, which is not in this repository. The `Stage` model keeps membership fixed.
- The consensus events an adult ignores (`handle_member_added`, `handle_prune_event` and the like, `states/adult/mod.rs:600-720`). They change nothing; the one that matters, a `SectionInfo` that makes us an elder, is `IntoElder`.
- Splits and merges of sections, which are not in this repository.
- Member states and ages.
- The timeout handlers of the three stages, and so `JOIN_TIMEOUT`: `Stage::process_timeout` cannot change the stage (see Stage above).
- A failing `relay_message` (`stage/mod.rs:302`, whose `?` skips handling a message that is also for us). With the code's `delivery_targets` it fails only for a Direct destination, which is never relayed, or a section with no elders; the relay and transport code is not in this repository.
- `direct_msg_backlog` growth: the code has no bound on it, so there is no bound to check.
- Accumulator expiry.

## Plan for later sittings

- Model the member table (joined/relocating/left) so that `get_peer` returning a departed member (`delivery_group.rs:137`) can be checked.
- Add a refinement of `Stage` relaying onto an abstract "every message reaches its destination set" specification.
- Model section splits in `Stage`, with the section map changing under a message in flight.
- Check `AdultRouting` with fairness (eventual acceptance) as a refinement of liveness.
