--------------------------- MODULE GroupKeyMerge ---------------------------
(***************************************************************************)
(* The legacy GetGroupKeyResponse::merge of                                *)
(* src/messages/get_group_key_response.rs: our own response and the ones   *)
(* received from the group are counted in a histogram of keys, and the     *)
(* GROUP_SIZE most frequent keys form the merged response.                 *)
(*                                                                         *)
(* A response is a record [target, keys]: the group address it answers    *)
(* for and its list of (DhtId, PublicSignKey) pairs, each pair a model     *)
(* value.  The histogram (the crate's histogram module, not in this        *)
(* repository) is a bag: update adds one copy of a key, sort_by_highest    *)
(* lists the distinct keys by decreasing count, ties in an unspecified     *)
(* order.  merge either returns None, returns Some(merged), or panics on   *)
(* one of its assertions.                                                  *)
(***************************************************************************)
EXTENDS Naturals, FiniteSets, Sequences, SequencesExt, BagsExt

CONSTANT GroupSize    \* types::GROUP_SIZE

ASSUME GroupSizeAssumption == GroupSize \in Nat \ {0}

\* Histogram::update for every key of a response, in order.
UpdateAll(h, r) == FoldLeft(BagAdd, h, r.keys)

\* The histogram after our response and then each of the others.
HistogramOf(self, others) == FoldLeft(UpdateAll, UpdateAll(EmptyBag, self), others)

\* Histogram::sort_by_highest: every list of the distinct keys by
\* decreasing count (the order among equal counts is not specified).
SortByHighest(h) ==
  { s \in SetToSeqs(DOMAIN h) : IsSorted(s, LAMBDA a, b : h[a] >= h[b]) }

None == [kind |-> "None"]
Some(group) == [kind |-> "Some", keys |-> group]
Panic == [kind |-> "Panic"]

\* Variant of Merge whose loop takes one entry too many (len <= GROUP_SIZE).
MergeTakingOneMore(self, others, order) ==
  LET h == HistogramOf(self, others)
      n == IF Len(order) < GroupSize + 1 THEN Len(order) ELSE GroupSize + 1
  IN  CASE \E i \in 1 .. Len(others) : others[i].target # self.target -> None
        [] \E i \in 1 .. n : h[order[i]] > GroupSize -> Panic
        [] n # GroupSize -> Panic
        [] OTHER -> Some(SubSeq(order, 1, n))

\* merge(self, others) when sort_by_highest returned `order`.  A response
\* for another target returns None before anything is merged.  The loop
\* takes entries while the group is short of GROUP_SIZE, asserting of each
\* that its count is at most GROUP_SIZE (line 69); then the group must have
\* exactly GROUP_SIZE keys (line 77).
Merge(self, others, order) ==
  LET h == HistogramOf(self, others)
      n == IF Len(order) < GroupSize THEN Len(order) ELSE GroupSize
  IN  CASE \E i \in 1 .. Len(others) : others[i].target # self.target -> None
        [] \E i \in 1 .. n : h[order[i]] > GroupSize -> Panic
        [] n # GroupSize -> Panic
        [] OTHER -> Some(SubSeq(order, 1, n))
=============================================================================
