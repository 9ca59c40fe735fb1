------------------------- MODULE MCGroupKeyMerge --------------------------
(***************************************************************************)
(* Every input to GetGroupKeyResponse::merge over a few keys and two group *)
(* addresses: our response for the first address, up to MaxOthers other   *)
(* responses, each listing up to MaxKeys keys, and every order            *)
(* sort_by_highest may return.  The inputs are the state; Next stutters.  *)
(***************************************************************************)
EXTENDS GroupKeyMerge, TLC

CONSTANTS Keys, Targets, MaxKeys, MaxOthers

VARIABLES self, others, order

vars == << self, others, order >>

KeyLists == UNION { [1 .. n -> Keys] : n \in 0 .. MaxKeys }

Responses == [target : Targets, keys : KeyLists]

OurTarget == CHOOSE t \in Targets : TRUE

Init ==
  /\ self \in [target : {OurTarget}, keys : KeyLists]
  /\ others \in UNION { [1 .. n -> Responses] : n \in 0 .. MaxOthers }
  /\ order \in SortByHighest(HistogramOf(self, others))

Next == UNCHANGED vars

Spec == Init /\ [][Next]_vars

Result == Merge(self, others, order)

H == HistogramOf(self, others)

Mismatch == \E i \in 1 .. Len(others) : others[i].target # self.target

(***************************************************************************)
(* merge agrees with what the histogram is for: it returns None exactly    *)
(* when a response answers for another group; otherwise it panics exactly  *)
(* when fewer than GROUP_SIZE distinct keys were received or some key was  *)
(* counted more than GROUP_SIZE times, and else returns GROUP_SIZE         *)
(* distinct keys none of which is less frequent than a key left out (the   *)
(* unit test `merge`: keys common to every response are the ones kept).   *)
(***************************************************************************)
MergeSelectsMostFrequent ==
  CASE Mismatch -> Result = None
    [] Cardinality(DOMAIN H) < GroupSize \/ \E k \in DOMAIN H : H[k] > GroupSize ->
         Result = Panic
    [] OTHER ->
         /\ Result.kind = "Some"
         /\ Len(Result.keys) = GroupSize
         /\ Cardinality(Range(Result.keys)) = GroupSize
         /\ \A k \in Range(Result.keys), j \in DOMAIN H \ Range(Result.keys) : H[k] >= H[j]

(***************************************************************************)
(* merge never panics on the answers of a group (at most GROUP_SIZE        *)
(* responses, each listing some keys, all distinct): the TODO at line 70   *)
(* intends None where the logic is not assured.                           *)
(***************************************************************************)
WellFormed ==
  /\ Len(others) + 1 <= GroupSize
  /\ \A r \in {self} \cup Range(others) : Len(r.keys) > 0 /\ IsInjective(r.keys)

MergeNeverPanics == WellFormed => Result # Panic
=============================================================================
