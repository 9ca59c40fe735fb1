------------------------------ MODULE MCAdult ------------------------------
(***************************************************************************)
(* Small instances of Adult for TLC: two or three elders with a signature *)
(* threshold of two, one peer, one or two signed messages besides the     *)
(* GenesisUpdates, up to two section changes and three timer tokens.      *)
(***************************************************************************)
EXTENDS Adult, TLC

CONSTANTS e1, e2, e3, p1, u1, u2, t1, t2, t3

MCElders == {e1, e2}
\* Three elders with a threshold of two: a share arrives after the one that
\* completes the signature.
MCElders3 == {e1, e2, e3}
MCPeers == {p1}
MCUserIds == {u1}
\* Two message identities, for the refinement run: two messages interleave.
MCUserIds2 == {u1, u2}
MCTokens == {t1, t2, t3}

\* Elders, peers and tokens are interchangeable.
Symm == Permutations(MCElders) \cup Permutations(MCTokens)
Symm3 == Permutations(MCElders3) \cup Permutations(MCTokens)
=============================================================================
