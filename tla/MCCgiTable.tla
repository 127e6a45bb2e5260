----------------------------- MODULE MCCgiTable -----------------------------
(* The instances of CgiTable that TLC checks. *)
EXTENDS CgiTable, TLC

CONSTANTS p1, p2, p3, c1, c2, k1, k2

MCPeers == {p1, p2}
MCThreePeers == {p1, p2, p3}
MCProcs == {c1, c2}
MCOneProc == {c1}
MCPids == {k1, k2}
MCOnePid == {k1}

MCStaleSymmetry == Permutations(MCThreePeers)
MCSymmetry == Permutations(MCPeers) \cup Permutations(MCProcs) \cup Permutations(MCPids)

=============================================================================
