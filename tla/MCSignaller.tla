---------------------------- MODULE MCSignaller -----------------------------
(***************************************************************************)
(* The signalling server for TLC.  Three clients are the least with which a*)
(* channel can be full, and a partner can leave and be replaced; the fourth*)
(* and the second channel let two pairs form side by side.                 *)
(***************************************************************************)
EXTENDS Signaller, TLC

CONSTANTS p1, p2, p3, p4, c1, c2

MCPeers == {p1, p2, p3, p4}
MCChannels == {c1, c2}
Symmetry == Permutations(MCPeers) \cup Permutations(MCChannels)
=============================================================================
