---------------------------- MODULE MCRingBuffer ----------------------------
(***************************************************************************)
(* The ring buffer for TLC.  The size of the real buffers is               *)
(* NextPowerOf2(10 * frame), and every index computation depends on it only*)
(* through the two masks; N = 4 with requests up to N + 1 reaches the empty*)
(* and the full buffer, the clamped request and the split region, and      *)
(* MaxAccepted > 2N makes both indices wrap.                               *)
(***************************************************************************)
EXTENDS RingBuffer
=============================================================================
