---------------------------- MODULE VoiceCommon ----------------------------
(***************************************************************************)
(* What the two sides of the squelch masks share: a mask is a set of       *)
(* client slots, a bit of CPlayerBitVec each.                              *)
(***************************************************************************)
CONSTANT Slots

CPlayerBitVec == SUBSET Slots
=============================================================================
