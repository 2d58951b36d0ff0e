--------------------------- MODULE MC_FrameControl ---------------------------
(* Model-checking instance of FrameControl. *)
EXTENDS FrameControl

(***************************************************************************)
(* Initial words: all zeros, all ones and six alternating patterns, so     *)
(* that every field is seen both with its neighbours' bits set and clear,  *)
(* and the reserved codes (frame type 0b100, addressing mode 0b01, frame   *)
(* version 0b11) occur.                                                    *)
(***************************************************************************)
MC_InitWords == {0, 65535, 21845, 43690, 13107, 52428, 3855, 61680}
MC_MaxCalls == 2
=============================================================================
