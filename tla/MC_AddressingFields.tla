------------------------- MODULE MC_AddressingFields -------------------------
(* Model-checking instances of AddressingFields. *)
EXTENDS AddressingFields

(***************************************************************************)
(* Emitting: a zeroed frame buffer, up to four Frame Control setter calls  *)
(* (enough to set version, both modes and compression) and one write.      *)
(* The PAN ID and the addresses have distinct, non-palindromic bytes so a  *)
(* misplaced or reversed field shows.                                      *)
(***************************************************************************)
MC_EmitWords == {0}
MC_MaxCalls == 4
MC_MaxWrites == 1
MC_AddrBufLen == 20
MC_PanIds == {4660}                      \* 0x1234
MC_ShortAddrs == {<<171, 205>>}          \* ab:cd
MC_ExtAddrs == {<<1, 2, 3, 4, 5, 6, 7, 8>>}

(***************************************************************************)
(* Parsing: every Frame Control word that differs only in the bits         *)
(* address_present_flags reads (PAN ID compression, bit 6; both addressing *)
(* modes, bits 10-11 and 14-15; frame version, bits 12-13), reserved codes *)
(* included.                                                               *)
(***************************************************************************)
MC_ParseWords ==
    {c * 64 + d * 1024 + v * 4096 + s * 16384 :
        c \in 0..1, d \in 0..3, v \in 0..3, s \in 0..3}

(* A received frame is only read: no setter calls, no writes. *)
MC_ParseMaxCalls == 0
MC_ParseMaxWrites == 0
=============================================================================
