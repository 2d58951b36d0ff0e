--------------------------- MODULE MC_TschTimeslot ---------------------------
(***************************************************************************)
(* TLC instances of TschTimeslot.  Two setter calls on a table built with  *)
(* ID 0 or 5: enough to customise a field and to touch a zero-ID table.    *)
(***************************************************************************)
EXTENDS TschTimeslot

MC_Ids == {0, 5}
MC_MaxSets == 2

(* A u16 value with both bytes non-zero. *)
MC_Durations == {4660}
MC_Guards == {DEFAULT_GUARD_TIME}

(* A guard time other than the default. *)
MC_GuardsOther == {DEFAULT_GUARD_TIME, 1000}
=============================================================================
