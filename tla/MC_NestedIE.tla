----------------------------- MODULE MC_NestedIE -----------------------------
(* Model-checking instances of NestedIE. *)
EXTENDS NestedIE, SequencesExt

(***************************************************************************)
(* Elements: one of each TSCH decoder's sub-ID with content long enough    *)
(* for it and one with too little, a long ChannelHopping and a long        *)
(* VendorSpecificNested element, and a short sub-ID without a decoder.     *)
(* The sub-IDs set header bits 8-14 in different patterns, the long ones   *)
(* bits 11-15, so a mask or shift of the wrong width shows.                *)
(***************************************************************************)
MC_Elements ==
    {[long |-> FALSE, sub |-> 26, len |-> 6, fill |-> 1],   \* TschSynchronization
     [long |-> FALSE, sub |-> 26, len |-> 0, fill |-> 0],
     [long |-> FALSE, sub |-> 28, len |-> 1, fill |-> 2],   \* TschTimeslot
     [long |-> FALSE, sub |-> 27, len |-> 1, fill |-> 0],   \* TschSlotframeAndLink
     [long |-> FALSE, sub |-> 57, len |-> 2, fill |-> 7],   \* MultiPhy
     [long |-> TRUE,  sub |-> 9,  len |-> 1, fill |-> 3],   \* ChannelHopping
     [long |-> TRUE,  sub |-> 8,  len |-> 2, fill |-> 5]}   \* VendorSpecificNested

(* Lists of one to MC_MaxElems elements, encoded as the spec lays them out. *)
MC_MaxElems == 2

(* One more next() call than a stream has elements. *)
MC_MaxNext == MC_MaxElems + 1
(* The concatenated encodings, and each element stamped with its offset. *)
Encode(es) == FlattenSeq([i \in 1..Len(es) |-> EncodeElem(es[i])])
Placed(es) == [i \in 1..Len(es) |-> es[i] @@ [at |-> Len(Encode(SubSeq(es, 1, i - 1)))]]

WellFormed(E) ==
    {[src |-> Placed(es), bytes |-> Encode(es)] : es \in SeqOf(E, MC_MaxElems) \ {<<>>}}

(* The bytes of one element with its last byte cut off: a truncated frame. *)
Truncated(E) ==
    {[src |-> Malformed, bytes |-> SubSeq(EncodeElem(e), 1, e.len + 1)] : e \in E}

MC_Streams == WellFormed(MC_Elements) \cup Truncated(MC_Elements)

(* A short VendorSpecific (0x40) element, as the enum NestedSubIdShort lists it. *)
MC_VendorSpecific == [long |-> FALSE, sub |-> 64, len |-> 1, fill |-> 4]
MC_StreamsWithVendor == WellFormed({MC_VendorSpecific})

(***************************************************************************)
(* LaidOut describes exactly the concatenated encodings the instances use, *)
(* and the pass run's streams are well formed in the sense the proofs of   *)
(* NestedIEProofs assume.                                                   *)
(***************************************************************************)
ASSUME MC_LayoutAssumption ==
    /\ \A s \in MC_Streams \cup MC_StreamsWithVendor :
          s.src # Malformed => LaidOut(s.src, s.bytes)
    /\ WellFormedStreams(MC_Streams)
=============================================================================
