------------------------- MODULE MC_TschSlotframeLink -------------------------
(***************************************************************************)
(* TLC instance of TschSlotframeLink: Slotframe and Link IE contents built *)
(* from two links and three slotframes whose bytes are all distinct, so a *)
(* descriptor read at a wrong offset shows.  Options 227 = 0xE3 sets      *)
(* reserved bits, which from_bits_truncate must drop.                      *)
(***************************************************************************)
EXTENDS TschSlotframeLink, SequencesExt

(* The encoding of record r, computed by concatenation. *)
LE16(v) == <<v % 256, v \div 256>>
EncodeLink(l) == LE16(l.timeslot) \o LE16(l.channel_offset) \o <<l.options>>
EncodeSf(sf) ==
    <<sf.handle>> \o LE16(sf.size) \o <<Len(sf.links)>>
    \o FlattenSeq([k \in 1..Len(sf.links) |-> EncodeLink(sf.links[k])])
Encode(r) == <<r.count>> \o FlattenSeq([k \in 1..Len(r.slotframes) |-> EncodeSf(r.slotframes[k])])

(* Each slotframe of r stamped with the offset at which Encode places it. *)
Placed(r) ==
    [r EXCEPT !.slotframes =
        [i \in 1..Len(r.slotframes) |->
            r.slotframes[i] @@
              [at |-> 1 + Len(FlattenSeq([k \in 1..(i - 1) |-> EncodeSf(r.slotframes[k])]))]]]

MC_L1 == [timeslot |-> 258, channel_offset |-> 3, options |-> 227]
MC_L2 == [timeslot |-> 7, channel_offset |-> 1029, options |-> 28]

MC_SFa == [handle |-> 1, size |-> 101, links |-> <<MC_L1>>]
MC_SFb == [handle |-> 2, size |-> 513, links |-> <<MC_L2, MC_L1>>]
MC_SF0 == [handle |-> 3, size |-> 9, links |-> <<>>]

(* The content bytes of record r, and the same bytes with the last one cut. *)
Content(r) == [src |-> Placed(r), bytes |-> Encode(r)]
Truncated(r) == [src |-> Malformed, bytes |-> SubSeq(Encode(r), 1, Len(Encode(r)) - 1)]

MC_Lists == {<<MC_SFa>>, <<MC_SFb>>, <<MC_SFa, MC_SFb>>, <<MC_SFb, MC_SFa>>}

(* Counts below, at and above the number of descriptors present. *)
MC_Contents ==
    {Content([count |-> k, slotframes |-> l]) : k \in 0..3, l \in MC_Lists}
    \cup {Truncated([count |-> 2, slotframes |-> <<MC_SFa, MC_SFb>>])}

(* A slotframe that declares no links. *)
MC_ContentsZeroLinks ==
    {Content([count |-> 1, slotframes |-> <<MC_SF0>>]),
     Content([count |-> 2, slotframes |-> <<MC_SF0, MC_SFa>>])}

(* The encoding lays out each record as LaidOut describes it, and the     *)
(* contents of the main instance are well formed.                         *)
ASSUME MC_LayoutAssumption ==
    /\ \A c \in MC_Contents \cup MC_ContentsZeroLinks :
          c.src # Malformed => LaidOut(c.src, c.bytes)
    /\ WellFormedContents(MC_Contents)
=============================================================================
