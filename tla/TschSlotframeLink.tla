-------------------------- MODULE TschSlotframeLink --------------------------
(***************************************************************************)
(* The TSCH Slotframe and Link IE reader of src/dot15d4/src/frame/ie/      *)
(* nested.rs: TschSlotframeAndLink, SlotframeDescriptor and its iterator,  *)
(* LinkDescriptor and its iterator.                                        *)
(*                                                                         *)
(* A caller holds the content of a Slotframe and Link IE (`data`), asks    *)
(* for the slotframe descriptor iterator, steps it, asks a yielded         *)
(* descriptor for its link descriptor iterator, steps that and reads the   *)
(* link descriptors it yields.  Offsets are 0-based, as in the code.  An   *)
(* index out of a slice's bounds panics and the thread stops.  `src` is    *)
(* not program state: it records what the bytes encode (or Malformed).     *)
(***************************************************************************)
EXTENDS Naturals, Sequences

CONSTANTS
    Contents,    \* [src : slotframe-and-link records \cup {Malformed}, bytes : Seq(Byte)]
    Malformed,   \* src of bytes that encode no such record
    None         \* Option::None

VARIABLES
    data, src,
    sfStarted, sfOff, sfTerm, sfCount, sfYielded,   \* SlotframeDescriptorIterator
    cur, lkStart, lkLen, lkOff, lkTerm, lkYielded,  \* LinkDescriptorIterator of descriptor cur
    sfRead, lkRead,                                  \* the fields last read
    panic

sfVars == <<sfStarted, sfOff, sfTerm, sfCount, sfYielded, sfRead>>
lkVars == <<cur, lkStart, lkLen, lkOff, lkTerm, lkYielded, lkRead>>
vars == <<data, src, sfVars, lkVars, panic>>

(* u16::from_le_bytes of the bytes at 0-based offset off *)
U16At(b, off) == b[off + 1] + 256 * b[off + 2]

(* TschSlotframeAndLink::number_of_slot_frames: data[0] *)
number_of_slot_frames == data[1]

(* The slotframe iterator runs over data[1..]: its offset o is data's o + 1. *)
SfBase == 1
SfDataLen == Len(data) - SfBase

(* SlotframeDescriptor at 0-based offset a of data: links is data[a + 3]. *)
links(a) == data[a + 4]

(* Mutant: a descriptor's length without its 4-byte header. *)
desc_len_no_header(a) == links(a) * 5

(* SlotframeDescriptor::len: 4 + links * LinkDescriptor::len() *)
desc_len(a) == 4 + links(a) * 5

(* TschLinkOption::from_bits_truncate: the five defined flags of a byte *)
LinkOptionBits == <<"Tx", "Rx", "Shared", "TimeKeeping", "Priority">>
from_bits_truncate(b) == {LinkOptionBits[k] : k \in {k \in 1..5 : (b \div 2^(k - 1)) % 2 = 1}}

Reset == /\ sfStarted' = FALSE /\ sfOff' = 0 /\ sfTerm' = FALSE /\ sfCount' = 0
         /\ sfYielded' = <<>> /\ sfRead' = None
ResetLinks == /\ cur' = None /\ lkStart' = 0 /\ lkLen' = 0 /\ lkOff' = 0
              /\ lkTerm' = FALSE /\ lkYielded' = <<>> /\ lkRead' = None

(* TschSlotframeAndLink::new over the content of another IE. *)
new(c) ==
    /\ panic = None
    /\ data' = c.bytes /\ src' = c.src
    /\ Reset /\ ResetLinks
    /\ UNCHANGED panic

(***************************************************************************)
(* slotframe_descriptors(): SlotframeDescriptorIterator::new with         *)
(* number_of_slot_frames() and &data[1..]; both panic on empty data.  The  *)
(* iterator starts terminated when the count is 0.                         *)
(***************************************************************************)
slotframe_descriptors ==
    /\ panic = None
    /\ IF Len(data) = 0
       THEN panic' = "slotframe_descriptors" /\ UNCHANGED <<sfVars, lkVars>>
       ELSE /\ sfStarted' = TRUE /\ sfOff' = 0 /\ sfCount' = 0 /\ sfYielded' = <<>>
            /\ sfRead' = None
            /\ sfTerm' = (number_of_slot_frames = 0)
            /\ ResetLinks
            /\ UNCHANGED panic
    /\ UNCHANGED <<data, src>>

(***************************************************************************)
(* SlotframeDescriptorIterator::next: the descriptor at the cursor, whose  *)
(* len() reads its links byte (a panic when fewer than 4 bytes remain);    *)
(* the cursor advances by len(), and the iterator stops when the cursor    *)
(* reaches the end or the count reaches number_of_slot_frames.             *)
(***************************************************************************)
sf_next ==
    /\ panic = None
    /\ sfStarted /\ ~sfTerm
    /\ IF SfDataLen - sfOff < 4
       THEN panic' = "sf_next" /\ UNCHANGED <<sfVars, lkVars>>
       ELSE LET a == SfBase + sfOff IN
            /\ sfYielded' = Append(sfYielded, a)
            /\ sfCount' = sfCount + 1
            /\ sfOff' = sfOff + desc_len(a)
            /\ sfTerm' = (sfOff' >= SfDataLen \/ sfCount' >= number_of_slot_frames)
            /\ UNCHANGED <<sfStarted, sfRead, lkVars, panic>>
    /\ UNCHANGED <<data, src>>

(***************************************************************************)
(* SlotframeDescriptor::handle, size and links of the i-th yielded         *)
(* descriptor (the 4 bytes next() has already seen exist).                 *)
(***************************************************************************)
read_slotframe(i) ==
    /\ panic = None
    /\ LET a == sfYielded[i] IN
       sfRead' = [item |-> i, handle |-> data[a + 1], size |-> U16At(data, a + 1),
                  links |-> links(a)]
    /\ UNCHANGED <<data, src, sfStarted, sfOff, sfTerm, sfCount, sfYielded, lkVars, panic>>

(***************************************************************************)
(* SlotframeDescriptor::link_descriptors on the i-th yielded descriptor:   *)
(* LinkDescriptorIterator::new(&data[4..][..links * 5]), a panic when the  *)
(* slice reaches past the data.                                            *)
(***************************************************************************)
link_descriptors(i) ==
    /\ panic = None
    /\ LET a == sfYielded[i] IN
       IF a + 4 + links(a) * 5 > Len(data)
       THEN panic' = "link_descriptors" /\ UNCHANGED lkVars
       ELSE /\ cur' = i /\ lkStart' = a + 4 /\ lkLen' = links(a) * 5
            /\ lkOff' = 0 /\ lkTerm' = FALSE /\ lkYielded' = <<>> /\ lkRead' = None
            /\ UNCHANGED panic
    /\ UNCHANGED <<data, src, sfVars>>

(***************************************************************************)
(* LinkDescriptorIterator::next: the descriptor over the rest of the link  *)
(* slice; the cursor advances by 5 and the iterator stops at the end.      *)
(***************************************************************************)
link_next ==
    /\ panic = None
    /\ cur # None /\ ~lkTerm
    /\ lkYielded' = Append(lkYielded, lkOff)
    /\ lkOff' = lkOff + 5
    /\ lkTerm' = (lkOff' >= lkLen)
    /\ lkRead' = None
    /\ UNCHANGED <<data, src, sfVars, cur, lkStart, lkLen, panic>>

(***************************************************************************)
(* Reading the j-th yielded link descriptor: timeslot (bytes 0-1),         *)
(* channel_offset (2-3) and link_options (4) of what is left of the link   *)
(* slice, a panic when fewer than 5 bytes are left.                        *)
(***************************************************************************)
read_link(j) ==
    /\ panic = None
    /\ LET o == lkYielded[j] IN
       IF lkLen - o < 5
       THEN panic' = "read_link" /\ UNCHANGED lkRead
       ELSE /\ lkRead' = [item |-> j,
                          timeslot |-> U16At(data, lkStart + o),
                          channel_offset |-> U16At(data, lkStart + o + 2),
                          link_options |-> from_bits_truncate(data[lkStart + o + 5])]
            /\ UNCHANGED panic
    /\ UNCHANGED <<data, src, sfVars, cur, lkStart, lkLen, lkOff, lkTerm, lkYielded>>

Init ==
    /\ \E c \in Contents : data = c.bytes /\ src = c.src
    /\ sfStarted = FALSE /\ sfOff = 0 /\ sfTerm = FALSE /\ sfCount = 0 /\ sfYielded = <<>>
    /\ sfRead = None
    /\ cur = None /\ lkStart = 0 /\ lkLen = 0 /\ lkOff = 0 /\ lkTerm = FALSE
    /\ lkYielded = <<>> /\ lkRead = None
    /\ panic = None

Next ==
    \/ \E c \in Contents : new(c)
    \/ slotframe_descriptors
    \/ sf_next
    \/ \E i \in 1..Len(sfYielded) : read_slotframe(i)
    \/ \E i \in 1..Len(sfYielded) : link_descriptors(i)
    \/ link_next
    \/ \E j \in 1..Len(lkYielded) : read_link(j)

Spec == Init /\ [][Next]_vars

-----------------------------------------------------------------------------
(***************************************************************************)
(* The layout the reader is meant to read (the diagrams in nested.rs and   *)
(* spec 3): a count byte, then per slotframe its handle, u16 size and      *)
(* links count, then 5 bytes per link: u16 timeslot, u16 channel offset,   *)
(* options byte.  A record is [count, slotframes]; the count need not be   *)
(* the number of slotframes.  A slotframe is [handle, size, links, at]:    *)
(* `at` is the 0-based offset at which the sender placed it in the bytes.  *)
(***************************************************************************)
(* Where a slotframe descriptor's bytes end, and where its k-th link starts. *)
SfEnd(sf) == sf.at + 4 + 5 * Len(sf.links)
LinkAt(sf, k) == sf.at + 4 + 5 * (k - 1)

(* The bytes of b from 0-based offset p on hold the little-endian u16 v. *)
HoldsU16(b, p, v) == b[p + 1] = v % 256 /\ b[p + 2] = v \div 256

(***************************************************************************)
(* The bytes b are the encoding of record r: the count first, then each   *)
(* slotframe's header and links at its offset, the first at 1, each next  *)
(* one where the previous ended, and the last ending at the end of b.      *)
(***************************************************************************)
LaidOut(r, b) ==
    LET sfs == r.slotframes IN
    /\ Len(b) >= 1 /\ b[1] = r.count
    /\ \A i \in 1..Len(sfs) :
         /\ sfs[i].at = (IF i = 1 THEN 1 ELSE SfEnd(sfs[i - 1]))
         /\ SfEnd(sfs[i]) <= Len(b)
         /\ b[sfs[i].at + 1] = sfs[i].handle
         /\ HoldsU16(b, sfs[i].at + 1, sfs[i].size)
         /\ b[sfs[i].at + 4] = Len(sfs[i].links)
         /\ \A k \in 1..Len(sfs[i].links) :
              /\ HoldsU16(b, LinkAt(sfs[i], k), sfs[i].links[k].timeslot)
              /\ HoldsU16(b, LinkAt(sfs[i], k) + 2, sfs[i].links[k].channel_offset)
              /\ b[LinkAt(sfs[i], k) + 5] = sfs[i].links[k].options
    /\ Len(b) = IF Len(sfs) = 0 THEN 1 ELSE SfEnd(sfs[Len(sfs)])

LinkRecs == [timeslot : Nat, channel_offset : Nat, options : Nat]
SfRecs == [handle : Nat, size : Nat, links : Seq(LinkRecs), at : Nat]

(***************************************************************************)
(* Every content that is not Malformed lays out a record with at least one *)
(* slotframe, each with at least one link.                                 *)
(***************************************************************************)
WellFormedContents(C) ==
    \A c \in C : c.src # Malformed =>
        /\ c.src.count \in Nat
        /\ c.src.slotframes \in Seq(SfRecs) /\ Len(c.src.slotframes) >= 1
        /\ \A i \in 1..Len(c.src.slotframes) : Len(c.src.slotframes[i].links) >= 1
        /\ c.bytes \in Seq(Nat)
        /\ LaidOut(c.src, c.bytes)

Min2(a, b) == IF a < b THEN a ELSE b

TypeOK ==
    /\ sfYielded \in Seq(Nat) /\ lkYielded \in Seq(Nat)
    /\ panic \in {None, "slotframe_descriptors", "sf_next", "link_descriptors", "read_link"}

(***************************************************************************)
(* Spec 4.4 and 8: the slotframe iterator "stops either at end-of-buffer   *)
(* or after the declared descriptor count, whichever comes first", and     *)
(* over count K "yields exactly K items when the buffer contains exactly K *)
(* self-consistent descriptors"; each descriptor's links are "link-count * *)
(* fixed 5-byte link records".  On the bytes of a record, no call panics;  *)
(* a finished slotframe iterator has yielded min(count, slotframes)        *)
(* descriptors, each where its slotframe was encoded and reading back its  *)
(* handle, size and links count; a finished link                           *)
(* iterator has yielded one descriptor per link of its slotframe, and a    *)
(* link read returns that link's timeslot, channel offset and options.     *)
(***************************************************************************)
DescriptorsRecovered ==
    src # Malformed =>
        /\ panic = None
        /\ sfStarted /\ sfTerm =>
             /\ Len(sfYielded) = Min2(src.count, Len(src.slotframes))
             /\ \A i \in 1..Len(sfYielded) : sfYielded[i] = src.slotframes[i].at
        /\ sfRead # None =>
             LET sf == src.slotframes[sfRead.item] IN
             /\ sfRead.handle = sf.handle /\ sfRead.size = sf.size
             /\ sfRead.links = Len(sf.links)
        /\ cur # None =>
             LET ls == src.slotframes[cur].links IN
             /\ lkTerm => Len(lkYielded) = Len(ls)
             /\ lkRead # None =>
                  /\ lkRead.timeslot = ls[lkRead.item].timeslot
                  /\ lkRead.channel_offset = ls[lkRead.item].channel_offset
                  /\ lkRead.link_options = from_bits_truncate(ls[lkRead.item].options % 32)
=============================================================================
