------------------------------ MODULE NestedIE ------------------------------
(***************************************************************************)
(* The Nested Information Element framer, the iterator over a stream of    *)
(* nested IEs and the sub-ID dispatch of NestedInformationElementRepr::    *)
(* parse, from src/dot15d4/src/frame/ie/nested.rs.                         *)
(*                                                                         *)
(* A caller builds a NestedInformationElementsIterator over a byte slice,  *)
(* calls next() until it returns None, and may parse any element it got.   *)
(* An index out of a slice's bounds, or todo!(), panics: the thread stops  *)
(* and no further call is made.                                            *)
(* The variable `src` is not program state: it records the elements the    *)
(* bytes were encoded from (or Malformed), so properties can compare what  *)
(* the iterator yields with what was sent.                                 *)
(***************************************************************************)
EXTENDS Naturals, Sequences

CONSTANTS
    Streams,     \* [src : element lists \cup {Malformed}, bytes : Seq(Byte)]
    Malformed,   \* src of a byte stream that encodes no element list
    None,        \* Option::None
    Panic,       \* the outcome of a decoder call that panics
    MaxNext      \* next() calls made on one iterator before it returns None

ASSUME MaxNextAssumption == MaxNext \in Nat

(* Option::None is not one of the calls that can panic. *)
ASSUME NoneAssumption == None \notin {"next", "parse"}

(* panic: None while the thread runs, else the call that panicked *)
VARIABLES data, src, offset, terminated, yielded, parsed, panic

vars == <<data, src, offset, terminated, yielded, parsed, panic>>

(* u16::from_le_bytes of the two bytes of b at 0-based offset off *)
U16At(b, off) == b[off + 1] + 256 * b[off + 2]

(***************************************************************************)
(* NestedSubIdShort and NestedSubIdLong with their discriminants; the      *)
(* variant after the last explicit one takes the next value.               *)
(***************************************************************************)
NestedSubIdShortCode ==
    [TschSynchronization |-> 26, TschSlotframeAndLink |-> 27,
     TschTimeslot |-> 28, HoppingTiming |-> 29, EnhancedBeaconFilter |-> 30,
     MacMetrics |-> 31, AllMacMetrics |-> 32, CoexistenceSpecification |-> 33,
     SunDeviceCapabilities |-> 34, SunFskGenericPhy |-> 35,
     ModeSwitchParameter |-> 36, PhyParameterChange |-> 37, OQpskPhyMode |-> 38,
     PcaAllocation |-> 39, LecimDsssOperatingMode |-> 40,
     LecimFskOperatingMode |-> 41, TvwsPhyOperatingMode |-> 43,
     TvwsDeviceCapabilities |-> 44, TvwsDeviceCategory |-> 45,
     TvwsDeviceIdentification |-> 46, TvwsDeviceLocation |-> 47,
     TvwsChannelInformationQuery |-> 48, TvwsChannelInformationSource |-> 49,
     Ctm |-> 50, Timestamp |-> 51, TimestampDifference |-> 52,
     TmctpSpecification |-> 53, RccPhyOperatingMode |-> 54, LinkMargin |-> 55,
     RsGfskDeviceCapabilities |-> 56, MultiPhy |-> 57, VendorSpecific |-> 64,
     Srm |-> 70, Unkown |-> 71]
NestedSubIdLongCode ==
    [VendorSpecificNested |-> 8, ChannelHopping |-> 9, Unkown |-> 10]

(* impl From<u8>: the variant whose code it is, else Unkown *)
FromCode(codes, c) ==
    IF \E v \in DOMAIN codes \ {"Unkown"} : codes[v] = c
    THEN CHOOSE v \in DOMAIN codes \ {"Unkown"} : codes[v] = c
    ELSE "Unkown"

(***************************************************************************)
(* The framer, on the header word h = from_le_bytes(data[0..2]).           *)
(***************************************************************************)
is_long(h) == (h \div 32768) % 2 = 1

(* Mutant: the short length read with the long format's 10-bit mask. *)
length_mask10(h) == h % 1024

length(h) == IF is_long(h) THEN h % 1024 ELSE h % 128

sub_id(h) ==
    IF is_long(h)
    THEN [format |-> "Long", id |-> FromCode(NestedSubIdLongCode, (h \div 2048) % 16)]
    ELSE [format |-> "Short", id |-> FromCode(NestedSubIdShortCode, (h \div 256) % 64)]

(* An element the iterator yields: the view data[at..][..len].  content()  *)
(* slices [2..][..length()] of that view, a panic when it does not fit.     *)
Header(item) == U16At(data, item.at)
ContentFits(item) == length(Header(item)) + 2 <= item.len
content(item) == SubSeq(data, item.at + 3, item.at + 2 + length(Header(item)))

(***************************************************************************)
(* NestedInformationElementsIterator::new and next.  The caller drains an  *)
(* iterator (`for ie in iter`) before it builds the next one.  next() reads *)
(* header at the cursor (a panic when fewer than two bytes remain), slices *)
(* length()+2 bytes (a panic when they are not there), advances and stops *)
(* once the cursor reaches the end of the data.                            *)
(***************************************************************************)
new(s) ==
    /\ panic = None
    /\ terminated
    /\ data' = s.bytes
    /\ src' = s.src
    /\ offset' = 0
    /\ terminated' = FALSE
    /\ yielded' = <<>>
    /\ parsed' = None
    /\ UNCHANGED panic

next_none ==
    /\ panic = None
    /\ terminated
    /\ parsed' = None
    /\ UNCHANGED <<data, src, offset, terminated, yielded, panic>>

(* Mutant: the element's length without its two header bytes. *)
NestedLen_no_header(off) == length(U16At(data, off))

NestedLen(off) == length(U16At(data, off)) + 2

next_some ==
    /\ panic = None
    /\ ~terminated
    /\ Len(yielded) < MaxNext
    /\ Len(data) - offset >= 2
    /\ offset + NestedLen(offset) <= Len(data)
    /\ yielded' = Append(yielded, [at |-> offset, len |-> NestedLen(offset)])
    /\ offset' = offset + NestedLen(offset)
    /\ terminated' = (offset' >= Len(data))
    /\ parsed' = None
    /\ UNCHANGED <<data, src, panic>>

next_panic ==
    /\ panic = None
    /\ ~terminated
    /\ Len(yielded) < MaxNext
    /\ IF Len(data) - offset < 2 THEN TRUE
       ELSE offset + NestedLen(offset) > Len(data)
    /\ panic' = "next"
    /\ UNCHANGED <<data, src, offset, terminated, yielded, parsed>>

(***************************************************************************)
(* NestedInformationElementRepr::parse: the decoder chosen by the sub-ID.  *)
(* Each decoder indexes the content, so content too short for it panics;   *)
(* a sub-ID without a decoder reaches todo!().  A ChannelHopping element   *)
(* is decoded by the slotframe-and-link decoder.                           *)
(***************************************************************************)
(* The 40-bit ASN of absolute_slot_number, as <<low 24 bits, high 16 bits>>:
   its value lo + 2^24 * hi exceeds TLC's 32-bit integers. *)
AsnOf(c) == <<c[1] + 256 * c[2] + 65536 * c[3], c[4] + 256 * c[5]>>

Repr(item) ==
    LET id == sub_id(Header(item))
        c == content(item)
    IN
    IF ~ContentFits(item) THEN Panic ELSE
    CASE id = [format |-> "Short", id |-> "TschSynchronization"] ->
           IF Len(c) >= 6
           THEN [kind |-> "TschSynchronization", absolute_slot_number |-> AsnOf(c),
                 join_metric |-> c[6]]
           ELSE Panic
      [] id = [format |-> "Short", id |-> "TschTimeslot"] ->
           IF Len(c) >= 1 THEN [kind |-> "TschTimeslot", id |-> c[1]] ELSE Panic
      [] id \in {[format |-> "Short", id |-> "TschSlotframeAndLink"],
                 [format |-> "Long", id |-> "ChannelHopping"]} ->
           IF Len(c) >= 1
           THEN [kind |-> "TschSlotframeAndLink", number_of_slot_frames |-> c[1]]
           ELSE Panic
      [] OTHER -> Panic

parse(i) ==
    /\ panic = None
    /\ IF Repr(yielded[i]) = Panic
       THEN panic' = "parse" /\ UNCHANGED parsed
       ELSE parsed' = [item |-> i, repr |-> Repr(yielded[i])] /\ UNCHANGED panic
    /\ UNCHANGED <<data, src, offset, terminated, yielded>>

Init ==
    /\ \E s \in Streams : data = s.bytes /\ src = s.src
    /\ offset = 0
    /\ terminated = FALSE
    /\ yielded = <<>>
    /\ parsed = None
    /\ panic = None

Next ==
    \/ \E s \in Streams : new(s)
    \/ next_none
    \/ next_some
    \/ next_panic
    \/ \E i \in 1..Len(yielded) : parse(i)

(* The caller's loop keeps calling next() while the iterator has not ended. *)
IterNext == next_some \/ next_panic

Spec == Init /\ [][Next]_vars /\ WF_vars(IterNext)

-----------------------------------------------------------------------------
(***************************************************************************)
(* The encoding the framer is meant to read (the layout of the doc comment *)
(* at the top of nested.rs and spec 3): a little-endian header with the    *)
(* length in the low bits, the sub-ID above it and the format in bit 15,   *)
(* then `len` content bytes.  An element is [long, sub, len, fill, at]:    *)
(* `at` is the offset at which the sender placed it in the stream.         *)
(***************************************************************************)
HeaderOf(e) == IF e.long THEN 32768 + e.sub * 2048 + e.len ELSE e.sub * 256 + e.len

EncodeElem(e) == <<HeaderOf(e) % 256, HeaderOf(e) \div 256>> \o [i \in 1..e.len |-> e.fill]

(* Where an element's bytes end. *)
End(e) == e.at + e.len + 2

(***************************************************************************)
(* The bytes b are the elements of es laid end to end: each element's      *)
(* header and content are at its offset, the first starts at 0, each next *)
(* one where the previous ended, and the last ends at the end of b.        *)
(***************************************************************************)
LaidOut(es, b) ==
    /\ \A i \in 1..Len(es) :
         /\ es[i].at = (IF i = 1 THEN 0 ELSE End(es[i - 1]))
         /\ End(es[i]) <= Len(b)
         /\ b[es[i].at + 1] = HeaderOf(es[i]) % 256
         /\ b[es[i].at + 2] = HeaderOf(es[i]) \div 256
         /\ \A j \in 1..es[i].len : b[es[i].at + 2 + j] = es[i].fill
    /\ Len(b) = IF Len(es) = 0 THEN 0 ELSE End(es[Len(es)])

(***************************************************************************)
(* The elements a header can carry: a 4-bit long or 6-bit short sub-ID    *)
(* (the widths sub_id() masks) and a 10-bit long or 7-bit short length.    *)
(***************************************************************************)
Representable(e) ==
    IF e.long THEN e.sub < 16 /\ e.len < 1024 ELSE e.sub < 64 /\ e.len < 128

ElemRecs == [long : BOOLEAN, sub : Nat, len : Nat, fill : Nat, at : Nat]

(* Every stream that is not Malformed lays out a non-empty element list. *)
WellFormedStreams(S) ==
    \A s \in S : s.src # Malformed =>
        /\ s.src \in Seq(ElemRecs) /\ Len(s.src) >= 1
        /\ \A i \in 1..Len(s.src) : Representable(s.src[i])
        /\ s.bytes \in Seq(Nat)
        /\ LaidOut(s.src, s.bytes)

(* What the framer should report for an element: its format, variant, length. *)
Expected(e) ==
    [format |-> IF e.long THEN "Long" ELSE "Short",
     id |-> FromCode(IF e.long THEN NestedSubIdLongCode ELSE NestedSubIdShortCode, e.sub),
     len |-> e.len]

Decoded(item) == [format |-> sub_id(Header(item)).format,
                  id |-> sub_id(Header(item)).id,
                  len |-> length(Header(item))]

TypeOK ==
    /\ offset \in 0..Len(data)
    /\ terminated \in BOOLEAN
    /\ panic \in {None, "next", "parse"}
    /\ yielded \in Seq([at : 0..Len(data), len : Nat])

(***************************************************************************)
(* Spec 8: "Nested-IE iterator over a concatenation of N well-formed       *)
(* elements yields exactly N items whose cumulative consumed length equals *)
(* the input length".  On the bytes of an element list the iterator never *)
(* panics, and once next() has returned None it has yielded one item per   *)
(* element, the i-th at the i-th element's offset, decoding to that        *)
(* element's format, sub-ID and length.                                    *)
(***************************************************************************)
ElementsRecovered ==
    src # Malformed =>
        /\ panic # "next"
        /\ terminated =>
             /\ Len(yielded) = Len(src)
             /\ \A i \in 1..Len(src) :
                  /\ yielded[i].at = src[i].at
                  /\ Decoded(yielded[i]) = Expected(src[i])

(***************************************************************************)
(* A `for` loop over the iterator ends: every element consumes at least    *)
(* its two header bytes, so on any bytes, well-formed or not, next()       *)
(* eventually returns None or panics.  An iterator that did not advance    *)
(* would loop forever on a zero-length element.                            *)
(***************************************************************************)
IterationEnds == ~terminated ~> (terminated \/ panic # None)
=============================================================================
