----------------------- MODULE TschSlotframeLinkProofs -----------------------
(***************************************************************************)
(* Proofs about TschSlotframeLink: on the bytes of a Slotframe and Link IE *)
(* content with at least one slotframe and one link per slotframe, no call *)
(* of the reader panics, the slotframe iterator yields min(count,          *)
(* slotframes) descriptors at their offsets and every descriptor and link  *)
(* reads back what was encoded.                                            *)
(***************************************************************************)
EXTENDS TschSlotframeLink, SequenceTheorems, TLAPS

(* A content the hypothesis of the theorem admits: the bytes b lay out r. *)
WF(r, b) ==
    /\ r.count \in Nat
    /\ r.slotframes \in Seq(SfRecs) /\ Len(r.slotframes) >= 1
    /\ \A i \in 1..Len(r.slotframes) : Len(r.slotframes[i].links) >= 1
    /\ b \in Seq(Nat)
    /\ LaidOut(r, b)

LEMMA WFOfContent ==
    ASSUME WellFormedContents(Contents), NEW c \in Contents, c.src # Malformed
    PROVE  WF(c.src, c.bytes)
BY DEF WellFormedContents, WF

(* A little-endian u16 laid out at p reads back. *)
LEMMA U16ReadBack ==
    ASSUME NEW b, NEW p, NEW v \in Nat, HoldsU16(b, p, v)
    PROVE  U16At(b, p) = v
<1>1. (v % 256) + 256 * (v \div 256) = v
  OBVIOUS
<1>. QED
  BY <1>1 DEF HoldsU16, U16At

(***************************************************************************)
(* What the layout says of the i-th slotframe descriptor: where it starts  *)
(* and ends, and that its handle, size and links count read back.          *)
(***************************************************************************)
LEMMA SfFacts ==
    ASSUME NEW r, NEW b, WF(r, b), NEW i \in 1..Len(r.slotframes)
    PROVE  /\ r.slotframes[i] \in SfRecs
           /\ Len(r.slotframes[i].links) \in Nat /\ Len(r.slotframes[i].links) >= 1
           /\ r.slotframes[i].at = (IF i = 1 THEN 1 ELSE SfEnd(r.slotframes[i - 1]))
           /\ SfEnd(r.slotframes[i]) \in Nat /\ SfEnd(r.slotframes[i]) <= Len(b)
           /\ b[r.slotframes[i].at + 1] = r.slotframes[i].handle
           /\ U16At(b, r.slotframes[i].at + 1) = r.slotframes[i].size
           /\ b[r.slotframes[i].at + 4] = Len(r.slotframes[i].links)
<1> DEFINE sf == r.slotframes[i]
<1>1. sf \in SfRecs /\ Len(sf.links) >= 1
  BY DEF WF
<1>2. sf.at \in Nat /\ sf.size \in Nat /\ Len(sf.links) \in Nat
  BY <1>1, LenProperties DEF SfRecs
<1>3. SfEnd(sf) \in Nat
  BY <1>2 DEF SfEnd
<1>4. /\ sf.at = (IF i = 1 THEN 1 ELSE SfEnd(r.slotframes[i - 1]))
      /\ SfEnd(sf) <= Len(b)
      /\ b[sf.at + 1] = sf.handle
      /\ HoldsU16(b, sf.at + 1, sf.size)
      /\ b[sf.at + 4] = Len(sf.links)
  BY DEF WF, LaidOut
<1>5. U16At(b, sf.at + 1) = sf.size
  BY <1>2, <1>4, U16ReadBack
<1>. QED
  BY <1>1, <1>2, <1>3, <1>4, <1>5

(* The links count byte of the i-th descriptor reads back. *)
LEMMA SfLinkCount ==
    ASSUME NEW r, NEW b, WF(r, b), NEW i \in 1..Len(r.slotframes)
    PROVE  b[r.slotframes[i].at + 4] = Len(r.slotframes[i].links)
BY DEF WF, LaidOut

(* The handle, size and links count of the i-th descriptor read back. *)
LEMMA SfFields ==
    ASSUME NEW r, NEW b, WF(r, b), NEW i \in 1..Len(r.slotframes)
    PROVE  /\ b[r.slotframes[i].at + 1] = r.slotframes[i].handle
           /\ U16At(b, r.slotframes[i].at + 1) = r.slotframes[i].size
           /\ b[r.slotframes[i].at + 4] = Len(r.slotframes[i].links)
<1>1. b[r.slotframes[i].at + 1] = r.slotframes[i].handle
  BY SfFacts
<1>2. U16At(b, r.slotframes[i].at + 1) = r.slotframes[i].size
  BY SfFacts
<1>3. b[r.slotframes[i].at + 4] = Len(r.slotframes[i].links)
  BY SfLinkCount
<1>. QED
  BY <1>1, <1>2, <1>3

(* The link the reader decodes from the 5 bytes of link k of sf. *)
LinkRead(b, sf, k) ==
    [timeslot |-> U16At(b, LinkAt(sf, k)),
     channel_offset |-> U16At(b, LinkAt(sf, k) + 2),
     options |-> b[LinkAt(sf, k) + 5]]

(* The k-th link of the i-th slotframe reads back. *)
LEMMA LinkFacts ==
    ASSUME NEW r, NEW b, NEW i \in Nat, NEW k \in Nat, WF(r, b),
           1 <= i, i <= Len(r.slotframes),
           1 <= k, k <= Len(r.slotframes[i].links)
    PROVE  LinkRead(b, r.slotframes[i], k) = r.slotframes[i].links[k]
<1> DEFINE sf == r.slotframes[i]
<1>0. i \in 1..Len(r.slotframes) /\ k \in 1..Len(sf.links)
  OBVIOUS
<1>1. sf.links[k] \in LinkRecs
  <2>1. sf \in SfRecs
    BY <1>0 DEF WF
  <2>. QED
    BY <2>1 DEF SfRecs
<1>2. /\ HoldsU16(b, LinkAt(sf, k), sf.links[k].timeslot)
      /\ HoldsU16(b, LinkAt(sf, k) + 2, sf.links[k].channel_offset)
      /\ b[LinkAt(sf, k) + 5] = sf.links[k].options
  BY <1>0 DEF WF, LaidOut
<1>3. /\ U16At(b, LinkAt(sf, k)) = sf.links[k].timeslot
      /\ U16At(b, LinkAt(sf, k) + 2) = sf.links[k].channel_offset
  BY <1>1, <1>2, U16ReadBack DEF LinkRecs
<1>. QED
  BY <1>1, <1>2, <1>3 DEF LinkRead, LinkRecs

(* The last slotframe descriptor ends at the end of the bytes. *)
LEMMA LastEnd ==
    ASSUME NEW r, NEW b, WF(r, b)
    PROVE  Len(b) = SfEnd(r.slotframes[Len(r.slotframes)])
BY DEF WF, LaidOut

(***************************************************************************)
(* from_bits_truncate reads only the five low bits: the reserved bits of   *)
(* an options byte do not change the flags it yields.                      *)
(***************************************************************************)
LEMMA BitLow ==
    ASSUME NEW x \in Nat, NEW d \in {1, 2, 4, 8, 16}
    PROVE  (x \div d) % 2 = ((x % 32) \div d) % 2
<1>1. CASE d = 1
  BY <1>1
<1>2. CASE d = 2
  BY <1>2
<1>3. CASE d = 4
  BY <1>3
<1>4. CASE d = 8
  BY <1>4
<1>5. CASE d = 16
  BY <1>5
<1>. QED
  BY <1>1, <1>2, <1>3, <1>4, <1>5

LEMMA TruncateLow ==
    ASSUME NEW x \in Nat
    PROVE  from_bits_truncate(x) = from_bits_truncate(x % 32)
<1>0. 2^0 = 1 /\ 2^1 = 2 /\ 2^2 = 4 /\ 2^3 = 8 /\ 2^4 = 16
  OBVIOUS
<1>1. \A k \in 1..5 : 2^(k - 1) \in {1, 2, 4, 8, 16}
  <2> TAKE k \in 1..5
  <2>1. k - 1 \in {0, 1, 2, 3, 4}
    OBVIOUS
  <2>. QED
    BY <1>0, <2>1
<1>2. {k \in 1..5 : (x \div 2^(k - 1)) % 2 = 1} = {k \in 1..5 : ((x % 32) \div 2^(k - 1)) % 2 = 1}
  BY <1>1, BitLow
<1>. QED
  BY <1>2 DEF from_bits_truncate


(***************************************************************************)
(* The inductive invariant, one part per iterator.  Sfs and NSf are the    *)
(* encoded slotframes and the number the slotframe iterator should yield. *)
(***************************************************************************)
Sfs == src.slotframes
NSf == Min2(src.count, Len(src.slotframes))

(* The slotframe iterator has yielded the first Len(sfYielded) descriptor  *)
(* offsets, stops exactly when it has yielded NSf of them, and otherwise  *)
(* has its cursor on the next descriptor.                                  *)
SfIterInv ==
    /\ sfYielded \in Seq(Nat) /\ sfOff \in Nat
    /\ sfCount = Len(sfYielded)
    /\ Len(sfYielded) <= NSf
    /\ \A i \in 1..Len(sfYielded) : sfYielded[i] = Sfs[i].at
    /\ sfStarted => sfTerm = (Len(sfYielded) = NSf)
    /\ sfStarted /\ ~sfTerm => SfBase + sfOff = Sfs[Len(sfYielded) + 1].at

(* The last slotframe read is that of a yielded descriptor. *)
SfReadInv ==
    sfRead # None =>
        /\ sfRead.item \in 1..Len(sfYielded)
        /\ sfRead.handle = Sfs[sfRead.item].handle
        /\ sfRead.size = Sfs[sfRead.item].size
        /\ sfRead.links = Len(Sfs[sfRead.item].links)

(* The link iterator of descriptor cur runs over that slotframe's links:   *)
(* it has yielded the offsets of the first Len(lkYielded), 5 bytes apart,  *)
(* and the last link read is one of them.                                  *)
LinkInv ==
    /\ cur = None => lkYielded = <<>>
    /\ cur # None =>
         LET ls == Sfs[cur].links IN
         /\ cur \in 1..Len(Sfs)
         /\ lkStart = Sfs[cur].at + 4
         /\ lkLen = 5 * Len(ls)
         /\ lkYielded \in Seq(Nat)
         /\ Len(lkYielded) <= Len(ls)
         /\ \A j \in 1..Len(lkYielded) : lkYielded[j] = 5 * (j - 1)
         /\ lkOff = 5 * Len(lkYielded)
         /\ lkTerm = (Len(lkYielded) = Len(ls))
         /\ lkRead # None =>
              /\ lkRead.item \in 1..Len(lkYielded)
              /\ lkRead.timeslot = ls[lkRead.item].timeslot
              /\ lkRead.channel_offset = ls[lkRead.item].channel_offset
              /\ lkRead.link_options = from_bits_truncate(ls[lkRead.item].options)

IInv ==
    /\ \E c \in Contents : c.src = src /\ c.bytes = data
    /\ src # Malformed => panic = None /\ SfIterInv /\ SfReadInv /\ LinkInv

(* The content an invariant state reads is well formed when not Malformed. *)
LEMMA WFOfState ==
    ASSUME WellFormedContents(Contents), IInv, src # Malformed
    PROVE  WF(src, data)
<1>1. PICK c \in Contents : c.src = src /\ c.bytes = data
  BY DEF IInv
<1>. QED
  BY <1>1, WFOfContent

(* The record's count and number of slotframes. *)
LEMMA Counts ==
    ASSUME NEW r, NEW b, WF(r, b)
    PROVE  /\ r.count \in Nat /\ Len(r.slotframes) \in Nat /\ Len(r.slotframes) >= 1
           /\ Min2(r.count, Len(r.slotframes)) \in Nat
           /\ Min2(r.count, Len(r.slotframes)) <= Len(r.slotframes)
           /\ (Min2(r.count, Len(r.slotframes)) = 0) = (r.count = 0)
<1>1. r.count \in Nat /\ Len(r.slotframes) \in Nat /\ Len(r.slotframes) >= 1
  BY LenProperties DEF WF
<1>. QED
  BY <1>1 DEF Min2

(* The state new() and Init leave: nothing started, nothing read. *)
LEMMA FreshState ==
    ASSUME WellFormedContents(Contents), NEW c \in Contents, c.src # Malformed,
           src = c.src, data = c.bytes, panic = None,
           sfStarted = FALSE, sfCount = 0, sfOff = 0, sfYielded = <<>>, sfRead = None,
           cur = None, lkYielded = <<>>
    PROVE  IInv
<1>1. WF(src, data)
  BY WFOfContent
<1>2. NSf \in Nat
  BY <1>1, Counts DEF NSf
<1>3. SfIterInv
  BY <1>2, EmptySeq DEF SfIterInv
<1>4. SfReadInv /\ LinkInv
  BY DEF SfReadInv, LinkInv
<1>. QED
  BY <1>3, <1>4 DEF IInv

LEMMA InitIInv ==
    ASSUME WellFormedContents(Contents), Init
    PROVE  IInv
<1>1. PICK c \in Contents : data = c.bytes /\ src = c.src
  BY DEF Init
<1>2. CASE src # Malformed
  BY <1>1, <1>2, FreshState DEF Init
<1>. QED
  BY <1>1, <1>2 DEF IInv


(* new() over a content: a fresh reader. *)
LEMMA NewStep ==
    ASSUME WellFormedContents(Contents), NEW c \in Contents, new(c)
    PROVE  IInv'
<1>1. src' = c.src /\ data' = c.bytes
  BY DEF new
<1>2. CASE c.src # Malformed
  <2>1. WF(src', data')
    BY <1>1, <1>2, WFOfContent
  <2>2. NSf' \in Nat
    BY <2>1, Counts DEF NSf, Sfs
  <2>3. SfIterInv'
    BY <2>2, EmptySeq DEF SfIterInv, new, Reset
  <2>4. SfReadInv' /\ LinkInv'
    BY DEF SfReadInv, LinkInv, new, Reset, ResetLinks
  <2>5. panic' = None
    BY DEF new
  <2>. QED
    BY <1>1, <2>3, <2>4, <2>5 DEF IInv
<1>. QED
  BY <1>1, <1>2 DEF IInv

(* slotframe_descriptors(): the iterator starts on the first descriptor,  *)
(* terminated exactly when the count is 0.                                 *)
LEMMA SfDescStep ==
    ASSUME WellFormedContents(Contents), IInv, slotframe_descriptors
    PROVE  IInv'
<1>1. src' = src /\ data' = data
  BY DEF slotframe_descriptors
<1>2. (\E c \in Contents : c.src = src /\ c.bytes = data)'
  BY <1>1 DEF IInv
<1>3. CASE src # Malformed
  <2>1. WF(src, data)
    BY <1>3, WFOfState
  <2>2. Len(data) # 0 /\ data[1] = src.count
    BY <2>1 DEF WF, LaidOut
  <2>3. /\ sfStarted' = TRUE /\ sfOff' = 0 /\ sfCount' = 0 /\ sfYielded' = <<>>
        /\ sfRead' = None /\ sfTerm' = (src.count = 0)
        /\ cur' = None /\ lkYielded' = <<>> /\ panic' = panic
    BY <2>2 DEF slotframe_descriptors, number_of_slot_frames, ResetLinks
  <2>4. NSf' \in Nat /\ (NSf' = 0) = (src.count = 0)
    BY <1>1, <2>1, Counts DEF NSf
  <2>5. Sfs'[1].at = 1
    <3>1. 1 \in 1..Len(src.slotframes)
      BY <2>1 DEF WF
    <3>2. src.slotframes[1].at = 1
      BY <2>1, <3>1, SfFacts
    <3>. QED
      BY <1>1, <3>2 DEF Sfs
  <2>6. SfIterInv'
    BY <2>3, <2>4, <2>5, EmptySeq DEF SfIterInv, SfBase
  <2>7. SfReadInv' /\ LinkInv'
    BY <2>3 DEF SfReadInv, LinkInv
  <2>. QED
    BY <1>2, <1>3, <2>3, <2>6, <2>7 DEF IInv
<1>. QED
  BY <1>1, <1>2, <1>3 DEF IInv


(***************************************************************************)
(* Where the descriptor after slotframe k+1 starts: at the end of k+1 when *)
(* there is one, which then ends inside the bytes; else k+1 ends them.     *)
(***************************************************************************)
LEMMA NextSf ==
    ASSUME NEW r, NEW b, WF(r, b), NEW k \in Nat, k + 1 \in 1..Len(r.slotframes)
    PROVE  /\ k + 1 = Len(r.slotframes) => SfEnd(r.slotframes[k + 1]) = Len(b)
           /\ k + 1 < Len(r.slotframes) =>
                /\ r.slotframes[k + 2].at = SfEnd(r.slotframes[k + 1])
                /\ SfEnd(r.slotframes[k + 1]) < Len(b)
<1>1. k + 1 = Len(r.slotframes) => SfEnd(r.slotframes[k + 1]) = Len(b)
  BY LastEnd
<1>2. ASSUME k + 1 < Len(r.slotframes)
      PROVE  /\ r.slotframes[k + 2].at = SfEnd(r.slotframes[k + 1])
             /\ SfEnd(r.slotframes[k + 1]) < Len(b)
  <2>1. k + 2 \in 1..Len(r.slotframes) /\ k + 2 # 1 /\ (k + 2) - 1 = k + 1
    BY <1>2
  <2>2. /\ r.slotframes[k + 2] \in SfRecs
        /\ r.slotframes[k + 2].at = (IF k + 2 = 1 THEN 1 ELSE SfEnd(r.slotframes[(k + 2) - 1]))
        /\ SfEnd(r.slotframes[k + 2]) <= Len(b)
    BY <2>1, SfFacts
  <2>3. r.slotframes[k + 2].at = SfEnd(r.slotframes[k + 1])
    BY <2>1, <2>2
  <2>4. r.slotframes[k + 2].at \in Nat /\ Len(r.slotframes[k + 2].links) \in Nat
    BY <2>2, LenProperties DEF SfRecs
  <2>. QED
    BY <2>2, <2>3, <2>4, SMTT(30) DEF SfEnd
<1>. QED
  BY <1>1, <1>2

(* SlotframeDescriptorIterator::next: the descriptor at the cursor is the  *)
(* next encoded one; the cursor moves to the one after it, and the        *)
(* iterator stops exactly when it has yielded NSf descriptors.             *)
LEMMA SfNextStep ==
    ASSUME WellFormedContents(Contents), IInv, sf_next
    PROVE  IInv'
<1>1. src' = src /\ data' = data
  BY DEF sf_next
<1>2. (\E c \in Contents : c.src = src /\ c.bytes = data)'
  BY <1>1 DEF IInv
<1>3. CASE src # Malformed
  <2> DEFINE k == Len(sfYielded)
  <2> DEFINE cs == Sfs[k + 1]
  <2>1. WF(src, data)
    BY <1>3, WFOfState
  <2>2. sfStarted /\ ~sfTerm /\ panic = None
    BY <1>3 DEF sf_next, IInv
  <2>3. /\ k \in Nat /\ k + 1 <= NSf /\ sfOff \in Nat /\ sfCount = k
        /\ sfYielded \in Seq(Nat)
        /\ SfBase + sfOff = cs.at
        /\ \A i \in 1..k : sfYielded[i] = Sfs[i].at
    <3>1. /\ sfYielded \in Seq(Nat) /\ sfOff \in Nat /\ sfCount = k /\ k <= NSf
          /\ SfBase + sfOff = cs.at
          /\ \A i \in 1..k : sfYielded[i] = Sfs[i].at
      BY <1>3, <2>2, Zenon DEF IInv, SfIterInv
    <3>2. k # NSf
      BY <1>3, <2>2, Zenon DEF IInv, SfIterInv
    <3>3. k \in Nat /\ NSf \in Nat
      BY <2>1, <3>1, LenProperties, Counts DEF NSf
    <3>. QED
      BY <3>1, <3>2, <3>3
  <2>4. NSf \in Nat /\ NSf <= Len(Sfs) /\ k + 1 \in 1..Len(Sfs)
    BY <2>1, <2>3, Counts DEF NSf, Sfs
  <2>5. /\ cs \in SfRecs /\ Len(cs.links) \in Nat
        /\ SfEnd(cs) \in Nat /\ SfEnd(cs) <= Len(data)
        /\ data[cs.at + 4] = Len(cs.links)
    <3>1. k + 1 \in 1..Len(src.slotframes)
      BY <2>4 DEF Sfs
    <3>2. src.slotframes[k + 1] \in SfRecs /\ Len(src.slotframes[k + 1].links) \in Nat
      BY <2>1, <3>1, SfFacts
    <3>3. SfEnd(src.slotframes[k + 1]) \in Nat /\ SfEnd(src.slotframes[k + 1]) <= Len(data)
      BY <2>1, <3>1, SfFacts
    <3>4. data[src.slotframes[k + 1].at + 4] = Len(src.slotframes[k + 1].links)
      BY <2>1, <3>1, SfLinkCount
    <3>. QED
      BY <3>2, <3>3, <3>4 DEF Sfs
  <2>6. cs.at \in Nat /\ Len(data) \in Nat
    BY <2>1, <2>5, LenProperties DEF SfRecs, WF
  <2>7. ~(SfDataLen - sfOff < 4)
    BY <2>3, <2>5, <2>6, SMTT(30) DEF SfDataLen, SfBase, SfEnd
  <2>8. desc_len(SfBase + sfOff) = 4 + 5 * Len(cs.links)
    BY <2>3, <2>5 DEF desc_len, links
  <2>9. /\ sfYielded' = Append(sfYielded, SfBase + sfOff)
        /\ sfCount' = sfCount + 1
        /\ sfOff' = sfOff + desc_len(SfBase + sfOff)
        /\ sfTerm' = (sfOff' >= SfDataLen \/ sfCount' >= number_of_slot_frames)
        /\ UNCHANGED <<sfStarted, sfRead, cur, lkStart, lkLen, lkOff, lkTerm, lkYielded, lkRead, panic>>
    BY <2>2, <2>7 DEF sf_next, lkVars
  <2>10. SfBase + sfOff' = SfEnd(cs) /\ sfOff' \in Nat
    <3>0. sfOff' = sfOff + desc_len(SfBase + sfOff)
      BY <2>9
    <3>1. sfOff \in Nat /\ Len(cs.links) \in Nat /\ cs.at \in Nat /\ SfBase + sfOff = cs.at
      BY <2>3, <2>5, <2>6
    <3>2. sfOff' = sfOff + (4 + 5 * Len(cs.links))
      BY <2>8, <3>0, Zenon
    <3>. QED
      BY <3>1, <3>2, SMTT(30) DEF SfBase, SfEnd
  <2>11. /\ sfYielded' \in Seq(Nat) /\ Len(sfYielded') = k + 1
         /\ \A i \in 1..k + 1 : sfYielded'[i] = Sfs[i].at
    BY <2>3, <2>6, <2>9, AppendProperties
  <2>12. (SfEnd(cs) >= Len(data)) = (k + 1 = Len(Sfs))
    <3>1. /\ k + 1 = Len(Sfs) => SfEnd(cs) = Len(data)
          /\ k + 1 < Len(Sfs) => SfEnd(cs) < Len(data)
      BY <2>1, <2>3, <2>4, NextSf DEF Sfs
    <3>. QED
      BY <2>4, <2>5, <2>6, <3>1
  <2>13. number_of_slot_frames = src.count /\ src.count \in Nat
    BY <2>1 DEF number_of_slot_frames, WF, LaidOut
  <2>14. sfTerm' = (k + 1 = NSf)
    <3>1. (sfOff' >= SfDataLen) = (k + 1 = Len(Sfs))
      BY <2>6, <2>10, <2>12 DEF SfDataLen, SfBase
    <3>2. (sfCount' >= number_of_slot_frames) = (k + 1 >= src.count)
      BY <2>3, <2>9, <2>13
    <3>3. ((k + 1 = Len(Sfs)) \/ (k + 1 >= src.count)) = (k + 1 = NSf)
      BY <2>3, <2>4, <2>13 DEF NSf, Min2, Sfs
    <3>. QED
      BY <2>9, <3>1, <3>2, <3>3
  <2>15. ~sfTerm' => SfBase + sfOff' = Sfs[Len(sfYielded') + 1].at
    <3> HAVE ~sfTerm'
    <3>0. k + 1 # NSf
      BY <2>14, Zenon
    <3>1. k + 1 < Len(Sfs)
      BY <2>3, <2>4, <3>0
    <3>. QED
      BY <2>1, <2>3, <2>4, <2>10, <2>11, <3>1, NextSf DEF Sfs
  <2>16. SfIterInv'
    <3>0. NSf' = NSf
      BY <1>1 DEF NSf
    <3>1. sfCount' = Len(sfYielded') /\ Len(sfYielded') <= NSf'
      BY <2>3, <2>9, <2>11, <3>0
    <3>. QED
      BY <1>1, <2>10, <2>11, <2>14, <2>15, <3>1 DEF SfIterInv, Sfs, NSf
  <2>17. SfReadInv'
    BY <1>1, <1>3, <2>3, <2>9, <2>11 DEF IInv, SfReadInv, Sfs
  <2>18. LinkInv'
    BY <1>1, <1>3, <2>9 DEF IInv, LinkInv, Sfs
  <2>. QED
    BY <1>2, <2>2, <2>9, <2>16, <2>17, <2>18 DEF IInv
<1>. QED
  BY <1>1, <1>2, <1>3 DEF IInv


(* A yielded descriptor is an encoded slotframe, at its offset. *)
LEMMA YieldedSf ==
    ASSUME WellFormedContents(Contents), IInv, src # Malformed,
           NEW i \in 1..Len(sfYielded)
    PROVE  /\ i \in 1..Len(Sfs)
           /\ sfYielded[i] = Sfs[i].at
<1>1. WF(src, data)
  BY WFOfState
<1>2. Len(sfYielded) <= NSf /\ sfYielded[i] = Sfs[i].at
  BY DEF IInv, SfIterInv
<1>3. NSf <= Len(Sfs) /\ NSf \in Nat /\ Len(Sfs) \in Nat
  BY <1>1, Counts DEF NSf, Sfs
<1>. QED
  BY <1>2, <1>3

(* Reading a yielded slotframe descriptor returns its encoded fields. *)
LEMMA ReadSfStep ==
    ASSUME WellFormedContents(Contents), IInv, NEW i \in 1..Len(sfYielded), read_slotframe(i)
    PROVE  IInv'
<1>1. /\ UNCHANGED <<data, src, sfStarted, sfOff, sfTerm, sfCount, sfYielded, panic>>
      /\ UNCHANGED <<cur, lkStart, lkLen, lkOff, lkTerm, lkYielded, lkRead>>
  BY DEF read_slotframe, lkVars
<1>2. (\E c \in Contents : c.src = src /\ c.bytes = data)'
  BY <1>1 DEF IInv
<1>3. CASE src # Malformed
  <2>1. WF(src, data)
    BY <1>3, WFOfState
  <2>2. i \in 1..Len(Sfs) /\ sfYielded[i] = Sfs[i].at
    BY <1>3, YieldedSf
  <2>3. /\ data[Sfs[i].at + 1] = Sfs[i].handle
        /\ U16At(data, Sfs[i].at + 1) = Sfs[i].size
        /\ data[Sfs[i].at + 4] = Len(Sfs[i].links)
    <3>1. i \in 1..Len(src.slotframes)
      BY <2>2 DEF Sfs
    <3>. QED
      BY <2>1, <3>1, SfFields DEF Sfs
  <2>4. sfRead' = [item |-> i, handle |-> Sfs[i].handle, size |-> Sfs[i].size,
                   links |-> Len(Sfs[i].links)]
    BY <2>2, <2>3 DEF read_slotframe, links
  <2>5. SfReadInv'
    BY <1>1, <2>4 DEF SfReadInv, Sfs
  <2>6. panic' = None /\ SfIterInv' /\ LinkInv'
    BY <1>1, <1>3 DEF IInv, SfIterInv, LinkInv, Sfs, NSf
  <2>. QED
    BY <1>2, <2>5, <2>6 DEF IInv
<1>. QED
  BY <1>1, <1>2, <1>3 DEF IInv

(* link_descriptors() on a yielded descriptor: a fresh link iterator over *)
(* that slotframe's links.                                                 *)
LEMMA LinkDescStep ==
    ASSUME WellFormedContents(Contents), IInv, NEW i \in 1..Len(sfYielded), link_descriptors(i)
    PROVE  IInv'
<1>1. UNCHANGED <<data, src, sfStarted, sfOff, sfTerm, sfCount, sfYielded, sfRead>>
  BY DEF link_descriptors, sfVars
<1>2. (\E c \in Contents : c.src = src /\ c.bytes = data)'
  BY <1>1 DEF IInv
<1>3. CASE src # Malformed
  <2>1. WF(src, data)
    BY <1>3, WFOfState
  <2>2. i \in 1..Len(Sfs) /\ sfYielded[i] = Sfs[i].at
    BY <1>3, YieldedSf
  <2>3. /\ Sfs[i] \in SfRecs /\ Len(Sfs[i].links) \in Nat /\ Len(Sfs[i].links) >= 1
        /\ SfEnd(Sfs[i]) <= Len(data)
        /\ data[Sfs[i].at + 4] = Len(Sfs[i].links)
    BY <2>1, <2>2, SfFacts DEF Sfs
  <2>4. Sfs[i].at \in Nat
    BY <2>3 DEF SfRecs
  <2>5. ~(sfYielded[i] + 4 + links(sfYielded[i]) * 5 > Len(data))
    BY <2>2, <2>3, <2>4 DEF links, SfEnd
  <2>6. /\ cur' = i /\ lkStart' = Sfs[i].at + 4 /\ lkLen' = 5 * Len(Sfs[i].links)
        /\ lkOff' = 0 /\ lkTerm' = FALSE /\ lkYielded' = <<>> /\ lkRead' = None
        /\ panic' = panic
    BY <2>2, <2>3, <2>5 DEF link_descriptors, links
  <2>7. LinkInv'
    <3>1. lkTerm' = (Len(lkYielded') = Len(Sfs'[cur'].links))
      <4>1. Len(lkYielded') = 0 /\ lkTerm' = FALSE
        BY <2>6
      <4>2. Sfs'[cur'] = Sfs[i]
        BY <1>1, <2>6 DEF Sfs
      <4>3. Len(Sfs[i].links) # 0
        BY <2>3
      <4>. QED
        BY <4>1, <4>2, <4>3
    <3>. QED
      BY <1>1, <2>2, <2>6, <3>1, EmptySeq DEF LinkInv, Sfs
  <2>8. panic' = None /\ SfIterInv' /\ SfReadInv'
    BY <1>1, <1>3, <2>6 DEF IInv, SfIterInv, SfReadInv, Sfs, NSf
  <2>. QED
    BY <1>2, <2>7, <2>8 DEF IInv
<1>. QED
  BY <1>1, <1>2, <1>3 DEF IInv


(* What LinkInv says of a running link iterator, with its slotframe's      *)
(* links count L in Nat.                                                   *)
LEMMA LinkState ==
    ASSUME WellFormedContents(Contents), IInv, src # Malformed, cur # None
    PROVE  /\ cur \in 1..Len(Sfs)
           /\ Len(Sfs[cur].links) \in Nat
           /\ lkStart = Sfs[cur].at + 4 /\ Sfs[cur].at \in Nat
           /\ lkLen = 5 * Len(Sfs[cur].links)
           /\ lkYielded \in Seq(Nat) /\ Len(lkYielded) \in Nat
           /\ Len(lkYielded) <= Len(Sfs[cur].links)
           /\ \A j \in 1..Len(lkYielded) : lkYielded[j] = 5 * (j - 1)
           /\ lkOff = 5 * Len(lkYielded)
           /\ lkTerm = (Len(lkYielded) = Len(Sfs[cur].links))
<1>1. /\ cur \in 1..Len(Sfs)
      /\ lkStart = Sfs[cur].at + 4
      /\ lkLen = 5 * Len(Sfs[cur].links)
      /\ lkYielded \in Seq(Nat)
      /\ Len(lkYielded) <= Len(Sfs[cur].links)
      /\ \A j \in 1..Len(lkYielded) : lkYielded[j] = 5 * (j - 1)
      /\ lkOff = 5 * Len(lkYielded)
      /\ lkTerm = (Len(lkYielded) = Len(Sfs[cur].links))
  BY Zenon DEF IInv, LinkInv
<1>2. WF(src, data)
  BY WFOfState
<1>3. Sfs[cur] \in SfRecs /\ Len(Sfs[cur].links) \in Nat
  BY <1>1, <1>2, SfFacts DEF Sfs
<1>4. Sfs[cur].at \in Nat /\ Len(lkYielded) \in Nat
  BY <1>1, <1>3, LenProperties DEF SfRecs
<1>. QED
  BY <1>1, <1>3, <1>4

(* LinkDescriptorIterator::next: the next link's offset, 5 bytes on; the  *)
(* iterator stops exactly when it has yielded every link.                  *)
LEMMA LinkNextStep ==
    ASSUME WellFormedContents(Contents), IInv, link_next
    PROVE  IInv'
<1>1. /\ UNCHANGED <<data, src, sfStarted, sfOff, sfTerm, sfCount, sfYielded, sfRead>>
      /\ UNCHANGED <<cur, lkStart, lkLen, panic>>
  BY DEF link_next, sfVars
<1>2. (\E c \in Contents : c.src = src /\ c.bytes = data)'
  BY <1>1 DEF IInv
<1>3. CASE src # Malformed
  <2> DEFINE m == Len(lkYielded)
  <2> DEFINE L == Len(Sfs[cur].links)
  <2>1. cur # None /\ ~lkTerm
    BY DEF link_next
  <2>2. /\ cur \in 1..Len(Sfs) /\ L \in Nat
        /\ lkStart = Sfs[cur].at + 4 /\ lkLen = 5 * L
        /\ lkYielded \in Seq(Nat) /\ m \in Nat /\ m <= L
        /\ \A j \in 1..m : lkYielded[j] = 5 * (j - 1)
        /\ lkOff = 5 * m
        /\ lkTerm = (m = L)
    BY <1>3, <2>1, LinkState
  <2>3. m + 1 <= L
    <3>1. m # L
      BY <2>1, <2>2, Zenon
    <3>. QED
      BY <2>2, <3>1
  <2>4. /\ lkYielded' = Append(lkYielded, lkOff)
        /\ lkOff' = lkOff + 5
        /\ lkTerm' = (lkOff' >= lkLen)
        /\ lkRead' = None
    BY DEF link_next
  <2>5. /\ lkYielded' \in Seq(Nat) /\ Len(lkYielded') = m + 1
        /\ \A j \in 1..m + 1 : lkYielded'[j] = 5 * (j - 1)
    <3>1. lkOff \in Nat
      BY <2>2
    <3>2. /\ lkYielded' \in Seq(Nat) /\ Len(lkYielded') = m + 1
          /\ \A j \in 1..m : lkYielded'[j] = lkYielded[j]
          /\ lkYielded'[m + 1] = lkOff
      BY <2>2, <2>4, <3>1, AppendProperties
    <3>3. \A j \in 1..m + 1 : lkYielded'[j] = 5 * (j - 1)
      <4> TAKE j \in 1..m + 1
      <4>1. CASE j <= m
        BY <2>2, <3>2, <4>1
      <4>2. CASE j = m + 1
        BY <2>2, <3>2, <4>2
      <4>. QED
        BY <2>2, <4>1, <4>2
    <3>. QED
      BY <3>2, <3>3
  <2>6. lkOff' = 5 * Len(lkYielded') /\ lkTerm' = (Len(lkYielded') = L)
    BY <2>2, <2>3, <2>4, <2>5
  <2>7. LinkInv'
    BY <1>1, <2>1, <2>2, <2>3, <2>4, <2>5, <2>6 DEF LinkInv, Sfs
  <2>8. panic' = None /\ SfIterInv' /\ SfReadInv'
    BY <1>1, <1>3 DEF IInv, SfIterInv, SfReadInv, Sfs, NSf
  <2>. QED
    BY <1>2, <2>7, <2>8 DEF IInv
<1>. QED
  BY <1>1, <1>2, <1>3 DEF IInv


(* A link offset below the slice's length leaves a whole link of room. *)
LEMMA LinkRoom ==
    ASSUME NEW len, NEW off, NEW n \in Nat, NEW j \in Nat,
           len = 5 * n, off = 5 * (j - 1), j <= n
    PROVE  ~(len - off < 5)
OBVIOUS

(* The links of the slotframe the link iterator runs over read back. *)
LEMMA CurLinks ==
    ASSUME WellFormedContents(Contents), IInv, src # Malformed, cur # None,
           NEW j \in 1..Len(Sfs[cur].links)
    PROVE  LinkRead(data, Sfs[cur], j) = Sfs[cur].links[j]
<1>1. WF(src, data)
  BY WFOfState
<1>2. cur \in Nat /\ 1 <= cur /\ cur <= Len(src.slotframes)
  BY LinkState DEF Sfs
<1>3. j \in Nat /\ 1 <= j /\ j <= Len(src.slotframes[cur].links)
  BY DEF Sfs
<1>5. LinkRead(data, src.slotframes[cur], j) = src.slotframes[cur].links[j]
  BY <1>1, <1>2, <1>3, LinkFacts
<1>. QED
  BY <1>5 DEF Sfs

(* Reading a yielded link descriptor returns its encoded link. *)
LEMMA ReadLinkStep ==
    ASSUME WellFormedContents(Contents), IInv, NEW j \in 1..Len(lkYielded), read_link(j)
    PROVE  IInv'
<1>1. /\ UNCHANGED <<data, src, sfStarted, sfOff, sfTerm, sfCount, sfYielded, sfRead>>
      /\ UNCHANGED <<cur, lkStart, lkLen, lkOff, lkTerm, lkYielded>>
  BY DEF read_link, sfVars
<1>2. (\E c \in Contents : c.src = src /\ c.bytes = data)'
  BY <1>1 DEF IInv
<1>3. CASE src # Malformed
  <2> DEFINE nl == Len(Sfs[cur].links)
  <2> DEFINE lo == lkYielded[j]
  <2>1. cur # None
    <3>1. lkYielded # <<>>
      BY EmptySeq
    <3>. QED
      BY <1>3, <3>1 DEF IInv, LinkInv
  <2>2. /\ cur \in 1..Len(Sfs) /\ nl \in Nat
        /\ lkStart = Sfs[cur].at + 4 /\ Sfs[cur].at \in Nat /\ lkLen = 5 * nl
        /\ Len(lkYielded) \in Nat /\ Len(lkYielded) <= nl
        /\ lo = 5 * (j - 1)
    BY <1>3, <2>1, LinkState
  <2>3. j \in 1..nl /\ ~(lkLen - lo < 5)
    <3>1. j \in Nat /\ 1 <= j /\ j <= Len(lkYielded)
      OBVIOUS
    <3>2. j <= nl
      BY <2>2, <3>1
    <3>3. ~(lkLen - lo < 5)
      BY <2>2, <3>1, <3>2, LinkRoom
    <3>. QED
      BY <3>1, <3>2, <3>3
  <2>4. lkRead' = [item |-> j,
                   timeslot |-> U16At(data, lkStart + lo),
                   channel_offset |-> U16At(data, lkStart + lo + 2),
                   link_options |-> from_bits_truncate(data[lkStart + lo + 5])]
    BY <2>3 DEF read_link
  <2>5. lkStart + lo = LinkAt(Sfs[cur], j)
    BY <2>2 DEF LinkAt
  <2>6. /\ U16At(data, lkStart + lo) = Sfs[cur].links[j].timeslot
        /\ U16At(data, lkStart + lo + 2) = Sfs[cur].links[j].channel_offset
        /\ data[lkStart + lo + 5] = Sfs[cur].links[j].options
    <3>1. WF(src, data) /\ cur \in 1..Len(src.slotframes) /\ j \in 1..Len(src.slotframes[cur].links)
      BY <1>3, <2>2, <2>3, WFOfState DEF Sfs
    <3>2. LinkRead(data, Sfs[cur], j) = Sfs[cur].links[j]
      BY <1>3, <2>1, <2>3, CurLinks
    <3>. QED
      BY <2>5, <3>2 DEF LinkRead
  <2>7. LinkInv'
    <3>1. /\ cur' # None /\ cur' \in 1..Len(Sfs')
          /\ lkStart' = Sfs'[cur'].at + 4
          /\ lkLen' = 5 * Len(Sfs'[cur'].links)
          /\ lkYielded' \in Seq(Nat)
          /\ Len(lkYielded') <= Len(Sfs'[cur'].links)
          /\ \A i \in 1..Len(lkYielded') : lkYielded'[i] = 5 * (i - 1)
          /\ lkOff' = 5 * Len(lkYielded')
          /\ lkTerm' = (Len(lkYielded') = Len(Sfs'[cur'].links))
      <4>1. Sfs' = Sfs
        BY <1>1 DEF Sfs
      <4>2. /\ cur \in 1..Len(Sfs)
            /\ lkStart = Sfs[cur].at + 4
            /\ lkLen = 5 * Len(Sfs[cur].links)
            /\ lkYielded \in Seq(Nat)
            /\ Len(lkYielded) <= Len(Sfs[cur].links)
            /\ \A i \in 1..Len(lkYielded) : lkYielded[i] = 5 * (i - 1)
            /\ lkOff = 5 * Len(lkYielded)
            /\ lkTerm = (Len(lkYielded) = Len(Sfs[cur].links))
        BY <1>3, <2>1, LinkState
      <4>. QED
        BY <1>1, <2>1, <4>1, <4>2
    <3>2. /\ lkRead'.item \in 1..Len(lkYielded')
          /\ lkRead'.timeslot = Sfs'[cur'].links[lkRead'.item].timeslot
          /\ lkRead'.channel_offset = Sfs'[cur'].links[lkRead'.item].channel_offset
          /\ lkRead'.link_options = from_bits_truncate(Sfs'[cur'].links[lkRead'.item].options)
      BY <1>1, <2>4, <2>6 DEF Sfs
    <3>. QED
      BY <3>1, <3>2 DEF LinkInv
  <2>8. panic' = None /\ SfIterInv' /\ SfReadInv'
    BY <1>1, <1>3, <2>3 DEF read_link, IInv, SfIterInv, SfReadInv, Sfs, NSf
  <2>. QED
    BY <1>2, <2>7, <2>8 DEF IInv
<1>. QED
  BY <1>1, <1>2, <1>3 DEF IInv

(* Every step of the reader keeps the inductive invariant. *)
LEMMA NextIInv ==
    ASSUME WellFormedContents(Contents), IInv, [Next]_vars
    PROVE  IInv'
<1>1. CASE \E c \in Contents : new(c)
  BY <1>1, NewStep
<1>2. CASE slotframe_descriptors
  BY <1>2, SfDescStep
<1>3. CASE sf_next
  BY <1>3, SfNextStep
<1>4. CASE \E i \in 1..Len(sfYielded) : read_slotframe(i)
  BY <1>4, ReadSfStep
<1>5. CASE \E i \in 1..Len(sfYielded) : link_descriptors(i)
  BY <1>5, LinkDescStep
<1>6. CASE link_next
  BY <1>6, LinkNextStep
<1>7. CASE \E j \in 1..Len(lkYielded) : read_link(j)
  BY <1>7, ReadLinkStep
<1>8. CASE UNCHANGED vars
  BY <1>8 DEF vars, sfVars, lkVars, IInv, SfIterInv, SfReadInv, LinkInv, Sfs, NSf
<1>. QED
  BY <1>1, <1>2, <1>3, <1>4, <1>5, <1>6, <1>7, <1>8 DEF Next

(* The inductive invariant gives the property the runs check. *)
LEMMA IInvDescriptorsRecovered ==
    ASSUME WellFormedContents(Contents), IInv
    PROVE  DescriptorsRecovered
<1>. SUFFICES ASSUME src # Malformed
              PROVE  /\ panic = None
                     /\ sfStarted /\ sfTerm =>
                          /\ Len(sfYielded) = Min2(src.count, Len(src.slotframes))
                          /\ \A i \in 1..Len(sfYielded) : sfYielded[i] = src.slotframes[i].at
                     /\ sfRead # None =>
                          /\ sfRead.handle = src.slotframes[sfRead.item].handle
                          /\ sfRead.size = src.slotframes[sfRead.item].size
                          /\ sfRead.links = Len(src.slotframes[sfRead.item].links)
                     /\ cur # None =>
                          /\ lkTerm => Len(lkYielded) = Len(src.slotframes[cur].links)
                          /\ lkRead # None =>
                               /\ lkRead.timeslot = src.slotframes[cur].links[lkRead.item].timeslot
                               /\ lkRead.channel_offset =
                                    src.slotframes[cur].links[lkRead.item].channel_offset
                               /\ lkRead.link_options =
                                    from_bits_truncate(src.slotframes[cur].links[lkRead.item].options % 32)
  BY DEF DescriptorsRecovered
<1>1. panic = None /\ SfIterInv /\ SfReadInv /\ LinkInv
  BY DEF IInv
<1>2. sfStarted /\ sfTerm =>
        /\ Len(sfYielded) = Min2(src.count, Len(src.slotframes))
        /\ \A i \in 1..Len(sfYielded) : sfYielded[i] = src.slotframes[i].at
  BY <1>1 DEF SfIterInv, NSf, Sfs
<1>3. sfRead # None =>
        /\ sfRead.handle = src.slotframes[sfRead.item].handle
        /\ sfRead.size = src.slotframes[sfRead.item].size
        /\ sfRead.links = Len(src.slotframes[sfRead.item].links)
  BY <1>1 DEF SfReadInv, Sfs
<1>4. ASSUME cur # None
      PROVE  /\ lkTerm => Len(lkYielded) = Len(src.slotframes[cur].links)
             /\ lkRead # None =>
                  /\ lkRead.timeslot = src.slotframes[cur].links[lkRead.item].timeslot
                  /\ lkRead.channel_offset =
                       src.slotframes[cur].links[lkRead.item].channel_offset
                  /\ lkRead.link_options =
                       from_bits_truncate(src.slotframes[cur].links[lkRead.item].options % 32)
  <2> DEFINE ls == src.slotframes[cur].links
  <2>1. /\ cur \in 1..Len(Sfs) /\ Len(ls) \in Nat
        /\ lkYielded \in Seq(Nat) /\ Len(lkYielded) <= Len(ls)
        /\ lkTerm = (Len(lkYielded) = Len(ls))
    BY <1>1, <1>4, LinkState DEF LinkInv, Sfs
  <2>2. lkTerm => Len(lkYielded) = Len(ls)
    BY <2>1, Zenon
  <2>3. ASSUME lkRead # None
        PROVE  /\ lkRead.timeslot = ls[lkRead.item].timeslot
               /\ lkRead.channel_offset = ls[lkRead.item].channel_offset
               /\ lkRead.link_options = from_bits_truncate(ls[lkRead.item].options % 32)
    <3>1. /\ lkRead.item \in 1..Len(lkYielded)
          /\ lkRead.timeslot = ls[lkRead.item].timeslot
          /\ lkRead.channel_offset = ls[lkRead.item].channel_offset
          /\ lkRead.link_options = from_bits_truncate(ls[lkRead.item].options)
      BY <1>1, <1>4, <2>3 DEF LinkInv, Sfs
    <3>2. lkRead.item \in 1..Len(ls)
      BY <2>1, <3>1, LenProperties
    <3>3. ls \in Seq(LinkRecs)
      <4>1. src.slotframes[cur] \in SfRecs
        BY <2>1, WFOfState DEF WF, Sfs
      <4>. QED
        BY <4>1 DEF SfRecs
    <3>4. ls[lkRead.item].options \in Nat
      <4>1. lkRead.item \in Nat /\ 1 <= lkRead.item /\ lkRead.item <= Len(ls)
        BY <3>2
      <4>2. ls[lkRead.item] \in LinkRecs
        BY <3>3, <4>1, ElementOfSeq
      <4>. QED
        BY <4>2 DEF LinkRecs
    <3>5. from_bits_truncate(ls[lkRead.item].options)
            = from_bits_truncate(ls[lkRead.item].options % 32)
      BY <3>4, TruncateLow
    <3>. QED
      BY <3>1, <3>5
  <2>. QED
    BY <2>2, <2>3
<1>. QED
  BY <1>1, <1>2, <1>3, <1>4

(***************************************************************************)
(* The slotframe and link descriptors of every well-formed content read    *)
(* back: whatever order the caller drives the two iterators and the reads  *)
(* of their descriptors in, the reader never panics, the slotframe         *)
(* iterator yields exactly min(count, #slotframes) descriptors at their    *)
(* encoded offsets, and every slotframe and link read returns its encoded  *)
(* fields (link options up to the five defined flags).                     *)
(***************************************************************************)
THEOREM DescriptorsRecoveredHolds ==
    ASSUME WellFormedContents(Contents)
    PROVE  Spec => []DescriptorsRecovered
<1>1. Init => IInv
  BY InitIInv
<1>2. IInv /\ [Next]_vars => IInv'
  BY NextIInv
<1>3. IInv => DescriptorsRecovered
  BY IInvDescriptorsRecovered
<1>. QED
  BY <1>1, <1>2, <1>3, PTL DEF Spec

=============================================================================
