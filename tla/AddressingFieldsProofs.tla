------------------------ MODULE AddressingFieldsProofs ------------------------
(***************************************************************************)
(* Proofs about AddressingFields: the layout address_present_flags         *)
(* resolves, the length len() computes and the bytes write_fields lays     *)
(* out agree, for every Frame Control word and every Repr the caller makes *)
(* consistent with it.                                                      *)
(***************************************************************************)
EXTENDS AddressingFields, SequenceTheorems, TLAPS

(***************************************************************************)
(* Whenever address_present_flags resolves a layout, its address modes are *)
(* the two addressing modes of the Frame Control word: every row of both   *)
(* tables either copies a mode or gives Absent where the mode is Absent.   *)
(***************************************************************************)
LEMMA FlagsModes ==
    ASSUME NEW w, address_present_flags(w) # None
    PROVE  /\ address_present_flags(w).dst_mode = FC!dst_addressing_mode(w)
           /\ address_present_flags(w).src_mode = FC!src_addressing_mode(w)
           /\ address_present_flags(w).dst_pan_id \in BOOLEAN
           /\ address_present_flags(w).src_pan_id \in BOOLEAN
<1> DEFINE d == FC!dst_addressing_mode(w)
           s == FC!src_addressing_mode(w)
           c == FC!pan_id_compression(w)
           v == FC!frame_version(w)
<1>0. c \in BOOLEAN
  BY DEF FC!pan_id_compression
<1>1. CASE v \in {"Ieee802154_2003", "Ieee802154_2006"}
  BY <1>0, <1>1 DEF address_present_flags, Flags
<1>2. CASE v = "Ieee802154_2020"
  BY <1>0, <1>2 DEF address_present_flags, Flags
<1>3. CASE v \notin {"Ieee802154_2003", "Ieee802154_2006", "Ieee802154_2020"}
  BY <1>3 DEF address_present_flags
<1>. QED
  BY <1>1, <1>2, <1>3

LEMMA BufAssumption == AddrBufLen \in Nat /\ AddrBufLen >= 20
BY AddressingAssumption
LEMMA PanIdsAssumption == \A p \in PanIds : p \in Nat /\ p < 65536
BY AddressingAssumption
LEMMA ShortAssumption == ShortAddrs \subseteq [1..2 -> Nat]
BY AddressingAssumption
LEMMA ExtAssumption == ExtAddrs \subseteq [1..8 -> Nat]
BY AddressingAssumption
LEMMA NoneAssumption == None \notin Nat
BY AddressingAssumption

(* A function on 1..n is a sequence of length n. *)
LEMMA FunIsSeq ==
    ASSUME NEW n \in Nat, NEW S, NEW s \in [1..n -> S]
    PROVE  s \in Seq(S) /\ Len(s) = n
<1>1. s = [i \in 1..n |-> s[i]]
  OBVIOUS
<1>2. s \in Seq(S)
  BY <1>1, IsASeq
<1>3. DOMAIN s = 1..Len(s) /\ Len(s) \in Nat
  BY <1>2, LenProperties
<1>. QED
  BY <1>2, <1>3

(***************************************************************************)
(* What write_fields emits for a PAN ID: nothing for None, else two bytes  *)
(* that u16::from_le_bytes reads back as the PAN ID.                       *)
(***************************************************************************)
LEMMA PanBytesLen ==
    ASSUME NEW p \in {None} \cup PanIds
    PROVE  /\ PanBytes(p) \in Seq(Nat)
           /\ Len(PanBytes(p)) = IF p = None THEN 0 ELSE 2
           /\ p # None => PanBytes(p)[1] + 256 * PanBytes(p)[2] = p
<1>1. CASE p = None
  BY <1>1, EmptySeq DEF PanBytes
<1>2. CASE p # None
  <2>1. p \in Nat /\ p < 65536
    BY <1>2, PanIdsAssumption
  <2>2. PanBytes(p) = <<p % 256, p \div 256>>
    BY <1>2 DEF PanBytes, FC!to_le_bytes
  <2>3. p % 256 \in Nat /\ p \div 256 \in Nat /\ (p % 256) + 256 * (p \div 256) = p
    BY <2>1
  <2>. QED
    BY <1>2, <2>2, <2>3
<1>. QED
  BY <1>1, <1>2

(* The length of four sequences laid end to end. *)
LEMMA ConcatLen4 ==
    ASSUME NEW a \in Seq(Nat), NEW b \in Seq(Nat), NEW c \in Seq(Nat), NEW d \in Seq(Nat)
    PROVE  /\ a \o b \o c \o d \in Seq(Nat)
           /\ Len(a \o b \o c \o d) = Len(a) + Len(b) + Len(c) + Len(d)
<1>1. a \o b \in Seq(Nat) /\ Len(a \o b) = Len(a) + Len(b)
  BY ConcatProperties
<1>2. a \o b \o c \in Seq(Nat) /\ Len(a \o b \o c) = Len(a) + Len(b) + Len(c)
  BY <1>1, ConcatProperties
<1>. QED
  BY <1>2, ConcatProperties

(***************************************************************************)
(* What write_fields emits for an address: as many bytes as its mode's     *)
(* size(), the mode being a known one.                                     *)
(***************************************************************************)
LEMMA AddrBytesLen ==
    ASSUME NEW a \in {None} \cup Addresses
    PROVE  /\ AddrBytes(a) \in Seq(Nat)
           /\ Len(AddrBytes(a)) = size(ModeOf(a))
           /\ ModeOf(a) \in KnownModes
<1>1. CASE a = None
  BY <1>1 DEF AddrBytes, ModeOf, size, KnownModes
<1>2. CASE a = AbsentAddr
  BY <1>2 DEF AddrBytes, ModeOf, size, KnownModes, AbsentAddr
<1>3. CASE a # None /\ \E b \in ShortAddrs : a = [mode |-> "Short", bytes |-> b]
  <2>1. PICK b \in ShortAddrs : a = [mode |-> "Short", bytes |-> b]
    BY <1>3
  <2>2. b \in [1..2 -> Nat]
    BY ShortAssumption
  <2>3. b \in Seq(Nat) /\ Len(b) = 2
    BY <2>2, FunIsSeq
  <2>. QED
    BY <1>3, <2>1, <2>3 DEF AddrBytes, ModeOf, size, KnownModes
<1>4. CASE a # None /\ \E b \in ExtAddrs : a = [mode |-> "Extended", bytes |-> b]
  <2>1. PICK b \in ExtAddrs : a = [mode |-> "Extended", bytes |-> b]
    BY <1>4
  <2>2. b \in [1..8 -> Nat]
    BY ExtAssumption
  <2>3. b \in Seq(Nat) /\ Len(b) = 8
    BY <2>2, FunIsSeq
  <2>. QED
    BY <1>4, <2>1, <2>3 DEF AddrBytes, ModeOf, size, KnownModes
<1>. QED
  BY <1>1, <1>2, <1>3, <1>4 DEF Addresses

(* Where the first and the third of four sequences laid end to end sit. *)
LEMMA ConcatAt4 ==
    ASSUME NEW a \in Seq(Nat), NEW b \in Seq(Nat), NEW c \in Seq(Nat), NEW d \in Seq(Nat)
    PROVE  /\ \A i \in Nat : 1 <= i /\ i <= Len(a) => (a \o b \o c \o d)[i] = a[i]
           /\ \A i \in Nat : Len(a) + Len(b) < i /\ i <= Len(a) + Len(b) + Len(c)
                 => (a \o b \o c \o d)[i] = c[i - (Len(a) + Len(b))]
<1>1. a \o b \in Seq(Nat) /\ Len(a \o b) = Len(a) + Len(b)
      /\ \A i \in 1..Len(a) + Len(b) : (a \o b)[i] = IF i <= Len(a) THEN a[i] ELSE b[i - Len(a)]
  BY ConcatProperties
<1>2. a \o b \o c \in Seq(Nat) /\ Len(a \o b \o c) = Len(a) + Len(b) + Len(c)
      /\ \A i \in 1..Len(a) + Len(b) + Len(c) :
            (a \o b \o c)[i] = IF i <= Len(a) + Len(b) THEN (a \o b)[i]
                               ELSE c[i - (Len(a) + Len(b))]
  BY <1>1, ConcatProperties
<1>3. \A i \in 1..Len(a) + Len(b) + Len(c) : (a \o b \o c \o d)[i] = (a \o b \o c)[i]
  BY <1>2, ConcatProperties
<1>4. Len(a) \in Nat /\ Len(b) \in Nat /\ Len(c) \in Nat
  BY LenProperties
<1>. QED
  BY <1>1, <1>2, <1>3, <1>4

(* write_fields emits the four parts of a Repr one after another. *)
LEMMA EmittedLen ==
    ASSUME NEW r \in Reprs
    PROVE  Len(Emitted(r)) = Len(PanBytes(r.dst_pan_id)) + Len(AddrBytes(r.dst_address))
                             + Len(PanBytes(r.src_pan_id)) + Len(AddrBytes(r.src_address))
<1>1. PanBytes(r.dst_pan_id) \in Seq(Nat) /\ PanBytes(r.src_pan_id) \in Seq(Nat)
  BY PanBytesLen DEF Reprs
<1>2. AddrBytes(r.dst_address) \in Seq(Nat) /\ AddrBytes(r.src_address) \in Seq(Nat)
  BY AddrBytesLen DEF Reprs
<1>. QED
  BY <1>1, <1>2, ConcatLen4 DEF Emitted

(***************************************************************************)
(* Under a Repr consistent with w, len(w) returns (both modes are known)   *)
(* and equals the number of bytes write_fields emits for the Repr.  The    *)
(* reader counts from the flags and the Frame Control modes, the writer    *)
(* from the Repr; FlagsModes and Consistent tie the two together.          *)
(***************************************************************************)
LEMMA LenIsEmitted ==
    ASSUME NEW w, NEW r \in Reprs, abuf \in [1..AddrBufLen -> Nat],
           Consistent(r, w)
    PROVE  len(w) = Len(Emitted(r))
<1> DEFINE f == address_present_flags(w)
<1>1. f # None
  BY DEF Consistent
<1>2. f.dst_mode = FC!dst_addressing_mode(w) /\ f.src_mode = FC!src_addressing_mode(w)
  BY <1>1, FlagsModes
<1>3. /\ PanBytes(r.dst_pan_id) \in Seq(Nat) /\ PanBytes(r.src_pan_id) \in Seq(Nat)
      /\ Len(PanBytes(r.dst_pan_id)) = IF r.dst_pan_id = None THEN 0 ELSE 2
      /\ Len(PanBytes(r.src_pan_id)) = IF r.src_pan_id = None THEN 0 ELSE 2
  BY PanBytesLen DEF Reprs
<1>4. /\ AddrBytes(r.dst_address) \in Seq(Nat) /\ AddrBytes(r.src_address) \in Seq(Nat)
      /\ Len(AddrBytes(r.dst_address)) = size(ModeOf(r.dst_address))
      /\ Len(AddrBytes(r.src_address)) = size(ModeOf(r.src_address))
      /\ ModeOf(r.dst_address) \in KnownModes /\ ModeOf(r.src_address) \in KnownModes
  BY AddrBytesLen DEF Reprs
<1>5. Len(Emitted(r)) = Len(PanBytes(r.dst_pan_id)) + Len(AddrBytes(r.dst_address))
                        + Len(PanBytes(r.src_pan_id)) + Len(AddrBytes(r.src_address))
  BY EmittedLen
<1>6. /\ f.dst_mode = ModeOf(r.dst_address) /\ f.src_mode = ModeOf(r.src_address)
      /\ f.dst_pan_id = (r.dst_pan_id # None) /\ f.src_pan_id = (r.src_pan_id # None)
  BY DEF Consistent
<1>7. SrcPanOffset(f) \in Nat /\ SrcPanOffset(f) <= 10
  BY <1>4, <1>6 DEF SrcPanOffset, DstAddrOffset, size, KnownModes
<1>8. U16At(abuf, 0) \in Nat /\ U16At(abuf, SrcPanOffset(f)) \in Nat
  BY <1>7, BufAssumption, SMTT(20) DEF U16At
<1>9. /\ (dst_pan_id(abuf, w) # None) = f.dst_pan_id
      /\ (src_pan_id(abuf, w) # None) = f.src_pan_id
  BY <1>1, <1>6, <1>8, NoneAssumption DEF dst_pan_id, src_pan_id
<1>. QED
  BY <1>2, <1>3, <1>4, <1>5, <1>6, <1>9 DEF len

(***************************************************************************)
(* If the addressing region starts with the bytes write_fields emits for a *)
(* Repr consistent with w, then dst_pan_id and src_pan_id read back the    *)
(* Repr's PAN IDs: the offset the reader derives from the flags is the     *)
(* offset the writer's cursor had reached.                                 *)
(***************************************************************************)
Prefix(b, s) == \A i \in Nat : 1 <= i /\ i <= Len(s) => b[i] = s[i]

LEMMA PanIdsReadBack ==
    ASSUME NEW w, NEW r \in Reprs, abuf \in [1..AddrBufLen -> Nat],
           Consistent(r, w), Prefix(abuf, Emitted(r))
    PROVE  dst_pan_id(abuf, w) = r.dst_pan_id /\ src_pan_id(abuf, w) = r.src_pan_id
<1> DEFINE f == address_present_flags(w)
           A == PanBytes(r.dst_pan_id)  B == AddrBytes(r.dst_address)
           C == PanBytes(r.src_pan_id)  D == AddrBytes(r.src_address)
<1>1. f # None
      /\ f.dst_mode = ModeOf(r.dst_address) /\ f.src_mode = ModeOf(r.src_address)
      /\ f.dst_pan_id = (r.dst_pan_id # None) /\ f.src_pan_id = (r.src_pan_id # None)
  BY DEF Consistent
<1>0. A \in Seq(Nat) /\ B \in Seq(Nat) /\ C \in Seq(Nat) /\ D \in Seq(Nat)
  BY PanBytesLen, AddrBytesLen DEF Reprs
<1>2. /\ A \in Seq(Nat) /\ C \in Seq(Nat)
      /\ Len(A) = IF r.dst_pan_id = None THEN 0 ELSE 2
      /\ Len(C) = IF r.src_pan_id = None THEN 0 ELSE 2
      /\ r.dst_pan_id # None => A[1] + 256 * A[2] = r.dst_pan_id
      /\ r.src_pan_id # None => C[1] + 256 * C[2] = r.src_pan_id
  BY PanBytesLen DEF Reprs
<1>3. /\ B \in Seq(Nat) /\ D \in Seq(Nat)
      /\ Len(B) = size(ModeOf(r.dst_address)) /\ Len(D) = size(ModeOf(r.src_address))
  BY AddrBytesLen DEF Reprs
<1>4. Emitted(r) = A \o B \o C \o D /\ Len(Emitted(r)) = Len(A) + Len(B) + Len(C) + Len(D)
  <2>1. Emitted(r) = A \o B \o C \o D
    BY DEF Emitted
  <2>2. Len(A \o B \o C \o D) = Len(A) + Len(B) + Len(C) + Len(D)
    BY <1>0, ConcatLen4
  <2>. QED
    BY <2>1, <2>2
<1>5. SrcPanOffset(f) = Len(A) + Len(B)
  BY <1>1, <1>2, <1>3 DEF SrcPanOffset, DstAddrOffset
<1>6. Len(B) \in Nat
  BY <1>3, LenProperties
<1>7. dst_pan_id(abuf, w) = r.dst_pan_id
  <2>1. CASE r.dst_pan_id = None
    BY <1>1, <2>1 DEF dst_pan_id
  <2>2. CASE r.dst_pan_id # None
    <3>0. Len(A) = 2
      BY <1>2, <2>2
    <3>1. \A i \in Nat : 1 <= i /\ i <= Len(A) => (A \o B \o C \o D)[i] = A[i]
      BY <1>0, ConcatAt4
    <3>2. Emitted(r)[1] = A[1] /\ Emitted(r)[2] = A[2]
      BY <1>4, <3>0, <3>1
    <3>3. Len(Emitted(r)) >= 2
      BY <1>4, <1>6, <3>0, <1>0, LenProperties
    <3>4. abuf[1] = A[1] /\ abuf[2] = A[2]
      BY <3>2, <3>3 DEF Prefix
    <3>5. f # None /\ f.dst_pan_id
      BY <1>1, <2>2
    <3>6. dst_pan_id(abuf, w) = U16At(abuf, 0)
      BY <3>5 DEF dst_pan_id
    <3>. QED
      BY <1>2, <2>2, <3>4, <3>6 DEF U16At
  <2>. QED
    BY <2>1, <2>2
<1>8. src_pan_id(abuf, w) = r.src_pan_id
  <2>1. CASE r.src_pan_id = None
    BY <1>1, <2>1 DEF src_pan_id
  <2>2. CASE r.src_pan_id # None
    <3>0. Len(C) = 2 /\ Len(A) \in Nat /\ Len(D) \in Nat
      BY <1>0, <1>2, <2>2, LenProperties
    <3>1. \A i \in Nat : Len(A) + Len(B) < i /\ i <= Len(A) + Len(B) + Len(C)
             => (A \o B \o C \o D)[i] = C[i - (Len(A) + Len(B))]
      BY <1>0, ConcatAt4
    <3>2. Emitted(r)[Len(A) + Len(B) + 1] = C[1] /\ Emitted(r)[Len(A) + Len(B) + 2] = C[2]
      BY <1>4, <1>6, <3>0, <3>1
    <3>3. abuf[Len(A) + Len(B) + 1] = C[1] /\ abuf[Len(A) + Len(B) + 2] = C[2]
      BY <1>4, <1>6, <3>0, <3>2 DEF Prefix
    <3>4. f # None /\ f.src_pan_id
      BY <1>1, <2>2
    <3>5. src_pan_id(abuf, w) = U16At(abuf, Len(A) + Len(B))
      BY <1>5, <3>4 DEF src_pan_id
    <3>. QED
      BY <1>2, <2>2, <3>3, <3>5 DEF U16At
  <2>. QED
    BY <2>1, <2>2
<1>. QED
  BY <1>7, <1>8

(***************************************************************************)
(* Four ranges laid one after another from offset 0 neither overlap nor   *)
(* leave a gap: they tile the range of their summed widths.                *)
(***************************************************************************)
LEMMA RangesTile ==
    ASSUME NEW a \in Nat, NEW b \in Nat, NEW c \in Nat, NEW d \in Nat
    PROVE  LET R == <<ByteRange(0, a), ByteRange(a, b), ByteRange(a + b, c), ByteRange(a + b + c, d)>> IN
           /\ \A i, j \in 1..4 : i # j => R[i] \cap R[j] = {}
           /\ UNION {R[i] : i \in 1..4} = ByteRange(0, a + b + c + d)
<1> DEFINE R == <<ByteRange(0, a), ByteRange(a, b), ByteRange(a + b, c), ByteRange(a + b + c, d)>>
           Lo == <<0, a, a + b, a + b + c>>
           Hi == <<a, a + b, a + b + c, a + b + c + d>>
<1>1. \A k \in 1..4 : R[k] = {x \in Int : Lo[k] <= x /\ x < Hi[k]}
  <2> SUFFICES ASSUME NEW k \in 1..4 PROVE R[k] = {x \in Int : Lo[k] <= x /\ x < Hi[k]}
    OBVIOUS
  <2>1. k \in {1, 2, 3, 4}
    OBVIOUS
  <2>. QED
    BY <2>1 DEF ByteRange
<1>2. \A i, j \in 1..4 : i < j => Hi[i] <= Lo[j]
  <2> SUFFICES ASSUME NEW i \in 1..4, NEW j \in 1..4, i < j PROVE Hi[i] <= Lo[j]
    OBVIOUS
  <2>1. i \in {1, 2, 3, 4} /\ j \in {1, 2, 3, 4}
    OBVIOUS
  <2>. QED
    BY <2>1
<1>3. \A i, j \in 1..4 : i # j => R[i] \cap R[j] = {}
  BY <1>1, <1>2
<1>4. UNION {R[i] : i \in 1..4} = R[1] \cup R[2] \cup R[3] \cup R[4]
  <2>1. 1..4 = {1, 2, 3, 4}
    OBVIOUS
  <2>. QED
    BY <2>1
<1>5. R[1] \cup R[2] \cup R[3] \cup R[4] = ByteRange(0, a + b + c + d)
  BY <1>1 DEF ByteRange
<1>. QED
  BY <1>3, <1>4, <1>5

(***************************************************************************)
(* For every Frame Control word whose layout resolves and whose len()     *)
(* returns, the accessors' byte ranges tile [0, len()).                    *)
(***************************************************************************)
LEMMA TileForWord ==
    ASSUME NEW w, abuf \in [1..AddrBufLen -> Nat],
           address_present_flags(w) # None, len(w) # Panic
    PROVE  LET f == address_present_flags(w) IN
           /\ \A i, j \in 1..4 : i # j => ReadRanges(f)[i] \cap ReadRanges(f)[j] = {}
           /\ UNION {ReadRanges(f)[i] : i \in 1..4} = ByteRange(0, len(w))
<1> DEFINE f == address_present_flags(w)
           pa == IF f.dst_pan_id THEN 2 ELSE 0
           pb == size(f.dst_mode)
           pc == IF f.src_pan_id THEN 2 ELSE 0
           pd == size(f.src_mode)
<1>1. /\ f.dst_mode = FC!dst_addressing_mode(w) /\ f.src_mode = FC!src_addressing_mode(w)
      /\ f.dst_pan_id \in BOOLEAN /\ f.src_pan_id \in BOOLEAN
  BY FlagsModes
<1>2. f.dst_mode \in KnownModes /\ f.src_mode \in KnownModes
  <2>1. FC!dst_addressing_mode(w) \notin KnownModes \/ FC!src_addressing_mode(w) \notin KnownModes
        => len(w) = Panic
    BY Zenon DEF len
  <2>. QED
    BY <1>1, <2>1
<1>3. pa \in Nat /\ pb \in Nat /\ pc \in Nat /\ pd \in Nat /\ pa <= 2 /\ pb <= 8
  BY <1>1, <1>2 DEF size, KnownModes
<1>4. SrcPanOffset(f) = pa + pb /\ SrcAddrOffset(f) = pa + pb + pc /\ DstAddrOffset(f) = pa
  BY DEF SrcPanOffset, SrcAddrOffset, DstAddrOffset
<1>5. U16At(abuf, 0) \in Nat /\ U16At(abuf, SrcPanOffset(f)) \in Nat
  <2>1. SrcPanOffset(f) \in Nat /\ SrcPanOffset(f) <= 10
    BY <1>3, <1>4
  <2>. QED
    BY <2>1, BufAssumption, SMTT(30) DEF U16At
<1>6. len(w) = pa + pb + pc + pd
  <2>1. (dst_pan_id(abuf, w) # None) = f.dst_pan_id
        /\ (src_pan_id(abuf, w) # None) = f.src_pan_id
    BY <1>1, <1>5, NoneAssumption DEF dst_pan_id, src_pan_id
  <2>. QED
    BY <1>1, <1>2, <2>1 DEF len, pa, pb, pc, pd
<1>7. ReadRanges(f) = <<ByteRange(0, pa), ByteRange(pa, pb), ByteRange(pa + pb, pc),
                        ByteRange(pa + pb + pc, pd)>>
  <2>1. (IF f.dst_pan_id THEN ByteRange(0, 2) ELSE {}) = ByteRange(0, pa)
    <3>1. CASE f.dst_pan_id
      BY <3>1 DEF ByteRange
    <3>2. CASE ~f.dst_pan_id
      BY <3>2 DEF ByteRange
    <3>. QED
      BY <3>1, <3>2
  <2>2. (IF f.src_pan_id THEN ByteRange(pa + pb, 2) ELSE {}) = ByteRange(pa + pb, pc)
    <3>1. CASE f.src_pan_id
      BY <3>1 DEF ByteRange
    <3>2. CASE ~f.src_pan_id
      BY <1>3, <3>2 DEF ByteRange
    <3>. QED
      BY <3>1, <3>2
  <2>. QED
    BY <1>4, <2>1, <2>2 DEF ReadRanges
<1>8. /\ \A i, j \in 1..4 : i # j => ReadRanges(f)[i] \cap ReadRanges(f)[j] = {}
      /\ UNION {ReadRanges(f)[i] : i \in 1..4} = ByteRange(0, pa + pb + pc + pd)
  BY <1>3, <1>7, RangesTile
<1>. QED
  BY <1>6, <1>8

(* write_fields never emits more than two PAN IDs and two extended addresses. *)
LEMMA EmittedBound ==
    ASSUME NEW r \in Reprs
    PROVE  Emitted(r) \in Seq(Nat) /\ Len(Emitted(r)) <= 20
<1>1. /\ PanBytes(r.dst_pan_id) \in Seq(Nat) /\ PanBytes(r.src_pan_id) \in Seq(Nat)
      /\ AddrBytes(r.dst_address) \in Seq(Nat) /\ AddrBytes(r.src_address) \in Seq(Nat)
  BY PanBytesLen, AddrBytesLen DEF Reprs
<1>2. /\ Len(PanBytes(r.dst_pan_id)) <= 2 /\ Len(PanBytes(r.src_pan_id)) <= 2
      /\ Len(AddrBytes(r.dst_address)) <= 8 /\ Len(AddrBytes(r.src_address)) <= 8
  <2>1. /\ Len(PanBytes(r.dst_pan_id)) = IF r.dst_pan_id = None THEN 0 ELSE 2
        /\ Len(PanBytes(r.src_pan_id)) = IF r.src_pan_id = None THEN 0 ELSE 2
    BY PanBytesLen DEF Reprs
  <2>2. /\ Len(AddrBytes(r.dst_address)) = size(ModeOf(r.dst_address))
        /\ Len(AddrBytes(r.src_address)) = size(ModeOf(r.src_address))
    BY AddrBytesLen DEF Reprs
  <2>. QED
    BY <2>1, <2>2 DEF size
<1>3. Len(Emitted(r)) = Len(PanBytes(r.dst_pan_id)) + Len(AddrBytes(r.dst_address))
                        + Len(PanBytes(r.src_pan_id)) + Len(AddrBytes(r.src_address))
      /\ Emitted(r) \in Seq(Nat)
  BY <1>1, ConcatLen4 DEF Emitted
<1>. QED
  BY <1>2, <1>3

-----------------------------------------------------------------------------
(***************************************************************************)
(* The inductive invariant: the addressing region holds bytes and, once    *)
(* write_fields has run on this frame, starts with what it emitted for the *)
(* Repr last written.  The Frame Control setters change neither; a new     *)
(* frame zeroes the region and forgets the write.                          *)
(***************************************************************************)
IInv ==
    /\ abuf \in [1..AddrBufLen -> Nat]
    /\ written \in Reprs
    /\ writes \in Nat
    /\ writes > 0 => Prefix(abuf, Emitted(written))

LEMMA NoReprInReprs == NoRepr \in Reprs
BY DEF NoRepr, Reprs

LEMMA InitIInv == Init => IInv
BY NoReprInReprs, BufAssumption DEF Init, IInv

LEMMA NextIInv == IInv /\ [Next]_vars => IInv'
<1> SUFFICES ASSUME IInv, [Next]_vars PROVE IInv'
  OBVIOUS
<1>1. ASSUME NEW w \in InitWords, NewFrame(w) PROVE IInv'
  BY <1>1, NoReprInReprs, BufAssumption DEF NewFrame, IInv
<1>2. CASE SetFc
  BY <1>2 DEF SetFc, IInv, Prefix
<1>3. ASSUME NEW r \in Reprs, write_fields(r) PROVE IInv'
  <2> DEFINE E == Emitted(r)
  <2>1. E \in Seq(Nat) /\ Len(E) <= 20
    BY EmittedBound
  <2>2. Len(E) \in Nat /\ E \in [1..Len(E) -> Nat]
    BY <2>1, LenProperties
  <2>3. abuf' = [i \in 1..AddrBufLen |-> IF 0 < i /\ i <= Len(E) THEN E[i] ELSE abuf[i]]
    BY <1>3 DEF write_fields, WriteAt, IInv
  <2>4. abuf' \in [1..AddrBufLen -> Nat]
    BY <2>2, <2>3 DEF IInv
  <2>5. Prefix(abuf', E)
    BY <2>1, <2>2, <2>3, BufAssumption DEF Prefix
  <2>. QED
    BY <1>3, <2>4, <2>5 DEF write_fields, IInv
<1>4. CASE UNCHANGED vars
  BY <1>4 DEF vars, IInv, Prefix
<1>. QED
  BY <1>1, <1>2, <1>3, <1>4 DEF Next

LEMMA IInvSpec == Spec => []IInv
BY InitIInv, NextIInv, PTL DEF Spec

-----------------------------------------------------------------------------
(***************************************************************************)
(* PanIdRoundTrip for every set of PAN IDs and addresses and every buffer  *)
(* size of at least 20 bytes: in every behaviour of setter calls, writes   *)
(* and new frames, once write_fields has written a Repr consistent with    *)
(* the Frame Control word, dst_pan_id and src_pan_id read back its PAN     *)
(* IDs.                                                                    *)
(***************************************************************************)
THEOREM PanIdRoundTripHolds == Spec => []PanIdRoundTrip
<1>1. IInv => PanIdRoundTrip
  BY PanIdsReadBack DEF IInv, PanIdRoundTrip
<1>. QED
  BY <1>1, IInvSpec, PTL

(***************************************************************************)
(* WriteEndsAtLen for every such instance: after a consistent write,       *)
(* AddressingFields::len() is where the write_fields cursor stopped.       *)
(***************************************************************************)
THEOREM WriteEndsAtLenHolds == Spec => []WriteEndsAtLen
<1>1. IInv => WriteEndsAtLen
  BY LenIsEmitted DEF IInv, WriteEndsAtLen
<1>. QED
  BY <1>1, IInvSpec, PTL

(***************************************************************************)
(* AccessorsTileLen for every Frame Control word the frame can hold: the   *)
(* four accessors' byte ranges never overlap and cover [0, len()) exactly. *)
(***************************************************************************)
THEOREM AccessorsTileLenHolds == Spec => []AccessorsTileLen
<1>1. IInv => AccessorsTileLen
  BY TileForWord DEF IInv, AccessorsTileLen
<1>. QED
  BY <1>1, IInvSpec, PTL
=============================================================================
