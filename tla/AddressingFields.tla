--------------------------- MODULE AddressingFields ---------------------------
(***************************************************************************)
(* The Addressing Fields reader/writer of src/dot15d4/src/frame/addressing.rs *)
(* composed with the Frame Control view it reads its layout from.          *)
(*                                                                         *)
(* A frame buffer holds the Frame Control word (`fc`, two bytes) and the   *)
(* addressing region after it (`abuf`).  An emitter calls Frame Control    *)
(* setters and AddressingFields::write_fields in any order; a reader calls *)
(* the four accessors, each of which re-runs address_present_flags on the *)
(* current Frame Control word.  `written` is the AddressingFieldsRepr last *)
(* given to write_fields.                                                  *)
(*                                                                         *)
(* Only the four Frame Control setters that address_present_flags reads    *)
(* (PAN ID compression, both addressing modes, frame version) are actions  *)
(* here; FrameControl's NonInterference shows that the other setters leave *)
(* these four getters unchanged.                                           *)
(***************************************************************************)
EXTENDS Naturals, Sequences

CONSTANTS
    InitWords,    \* Frame Control words a frame buffer may start with
    MaxCalls,     \* bound on Frame Control setter calls per frame
    MaxWrites,    \* bound on write_fields calls per frame
    AddrBufLen,   \* bytes of the buffer the addressing view is given
    PanIds,       \* u16 PAN IDs a Repr may carry
    ShortAddrs,   \* 2-byte short addresses (as_bytes order)
    ExtAddrs,     \* 8-byte extended addresses (as_bytes order)
    None,         \* Option::None
    Panic         \* the outcome of a call that panics

ASSUME AddressingAssumption ==
    /\ MaxWrites \in Nat
    /\ AddrBufLen \in Nat /\ AddrBufLen >= 20
    /\ PanIds \subseteq {v \in Nat : v < 65536}
    /\ ShortAddrs \subseteq [1..2 -> {v \in Nat : v < 256}]
    /\ ExtAddrs \subseteq [1..8 -> {v \in Nat : v < 256}]
    /\ None \notin Nat

VARIABLES fc, call, calls, abuf, written, writes

FC == INSTANCE FrameControl WITH buf <- fc

vars == <<fc, call, calls, abuf, written, writes>>

(* The u16 Frame Control word the accessors read. *)
Word == FC!from_le_bytes(fc)

(***************************************************************************)
(* Address (addressing.rs 8-71): the mode tag and the bytes as_bytes()     *)
(* returns; len() is the number of bytes.                                  *)
(***************************************************************************)
AbsentAddr == [mode |-> "Absent", bytes |-> <<>>]
Addresses ==
    {AbsentAddr}
    \cup {[mode |-> "Short", bytes |-> b] : b \in ShortAddrs}
    \cup {[mode |-> "Extended", bytes |-> b] : b \in ExtAddrs}

(* AddressingMode::size() *)
size(m) == CASE m = "Short" -> 2 [] m = "Extended" -> 8 [] OTHER -> 0

(* raw.reverse() *)
reverse(s) == [i \in 1..Len(s) |-> s[Len(s) + 1 - i]]

(* AddressingFieldsRepr *)
Reprs == [dst_pan_id : {None} \cup PanIds, src_pan_id : {None} \cup PanIds,
          dst_address : {None} \cup Addresses, src_address : {None} \cup Addresses]
NoRepr == [dst_pan_id |-> None, src_pan_id |-> None,
           dst_address |-> None, src_address |-> None]

Flags(dp, dm, sp, sm) ==
    [dst_pan_id |-> dp, dst_mode |-> dm, src_pan_id |-> sp, src_mode |-> sm]

(***************************************************************************)
(* address_present_flags: which of dst PAN ID, dst address, src PAN ID and *)
(* src address are present, or None.                                       *)
(***************************************************************************)
address_present_flags(w) ==
    LET d == FC!dst_addressing_mode(w)
        s == FC!src_addressing_mode(w)
        c == FC!pan_id_compression(w)
    IN
    CASE FC!frame_version(w) \in {"Ieee802154_2003", "Ieee802154_2006"} ->
           CASE d = "Absent" -> Flags(FALSE, "Absent", TRUE, s)
             [] s = "Absent" -> Flags(TRUE, d, FALSE, "Absent")
             [] OTHER -> Flags(TRUE, d, ~c, s)
      [] FC!frame_version(w) = "Ieee802154_2020" ->
           CASE d = "Absent" /\ s = "Absent" -> Flags(c, "Absent", FALSE, "Absent")
             [] s = "Absent" -> Flags(~c, d, FALSE, "Absent")
             [] d = "Absent" -> Flags(FALSE, "Absent", TRUE, s)
             [] d = "Extended" /\ s = "Extended" ->
                  Flags(~c, "Extended", FALSE, "Extended")
             [] d \in {"Short", "Extended"} /\ s \in {"Short", "Extended"} ->
                  Flags(TRUE, d, ~c, s)
             [] OTHER -> None
      [] OTHER -> None

(* Offsets each accessor computes from the flags, 0-based. *)
DstAddrOffset(f) == IF f.dst_pan_id THEN 2 ELSE 0

(* Mutant: src_pan_id forgets to skip the destination address. *)
SrcPanOffsetNoDstAddr(f) == DstAddrOffset(f)

SrcPanOffset(f) == DstAddrOffset(f) + size(f.dst_mode)

(* Mutant: src_address forgets to skip the source PAN ID. *)
SrcAddrOffsetNoSrcPan(f) == SrcPanOffset(f)

SrcAddrOffset(f) == SrcPanOffset(f) + (IF f.src_pan_id THEN 2 ELSE 0)

(* The n bytes of b at 0-based offset off. *)
Slice(b, off, n) == [i \in 1..n |-> b[off + i]]

(* u16::from_le_bytes of the two bytes at off *)
U16At(b, off) == b[off + 1] + 256 * b[off + 2]

ReadAddress(b, off, m) ==
    CASE m = "Absent" -> AbsentAddr
      [] m \in {"Short", "Extended"} ->
           [mode |-> m, bytes |-> reverse(Slice(b, off, size(m)))]
      [] OTHER -> None

dst_pan_id(b, w) ==
    LET f == address_present_flags(w) IN
    IF f # None /\ f.dst_pan_id THEN U16At(b, 0) ELSE None

src_pan_id(b, w) ==
    LET f == address_present_flags(w) IN
    IF f # None /\ f.src_pan_id THEN U16At(b, SrcPanOffset(f)) ELSE None

dst_address(b, w) ==
    LET f == address_present_flags(w) IN
    IF f # None THEN ReadAddress(b, DstAddrOffset(f), f.dst_mode) ELSE None

src_address(b, w) ==
    LET f == address_present_flags(w) IN
    IF f # None THEN ReadAddress(b, SrcAddrOffset(f), f.src_mode) ELSE None

(* AddressingFieldsRepr::parse *)
parse(b, w) == [dst_pan_id |-> dst_pan_id(b, w), src_pan_id |-> src_pan_id(b, w),
                dst_address |-> dst_address(b, w), src_address |-> src_address(b, w)]

(***************************************************************************)
(* AddressingFields::len: the widths of the present PAN IDs plus the sizes *)
(* of the two addressing modes as Frame Control gives them; an Unknown     *)
(* mode reaches unreachable!(), a panic.                                   *)
(***************************************************************************)
KnownModes == {"Absent", "Short", "Extended"}

(* Mutant: the source address counted with the destination mode's size. *)
len_dst_size_twice(w) ==
    LET dm == FC!dst_addressing_mode(w)
        sm == FC!src_addressing_mode(w)
    IN  IF dm \notin KnownModes \/ sm \notin KnownModes THEN Panic
        ELSE (IF dst_pan_id(abuf, w) # None THEN 2 ELSE 0) + size(dm)
             + (IF src_pan_id(abuf, w) # None THEN 2 ELSE 0) + size(dm)

len(w) ==
    LET dm == FC!dst_addressing_mode(w)
        sm == FC!src_addressing_mode(w)
    IN  IF dm \notin KnownModes \/ sm \notin KnownModes THEN Panic
        ELSE (IF dst_pan_id(abuf, w) # None THEN 2 ELSE 0) + size(dm)
             + (IF src_pan_id(abuf, w) # None THEN 2 ELSE 0) + size(sm)

(***************************************************************************)
(* write_fields: each present field of the Repr at an advancing cursor;    *)
(* PAN IDs with to_le_bytes, addresses as as_bytes() gives them.           *)
(***************************************************************************)
WriteAt(b, off, bytes) ==
    [i \in DOMAIN b |-> IF off < i /\ i <= off + Len(bytes) THEN bytes[i - off]
                        ELSE b[i]]

PanBytes(id) == IF id = None THEN <<>> ELSE FC!to_le_bytes(id)
AddrBytes(a) == IF a = None THEN <<>> ELSE a.bytes

(* The bytes write_fields lays out, in order, and where its cursor ends. *)
Emitted(r) == PanBytes(r.dst_pan_id) \o AddrBytes(r.dst_address)
              \o PanBytes(r.src_pan_id) \o AddrBytes(r.src_address)

write_fields(r) ==
    /\ writes < MaxWrites
    /\ abuf' = WriteAt(abuf, 0, Emitted(r))
    /\ written' = r
    /\ writes' = writes + 1
    /\ UNCHANGED <<fc, call, calls>>

(* A new frame buffer: a Frame Control word and a zeroed addressing region. *)
NewFrame(w) ==
    /\ FC!new_unchecked(w)
    /\ abuf' = [i \in 1..AddrBufLen |-> 0]
    /\ written' = NoRepr
    /\ writes' = 0

SetFc ==
    /\ \/ \E b \in BOOLEAN : FC!set_pan_id_compression(b)
       \/ \E m \in FC!AddressingModes : FC!set_dst_addressing_mode(m)
       \/ \E m \in FC!AddressingModes : FC!set_src_addressing_mode(m)
       \/ \E v \in FC!FrameVersions : FC!set_frame_version(v)
    /\ UNCHANGED <<abuf, written, writes>>

Init == /\ FC!Init
        /\ abuf = [i \in 1..AddrBufLen |-> 0]
        /\ written = NoRepr
        /\ writes = 0

Next == \/ \E w \in InitWords : NewFrame(w)
        \/ SetFc
        \/ \E r \in Reprs : write_fields(r)

Spec == Init /\ [][Next]_vars

-----------------------------------------------------------------------------
TypeOK ==
    /\ FC!TypeOK
    /\ abuf \in [1..AddrBufLen -> 0..255]
    /\ written \in Reprs
    /\ writes \in 0..MaxWrites

(* The addressing mode a Repr's address stands for in the Frame Control. *)
ModeOf(a) == IF a = None THEN "Absent" ELSE a.mode

(***************************************************************************)
(* The caller's side of the write_fields contract (spec 4.2): the Repr has *)
(* exactly the fields that address_present_flags says the current Frame    *)
(* Control word lays out.                                                  *)
(***************************************************************************)
Consistent(r, w) ==
    LET f == address_present_flags(w) IN
    /\ f # None
    /\ (r.dst_pan_id # None) = f.dst_pan_id
    /\ (r.src_pan_id # None) = f.src_pan_id
    /\ ModeOf(r.dst_address) = f.dst_mode
    /\ ModeOf(r.src_address) = f.src_mode

(***************************************************************************)
(* PAN IDs round-trip: once write_fields has written a Repr that agrees    *)
(* with the Frame Control word as it now stands (the setters may have run  *)
(* before or after the write), dst_pan_id and src_pan_id read back the     *)
(* PAN IDs written.  The reader and the writer compute their offsets       *)
(* separately: the reader from the flags, the writer from the Repr.        *)
(***************************************************************************)
PanIdRoundTrip ==
    writes > 0 /\ Consistent(written, Word) =>
        /\ dst_pan_id(abuf, Word) = written.dst_pan_id
        /\ src_pan_id(abuf, Word) = written.src_pan_id

(***************************************************************************)
(* Spec 4.2: "Total length = sum of present-field widths; this value is    *)
(* what an outer frame container uses to locate the next field."  After a  *)
(* write of a Repr consistent with the Frame Control word, len() is where  *)
(* the write_fields cursor stopped.                                        *)
(***************************************************************************)
WriteEndsAtLen ==
    writes > 0 /\ Consistent(written, Word) => len(Word) = Len(Emitted(written))

(***************************************************************************)
(* Spec 4.2: the addresses are stored byte-reversed and "the codec reverses *)
(* the raw bytes read/written".  After a consistent write, dst_address and *)
(* src_address read back the addresses written (None written as Absent).   *)
(***************************************************************************)
AsRead(a) == IF a = None THEN AbsentAddr ELSE a

AddressRoundTrip ==
    writes > 0 /\ Consistent(written, Word) =>
        /\ dst_address(abuf, Word) = AsRead(written.dst_address)
        /\ src_address(abuf, Word) = AsRead(written.src_address)

(***************************************************************************)
(* The four accessors, each computing its own offset, read byte ranges     *)
(* that tile the region [0, len()) exactly: no two overlap, none reaches   *)
(* past len(), and no byte below len() is left unread.  Checked for every *)
(* Frame Control word whose layout resolves and whose len() returns.       *)
(***************************************************************************)
ByteRange(off, n) == off..(off + n - 1)

ReadRanges(f) ==
    <<IF f.dst_pan_id THEN ByteRange(0, 2) ELSE {},
      ByteRange(DstAddrOffset(f), size(f.dst_mode)),
      IF f.src_pan_id THEN ByteRange(SrcPanOffset(f), 2) ELSE {},
      ByteRange(SrcAddrOffset(f), size(f.src_mode))>>

AccessorsTileLen ==
    LET f == address_present_flags(Word) IN
    f # None /\ len(Word) # Panic =>
        /\ \A i, j \in 1..4 : i # j => ReadRanges(f)[i] \cap ReadRanges(f)[j] = {}
        /\ UNION {ReadRanges(f)[i] : i \in 1..4} = ByteRange(0, len(Word))
=============================================================================
