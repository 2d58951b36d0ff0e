---------------------------- MODULE FrameControl ----------------------------
(***************************************************************************)
(* The IEEE 802.15.4 Frame Control reader/writer of                        *)
(* src/dot15d4-frame/src/frame_control.rs.                                 *)
(*                                                                         *)
(* The state is the two bytes of the frame buffer that the view overlays.  *)
(* Every getter forms the little-endian u16 of those bytes and extracts    *)
(* bits; every setter forms the u16, changes it and writes it back with    *)
(* to_le_bytes.  The variable `call` records the setter that made the last *)
(* step and its argument, so that properties can talk about what a caller  *)
(* asked for and what the buffer then says.                                *)
(***************************************************************************)
EXTENDS Naturals

(***************************************************************************)
(* InitWords: the u16 values the two bytes may hold when the view is       *)
(* built (a received frame, a zeroed buffer).  MaxCalls bounds the number  *)
(* of setter calls made on one view.                                       *)
(***************************************************************************)
CONSTANTS InitWords, MaxCalls

ASSUME InitAssumption ==
    InitWords \subseteq {w \in Nat : w < 65536} /\ MaxCalls \in Nat

VARIABLES buf, call, calls

vars == <<buf, call, calls>>

Byte == 0..255
Word16 == 0..65535

NoCall == [field |-> "none", value |-> "none"]

(* u16::from_le_bytes([b[0], b[1]]) *)
from_le_bytes(b) == b[1] + 256 * b[2]

(* u16::to_le_bytes *)
to_le_bytes(w) == <<w % 256, w \div 256>>

(* (w >> shift) & (2^width - 1) *)
Field(w, shift, width) == (w \div 2^shift) % 2^width

(* (w & !(mask << shift)) | ((v & mask) << shift), mask = 2^width - 1 *)
ClearAndSet(w, shift, width, v) ==
    w - Field(w, shift, width) * 2^shift + (v % 2^width) * 2^shift

(* w |= (b as u16) << shift: sets the bit when b, never clears it *)
OrBit(w, shift, b) ==
    IF b /\ Field(w, shift, 1) = 0 THEN w + 2^shift ELSE w

(***************************************************************************)
(* The enumerations and their Rust discriminants.  A variant without an    *)
(* explicit value takes the previous one plus one: FrameType::Unknown = 8, *)
(* FrameVersion::Unknown = 3, AddressingMode::Unknown = 4.                 *)
(***************************************************************************)
FrameTypeCode ==
    [Beacon |-> 0, Data |-> 1, Ack |-> 2, MacCommand |-> 3,
     Multipurpose |-> 5, FragmentOrFrak |-> 6, Extended |-> 7, Unknown |-> 8]
FrameVersionCode ==
    [Ieee802154_2003 |-> 0, Ieee802154_2006 |-> 1, Ieee802154_2020 |-> 2,
     Unknown |-> 3]
AddressingModeCode == [Absent |-> 0, Short |-> 2, Extended |-> 3, Unknown |-> 4]

FrameTypes == DOMAIN FrameTypeCode
FrameVersions == DOMAIN FrameVersionCode
AddressingModes == DOMAIN AddressingModeCode

(* impl From<u8>: the variant whose code it is, else Unknown *)
FromCode(codes, c) ==
    IF \E v \in DOMAIN codes \ {"Unknown"} : codes[v] = c
    THEN CHOOSE v \in DOMAIN codes \ {"Unknown"} : codes[v] = c
    ELSE "Unknown"

(***************************************************************************)
(* Getters, on the word w = from_le_bytes(buf).                            *)
(***************************************************************************)
frame_type(w) == FromCode(FrameTypeCode, Field(w, 0, 3))
security_enabled(w) == Field(w, 3, 1) = 1
frame_pending(w) == Field(w, 4, 1) = 1
ack_request(w) == Field(w, 5, 1) = 1
pan_id_compression(w) == Field(w, 6, 1) = 1
sequence_number_suppression(w) == Field(w, 8, 1) = 1
information_elements_present(w) == Field(w, 9, 1) = 1
dst_addressing_mode(w) == FromCode(AddressingModeCode, Field(w, 10, 2))
frame_version(w) == FromCode(FrameVersionCode, Field(w, 12, 2))
src_addressing_mode(w) == FromCode(AddressingModeCode, Field(w, 14, 2))

(* What every getter returns on the word w, by field name. *)
View(w) ==
    [frame_type |-> frame_type(w),
     security_enabled |-> security_enabled(w),
     frame_pending |-> frame_pending(w),
     ack_request |-> ack_request(w),
     pan_id_compression |-> pan_id_compression(w),
     sequence_number_suppression |-> sequence_number_suppression(w),
     information_elements_present |-> information_elements_present(w),
     dst_addressing_mode |-> dst_addressing_mode(w),
     frame_version |-> frame_version(w),
     src_addressing_mode |-> src_addressing_mode(w)]

Fields == DOMAIN View(0)

(* The values each setter takes. *)
ArgsOf(f) ==
    CASE f = "frame_type" -> FrameTypes
      [] f \in {"dst_addressing_mode", "src_addressing_mode"} -> AddressingModes
      [] f = "frame_version" -> FrameVersions
      [] OTHER -> BOOLEAN

(***************************************************************************)
(* Setters: one action per method.  Each reads the word, changes it and    *)
(* writes both bytes back.                                                 *)
(***************************************************************************)
Store(w, f, v) == /\ calls < MaxCalls
                  /\ buf' = to_le_bytes(w)
                  /\ call' = [field |-> f, value |-> v]
                  /\ calls' = calls + 1

set_frame_type(ft) ==
    Store(ClearAndSet(from_le_bytes(buf), 0, 3, FrameTypeCode[ft]), "frame_type", ft)
set_security_enabled(b) ==
    Store(OrBit(from_le_bytes(buf), 3, b), "security_enabled", b)
set_frame_pending(b) ==
    Store(OrBit(from_le_bytes(buf), 4, b), "frame_pending", b)
set_ack_request(b) ==
    Store(OrBit(from_le_bytes(buf), 5, b), "ack_request", b)
set_pan_id_compression(b) ==
    Store(OrBit(from_le_bytes(buf), 6, b), "pan_id_compression", b)
set_sequence_number_suppression(b) ==
    Store(OrBit(from_le_bytes(buf), 8, b), "sequence_number_suppression", b)
set_information_elements_present(b) ==
    Store(OrBit(from_le_bytes(buf), 9, b), "information_elements_present", b)
set_dst_addressing_mode(m) ==
    Store(ClearAndSet(from_le_bytes(buf), 10, 2, AddressingModeCode[m]),
          "dst_addressing_mode", m)
set_src_addressing_mode(m) ==
    Store(ClearAndSet(from_le_bytes(buf), 14, 2, AddressingModeCode[m]),
          "src_addressing_mode", m)
(* Mutant: the frame version cleared and written one bit too low. *)
set_frame_version_shift11(v) ==
    Store(ClearAndSet(from_le_bytes(buf), 11, 2, FrameVersionCode[v]),
          "frame_version", v)

set_frame_version(v) ==
    Store(ClearAndSet(from_le_bytes(buf), 12, 2, FrameVersionCode[v]),
          "frame_version", v)

(***************************************************************************)
(* FrameControl::new_unchecked(buffer): a view over another frame buffer,  *)
(* whose first two bytes hold one of InitWords.  (FrameControl::new only   *)
(* adds the length check that the two bytes exist.)                        *)
(***************************************************************************)
new_unchecked(w) == /\ buf' = to_le_bytes(w)
                    /\ call' = NoCall
                    /\ calls' = 0

Init == /\ buf \in {to_le_bytes(w) : w \in InitWords}
        /\ call = NoCall
        /\ calls = 0

Next ==
    \/ \E w \in InitWords : new_unchecked(w)
    \/ \E ft \in FrameTypes : set_frame_type(ft)
    \/ \E b \in BOOLEAN : set_security_enabled(b)
    \/ \E b \in BOOLEAN : set_frame_pending(b)
    \/ \E b \in BOOLEAN : set_ack_request(b)
    \/ \E b \in BOOLEAN : set_pan_id_compression(b)
    \/ \E b \in BOOLEAN : set_sequence_number_suppression(b)
    \/ \E b \in BOOLEAN : set_information_elements_present(b)
    \/ \E m \in AddressingModes : set_dst_addressing_mode(m)
    \/ \E m \in AddressingModes : set_src_addressing_mode(m)
    \/ \E v \in FrameVersions : set_frame_version(v)

Spec == Init /\ [][Next]_vars

-----------------------------------------------------------------------------
(* The buffer holds two bytes and the last call names a field. *)
TypeOK == /\ buf \in [1..2 -> Byte]
          /\ calls \in 0..MaxCalls
          /\ \/ call.field = "none" /\ call = NoCall
             \/ call.field \in Fields /\ call.value \in ArgsOf(call.field)

(***************************************************************************)
(* Spec 4.1: "Setting a field never disturbs any other field."  Every      *)
(* setter step leaves the value every other getter returns unchanged: the  *)
(* masks and shifts of the ten setters and ten getters must agree.         *)
(***************************************************************************)
NonInterferenceStep ==
    call'.field \in Fields =>
        \A f \in Fields \ {call'.field} :
            View(from_le_bytes(buf'))[f] = View(from_le_bytes(buf))[f]

NonInterference == [][NonInterferenceStep]_vars

(***************************************************************************)
(* Spec 4.1: setters "clear the field's bit mask, OR in the shifted value".*)
(* After set_X(v), for v a value the caller may pass (not Unknown), the    *)
(* getter X returns v.  The boolean setters only OR their bit in, so       *)
(* set_X(false) on a buffer whose bit is set leaves it set.                *)
(***************************************************************************)
SetThenGet ==
    /\ call.field \in Fields
    /\ ArgsOf(call.field) = BOOLEAN \/ call.value # "Unknown"
    => View(from_le_bytes(buf))[call.field] = call.value
=============================================================================
