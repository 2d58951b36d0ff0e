---------------------------- MODULE TschTimeslot ----------------------------
(***************************************************************************)
(* The TSCH Timeslot IE of src/dot15d4/src/frame/ie/nested.rs: the         *)
(* TschTimeslotTimings value (new, default, the twelve setters, emit) and  *)
(* the TschTimeslot reader (timeslot_timings).                             *)
(*                                                                         *)
(* An emitter builds a timings table, changes fields with the setters and  *)
(* emits it into a zeroed buffer of some length; a receiver decodes the    *)
(* buffer.  Durations are whole microseconds (the Duration type of         *)
(* crate::time, an i64 of microseconds).  `sent` is not program state: it  *)
(* records the table that was emitted.                                     *)
(***************************************************************************)
EXTENDS Integers, Sequences

CONSTANTS
    Ids,         \* slot IDs the emitter uses
    GuardTimes,  \* guard times given to TschTimeslotTimings::new (us, > 0)
    Durations,   \* values given to the setters (us)
    BufLens,     \* lengths of the buffers emitted into and decoded
    MaxSets,     \* setter calls on one table
    None

VARIABLES t, sets, buf, sent, decoded, panic

vars == <<t, sets, buf, sent, decoded, panic>>

(* The fields in the order of the wire format, of emit and of the reader. *)
TimingFields ==
    <<"cca_offset", "cca", "tx_offset", "rx_offset", "rx_ack_delay",
      "tx_ack_delay", "rx_wait", "ack_wait", "rx_tx", "max_ack", "max_tx",
      "time_slot_length">>

(* TschTimeslotTimings::DEFAULT_GUARD_TIME *)
DEFAULT_GUARD_TIME == 2200

(* TschTimeslotTimings::new(id, guard_time); Duration / 2 truncates. *)
TimingsNew(id, g) ==
    [id |-> id, cca_offset |-> 1800, cca |-> 128, tx_offset |-> 2120,
     rx_offset |-> 2120 - (g \div 2), rx_ack_delay |-> 800,
     tx_ack_delay |-> 1000, rx_wait |-> g, ack_wait |-> 400, rx_tx |-> 192,
     max_ack |-> 2400, max_tx |-> 4256, time_slot_length |-> 10000]

(* impl Default: new(0, DEFAULT_GUARD_TIME) *)
TimingsDefault == TimingsNew(0, DEFAULT_GUARD_TIME)

(* (d.as_us() as u16).to_le_bytes(): two's complement truncation *)
AsU16(d) == d % 65536
LeBytes(v) == <<v % 256, v \div 256>>

(* u16::from_le_bytes of the bytes at 0-based offset off *)
U16At(b, off) == b[off + 1] + 256 * b[off + 2]

(***************************************************************************)
(* emit into a zeroed buffer of n >= 25 bytes: the ID at 0, then the       *)
(* twelve fields as u16 at 1, 3, ..., 23; the bytes after 25 stay 0.       *)
(***************************************************************************)
EmitBytes(tt, n) ==
    [k \in 1..n |-> IF k = 1 THEN tt.id
                    ELSE IF k <= 25 THEN LeBytes(AsU16(tt[TimingFields[k \div 2]]))[1 + (k % 2)]
                    ELSE 0]

emit(n) ==
    /\ panic = None
    /\ IF n < 25
       THEN panic' = "emit" /\ UNCHANGED <<buf, sent, decoded>>
       ELSE /\ buf' = EmitBytes(t, n) /\ sent' = t /\ decoded' = None
            /\ UNCHANGED panic
    /\ UNCHANGED <<t, sets>>

(***************************************************************************)
(* TschTimeslot::timeslot_timings.  ID 0 gives the default table; any     *)
(* other ID reads eleven u16 fields at 1, 3, ..., 21 and the time slot     *)
(* length at 23 when the data is 25 bytes long, else at 24 from a 3-byte   *)
(* slice ([21..][..3] and [24..][..3] panic on 24..26 bytes).              *)
(***************************************************************************)
(* Mutant: the time slot length read at max_tx's offset (a copy-paste slip). *)
TslOffset_max_tx(n) == IF n = 25 THEN 21 ELSE 24

TslOffset(n) == IF n = 25 THEN 23 ELSE 24

Panics(b) == Len(b) = 0 \/ (b[1] # 0 /\ Len(b) # 25 /\ Len(b) < 27)

(* The offset each field is read at, for data of n bytes. *)
ReadOffset(n) ==
    [cca_offset |-> 1, cca |-> 3, tx_offset |-> 5, rx_offset |-> 7,
     rx_ack_delay |-> 9, tx_ack_delay |-> 11, rx_wait |-> 13, ack_wait |-> 15,
     rx_tx |-> 17, max_ack |-> 19, max_tx |-> 21, time_slot_length |-> TslOffset(n)]

Decode(b) ==
    IF b[1] = 0 THEN TimingsDefault
    ELSE [f \in DOMAIN TimingsDefault |->
            IF f = "id" THEN b[1] ELSE U16At(b, ReadOffset(Len(b))[f])]

timeslot_timings ==
    /\ panic = None
    /\ buf # <<>>
    /\ IF Panics(buf)
       THEN panic' = "timeslot_timings" /\ UNCHANGED decoded
       ELSE decoded' = Decode(buf) /\ UNCHANGED panic
    /\ UNCHANGED <<t, sets, buf, sent>>

(* TschTimeslotTimings::new and Default::default *)
new(id, g) ==
    /\ panic = None
    /\ t' = TimingsNew(id, g) /\ sets' = 0
    /\ UNCHANGED <<buf, sent, decoded, panic>>

default ==
    /\ panic = None
    /\ t' = TimingsDefault /\ sets' = 0
    /\ UNCHANGED <<buf, sent, decoded, panic>>

(* The twelve setters set_cca_offset ... set_time_slot_length *)
set(f, d) ==
    /\ panic = None
    /\ sets < MaxSets
    /\ t' = [t EXCEPT ![f] = d] /\ sets' = sets + 1
    /\ UNCHANGED <<buf, sent, decoded, panic>>

Init ==
    /\ \E id \in Ids, g \in GuardTimes : t = TimingsNew(id, g)
    /\ sets = 0
    /\ buf = <<>> /\ sent = None /\ decoded = None
    /\ panic = None

Next ==
    \/ \E id \in Ids, g \in GuardTimes : new(id, g)
    \/ default
    \/ \E k \in 1..12, d \in Durations : set(TimingFields[k], d)
    \/ \E n \in BufLens : emit(n)
    \/ timeslot_timings

Spec == Init /\ [][Next]_vars

-----------------------------------------------------------------------------
TypeOK ==
    /\ t \in [DOMAIN TimingsDefault -> Int]
    /\ sets \in 0..MaxSets
    /\ panic \in {None, "emit", "timeslot_timings"}

(***************************************************************************)
(* Spec 3 and 8: a table with ID # 0 is carried field by field, and        *)
(* "emitting the default table and re-parsing with the same guard time     *)
(* reproduces all twelve fields".  Decoding the buffer of the last emit    *)
(* gives back the emitted table, whenever that table has a non-zero ID or *)
(* is TschTimeslotTimings::new(0, g) for a guard time g.                   *)
(***************************************************************************)
TimingsRoundTrip ==
    /\ decoded # None
    /\ sent.id # 0 \/ \E g \in GuardTimes : sent = TimingsNew(0, g)
    => decoded = sent
=============================================================================
