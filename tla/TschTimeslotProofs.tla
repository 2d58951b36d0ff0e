------------------------- MODULE TschTimeslotProofs -------------------------
(***************************************************************************)
(* Proofs about TschTimeslot: a timings table whose fields are u16 values  *)
(* survives emit into a 25-byte record and timeslot_timings, and so the    *)
(* round trip checked by MC_TschTimeslot.cfg holds for every set of IDs,   *)
(* setter values and call bound, given the default guard time and 25-byte  *)
(* records.                                                                 *)
(***************************************************************************)
EXTENDS TschTimeslot, TLAPS

U8 == {v \in Nat : v < 256}
U16 == {v \in Nat : v < 65536}

(* The tables whose every field fits the wire format. *)
Table ==
    [id : U8, cca_offset : U16, cca : U16, tx_offset : U16, rx_offset : U16,
     rx_ack_delay : U16, tx_ack_delay : U16, rx_wait : U16, ack_wait : U16,
     rx_tx : U16, max_ack : U16, max_tx : U16, time_slot_length : U16]

(* A u16 written as its two little-endian bytes reads back. *)
LEMMA LeBytesRoundTrip ==
    ASSUME NEW v \in U16
    PROVE  LeBytes(AsU16(v))[1] + 256 * LeBytes(AsU16(v))[2] = v
BY DEF LeBytes, AsU16, U16

(* Field j of a table is read back from the offset emit wrote it at. *)
LEMMA FieldRoundTrip ==
    ASSUME NEW s \in Table, NEW j \in Nat, 1 <= j, j <= 12
    PROVE  U16At(EmitBytes(s, 25), 2 * j - 1) = s[TimingFields[j]]
<1> DEFINE v == s[TimingFields[j]]
<1>1. v \in U16
  BY DEF Table, TimingFields
<1>2. EmitBytes(s, 25)[2 * j] = LeBytes(AsU16(v))[1]
  BY DEF EmitBytes
<1>3. EmitBytes(s, 25)[2 * j + 1] = LeBytes(AsU16(v))[2]
  BY DEF EmitBytes
<1>4. U16At(EmitBytes(s, 25), 2 * j - 1) = EmitBytes(s, 25)[2 * j] + 256 * EmitBytes(s, 25)[2 * j + 1]
  BY DEF U16At
<1>. QED
  BY <1>1, <1>2, <1>3, <1>4, LeBytesRoundTrip
(* ReadOffset(25) reads field j of the wire order at 2j - 1. *)
LEMMA ReadOffsetOfField ==
    ASSUME NEW j \in Nat, 1 <= j, j <= 12
    PROVE  /\ TimingFields[j] \in DOMAIN ReadOffset(25)
           /\ ReadOffset(25)[TimingFields[j]] = 2 * j - 1
<1>1. j \in {1, 2, 3, 4, 5, 6, 7, 8, 9, 10, 11, 12}
  OBVIOUS
<1>. QED
  BY <1>1 DEF ReadOffset, TslOffset, TimingFields

(* The fields of a table: its ID and the twelve timings in wire order. *)
LEMMA TableFields ==
    ASSUME NEW f \in DOMAIN TimingsDefault, f # "id"
    PROVE  \E j \in Nat : 1 <= j /\ j <= 12 /\ f = TimingFields[j]
<1>1. f \in {"cca_offset", "cca", "tx_offset", "rx_offset", "rx_ack_delay",
             "tx_ack_delay", "rx_wait", "ack_wait", "rx_tx", "max_ack",
             "max_tx", "time_slot_length"}
  BY DEF TimingsDefault, TimingsNew
<1>. QED
  BY <1>1 DEF TimingFields

(***************************************************************************)
(* emit into 25 bytes then timeslot_timings gives back a table with a      *)
(* non-zero ID, and the default table for ID 0.                            *)
(***************************************************************************)
THEOREM RoundTrip ==
    ASSUME NEW s \in Table
    PROVE  Decode(EmitBytes(s, 25)) = IF s.id = 0 THEN TimingsDefault ELSE s
<1> DEFINE b == EmitBytes(s, 25)
<1>1. Len(b) = 25 /\ b[1] = s.id
  BY DEF EmitBytes
<1>2. CASE s.id = 0
  BY <1>1, <1>2 DEF Decode
<1>3. CASE s.id # 0
  <2>1. Decode(b) = [f \in DOMAIN TimingsDefault |->
                       IF f = "id" THEN b[1] ELSE U16At(b, ReadOffset(25)[f])]
    BY <1>1, <1>3 DEF Decode
  <2>2. DOMAIN TimingsDefault = DOMAIN s
    BY DEF TimingsDefault, TimingsNew, Table
  <2>3. s = [f \in DOMAIN s |-> s[f]]
    BY DEF Table
  <2>4. ASSUME NEW f \in DOMAIN TimingsDefault, f # "id"
        PROVE  U16At(b, ReadOffset(25)[f]) = s[f]
    <3>1. PICK j \in Nat : 1 <= j /\ j <= 12 /\ f = TimingFields[j]
      BY <2>4, TableFields
    <3>2. ReadOffset(25)[f] = 2 * j - 1
      BY <3>1, ReadOffsetOfField
    <3>. QED
      BY <3>1, <3>2, FieldRoundTrip
  <2>. QED
    BY <1>1, <1>3, <2>1, <2>2, <2>3, <2>4
<1>. QED
  BY <1>2, <1>3
-----------------------------------------------------------------------------
(***************************************************************************)
(* The instances the round trip is claimed for: IDs that are bytes,        *)
(* setter values that are u16, the default guard time and 25-byte records. *)
(* The runs timeslot_guard and timeslot_long_record show the last two are  *)
(* needed.                                                                 *)
(***************************************************************************)
RoundTripConfig ==
    /\ Ids \subseteq U8
    /\ Durations \subseteq U16
    /\ GuardTimes = {DEFAULT_GUARD_TIME}
    /\ BufLens = {25}

(* The inductive invariant: the held table fits the wire format, nothing   *)
(* panics, and the buffer and the decoded table are those of the last emit *)
(* and the last decode.                                                    *)
IInv ==
    /\ t \in Table
    /\ sets \in Nat
    /\ panic = None
    /\ \/ buf = <<>> /\ decoded = None
       \/ /\ sent \in Table
          /\ buf = EmitBytes(sent, 25)
          /\ decoded = None \/ decoded = Decode(buf)

LEMMA NewInTable ==
    ASSUME NEW id \in U8
    PROVE  TimingsNew(id, DEFAULT_GUARD_TIME) \in Table
BY DEF TimingsNew, DEFAULT_GUARD_TIME, Table, U16

LEMMA SetInTable ==
    ASSUME NEW s \in Table, NEW k \in Nat, 1 <= k, k <= 12, NEW d \in U16
    PROVE  [s EXCEPT ![TimingFields[k]] = d] \in Table
<1>1. k \in {1, 2, 3, 4, 5, 6, 7, 8, 9, 10, 11, 12}
  OBVIOUS
<1>. QED
  BY <1>1 DEF Table, TimingFields

LEMMA EmitNotEmpty ==
    ASSUME NEW s \in Table
    PROVE  EmitBytes(s, 25) # <<>> /\ ~Panics(EmitBytes(s, 25))
<1>1. Len(EmitBytes(s, 25)) = 25
  BY DEF EmitBytes
<1>. QED
  BY <1>1 DEF Panics

LEMMA InitIInv ==
    ASSUME RoundTripConfig
    PROVE  Init => IInv
<1> SUFFICES ASSUME Init PROVE IInv
  OBVIOUS
<1>1. PICK id \in Ids, g \in GuardTimes : t = TimingsNew(id, g)
  BY DEF Init
<1>2. t \in Table
  BY <1>1, NewInTable DEF RoundTripConfig
<1>. QED
  BY <1>2 DEF Init, IInv

LEMMA NextIInv ==
    ASSUME RoundTripConfig, IInv, [Next]_vars
    PROVE  IInv'
<1>1. CASE \E id \in Ids, g \in GuardTimes : new(id, g)
  <2>1. PICK id \in Ids, g \in GuardTimes : new(id, g)
    BY <1>1
  <2>2. t' \in Table
    BY <2>1, NewInTable DEF RoundTripConfig, new
  <2>. QED
    BY <2>1, <2>2 DEF new, IInv
<1>2. CASE default
  <2>1. t' \in Table
    BY <1>2, NewInTable DEF default, TimingsDefault, U8
  <2>. QED
    BY <1>2, <2>1 DEF default, IInv
<1>3. CASE \E k \in 1..12, d \in Durations : set(TimingFields[k], d)
  <2>1. PICK k \in 1..12, d \in Durations : set(TimingFields[k], d)
    BY <1>3
  <2>2. k \in Nat /\ 1 <= k /\ k <= 12 /\ d \in U16
    BY <2>1 DEF RoundTripConfig
  <2>3. t' \in Table
    BY <2>1, <2>2, SetInTable DEF set, IInv
  <2>. QED
    BY <2>1, <2>3 DEF set, IInv
<1>4. CASE \E n \in BufLens : emit(n)
  <2>1. emit(25)
    BY <1>4 DEF RoundTripConfig
  <2>. QED
    BY <2>1 DEF emit, IInv
<1>5. CASE timeslot_timings
  <2>1. sent \in Table /\ buf = EmitBytes(sent, 25)
    BY <1>5 DEF timeslot_timings, IInv
  <2>2. ~Panics(buf)
    BY <2>1, EmitNotEmpty
  <2>. QED
    BY <1>5, <2>1, <2>2 DEF timeslot_timings, IInv
<1>6. CASE UNCHANGED vars
  BY <1>6 DEF vars, IInv
<1>. QED
  BY <1>1, <1>2, <1>3, <1>4, <1>5, <1>6 DEF Next

LEMMA IInvRoundTrip ==
    ASSUME RoundTripConfig, IInv
    PROVE  TimingsRoundTrip
<1> SUFFICES ASSUME decoded # None,
                    sent.id # 0 \/ \E g \in GuardTimes : sent = TimingsNew(0, g)
             PROVE  decoded = sent
  BY DEF TimingsRoundTrip
<1>1. sent \in Table /\ decoded = Decode(EmitBytes(sent, 25))
  BY DEF IInv
<1>2. decoded = IF sent.id = 0 THEN TimingsDefault ELSE sent
  BY <1>1, RoundTrip
<1>3. CASE sent.id = 0
  <2>1. sent = TimingsNew(0, DEFAULT_GUARD_TIME)
    BY <1>3 DEF RoundTripConfig
  <2>. QED
    BY <1>2, <1>3, <2>1 DEF TimingsDefault
<1>. QED
  BY <1>2, <1>3

(***************************************************************************)
(* The round trip of emit and timeslot_timings that the run                *)
(* timeslot_roundtrip checks holds in every reachable state, for every set *)
(* of byte IDs, u16 setter values and setter-call bound, with the default  *)
(* guard time and 25-byte records.                                         *)
(***************************************************************************)
THEOREM TimingsRoundTripHolds ==
    ASSUME RoundTripConfig
    PROVE  Spec => []TimingsRoundTrip
<1>1. Init => IInv
  BY InitIInv
<1>2. IInv /\ [Next]_vars => IInv'
  BY NextIInv
<1>3. IInv => TimingsRoundTrip
  BY IInvRoundTrip
<1>. QED
  BY <1>1, <1>2, <1>3, PTL DEF Spec
=============================================================================
