# TLA+ models of the dot15d4 frame codec

This directory holds TLA+ models of the IEEE 802.15.4 frame codec under
`src/`, the TLC configurations that check them, and TLAPS proofs.

## The system

The code is a set of non-owning views over the bytes of a radio frame.

* **Frame Control codec** (`src/dot15d4-frame/src/frame_control.rs`). This is
  a view over the first two bytes of a frame. Each of the ten getters forms
  the little-endian u16 and extracts one bit field. Each of the ten setters
  reads the u16, changes one field and writes both bytes back.
* **Addressing fields resolver** (`src/dot15d4/src/frame/addressing.rs`). It
  reads the Frame Control word to decide which of {dst PAN ID, dst address,
  src PAN ID, src address} are present.
  * `address_present_flags` applies the legacy (2003/2006) rule table or the
    2020 rule table.
  * Each of the four accessors re-runs that resolution and computes its own
    offset.
  * `len()` sums the widths.
  * `write_fields` serialises an `AddressingFieldsRepr` at an advancing
    cursor and trusts the caller to have set the Frame Control word to match.
* **Nested Information Elements and TSCH decoders**
  (`src/dot15d4/src/frame/ie/nested.rs`). These are a TLV framer, a lazy
  iterator over a stream of elements, and decoders for the TSCH payloads
  (synchronization, timeslot timings, slotframe and link descriptors with
  their own iterators, channel hopping).
* **CSMA constants** (`src/dot15d4/src/csma/user_configurable_constants.rs`).
  These are named constants only.

The components interact this way. An emitter calls Frame Control setters and
`write_fields` on the same buffer, in any order. A reader builds both views
and calls the accessors, each of which reads the current Frame Control word.

## Modules

| Module | Models |
|---|---|
| `FrameControl` | The Frame Control view: state, getters, setters, `new_unchecked`. |
| `FrameControlProofs` | TLAPS proofs about `FrameControl`. |
| `MC_FrameControl` | The TLC instance of `FrameControl`. |
| `AddressingFields` | The addressing view composed with the Frame Control view (`INSTANCE FrameControl`). |
| `MC_AddressingFields` | The TLC instances of `AddressingFields`: one emitting, one parsing. |
| `AddressingFieldsProofs` | TLAPS proofs about `AddressingFields`. |
| `NestedIE` | The nested-IE framer, the iterator over a stream of nested IEs, and `NestedInformationElementRepr::parse`. |
| `MC_NestedIE` | The TLC instances of `NestedIE`: streams of encoded elements. |
| `NestedIEProofs` | TLAPS proof of `ElementsRecovered`. |
| `TschSlotframeLink` | The Slotframe and Link IE reader: the slotframe descriptor iterator, the link descriptor iterator and the descriptor reads. |
| `MC_TschSlotframeLink` | The TLC instances of `TschSlotframeLink`, and the encoder that builds their bytes. |
| `TschSlotframeLinkProofs` | TLAPS proof of `DescriptorsRecovered`. |
| `TschTimeslot` | The timeslot timings table (`new`, `default`, the setters, `emit`) and the Timeslot IE reader `timeslot_timings`. |
| `MC_TschTimeslot` | The TLC instances of `TschTimeslot`. |
| `TschTimeslotProofs` | TLAPS proofs about `TschTimeslot`: the round trip of `emit` and `timeslot_timings`. |

### FrameControl

* **State.**
  * `buf` holds the two bytes the view overlays.
  * `call` holds the last setter call and its argument.
  * `calls` counts the setter calls.
* **Data.**
  * Bytes and words are integers.
  * `from_le_bytes` and `to_le_bytes` do what the Rust functions do.
  * `Field(w, s, k)` is `(w >> s) & (2^k-1)`.
  * `ClearAndSet` is the multi-bit setters' `(raw & !(mask<<s)) | ((v & mask) << s)`.
  * `OrBit` is the boolean setters' `raw |= (b as u16) << s`, which never
    clears a bit.
* **Enumerations.** These keep their Rust discriminants, including the
  implicit `Unknown` ones: FrameType 8, FrameVersion 3, AddressingMode 4. A
  setter writes `Unknown` masked to the field's width.
* **Actions.** There is one action per setter and one per
  `new_unchecked(buffer)`, which puts the view over another frame whose first
  word is one of `InitWords`.

### AddressingFields

`AddressingFields` instantiates `FrameControl` with `buf <- fc`.

* **State.**
  * `abuf` holds the addressing region (`AddrBufLen` bytes).
  * `written` holds the last Repr given to `write_fields`.
  * `writes` counts the writes.
* **Actions.**
  * `NewFrame` builds the views over a new frame buffer with a zeroed region.
  * `SetFc` is one of the four setters that `address_present_flags` reads.
    The other six change none of the getters it reads, which is what
    `NonInterference` shows.
  * `write_fields(r)` writes a Repr `r` drawn from a small set of PAN IDs and
    addresses.
* **Readers.** The readers are operators of the current state:
  * `address_present_flags` is the code's two rule tables, row by row;
  * the offsets are `DstAddrOffset`, `SrcPanOffset` and `SrcAddrOffset`;
  * the accessors are `dst_pan_id`, `src_pan_id`, `dst_address` and
    `src_address`;
  * `len` returns `Panic` where the code reaches `unreachable!()`.
* **Which `FrameControl`.** `addressing.rs` takes `FrameControl` and
  `FrameVersion` from its parent module, which is not under `src/`. The model
  uses the Frame Control codec of `frame_control.rs`. It has the same bit
  layout, and the spec names `FrameVersion::Ieee802154` as an alias of
  `Ieee802154_2020`.

### NestedIE

* **State.**
  * `data` is the byte slice the iterator runs over.
  * `offset` and `terminated` are the iterator's fields.
  * `yielded` lists the elements `next()` returned, each as its offset and
    length.
  * `parsed` is the last `parse` result.
  * `panic` names the call that panicked. A panic ends the thread, so no
    action is enabled after it.
  * `src` is a ghost: the element list the bytes were encoded from, or
    `Malformed`.
* **Framer.** `is_long`, `length`, `sub_id` and `content` are the code's
  masks and shifts on the little-endian header word. The sub-ID enums keep
  their discriminants.
* **Actions.**
  * `new` builds an iterator over another stream.
  * `next()` is three actions: `next_none` (terminated), `next_some` (an
    element is yielded), and `next_panic` (the header, or the slice of
    `length()+2` bytes, is out of bounds).
  * `parse(i)` dispatches on the sub-ID. It panics where the decoder indexes
    past the content or reaches `todo!()`.
  * `MaxNext` bounds the `next()` calls made on one iterator. It keeps an
    iterator that fails to advance finite, so that TLC can show it never
    ends. `new` is enabled only once the current iterator has terminated.
    This matches a caller that drains one stream before it reads the next.
* **Layout.** Each element of `src` carries its offset `at`. `LaidOut(es, b)`
  states, position by position, that `b` is the elements laid end to end.
  `WellFormedStreams` adds that every sub-ID and length fits its header.
  `MC_NestedIE` builds its streams with a recursive encoder. Its ASSUME
  `MC_LayoutAssumption` has TLC check that those bytes satisfy `LaidOut`,
  and that the pass run's streams are well formed.
* **Data.** The 40-bit ASN is kept as two limbs, because TLC's integers have
  32 bits.

### TschSlotframeLink

* **State.** The state is the content bytes, the slotframe iterator's
  fields (`sfOff`, `sfTerm`, `sfCount`), the offsets it yielded, and one link
  iterator (`lkStart`, `lkLen`, `lkOff`, `lkTerm`) of the yielded descriptor
  `cur`. `sfRead` and `lkRead` are the fields last read. `src` is the encoded
  record: a count byte and the slotframes, where the count need not equal the
  number of slotframes.
* **Actions.** The actions are `slotframe_descriptors`, `sf_next`,
  `read_slotframe(i)`, `link_descriptors(i)`, `link_next` and `read_link(j)`.
  Each has the code's index checks as its panic branch.
* **Layout.** Each slotframe of `src` carries its offset `at`. `LaidOut`
  states where each slotframe's handle, size, link count and links sit in
  the bytes, and that the last one ends at the end of the content.
  `MC_TschSlotframeLink` encodes its records with `FlattenSeq`. Its ASSUME
  `MC_LayoutAssumption` has TLC check that the encoding satisfies `LaidOut`.

### TschTimeslot

* **State.**
  * `t` is the timings table an emitter holds.
  * `sets` counts setter calls, bounded by `MaxSets`.
  * `buf` is the last emitted buffer.
  * `decoded` is what `timeslot_timings` returned.
  * `sent` is a ghost copy of the table that was emitted.
* **Actions.**
  * `new(id, g)` and `default` build a table.
  * `set(f, d)` stands for the twelve setters.
  * `emit(n)` writes into a zeroed buffer of `n` bytes, with `as u16` as
    modulo 2^16. It panics below 25 bytes.
  * `timeslot_timings` reads the buffer. ID 0 gives the default table.
    Otherwise the width of the last two fields is inferred from the length.
* **Durations.** `Duration` (from `crate::time`, not under `src/`) is whole
  microseconds. `guard / 2` truncates.

## Runs

| Run | Checks | Result |
|---|---|---|
| `fc_noninterference` | `NonInterference`: every setter step leaves every other getter's value unchanged. | pass |
| `fc_set_then_get` | `SetThenGet`: after `set_X(v)`, `X()` returns `v`. | violation: `set_X(false)` cannot clear a set bit |
| `addr_emit` | `PanIdRoundTrip`, `WriteEndsAtLen`: after a write whose Repr agrees with the Frame Control word as it stands now, the PAN IDs read back and `len()` is where the write stopped. | pass |
| `addr_parse` | `AccessorsTileLen`: the byte ranges the four accessors read are disjoint and exactly cover `[0, len())`. | pass |
| `addr_address_roundtrip` | `AddressRoundTrip`: written addresses read back. | violation: `write_fields` does not reverse the bytes that the readers reverse |
| `nested_iter` | `ElementsRecovered`: on the bytes of an element list, `next()` never panics. Once it returns None it has yielded each element at its offset, with its format, sub-ID and length (spec §8). `IterationEnds`: a started iteration always reaches the end of the stream or a panic. `parse(i)` runs in the same state space, but neither property checks what it returns: it panics on MultiPhy and VendorSpecificNested elements (`todo!()`) and on a zero-length TschSynchronization element. | pass |
| `nested_vendor_specific` | `ElementsRecovered` with a VendorSpecific (0x40) element. | violation: the 6-bit sub-ID mask turns 0x40 into Unkown |
| `sfl_descriptors` | `DescriptorsRecovered`: the slotframe iterator stops at min(count, descriptors present). Every descriptor and link reads back, and nothing panics (spec §4.4, §8). | pass |
| `sfl_zero_links` | `DescriptorsRecovered` with a slotframe with no links. | violation: the link iterator yields one descriptor over no bytes |
| `timeslot_roundtrip` | `TimingsRoundTrip`: a table with a non-zero ID, or a default table, emitted and decoded, is unchanged (spec §8). | pass |
| `timeslot_guard` | `TimingsRoundTrip` with guard time 1000 µs. | violation: ID 0 decodes with the 2200 µs guard time |
| `timeslot_long_record` | `TimingsRoundTrip` with 27-byte records. | violation: the time slot length is read one byte after where it was written |

### Bounds and why they are enough

* **`MC_FrameControl`.** It uses eight initial words and two setter calls per
  view.
  * The words are all zeros, all ones, and alternating patterns at strides 1,
    2 and 4.
  * In them, every field is set and clear, next to set and clear neighbours,
    and every reserved code occurs.
  * Two calls let one setter's effect be seen by the next.
* **The emit instance.** It starts from a zeroed buffer and allows four
  setter calls and one write.
  * Four calls are enough to set the version, both modes and compression
    either before or after the write.
  * The PAN ID and the addresses have distinct, non-palindromic bytes, so a
    misplaced or reversed field shows.
* **The parse instance.** It enumerates all 128 Frame Control words that
  differ in the bits the resolver reads, so it covers both rule tables
  completely.

* **`MC_NestedIE`.** The pass run uses streams of one or two elements
  drawn from seven: short and long, lengths 0, 1, 2 and 6, and each TSCH
  sub-ID. The streams also include their truncated forms.
  * Two elements are enough for an offset error in the first element to
    misplace the second.
  * The truncated forms reach the panic paths, so those actions fire. They
    are marked `Malformed`, and no property states what a truncated stream
    should give: the panic on a cut-short header (hazard at `nested.rs:884`)
    is exercised but not checked.
* **`MC_TschSlotframeLink`.** The instance uses one or two slotframes of one
  and two links, and counts 0 to 3 (below, at and above the number present).
  The bytes are distinct, and option byte 0xE3 carries reserved bits that
  `from_bits_truncate` must drop. Truncated contents are `Malformed`: the
  panics in `link_descriptors` and on an empty descriptor area are reached
  but not checked.
* **`MC_TschTimeslot`.** The instance uses IDs 0 and 5, the default guard
  time, and two setter calls with a value whose two bytes are both non-zero.
  This is enough to customise a field of both a zero-ID and a non-zero-ID
  table.

### Fairness

Every operation is a synchronous, bounded function call with no waiting.
The one place where progress matters is the nested-IE iterator.

* The iterator's callers step it with `for ie in iter` until it returns
  `None`. `NestedIE`'s `Spec` therefore assumes `WF_vars(IterNext)`:
  `next()` is called while the iterator has not terminated.
* `IterationEnds` (`~terminated ~> (terminated \/ panic # None)`) checks
  that this loop ends. It holds because every element advances the cursor
  by `length() + 2 >= 2`.
* The mutant that drops the `+ 2` leaves a zero-length element at the
  cursor forever. TLC then finds the stuttering loop.
* No other model assumes fairness.

Deadlock:

* In `FrameControl` and `AddressingFields`, deadlock is checked: a model can
  always build a new frame view.
* The three nested-IE models stop at a panic, which ends the thread. Their
  cfgs therefore say `CHECK_DEADLOCK FALSE`.

### Disagreements found while modelling, without a run

The model reproduces each of these, but no run states it as a property.

* **Reserved codes.** A reserved frame-type or addressing-mode code reads as
  `Unknown`. Writing that value back replaces the code with `Unknown`'s
  discriminant masked to the field width, so `set_X(get_X())` is not the
  identity (spec §8).
* **`len()` panics.** `address_present_flags` resolves layouts that contain
  an Unknown mode, and `len()` then reaches `unreachable!()` (spec §7 says
  parsing always succeeds).
* **Empty nested-IE stream.** The empty stream panics in `next()`.
* **ChannelHopping.** A ChannelHopping element is parsed as slotframe and
  link.
* **Nonzero count, no descriptors.** A nonzero slotframe count over an empty
  descriptor area panics in `next()`.
* **Durations past u16.** `emit` writes durations of 65536 µs or more
  modulo 2^16.

## Proofs

`FrameControlProofs` proves two theorems for every set of initial u16 words
and every call bound:

* `TypeCorrect`: `Spec => []TypeOK`;
* `NonInterferenceHolds`: `Spec => NonInterference`.

The argument decomposes a u16 word into its eleven bit fields: the ten Frame
Control fields and reserved bit 7.

* `Decompose` and `Extract` show that a word is the weighted sum of its
  fields, and that each field of such a sum is recovered.
* `SetPart` shows that replacing one field changes the word by that field's
  weight times the difference, and keeps the word a u16.
* From these:
  * `ClearAndSetPart` and `OrBitPart` show that each setter changes only its
    own field;
  * `ViewFrame` shows that getters reading other fields are unaffected.
* `StoreStep`, `ClearAndSetStep`, `OrBitStep` and `NextStep` lift this to
  the actions.

`TypeOK` is inductive as it stands together with `IsWord`. The assumption
used is `InitAssumption`: the initial words are u16 values and `MaxCalls` is
a natural.

### TschTimeslotProofs

`TschTimeslotProofs` proves two theorems about the timeslot timings.

* **`RoundTrip`.** Take any table whose ID is a byte and whose twelve
  durations are u16 values. Decoding its 25-byte `emit` returns the table
  itself when the ID is non-zero, and the default table when it is zero.
  * `LeBytesRoundTrip` shows that the two little-endian bytes of a u16 give
    it back.
  * `FieldRoundTrip` shows that field j of the wire order is written at
    bytes 2j, 2j+1 and read at 2j−1.
  * `ReadOffsetOfField` shows that the reader's offset table agrees with
    that.
* **`TimingsRoundTripHolds`.** `Spec => []TimingsRoundTrip` holds under
  `RoundTripConfig`, for every set of IDs and setter values and every call
  bound. `RoundTripConfig` requires:
  * byte IDs;
  * u16 setter values;
  * the guard time set to `{DEFAULT_GUARD_TIME}`;
  * buffer lengths `{25}`.

  The runs `timeslot_guard` and `timeslot_long_record` show that the last
  two requirements are needed. The inductive invariant `IInv` says:
  * the held table fits the wire format;
  * nothing has panicked;
  * the buffer is the 25-byte emit of `sent`;
  * `decoded` is `None` or the decode of that buffer.

  `TimingsRoundTrip` alone is not inductive: it says nothing of `t`, the
  table the next `emit` sends.

### AddressingFieldsProofs

`AddressingFieldsProofs` proves `PanIdRoundTripHolds`, `WriteEndsAtLenHolds`
and `AccessorsTileLenHolds`: `Spec => []P` for the three invariants of the
`addr_emit` and `addr_parse` runs. They hold for every set of initial words,
PAN IDs and addresses, every call and write bound, and every buffer of at
least 20 bytes.

* **Assumption.** `AddressingAssumption` says:
  * PAN IDs are u16 values;
  * addresses are 2 or 8 bytes;
  * the buffer has at least 20 bytes;
  * `None` is not a number.
* **The key lemma.** `FlagsModes` shows that whenever
  `address_present_flags` resolves a layout, its two modes are the Frame
  Control's addressing modes and its PAN-ID flags are Booleans. The proof
  goes through every row of both rule tables. It treats the getters as
  opaque, so it covers every word.
* **Reader and writer agree.**
  * `LenIsEmitted` shows that under a Repr consistent with the word,
    `len()` equals the number of bytes `write_fields` emits.
  * `PanIdsReadBack` shows that the reader's source PAN-ID offset is where
    the writer's cursor stood.
  * Both use `PanBytesLen`, `AddrBytesLen` and the sequence lemmas
    `ConcatLen4` and `ConcatAt4`.
* **Tiling.**
  * `RangesTile` shows that four consecutive ranges tile their sum.
  * `TileForWord` instantiates it with the widths the flags give.
* **The inductive invariant.** `IInv` says:
  * the addressing region holds bytes;
  * `written` is a Repr;
  * once a write has happened, the region starts with what was emitted.

  The setters leave the region alone, and a new frame resets `writes`, so
  `IInv` is inductive. `PanIdRoundTrip` alone is not: it says nothing of
  the bytes after a setter has made the Repr inconsistent and another
  setter has made it consistent again. `IInv` was model-checked on the
  emit instance before it was proved.

### NestedIEProofs

`ElementsRecoveredHolds` proves `Spec => []ElementsRecovered` for every set
of streams that satisfies `WellFormedStreams`. That hypothesis asks for a
non-empty element list, a representable sub-ID and length in each header,
and bytes laid out as `LaidOut` says. It excludes the VendorSpecific
element, whose violation `nested_vendor_specific` shows. It also excludes
the empty stream, on which `next()` reads a header past the end and panics.

* `DecodeHeader` shows that `is_long`, `length` and `sub_id` of `HeaderOf(e)`
  return the fields of `e`. It splits on the long and short formats and uses
  `DivMod` for the masks.
* The inductive invariant `IInv` says that the first `Len(yielded)`
  elements were yielded at their offsets and lengths. It also says that
  `terminated` holds exactly when all were yielded. When it does not, the
  cursor `offset` is at the next element. `ElementsRecovered` alone is not
  inductive: it constrains nothing before `terminated`. The cursor clause is
  what shows that the next `next()` reads a real header and stays in bounds.
* `NextIInv` has one case per action. In the `next_panic` case, `IInv`
  shows that the panic branch is never enabled.

### TschSlotframeLinkProofs

`DescriptorsRecoveredHolds` proves `Spec => []DescriptorsRecovered` for
every set of contents that satisfies `WellFormedContents`. Each content
needs at least one slotframe, each with at least one link, laid out as
`LaidOut` says. The count byte is free. The one-link minimum matches the
`sfl_zero_links` violation: with no links, the link iterator yields a
descriptor anyway.

* `U16ReadBack`, `SfFields` and `LinkFacts` show that every field read at a
  laid-out position returns the encoded field.
* `TruncateLow` shows that `from_bits_truncate` ignores the three reserved
  bits: `from_bits_truncate(x) = from_bits_truncate(x % 32)`.
* The inductive invariant `IInv` has one part per iterator.
  * `SfIterInv` says the slotframe iterator yielded the first offsets, and
    that `sfTerm` holds exactly when `min(count, #slotframes)` were yielded.
    Otherwise `SfBase + sfOff` is the next descriptor's offset.
  * `SfReadInv` says the last slotframe read is that of a yielded descriptor.
  * `LinkInv` says the link iterator of `cur` spans that slotframe's links,
    with offsets 5 bytes apart, and that the last link read is one of them.
* The cursor clauses are needed because `DescriptorsRecovered` speaks only
  of the values already returned. Whether the next read is in bounds depends
  on where the iterators stand.
* One step lemma per action. `NextIInv` combines them.

### What stays with TLC

* The recursive encoders in the MC modules, and their agreement with the
  `LaidOut` predicates the proofs assume, are checked only by the MC
  modules' ASSUMEs. Under `RECURSIVE` and `FlattenSeq`, the provers lose
  their SMT backend.
* Liveness: `IterationEnds` is checked by TLC under `WF_vars(IterNext)`.
  TLAPS does not handle the fairness and `ENABLED` reasoning it needs.

## Not modelled

* `Address::is_broadcast`, `Address::from_bytes` and the `Display`
  implementations are not modelled. They change no state, and no modelled
  operation uses them.
* The CSMA constants file holds only constant values.
* `ChannelHopping::hopping_sequence_id` is a one-byte read that `parse`
  never reaches.
* The `Display`, `Debug` and `fmt` implementations are formatting only.
