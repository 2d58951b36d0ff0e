--------------------------- MODULE NestedIEProofs ---------------------------
(***************************************************************************)
(* Proofs about NestedIE: on every stream that lays out a list of elements *)
(* the header can represent, the iterator never panics and, once it has    *)
(* returned None, has yielded every element at its offset with the        *)
(* format, sub-ID and length that were sent.                               *)
(***************************************************************************)
EXTENDS NestedIE, SequenceTheorems, TLAPS

(* The sub-ID an element's header should decode to. *)
ExpectedSubId(e) ==
    [format |-> IF e.long THEN "Long" ELSE "Short",
     id |-> FromCode(IF e.long THEN NestedSubIdLongCode ELSE NestedSubIdShortCode, e.sub)]

(* Integer division of a sum whose remainder part is below the divisor. *)
LEMMA DivMod ==
    ASSUME NEW a \in Nat, NEW b \in Nat, b > 0, NEW q \in Nat, NEW r \in Nat,
           r < b, a = b * q + r
    PROVE  a \div b = q /\ a % b = r
OBVIOUS

(***************************************************************************)
(* The framer reads back what the header of a representable element holds: *)
(* the format bit, the length under the 10- or 7-bit mask and the sub-ID    *)
(* under the 4- or 6-bit mask.                                              *)
(***************************************************************************)
LEMMA DecodeHeader ==
    ASSUME NEW e \in ElemRecs, Representable(e)
    PROVE  /\ HeaderOf(e) \in Nat
           /\ (HeaderOf(e) % 256) + 256 * (HeaderOf(e) \div 256) = HeaderOf(e)
           /\ is_long(HeaderOf(e)) = e.long
           /\ length(HeaderOf(e)) = e.len
           /\ sub_id(HeaderOf(e)) = ExpectedSubId(e)
<1>1. CASE e.long
  <2>1. e.sub \in Nat /\ e.len \in Nat /\ e.sub < 16 /\ e.len < 1024
    BY <1>1 DEF ElemRecs, Representable
  <2>2. HeaderOf(e) = 32768 + e.sub * 2048 + e.len
    BY <1>1 DEF HeaderOf
  <2>3. (HeaderOf(e) \div 32768) % 2 = 1
    <3>1. HeaderOf(e) \div 32768 = 1
      BY <2>1, <2>2, DivMod
    <3>. QED
      BY <3>1
  <2>4. HeaderOf(e) % 1024 = e.len
    <3>1. HeaderOf(e) = 1024 * (32 + 2 * e.sub) + e.len
      BY <2>1, <2>2
    <3>. QED
      BY <2>1, <3>1, DivMod
  <2>5. (HeaderOf(e) \div 2048) % 16 = e.sub
    <3>1. HeaderOf(e) = 2048 * (16 + e.sub) + e.len
      BY <2>1, <2>2
    <3>2. HeaderOf(e) \div 2048 = 16 + e.sub
      BY <2>1, <3>1, DivMod
    <3>3. (16 + e.sub) = 16 * 1 + e.sub
      BY <2>1
    <3>. QED
      BY <2>1, <3>2, <3>3, DivMod
  <2>6. is_long(HeaderOf(e)) = TRUE
    BY <2>3 DEF is_long
  <2>7. length(HeaderOf(e)) = e.len
    BY <2>4, <2>6 DEF length
  <2>8. sub_id(HeaderOf(e)) = ExpectedSubId(e)
    BY <1>1, <2>5, <2>6 DEF sub_id, ExpectedSubId
  <2>9. HeaderOf(e) \in Nat /\ (HeaderOf(e) % 256) + 256 * (HeaderOf(e) \div 256) = HeaderOf(e)
    BY <2>1, <2>2
  <2>. QED
    BY <1>1, <2>6, <2>7, <2>8, <2>9
<1>2. CASE ~e.long
  <2>1. e.sub \in Nat /\ e.len \in Nat /\ e.sub < 64 /\ e.len < 128
    BY <1>2 DEF ElemRecs, Representable
  <2>2. HeaderOf(e) = e.sub * 256 + e.len
    BY <1>2 DEF HeaderOf
  <2>3. (HeaderOf(e) \div 32768) % 2 = 0
    <3>1. HeaderOf(e) \div 32768 = 0
      BY <2>1, <2>2, DivMod
    <3>. QED
      BY <3>1
  <2>4. HeaderOf(e) % 128 = e.len
    <3>1. HeaderOf(e) = 128 * (2 * e.sub) + e.len
      BY <2>1, <2>2
    <3>2. 2 * e.sub \in Nat
      BY <2>1
    <3>3. PICK q \in Nat : HeaderOf(e) = 128 * q + e.len
      BY <3>1, <3>2, Zenon
    <3>. QED
      BY <2>1, <2>2, <3>3, DivMod
  <2>5. (HeaderOf(e) \div 256) % 64 = e.sub
    <3>0. HeaderOf(e) = 256 * e.sub + e.len
      BY <2>1, <2>2
    <3>1. HeaderOf(e) \div 256 = e.sub
      BY <2>1, <3>0, DivMod
    <3>. QED
      BY <2>1, <3>1, DivMod
  <2>6. is_long(HeaderOf(e)) = FALSE
    BY <2>3 DEF is_long
  <2>7. length(HeaderOf(e)) = e.len
    BY <2>4, <2>6 DEF length
  <2>8. sub_id(HeaderOf(e)) = ExpectedSubId(e)
    BY <1>2, <2>5, <2>6 DEF sub_id, ExpectedSubId
  <2>9. HeaderOf(e) \in Nat /\ (HeaderOf(e) % 256) + 256 * (HeaderOf(e) \div 256) = HeaderOf(e)
    BY <2>1, <2>2
  <2>10. e.long = FALSE
    BY <1>2 DEF ElemRecs
  <2>. QED
    BY <2>10, <2>6, <2>7, <2>8, <2>9
<1>. QED
  BY <1>1, <1>2 DEF ElemRecs

(***************************************************************************)
(* A stream the hypothesis of the theorem admits: the bytes es lays out.    *)
(***************************************************************************)
WF(es, b) ==
    /\ es \in Seq(ElemRecs) /\ Len(es) >= 1
    /\ \A i \in 1..Len(es) : Representable(es[i])
    /\ b \in Seq(Nat)
    /\ LaidOut(es, b)

LEMMA WFOfStream ==
    ASSUME WellFormedStreams(Streams), NEW s \in Streams, s.src # Malformed
    PROVE  WF(s.src, s.bytes)
BY DEF WellFormedStreams, WF

(***************************************************************************)
(* What the layout says of the i-th element: where it starts and ends, and *)
(* that the word at its offset is its header.                              *)
(***************************************************************************)
LEMMA ElemAt ==
    ASSUME NEW es, NEW b, WF(es, b), NEW i \in 1..Len(es)
    PROVE  /\ es[i] \in ElemRecs
           /\ Representable(es[i])
           /\ es[i].at = (IF i = 1 THEN 0 ELSE End(es[i - 1]))
           /\ End(es[i]) \in Nat
           /\ End(es[i]) <= Len(b)
           /\ U16At(b, es[i].at) = HeaderOf(es[i])
<1>1. es[i] \in ElemRecs /\ Representable(es[i])
  BY DEF WF
<1>2. es[i].at = (IF i = 1 THEN 0 ELSE End(es[i - 1])) /\ End(es[i]) <= Len(b)
  BY DEF WF, LaidOut
<1>3. End(es[i]) \in Nat
  BY <1>1 DEF End, ElemRecs
<1>4. U16At(b, es[i].at) = HeaderOf(es[i])
  <2>1. b[es[i].at + 1] = HeaderOf(es[i]) % 256 /\ b[es[i].at + 2] = HeaderOf(es[i]) \div 256
    BY DEF WF, LaidOut
  <2>2. (HeaderOf(es[i]) % 256) + 256 * (HeaderOf(es[i]) \div 256) = HeaderOf(es[i])
    BY <1>1, DecodeHeader
  <2>. QED
    BY <2>1, <2>2 DEF U16At
<1>. QED
  BY <1>1, <1>2, <1>3, <1>4

(* The last element ends at the end of the bytes. *)
LEMMA LastEnd ==
    ASSUME NEW es, NEW b, WF(es, b)
    PROVE  Len(b) = End(es[Len(es)])
BY DEF WF, LaidOut


(***************************************************************************)
(* The inductive invariant.  The stream is one of Streams; on the bytes of *)
(* an element list the iterator has yielded the first Len(yielded)         *)
(* elements, each as the view of its header and content, has stopped      *)
(* exactly when it has yielded them all, and otherwise has its cursor at   *)
(* the offset of the next one.  The cursor clause is what ElementsRecovered *)
(* lacks: without it nothing says next() reads the next element's header.  *)
(***************************************************************************)
IInv ==
    /\ \E s \in Streams : s.src = src /\ s.bytes = data
    /\ src # Malformed =>
         /\ yielded \in Seq([at : Nat, len : Nat])
         /\ offset \in Nat
         /\ panic # "next"
         /\ Len(yielded) <= Len(src)
         /\ \A i \in 1..Len(yielded) : yielded[i] = [at |-> src[i].at, len |-> src[i].len + 2]
         /\ terminated = (Len(yielded) = Len(src))
         /\ ~terminated => offset = src[Len(yielded) + 1].at

(* The stream an invariant state reads is well formed when it is not Malformed. *)
LEMMA WFOfState ==
    ASSUME WellFormedStreams(Streams), IInv, src # Malformed
    PROVE  WF(src, data)
<1>1. PICK s \in Streams : s.src = src /\ s.bytes = data
  BY DEF IInv
<1>. QED
  BY <1>1, WFOfStream

LEMMA InitIInv ==
    ASSUME WellFormedStreams(Streams), Init
    PROVE  IInv
<1>1. PICK s \in Streams : data = s.bytes /\ src = s.src
  BY DEF Init
<1>2. CASE src # Malformed
  <2>1. WF(src, data)
    BY <1>1, <1>2, WFOfStream
  <2>2. src[1].at = 0
    BY <2>1, ElemAt DEF WF
  <2>3. Len(src) # 0
    BY <2>1 DEF WF
  <2>4. yielded \in Seq([at : Nat, len : Nat]) /\ Len(yielded) = 0
    BY EmptySeq DEF Init
  <2>5. terminated = (Len(yielded) = Len(src))
    BY <2>3, <2>4 DEF Init
  <2>6. ~terminated => offset = src[Len(yielded) + 1].at
    BY <2>2, <2>4 DEF Init
  <2>7. offset \in Nat /\ panic # "next" /\ Len(yielded) <= Len(src)
    BY <2>4, NoneAssumption DEF Init
  <2>. QED
    BY <1>1, <2>4, <2>5, <2>6, <2>7 DEF IInv
<1>. QED
  BY <1>1, <1>2 DEF IInv


(***************************************************************************)
(* next() on the bytes of an element list: the cursor is at the offset of  *)
(* element k+1, so the header it reads is that element's and the view it   *)
(* slices is its header and content, ending where element k+2 starts or at *)
(* the end of the bytes.                                                   *)
(***************************************************************************)
LEMMA NextElement ==
    ASSUME WellFormedStreams(Streams), IInv, src # Malformed, ~terminated
    PROVE  LET k == Len(yielded)
               e == src[k + 1]
           IN  /\ k \in Nat /\ k < Len(src) /\ Len(data) \in Nat
               /\ offset = e.at
               /\ e.at \in Nat /\ e.len \in Nat
               /\ NestedLen(offset) = e.len + 2
               /\ offset + NestedLen(offset) = End(e)
               /\ End(e) <= Len(data)
               /\ k + 1 = Len(src) => End(e) = Len(data)
               /\ k + 1 < Len(src) => End(e) + 2 <= Len(data) /\ src[k + 2].at = End(e)
<1> DEFINE k == Len(yielded)
<1> DEFINE e == src[k + 1]
<1>1. WF(src, data)
  BY WFOfState
<1>2. k \in Nat /\ k < Len(src) /\ offset = e.at
  <2>1. yielded \in Seq([at : Nat, len : Nat]) /\ k <= Len(src) /\ offset = e.at
    BY DEF IInv
  <2>2. k # Len(src)
    BY Zenon DEF IInv
  <2>3. k \in Nat /\ Len(src) \in Nat
    BY <1>1, <2>1, LenProperties DEF WF
  <2>. QED
    BY <2>1, <2>2, <2>3
<1>3. k + 1 \in 1..Len(src)
  BY <1>2
<1>4. /\ e \in ElemRecs /\ Representable(e)
      /\ End(e) \in Nat /\ End(e) <= Len(data)
      /\ U16At(data, e.at) = HeaderOf(e)
  BY <1>1, <1>3, ElemAt
<1>5. e.at \in Nat /\ e.len \in Nat
  BY <1>4 DEF ElemRecs
<1>6. length(HeaderOf(e)) = e.len
  BY <1>4, DecodeHeader
<1>7. NestedLen(offset) = e.len + 2
  BY <1>2, <1>4, <1>6 DEF NestedLen
<1>8. offset + NestedLen(offset) = End(e)
  BY <1>2, <1>5, <1>7 DEF End
<1>9. k + 1 = Len(src) => End(e) = Len(data)
  BY <1>1, LastEnd
<1>10. k + 1 < Len(src) => End(e) + 2 <= Len(data) /\ src[k + 2].at = End(e)
  <2> HAVE k + 1 < Len(src)
  <2>1. k + 2 \in 1..Len(src) /\ k + 2 # 1 /\ (k + 2) - 1 = k + 1
    BY <1>2
  <2>2. src[k + 2] \in ElemRecs /\ src[k + 2].at = End(e) /\ End(src[k + 2]) <= Len(data)
    BY <1>1, <2>1, ElemAt
  <2>. QED
    BY <2>2, <1>4, SMTT(30) DEF End, ElemRecs
<1>11. Len(data) \in Nat
  BY <1>1, LenProperties DEF WF
<1>. QED
  BY <1>2, <1>4, <1>5, <1>7, <1>8, <1>9, <1>10, <1>11


(* Every step keeps the invariant. *)
LEMMA NextIInv ==
    ASSUME WellFormedStreams(Streams), IInv, [Next]_vars
    PROVE  IInv'
<1>1. CASE \E s \in Streams : new(s)
  <2>1. PICK s \in Streams : new(s)
    BY <1>1
  <2>2. CASE s.src # Malformed
    <3>1. WF(s.src, s.bytes)
      BY <2>2, WFOfStream
    <3>2. s.src[1].at = 0 /\ Len(s.src) # 0
      BY <3>1, ElemAt DEF WF
    <3>3. yielded' \in Seq([at : Nat, len : Nat]) /\ Len(yielded') = 0
      BY <2>1, EmptySeq DEF new
    <3>4. panic' # "next"
      BY <2>1, NoneAssumption DEF new
    <3>5. src' = s.src /\ data' = s.bytes /\ offset' = 0 /\ terminated' = FALSE
      BY <2>1 DEF new
    <3>6. terminated' = (Len(yielded') = Len(src'))
      BY <3>2, <3>3, <3>5
    <3>7. ~terminated' => offset' = src'[Len(yielded') + 1].at
      BY <3>2, <3>3, <3>5
    <3>8. (\E t \in Streams : t.src = src /\ t.bytes = data)'
      BY <3>5
    <3>. QED
      BY <2>2, <3>3, <3>4, <3>5, <3>6, <3>7, <3>8 DEF IInv
  <2>. QED
    BY <2>1, <2>2 DEF new, IInv
<1>2. CASE next_none
  BY <1>2 DEF next_none, IInv
<1>3. CASE next_some
  <2>1. (\E s \in Streams : s.src = src /\ s.bytes = data)'
    BY <1>3 DEF next_some, IInv
  <2>2. CASE src # Malformed
    <3> DEFINE k == Len(yielded)
    <3> DEFINE e == src[k + 1]
    <3> DEFINE item == [at |-> offset, len |-> NestedLen(offset)]
    <3>1. ~terminated
      BY <1>3 DEF next_some
    <3>2. /\ k \in Nat /\ k < Len(src) /\ Len(data) \in Nat
          /\ offset = e.at
          /\ e.at \in Nat /\ e.len \in Nat
          /\ NestedLen(offset) = e.len + 2
          /\ offset + NestedLen(offset) = End(e)
          /\ k + 1 = Len(src) => End(e) = Len(data)
          /\ k + 1 < Len(src) => End(e) + 2 <= Len(data) /\ src[k + 2].at = End(e)
      BY <2>2, <3>1, NextElement
    <3>3. item = [at |-> src[k + 1].at, len |-> src[k + 1].len + 2] /\ item \in [at : Nat, len : Nat]
      BY <3>2
    <3>4. yielded \in Seq([at : Nat, len : Nat])
      BY <2>2 DEF IInv
    <3>5. /\ yielded' = Append(yielded, item)
          /\ yielded' \in Seq([at : Nat, len : Nat])
          /\ Len(yielded') = k + 1
          /\ \A i \in 1..k : yielded'[i] = yielded[i]
          /\ yielded'[k + 1] = item
      BY <1>3, <3>3, <3>4, AppendProperties DEF next_some
    <3>6. \A i \in 1..Len(yielded') : yielded'[i] = [at |-> src[i].at, len |-> src[i].len + 2]
      BY <2>2, <3>2, <3>3, <3>5 DEF IInv
    <3>7. offset' = End(e) /\ offset' \in Nat
      <4>1. offset' = End(e)
        BY <1>3, <3>2 DEF next_some
      <4>2. End(e) \in Nat
        BY <3>2 DEF End
      <4>. QED
        BY <4>1, <4>2
    <3>8. terminated' = (Len(yielded') = Len(src)) /\ (~terminated' => offset' = src[Len(yielded') + 1].at)
      <4>1. terminated' = (End(e) >= Len(data))
        BY <1>3, <3>7 DEF next_some
      <4>2. CASE k + 1 = Len(src)
        <5>0. End(e) >= Len(data)
          BY <3>2, <4>2
        <5>1. terminated' = TRUE
          BY <4>1, <5>0, Zenon
        <5>2. Len(yielded') = Len(src)
          BY <3>5, <4>2
        <5>. QED
          BY <5>1, <5>2
      <4>3. CASE k + 1 < Len(src)
        BY <3>2, <3>5, <3>7, <4>1, <4>3
      <4>. QED
        BY <3>2, <4>2, <4>3
    <3>9. panic' # "next" /\ Len(yielded') <= Len(src)
      BY <1>3, <2>2, <3>2, <3>5 DEF next_some, IInv
    <3>. QED
      BY <1>3, <2>1, <3>5, <3>6, <3>7, <3>8, <3>9 DEF next_some, IInv
  <2>. QED
    BY <1>3, <2>1, <2>2 DEF next_some, IInv
<1>4. CASE next_panic
  <2>1. src = Malformed
    <3> SUFFICES ASSUME src # Malformed PROVE FALSE
      OBVIOUS
    <3>1. ~terminated
      BY <1>4 DEF next_panic
    <3>2. /\ Len(data) \in Nat
          /\ offset = src[Len(yielded) + 1].at
          /\ src[Len(yielded) + 1].at \in Nat /\ src[Len(yielded) + 1].len \in Nat
          /\ NestedLen(offset) = src[Len(yielded) + 1].len + 2
          /\ offset + NestedLen(offset) = End(src[Len(yielded) + 1])
          /\ End(src[Len(yielded) + 1]) <= Len(data)
      BY <3>1, NextElement
    <3>3. /\ offset \in Nat /\ NestedLen(offset) \in Nat
          /\ Len(data) - offset >= 2 /\ ~(offset + NestedLen(offset) > Len(data))
      BY <3>2 DEF End
    <3>4. ~(IF Len(data) - offset < 2 THEN TRUE ELSE offset + NestedLen(offset) > Len(data))
      BY <3>3
    <3>. QED
      BY <1>4, <3>4, Zenon DEF next_panic
  <2>. QED
    BY <1>4, <2>1 DEF next_panic, IInv
<1>5. CASE \E i \in 1..Len(yielded) : parse(i)
  <2>1. PICK i \in 1..Len(yielded) : parse(i)
    BY <1>5
  <2>2. panic' \in {panic, "parse"}
    BY <2>1 DEF parse
  <2>. QED
    BY <2>1, <2>2 DEF parse, IInv
<1>6. CASE UNCHANGED vars
  BY <1>6 DEF vars, IInv
<1>. QED
  BY <1>1, <1>2, <1>3, <1>4, <1>5, <1>6 DEF Next


(* An item yielded at an element's offset decodes to that element. *)
LEMMA DecodedAt ==
    ASSUME NEW es, NEW i \in 1..Len(es), WF(es, data), NEW item, item.at = es[i].at
    PROVE  Decoded(item) = Expected(es[i])
<1>1. es[i] \in ElemRecs /\ Representable(es[i]) /\ U16At(data, es[i].at) = HeaderOf(es[i])
  BY ElemAt
<1>2. Header(item) = HeaderOf(es[i])
  BY <1>1 DEF Header
<1>3. length(HeaderOf(es[i])) = es[i].len /\ sub_id(HeaderOf(es[i])) = ExpectedSubId(es[i])
  BY <1>1, DecodeHeader
<1>. QED
  BY <1>2, <1>3 DEF Decoded, Expected, ExpectedSubId

LEMMA IInvElementsRecovered ==
    ASSUME WellFormedStreams(Streams), IInv
    PROVE  ElementsRecovered
<1> SUFFICES ASSUME src # Malformed
             PROVE  /\ panic # "next"
                    /\ terminated =>
                         /\ Len(yielded) = Len(src)
                         /\ \A i \in 1..Len(src) :
                              /\ yielded[i].at = src[i].at
                              /\ Decoded(yielded[i]) = Expected(src[i])
  BY DEF ElementsRecovered
<1>1. panic # "next"
  BY DEF IInv
<1>2. ASSUME terminated
      PROVE  /\ Len(yielded) = Len(src)
             /\ \A i \in 1..Len(src) :
                  /\ yielded[i].at = src[i].at
                  /\ Decoded(yielded[i]) = Expected(src[i])
  <2>1. Len(yielded) = Len(src)
    BY <1>2, Zenon DEF IInv
  <2>2. \A i \in 1..Len(src) : yielded[i] = [at |-> src[i].at, len |-> src[i].len + 2]
    BY <2>1 DEF IInv
  <2>3. WF(src, data)
    BY WFOfState
  <2>4. \A i \in 1..Len(src) :
          /\ yielded[i].at = src[i].at
          /\ Decoded(yielded[i]) = Expected(src[i])
    <3> TAKE i \in 1..Len(src)
    <3>0. yielded[i] = [at |-> src[i].at, len |-> src[i].len + 2]
      BY <2>2
    <3>1. yielded[i].at = src[i].at
      BY <3>0
    <3>. QED
      BY <2>3, <3>1, DecodedAt
  <2>. QED
    BY <2>1, <2>4
<1>. QED
  BY <1>1, <1>2

(***************************************************************************)
(* Spec 8 for every set of streams that lay out non-empty lists of         *)
(* representable elements: next() never panics on them, and once it has   *)
(* returned None the iterator has yielded every element, at its offset,    *)
(* decoding to its format, sub-ID and length.                              *)
(***************************************************************************)
THEOREM ElementsRecoveredHolds ==
    ASSUME WellFormedStreams(Streams)
    PROVE  Spec => []ElementsRecovered
<1>1. Init => IInv
  BY InitIInv
<1>2. IInv /\ [Next]_vars => IInv'
  BY NextIInv
<1>3. IInv => ElementsRecovered
  BY IInvElementsRecovered
<1>. QED
  BY <1>1, <1>2, <1>3, PTL DEF Spec

=============================================================================
