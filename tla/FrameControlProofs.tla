-------------------------- MODULE FrameControlProofs --------------------------
(***************************************************************************)
(* Proofs about FrameControl for every set of initial words and every      *)
(* bound on setter calls.  The argument: a u16 word is the sum of its      *)
(* eleven bit fields (the ten Frame Control fields and reserved bit 7),    *)
(* each getter reads one of them, and each setter replaces one of them     *)
(* and keeps the word below 2^16.  Ranges are stated as x \in Nat /\ x < n *)
(* throughout: the SMT backend handles them far better than x \in 0..n-1.  *)
(***************************************************************************)
EXTENDS FrameControl, TLAPS

(* The eleven fields of a word, lowest bits first; bit 7 is the sixth. *)
Parts(w) ==
    <<w % 8, (w \div 8) % 2, (w \div 16) % 2, (w \div 32) % 2,
      (w \div 64) % 2, (w \div 128) % 2, (w \div 256) % 2, (w \div 512) % 2,
      (w \div 1024) % 4, (w \div 4096) % 4, (w \div 16384) % 4>>

(* The number of values of each field. *)
Width == <<8, 2, 2, 2, 2, 2, 2, 2, 4, 4, 4>>

(* p holds eleven fields, each below its width. *)
PartsOK(p) ==
    /\ p[1] \in Nat /\ p[1] < 8 /\ p[2] \in Nat /\ p[2] < 2
    /\ p[3] \in Nat /\ p[3] < 2 /\ p[4] \in Nat /\ p[4] < 2
    /\ p[5] \in Nat /\ p[5] < 2 /\ p[6] \in Nat /\ p[6] < 2
    /\ p[7] \in Nat /\ p[7] < 2 /\ p[8] \in Nat /\ p[8] < 2
    /\ p[9] \in Nat /\ p[9] < 4 /\ p[10] \in Nat /\ p[10] < 4
    /\ p[11] \in Nat /\ p[11] < 4

(* The word whose fields are p. *)
Compose(p) ==
    p[1] + 8 * p[2] + 16 * p[3] + 32 * p[4] + 64 * p[5] + 128 * p[6]
    + 256 * p[7] + 512 * p[8] + 1024 * p[9] + 4096 * p[10] + 16384 * p[11]

(* Which of the eleven fields each getter reads. *)
Idx == [frame_type |-> 1, security_enabled |-> 2, frame_pending |-> 3,
        ack_request |-> 4, pan_id_compression |-> 5,
        sequence_number_suppression |-> 7, information_elements_present |-> 8,
        dst_addressing_mode |-> 9, frame_version |-> 10, src_addressing_mode |-> 11]

(* A u16 word, as a range the provers handle well. *)
IsWord(w) == w \in Nat /\ w < 65536

-----------------------------------------------------------------------------
(* The powers of two the fields are shifted by. *)
LEMMA Pow == /\ 2^0 = 1 /\ 2^1 = 2 /\ 2^2 = 4 /\ 2^3 = 8 /\ 2^4 = 16
             /\ 2^5 = 32 /\ 2^6 = 64 /\ 2^8 = 256 /\ 2^9 = 512
             /\ 2^10 = 1024 /\ 2^12 = 4096 /\ 2^14 = 16384
  BY SMT

(* Division by M splits L + M * X, L below M, into X and L. *)
LEMMA DivSplit ==
  ASSUME NEW M \in Nat \ {0}, NEW L \in Nat, L < M, NEW X \in Nat
  PROVE  (L + M * X) \div M = X /\ (L + M * X) % M = L
  BY Z3

(* The K-valued field at multiplier S of lo + S * (f + K * hi) is f. *)
LEMMA FieldSplit ==
  ASSUME NEW S \in Nat \ {0}, NEW K \in Nat \ {0}, NEW lo \in Nat, lo < S,
         NEW f \in Nat, f < K, NEW hi \in Nat, NEW X \in Nat, X = f + K * hi,
         NEW w, w = lo + S * X
  PROVE  (w \div S) % K = f
<1>1. w \div S = X BY DivSplit
<1>2. (f + K * hi) % K = f BY DivSplit
<1>. QED BY <1>1, <1>2

(* Field, at the shifts and widths the getters use, is the Parts entry. *)
LEMMA FieldIsPart ==
  ASSUME NEW w \in Nat
  PROVE  /\ Field(w, 0, 3) = Parts(w)[1]
         /\ Field(w, 3, 1) = Parts(w)[2]
         /\ Field(w, 4, 1) = Parts(w)[3]
         /\ Field(w, 5, 1) = Parts(w)[4]
         /\ Field(w, 6, 1) = Parts(w)[5]
         /\ Field(w, 8, 1) = Parts(w)[7]
         /\ Field(w, 9, 1) = Parts(w)[8]
         /\ Field(w, 10, 2) = Parts(w)[9]
         /\ Field(w, 12, 2) = Parts(w)[10]
         /\ Field(w, 14, 2) = Parts(w)[11]
<1>1. w \div 1 = w BY Z3
<1>. QED BY <1>1, Pow DEF Field, Parts

(* Every u16 word is the sum of its fields.  The quotients q_i and the
   fields r_i are picked as fresh names, so that summing the chain is
   linear arithmetic. *)
LEMMA Decompose ==
  ASSUME NEW w, IsWord(w)
  PROVE  PartsOK(Parts(w)) /\ w = Compose(Parts(w))
<1>1. PICK r1 : r1 = w % 8 OBVIOUS
<1>2. PICK q2 : q2 = w \div 8 OBVIOUS
<1>3. PICK r2 : r2 = (w \div 8) % 2 OBVIOUS
<1>4. PICK q3 : q3 = w \div 16 OBVIOUS
<1>5. PICK r3 : r3 = (w \div 16) % 2 OBVIOUS
<1>6. PICK q4 : q4 = w \div 32 OBVIOUS
<1>7. PICK r4 : r4 = (w \div 32) % 2 OBVIOUS
<1>8. PICK q5 : q5 = w \div 64 OBVIOUS
<1>9. PICK r5 : r5 = (w \div 64) % 2 OBVIOUS
<1>10. PICK q6 : q6 = w \div 128 OBVIOUS
<1>11. PICK r6 : r6 = (w \div 128) % 2 OBVIOUS
<1>12. PICK q7 : q7 = w \div 256 OBVIOUS
<1>13. PICK r7 : r7 = (w \div 256) % 2 OBVIOUS
<1>14. PICK q8 : q8 = w \div 512 OBVIOUS
<1>15. PICK r8 : r8 = (w \div 512) % 2 OBVIOUS
<1>16. PICK q9 : q9 = w \div 1024 OBVIOUS
<1>17. PICK r9 : r9 = (w \div 1024) % 4 OBVIOUS
<1>18. PICK q10 : q10 = w \div 4096 OBVIOUS
<1>19. PICK r10 : r10 = (w \div 4096) % 4 OBVIOUS
<1>20. PICK q11 : q11 = w \div 16384 OBVIOUS
<1>21. PICK r11 : r11 = (w \div 16384) % 4 OBVIOUS
<1>22. Parts(w) = <<r1, r2, r3, r4, r5, r6, r7, r8, r9, r10, r11>>
  BY <1>1, <1>2, <1>3, <1>4, <1>5, <1>6, <1>7, <1>8, <1>9, <1>10, <1>11, <1>12, <1>13, <1>14, <1>15, <1>16, <1>17, <1>18, <1>19, <1>20, <1>21 DEF Parts
<1>23. r1 \in Nat /\ r1 < 8 BY <1>1 DEF IsWord
<1>24. q2 \in Nat /\ r2 \in Nat /\ r2 < 2 BY <1>2, <1>3 DEF IsWord
<1>25. q3 \in Nat /\ r3 \in Nat /\ r3 < 2 BY <1>4, <1>5 DEF IsWord
<1>26. q4 \in Nat /\ r4 \in Nat /\ r4 < 2 BY <1>6, <1>7 DEF IsWord
<1>27. q5 \in Nat /\ r5 \in Nat /\ r5 < 2 BY <1>8, <1>9 DEF IsWord
<1>28. q6 \in Nat /\ r6 \in Nat /\ r6 < 2 BY <1>10, <1>11 DEF IsWord
<1>29. q7 \in Nat /\ r7 \in Nat /\ r7 < 2 BY <1>12, <1>13 DEF IsWord
<1>30. q8 \in Nat /\ r8 \in Nat /\ r8 < 2 BY <1>14, <1>15 DEF IsWord
<1>31. q9 \in Nat /\ r9 \in Nat /\ r9 < 4 BY <1>16, <1>17 DEF IsWord
<1>32. q10 \in Nat /\ r10 \in Nat /\ r10 < 4 BY <1>18, <1>19 DEF IsWord
<1>33. q11 \in Nat /\ r11 \in Nat /\ r11 < 4 BY <1>20, <1>21 DEF IsWord
<1>34. w = r1 + 8 * q2 BY <1>1, <1>2 DEF IsWord
<1>35. q2 = r2 + 2 * q3 BY <1>2, <1>3, <1>4 DEF IsWord
<1>36. w = r1 + 8 * r2 + 16 * q3
  BY <1>34, <1>35, <1>23, <1>24, <1>25, <1>26, <1>27, <1>28, <1>29, <1>30, <1>31, <1>32, <1>33
<1>37. q3 = r3 + 2 * q4 BY <1>4, <1>5, <1>6 DEF IsWord
<1>38. w = r1 + 8 * r2 + 16 * r3 + 32 * q4
  BY <1>36, <1>37, <1>23, <1>24, <1>25, <1>26, <1>27, <1>28, <1>29, <1>30, <1>31, <1>32, <1>33
<1>39. q4 = r4 + 2 * q5 BY <1>6, <1>7, <1>8 DEF IsWord
<1>40. w = r1 + 8 * r2 + 16 * r3 + 32 * r4 + 64 * q5
  BY <1>38, <1>39, <1>23, <1>24, <1>25, <1>26, <1>27, <1>28, <1>29, <1>30, <1>31, <1>32, <1>33
<1>41. q5 = r5 + 2 * q6 BY <1>8, <1>9, <1>10 DEF IsWord
<1>42. w = r1 + 8 * r2 + 16 * r3 + 32 * r4 + 64 * r5 + 128 * q6
  BY <1>40, <1>41, <1>23, <1>24, <1>25, <1>26, <1>27, <1>28, <1>29, <1>30, <1>31, <1>32, <1>33
<1>43. q6 = r6 + 2 * q7 BY <1>10, <1>11, <1>12 DEF IsWord
<1>44. w = r1 + 8 * r2 + 16 * r3 + 32 * r4 + 64 * r5 + 128 * r6 + 256 * q7
  BY <1>42, <1>43, <1>23, <1>24, <1>25, <1>26, <1>27, <1>28, <1>29, <1>30, <1>31, <1>32, <1>33
<1>45. q7 = r7 + 2 * q8 BY <1>12, <1>13, <1>14 DEF IsWord
<1>46. w = r1 + 8 * r2 + 16 * r3 + 32 * r4 + 64 * r5 + 128 * r6 + 256 * r7 + 512 * q8
  BY <1>44, <1>45, <1>23, <1>24, <1>25, <1>26, <1>27, <1>28, <1>29, <1>30, <1>31, <1>32, <1>33
<1>47. q8 = r8 + 2 * q9 BY <1>14, <1>15, <1>16 DEF IsWord
<1>48. w = r1 + 8 * r2 + 16 * r3 + 32 * r4 + 64 * r5 + 128 * r6 + 256 * r7 + 512 * r8 + 1024 * q9
  BY <1>46, <1>47, <1>23, <1>24, <1>25, <1>26, <1>27, <1>28, <1>29, <1>30, <1>31, <1>32, <1>33
<1>49. q9 = r9 + 4 * q10 BY <1>16, <1>17, <1>18 DEF IsWord
<1>50. w = r1 + 8 * r2 + 16 * r3 + 32 * r4 + 64 * r5 + 128 * r6 + 256 * r7 + 512 * r8 + 1024 * r9 + 4096 * q10
  BY <1>48, <1>49, <1>23, <1>24, <1>25, <1>26, <1>27, <1>28, <1>29, <1>30, <1>31, <1>32, <1>33
<1>51. q10 = r10 + 4 * q11 BY <1>18, <1>19, <1>20 DEF IsWord
<1>52. w = r1 + 8 * r2 + 16 * r3 + 32 * r4 + 64 * r5 + 128 * r6 + 256 * r7 + 512 * r8 + 1024 * r9 + 4096 * r10 + 16384 * q11
  BY <1>50, <1>51, <1>23, <1>24, <1>25, <1>26, <1>27, <1>28, <1>29, <1>30, <1>31, <1>32, <1>33
<1>53. q11 = r11 BY <1>20, <1>21 DEF IsWord
<1>54. w = r1 + 8 * r2 + 16 * r3 + 32 * r4 + 64 * r5 + 128 * r6 + 256 * r7 + 512 * r8 + 1024 * r9 + 4096 * r10 + 16384 * r11
  BY <1>52, <1>53, <1>23, <1>24, <1>25, <1>26, <1>27, <1>28, <1>29, <1>30, <1>31, <1>32, <1>33
<1>. QED BY <1>22, <1>54, <1>23, <1>24, <1>25, <1>26, <1>27, <1>28, <1>29, <1>30, <1>31, <1>32, <1>33 DEF Compose, PartsOK

(* Composing fields in range gives a u16 word with exactly those fields. *)
LEMMA Extract ==
  ASSUME NEW a1, NEW a2, NEW a3, NEW a4, NEW a5, NEW a6, NEW a7, NEW a8,
         NEW a9, NEW a10, NEW a11, PartsOK(<<a1, a2, a3, a4, a5, a6, a7, a8, a9, a10, a11>>)
  PROVE  IsWord(Compose(<<a1, a2, a3, a4, a5, a6, a7, a8, a9, a10, a11>>)) /\ Parts(Compose(<<a1, a2, a3, a4, a5, a6, a7, a8, a9, a10, a11>>)) = <<a1, a2, a3, a4, a5, a6, a7, a8, a9, a10, a11>>
<1>0. /\ a1 \in Nat /\ a1 < 8 /\ a2 \in Nat /\ a2 < 2 /\ a3 \in Nat /\ a3 < 2
      /\ a4 \in Nat /\ a4 < 2 /\ a5 \in Nat /\ a5 < 2 /\ a6 \in Nat /\ a6 < 2
      /\ a7 \in Nat /\ a7 < 2 /\ a8 \in Nat /\ a8 < 2 /\ a9 \in Nat /\ a9 < 4
      /\ a10 \in Nat /\ a10 < 4 /\ a11 \in Nat /\ a11 < 4
  BY DEF PartsOK
<1>1. PICK w : w = Compose(<<a1, a2, a3, a4, a5, a6, a7, a8, a9, a10, a11>>) OBVIOUS
<1>2. w = a1 + 8 * a2 + 16 * a3 + 32 * a4 + 64 * a5 + 128 * a6 + 256 * a7 + 512 * a8 + 1024 * a9 + 4096 * a10 + 16384 * a11 BY <1>1 DEF Compose
<1>3. IsWord(w) BY <1>0, <1>2 DEF IsWord
<1>4. w % 8 = a1
  <2>1. a2 + 2 * a3 + 4 * a4 + 8 * a5 + 16 * a6 + 32 * a7 + 64 * a8 + 128 * a9 + 512 * a10 + 2048 * a11 \in Nat BY <1>0
  <2>2. w = a1 + 8 * (a2 + 2 * a3 + 4 * a4 + 8 * a5 + 16 * a6 + 32 * a7 + 64 * a8 + 128 * a9 + 512 * a10 + 2048 * a11) BY <1>0, <1>2
  <2>. QED BY <1>0, <2>1, <2>2, DivSplit
<1>5. (w \div 8) % 2 = a2
  <2>1. PICK lo \in Nat : lo = a1 BY <1>0
  <2>2. PICK hi \in Nat : hi = a3 + 2 * a4 + 4 * a5 + 8 * a6 + 16 * a7 + 32 * a8 + 64 * a9 + 256 * a10 + 1024 * a11 BY <1>0
  <2>3. PICK X \in Nat : X = a2 + 2 * hi BY <1>0, <2>2
  <2>4. lo < 8 /\ a2 \in Nat /\ a2 < 2 BY <1>0, <2>1
  <2>5. w = lo + 8 * X BY <1>0, <1>2, <2>1, <2>2, <2>3
  <2>. QED BY <2>3, <2>4, <2>5, FieldSplit
<1>6. (w \div 16) % 2 = a3
  <2>1. PICK lo \in Nat : lo = a1 + 8 * a2 BY <1>0
  <2>2. PICK hi \in Nat : hi = a4 + 2 * a5 + 4 * a6 + 8 * a7 + 16 * a8 + 32 * a9 + 128 * a10 + 512 * a11 BY <1>0
  <2>3. PICK X \in Nat : X = a3 + 2 * hi BY <1>0, <2>2
  <2>4. lo < 16 /\ a3 \in Nat /\ a3 < 2 BY <1>0, <2>1
  <2>5. w = lo + 16 * X BY <1>0, <1>2, <2>1, <2>2, <2>3
  <2>. QED BY <2>3, <2>4, <2>5, FieldSplit
<1>7. (w \div 32) % 2 = a4
  <2>1. PICK lo \in Nat : lo = a1 + 8 * a2 + 16 * a3 BY <1>0
  <2>2. PICK hi \in Nat : hi = a5 + 2 * a6 + 4 * a7 + 8 * a8 + 16 * a9 + 64 * a10 + 256 * a11 BY <1>0
  <2>3. PICK X \in Nat : X = a4 + 2 * hi BY <1>0, <2>2
  <2>4. lo < 32 /\ a4 \in Nat /\ a4 < 2 BY <1>0, <2>1
  <2>5. w = lo + 32 * X BY <1>0, <1>2, <2>1, <2>2, <2>3
  <2>. QED BY <2>3, <2>4, <2>5, FieldSplit
<1>8. (w \div 64) % 2 = a5
  <2>1. PICK lo \in Nat : lo = a1 + 8 * a2 + 16 * a3 + 32 * a4 BY <1>0
  <2>2. PICK hi \in Nat : hi = a6 + 2 * a7 + 4 * a8 + 8 * a9 + 32 * a10 + 128 * a11 BY <1>0
  <2>3. PICK X \in Nat : X = a5 + 2 * hi BY <1>0, <2>2
  <2>4. lo < 64 /\ a5 \in Nat /\ a5 < 2 BY <1>0, <2>1
  <2>5. w = lo + 64 * X BY <1>0, <1>2, <2>1, <2>2, <2>3
  <2>. QED BY <2>3, <2>4, <2>5, FieldSplit
<1>9. (w \div 128) % 2 = a6
  <2>1. PICK lo \in Nat : lo = a1 + 8 * a2 + 16 * a3 + 32 * a4 + 64 * a5 BY <1>0
  <2>2. PICK hi \in Nat : hi = a7 + 2 * a8 + 4 * a9 + 16 * a10 + 64 * a11 BY <1>0
  <2>3. PICK X \in Nat : X = a6 + 2 * hi BY <1>0, <2>2
  <2>4. lo < 128 /\ a6 \in Nat /\ a6 < 2 BY <1>0, <2>1
  <2>5. w = lo + 128 * X BY <1>0, <1>2, <2>1, <2>2, <2>3
  <2>. QED BY <2>3, <2>4, <2>5, FieldSplit
<1>10. (w \div 256) % 2 = a7
  <2>1. PICK lo \in Nat : lo = a1 + 8 * a2 + 16 * a3 + 32 * a4 + 64 * a5 + 128 * a6 BY <1>0
  <2>2. PICK hi \in Nat : hi = a8 + 2 * a9 + 8 * a10 + 32 * a11 BY <1>0
  <2>3. PICK X \in Nat : X = a7 + 2 * hi BY <1>0, <2>2
  <2>4. lo < 256 /\ a7 \in Nat /\ a7 < 2 BY <1>0, <2>1
  <2>5. w = lo + 256 * X BY <1>0, <1>2, <2>1, <2>2, <2>3
  <2>. QED BY <2>3, <2>4, <2>5, FieldSplit
<1>11. (w \div 512) % 2 = a8
  <2>1. PICK lo \in Nat : lo = a1 + 8 * a2 + 16 * a3 + 32 * a4 + 64 * a5 + 128 * a6 + 256 * a7 BY <1>0
  <2>2. PICK hi \in Nat : hi = a9 + 4 * a10 + 16 * a11 BY <1>0
  <2>3. PICK X \in Nat : X = a8 + 2 * hi BY <1>0, <2>2
  <2>4. lo < 512 /\ a8 \in Nat /\ a8 < 2 BY <1>0, <2>1
  <2>5. w = lo + 512 * X BY <1>0, <1>2, <2>1, <2>2, <2>3
  <2>. QED BY <2>3, <2>4, <2>5, FieldSplit
<1>12. (w \div 1024) % 4 = a9
  <2>1. PICK lo \in Nat : lo = a1 + 8 * a2 + 16 * a3 + 32 * a4 + 64 * a5 + 128 * a6 + 256 * a7 + 512 * a8 BY <1>0
  <2>2. PICK hi \in Nat : hi = a10 + 4 * a11 BY <1>0
  <2>3. PICK X \in Nat : X = a9 + 4 * hi BY <1>0, <2>2
  <2>4. lo < 1024 /\ a9 \in Nat /\ a9 < 4 BY <1>0, <2>1
  <2>5. w = lo + 1024 * X BY <1>0, <1>2, <2>1, <2>2, <2>3
  <2>. QED BY <2>3, <2>4, <2>5, FieldSplit
<1>13. (w \div 4096) % 4 = a10
  <2>1. PICK lo \in Nat : lo = a1 + 8 * a2 + 16 * a3 + 32 * a4 + 64 * a5 + 128 * a6 + 256 * a7 + 512 * a8 + 1024 * a9 BY <1>0
  <2>2. PICK hi \in Nat : hi = a11 BY <1>0
  <2>3. PICK X \in Nat : X = a10 + 4 * hi BY <1>0, <2>2
  <2>4. lo < 4096 /\ a10 \in Nat /\ a10 < 4 BY <1>0, <2>1
  <2>5. w = lo + 4096 * X BY <1>0, <1>2, <2>1, <2>2, <2>3
  <2>. QED BY <2>3, <2>4, <2>5, FieldSplit
<1>14. (w \div 16384) % 4 = a11
  <2>1. PICK lo \in Nat : lo = a1 + 8 * a2 + 16 * a3 + 32 * a4 + 64 * a5 + 128 * a6 + 256 * a7 + 512 * a8 + 1024 * a9 + 4096 * a10 BY <1>0
  <2>2. PICK hi \in Nat : hi = 0 BY <1>0
  <2>3. PICK X \in Nat : X = a11 + 4 * hi BY <1>0, <2>2
  <2>4. lo < 16384 /\ a11 \in Nat /\ a11 < 4 BY <1>0, <2>1
  <2>5. w = lo + 16384 * X BY <1>0, <1>2, <2>1, <2>2, <2>3
  <2>. QED BY <2>3, <2>4, <2>5, FieldSplit
<1>. QED BY <1>1, <1>3, <1>4, <1>5, <1>6, <1>7, <1>8, <1>9, <1>10, <1>11, <1>12, <1>13, <1>14 DEF Parts

(* The multiplier of each field. *)
Weight == <<1, 8, 16, 32, 64, 128, 256, 512, 1024, 4096, 16384>>

(* Replacing field i of a u16 word by a value below its width gives the u16
   word that differs from it in field i alone. *)
LEMMA SetPart ==
  ASSUME NEW w, IsWord(w), NEW i \in 1..11, NEW x \in Nat, x < Width[i],
         NEW p, p = [Parts(w) EXCEPT ![i] = x]
  PROVE  /\ IsWord(Compose(p))
         /\ Parts(Compose(p)) = p
         /\ Compose(p) = w - Parts(w)[i] * Weight[i] + x * Weight[i]
<1>1. PartsOK(Parts(w)) /\ w = Compose(Parts(w)) BY Decompose
<1>2. PICK P : P = Parts(w) OBVIOUS
<1>3. p = [P EXCEPT ![i] = x] BY <1>2
<1>4. PICK b1, b2, b3, b4, b5, b6, b7, b8, b9, b10, b11 :
        b1 = P[1] /\ b2 = P[2] /\ b3 = P[3] /\ b4 = P[4] /\ b5 = P[5] /\ b6 = P[6] /\ b7 = P[7] /\ b8 = P[8] /\ b9 = P[9] /\ b10 = P[10] /\ b11 = P[11]
  OBVIOUS
<1>5. PICK a1, a2, a3, a4, a5, a6, a7, a8, a9, a10, a11 :
        a1 = p[1] /\ a2 = p[2] /\ a3 = p[3] /\ a4 = p[4] /\ a5 = p[5] /\ a6 = p[6] /\ a7 = p[7] /\ a8 = p[8] /\ a9 = p[9] /\ a10 = p[10] /\ a11 = p[11]
  OBVIOUS
<1>6. /\ a1 = IF i = 1 THEN x ELSE b1
      /\ a2 = IF i = 2 THEN x ELSE b2
      /\ a3 = IF i = 3 THEN x ELSE b3
      /\ a4 = IF i = 4 THEN x ELSE b4
      /\ a5 = IF i = 5 THEN x ELSE b5
      /\ a6 = IF i = 6 THEN x ELSE b6
      /\ a7 = IF i = 7 THEN x ELSE b7
      /\ a8 = IF i = 8 THEN x ELSE b8
      /\ a9 = IF i = 9 THEN x ELSE b9
      /\ a10 = IF i = 10 THEN x ELSE b10
      /\ a11 = IF i = 11 THEN x ELSE b11
  BY <1>2, <1>3, <1>4, <1>5 DEF Parts
<1>7. /\ b1 \in Nat /\ b1 < 8 /\ b2 \in Nat /\ b2 < 2
      /\ b3 \in Nat /\ b3 < 2 /\ b4 \in Nat /\ b4 < 2
      /\ b5 \in Nat /\ b5 < 2 /\ b6 \in Nat /\ b6 < 2
      /\ b7 \in Nat /\ b7 < 2 /\ b8 \in Nat /\ b8 < 2
      /\ b9 \in Nat /\ b9 < 4 /\ b10 \in Nat /\ b10 < 4
      /\ b11 \in Nat /\ b11 < 4
      /\ w = b1 + 8 * b2 + 16 * b3 + 32 * b4 + 64 * b5 + 128 * b6 + 256 * b7 + 512 * b8 + 1024 * b9 + 4096 * b10 + 16384 * b11
  BY <1>1, <1>2, <1>4 DEF PartsOK, Compose
<1>8. PartsOK(<<a1, a2, a3, a4, a5, a6, a7, a8, a9, a10, a11>>)
  BY <1>6, <1>7 DEF Width, PartsOK
<1>9. p = <<a1, a2, a3, a4, a5, a6, a7, a8, a9, a10, a11>> BY <1>2, <1>3, <1>5 DEF Parts
<1>10. IsWord(Compose(<<a1, a2, a3, a4, a5, a6, a7, a8, a9, a10, a11>>)) /\ Parts(Compose(<<a1, a2, a3, a4, a5, a6, a7, a8, a9, a10, a11>>)) = <<a1, a2, a3, a4, a5, a6, a7, a8, a9, a10, a11>>
  BY <1>8, Extract
<1>11. Compose(p) = a1 + 8 * a2 + 16 * a3 + 32 * a4 + 64 * a5 + 128 * a6 + 256 * a7 + 512 * a8 + 1024 * a9 + 4096 * a10 + 16384 * a11
  BY <1>9 DEF Compose
<1>12. Compose(p) = w - P[i] * Weight[i] + x * Weight[i]
  <2>1. CASE i = 1
    <3>1. P[i] = b1 /\ Weight[i] = 1 BY <2>1, <1>4 DEF Weight
    <3>. QED BY <2>1, <3>1, <1>6, <1>7, <1>11
  <2>2. CASE i = 2
    <3>1. P[i] = b2 /\ Weight[i] = 8 BY <2>2, <1>4 DEF Weight
    <3>. QED BY <2>2, <3>1, <1>6, <1>7, <1>11
  <2>3. CASE i = 3
    <3>1. P[i] = b3 /\ Weight[i] = 16 BY <2>3, <1>4 DEF Weight
    <3>. QED BY <2>3, <3>1, <1>6, <1>7, <1>11
  <2>4. CASE i = 4
    <3>1. P[i] = b4 /\ Weight[i] = 32 BY <2>4, <1>4 DEF Weight
    <3>. QED BY <2>4, <3>1, <1>6, <1>7, <1>11
  <2>5. CASE i = 5
    <3>1. P[i] = b5 /\ Weight[i] = 64 BY <2>5, <1>4 DEF Weight
    <3>. QED BY <2>5, <3>1, <1>6, <1>7, <1>11
  <2>6. CASE i = 6
    <3>1. P[i] = b6 /\ Weight[i] = 128 BY <2>6, <1>4 DEF Weight
    <3>. QED BY <2>6, <3>1, <1>6, <1>7, <1>11
  <2>7. CASE i = 7
    <3>1. P[i] = b7 /\ Weight[i] = 256 BY <2>7, <1>4 DEF Weight
    <3>. QED BY <2>7, <3>1, <1>6, <1>7, <1>11
  <2>8. CASE i = 8
    <3>1. P[i] = b8 /\ Weight[i] = 512 BY <2>8, <1>4 DEF Weight
    <3>. QED BY <2>8, <3>1, <1>6, <1>7, <1>11
  <2>9. CASE i = 9
    <3>1. P[i] = b9 /\ Weight[i] = 1024 BY <2>9, <1>4 DEF Weight
    <3>. QED BY <2>9, <3>1, <1>6, <1>7, <1>11
  <2>10. CASE i = 10
    <3>1. P[i] = b10 /\ Weight[i] = 4096 BY <2>10, <1>4 DEF Weight
    <3>. QED BY <2>10, <3>1, <1>6, <1>7, <1>11
  <2>11. CASE i = 11
    <3>1. P[i] = b11 /\ Weight[i] = 16384 BY <2>11, <1>4 DEF Weight
    <3>. QED BY <2>11, <3>1, <1>6, <1>7, <1>11
  <2>. QED BY <2>1, <2>2, <2>3, <2>4, <2>5, <2>6, <2>7, <2>8, <2>9, <2>10, <2>11
<1>. QED BY <1>2, <1>3, <1>9, <1>10, <1>12

-----------------------------------------------------------------------------
(* The two-byte buffer and the u16 word: from_le_bytes of two bytes is a u16
   word, and to_le_bytes of a u16 word gives two bytes that read back as it. *)
LEMMA LeBytes ==
  /\ \A b \in [1..2 -> Byte] : IsWord(from_le_bytes(b))
  /\ \A w : IsWord(w) => /\ to_le_bytes(w) \in [1..2 -> Byte]
                         /\ from_le_bytes(to_le_bytes(w)) = w
<1>1. ASSUME NEW b \in [1..2 -> Byte] PROVE IsWord(from_le_bytes(b))
  <2>1. b[1] \in Nat /\ b[1] < 256 /\ b[2] \in Nat /\ b[2] < 256 BY DEF Byte
  <2>. QED BY <2>1 DEF IsWord, from_le_bytes
<1>2. ASSUME NEW w, IsWord(w)
      PROVE  to_le_bytes(w) \in [1..2 -> Byte] /\ from_le_bytes(to_le_bytes(w)) = w
  <2>1. w % 256 \in Nat /\ w % 256 < 256 /\ w \div 256 \in Nat /\ w \div 256 < 256
    BY <1>2 DEF IsWord
  <2>2. w % 256 \in Byte /\ w \div 256 \in Byte BY <2>1 DEF Byte
  <2>3. w = (w % 256) + 256 * (w \div 256) BY <1>2 DEF IsWord
  <2>. QED BY <2>2, <2>3 DEF to_le_bytes, from_le_bytes
<1>. QED BY <1>1, <1>2

(* The four multi-bit setters, set_frame_type, set_dst_addressing_mode,
   set_frame_version and set_src_addressing_mode, replace one field of the
   word by the value masked to its width. *)
LEMMA ClearAndSetPart ==
  ASSUME NEW w, IsWord(w), NEW v \in Nat, NEW sh, NEW k, NEW i,
         \/ sh = 0 /\ k = 3 /\ i = 1
         \/ sh = 10 /\ k = 2 /\ i = 9
         \/ sh = 12 /\ k = 2 /\ i = 10
         \/ sh = 14 /\ k = 2 /\ i = 11
  PROVE  /\ IsWord(ClearAndSet(w, sh, k, v))
         /\ \A j \in 1..11 : j # i => Parts(ClearAndSet(w, sh, k, v))[j] = Parts(w)[j]
<1>1. w \in Nat BY DEF IsWord
<1>2. /\ 2^sh = Weight[i] /\ 2^k = Width[i] /\ i \in 1..11
      /\ Field(w, sh, k) = Parts(w)[i]
  <2>1. CASE sh = 0 /\ k = 3 /\ i = 1 BY <1>1, <2>1, Pow, FieldIsPart DEF Weight, Width
  <2>2. CASE sh = 10 /\ k = 2 /\ i = 9 BY <1>1, <2>2, Pow, FieldIsPart DEF Weight, Width
  <2>3. CASE sh = 12 /\ k = 2 /\ i = 10 BY <1>1, <2>3, Pow, FieldIsPart DEF Weight, Width
  <2>4. CASE sh = 14 /\ k = 2 /\ i = 11 BY <1>1, <2>4, Pow, FieldIsPart DEF Weight, Width
  <2>. QED BY <2>1, <2>2, <2>3, <2>4
<1>3. PICK m \in Nat \ {0} : m = 2^k BY <1>2 DEF Width
<1>4. v % m \in Nat /\ v % m < m BY <1>3
<1>5. PICK p : p = [Parts(w) EXCEPT ![i] = v % m] OBVIOUS
<1>6. /\ IsWord(Compose(p))
      /\ Parts(Compose(p)) = p
      /\ Compose(p) = w - Parts(w)[i] * Weight[i] + (v % m) * Weight[i]
  <2>1. PICK x : x = v % m OBVIOUS
  <2>2. x \in Nat /\ x < Width[i] BY <1>2, <1>3, <1>4, <2>1
  <2>3. p = [Parts(w) EXCEPT ![i] = x] BY <1>5, <2>1
  <2>4. i \in 1..11 BY <1>2
  <2>5. /\ IsWord(Compose(p))
        /\ Parts(Compose(p)) = p
        /\ Compose(p) = w - Parts(w)[i] * Weight[i] + x * Weight[i]
    BY <2>2, <2>3, <2>4, SetPart, ZenonT(60)
  <2>. QED BY <2>1, <2>5
<1>7. ClearAndSet(w, sh, k, v) = Compose(p) BY <1>2, <1>3, <1>6 DEF ClearAndSet
<1>8. \A j \in 1..11 : j # i => p[j] = Parts(w)[j] BY <1>5 DEF Parts
<1>. QED BY <1>6, <1>7, <1>8

(* The six boolean setters set one bit when asked to and otherwise leave
   the word as it is. *)
LEMMA OrBitPart ==
  ASSUME NEW w, IsWord(w), NEW b \in BOOLEAN, NEW sh, NEW i,
         \/ sh = 3 /\ i = 2
         \/ sh = 4 /\ i = 3
         \/ sh = 5 /\ i = 4
         \/ sh = 6 /\ i = 5
         \/ sh = 8 /\ i = 7
         \/ sh = 9 /\ i = 8
  PROVE  /\ IsWord(OrBit(w, sh, b))
         /\ \A j \in 1..11 : j # i => Parts(OrBit(w, sh, b))[j] = Parts(w)[j]
<1>1. w \in Nat BY DEF IsWord
<1>2. PartsOK(Parts(w)) BY Decompose
<1>3. /\ 2^sh = Weight[i] /\ Field(w, sh, 1) = Parts(w)[i] /\ i \in 1..11
      /\ Parts(w)[i] \in Nat /\ Parts(w)[i] < 2 /\ Width[i] = 2
  <2>1. CASE sh = 3 /\ i = 2 BY <1>1, <1>2, <2>1, Pow, FieldIsPart DEF Weight, PartsOK, Width
  <2>2. CASE sh = 4 /\ i = 3 BY <1>1, <1>2, <2>2, Pow, FieldIsPart DEF Weight, PartsOK, Width
  <2>3. CASE sh = 5 /\ i = 4 BY <1>1, <1>2, <2>3, Pow, FieldIsPart DEF Weight, PartsOK, Width
  <2>4. CASE sh = 6 /\ i = 5 BY <1>1, <1>2, <2>4, Pow, FieldIsPart DEF Weight, PartsOK, Width
  <2>5. CASE sh = 8 /\ i = 7 BY <1>1, <1>2, <2>5, Pow, FieldIsPart DEF Weight, PartsOK, Width
  <2>6. CASE sh = 9 /\ i = 8 BY <1>1, <1>2, <2>6, Pow, FieldIsPart DEF Weight, PartsOK, Width
  <2>. QED BY <2>1, <2>2, <2>3, <2>4, <2>5, <2>6
<1>4. PICK x : x = IF b THEN 1 ELSE Parts(w)[i] OBVIOUS
<1>5. x \in Nat /\ x < Width[i] BY <1>3, <1>4
<1>6. PICK p : p = [Parts(w) EXCEPT ![i] = x] OBVIOUS
<1>8. /\ IsWord(Compose(p))
      /\ Parts(Compose(p)) = p
      /\ Compose(p) = w - Parts(w)[i] * Weight[i] + x * Weight[i]
  <2>1. i \in 1..11 BY <1>3
  <2>. QED BY <2>1, <1>5, <1>6, SetPart, ZenonT(60)
<1>9. \A j \in 1..11 : j # i => p[j] = Parts(w)[j] BY <1>6 DEF Parts
<1>7. OrBit(w, sh, b) = w - Parts(w)[i] * Weight[i] + x * Weight[i]
  <2>1. CASE b /\ Parts(w)[i] = 0 BY <1>1, <1>3, <1>4, <2>1 DEF OrBit
  <2>2. CASE b /\ Parts(w)[i] = 1 BY <1>1, <1>3, <1>4, <2>2 DEF OrBit
  <2>3. CASE ~b BY <1>1, <1>3, <1>4, <2>3 DEF OrBit
  <2>. QED BY <1>3, <2>1, <2>2, <2>3
<1>. QED BY <1>7, <1>8, <1>9

-----------------------------------------------------------------------------
(* The ten getters, by name. *)
LEMMA FieldNames ==
  /\ Fields = {"frame_type", "security_enabled", "frame_pending", "ack_request", "pan_id_compression", "sequence_number_suppression", "information_elements_present", "dst_addressing_mode", "frame_version", "src_addressing_mode"}
  /\ \A f \in Fields : Idx[f] \in 1..11
  /\ \A f, g \in Fields : f # g => Idx[f] # Idx[g]
<1>1. Fields = {"frame_type", "security_enabled", "frame_pending", "ack_request", "pan_id_compression", "sequence_number_suppression", "information_elements_present", "dst_addressing_mode", "frame_version", "src_addressing_mode"} BY DEF Fields, View
<1>. QED BY <1>1 DEF Idx

(* Two words that agree on every field but the i-th agree on every getter
   that does not read the i-th field. *)
LEMMA ViewFrame ==
  ASSUME NEW w1, NEW w2, IsWord(w1), IsWord(w2), NEW i \in 1..11,
         \A j \in 1..11 : j # i => Parts(w1)[j] = Parts(w2)[j],
         NEW f \in Fields, Idx[f] # i
  PROVE  View(w1)[f] = View(w2)[f]
<1>1. w1 \in Nat /\ w2 \in Nat BY DEF IsWord
<1>2. Parts(w1)[Idx[f]] = Parts(w2)[Idx[f]] BY FieldNames
<1>3. /\ Field(w1, 0, 3) = Parts(w1)[1] /\ Field(w1, 3, 1) = Parts(w1)[2]
      /\ Field(w1, 4, 1) = Parts(w1)[3] /\ Field(w1, 5, 1) = Parts(w1)[4]
      /\ Field(w1, 6, 1) = Parts(w1)[5] /\ Field(w1, 8, 1) = Parts(w1)[7]
      /\ Field(w1, 9, 1) = Parts(w1)[8] /\ Field(w1, 10, 2) = Parts(w1)[9]
      /\ Field(w1, 12, 2) = Parts(w1)[10] /\ Field(w1, 14, 2) = Parts(w1)[11]
  BY <1>1, FieldIsPart
<1>4. /\ Field(w2, 0, 3) = Parts(w2)[1] /\ Field(w2, 3, 1) = Parts(w2)[2]
      /\ Field(w2, 4, 1) = Parts(w2)[3] /\ Field(w2, 5, 1) = Parts(w2)[4]
      /\ Field(w2, 6, 1) = Parts(w2)[5] /\ Field(w2, 8, 1) = Parts(w2)[7]
      /\ Field(w2, 9, 1) = Parts(w2)[8] /\ Field(w2, 10, 2) = Parts(w2)[9]
      /\ Field(w2, 12, 2) = Parts(w2)[10] /\ Field(w2, 14, 2) = Parts(w2)[11]
  BY <1>1, FieldIsPart
<1>5. CASE f = "frame_type"
  BY <1>2, <1>3, <1>4, <1>5 DEF View, frame_type, Idx
<1>6. CASE f = "security_enabled"
  BY <1>2, <1>3, <1>4, <1>6 DEF View, security_enabled, Idx
<1>7. CASE f = "frame_pending"
  BY <1>2, <1>3, <1>4, <1>7, SMTT(15) DEF View, frame_pending, Idx
<1>8. CASE f = "ack_request"
  BY <1>2, <1>3, <1>4, <1>8 DEF View, ack_request, Idx
<1>9. CASE f = "pan_id_compression"
  BY <1>2, <1>3, <1>4, <1>9 DEF View, pan_id_compression, Idx
<1>10. CASE f = "sequence_number_suppression"
  BY <1>2, <1>3, <1>4, <1>10 DEF View, sequence_number_suppression, Idx
<1>11. CASE f = "information_elements_present"
  BY <1>2, <1>3, <1>4, <1>11 DEF View, information_elements_present, Idx
<1>12. CASE f = "dst_addressing_mode"
  BY <1>2, <1>3, <1>4, <1>12 DEF View, dst_addressing_mode, Idx
<1>13. CASE f = "frame_version"
  BY <1>2, <1>3, <1>4, <1>13 DEF View, frame_version, Idx
<1>14. CASE f = "src_addressing_mode"
  BY <1>2, <1>3, <1>4, <1>14 DEF View, src_addressing_mode, Idx
<1>. QED BY FieldNames, <1>5, <1>6, <1>7, <1>8, <1>9, <1>10, <1>11, <1>12, <1>13, <1>14

-----------------------------------------------------------------------------
(* One setter call, seen through Store: if the new word is a u16 word that
   differs from the old one in the field the setter names at most, the step
   keeps the type invariant and disturbs no other getter. *)
LEMMA StoreStep ==
  ASSUME TypeOK, NEW nw, IsWord(nw), NEW F \in Fields, NEW v \in ArgsOf(F),
         \A j \in 1..11 : j # Idx[F] => Parts(nw)[j] = Parts(from_le_bytes(buf))[j],
         Store(nw, F, v)
  PROVE  TypeOK' /\ NonInterferenceStep
<1>1. IsWord(from_le_bytes(buf)) BY LeBytes DEF TypeOK
<1>2. buf' \in [1..2 -> Byte] /\ from_le_bytes(buf') = nw BY LeBytes DEF Store
<1>3. calls' \in 0..MaxCalls
  <2>1. calls \in 0..MaxCalls /\ calls < MaxCalls /\ calls' = calls + 1 /\ MaxCalls \in Nat
    BY InitAssumption DEF Store, TypeOK
  <2>. QED BY <2>1
<1>4. call' = [field |-> F, value |-> v] BY DEF Store
<1>5. TypeOK' BY <1>2, <1>3, <1>4 DEF TypeOK
<1>6. NonInterferenceStep
  <2>1. SUFFICES ASSUME NEW f \in Fields \ {F}
                 PROVE  View(nw)[f] = View(from_le_bytes(buf))[f]
    BY <1>2, <1>4 DEF NonInterferenceStep
  <2>2. Idx[f] # Idx[F] /\ Idx[F] \in 1..11 BY FieldNames
  <2>. QED BY <1>1, <2>2, ViewFrame
<1>. QED BY <1>5, <1>6

(* The words of InitAssumption are u16 words. *)
LEMMA InitWordsAreWords == \A w \in InitWords : IsWord(w)
BY InitAssumption DEF IsWord

(* A multi-bit setter step: Store of the word with one field replaced. *)
LEMMA ClearAndSetStep ==
  ASSUME TypeOK, NEW F \in Fields, NEW a \in ArgsOf(F), NEW c \in Nat,
         NEW sh, NEW k, NEW i, i = Idx[F],
         \/ sh = 0 /\ k = 3 /\ i = 1
         \/ sh = 10 /\ k = 2 /\ i = 9
         \/ sh = 12 /\ k = 2 /\ i = 10
         \/ sh = 14 /\ k = 2 /\ i = 11,
         Store(ClearAndSet(from_le_bytes(buf), sh, k, c), F, a)
  PROVE  TypeOK' /\ NonInterferenceStep
<1>1. PICK w : w = from_le_bytes(buf) OBVIOUS
<1>2. IsWord(w) BY <1>1, LeBytes DEF TypeOK
<1>3. PICK nw : nw = ClearAndSet(w, sh, k, c) OBVIOUS
<1>4. IsWord(nw) /\ \A j \in 1..11 : j # i => Parts(nw)[j] = Parts(w)[j]
  <2>1. CASE sh = 0 /\ k = 3 /\ i = 1 BY <2>1, <1>2, <1>3, ClearAndSetPart
  <2>2. CASE sh = 10 /\ k = 2 /\ i = 9 BY <2>2, <1>2, <1>3, ClearAndSetPart
  <2>3. CASE sh = 12 /\ k = 2 /\ i = 10 BY <2>3, <1>2, <1>3, ClearAndSetPart, SMTT(15)
  <2>4. CASE sh = 14 /\ k = 2 /\ i = 11 BY <2>4, <1>2, <1>3, ClearAndSetPart
  <2>. QED BY <2>1, <2>2, <2>3, <2>4
<1>. QED BY <1>1, <1>3, <1>4, StoreStep

(* A boolean setter step: Store of the word with at most one bit set. *)
LEMMA OrBitStep ==
  ASSUME TypeOK, NEW F \in Fields, NEW b \in BOOLEAN, b \in ArgsOf(F),
         NEW sh, NEW i, i = Idx[F],
         \/ sh = 3 /\ i = 2
         \/ sh = 4 /\ i = 3
         \/ sh = 5 /\ i = 4
         \/ sh = 6 /\ i = 5
         \/ sh = 8 /\ i = 7
         \/ sh = 9 /\ i = 8,
         Store(OrBit(from_le_bytes(buf), sh, b), F, b)
  PROVE  TypeOK' /\ NonInterferenceStep
<1>1. PICK w : w = from_le_bytes(buf) OBVIOUS
<1>2. IsWord(w) BY <1>1, LeBytes DEF TypeOK
<1>3. PICK nw : nw = OrBit(w, sh, b) OBVIOUS
<1>4. IsWord(nw) /\ \A j \in 1..11 : j # i => Parts(nw)[j] = Parts(w)[j]
  BY <1>2, <1>3, OrBitPart
<1>. QED BY <1>1, <1>3, <1>4, StoreStep

(* Every step of the view, a new view or any of the ten setters, keeps the
   type invariant and disturbs no getter but the one of the field it sets. *)
LEMMA NextStep ==
  ASSUME TypeOK, [Next]_vars
  PROVE  TypeOK' /\ NonInterferenceStep
<1>1. CASE \E w \in InitWords : new_unchecked(w)
  <2>1. PICK w \in InitWords : new_unchecked(w) BY <1>1
  <2>2. IsWord(w)
    BY InitWordsAreWords
  <2>3. buf' \in [1..2 -> Byte] BY <2>1, <2>2, LeBytes DEF new_unchecked
  <2>4. calls' \in 0..MaxCalls BY <2>1, InitAssumption DEF new_unchecked
  <2>5. call' = NoCall /\ "none" \notin Fields BY <2>1, FieldNames DEF new_unchecked
  <2>. QED BY <2>3, <2>4, <2>5 DEF TypeOK, NoCall, NonInterferenceStep
<1>2. CASE \E ft \in FrameTypes : set_frame_type(ft)
  <2>1. PICK ft \in FrameTypes : set_frame_type(ft) BY <1>2
  <2>2. /\ "frame_type" \in Fields /\ ft \in ArgsOf("frame_type")
        /\ FrameTypeCode[ft] \in Nat /\ Idx["frame_type"] = 1
    BY FieldNames DEF ArgsOf, FrameTypes, FrameTypeCode, Idx
  <2>. QED BY <2>1, <2>2, ClearAndSetStep DEF set_frame_type
<1>3. CASE \E m \in AddressingModes : set_dst_addressing_mode(m)
  <2>1. PICK m \in AddressingModes : set_dst_addressing_mode(m) BY <1>3
  <2>2. /\ "dst_addressing_mode" \in Fields /\ m \in ArgsOf("dst_addressing_mode")
        /\ AddressingModeCode[m] \in Nat /\ Idx["dst_addressing_mode"] = 9
    BY FieldNames DEF ArgsOf, AddressingModes, AddressingModeCode, Idx
  <2>. QED BY <2>1, <2>2, ClearAndSetStep DEF set_dst_addressing_mode
<1>4. CASE \E m \in AddressingModes : set_src_addressing_mode(m)
  <2>1. PICK m \in AddressingModes : set_src_addressing_mode(m) BY <1>4
  <2>2. /\ "src_addressing_mode" \in Fields /\ m \in ArgsOf("src_addressing_mode")
        /\ AddressingModeCode[m] \in Nat /\ Idx["src_addressing_mode"] = 11
    BY FieldNames DEF ArgsOf, AddressingModes, AddressingModeCode, Idx
  <2>. QED BY <2>1, <2>2, ClearAndSetStep DEF set_src_addressing_mode
<1>5. CASE \E v \in FrameVersions : set_frame_version(v)
  <2>1. PICK v \in FrameVersions : set_frame_version(v) BY <1>5
  <2>2. /\ "frame_version" \in Fields /\ v \in ArgsOf("frame_version")
        /\ FrameVersionCode[v] \in Nat /\ Idx["frame_version"] = 10
    BY FieldNames DEF ArgsOf, FrameVersions, FrameVersionCode, Idx
  <2>. QED BY <2>1, <2>2, ClearAndSetStep DEF set_frame_version
<1>6. CASE \E b \in BOOLEAN : set_security_enabled(b)
  <2>1. PICK b \in BOOLEAN : set_security_enabled(b) BY <1>6
  <2>2. "security_enabled" \in Fields /\ b \in ArgsOf("security_enabled") /\ Idx["security_enabled"] = 2
    BY FieldNames DEF ArgsOf, Idx
  <2>. QED BY <2>1, <2>2, OrBitStep DEF set_security_enabled
<1>7. CASE \E b \in BOOLEAN : set_frame_pending(b)
  <2>1. PICK b \in BOOLEAN : set_frame_pending(b) BY <1>7
  <2>2. "frame_pending" \in Fields /\ b \in ArgsOf("frame_pending") /\ Idx["frame_pending"] = 3
    BY FieldNames DEF ArgsOf, Idx
  <2>. QED BY <2>1, <2>2, OrBitStep DEF set_frame_pending
<1>8. CASE \E b \in BOOLEAN : set_ack_request(b)
  <2>1. PICK b \in BOOLEAN : set_ack_request(b) BY <1>8
  <2>2. "ack_request" \in Fields /\ b \in ArgsOf("ack_request") /\ Idx["ack_request"] = 4
    BY FieldNames DEF ArgsOf, Idx
  <2>. QED BY <2>1, <2>2, OrBitStep DEF set_ack_request
<1>9. CASE \E b \in BOOLEAN : set_pan_id_compression(b)
  <2>1. PICK b \in BOOLEAN : set_pan_id_compression(b) BY <1>9
  <2>2. "pan_id_compression" \in Fields /\ b \in ArgsOf("pan_id_compression") /\ Idx["pan_id_compression"] = 5
    BY FieldNames DEF ArgsOf, Idx
  <2>. QED BY <2>1, <2>2, OrBitStep DEF set_pan_id_compression
<1>10. CASE \E b \in BOOLEAN : set_sequence_number_suppression(b)
  <2>1. PICK b \in BOOLEAN : set_sequence_number_suppression(b) BY <1>10
  <2>2. "sequence_number_suppression" \in Fields /\ b \in ArgsOf("sequence_number_suppression") /\ Idx["sequence_number_suppression"] = 7
    BY FieldNames DEF ArgsOf, Idx
  <2>. QED BY <2>1, <2>2, OrBitStep DEF set_sequence_number_suppression
<1>11. CASE \E b \in BOOLEAN : set_information_elements_present(b)
  <2>1. PICK b \in BOOLEAN : set_information_elements_present(b) BY <1>11
  <2>2. "information_elements_present" \in Fields /\ b \in ArgsOf("information_elements_present") /\ Idx["information_elements_present"] = 8
    BY FieldNames DEF ArgsOf, Idx
  <2>. QED BY <2>1, <2>2, OrBitStep DEF set_information_elements_present
<1>12. CASE UNCHANGED vars
  BY <1>12 DEF TypeOK, NonInterferenceStep, vars
<1>. QED BY <1>1, <1>2, <1>3, <1>4, <1>5, <1>6, <1>7, <1>8, <1>9, <1>10, <1>11, <1>12 DEF Next

-----------------------------------------------------------------------------
(* The view's state is always well formed: two bytes, a call count within
   MaxCalls, and a last call naming a field and a value its setter takes. *)
THEOREM TypeCorrect == Spec => []TypeOK
<1>1. Init => TypeOK
  <2>1. SUFFICES ASSUME Init PROVE TypeOK OBVIOUS
  <2>2. PICK w \in InitWords : buf = to_le_bytes(w) BY <2>1 DEF Init
  <2>3. IsWord(w)
    BY InitWordsAreWords
  <2>4. buf \in [1..2 -> Byte] BY <2>2, <2>3, LeBytes
  <2>5. calls \in 0..MaxCalls BY <2>1, InitAssumption DEF Init
  <2>. QED BY <2>1, <2>4, <2>5 DEF Init, TypeOK, NoCall
<1>2. TypeOK /\ [Next]_vars => TypeOK' BY NextStep
<1>. QED BY <1>1, <1>2, PTL DEF Spec

(* Spec 4.1, for every set of initial words and every bound: no setter of
   frame_control.rs ever changes what another field's getter returns. *)
THEOREM NonInterferenceHolds == Spec => NonInterference
<1>1. TypeOK /\ [Next]_vars => [NonInterferenceStep]_vars BY NextStep
<1>. QED BY TypeCorrect, <1>1, PTL DEF NonInterference, Spec
=============================================================================
