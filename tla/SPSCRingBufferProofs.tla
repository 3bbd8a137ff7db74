------------------------- MODULE SPSCRingBufferProofs -------------------------
(***************************************************************************)
(* SPSCRingBuffer is a race-free bounded queue for every capacity that     *)
(* divides the modulus of size_t.                                          *)
(***************************************************************************)
EXTENDS SPSCRingBuffer, SequenceTheorems, TLAPS

(* What the assumption on the constants says in linear arithmetic.         *)
LEMMA Sizes ==
  /\ Capacity \in Nat /\ Capacity > 0
  /\ Modulus \in Nat /\ Modulus >= 2 * Capacity
  /\ Index = 0..Modulus - 1
  /\ Slots = 0..Capacity - 1
  <1>1. PICK k \in 2..Modulus : Modulus = k * Capacity
    BY RingAssumption
  <1>2. k * Capacity >= 2 * Capacity
    BY <1>1, RingAssumption
  <1> QED
    BY <1>1, <1>2, RingAssumption DEF Index, Slots

(* size_t subtraction, as the two cases of the wrap.                       *)
LEMMA DiffValue ==
  ASSUME NEW i \in Index, NEW j \in Index
  PROVE  Diff(i, j) = IF i >= j THEN i - j ELSE i - j + Modulus
  BY Sizes DEF Diff

(* A masked index is a valid index of buffer_.                             *)
LEMMA SlotType ==
  ASSUME NEW i \in Index
  PROVE  Slot(i) \in Slots
  BY Sizes DEF Slot

(* Two indices less than Capacity apart are in different slots: this is    *)
(* what makes the capacity test enough, and where Capacity must divide     *)
(* Modulus.                                                                *)
LEMMA SlotsDiffer ==
  ASSUME NEW i \in Index, NEW j \in Index, Slot(i) = Slot(j),
         Diff(i, j) < Capacity
  PROVE  i = j
  BY Sizes, RingAssumption DEF Slot, Diff

(* Moving an end of the window by one.                                     *)
LEMMA DiffSteps ==
  ASSUME NEW h \in Index, NEW t \in Index
  PROVE  /\ Diff(h, t) \in 0..Modulus - 1
         /\ Add(h, 1) \in Index
         /\ Diff(h, t) = 0 <=> h = t
         /\ Diff(h, t) < Capacity => Diff(Add(h, 1), t) = Diff(h, t) + 1
         /\ Diff(h, t) > 0 => Diff(h, Add(t, 1)) = Diff(h, t) - 1
  <1>1. /\ Add(h, 1) \in Index
        /\ Add(h, 1) = IF h + 1 < Modulus THEN h + 1 ELSE h + 1 - Modulus
    BY Sizes DEF Add
  <1>2. /\ Add(t, 1) \in Index
        /\ Add(t, 1) = IF t + 1 < Modulus THEN t + 1 ELSE t + 1 - Modulus
    BY Sizes DEF Add
  <1>3. Diff(h, t) = IF h >= t THEN h - t ELSE h - t + Modulus
    BY DiffValue
  <1>4. Diff(Add(h, 1), t) = IF Add(h, 1) >= t THEN Add(h, 1) - t ELSE Add(h, 1) - t + Modulus
    BY <1>1, DiffValue
  <1>5. Diff(h, Add(t, 1)) = IF h >= Add(t, 1) THEN h - Add(t, 1) ELSE h - Add(t, 1) + Modulus
    BY <1>2, DiffValue
  <1>6. Diff(h, t) \in 0..Modulus - 1 /\ (Diff(h, t) = 0 <=> h = t)
    BY <1>3, Sizes
  <1>7. Diff(h, t) < Capacity => Diff(Add(h, 1), t) = Diff(h, t) + 1
    BY <1>1, <1>3, <1>4, Sizes
  <1>8. Diff(h, t) > 0 => Diff(h, Add(t, 1)) = Diff(h, t) - 1
    BY <1>2, <1>3, <1>5, Sizes
  <1> QED
    BY <1>1, <1>6, <1>7, <1>8

(* The k-th index of the window that starts at t.                          *)
LEMMA WindowIndex ==
  ASSUME NEW h \in Index, NEW t \in Index, NEW k \in 0..Capacity
  PROVE  /\ Add(t, k) \in Index
         /\ Diff(Add(t, k), t) = k
         /\ k <= Diff(h, t) => Diff(h, Add(t, k)) = Diff(h, t) - k
         /\ k = Diff(h, t) => Add(t, k) = h
         /\ Add(t, 0) = t
         /\ k < Capacity => Add(Add(t, 1), k) = Add(t, k + 1)
  <1>1. /\ Add(t, k) \in Index
        /\ Add(t, k) = IF t + k < Modulus THEN t + k ELSE t + k - Modulus
        /\ Add(t, 0) = t
    BY Sizes DEF Add
  <1>2. Diff(h, t) = IF h >= t THEN h - t ELSE h - t + Modulus
    BY DiffValue
  <1>3. Diff(Add(t, k), t) = IF Add(t, k) >= t THEN Add(t, k) - t ELSE Add(t, k) - t + Modulus
    BY <1>1, DiffValue
  <1>4. Diff(h, Add(t, k)) = IF h >= Add(t, k) THEN h - Add(t, k) ELSE h - Add(t, k) + Modulus
    BY <1>1, DiffValue
  <1>5. Diff(Add(t, k), t) = k
    BY <1>1, <1>3, Sizes
  <1>6. k <= Diff(h, t) => Diff(h, Add(t, k)) = Diff(h, t) - k
    BY <1>1, <1>2, <1>4, Sizes
  <1>7. k = Diff(h, t) => Add(t, k) = h
    BY <1>1, <1>2, Sizes
  <1>8. k < Capacity => Add(Add(t, 1), k) = Add(t, k + 1)
    <2>1. /\ Add(t, 1) \in Index
          /\ Add(t, 1) = IF t + 1 < Modulus THEN t + 1 ELSE t + 1 - Modulus
      BY Sizes DEF Add
    <2>2. ASSUME k < Capacity
          PROVE  Add(t, k + 1) = IF t + (k + 1) < Modulus THEN t + (k + 1)
                                 ELSE t + (k + 1) - Modulus
      BY <2>2, Sizes DEF Add
    <2>3. Add(Add(t, 1), k) = IF Add(t, 1) + k < Modulus THEN Add(t, 1) + k
                              ELSE Add(t, 1) + k - Modulus
      BY <2>1, Sizes DEF Add
    <2> QED
      BY <2>1, <2>2, <2>3, Sizes
  <1> QED
    BY <1>1, <1>5, <1>6, <1>7, <1>8

(* What a load of tail_ returns lies between the tail_ seen and tail_.     *)
LEMMA LoadTail ==
  ASSUME NEW h \in Index, NEW n \in Index, NEW s \in Index, NEW v \in Loadable(s, n),
         Diff(h, n) <= Diff(h, s), Diff(h, s) <= Capacity
  PROVE  v \in Index /\ Diff(h, n) <= Diff(h, v) /\ Diff(h, v) <= Diff(h, s)
  <1>1. v \in Index /\ Diff(n, v) <= Diff(n, s)
    BY DEF Loadable
  <1>2. /\ Diff(h, n) = IF h >= n THEN h - n ELSE h - n + Modulus
        /\ Diff(h, s) = IF h >= s THEN h - s ELSE h - s + Modulus
        /\ Diff(h, v) = IF h >= v THEN h - v ELSE h - v + Modulus
        /\ Diff(n, v) = IF n >= v THEN n - v ELSE n - v + Modulus
        /\ Diff(n, s) = IF n >= s THEN n - s ELSE n - s + Modulus
    BY <1>1, DiffValue
  <1> QED
    BY <1>1, <1>2, Sizes

(* What a load of head_ returns lies between tail_ and head_.              *)
LEMMA LoadHead ==
  ASSUME NEW t \in Index, NEW n \in Index, NEW s \in Index, NEW v \in Loadable(s, n),
         Diff(s, t) <= Diff(n, t), Diff(n, t) <= Capacity
  PROVE  v \in Index /\ Diff(v, t) <= Diff(n, t)
  <1>1. v \in Index /\ Diff(n, v) <= Diff(n, s)
    BY DEF Loadable
  <1>2. /\ Diff(n, t) = IF n >= t THEN n - t ELSE n - t + Modulus
        /\ Diff(s, t) = IF s >= t THEN s - t ELSE s - t + Modulus
        /\ Diff(v, t) = IF v >= t THEN v - t ELSE v - t + Modulus
        /\ Diff(n, v) = IF n >= v THEN n - v ELSE n - v + Modulus
        /\ Diff(n, s) = IF n >= s THEN n - s ELSE n - s + Modulus
    BY <1>1, DiffValue
  <1> QED
    BY <1>1, <1>2, Sizes

-----------------------------------------------------------------------------
(* Two slots of the window are the same only if their indices are.         *)
LEMMA WindowSlots ==
  ASSUME NEW h \in Index, NEW t \in Index, Diff(h, t) <= Capacity,
         NEW k \in 0..Capacity - 1, k < Diff(h, t)
  PROVE  /\ k > 0 => Slot(Add(t, k)) # Slot(t)
         /\ Diff(h, t) < Capacity => Slot(h) # Slot(Add(t, k))
  <1>1. Add(t, k) \in Index /\ Diff(Add(t, k), t) = k /\ Diff(h, Add(t, k)) = Diff(h, t) - k
    <2>1. Diff(h, t) \in 0..Modulus - 1
      BY DiffSteps
    <2>2. k \in 0..Capacity /\ k <= Diff(h, t)
      BY <2>1, Sizes
    <2> QED
      BY <2>2, WindowIndex
  <1>2. Diff(h, t) \in Nat /\ Diff(t, t) = 0 /\ Diff(h, h) = 0
    BY DiffSteps, Sizes
  <1>3. k > 0 => Slot(Add(t, k)) # Slot(t)
    BY <1>1, <1>2, SlotsDiffer, Sizes
  <1>4. Diff(h, t) < Capacity => Slot(h) # Slot(Add(t, k))
    BY <1>1, <1>2, SlotsDiffer, Sizes
  <1> QED
    BY <1>3, <1>4

(* The constructed ring satisfies the invariant.                           *)
LEMMA InitInv == Init => RingInv
  <1> SUFFICES ASSUME Init PROVE RingInv
    OBVIOUS
  <1>1. Diff(0, 0) = 0
    BY Sizes, DiffSteps
  <1>2. TypeOK
    BY Sizes DEF Init, TypeOK
  <1> QED
    BY <1>1, <1>2, Sizes DEF Init, RingInv, Window, NoDataRace, Contents

(* The linear-arithmetic facts every step uses.                            *)
LEMMA Distances ==
  ASSUME RingInv
  PROVE  /\ Diff(head, tail) \in 0..Capacity
         /\ Diff(head, tailSeen) \in 0..Capacity
         /\ Diff(headSeen, tail) \in 0..Capacity
  <1>1. /\ Diff(head, tail) \in 0..Modulus - 1
        /\ Diff(head, tailSeen) \in 0..Modulus - 1
        /\ Diff(headSeen, tail) \in 0..Modulus - 1
    BY DiffSteps DEF RingInv, TypeOK
  <1> QED
    BY <1>1, Sizes DEF RingInv, Window

LEMMA PushFullInv ==
  ASSUME RingInv, NEW t \in Loadable(tailSeen, tail), PushFull(t)
  PROVE  RingInv'
  <1>1. t \in Index /\ Diff(head, tail) <= Diff(head, t) /\ Diff(head, t) <= Diff(head, tailSeen)
    BY LoadTail DEF RingInv, TypeOK, Window
  <1>2. Diff(head, t) <= Capacity
    BY Sizes DEF PushFull, FullAt
  <1> QED
    BY <1>1, <1>2 DEF RingInv, TypeOK, Window, NoDataRace, Contents, PushFull, consumerVars

LEMMA PushCheckInv ==
  ASSUME RingInv, NEW t \in Loadable(tailSeen, tail), NEW x \in Items, PushCheck(x, t)
  PROVE  RingInv'
  <1>1. t \in Index /\ Diff(head, tail) <= Diff(head, t) /\ Diff(head, t) <= Diff(head, tailSeen)
    BY LoadTail DEF RingInv, TypeOK, Window
  <1>2. Diff(head, t) \in Nat /\ Diff(head, t) < Capacity
    <2>1. Diff(head, t) \in 0..Modulus - 1
      BY <1>1, DiffSteps DEF RingInv, TypeOK
    <2> QED
      BY <1>1, <2>1, Distances, Sizes DEF PushCheck, FullAt
  <1>3. TypeOK'
    BY <1>1 DEF RingInv, TypeOK, PushCheck, consumerVars
  <1>4. Window'
    BY <1>1, <1>2, Sizes DEF RingInv, Window, PushCheck, consumerVars
  <1>5. NoDataRace'
    <2>1. cpc = "move" => Slot(head) # Slot(tail)
      <3> SUFFICES ASSUME cpc = "move", Slot(head) = Slot(tail) PROVE FALSE
        OBVIOUS
      <3>1. 0 < Diff(headSeen, tail) /\ Diff(headSeen, tail) <= Diff(head, tail)
        BY DEF RingInv, NoDataRace, Window
      <3>2. Diff(head, tail) > 0 /\ Diff(head, tail) < Capacity
        BY <1>1, <1>2, <3>1, Distances, Sizes
      <3>3. head = tail
        BY <3>2, SlotsDiffer DEF RingInv, TypeOK
      <3> QED
        BY <3>2, <3>3, DiffSteps, Distances DEF RingInv, TypeOK
    <2> QED
      BY <1>2, <2>1 DEF RingInv, NoDataRace, PushCheck, consumerVars
  <1>6. Contents'
    BY DEF RingInv, Contents, PushCheck, consumerVars
  <1> QED
    BY <1>3, <1>4, <1>5, <1>6 DEF RingInv

LEMMA PushWriteInv ==
  ASSUME RingInv, PushWrite
  PROVE  RingInv'
  <1>1. TypeOK'
    BY SlotType DEF RingInv, TypeOK, PushWrite, consumerVars, Contents
  <1>2. Window'
    BY DEF RingInv, Window, PushWrite, consumerVars
  <1>3. NoDataRace'
    BY DEF RingInv, NoDataRace, PushWrite, consumerVars
  <1>4. Contents'
    <2>1. Diff(head, tail) < Capacity /\ Diff(head, tail) <= Capacity
      <3>1. Diff(head, tailSeen) < Capacity /\ Diff(head, tail) <= Diff(head, tailSeen)
        BY DEF RingInv, NoDataRace, Window, PushWrite
      <3> QED
        BY <3>1, Distances, Sizes
    <2>2. buffer' = [buffer EXCEPT ![Slot(head)] = item] /\ Slot(head) \in Slots
      BY SlotType DEF PushWrite, RingInv, TypeOK
    <2>3. ASSUME NEW k \in 0..Capacity - 1, k < Diff(head, tail), ~(k = 0 /\ cpc = "release")
          PROVE  buffer'[Slot(Add(tail, k))] \in Items
      <3>1. Slot(head) # Slot(Add(tail, k))
        BY <2>1, <2>3, WindowSlots DEF RingInv, TypeOK
      <3>2. buffer[Slot(Add(tail, k))] \in Items
        BY <2>3 DEF RingInv, Contents
      <3>3. k \in 0..Capacity
        BY Sizes
      <3>4. Slot(Add(tail, k)) \in Slots
        BY <3>3, WindowIndex, SlotType DEF RingInv, TypeOK
      <3> QED
        BY <2>2, <3>1, <3>2, <3>4 DEF RingInv, TypeOK
    <2>4. buffer'[Slot(head)] = item
      BY <2>2 DEF RingInv, TypeOK
    <2> QED
      BY <2>3, <2>4 DEF RingInv, Contents, PushWrite, consumerVars
  <1> QED
    BY <1>1, <1>2, <1>3, <1>4 DEF RingInv

LEMMA PushPublishInv ==
  ASSUME RingInv, PushPublish
  PROVE  RingInv'
  <1>1. /\ Diff(head, tailSeen) < Capacity
        /\ Diff(head, tail) < Capacity
    <2>1. Diff(head, tailSeen) < Capacity /\ Diff(head, tail) <= Diff(head, tailSeen)
      BY DEF RingInv, NoDataRace, Window, PushPublish
    <2> QED
      BY <2>1, Distances, Sizes
  <1>2. /\ head' = Add(head, 1) /\ head' \in Index
        /\ Diff(head', tailSeen) = Diff(head, tailSeen) + 1
        /\ Diff(head', tail) = Diff(head, tail) + 1
    BY <1>1, DiffSteps DEF RingInv, TypeOK, PushPublish
  <1>3. TypeOK'
    BY <1>2 DEF RingInv, TypeOK, PushPublish, consumerVars
  <1>4. Window'
    BY <1>1, <1>2, Distances, Sizes DEF RingInv, Window, PushPublish, consumerVars
  <1>5. NoDataRace'
    BY DEF RingInv, NoDataRace, PushPublish, consumerVars
  <1>6. Contents'
    <2>1. ASSUME NEW k \in 0..Capacity - 1, k < Diff(head, tail) + 1, ~(k = 0 /\ cpc = "release")
          PROVE  buffer[Slot(Add(tail, k))] \in Items
      <3>1. CASE k < Diff(head, tail)
        BY <2>1, <3>1 DEF RingInv, Contents
      <3>2. CASE ~(k < Diff(head, tail))
        <4>1. k = Diff(head, tail) /\ k \in 0..Capacity
          BY <2>1, <3>2, Distances, Sizes
        <4>2. Add(tail, k) = head
          BY <4>1, WindowIndex DEF RingInv, TypeOK
        <4> QED
          BY <4>2 DEF RingInv, Contents, PushPublish
      <3> QED
        BY <3>1, <3>2
    <2> QED
      BY <1>2, <2>1 DEF RingInv, Contents, PushPublish, consumerVars
  <1> QED
    BY <1>3, <1>4, <1>5, <1>6 DEF RingInv

LEMMA PopCheckInv ==
  ASSUME RingInv, NEW h \in Loadable(headSeen, head), PopEmpty(h) \/ PopCheck(h)
  PROVE  RingInv'
  <1>1. h \in Index /\ Diff(h, tail) <= Diff(head, tail)
    BY LoadHead, Distances DEF RingInv, TypeOK, Window
  <1>2. TypeOK'
    BY <1>1 DEF RingInv, TypeOK, PopEmpty, PopCheck, producerVars
  <1>3. Window'
    BY <1>1 DEF RingInv, Window, PopEmpty, PopCheck, producerVars
  <1>4. NoDataRace'
    <2>1. CASE PopEmpty(h)
      BY <2>1 DEF RingInv, TypeOK, NoDataRace, PopEmpty, producerVars
    <2>2. CASE PopCheck(h)
      <3>1. Diff(h, tail) \in 0..Modulus - 1 /\ Diff(h, tail) # 0
        BY <1>1, <2>2, DiffSteps DEF RingInv, TypeOK, PopCheck
      <3>2. Diff(h, tail) > 0 /\ Diff(head, tail) > 0
        BY <1>1, <3>1, Distances, Sizes
      <3>3. ppc = "write" => Slot(head) # Slot(tail)
        <4> SUFFICES ASSUME ppc = "write", Slot(head) = Slot(tail) PROVE FALSE
          OBVIOUS
        <4>1. Diff(head, tailSeen) < Capacity /\ Diff(head, tail) <= Diff(head, tailSeen)
          BY DEF RingInv, NoDataRace, Window
        <4>2. Diff(head, tail) < Capacity
          BY <4>1, Distances, Sizes
        <4>3. head = tail
          BY <4>2, SlotsDiffer DEF RingInv, TypeOK
        <4> QED
          BY <3>2, <4>3, DiffSteps, Distances DEF RingInv, TypeOK
      <3> QED
        BY <2>2, <3>2, <3>3 DEF RingInv, NoDataRace, PopCheck, producerVars
    <2> QED
      BY <2>1, <2>2
  <1>5. Contents'
    BY DEF RingInv, TypeOK, Contents, PopEmpty, PopCheck, producerVars
  <1> QED
    BY <1>2, <1>3, <1>4, <1>5 DEF RingInv

LEMMA PopMoveInv ==
  ASSUME RingInv, PopMove
  PROVE  RingInv'
  <1>1. Diff(head, tail) > 0
    <2>1. Diff(headSeen, tail) > 0 /\ Diff(headSeen, tail) <= Diff(head, tail)
      BY DEF RingInv, NoDataRace, Window, PopMove
    <2> QED
      BY <2>1, Distances, Sizes
  <1>2. buffer' = [buffer EXCEPT ![Slot(tail)] = None] /\ Slot(tail) \in Slots
    BY SlotType DEF RingInv, TypeOK, PopMove
  <1>3. moved' = buffer[Slot(tail)] /\ moved' \in Items
    <2>1. 0 \in 0..Capacity - 1 /\ 0 \in 0..Capacity
      BY Sizes
    <2>2. Add(tail, 0) = tail
      BY <2>1, WindowIndex DEF RingInv, TypeOK
    <2>3. buffer[Slot(Add(tail, 0))] \in Items
      BY <1>1, <2>1 DEF RingInv, Contents, PopMove
    <2> QED
      BY <2>2, <2>3 DEF PopMove
  <1>4. TypeOK'
    BY <1>2, <1>3 DEF RingInv, TypeOK, PopMove, producerVars
  <1>5. Window'
    BY DEF RingInv, Window, PopMove, producerVars
  <1>6. NoDataRace'
    BY DEF RingInv, NoDataRace, PopMove, producerVars
  <1>7. Contents'
    <2>1. ASSUME NEW k \in 0..Capacity - 1, k < Diff(head, tail), k # 0
          PROVE  buffer'[Slot(Add(tail, k))] \in Items
      <3>1. Slot(Add(tail, k)) # Slot(tail)
        <4>1. k > 0 /\ Diff(head, tail) <= Capacity
          BY <2>1, Distances, Sizes
        <4> QED
          BY <2>1, <4>1, WindowSlots DEF RingInv, TypeOK
      <3>2. buffer[Slot(Add(tail, k))] \in Items
        BY <2>1 DEF RingInv, Contents
      <3>3. k \in 0..Capacity
        BY Sizes
      <3>4. Slot(Add(tail, k)) \in Slots
        BY <3>3, WindowIndex, SlotType DEF RingInv, TypeOK
      <3> QED
        BY <1>2, <3>1, <3>2, <3>4 DEF RingInv, TypeOK
    <2>2. ppc = "publish" => buffer'[Slot(head)] = item
      <3> SUFFICES ASSUME ppc = "publish" PROVE buffer'[Slot(head)] = item
        OBVIOUS
      <3>1. Diff(head, tailSeen) < Capacity /\ Diff(head, tail) <= Diff(head, tailSeen)
        BY DEF RingInv, NoDataRace, Window
      <3>2. Diff(head, tail) < Capacity
        BY <3>1, Distances, Sizes
      <3>3. Slot(head) # Slot(tail)
        BY <1>1, <3>2, SlotsDiffer, DiffSteps, Distances DEF RingInv, TypeOK
      <3>4. buffer[Slot(head)] = item /\ Slot(head) \in Slots
        BY SlotType DEF RingInv, Contents, TypeOK
      <3> QED
        BY <1>2, <3>3, <3>4 DEF RingInv, TypeOK
    <2> QED
      BY <1>3, <2>1, <2>2 DEF RingInv, Contents, PopMove, producerVars
  <1> QED
    BY <1>4, <1>5, <1>6, <1>7 DEF RingInv

LEMMA PopReleaseInv ==
  ASSUME RingInv, PopRelease
  PROVE  RingInv'
  <1>1. Diff(headSeen, tail) > 0 /\ Diff(head, tail) > 0
    <2>1. Diff(headSeen, tail) > 0 /\ Diff(headSeen, tail) <= Diff(head, tail)
      BY DEF RingInv, NoDataRace, Window, PopRelease
    <2> QED
      BY <2>1, Distances, Sizes
  <1>2. /\ tail' = Add(tail, 1) /\ tail' \in Index
        /\ Diff(head, tail') = Diff(head, tail) - 1
        /\ Diff(headSeen, tail') = Diff(headSeen, tail) - 1
    BY <1>1, DiffSteps DEF RingInv, TypeOK, PopRelease
  <1>3. TypeOK'
    BY <1>2 DEF RingInv, TypeOK, PopRelease, producerVars
  <1>4. Window'
    BY <1>1, <1>2, Distances, Sizes DEF RingInv, Window, PopRelease, producerVars
  <1>5. NoDataRace'
    BY DEF RingInv, NoDataRace, PopRelease, producerVars
  <1>6. Contents'
    <2>1. ASSUME NEW k \in 0..Capacity - 1, k < Diff(head, tail) - 1
          PROVE  buffer[Slot(Add(tail', k))] \in Items
      <3>1. /\ k \in 0..Capacity /\ k < Capacity
            /\ k + 1 \in 0..Capacity - 1 /\ k + 1 < Diff(head, tail) /\ k + 1 # 0
        BY <2>1, Distances, Sizes
      <3>2. Add(tail', k) = Add(tail, k + 1)
        BY <1>2, <3>1, WindowIndex DEF RingInv, TypeOK
      <3> QED
        BY <3>1, <3>2 DEF RingInv, Contents
    <2> QED
      BY <1>2, <2>1 DEF RingInv, Contents, PopRelease, producerVars
  <1> QED
    BY <1>3, <1>4, <1>5, <1>6 DEF RingInv

(* Every step of try_push and try_pop preserves the invariant.             *)
LEMMA StepInv == RingInv /\ [Next]_vars => RingInv'
  <1> SUFFICES ASSUME RingInv, [Next]_vars PROVE RingInv'
    OBVIOUS
  <1>1. CASE TryPush
    BY <1>1, PushFullInv, PushCheckInv, PushWriteInv, PushPublishInv DEF TryPush
  <1>2. CASE TryPop
    BY <1>2, PopCheckInv, PopMoveInv, PopReleaseInv DEF TryPop
  <1>3. CASE UNCHANGED vars
    BY <1>3 DEF RingInv, TypeOK, Window, NoDataRace, Contents, vars, producerVars, consumerVars
  <1> QED
    BY <1>1, <1>2, <1>3 DEF Next

(* The ring keeps its invariant for every capacity that divides the        *)
(* modulus of size_t, whatever the indices wrap to.                        *)
THEOREM RingCorrect == Spec => []RingInv
  <1> QED
    BY InitInv, StepInv, PTL DEF Spec

(* The release and acquire accesses of try_push and try_pop order every    *)
(* access to buffer_: no slot is ever accessed by both threads unordered.  *)
THEOREM RaceFree == Spec => []NoDataRace
  <1>1. RingInv => NoDataRace
    BY DEF RingInv
  <1> QED
    BY <1>1, RingCorrect, PTL

-----------------------------------------------------------------------------
(* Sequences are equal when they have the same length and elements.        *)
LEMMA IsAppend ==
  ASSUME NEW S, NEW s \in Seq(S), NEW x \in S, NEW q \in Seq(S), Len(q) = Len(s) + 1,
         \A k \in 1..Len(s) : q[k] = s[k], q[Len(s) + 1] = x
  PROVE  q = Append(s, x)
  <1>1. Append(s, x) \in Seq(S) /\ Len(Append(s, x)) = Len(q)
    OBVIOUS
  <1>2. \A k \in 1..Len(q) : q[k] = Append(s, x)[k]
    OBVIOUS
  <1> QED
    BY <1>1, <1>2, SeqEqual

LEMMA IsTail ==
  ASSUME NEW S, NEW s \in Seq(S), s # <<>>, NEW q \in Seq(S), Len(q) = Len(s) - 1,
         \A k \in 1..Len(q) : q[k] = s[k + 1]
  PROVE  q = Tail(s)
  <1>1. Tail(s) \in Seq(S) /\ Len(Tail(s)) = Len(q)
    OBVIOUS
  <1>2. \A k \in 1..Len(q) : q[k] = Tail(s)[k]
    OBVIOUS
  <1> QED
    BY <1>1, <1>2, SeqEqual

(* The ring stands for a sequence of items as long as the window.          *)
LEMMA QueueShape ==
  RingInv => QueueOf \in Seq(Items) /\ Len(QueueOf) = Diff(head, tail)
  <1> SUFFICES ASSUME RingInv
               PROVE  QueueOf \in Seq(Items) /\ Len(QueueOf) = Diff(head, tail)
    OBVIOUS
  <1>1. ASSUME NEW k \in 1..Diff(head, tail) PROVE QueueOf[k] \in Items
    <2>1. k - 1 \in 0..Capacity - 1 /\ k - 1 < Diff(head, tail) /\ (k - 1 = 0 <=> k = 1)
      BY Distances, Sizes
    <2>2. ~(k = 1 /\ cpc = "release") => buffer[Slot(Add(tail, k - 1))] \in Items
      BY <2>1 DEF RingInv, Contents
    <2>3. k = 1 /\ cpc = "release" => moved \in Items
      BY DEF RingInv, Contents
    <2> QED
      BY <2>2, <2>3 DEF QueueOf
  <1>2. QueueOf \in [1..Diff(head, tail) -> Items]
    BY <1>1 DEF QueueOf
  <1>3. Diff(head, tail) \in Nat
    BY Distances, Sizes
  <1> QED
    BY <1>2, <1>3

LEMMA NextQueueShape ==
  RingInv' => (QueueOf \in Seq(Items) /\ Len(QueueOf) = Diff(head, tail))'
  BY QueueShape, PTL

(* Publishing head_ is the abstract push: it appends the item written.     *)
LEMMA PublishPushes ==
  ASSUME RingInv, RingInv', PushPublish
  PROVE  Queue!Push
  <1>1. item \in Items /\ buffer[Slot(head)] = item
    BY DEF RingInv, Contents, PushPublish
  <1>2. /\ Diff(head, tail) < Capacity
        /\ Diff(head', tail') = Diff(head, tail) + 1
        /\ Diff(head, tail) \in Nat
    <2>1. Diff(head, tailSeen) < Capacity /\ Diff(head, tail) <= Diff(head, tailSeen)
      BY DEF RingInv, NoDataRace, Window, PushPublish
    <2>2. Diff(head, tail) < Capacity /\ Diff(head, tail) \in Nat
      BY <2>1, Distances, Sizes
    <2>3. Diff(Add(head, 1), tail) = Diff(head, tail) + 1
      BY <2>2, DiffSteps DEF RingInv, TypeOK
    <2> QED
      BY <2>2, <2>3 DEF PushPublish, consumerVars
  <1>3. ASSUME NEW k \in 1..Diff(head, tail) PROVE QueueOf'[k] = QueueOf[k]
    BY <1>2 DEF QueueOf, PushPublish, consumerVars
  <1>4. QueueOf'[Diff(head, tail) + 1] = item
    <2>1. Diff(head, tail) \in 0..Capacity
      BY <1>2, Sizes
    <2>2. Add(tail, Diff(head, tail)) = head
      BY <2>1, WindowIndex DEF RingInv, TypeOK
    <2>3. Diff(head, tail) + 1 = 1 => cpc # "release"
      <3>1. cpc = "release" => 0 < Diff(headSeen, tail) /\ Diff(headSeen, tail) <= Diff(head, tail)
        BY DEF RingInv, NoDataRace, Window
      <3> QED
        BY <3>1, Distances, Sizes
    <2> QED
      BY <1>1, <1>2, <2>2, <2>3 DEF QueueOf, PushPublish, consumerVars
  <1>5. QueueOf' \in Seq(Items) /\ Len(QueueOf') = Diff(head, tail) + 1
    BY <1>2, NextQueueShape
  <1>6. QueueOf' = Append(QueueOf, item)
    BY <1>1, <1>2, <1>3, <1>4, <1>5, QueueShape, IsAppend
  <1> QED
    BY <1>1, <1>2, <1>6, QueueShape DEF Queue!Push, PushPublish, consumerVars

(* Releasing tail_ is the abstract pop: it returns and drops the oldest.   *)
LEMMA ReleasePops ==
  ASSUME RingInv, RingInv', PopRelease
  PROVE  Queue!Pop
  <1>1. Diff(head, tail) > 0 /\ Diff(head, tail) \in Nat /\ Diff(head, tail) <= Capacity
    <2>1. Diff(headSeen, tail) > 0 /\ Diff(headSeen, tail) <= Diff(head, tail)
      BY DEF RingInv, NoDataRace, Window, PopRelease
    <2> QED
      BY <2>1, Distances, Sizes
  <1>2. Diff(head', tail') = Diff(head, tail) - 1 /\ tail' = Add(tail, 1)
    BY <1>1, DiffSteps DEF RingInv, TypeOK, PopRelease, producerVars
  <1>3. QueueOf[1] = moved
    BY <1>1 DEF QueueOf, PopRelease
  <1>4. ASSUME NEW k \in 1..Diff(head, tail) - 1 PROVE QueueOf'[k] = QueueOf[k + 1]
    <2>1. /\ k - 1 \in 0..Capacity /\ k - 1 < Capacity /\ k - 1 + 1 = k
          /\ k + 1 \in 1..Diff(head, tail) /\ k + 1 # 1 /\ k + 1 - 1 = k
      BY <1>1, Sizes
    <2>2. Add(tail', k - 1) = Add(tail, k)
      BY <1>2, <2>1, WindowIndex DEF RingInv, TypeOK
    <2>3. QueueOf'[k] = buffer[Slot(Add(tail', k - 1))]
      BY <1>2 DEF QueueOf, PopRelease, producerVars
    <2>4. QueueOf[k + 1] = buffer[Slot(Add(tail, k))]
      BY <2>1 DEF QueueOf
    <2> QED
      BY <2>2, <2>3, <2>4
  <1>5. QueueOf' \in Seq(Items) /\ Len(QueueOf') = Diff(head, tail) - 1
    BY <1>2, NextQueueShape
  <1>6. QueueOf # <<>> /\ Head(QueueOf) = moved
    BY <1>1, <1>3, QueueShape
  <1>7. QueueOf' = Tail(QueueOf)
    BY <1>1, <1>4, <1>5, <1>6, QueueShape, IsTail
  <1> QED
    BY <1>6, <1>7 DEF Queue!Pop, PopRelease

(* Moving an item out of its slot does not change the abstract queue: the  *)
(* item is still at its front.                                             *)
LEMMA MoveStutters ==
  ASSUME RingInv, RingInv', PopMove
  PROVE  QueueOf' = QueueOf
  <1>1. Diff(head', tail') = Diff(head, tail)
    BY DEF PopMove, producerVars
  <1>2. Diff(head, tail) \in Nat /\ Diff(head, tail) <= Capacity
    BY Distances, Sizes
  <1>3. ASSUME NEW k \in 1..Diff(head, tail) PROVE QueueOf'[k] = QueueOf[k]
    <2>1. /\ k - 1 \in 0..Capacity - 1 /\ k - 1 \in 0..Capacity /\ k - 1 < Diff(head, tail)
          /\ k # 1 => k - 1 > 0
      BY <1>2, Sizes
    <2>2. CASE k = 1
      <3>1. Add(tail, 0) = tail
        BY <2>1, <2>2, WindowIndex DEF RingInv, TypeOK
      <3>2. QueueOf'[1] = moved'
        BY <1>1, <2>2 DEF QueueOf, PopMove
      <3>3. QueueOf[1] = buffer[Slot(Add(tail, 0))]
        BY <2>2 DEF QueueOf, PopMove
      <3> QED
        BY <2>2, <3>1, <3>2, <3>3 DEF PopMove
    <2>3. CASE k # 1
      <3>1. Slot(Add(tail, k - 1)) # Slot(tail)
        BY <1>2, <2>1, <2>3, WindowSlots DEF RingInv, TypeOK
      <3>2. Slot(Add(tail, k - 1)) \in Slots
        BY <2>1, WindowIndex, SlotType DEF RingInv, TypeOK
      <3>3. buffer'[Slot(Add(tail, k - 1))] = buffer[Slot(Add(tail, k - 1))]
        BY <3>1, <3>2 DEF RingInv, TypeOK, PopMove
      <3>4. QueueOf'[k] = buffer'[Slot(Add(tail, k - 1))]
        BY <1>1, <2>3 DEF QueueOf, PopMove, producerVars
      <3>5. QueueOf[k] = buffer[Slot(Add(tail, k - 1))]
        BY <2>3 DEF QueueOf
      <3> QED
        BY <3>3, <3>4, <3>5
    <2> QED
      BY <2>2, <2>3
  <1>4. QueueOf' \in Seq(Items) /\ Len(QueueOf') = Diff(head, tail)
    BY <1>1, NextQueueShape
  <1> QED
    BY <1>2, <1>3, <1>4, QueueShape, SeqEqual

(* Writing the slot at head_ does not change the abstract queue: the slot  *)
(* is outside the window until head_ is published.                         *)
LEMMA WriteStutters ==
  ASSUME RingInv, RingInv', PushWrite
  PROVE  QueueOf' = QueueOf
  <1>1. Diff(head', tail') = Diff(head, tail)
    BY DEF PushWrite, consumerVars
  <1>2. Diff(head, tail) \in Nat /\ Diff(head, tail) < Capacity /\ Diff(head, tail) <= Capacity
    <2>1. Diff(head, tailSeen) < Capacity /\ Diff(head, tail) <= Diff(head, tailSeen)
      BY DEF RingInv, NoDataRace, Window, PushWrite
    <2> QED
      BY <2>1, Distances, Sizes
  <1>3. ASSUME NEW k \in 1..Diff(head, tail) PROVE QueueOf'[k] = QueueOf[k]
    <2>1. k - 1 \in 0..Capacity - 1 /\ k - 1 \in 0..Capacity /\ k - 1 < Diff(head, tail)
      BY <1>2, Sizes
    <2>2. Slot(head) # Slot(Add(tail, k - 1))
      BY <1>2, <2>1, WindowSlots DEF RingInv, TypeOK
    <2>3. Slot(Add(tail, k - 1)) \in Slots
      BY <2>1, WindowIndex, SlotType DEF RingInv, TypeOK
    <2>4. buffer'[Slot(Add(tail, k - 1))] = buffer[Slot(Add(tail, k - 1))]
      BY <2>2, <2>3 DEF RingInv, TypeOK, PushWrite
    <2> QED
      BY <1>1, <2>4 DEF QueueOf, PushWrite, consumerVars
  <1>4. QueueOf' \in Seq(Items) /\ Len(QueueOf') = Diff(head, tail)
    BY <1>1, NextQueueShape
  <1> QED
    BY <1>2, <1>3, <1>4, QueueShape, SeqEqual

LEMMA StepRefines == RingInv /\ RingInv' /\ [Next]_vars => [Queue!Next]_<<QueueOf, popped>>
  <1> SUFFICES ASSUME RingInv, RingInv', [Next]_vars
               PROVE  Queue!Next \/ (QueueOf' = QueueOf /\ popped' = popped)
    OBVIOUS
  <1>1. ASSUME NEW t \in Loadable(tailSeen, tail), PushFull(t) \/ \E x \in Items : PushCheck(x, t)
        PROVE  QueueOf' = QueueOf /\ popped' = popped
    BY <1>1 DEF PushFull, PushCheck, QueueOf, consumerVars
  <1>2. ASSUME NEW h \in Loadable(headSeen, head), PopEmpty(h) \/ PopCheck(h)
        PROVE  QueueOf' = QueueOf /\ popped' = popped
    BY <1>2 DEF PopEmpty, PopCheck, QueueOf, producerVars
  <1>3. CASE PushWrite
    BY <1>3, WriteStutters DEF PushWrite, consumerVars
  <1>4. CASE PopMove
    BY <1>4, MoveStutters DEF PopMove
  <1>5. CASE PushPublish
    BY <1>5, PublishPushes DEF Queue!Next
  <1>6. CASE PopRelease
    BY <1>6, ReleasePops DEF Queue!Next
  <1>7. CASE UNCHANGED vars
    BY <1>7 DEF vars, producerVars, consumerVars, QueueOf
  <1> QED
    BY <1>1, <1>2, <1>3, <1>4, <1>5, <1>6, <1>7 DEF Next, TryPush, TryPop

(* For every capacity the ring implements a bounded first-in first-out     *)
(* queue: the processing thread pops exactly the messages the I/O thread   *)
(* pushed, in their order, and at most Capacity are in flight.             *)
THEOREM RingIsQueue == Spec => ImplementsQueue
  <1>1. Init => Queue!Init
    <2> SUFFICES ASSUME Init PROVE Queue!Init
      OBVIOUS
    <2>1. Len(QueueOf) = 0 /\ QueueOf \in Seq(Items)
      BY InitInv, QueueShape, DiffSteps, Sizes DEF Init
    <2> QED
      BY <2>1 DEF Init, Queue!Init
  <1> QED
    BY <1>1, RingCorrect, StepRefines, PTL DEF Spec, ImplementsQueue, Queue!Spec

(* Every index, view and slot keeps its type: an index that wraps stays a  *)
(* size_t, and the slots an access may touch are those of buffer_.         *)
THEOREM RingTypes == Spec => []TypeOK
  <1>1. RingInv => TypeOK
    BY DEF RingInv
  <1> QED
    BY <1>1, RingCorrect, PTL
=============================================================================
