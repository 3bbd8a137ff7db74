--------------------------- MODULE MCSPSCRingBuffer ---------------------------
(* SPSCRingBuffer with a 3-bit size_t, so that the indices wrap often.     *)
EXTENDS SPSCRingBuffer, Bitwise

(* The identity the header's comment relies on to replace % by &.          *)
ASSUME MaskIsModulo ==
  \A i \in Index : (i & (Capacity - 1)) = Slot(i)
=============================================================================
