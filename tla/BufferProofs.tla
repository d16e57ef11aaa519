---------------------------- MODULE BufferProofs ----------------------------
(***************************************************************************)
(* Proofs about Buffer, for any page size, any limit on memory and any     *)
(* data: the block is never overrun, formatting is begun again at most     *)
(* once, and the buffer is a (lossy) byte queue.                           *)
(***************************************************************************)
EXTENDS Buffer, SequenceTheorems, TLAPS

(* Rounding up never rounds down.                                          *)
LEMMA RoundUpBounds ==
    ASSUME NEW n \in Nat
    PROVE  RoundUp(n) \in Nat /\ RoundUp(n) >= n
<1>1. Page \in Nat /\ Page > 0
  BY BufferAssumption
<1>2. (n \div Page + 1) * Page >= n
  BY <1>1
<1>3. n \div Page \in Nat
  BY <1>1
<1>4. (n \div Page + 1) * Page \in Nat
  BY <1>1, <1>3
<1> QED
  BY <1>2, <1>4 DEF RoundUp

(* Asking for n bytes gives at least n, or leaves the block as it was.     *)
LEMMA SetSize ==
    ASSUME size \in Nat, NEW n \in Nat, NEW r \in buffer_set_size(n)
    PROVE  /\ r[1] \in Nat /\ r[2] \in Int
           /\ r[2] = -1 => r[1] = size
           /\ r[2] # -1 => r[1] >= n
<1>1. RoundUp(n) \in Nat /\ RoundUp(n) >= n
  BY RoundUpBounds
<1> QED
  BY <1>1, BufferAssumption DEF buffer_set_size

(* Appending adds up the lengths.                                          *)
LEMMA Appended ==
    ASSUME NEW s \in Seq(Byte), NEW d \in Seq(Byte)
    PROVE  s \o d \in Seq(Byte) /\ Len(s \o d) = Len(s) + Len(d) /\ Len(d) \in Nat
BY ConcatProperties, LenProperties

(* What follows the first k bytes.                                         *)
LEMMA Remainder ==
    ASSUME NEW s \in Seq(Byte), NEW k \in 0 .. Len(s)
    PROVE  /\ SubSeq(s, k + 1, Len(s)) \in Seq(Byte)
           /\ Len(SubSeq(s, k + 1, Len(s))) = Len(s) - k
<1>1. Len(s) \in Nat /\ k + 1 \in 1 .. Len(s) + 1 /\ Len(s) \in k .. Len(s)
  BY LenProperties
<1> QED
  BY <1>1, SubSeqProperties

(* Inserting adds up the lengths too.                                      *)
LEMMA Inserted ==
    ASSUME NEW s \in Seq(Byte), NEW d \in Seq(Byte), NEW k \in 0 .. Len(s)
    PROVE  LET t == SubSeq(s, 1, k) \o d \o SubSeq(s, k + 1, Len(s)) IN
           t \in Seq(Byte) /\ Len(t) = Len(s) + Len(d)
<1> DEFINE front == SubSeq(s, 1, k)
           back == SubSeq(s, k + 1, Len(s))
<1>0. Len(s) \in Nat /\ Len(d) \in Nat /\ k \in Nat
  BY LenProperties
<1>1. front \in Seq(Byte) /\ Len(front) = k
  BY <1>0, SubSeqProperties
<1>2. back \in Seq(Byte) /\ Len(back) = Len(s) - k
  BY Remainder
<1>3. front \o d \in Seq(Byte) /\ Len(front \o d) = k + Len(d)
  BY <1>1, Appended
<1>4. (front \o d) \o back \in Seq(Byte) /\ Len((front \o d) \o back) = (k + Len(d)) + (Len(s) - k)
  BY <1>2, <1>3, Appended
<1>5. (k + Len(d)) + (Len(s) - k) = Len(s) + Len(d)
  BY <1>0
<1> HIDE DEF front, back
<1>6. (front \o d) \o back \in Seq(Byte) /\ Len((front \o d) \o back) = Len(s) + Len(d)
  BY <1>4, <1>5
<1> QED
  BY <1>6 DEF front, back

-----------------------------------------------------------------------------
(* The text being formatted is one that was handed in.                     *)
PendingText == tries > 0 => text \in Texts

BufferInv == TypeOK /\ WithinBlock /\ RetryOnce /\ PendingText

(* The space, the count and the bytes of the buffer agree in every
   reachable state. *)
LEMMA BufferInvariant == Spec => []BufferInv
<1>1. Init => BufferInv
  BY BufferAssumption DEF Init, BufferInv, TypeOK, WithinBlock, RetryOnce, PendingText,
     Operations, Asked, used
<1>2. BufferInv /\ [Next]_vars => BufferInv'
  <2> SUFFICES ASSUME BufferInv, [Next]_vars PROVE BufferInv'
    OBVIOUS
  <2> USE DEF BufferInv, TypeOK, WithinBlock, RetryOnce, PendingText, Operations, Idle, used, Done, Asked
  <2>A. Texts \subseteq Seq(Byte) /\ Sizes \subseteq Nat
    BY BufferAssumption
  <2>B. Len(data) \in Nat /\ \A d \in Texts : Len(d) \in Nat
    BY <2>A, LenProperties
  <2>C. <<>> \in Seq(Byte) /\ Len(<<>>) = 0
    OBVIOUS
  <2>1. CASE buffer_init
    <3>1. PICK n \in Sizes : \E r \in buffer_set_size(n) :
             /\ size' = r[1]
             /\ data' = IF r[2] = -1 THEN data ELSE <<>>
             /\ Done("clear", <<>>, 0, r[2])
      BY <2>1 DEF buffer_init
    <3>1a. PICK r \in buffer_set_size(n) :
             /\ size' = r[1]
             /\ data' = IF r[2] = -1 THEN data ELSE <<>>
             /\ Done("clear", <<>>, 0, r[2])
      BY <3>1
    <3>2. r[1] \in Nat /\ r[2] \in Int /\ (r[2] = -1 => r[1] = size)
      BY <2>A, <3>1a, SetSize
    <3> QED
      BY <2>1, <2>B, <2>C, <3>1a, <3>2 DEF buffer_init
  <2>2. CASE buffer_release
    BY <2>2, <2>C DEF buffer_release
  <2>3. CASE buffer_append
    <3>1. PICK d \in Texts :
          \/ /\ Len(d) <= size - used
             /\ data' = data \o d
             /\ Done("put", d, 0, Len(d))
             /\ UNCHANGED size
          \/ /\ Len(d) > size - used
             /\ \E r \in buffer_set_size(used + Len(d)) :
                   /\ size' = r[1]
                   /\ data' = IF r[2] = -1 THEN data ELSE data \o d
                   /\ Done("put", d, 0, IF r[2] = -1 THEN -1 ELSE Len(d))
      BY <2>3 DEF buffer_append
    <3>2. data \o d \in Seq(Byte) /\ Len(data \o d) = Len(data) + Len(d) /\ Len(d) \in Nat
      BY <2>A, Appended
    <3>3. CASE Len(d) <= size - used /\ data' = data \o d /\ Done("put", d, 0, Len(d)) /\ UNCHANGED size
      BY <2>3, <2>B, <3>2, <3>3 DEF buffer_append
    <3>4. ASSUME NEW r \in buffer_set_size(used + Len(d)),
                 size' = r[1], data' = IF r[2] = -1 THEN data ELSE data \o d,
                 Done("put", d, 0, IF r[2] = -1 THEN -1 ELSE Len(d))
          PROVE  BufferInv'
      <4>1. used + Len(d) \in Nat
        BY <2>B, <3>2
      <4>2. r[1] \in Nat /\ (r[2] = -1 => r[1] = size) /\ (r[2] # -1 => r[1] >= used + Len(d))
        BY <4>1, SetSize
      <4> QED
        BY <2>3, <2>B, <3>2, <3>4, <4>2 DEF buffer_append
    <3> QED
      BY <3>1, <3>3, <3>4
  <2>4. CASE buffer_append_vprintf
    BY <2>4, <2>A DEF buffer_append_vprintf
  <2>5. CASE FormatFits
    <3>1. /\ data \o text \in Seq(Byte) /\ Len(data \o text) = Len(data) + Len(text)
          /\ Len(text) \in Nat
      BY Appended
    <3> QED
      BY <2>5, <2>B, <2>C, <3>1 DEF FormatFits
  <2>6. CASE FormatCut
    <3>1. Len(text) \in Nat /\ used + Len(text) + 1 \in Nat
      BY <2>B, LenProperties
    <3>2. PICK r \in buffer_set_size(used + Len(text) + 1) :
             /\ size' = r[1]
             /\ IF r[2] = -1
                THEN Done("put", text, 0, -1) /\ text' = <<>> /\ tries' = 0
                ELSE tries' = tries + 1 /\ UNCHANGED <<op, result, text>>
      BY <2>6 DEF FormatCut
    <3>3. /\ r[1] \in Nat /\ (r[2] = -1 => r[1] = size)
          /\ r[2] # -1 => r[1] >= used + Len(text) + 1
      BY <3>1, SetSize
    <3>4. tries = 1
      BY <2>6 DEF FormatCut
    <3>5. CASE r[2] = -1
      <4>1. /\ size' = size /\ data' = data /\ op' = Asked("refuse", <<>>, 0)
            /\ result' = -1 /\ text' = <<>> /\ tries' = 0
        BY <2>6, <3>2, <3>3, <3>5 DEF FormatCut
      <4>2. op' \in Operations
        BY <2>C, <4>1
      <4> QED
        BY <2>C, <4>1, <4>2
    <3>6. CASE r[2] # -1
      <4>1. /\ tries' = 2 /\ size' = r[1] /\ UNCHANGED <<op, result, text, data>>
        BY <2>6, <3>2, <3>4, <3>6 DEF FormatCut
      <4>2. Len(text) < size' - Len(data) /\ Len(data) <= size'
        BY <2>B, <3>1, <3>3, <3>6, <4>1
      <4> QED
        BY <2>6, <3>3, <4>1, <4>2 DEF FormatCut
    <3> QED
      BY <3>5, <3>6
  <2>7. CASE buffer_insert
    <3>1a. PICK d \in Texts, offset \in 0 .. used + 1 : \E r \in buffer_set_size(size + Len(d)) :
          /\ size' = r[1]
          /\ IF r[2] = -1 \/ used - offset < 0
             THEN UNCHANGED data /\ Done("insert", d, offset, -1)
             ELSE /\ data' = SubSeq(data, 1, offset) \o d \o SubSeq(data, offset + 1, used)
                  /\ Done("insert", d, offset, Len(d))
      BY <2>7 DEF buffer_insert
    <3>1. PICK r \in buffer_set_size(size + Len(d)) :
          /\ size' = r[1]
          /\ IF r[2] = -1 \/ used - offset < 0
             THEN UNCHANGED data /\ Done("insert", d, offset, -1)
             ELSE /\ data' = SubSeq(data, 1, offset) \o d \o SubSeq(data, offset + 1, used)
                  /\ Done("insert", d, offset, Len(d))
      BY <3>1a
    <3>2. /\ size + Len(d) \in Nat /\ Len(d) \in Nat /\ d \in Seq(Byte)
      BY <2>A, <2>B
    <3>3. /\ r[1] \in Nat /\ (r[2] = -1 => r[1] = size)
          /\ r[2] # -1 => r[1] >= size + Len(d)
      BY <3>2, SetSize
    <3>4. r[1] >= used
      BY <2>B, <3>2, <3>3
    <3>5. CASE r[2] = -1 \/ used - offset < 0
      <4>1. data' = data /\ op' = Asked("refuse", <<>>, 0) /\ result' = -1 /\ size' = r[1]
        BY <3>1, <3>5
      <4> QED
        BY <2>7, <3>3, <3>4, <4>1 DEF buffer_insert
    <3>6. CASE ~(r[2] = -1 \/ used - offset < 0)
      <4>1. offset \in 0 .. Len(data)
        BY <2>B, <3>6
      <4>2. data' \in Seq(Byte) /\ Len(data') = Len(data) + Len(d)
        BY ZenonT(40), <3>1, <3>2, <3>6, <4>1, Inserted
      <4> QED
        BY SMTT(30), <2>7, <2>B, <3>1, <3>2, <3>3, <3>6, <4>2 DEF buffer_insert
    <3> QED
      BY <3>5, <3>6
  <2>8. CASE buffer_shift
    <3>1. PICK offset \in 0 .. used :
          /\ data' = IF offset = 0 \/ offset < used - offset
                     THEN SubSeq(data, offset + 1, used)
                     ELSE <<>>
          /\ Done("take", <<>>, offset, Len(data'))
      BY <2>8 DEF buffer_shift
    <3>2. /\ SubSeq(data, offset + 1, used) \in Seq(Byte)
          /\ Len(SubSeq(data, offset + 1, used)) = Len(data) - offset
      BY Remainder
    <3>3. data' \in Seq(Byte) /\ Len(data') \in Nat /\ Len(data') <= Len(data)
      BY <2>B, <2>C, <3>1, <3>2
    <3> QED
      BY <2>8, <2>B, <3>1, <3>3 DEF buffer_shift
  <2>9. CASE Receive
    <3>1. PICK d \in Texts : Len(d) <= size - used /\ data' = data \o d /\ Done("put", d, 0, Len(d))
      BY <2>9 DEF Receive
    <3>2. data \o d \in Seq(Byte) /\ Len(data \o d) = Len(data) + Len(d) /\ Len(d) \in Nat
      BY <2>A, Appended
    <3> QED
      BY <2>9, <2>B, <3>1, <3>2 DEF Receive
  <2>10. CASE UNCHANGED vars
    BY <2>10 DEF vars
  <2> QED
    BY <2>1, <2>2, <2>3, <2>4, <2>5, <2>6, <2>7, <2>8, <2>9, <2>10 DEF Next
<1> QED
  BY <1>1, <1>2, PTL DEF Spec

(* The size is a natural number, the data are bytes, and every operation   *)
(* is recorded with the data and the offset it was called with.  (Numbers  *)
(* are not bounded here by the width of int32_t.)                          *)
THEOREM TypeCorrect == Spec => []TypeOK
BY BufferInvariant, PTL DEF BufferInv

(* What is in use never exceeds the block, whatever is appended, inserted, *)
(* received or shifted, and whichever reallocations fail.                  *)
THEOREM NeverOverrun == Spec => []WithinBlock
BY BufferInvariant, PTL DEF BufferInv

(* Formatting that was cut short succeeds the second time.                 *)
THEOREM RetriedOnce == Spec => []RetryOnce
BY BufferInvariant, PTL DEF BufferInv

(* Every step of the buffer is a step of the lossy byte queue, or none.    *)
LEMMA QueueStep ==
    ASSUME BufferInv, Next
    PROVE  Queue!Next \/ UNCHANGED <<data, op>>
<1> USE DEF Done, Asked, used, Queue!Asked
<1>A. /\ data \in Seq(Byte) /\ text \in Seq(Byte) /\ Texts \subseteq Seq(Byte)
      /\ Len(data) \in Nat /\ Len(text) # -1 /\ \A d \in Texts : Len(d) # -1
      /\ tries > 0 => text \in Texts
  BY BufferAssumption, LenProperties DEF BufferInv, TypeOK, PendingText
<1>1. CASE buffer_init
  BY <1>1 DEF buffer_init, Queue!Next, Queue!Clear, Queue!Refuse
<1>2. CASE buffer_release
  BY <1>2 DEF buffer_release, Queue!Next, Queue!Clear, Queue!Refuse
<1>3. CASE buffer_append
  <2>1. \E d \in Texts :
           \/ data' = data \o d /\ op' = Asked("put", d, 0)
           \/ data' = data /\ op' = Asked("refuse", <<>>, 0)
    BY <1>A, <1>3 DEF buffer_append
  <2> QED
    BY <2>1 DEF Queue!Next, Queue!Put, Queue!Refuse
<1>4. CASE buffer_append_vprintf
  BY <1>4 DEF buffer_append_vprintf
<1>5. CASE FormatFits
  <2>1. text \in Texts /\ data' = data \o text /\ op' = Asked("put", text, 0)
    BY <1>A, <1>5 DEF FormatFits
  <2> QED
    BY <2>1 DEF Queue!Next, Queue!Put
<1>6. CASE FormatCut
  BY <1>6 DEF FormatCut, Queue!Next, Queue!Refuse
<1>7. CASE buffer_insert
  <2>1. PICK d \in Texts, offset \in 0 .. used + 1 :
           \/ data' = data /\ op' = Asked("refuse", <<>>, 0)
           \/ /\ ~(used - offset < 0)
              /\ data' = SubSeq(data, 1, offset) \o d \o SubSeq(data, offset + 1, used)
              /\ op' = Asked("insert", d, offset)
    BY <1>A, <1>7 DEF buffer_insert
  <2>2. ~(used - offset < 0) => offset \in 0 .. Len(data)
    BY <1>A
  <2> QED
    BY <2>1, <2>2 DEF Queue!Next, Queue!Insert, Queue!Refuse
<1>8. CASE buffer_shift
  <2>1. PICK offset \in 0 .. Len(data) :
          /\ data' = IF offset = 0 \/ offset < Len(data) - offset
                     THEN SubSeq(data, offset + 1, Len(data))
                     ELSE <<>>
          /\ Done("take", <<>>, offset, Len(data'))
    BY <1>8 DEF buffer_shift
  <2>2. Len(data') # -1
    BY <1>A, <2>1, Remainder
  <2>3. op' = Asked("take", <<>>, offset)
    BY <2>1, <2>2
  <2>4. CASE offset = 0 \/ offset < Len(data) - offset
    BY <2>1, <2>3, <2>4 DEF Queue!Next, Queue!Take
  <2>5. CASE ~(offset = 0 \/ offset < Len(data) - offset)
    <3>1. offset \in 1 .. Len(data) /\ offset >= Len(data) - offset /\ data' = <<>>
      BY <1>A, <2>1, <2>5
    <3>2. CASE offset = Len(data)
      <4>1. Len(SubSeq(data, offset + 1, Len(data))) = 0
        BY <1>A, <3>2, Remainder
      <4>2. data' = SubSeq(data, offset + 1, Len(data))
        BY <3>1, <4>1, Remainder, EmptySeq
      <4> QED
        BY <2>3, <4>2 DEF Queue!Next, Queue!Take
    <3>3. CASE offset # Len(data)
      <4>1. offset \in 1 .. Len(data) - 1
        BY <1>A, <3>1, <3>3
      <4> QED
        BY <2>3, <3>1, <4>1 DEF Queue!Next, Queue!Discard
    <3> QED
      BY <3>2, <3>3
  <2> QED
    BY <2>4, <2>5
<1>9. CASE Receive
  <2>1. \E d \in Texts : data' = data \o d /\ op' = Asked("put", d, 0)
    BY <1>A, <1>9 DEF Receive
  <2> QED
    BY <2>1 DEF Queue!Next, Queue!Put
<1> QED
  BY <1>1, <1>2, <1>3, <1>4, <1>5, <1>6, <1>7, <1>8, <1>9 DEF Next

(* The buffer implements the lossy byte queue, operation by operation: a   *)
(* shift takes as many bytes as it is asked for and keeps the others in    *)
(* order, unless no more than that would remain, which it discards.        *)
THEOREM ImplementsQueue == Spec => IsByteQueue
<1>1. Init => Queue!Init
  BY DEF Init, Queue!Init, Asked, Queue!Asked
<1>2. BufferInv /\ [Next]_vars => [Queue!Next]_(Queue!vars)
  BY QueueStep DEF vars, Queue!vars
<1> QED
  BY <1>1, <1>2, BufferInvariant, PTL DEF Spec, IsByteQueue, Queue!Spec

(* An operation that returns -1 leaves the data as they were.              *)
THEOREM FailureAtomic == Spec => FailureKeepsData
<1>1. BufferInv /\ [Next]_vars => [op'.name = "refuse" => data' = data]_vars
  <2> SUFFICES ASSUME BufferInv, Next PROVE op'.name = "refuse" => data' = data
    OBVIOUS
  <2> QED
    BY QueueStep DEF Queue!Next, Queue!Clear, Queue!Put, Queue!Insert, Queue!Take,
       Queue!Discard, Queue!Refuse, Queue!Asked
<1> QED
  BY <1>1, BufferInvariant, PTL DEF Spec, FailureKeepsData
=============================================================================
