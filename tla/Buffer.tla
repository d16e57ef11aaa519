------------------------------- MODULE Buffer -------------------------------
(***************************************************************************)
(* The growing byte buffer that holds what a connection has received and   *)
(* what a stream has to send (src/src/buffer.c, and its two users:         *)
(* aisl_client_input, which reads into the free space, and                 *)
(* aisl_client_output, which sends from the front).                        *)
(*                                                                         *)
(* data is the part of the block that is in use, buffer->data[0..used-1].  *)
(* The functions are not concurrent, but appending formatted text is tried *)
(* again after the block has grown, so it takes two steps here.            *)
(***************************************************************************)
EXTENDS Integers, Sequences

CONSTANTS
    Byte,         \* the bytes
    Texts,        \* the pieces of data handed to the buffer
    Page,         \* block sizes are rounded up to a multiple of it (4096)
    InitialSize,  \* the size given to who asks for none (16 * 1024)
    Sizes,        \* the sizes asked of buffer_init
    MemoryLimit,  \* the largest block that realloc can give: bounds the model
    OutOfMemory   \* whether realloc may fail below that limit

ASSUME BufferAssumption ==
    /\ Texts \subseteq Seq(Byte)
    /\ Page \in Nat \ {0}
    /\ InitialSize \in Nat \ {0}
    /\ Sizes \subseteq Nat
    /\ MemoryLimit \in Nat
    /\ OutOfMemory \in BOOLEAN

VARIABLES
    size,    \* buffer->size
    data,    \* the buffer->used bytes in use
    result,  \* what the last operation returned
    op,      \* history: the last operation, "refuse" when it returned -1,
             \* with the data and the offset it was called with
    text,    \* the text being formatted, while it is being appended
    tries    \* history: how often formatting that text was begun

vars == <<size, data, result, op, text, tries>>

used == Len(data)

(* Mutant of RoundUp: rounding down.                                       *)
RoundUp_down(n) == IF n % Page = 0 THEN n ELSE (n \div Page) * Page

RoundUp(n) == IF n % Page = 0 THEN n ELSE (n \div Page + 1) * Page

(* The block sizes and return values that asking for n bytes may lead to.  *)
(* Nothing is done only if a block of exactly n bytes is there.            *)
buffer_set_size(n) ==
    LET wanted == IF n = 0 THEN InitialSize ELSE RoundUp(n) IN
    IF size # 0 /\ n = size
    THEN {<<size, n>>}
    ELSE (IF wanted <= MemoryLimit THEN {<<wanted, wanted>>} ELSE {}) \cup
         (IF OutOfMemory \/ wanted > MemoryLimit THEN {<<size, -1>>} ELSE {})

Idle == tries = 0

Asked(name, piece, at) == [name |-> name, piece |-> piece, at |-> at]

(* An operation returns: a piece of data was handed in, an offset named.   *)
Done(name, piece, at, value) ==
    /\ op' = IF value = -1 THEN Asked("refuse", <<>>, 0) ELSE Asked(name, piece, at)
    /\ result' = value

Init ==
    /\ size = 0
    /\ data = <<>>
    /\ result = 0
    /\ op = Asked("clear", <<>>, 0)
    /\ text = <<>>
    /\ tries = 0

(* Mutant of buffer_init: emptied before the block is there.               *)
buffer_init_early ==
    /\ Idle
    /\ \E n \in Sizes : \E r \in buffer_set_size(n) :
          /\ size' = r[1]
          /\ data' = <<>>
          /\ Done("clear", <<>>, 0, r[2])
    /\ UNCHANGED <<text, tries>>

(* buffer_init gives the buffer a size and empties it.                     *)
buffer_init ==
    /\ Idle
    /\ \E n \in Sizes : \E r \in buffer_set_size(n) :
          /\ size' = r[1]
          /\ data' = IF r[2] = -1 THEN data ELSE <<>>
          /\ Done("clear", <<>>, 0, r[2])
    /\ UNCHANGED <<text, tries>>

buffer_release ==
    /\ Idle
    /\ size' = 0
    /\ data' = <<>>
    /\ Done("clear", <<>>, 0, 0)
    /\ UNCHANGED <<text, tries>>

(* buffer_append grows the block by what is missing.                       *)
buffer_append ==
    /\ Idle
    /\ \E d \in Texts :
          \/ /\ Len(d) <= size - used
             /\ data' = data \o d
             /\ Done("put", d, 0, Len(d))
             /\ UNCHANGED size
          \/ /\ Len(d) > size - used
             /\ \E r \in buffer_set_size(used + Len(d)) :
                   /\ size' = r[1]
                   /\ data' = IF r[2] = -1 THEN data ELSE data \o d
                   /\ Done("put", d, 0, IF r[2] = -1 THEN -1 ELSE Len(d))
    /\ UNCHANGED <<text, tries>>

(* buffer_append_printf and buffer_append_vprintf: vsnprintf needs room    *)
(* for the terminating zero too.                                           *)
buffer_append_vprintf ==
    /\ Idle
    /\ \E d \in Texts : text' = d
    /\ tries' = 1
    /\ UNCHANGED <<size, data, result, op>>

FormatFits ==
    /\ tries > 0
    /\ Len(text) < size - used
    /\ data' = data \o text
    /\ Done("put", text, 0, Len(text))
    /\ text' = <<>>
    /\ tries' = 0
    /\ UNCHANGED size

(* Mutant of FormatCut: the size is set to what was returned.              *)
FormatCut_unchecked ==
    /\ tries > 0
    /\ ~(Len(text) < size - used)
    /\ \E r \in buffer_set_size(used + Len(text) + 1) :
          /\ size' = r[2]
          /\ IF r[2] = -1
             THEN Done("put", text, 0, -1) /\ text' = <<>> /\ tries' = 0
             ELSE tries' = tries + 1 /\ UNCHANGED <<op, result, text>>
    /\ UNCHANGED data

(* Mutant of FormatCut: the terminating zero is forgotten.                 *)
FormatCut_no_zero ==
    /\ tries > 0
    /\ ~(Len(text) < size - used)
    /\ \E r \in buffer_set_size(used + Len(text)) :
          /\ size' = r[1]
          /\ IF r[2] = -1
             THEN Done("put", text, 0, -1) /\ text' = <<>> /\ tries' = 0
             ELSE tries' = tries + 1 /\ UNCHANGED <<op, result, text>>
    /\ UNCHANGED data

(* The text was cut short: the block grows and formatting begins anew.     *)
FormatCut ==
    /\ tries > 0
    /\ ~(Len(text) < size - used)
    /\ \E r \in buffer_set_size(used + Len(text) + 1) :
          /\ size' = r[1]
          /\ IF r[2] = -1
             THEN Done("put", text, 0, -1) /\ text' = <<>> /\ tries' = 0
             ELSE tries' = tries + 1 /\ UNCHANGED <<op, result, text>>
    /\ UNCHANGED data

(* vsnprintf itself fails: -1 is less than the space, and is added to the  *)
(* count.  (In an empty buffer the count would be -1.)                     *)
FormatFails ==
    /\ tries > 0
    /\ data # <<>>
    /\ data' = SubSeq(data, 1, used - 1)
    /\ Done("put", text, 0, -1)
    /\ text' = <<>>
    /\ tries' = 0
    /\ UNCHANGED size

(* buffer_insert always grows the block, and only then finds out whether   *)
(* the offset lies in the data.                                            *)
buffer_insert ==
    /\ Idle
    /\ \E d \in Texts, offset \in 0 .. used + 1 : \E r \in buffer_set_size(size + Len(d)) :
          /\ size' = r[1]
          /\ IF r[2] = -1 \/ used - offset < 0
             THEN UNCHANGED data /\ Done("insert", d, offset, -1)
             ELSE /\ data' = SubSeq(data, 1, offset) \o d \o SubSeq(data, offset + 1, used)
                  /\ Done("insert", d, offset, Len(d))
    /\ UNCHANGED <<text, tries>>

(* Mutant of buffer_shift: no rest is ever moved.                          *)
buffer_shift_empties ==
    /\ Idle
    /\ \E offset \in 0 .. used :
          /\ data' = IF offset = 0 THEN data ELSE <<>>
          /\ Done("take", <<>>, offset, Len(data'))
    /\ UNCHANGED <<size, text, tries>>

(* buffer_shift moves what follows the first offset bytes to the front if  *)
(* it is longer than they are, and drops it otherwise.                     *)
buffer_shift ==
    /\ Idle
    /\ \E offset \in 0 .. used :
          /\ data' = IF offset = 0 \/ offset < used - offset
                     THEN SubSeq(data, offset + 1, used)
                     ELSE <<>>
          /\ Done("take", <<>>, offset, Len(data'))
    /\ UNCHANGED <<size, text, tries>>

(* aisl_client_input receives into data[used .. size-1], at most the free  *)
(* space.                                                                  *)
Receive ==
    /\ Idle
    /\ \E d \in Texts :
          /\ Len(d) <= size - used
          /\ data' = data \o d
          /\ Done("put", d, 0, Len(d))
    /\ UNCHANGED <<size, text, tries>>

Next ==
    \/ buffer_init \/ buffer_release
    \/ buffer_append
    \/ buffer_append_vprintf \/ FormatFits \/ FormatCut
    \/ buffer_insert \/ buffer_shift
    \/ Receive

Spec == Init /\ [][Next]_vars

(* The same for an application that may pass formats or arguments that     *)
(* cannot be formatted.                                                    *)
BadFormatSpec == Init /\ [][Next \/ FormatFails]_vars

-----------------------------------------------------------------------------
(* Properties.                                                             *)

Operations == [name : {"clear", "put", "insert", "take", "refuse"}, piece : Seq(Byte), at : Nat]

TypeOK ==
    /\ size \in Nat
    /\ data \in Seq(Byte)
    /\ result \in Int
    /\ op \in Operations
    /\ text \in Seq(Byte)
    /\ tries \in Nat

(* No operation writes beyond the block: what is in use fits, also after   *)
(* growth was rounded, refused, or asked for by a caller that had no block *)
(* yet.                                                                    *)
WithinBlock == used <= size

(* Formatting is begun again at most once: the room made after the first   *)
(* attempt holds the text and its terminating zero.                        *)
RetryOnce == tries <= 2 /\ (tries = 2 => Len(text) < size - used)

(* An operation that reports -1 leaves the data as they were.              *)
FailureKeepsData == [][op'.name = "refuse" => data' = data]_vars

(* The buffer is a queue of bytes: what is put comes after what is there,  *)
(* what is inserted lies at the offset named, and a shift takes exactly    *)
(* the bytes asked for and keeps the rest in order, except that a shift by *)
(* no fewer bytes than remain discards those.                              *)
Queue == INSTANCE ByteQueue WITH queue <- data, Lossy <- TRUE

IsByteQueue == Queue!Spec
=============================================================================
