------------------------------- MODULE Buffer -------------------------------
(***************************************************************************)
(* The growable byte buffer every line is rendered into (src/src/buffer.c),*)
(* with machine arithmetic and with an allocator that may refuse.          *)
(*                                                                         *)
(* An appending call is several steps: the check for overflow, each turn of*)
(* the doubling loop of sg_buffer_reserve, realloc, and the copy.          *)
(***************************************************************************)
EXTENDS Integers, Sequences

CONSTANTS SizeMax,          \* SIZE_MAX
          InitialCapacity,  \* SG_BUFFER_INITIAL_CAPACITY
          Bytes,            \* what can be appended
          NUL, Junk,        \* the terminator; memory realloc did not set
          Texts             \* the texts a caller appends

ASSUME BufferAssumption ==
  /\ SizeMax \in Nat /\ InitialCapacity \in 1..SizeMax
  /\ NUL \notin Bytes /\ Junk \notin Bytes /\ NUL # Junk
  /\ Texts \subseteq Seq(Bytes)

VARIABLES mem,       \* the block data points to; no block at all if capacity = 0
          length, capacity,
          op,        \* the call in progress
          text,      \* history: what was appended since init, reset or destroy
          spoilt     \* history: a failed format has overwritten the terminator

bufferVars == <<mem, length, capacity, op, text, spoilt>>

Size    == 0..SizeMax
Wrap(n) == n % (SizeMax + 1)

Idle == [at |-> "idle", kind |-> "none", bytes |-> << >>, required |-> 0, capacity |-> 0]

BufferInit ==
  /\ mem = [i \in {} |-> NUL] /\ length = 0 /\ capacity = 0
  /\ op = Idle /\ text = << >> /\ spoilt = FALSE

sg_buffer_reset ==
  /\ op = Idle
  /\ length' = 0 /\ text' = << >>
  /\ mem' = IF capacity # 0 THEN [mem EXCEPT ![0] = NUL] ELSE mem
  /\ op' = Idle /\ spoilt' = FALSE /\ UNCHANGED capacity

sg_buffer_destroy ==
  /\ op = Idle
  /\ mem' = [i \in {} |-> NUL] /\ length' = 0 /\ capacity' = 0 /\ text' = << >>
  /\ op' = Idle /\ spoilt' = FALSE

-----------------------------------------------------------------------------
(* sg_buffer_reserve *)

(* A bug: the byte of the terminator is forgotten. *)
OverflowsForgetful(n) == n > SizeMax - length

Overflows(n) == length = SizeMax \/ n > SizeMax - length - 1

Required(n) == Wrap(length + n + 1)

(* Called from sg_buffer_append ("append"; sg_buffer_append_cstr too) and  *)
(* from sg_buffer_append_format ("format").                                *)
Begin(kind, s) ==
  LET n == Len(s)
      c == [Idle EXCEPT !.kind = kind, !.bytes = s, !.required = Required(n)]
  IN  /\ op = Idle
      /\ IF Overflows(n) THEN op' = Idle
         ELSE IF Required(n) <= capacity
           THEN op' = [c EXCEPT !.at = "copy"]
         ELSE op' = [c EXCEPT !.at = "grow",
                       !.capacity = IF capacity = 0 THEN InitialCapacity ELSE capacity]
      /\ UNCHANGED <<mem, length, capacity, text, spoilt>>

(* A bug: the capacity is doubled past SIZE_MAX. *)
DoubledBlindly(c, required) == Wrap(2 * c)

Doubled(c, required) == IF c > SizeMax \div 2 THEN required ELSE Wrap(2 * c)

Double ==
  /\ op.at = "grow" /\ op.capacity < op.required
  /\ op' = [op EXCEPT !.capacity = Doubled(op.capacity, op.required)]
  /\ UNCHANGED <<mem, length, capacity, text, spoilt>>

(* What realloc keeps, and the terminator of an empty buffer. *)
Resized(n) ==
  [i \in 0..(n - 1) |-> IF length = 0 /\ i = 0 THEN NUL
                        ELSE IF i < capacity THEN mem[i] ELSE Junk]

Realloc ==
  /\ op.at = "grow" /\ op.capacity >= op.required
  /\ mem' = Resized(op.capacity) /\ capacity' = op.capacity
  /\ op' = [op EXCEPT !.at = "copy"]
  /\ UNCHANGED <<length, text, spoilt>>

ReallocFails ==
  /\ op.at = "grow" /\ op.capacity >= op.required
  /\ op' = Idle
  /\ UNCHANGED <<mem, length, capacity, text, spoilt>>

-----------------------------------------------------------------------------
(* A bug: the text is not terminated. *)
OverlayUnterminated(offset, s) ==
  [i \in DOMAIN mem |-> IF i \in offset..(offset + Len(s) - 1) THEN s[i - offset + 1]
                        ELSE mem[i]]

(* The bytes of s at offset, then a terminator. *)
Overlay(offset, s) ==
  [i \in DOMAIN mem |-> IF i \in offset..(offset + Len(s) - 1) THEN s[i - offset + 1]
                        ELSE IF i = offset + Len(s) THEN NUL ELSE mem[i]]

(* memcpy and the terminator, or the second vsnprintf, when it agrees with *)
(* the first.                                                              *)
Copy ==
  /\ op.at = "copy"
  /\ mem' = Overlay(length, op.bytes)
  /\ length' = length + Len(op.bytes)
  /\ text' = text \o op.bytes
  /\ op' = Idle /\ spoilt' = FALSE /\ UNCHANGED capacity

(* What vsnprintf stores of a longer or a shorter text. *)
Fitting(s) == SubSeq(s, 1, IF Len(s) < capacity - length THEN Len(s)
                           ELSE capacity - length - 1)

FormatDisagrees(s) ==
  /\ op.at = "copy" /\ op.kind = "format" /\ Len(s) # Len(op.bytes)
  /\ mem' = Overlay(length, Fitting(s))
  /\ op' = Idle /\ spoilt' = TRUE
  /\ UNCHANGED <<length, capacity, text>>

-----------------------------------------------------------------------------
BufferNext ==
  \/ sg_buffer_reset \/ sg_buffer_destroy
  \/ Double \/ Realloc \/ ReallocFails \/ Copy
  \/ \E s \in Texts : \/ Begin("append", s) \/ Begin("format", s)
                       \/ FormatDisagrees(s)

BufferSpec == BufferInit /\ [][BufferNext]_bufferVars

-----------------------------------------------------------------------------
(* The block and the counters agree, the length always leaves room for a   *)
(* terminator, and a copy that is about to be made ends inside the block:  *)
(* sg_buffer_reserve never miscounts, up to SIZE_MAX.                      *)
InBounds ==
  /\ length \in Size /\ capacity \in Size /\ text \in Seq(Bytes)
  /\ mem \in [0..(capacity - 1) -> Bytes \cup {NUL, Junk}]
  /\ op \in [at : {"idle", "grow", "copy"}, kind : {"none", "append", "format"},
             bytes : Seq(Bytes), required : Size, capacity : Size]
  /\ IF capacity = 0 THEN length = 0 ELSE length < capacity
  /\ op.at = "copy" => length + Len(op.bytes) < capacity

(* The buffer holds exactly what was appended, whatever calls failed in    *)
(* between, and is a C string, unless a format whose two passes disagreed  *)
(* has spoilt the terminator (its callers throw the buffer away).          *)
ContentKept ==
  /\ Len(text) = length
  /\ \A i \in 1..length : mem[i - 1] = text[i]
  /\ capacity # 0 /\ ~spoilt => mem[length] = NUL

(* The doubling loop of sg_buffer_reserve grows its capacity in every turn,*)
(* so that it ends, and never wraps around.                                *)
GrowthProgress ==
  [][op.at = "grow" /\ op'.at = "grow" => op'.capacity > op.capacity]_bufferVars
=============================================================================
