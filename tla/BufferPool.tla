------------------------------ MODULE BufferPool ------------------------------
(***************************************************************************)
(* BufferPool (resp/src/buffer_pool.rs): buffers kept for reuse by the     *)
(* encoder.  A buffer is its capacity and its contents.  The pool is       *)
(* called with &mut self, so its operations do not interleave; the buffers *)
(* it has handed out are in use side by side.                              *)
(***************************************************************************)
EXTENDS Integers, Sequences, SequencesExt

CONSTANTS
  User,              \* those who hold buffers
  DefaultCapacity,   \* default_capacity
  MaxPoolSize        \* max_pool_size

ASSUME PoolAssumption == DefaultCapacity \in Nat /\ MaxPoolSize \in Nat

VARIABLES
  buffers,   \* the pooled buffers
  held       \* the buffer each user has acquired

poolVars == <<buffers, held>>

NoBuffer == [capacity |-> -1, bytes |-> <<>>]

\* BytesMut (external): writing past the capacity reserves what is missing, and
\* split() takes the contents and their part of the capacity away.
Write(buf, bytes) ==
  LET all == buf.bytes \o bytes
  IN [capacity |-> IF Len(all) > buf.capacity THEN Len(all) ELSE buf.capacity, bytes |-> all]
SplitOff(buf) == [capacity |-> buf.capacity - Len(buf.bytes), bytes |-> <<>>]

PoolInit == buffers = <<>> /\ held = [u \in User |-> NoBuffer]

\* acquire: the buffer released last, or a new one.
Acquire(u) ==
  /\ held[u] = NoBuffer
  /\ IF buffers = <<>>
     THEN /\ held' = [held EXCEPT ![u] = [capacity |-> DefaultCapacity, bytes |-> <<>>]]
          /\ UNCHANGED buffers
     ELSE /\ held' = [held EXCEPT ![u] = Last(buffers)]
          /\ buffers' = Front(buffers)

\* Mutant: a released buffer keeps its contents.
ReleasedUncleared(buf) ==
  IF buf.capacity < DefaultCapacity \/ Len(buffers) >= MaxPoolSize THEN buffers
  ELSE Append(buffers, buf)

\* Mutant: a released buffer is pooled whatever its capacity.
ReleasedAnySize(buf) ==
  IF Len(buffers) >= MaxPoolSize THEN buffers
  ELSE Append(buffers, [buf EXCEPT !.bytes = <<>>])

\* The pool after release(buf): a small buffer, or one too many, is dropped.
Released(buf) ==
  IF buf.capacity < DefaultCapacity \/ Len(buffers) >= MaxPoolSize THEN buffers
  ELSE Append(buffers, [buf EXCEPT !.bytes = <<>>])

\* release, of the buffer as it is or of what split() has left of it.
Release(u, split) ==
  /\ held[u] # NoBuffer
  /\ buffers' = Released(IF split THEN SplitOff(held[u]) ELSE held[u])
  /\ held' = [held EXCEPT ![u] = NoBuffer]

\* A pooled buffer is empty and of at least the default capacity, whatever was
\* written to it, taken from it or grown while it was held, and there are at most
\* max_pool_size of them.
PoolReady ==
  /\ Len(buffers) <= MaxPoolSize
  /\ \A i \in DOMAIN buffers : buffers[i].bytes = <<>> /\ buffers[i].capacity >= DefaultCapacity

=============================================================================
