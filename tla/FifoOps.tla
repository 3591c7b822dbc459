------------------------------ MODULE FifoOps ------------------------------
(***************************************************************************)
(* The byte FIFO of libraries/nRF5x_FIFO.c as operators on a record that   *)
(* has at least the fields of nRF5x_FIFO_t:                                *)
(*    buf : p_buf, the memory the slots live in                            *)
(*    rd  : read_pos,   a free running counter of PosMod values            *)
(*    wr  : write_pos,  a free running counter of PosMod values            *)
(* buf_size_mask is Size - 1 and Size is a power of two, so "& mask" is    *)
(* the remainder by Size.  The C counters are uint32_t: PosMod is 2^32 in  *)
(* the program and a small multiple of Size in the model runs, so that the *)
(* counters wrap.                                                          *)
(***************************************************************************)
EXTENDS Integers

CONSTANTS Size,    \* buf_size given to nRF5x_FIFO_init
          PosMod   \* number of values of read_pos and write_pos

ASSUME SizeAssumption == Size \in Nat \ {0} /\ PosMod \in Nat \ {0}

\* A full FIFO must be told from an empty one, and a counter that wraps must
\* stay on the slot it was on: PosMod is a proper multiple of Size.
ASSUME PosModAssumption == \E k \in 2 .. PosMod : PosMod = k * Size

Positions == 0 .. PosMod - 1
Slots == 0 .. Size - 1

Slot(p) == p % Size

\* Mutant: the counter is not as wide as the arithmetic on it.
Next1NoWrap(p) == p + 1

Next1(p) == (p + 1) % PosMod

\* nRF5x_FIFO_length: unsigned difference of the two counters.
Distance(from, to) == (to - from) % PosMod
Length(f) == Distance(f.rd, f.wr)

\* Mutant: "<=" against the size instead of the mask.
IsFullOffByOne(f) == Length(f) > Size

\* Negation of "FIFO_LENGTH <= p_fifo->buf_size_mask".
IsFull(f) == Length(f) > Size - 1

\* Mutant: write_pos is incremented first and the byte stored behind it.
StoreBehind(f, byte) == [f EXCEPT !.buf[Slot(f.wr + 1)] = byte]

\* fifo_put is a store into the slot of write_pos followed by write_pos++.
Store(f, byte) == [f EXCEPT !.buf[Slot(f.wr)] = byte]
Publish(f) == [f EXCEPT !.wr = Next1(@)]

\* fifo_peek, and fifo_get's read_pos++.
PeekAt(f, index) == f.buf[Slot(f.rd + index)]
Advance(f) == [f EXCEPT !.rd = Next1(@)]

\* nRF5x_FIFO_flush, given the value of write_pos it has read.
FlushTo(f, mark) == [f EXCEPT !.rd = mark]
=============================================================================
