------------------------------ MODULE RingBuf ------------------------------
(***************************************************************************)
(* ringbuf.c: a ring of max bytes with two pointers into it, kept here as  *)
(* offsets, and the number of bytes it holds.  A caller that nothing can   *)
(* interrupt sees Add and Remove as one step each.                         *)
(***************************************************************************)
EXTENDS Integers

CONSTANTS
  max,        \* bytes in the ring, at least one
  Byte        \* what a byte can be

Ring == [buf : [0 .. max - 1 -> Byte], start : 0 .. max - 1,
         end : 0 .. max - 1, size : 0 .. max]

\* ringbuf_new and ringbuf_clear; the memory holds anything.
NewRing(any) ==
  [buf |-> [i \in 0 .. max - 1 |-> any], start |-> 0, end |-> 0, size |-> 0]

\* A pointer that reaches the end of the ring goes back to its beginning.
WrapLate(i) == IF i = max + 1 THEN 0 ELSE i
Wrap(i) == IF i = max THEN 0 ELSE i

FullLate(r) == r.size > max
IsFull(r) == r.size = max
IsEmpty(r) == r.size = 0

\* ringbuf_add on a ring that is not full.
Add(r, what) ==
  [buf |-> [r.buf EXCEPT ![r.end] = what], start |-> r.start,
   end |-> Wrap(r.end + 1), size |-> r.size + 1]

\* ringbuf_remove on a ring that is not empty, and the byte it returns.
FirstSkipped(r) == r.buf[Wrap(r.start + 1)]
First(r) == r.buf[r.start]
Remove(r) ==
  [buf |-> r.buf, start |-> Wrap(r.start + 1), end |-> r.end,
   size |-> r.size - 1]

\* Where the byte k places behind the first one is.
Place(r, k) == IF r.start + k < max THEN r.start + k ELSE r.start + k - max

\* The bytes in the ring, first in first.
Contents(r) == [k \in 1 .. r.size |-> r.buf[Place(r, k - 1)]]

\* The two pointers and the count agree.
Agrees(r) == r.end = Place(r, r.size)
=============================================================================
