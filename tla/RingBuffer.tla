------------------------------ MODULE RingBuffer ------------------------------
(***************************************************************************)
(* The ring buffer template lib/buffer.h, as pure operators on a record    *)
(* with the fields of the C struct.  Get is Peek and REMOVE.               *)
(***************************************************************************)
EXTENDS Integers, Sequences

CONSTANTS Size,      \* elements the data array has room for
          CountMod,  \* the count is an unsigned integer modulo this
          Unset      \* content of an element never written

NewBuffer == [data |-> [i \in 0 .. Size - 1 |-> Unset], in |-> 0, out |-> 0, elems |-> 0]

IsFull(b) == b.elems >= Size
IsEmpty(b) == b.elems = 0

Put(b, e) ==
    [b EXCEPT !.data[b.in] = e, !.in = (@ + 1) % Size, !.elems = @ + 1]

DropOldest_KeepsCount(b) == [b EXCEPT !.out = (@ + 1) % Size]         \* slip

\* Nothing keeps the count of an empty buffer from wrapping around.
DropOldest(b) == [b EXCEPT !.out = (@ + 1) % Size, !.elems = (@ - 1) % CountMod]

Peek(b) == b.data[b.out]

\* Several elements in a row.
PutAll(b, es) ==
    LET put[n \in 0 .. Len(es)] == IF n = 0 THEN b ELSE Put(put[n - 1], es[n])
    IN  put[Len(es)]

RemoveSome(b, n) ==
    LET drop[k \in 0 .. n] == IF k = 0 THEN b ELSE DropOldest(drop[k - 1])
    IN  drop[n]

\* What the buffer holds, oldest first.
Contents(b) == [i \in 1 .. b.elems |-> b.data[(b.out + i - 1) % Size]]

==============================================================================
