----------------------------- MODULE RingBuffer -----------------------------
(***************************************************************************)
(* usr::ring_buffer (scmRTOS/Common/usrlib.h), the pool of a channel, as   *)
(* operators on its four fields.  usr::TCbuf (usrlib.cpp), the pool of     *)
(* TChannel, has the same fields and the same arithmetic under the names   *)
(* push, pop, put, get, write, read and get_byte.                          *)
(*                                                                         *)
(* The index type S is eight bits wide.  Count, First and Last stay below  *)
(* its end if Size does; only operator[] adds two indices.                 *)
(***************************************************************************)
EXTENDS Integers, Sequences

CONSTANTS
  Size,  \* number of slots
  T      \* the items

Index == 0 .. Size - 1

ring_buffer ==
  [Count : 0 .. Size, First : Index, Last : Index, Buf : [Index -> T]]

\* An empty ring; its slots hold whatever the memory held.
Empty == [Count : {0}, First : {0}, Last : {0}, Buf : [Index -> T]]

get_count(rb) == rb.Count
get_free_size(rb) == Size - rb.Count

\* The place x counted on past the end of Buf.
Slot(x) == IF x < Size THEN x ELSE x - Size

\* The i-th item from the front.
at(rb, i) == rb.Buf[Slot(rb.First + i)]

\* Where operator[] and get_byte look for it: the sum is of type S.
IndexedSlot(First, index) == Slot((First + index) % 2^8)

\* What the ring holds, front first.
Items(rb) == [i \in 1 .. rb.Count |-> at(rb, i - 1)]

\* The next slot, and the one before, round the end of Buf.
After(i) == IF i + 1 = Size THEN 0 ELSE i + 1
Before(i) == IF i = 0 THEN Size - 1 ELSE i - 1

push_item(rb, item) ==
  [rb EXCEPT !.Buf[rb.Last] = item, !.Last = After(@), !.Count = @ + 1]

push_item_front(rb, item) ==
  [rb EXCEPT !.First = Before(@), !.Buf[Before(rb.First)] = item,
             !.Count = @ + 1]

\* A pop gives the item and the ring that is left.
pop_item(rb) ==
  [item |-> rb.Buf[rb.First],
   rest |-> [rb EXCEPT !.Count = @ - 1, !.First = After(@)]]

\* Mutant: the slot is read before the index is taken back.
pop_item_back_ReadsFirst(rb) ==
  [item |-> rb.Buf[rb.Last],
   rest |-> [rb EXCEPT !.Count = @ - 1, !.Last = Before(@)]]

pop_item_back(rb) ==
  [item |-> rb.Buf[Before(rb.Last)],
   rest |-> [rb EXCEPT !.Count = @ - 1, !.Last = Before(@)]]

\* write and read move several items one by one: what comes of it.
write(rb, data) ==
  LET nth(i) == IF i >= rb.Last THEN i - rb.Last ELSE i + Size - rb.Last
  IN [rb EXCEPT !.Buf = [i \in Index |-> IF nth(i) < Len(data)
                                           THEN data[nth(i) + 1] ELSE @[i]],
                !.Last = Slot(@ + Len(data)),
                !.Count = @ + Len(data)]

read(rb, cnt) ==
  [data |-> [i \in 1 .. cnt |-> at(rb, i - 1)],
   rest |-> [rb EXCEPT !.Count = @ - cnt, !.First = Slot(@ + cnt)]]

flush(rb) == [rb EXCEPT !.Count = 0, !.Last = rb.First]
=============================================================================
