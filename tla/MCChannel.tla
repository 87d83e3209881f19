----------------------------- MODULE MCChannel -----------------------------
(***************************************************************************)
(* A channel of two slots, for two items.                                  *)
(***************************************************************************)
EXTENDS Channel, SequencesExt

CONSTANTS item1, item2

MCItem == {item1, item2}

\* One array, which takes the whole pool and has an order to keep.
MCBatches == {<<item1, item2>>}

\* write and read are what their loops over push_item and pop_item make.
PopOne(r, i) ==
  LET p == RB!pop_item(r.rest)
  IN [data |-> Append(r.data, p.item), rest |-> p.rest]

ASSUME ItemByItem ==
  \A rb \in RB!ring_buffer :
    /\ \A data \in {<<item1>>} \cup MCBatches :
         RB!write(rb, data) = FoldLeft(RB!push_item, rb, data)
    /\ \A cnt \in 1 .. Size :
         RB!read(rb, cnt) =
           FoldLeft(PopOne, [data |-> << >>, rest |-> rb], [i \in 1 .. cnt |-> i])

\* Where the sum of two indices no longer fits a byte, operator[] fails.
Of(n) == INSTANCE RingBuffer WITH Size <- n, T <- Item

ASSUME IndexFits ==
  \A n \in {1, 2, 127, 128, 129, 255} :
    (\A First, index \in 0 .. n - 1 :
       Of(n)!IndexedSlot(First, index) = Of(n)!Slot(First + index)) <=> n <= 128
=============================================================================
