---------------------------- MODULE ChannelProofs ----------------------------
(***************************************************************************)
(* Proofs about Channel, for any number of processes, any timeouts, a pool *)
(* of any size and any set of batches.  The first part is about the ring   *)
(* alone: each of its operations, in terms of the sequence of its items.   *)
(***************************************************************************)
EXTENDS Channel, KernelProofs, SequenceTheorems, NaturalsInduction,
        WellFoundedInduction

Slots == 0 .. Size - 1
Fields == [Count : 0 .. Size, First : Slots, Last : Slots, Buf : [Slots -> Item]]

\* The slot k places behind slot f.
Place(f, k) == IF f + k < Size THEN f + k ELSE f + k - Size

\* Last is where the items from First on end.
Ring == {rb \in Fields : rb.Last = Place(rb.First, rb.Count)}

\* The place k items behind slot f, as index arithmetic of the code gives it.
LEMMA PlaceIsSlot ==
  ASSUME NEW f \in Slots, NEW k \in 0 .. Size
  PROVE  RB!Slot(f + k) = Place(f, k) /\ Place(f, k) \in Slots
BY ChannelAssumption DEF RB!Slot, Place, Slots

\* The bounds on the fields of a ring.
LEMMA RingFields ==
  ASSUME NEW rb \in Ring
  PROVE  /\ Size \in Nat \ {0}
         /\ rb.Count \in Nat /\ rb.Count <= Size
         /\ rb.First \in Nat /\ rb.First < Size /\ rb.First \in Slots
         /\ rb.Last \in Nat /\ rb.Last < Size /\ rb.Last \in Slots
         /\ rb.Last = Place(rb.First, rb.Count)
         /\ rb.Buf \in [Slots -> Item]
         /\ rb \in Fields
BY ChannelAssumption DEF Ring, Fields, Slots

\* The items are a sequence, each of them in its slot.
LEMMA ItemsIs ==
  ASSUME NEW rb \in Ring
  PROVE  /\ RB!Items(rb) \in Seq(Item)
         /\ Len(RB!Items(rb)) = rb.Count
         /\ \A i \in 1 .. rb.Count : RB!Items(rb)[i] = rb.Buf[Place(rb.First, i - 1)]
<1>1. \A i \in 1 .. rb.Count : i - 1 \in 0 .. Size
  BY RingFields
<1>2. \A i \in 1 .. rb.Count : /\ RB!Slot(rb.First + (i - 1)) = Place(rb.First, i - 1)
                               /\ Place(rb.First, i - 1) \in Slots
  BY <1>1, PlaceIsSlot, RingFields
<1>3. RB!Items(rb) = [i \in 1 .. rb.Count |-> rb.Buf[Place(rb.First, i - 1)]]
  BY <1>2 DEF RB!Items, RB!at
<1>4. \A i \in 1 .. rb.Count : rb.Buf[Place(rb.First, i - 1)] \in Item
  BY <1>2, RingFields
<1>5. RB!Items(rb) \in Seq(Item) /\ Len(RB!Items(rb)) = rb.Count
  BY <1>3, <1>4, RingFields
<1>6. QED
  BY <1>3, <1>5

\* operator[] and get_byte, whose sum of two indices is cut to a byte, find the
\* right slot for every place in the ring exactly up to 128 slots; a channel
\* works up to 255, as it never calls them.
THEOREM IndexOperatorLimit ==
  (\A First, index \in Slots : RB!IndexedSlot(First, index) = RB!Slot(First + index))
    <=> Size <= 128
<1>0. Size \in 1 .. 255
  BY ChannelAssumption
<1>1. ASSUME Size <= 128, NEW First \in Slots, NEW index \in Slots
      PROVE  RB!IndexedSlot(First, index) = RB!Slot(First + index)
  <2>1. First + index \in 0 .. 255
    BY <1>0, <1>1 DEF Slots
  <2>2. (First + index) % 2^8 = First + index
    BY <2>1, SMT
  <2>3. QED
    BY <2>2 DEF RB!IndexedSlot
<1>2. ASSUME Size > 128
      PROVE  \E First, index \in Slots :
               RB!IndexedSlot(First, index) # RB!Slot(First + index)
  <2> DEFINE first == Size - 1
             index == 257 - Size
  <2>1. first \in Slots /\ index \in Slots /\ first + index = 256
    BY <1>0, <1>2 DEF Slots
  <2>2. RB!IndexedSlot(first, index) = 0
    <3>1. 256 % 2^8 = 0
      BY SMT
    <3>2. QED
      BY <1>0, <2>1, <3>1 DEF RB!IndexedSlot, RB!Slot
  <2>3. RB!Slot(first + index) = 256 - Size
    BY <1>0, <2>1 DEF RB!Slot
  <2>4. RB!IndexedSlot(first, index) # RB!Slot(first + index)
    BY <1>0, <2>2, <2>3
  <2>5. QED
    BY <2>1, <2>4
<1>3. QED
  BY <1>0, <1>1, <1>2

\* How far slot s lies behind slot l, where the items end.
Behind(l, s) == IF s >= l THEN s - l ELSE s + Size - l

\* How far one place of a ring is behind another.
LEMMA PlaceBehind ==
  ASSUME NEW f \in Slots, NEW c \in 0 .. Size, NEW k \in Slots
  PROVE  Behind(Place(f, c), Place(f, k)) = IF k < c THEN k - c + Size ELSE k - c
BY ChannelAssumption DEF Behind, Place, Slots

\* Two advances of an index add up.
LEMMA PlaceFurther ==
  ASSUME NEW f \in Slots, NEW c \in 0 .. Size, NEW n \in 0 .. Size, c + n <= Size
  PROVE  Place(Place(f, c), n) = Place(f, c + n)
BY ChannelAssumption DEF Place, Slots

\* A batch that fits goes behind what is there.
LEMMA WriteItems ==
  ASSUME NEW rb \in Ring, NEW data \in Seq(Item), rb.Count + Len(data) <= Size
  PROVE  /\ RB!write(rb, data) \in Ring
         /\ RB!write(rb, data).Count = rb.Count + Len(data)
         /\ RB!Items(RB!write(rb, data)) = RB!Items(rb) \o data
<1> DEFINE n == Len(data)
           buf == [s \in Slots |-> IF Behind(rb.Last, s) < n
                                     THEN data[Behind(rb.Last, s) + 1] ELSE rb.Buf[s]]
           new == RB!write(rb, data)
<1>1. n \in Nat /\ n \in 0 .. Size /\ \A i \in 1 .. n : data[i] \in Item
  BY RingFields
<1>2. buf \in [Slots -> Item]
  <2>1. \A s \in Slots : Behind(rb.Last, s) \in Nat
    BY RingFields DEF Behind, Slots
  <2>2. \A s \in Slots :
          Behind(rb.Last, s) < n => data[Behind(rb.Last, s) + 1] \in Item
    BY <1>1, <2>1
  <2>3. QED
    BY <2>2, RingFields
<1>3. /\ new \in Fields
      /\ new.Count = rb.Count + n /\ new.First = rb.First
      /\ new.Last = Place(rb.Last, n) /\ new.Buf = buf
  <2>1. RB!Slot(rb.Last + n) = Place(rb.Last, n) /\ Place(rb.Last, n) \in Slots
    BY <1>1, PlaceIsSlot, RingFields
  <2>2. new = [rb EXCEPT !.Buf = buf, !.Last = Place(rb.Last, n),
                         !.Count = rb.Count + n]
    BY <2>1 DEF RB!write, RB!Index, Slots, Behind
  <2>3. rb.Count + n \in 0 .. Size /\ rb \in Fields
    BY <1>1, RingFields
  <2> HIDE DEF new, buf, n
  <2>4. QED
    BY <1>2, <2>1, <2>2, <2>3 DEF Fields
<1> HIDE DEF new, buf
<1>4. new \in Ring
  BY <1>1, <1>3, RingFields, PlaceFurther DEF Ring
<1>5. \A i \in 1 .. rb.Count + n :
        RB!Items(new)[i] = IF i <= rb.Count THEN RB!Items(rb)[i] ELSE data[i - rb.Count]
  <2> SUFFICES ASSUME NEW i \in 1 .. rb.Count + n
      PROVE RB!Items(new)[i] = IF i <= rb.Count THEN RB!Items(rb)[i]
                                                ELSE data[i - rb.Count]
    OBVIOUS
  <2> DEFINE s == Place(rb.First, i - 1)
  <2>1. RB!Items(new)[i] = buf[s]
    BY <1>3, <1>4, ItemsIs
  <2>2. /\ i \in Nat /\ i >= 1 /\ i <= rb.Count + n
        /\ i - 1 \in Slots /\ i - 1 \in 0 .. Size /\ rb.Count \in 0 .. Size
    BY <1>1, RingFields DEF Slots
  <2>3. s \in Slots
    BY <2>2, PlaceIsSlot, RingFields
  <2>4. Behind(rb.Last, s) = IF i - 1 < rb.Count THEN i - 1 - rb.Count + Size
                                                 ELSE i - 1 - rb.Count
    BY <2>2, PlaceBehind, RingFields
  <2>5. CASE i <= rb.Count
    <3>1. ~(Behind(rb.Last, s) < n)
      BY <1>1, <2>2, <2>4, <2>5, RingFields
    <3>2. buf[s] = rb.Buf[s]
      BY <2>3, <3>1 DEF buf
    <3>3. RB!Items(rb)[i] = rb.Buf[s]
      BY <2>2, <2>5, ItemsIs
    <3>4. QED
      BY <2>1, <2>5, <3>2, <3>3
  <2>6. CASE ~(i <= rb.Count)
    <3>1. Behind(rb.Last, s) < n /\ Behind(rb.Last, s) + 1 = i - rb.Count
      BY <1>1, <2>2, <2>4, <2>6, RingFields
    <3>2. buf[s] = data[i - rb.Count]
      BY <2>3, <3>1 DEF buf
    <3>3. QED
      BY <2>1, <2>6, <3>2
  <2>7. QED
    BY <2>5, <2>6
<1>6. RB!Items(new) = RB!Items(rb) \o data
  <2>1. RB!Items(new) \in Seq(Item) /\ Len(RB!Items(new)) = rb.Count + n
    BY <1>3, <1>4, ItemsIs
  <2>2. /\ RB!Items(rb) \o data \in Seq(Item)
        /\ Len(RB!Items(rb) \o data) = rb.Count + n
        /\ \A i \in 1 .. rb.Count + n : (RB!Items(rb) \o data)[i] =
             IF i <= rb.Count THEN RB!Items(rb)[i] ELSE data[i - rb.Count]
    BY ItemsIs, ConcatProperties
  <2>3. QED
    BY <1>5, <2>1, <2>2, SeqEqual
<1>7. QED
  BY <1>3, <1>4, <1>6 DEF new

\* A ring is given by its four fields.
LEMMA SameFields ==
  ASSUME NEW r1 \in Fields, NEW r2 \in Fields,
         r1.Count = r2.Count, r1.First = r2.First, r1.Last = r2.Last, r1.Buf = r2.Buf
  PROVE  r1 = r2
BY DEF Fields

\* One item is a batch of one.
LEMMA PushIsWrite ==
  ASSUME NEW rb \in Ring, NEW x \in Item, rb.Count < Size
  PROVE  RB!push_item(rb, x) = RB!write(rb, <<x>>)
<1> DEFINE new == RB!push_item(rb, x)
           one == RB!write(rb, <<x>>)
           buf == [rb.Buf EXCEPT ![rb.Last] = x]
           buf1 == [s \in Slots |-> IF Behind(rb.Last, s) < 1
                                      THEN <<x>>[Behind(rb.Last, s) + 1] ELSE rb.Buf[s]]
<1>1. /\ 1 \in 0 .. Size /\ rb.Count + 1 \in 0 .. Size
      /\ Place(rb.Last, 1) \in Slots /\ rb \in Fields
      /\ RB!Slot(rb.Last + 1) = Place(rb.Last, 1)
      /\ RB!After(rb.Last) = Place(rb.Last, 1)
  <2>1. 1 \in 0 .. Size /\ rb.Count + 1 \in 0 .. Size
    BY RingFields
  <2>2. RB!After(rb.Last) = Place(rb.Last, 1)
    BY RingFields DEF RB!After, Place
  <2>3. QED
    BY <2>1, <2>2, PlaceIsSlot, RingFields
<1>2. buf \in [Slots -> Item]
  BY RingFields
<1>3. buf1 = buf
  <2>1. \A s \in Slots : /\ Behind(rb.Last, s) < 1 <=> s = rb.Last
                         /\ s = rb.Last => Behind(rb.Last, s) = 0
    BY RingFields DEF Behind, Slots
  <2>2. <<x>>[0 + 1] = x
    OBVIOUS
  <2>3. \A s \in Slots : (IF Behind(rb.Last, s) < 1
           THEN <<x>>[Behind(rb.Last, s) + 1] ELSE rb.Buf[s]) = buf[s]
    BY <2>1, <2>2, RingFields
  <2>4. QED
    BY <1>2, <2>3
<1>4. new = [rb EXCEPT !.Buf = buf, !.Last = Place(rb.Last, 1), !.Count = rb.Count + 1]
  BY <1>1 DEF RB!push_item
<1>5. one = [rb EXCEPT !.Buf = buf1, !.Last = Place(rb.Last, 1), !.Count = rb.Count + 1]
  <2>1. Len(<<x>>) = 1
    OBVIOUS
  <2>2. QED
    BY <1>1, <2>1 DEF RB!write, RB!Index, Slots, Behind
<1>6. QED
  BY <1>3, <1>4, <1>5

\* push_item puts one item behind the others.
LEMMA PushItems ==
  ASSUME NEW rb \in Ring, NEW x \in Item, rb.Count < Size
  PROVE  /\ RB!push_item(rb, x) \in Ring
         /\ RB!push_item(rb, x).Count = rb.Count + 1
         /\ RB!Items(RB!push_item(rb, x)) = RB!Items(rb) \o <<x>>
<1>1. <<x>> \in Seq(Item) /\ Len(<<x>>) = 1 /\ rb.Count + 1 <= Size
  BY RingFields
<1>2. QED
  BY <1>1, PushIsWrite, WriteItems

\* The slot before slot f.
LEMMA PlaceBefore ==
  ASSUME NEW f \in Slots, NEW k \in 1 .. Size
  PROVE  /\ RB!Before(f) \in Slots
         /\ RB!Before(Place(f, k)) = Place(f, k - 1)
         /\ Place(RB!Before(f), k) = Place(f, k - 1)
         /\ Place(RB!Before(f), 0) = RB!Before(f)
         /\ k < Size => Place(f, k - 1) # RB!Before(f)
BY ChannelAssumption DEF RB!Before, Place, Slots

\* An item pushed in front goes before all the others.
LEMMA PushFrontItems ==
  ASSUME NEW rb \in Ring, NEW x \in Item, rb.Count < Size
  PROVE  /\ RB!push_item_front(rb, x) \in Ring
         /\ RB!push_item_front(rb, x).Count = rb.Count + 1
         /\ RB!Items(RB!push_item_front(rb, x)) = <<x>> \o RB!Items(rb)
<1> DEFINE new == RB!push_item_front(rb, x)
           f == RB!Before(rb.First)
           buf == [rb.Buf EXCEPT ![f] = x]
<1>1. /\ f \in Slots /\ rb.Count + 1 \in 0 .. Size /\ rb.Count + 1 \in 1 .. Size
      /\ rb \in Fields
  BY RingFields, PlaceBefore
<1>2. buf \in [Slots -> Item]
  BY <1>1, RingFields
<1>3. /\ new \in Fields /\ new.Count = rb.Count + 1 /\ new.First = f
      /\ new.Last = rb.Last /\ new.Buf = buf
  <2>1. new = [rb EXCEPT !.First = f, !.Buf = buf, !.Count = rb.Count + 1]
    BY DEF RB!push_item_front
  <2> HIDE DEF new, buf, f
  <2>2. QED
    BY <1>1, <1>2, <2>1 DEF Fields
<1> HIDE DEF new
<1>4. new \in Ring
  <2>1. Place(f, rb.Count + 1) = Place(rb.First, rb.Count)
    BY <1>1, PlaceBefore, RingFields
  <2>2. QED
    BY <1>3, <2>1, RingFields DEF Ring
<1>5. \A i \in 1 .. rb.Count + 1 :
        RB!Items(new)[i] = IF i <= 1 THEN x ELSE RB!Items(rb)[i - 1]
  <2> SUFFICES ASSUME NEW i \in 1 .. rb.Count + 1
      PROVE RB!Items(new)[i] = IF i <= 1 THEN x ELSE RB!Items(rb)[i - 1]
    OBVIOUS
  <2>1. RB!Items(new)[i] = buf[Place(f, i - 1)]
    BY <1>3, <1>4, ItemsIs
  <2>2. CASE i <= 1
    <3>1. i - 1 = 0
      BY <2>2, RingFields
    <3>2. Place(f, i - 1) = f
      BY <3>1, PlaceBefore, <1>1, RingFields
    <3>3. QED
      BY <1>1, <2>1, <2>2, <3>2, RingFields
  <2>3. CASE ~(i <= 1)
    <3>1. /\ i - 1 \in 1 .. Size /\ i - 1 < Size /\ i - 1 \in 1 .. rb.Count
          /\ (i - 1) - 1 \in 0 .. Size
      BY <2>3, RingFields
    <3>2. /\ Place(f, i - 1) = Place(rb.First, (i - 1) - 1)
          /\ Place(rb.First, (i - 1) - 1) # f
      BY <3>1, PlaceBefore, RingFields
    <3>3. Place(rb.First, (i - 1) - 1) \in Slots
      BY <3>1, PlaceIsSlot, RingFields
    <3>4. QED
      BY <2>1, <2>3, <3>1, <3>2, <3>3, ItemsIs, RingFields
  <2>4. QED
    BY <2>2, <2>3
<1>6. RB!Items(new) = <<x>> \o RB!Items(rb)
  <2>1. RB!Items(new) \in Seq(Item) /\ Len(RB!Items(new)) = rb.Count + 1
    BY <1>3, <1>4, ItemsIs
  <2>2. <<x>> \in Seq(Item) /\ Len(<<x>>) = 1 /\ <<x>>[1] = x
    OBVIOUS
  <2>3. /\ <<x>> \o RB!Items(rb) \in Seq(Item)
        /\ Len(<<x>> \o RB!Items(rb)) = 1 + rb.Count
        /\ \A i \in 1 .. 1 + rb.Count : (<<x>> \o RB!Items(rb))[i] =
             IF i <= 1 THEN <<x>>[i] ELSE RB!Items(rb)[i - 1]
    <3> HIDE DEF new
    <3>1. QED
      BY <2>2, ItemsIs, ConcatProperties
  <2>4. 1 + rb.Count = rb.Count + 1 /\ \A i \in 1 .. rb.Count + 1 : i <= 1 => i = 1
    BY RingFields
  <2>5. QED
    BY <1>5, <2>1, <2>2, <2>3, <2>4, SeqEqual
<1>7. QED
  BY <1>3, <1>4, <1>6 DEF new

\* What is read comes off the front, in order.
LEMMA ReadItems ==
  ASSUME NEW rb \in Ring, NEW n \in Nat, n <= rb.Count
  PROVE  /\ RB!read(rb, n).rest \in Ring
         /\ RB!read(rb, n).rest.Count = rb.Count - n
         /\ RB!read(rb, n).data = SubSeq(RB!Items(rb), 1, n)
         /\ RB!Items(RB!read(rb, n).rest) = SubSeq(RB!Items(rb), n + 1, rb.Count)
<1> DEFINE new == RB!read(rb, n).rest
           data == RB!read(rb, n).data
           items == RB!Items(rb)
<1>1. n \in 0 .. Size /\ rb.Count - n \in 0 .. Size /\ rb \in Fields
  BY RingFields
<1>2. /\ new \in Fields /\ new.Count = rb.Count - n /\ new.Last = rb.Last
      /\ new.First = Place(rb.First, n) /\ new.Buf = rb.Buf
  <2>1. RB!Slot(rb.First + n) = Place(rb.First, n) /\ Place(rb.First, n) \in Slots
    BY <1>1, PlaceIsSlot, RingFields
  <2>2. new = [rb EXCEPT !.Count = rb.Count - n, !.First = Place(rb.First, n)]
    BY <2>1 DEF RB!read
  <2> HIDE DEF new
  <2>3. QED
    BY <1>1, <2>1, <2>2 DEF Fields
<1>3. data = [i \in 1 .. n |-> RB!at(rb, i - 1)]
  BY DEF RB!read
<1> HIDE DEF new, data, items
<1>4. new \in Ring
  <2>1. n + (rb.Count - n) = rb.Count /\ rb.Count <= Size
    BY RingFields
  <2>2. Place(Place(rb.First, n), rb.Count - n) = Place(rb.First, rb.Count)
    BY <1>1, <2>1, PlaceFurther, RingFields
  <2>3. QED
    BY <1>2, <2>2, RingFields DEF Ring
<1>5. \A i \in 1 .. rb.Count : items[i] \in Item /\ items[i] = RB!at(rb, i - 1)
  <2>1. items = [i \in 1 .. rb.Count |-> RB!at(rb, i - 1)]
    BY DEF items, RB!Items
  <2>2. items \in Seq(Item) /\ Len(items) = rb.Count
    BY ItemsIs DEF items
  <2>3. \A i \in 1 .. rb.Count : items[i] \in Item
    BY <2>2, ElementOfSeq
  <2>4. \A i \in 1 .. rb.Count : items[i] = RB!at(rb, i - 1)
    BY <2>1, Zenon
  <2>5. QED
    BY <2>3, <2>4
<1>6. data = SubSeq(items, 1, n)
  <2>1. n \in Int /\ 1 \in Int /\ \A i \in 1 .. n : i \in 1 .. rb.Count
    BY RingFields
  <2>2. \A i \in 1 .. n : items[i] \in Item
    BY <1>5, <2>1
  <2>3. /\ SubSeq(items, 1, n) \in Seq(Item)
        /\ Len(SubSeq(items, 1, n)) = IF 1 <= n THEN n - 1 + 1 ELSE 0
        /\ \A i \in 1 .. n - 1 + 1 : SubSeq(items, 1, n)[i] = items[1 + i - 1]
    BY <2>1, <2>2, SubSeqProperties
  <2>4. /\ (IF 1 <= n THEN n - 1 + 1 ELSE 0) = n /\ n - 1 + 1 = n
        /\ \A i \in 1 .. n : 1 + i - 1 = i
    OBVIOUS
  <2>5. \A i \in 1 .. n : data[i] = SubSeq(items, 1, n)[i]
    BY <1>3, <1>5, <2>1, <2>3, <2>4
  <2>6. data \in Seq(Item) /\ Len(data) = n
    <3>1. \A i \in 1 .. n : RB!at(rb, i - 1) \in Item
      BY <1>5, <2>1, Zenon
    <3>2. QED
      BY <1>3, <3>1
  <2>7. QED
    BY <2>3, <2>4, <2>5, <2>6, SeqEqual
<1>7. RB!Items(new) = SubSeq(items, n + 1, rb.Count)
  <2>1. /\ n + 1 \in Int /\ rb.Count \in Int
        /\ \A i \in n + 1 .. rb.Count : i \in 1 .. rb.Count
    BY RingFields
  <2>2. \A i \in n + 1 .. rb.Count : items[i] \in Item
    BY <1>5, <2>1
  <2> DEFINE sub == SubSeq(items, n + 1, rb.Count)
  <2>3. /\ sub \in Seq(Item)
        /\ Len(sub) = IF n + 1 <= rb.Count THEN rb.Count - (n + 1) + 1 ELSE 0
        /\ \A i \in 1 .. rb.Count - (n + 1) + 1 : sub[i] = items[n + 1 + i - 1]
    BY <2>1, <2>2, SubSeqProperties
  <2> HIDE DEF sub
  <2>4. /\ (IF n + 1 <= rb.Count THEN rb.Count - (n + 1) + 1 ELSE 0) = rb.Count - n
        /\ rb.Count - (n + 1) + 1 = rb.Count - n
    BY RingFields
  <2>5. /\ RB!Items(new) \in Seq(Item) /\ Len(RB!Items(new)) = rb.Count - n
        /\ \A i \in 1 .. rb.Count - n :
             RB!Items(new)[i] = rb.Buf[Place(Place(rb.First, n), i - 1)]
    BY <1>2, <1>4, ItemsIs
  <2>6. ASSUME NEW i \in 1 .. rb.Count - n PROVE RB!Items(new)[i] = sub[i]
    <3>1. /\ n + 1 + i - 1 = n + i /\ n + i \in 1 .. rb.Count
          /\ i - 1 \in 0 .. Size /\ n + (i - 1) <= Size /\ n + (i - 1) = (n + i) - 1
      BY RingFields
    <3>2. Place(Place(rb.First, n), i - 1) = Place(rb.First, n + (i - 1))
      BY <1>1, <3>1, PlaceFurther, RingFields
    <3>3. items[n + i] = rb.Buf[Place(rb.First, (n + i) - 1)]
      BY <3>1, ItemsIs DEF items
    <3>4. QED
      BY <2>3, <2>4, <2>5, <3>1, <3>2, <3>3
  <2>7. RB!Items(new) = sub
    BY <2>3, <2>4, <2>5, <2>6, SeqEqual
  <2>8. QED
    BY <2>7 DEF sub
<1>8. QED
  BY <1>2, <1>4, <1>6, <1>7 DEF new, data, items

\* pop_item_back takes the last one.
LEMMA PopBackItems ==
  ASSUME NEW rb \in Ring, rb.Count > 0
  PROVE  /\ RB!pop_item_back(rb).rest \in Ring
         /\ RB!pop_item_back(rb).rest.Count = rb.Count - 1
         /\ RB!pop_item_back(rb).item = RB!Items(rb)[rb.Count]
         /\ RB!Items(RB!pop_item_back(rb).rest) = SubSeq(RB!Items(rb), 1, rb.Count - 1)
<1> DEFINE new == RB!pop_item_back(rb).rest
           items == RB!Items(rb)
           n == rb.Count - 1
<1>1. /\ n \in 0 .. Size /\ n \in Nat /\ n <= rb.Count /\ rb.Count \in 1 .. Size
      /\ rb \in Fields /\ rb.Count \in 1 .. rb.Count
  BY RingFields
<1>2. RB!Before(rb.Last) = Place(rb.First, n) /\ Place(rb.First, n) \in Slots
  <2>1. rb.Last = Place(rb.First, rb.Count) /\ rb.First \in Slots
    BY RingFields
  <2>2. RB!Before(Place(rb.First, rb.Count)) = Place(rb.First, rb.Count - 1)
    BY <1>1, <2>1, PlaceBefore
  <2>3. QED
    BY <1>1, <2>1, <2>2, PlaceIsSlot
<1>3. /\ new \in Fields /\ new.Count = n /\ new.First = rb.First
      /\ new.Last = Place(rb.First, n) /\ new.Buf = rb.Buf
  <2>1. new = [rb EXCEPT !.Count = n, !.Last = Place(rb.First, n)]
    BY <1>2 DEF RB!pop_item_back
  <2> HIDE DEF new, n
  <2>2. QED
    BY <1>1, <1>2, <2>1 DEF Fields
<1>4. RB!pop_item_back(rb).item = items[rb.Count]
  BY <1>1, <1>2, ItemsIs DEF RB!pop_item_back
<1> HIDE DEF new
<1>5. new \in Ring
  BY <1>3 DEF Ring
<1>6. RB!Items(new) = SubSeq(items, 1, n)
  <2>1. RB!read(rb, n).data = SubSeq(items, 1, n)
    BY <1>1, ReadItems
  <2>2. RB!read(rb, n).data = [i \in 1 .. n |-> RB!at(rb, i - 1)]
    BY DEF RB!read
  <2>3. RB!Items(new) = [i \in 1 .. n |-> RB!at(rb, i - 1)]
    BY <1>3 DEF RB!Items, RB!at
  <2>4. QED
    BY <2>1, <2>2, <2>3
<1>7. QED
  BY <1>3, <1>4, <1>5, <1>6 DEF new

\* flush leaves no items.
LEMMA FlushItems ==
  ASSUME NEW rb \in Ring
  PROVE  /\ RB!flush(rb) \in Ring
         /\ RB!flush(rb).Count = 0
         /\ RB!Items(RB!flush(rb)) = << >>
<1> DEFINE new == RB!flush(rb)
<1>1. /\ new \in Fields /\ new.Count = 0 /\ new.First = rb.First
      /\ new.Last = rb.First
  <2>1. 0 \in 0 .. Size /\ rb \in Fields
    BY RingFields
  <2>2. QED
    BY <2>1 DEF RB!flush, Fields
<1> HIDE DEF new
<1>2. new \in Ring
  BY <1>1, RingFields DEF Ring, Place
<1>3. RB!Items(new) \in Seq(Item) /\ Len(RB!Items(new)) = 0
  BY <1>1, <1>2, ItemsIs
<1>4. RB!Items(new) = << >>
  BY <1>3, EmptySeq
<1>5. QED
  BY <1>1, <1>2, <1>4 DEF new

-----------------------------------------------------------------------------
(***************************************************************************)
(* The loops of write and read                                             *)
(***************************************************************************)

\* Induction, as a fact about sets: a set that holds 0, and with each number
\* the next, holds them all.
LEMMA Induction ==
  ASSUME NEW S, 0 \in S, \A n \in Nat : n \in S => n + 1 \in S
  PROVE  \A n \in Nat : n \in S
<1> SUFFICES ASSUME Nat \ S # {} PROVE FALSE
  OBVIOUS
<1> DEFINE missing == Nat \ S
<1>1. PICK least \in missing : \A n \in missing : ~(<<n, least>> \in OpToRel(<, Nat))
  <2>1. missing \subseteq Nat
    OBVIOUS
  <2>2. QED
    BY <2>1, NatLessThanWellFounded, WFMin
<1>2. \A n \in missing : ~(n < least)
  BY <1>1 DEF OpToRel
<1>3. least \in Nat /\ least # 0 /\ least - 1 \in Nat
  OBVIOUS
<1>4. least - 1 \in S
  BY <1>2, <1>3
<1>5. least - 1 + 1 = least
  BY <1>3
<1>6. QED
  BY <1>3, <1>4, <1>5

\* What push_item does to each field.
LEMMA PushFields ==
  ASSUME NEW rb \in Fields, NEW x \in Item, rb.Count < Size
  PROVE  /\ RB!push_item(rb, x) \in Fields
         /\ RB!push_item(rb, x).Count = rb.Count + 1
         /\ RB!push_item(rb, x).First = rb.First
         /\ RB!push_item(rb, x).Last = Place(rb.Last, 1)
         /\ RB!push_item(rb, x).Buf = [rb.Buf EXCEPT ![rb.Last] = x]
<1>1. /\ rb.Count \in 0 .. Size /\ rb.First \in Slots /\ rb.Last \in Slots
      /\ rb.Buf \in [Slots -> Item] /\ Size \in Nat \ {0}
  BY ChannelAssumption DEF Fields
<1>2. RB!After(rb.Last) = Place(rb.Last, 1) /\ Place(rb.Last, 1) \in Slots
  BY <1>1 DEF RB!After, Place, Slots
<1>3. rb.Count + 1 \in 0 .. Size /\ [rb.Buf EXCEPT ![rb.Last] = x] \in [Slots -> Item]
  BY <1>1
<1>4. RB!push_item(rb, x) =
        [rb EXCEPT !.Buf = [rb.Buf EXCEPT ![rb.Last] = x],
                   !.Last = Place(rb.Last, 1), !.Count = rb.Count + 1]
  BY <1>2 DEF RB!push_item
<1>5. QED
  BY <1>2, <1>3, <1>4 DEF Fields

\* q is the ring rb with the first k items of data behind the others.
Written(rb, data, k, q) ==
  /\ q \in Fields
  /\ q.Count = rb.Count + k
  /\ q.First = rb.First
  /\ q.Last = Place(rb.Last, k)
  /\ q.Buf = [s \in Slots |-> IF Behind(rb.Last, s) < k
                                THEN data[Behind(rb.Last, s) + 1] ELSE rb.Buf[s]]

\* One time round the loop of write.
LEMMA WrittenMore ==
  ASSUME NEW rb \in Fields, NEW data, NEW k \in Nat, rb.Count + k < Size,
         data[k + 1] \in Item, NEW q, Written(rb, data, k, q)
  PROVE  Written(rb, data, k + 1, RB!push_item(q, data[k + 1]))
<1> DEFINE x == data[k + 1]
           buf(j) == [s \in Slots |-> IF Behind(rb.Last, s) < j
                                        THEN data[Behind(rb.Last, s) + 1] ELSE rb.Buf[s]]
<1>1. /\ rb.Count \in 0 .. Size /\ rb.Last \in Slots /\ Size \in Nat \ {0}
      /\ rb.Buf \in [Slots -> Item]
  <2>1. /\ rb.Count \in 0 .. Size /\ rb.Last \in Slots
        /\ rb.Buf \in [Slots -> Item]
    BY DEF Fields
  <2>2. Size \in Nat \ {0}
    BY ChannelAssumption
  <2>3. QED
    BY <2>1, <2>2
<1>2. /\ q \in Fields /\ q.Count = rb.Count + k /\ q.First = rb.First
      /\ q.Last = Place(rb.Last, k) /\ q.Buf = buf(k)
  BY DEF Written
<1>3. /\ k \in 0 .. Size /\ 1 \in 0 .. Size /\ k + 1 <= Size
      /\ rb.Count + k + 1 = rb.Count + (k + 1)
  BY <1>1
<1> HIDE DEF buf, x
<1>4. /\ RB!push_item(q, x) \in Fields
      /\ RB!push_item(q, x).Count = rb.Count + (k + 1)
      /\ RB!push_item(q, x).First = rb.First
      /\ RB!push_item(q, x).Last = Place(Place(rb.Last, k), 1)
      /\ RB!push_item(q, x).Buf = [buf(k) EXCEPT ![Place(rb.Last, k)] = x]
  <2>1. q.Count < Size /\ x \in Item
    BY <1>2 DEF x
  <2>2. QED
    BY <1>2, <1>3, <2>1, PushFields
<1>5. Place(Place(rb.Last, k), 1) = Place(rb.Last, k + 1)
  BY <1>1, <1>3, PlaceFurther
<1>6. [buf(k) EXCEPT ![Place(rb.Last, k)] = x] = buf(k + 1)
  <2>1. \A s \in Slots : Behind(rb.Last, s) \in Nat
    BY <1>1 DEF Behind, Slots
  <2>2. k \in Nat /\ k < Size /\ Size \in Nat \ {0}
    BY <1>1, <1>3
  <2>3. \A s \in Slots : Behind(rb.Last, s) = k <=> s = Place(rb.Last, k)
    <3> DEFINE l == rb.Last
    <3>1. l \in Slots
      BY <1>1
    <3> HIDE DEF l
    <3>2. \A s \in Slots : Behind(l, s) = k <=> s = Place(l, k)
      BY <2>2, <3>1 DEF Behind, Place, Slots
    <3>3. QED
      BY <3>2 DEF l
  <2>4. \A s \in Slots : Behind(rb.Last, s) < k + 1 <=>
                           Behind(rb.Last, s) < k \/ Behind(rb.Last, s) = k
    BY <2>1
  <2>5. QED
    BY <2>1, <2>3, <2>4 DEF buf, x
<1>7. QED
  BY <1>4, <1>5, <1>6 DEF Written, buf, x

\* For a pool of any size, write leaves what its loop over push_item makes.
THEOREM WriteIsItsLoop ==
  ASSUME NEW rb \in RB!ring_buffer, NEW data \in Seq(Item),
         rb.Count + Len(data) <= Size,
         NEW r, r[0] = rb,
         \A i \in 1 .. Len(data) : r[i] = RB!push_item(r[i - 1], data[i])
  PROVE  r[Len(data)] = RB!write(rb, data)
<1> DEFINE Fine == {k \in Nat : k <= Len(data) => Written(rb, data, k, r[k])}
<1>1. /\ rb \in Fields /\ rb.Count \in 0 .. Size /\ rb.Last \in Slots
      /\ rb.Buf \in [Slots -> Item] /\ Size \in Nat \ {0} /\ Len(data) \in 0 .. Size
  BY ChannelAssumption DEF RB!ring_buffer, RB!Index, Fields, Slots
<1>2. 0 \in Fine
  <2>1. Place(rb.Last, 0) = rb.Last /\ rb.Count + 0 = rb.Count
    BY <1>1 DEF Place, Slots
  <2>2. \A s \in Slots : ~(Behind(rb.Last, s) < 0)
    BY <1>1 DEF Behind, Slots
  <2>3. Written(rb, data, 0, rb)
    BY <1>1, <2>1, <2>2 DEF Written
  <2>4. QED
    BY <2>3
<1>3. ASSUME NEW k \in Nat, k \in Fine PROVE k + 1 \in Fine
  <2> SUFFICES ASSUME k + 1 <= Len(data) PROVE Written(rb, data, k + 1, r[k + 1])
    OBVIOUS
  <2>1. /\ k <= Len(data) /\ k + 1 \in 1 .. Len(data) /\ k + 1 - 1 = k
        /\ rb.Count + k < Size
    BY <1>1
  <2>2. Written(rb, data, k, r[k])
    BY <1>3, <2>1
  <2>3. r[k + 1] = RB!push_item(r[k], data[k + 1])
    BY <2>1
  <2>4. data[k + 1] \in Item
    BY <2>1
  <2>5. QED
    BY <1>1, <2>1, <2>2, <2>3, <2>4, WrittenMore
<1>4. Written(rb, data, Len(data), r[Len(data)])
  <2>1. \A k \in Nat : k \in Fine
    <3> HIDE DEF Fine
    <3>1. QED
      BY <1>2, <1>3, Induction
  <2>2. QED
    BY <2>1
<1>5. RB!write(rb, data) =
        [rb EXCEPT !.Buf = [s \in Slots |-> IF Behind(rb.Last, s) < Len(data)
                              THEN data[Behind(rb.Last, s) + 1] ELSE rb.Buf[s]],
                   !.Last = Place(rb.Last, Len(data)),
                   !.Count = rb.Count + Len(data)]
  <2>1. RB!Slot(rb.Last + Len(data)) = Place(rb.Last, Len(data))
    BY <1>1, PlaceIsSlot
  <2>2. QED
    BY <2>1 DEF RB!write, RB!Index, Slots, Behind
<1> DEFINE last == r[Len(data)]
           n == Len(data)
           buf == [s \in Slots |-> IF Behind(rb.Last, s) < n
                                     THEN data[Behind(rb.Last, s) + 1] ELSE rb.Buf[s]]
<1>6. /\ last \in Fields /\ last.Count = rb.Count + n /\ last.First = rb.First
      /\ last.Last = Place(rb.Last, n) /\ last.Buf = buf
  BY <1>4 DEF Written
<1>7. RB!write(rb, data) = [rb EXCEPT !.Buf = buf, !.Last = Place(rb.Last, n),
                                      !.Count = rb.Count + n]
  BY <1>5
<1> HIDE DEF last, n, buf
<1>8. last = RB!write(rb, data)
  <2> DEFINE new == RB!write(rb, data)
  <2>1. new \in Fields
    BY <1>1, <1>6, <1>7 DEF Fields
  <2>2. /\ new.Count = rb.Count + n /\ new.First = rb.First
        /\ new.Last = Place(rb.Last, n) /\ new.Buf = buf
    BY <1>1, <1>7 DEF Fields
  <2> HIDE DEF new
  <2>3. last = new
    BY <1>6, <2>1, <2>2, SameFields
  <2>4. QED
    BY <2>3 DEF new
<1>9. QED
  BY <1>8 DEF last

\* The ring rb without its first k items.
Left(rb, k) == [rb EXCEPT !.Count = rb.Count - k, !.First = Place(rb.First, k)]

\* One time round the loop of read.
LEMMA LeftLess ==
  ASSUME NEW rb \in Fields, NEW k \in Nat, k < rb.Count
  PROVE  /\ RB!pop_item(Left(rb, k)).item = rb.Buf[Place(rb.First, k)]
         /\ RB!pop_item(Left(rb, k)).rest = Left(rb, k + 1)
<1>1. /\ rb.Count \in 0 .. Size /\ rb.First \in Slots /\ Size \in Nat \ {0}
  BY ChannelAssumption DEF Fields
<1>2. /\ Left(rb, k).Count = rb.Count - k /\ Left(rb, k).First = Place(rb.First, k)
      /\ Left(rb, k).Buf = rb.Buf
  BY DEF Left, Fields
<1>3. RB!After(Place(rb.First, k)) = Place(rb.First, k + 1)
  <2>1. k < Size
    BY <1>1
  <2>2. QED
    BY <1>1, <2>1 DEF RB!After, Place, Slots
<1>4. rb.Count - k - 1 = rb.Count - (k + 1)
  BY <1>1
<1>5. RB!pop_item(Left(rb, k)).rest =
        [Left(rb, k) EXCEPT !.Count = rb.Count - (k + 1),
                            !.First = Place(rb.First, k + 1)]
  BY <1>2, <1>3, <1>4 DEF RB!pop_item
<1>6. RB!pop_item(Left(rb, k)).item = rb.Buf[Place(rb.First, k)]
  BY <1>2 DEF RB!pop_item
<1>7. [Left(rb, k) EXCEPT !.Count = rb.Count - (k + 1),
                          !.First = Place(rb.First, k + 1)] = Left(rb, k + 1)
  BY DEF Left, Fields
<1>8. QED
  BY <1>5, <1>6, <1>7

\* For a pool of any size, read gives, in order, what its loop over pop_item
\* gets, and leaves what the loop leaves.
THEOREM ReadIsItsLoop ==
  ASSUME NEW rb \in RB!ring_buffer, NEW cnt \in Nat, cnt <= rb.Count,
         NEW r, r[0] = rb,
         \A i \in 1 .. cnt : r[i] = RB!pop_item(r[i - 1]).rest
  PROVE  /\ r[cnt] = RB!read(rb, cnt).rest
         /\ \A i \in 1 .. cnt : RB!read(rb, cnt).data[i] = RB!pop_item(r[i - 1]).item
<1> DEFINE Fine == {k \in Nat : k <= cnt => r[k] = Left(rb, k)}
<1>1. /\ rb \in Fields /\ rb.Count \in 0 .. Size /\ rb.First \in Slots
      /\ Size \in Nat \ {0}
  BY ChannelAssumption DEF RB!ring_buffer, RB!Index, Fields, Slots
<1>2. cnt \in 0 .. Size
  BY <1>1
<1>3. 0 \in Fine
  <2>1. Place(rb.First, 0) = rb.First /\ rb.Count - 0 = rb.Count
    BY <1>1 DEF Place, Slots
  <2>2. Left(rb, 0) = rb
    BY <1>1, <2>1 DEF Left, Fields
  <2>3. QED
    BY <2>2
<1>4. ASSUME NEW k \in Nat, k \in Fine PROVE k + 1 \in Fine
  <2> SUFFICES ASSUME k + 1 <= cnt PROVE r[k + 1] = Left(rb, k + 1)
    OBVIOUS
  <2>1. k <= cnt /\ k + 1 \in 1 .. cnt /\ k + 1 - 1 = k
    OBVIOUS
  <2>2. k < rb.Count
    BY <1>1
  <2>3. r[k] = Left(rb, k)
    BY <1>4, <2>1
  <2>4. r[k + 1] = RB!pop_item(r[k]).rest
    BY <2>1
  <2>5. QED
    BY <1>1, <2>2, <2>3, <2>4, LeftLess
<1>5. \A k \in Nat : k <= cnt => r[k] = Left(rb, k)
  <2>1. \A k \in Nat : k \in Fine
    <3> HIDE DEF Fine
    <3>1. QED
      BY <1>3, <1>4, Induction
  <2>2. QED
    BY <2>1
<1>6. RB!read(rb, cnt).rest = Left(rb, cnt)
  <2>1. RB!Slot(rb.First + cnt) = Place(rb.First, cnt)
    BY <1>1, <1>2, PlaceIsSlot
  <2>2. QED
    BY <2>1 DEF RB!read, Left
<1>7. ASSUME NEW i \in 1 .. cnt
      PROVE  RB!read(rb, cnt).data[i] = RB!pop_item(r[i - 1]).item
  <2>1. i - 1 \in Nat /\ i - 1 <= cnt /\ i - 1 < rb.Count /\ i - 1 \in 0 .. Size
    BY <1>1
  <2>2. RB!Slot(rb.First + (i - 1)) = Place(rb.First, i - 1)
    BY <1>1, <2>1, PlaceIsSlot
  <2>3. RB!read(rb, cnt).data[i] = rb.Buf[Place(rb.First, i - 1)]
    BY <2>2 DEF RB!read, RB!at
  <2>4. r[i - 1] = Left(rb, i - 1)
    BY <1>5, <2>1
  <2>5. RB!pop_item(Left(rb, i - 1)).item = rb.Buf[Place(rb.First, i - 1)]
    BY <1>1, <2>1, LeftLess
  <2>6. QED
    BY <2>3, <2>4, <2>5
<1>8. r[cnt] = Left(rb, cnt)
  BY <1>5
<1>9. QED
  BY <1>6, <1>7, <1>8

-----------------------------------------------------------------------------
(***************************************************************************)
(* The invariant                                                           *)
(***************************************************************************)

Callers == {p \in TPriority : call[p] # NoCall}

ChannelType ==
  /\ kind \in {"channel", "TChannel"}
  /\ call \in [TPriority -> Put \cup Take \cup {NoCall}]
  /\ pool \in Ring

\* A process that waits is in the loop of sched(), at the latest to leave it.
CallersInSched == Callers \subseteq inSched \ {prIDLE}

\* Calls that have no timeout.  No tick ends them, and nobody else but the
\* channel does.
Untimed(p) == call[p] \in Put \/ (kind = "TChannel" /\ call[p] \in Take)

UntimedRemain == \A p \in TPriority : Untimed(p) => Timeout[p] = 0

\* Nothing wakes a consumer of a TChannel but a producer.
TConsumersAsleep == kind = "TChannel" => ConsumersProcessMap \cap ReadyProcessMap = {}

\* A ready process with a timeout is a consumer that was resumed.
OverdueResumed ==
  Overdue \subseteq {p \in TPriority : call[p] \in Take} \ ConsumersProcessMap

ChInv ==
  /\ KInv
  /\ ChannelType
  /\ CallersInSched
  /\ UntimedRemain
  /\ TConsumersAsleep
  /\ OverdueResumed
  /\ MapsAreBlocked
  /\ NobodyWaitsInVain

-----------------------------------------------------------------------------
(***************************************************************************)
(* What the calls do to the pool                                           *)
(***************************************************************************)

Batch == {<<x>> : x \in Item} \cup Batches

\* What is written at once is a sequence of 1 to Size items.
LEMMA BatchIsSeq ==
  ASSUME NEW data \in Batch
  PROVE  data \in Seq(Item) /\ Len(data) \in 1 .. Size
<1>1. CASE data \in Batches
  BY <1>1, ChannelAssumption
<1>2. CASE \E x \in Item : data = <<x>>
  <2>1. PICK x \in Item : data = <<x>>
    BY <1>2
  <2>2. <<x>> \in Seq(Item) /\ Len(<<x>>) = 1
    OBVIOUS
  <2>3. QED
    BY <2>1, <2>2, ChannelAssumption
<1>3. QED
  BY <1>1, <1>2 DEF Batch

\* The calls by their fields.
LEMMA PutFields ==
  ASSUME NEW c \in Put
  PROVE  /\ c \notin Take /\ c # NoCall
         /\ c.op \in {"push", "push_front", "write"}
         /\ c.data \in Batch
         /\ c.op \in {"push", "push_front"} => \E x \in Item : c.data = <<x>>
<1>1. CASE c \in [op : {"push", "push_front"}, data : {<<x>> : x \in Item}]
  <2>1. c.op \in {"push", "push_front"} /\ c.data \in {<<x>> : x \in Item}
    BY <1>1
  <2>2. QED
    BY <2>1 DEF Take, NoCall, Batch
<1>2. CASE c \in [op : {"write"}, data : Batches]
  <2>1. c.op = "write" /\ c.data \in Batches
    BY <1>2
  <2>2. QED
    BY <2>1 DEF Take, NoCall, Batch
<1>3. QED
  BY <1>1, <1>2 DEF Put

\* The arguments of a call that takes items.
LEMMA TakeFields ==
  ASSUME NEW c \in Take
  PROVE  /\ c \notin Put /\ c # NoCall
         /\ c.op \in {"pop", "pop_back", "read"}
         /\ c.count \in 1 .. Size
         /\ c.op # "read" => c.count = 1
         /\ c.timeout \in timeout_t
<1>1. 1 \in 1 .. Size
  BY ChannelAssumption
<1>2. CASE c \in [op : {"pop", "pop_back"}, count : {1}, timeout : timeout_t]
  <2>1. c.op \in {"pop", "pop_back"} /\ c.count = 1 /\ c.timeout \in timeout_t
    BY <1>2
  <2>2. QED
    BY <1>1, <2>1 DEF Put, NoCall
<1>3. CASE c \in [op : {"read"}, count : 1 .. Size, timeout : timeout_t]
  <2>1. c.op = "read" /\ c.count \in 1 .. Size /\ c.timeout \in timeout_t
    BY <1>3
  <2>2. QED
    BY <2>1 DEF Put, NoCall
<1>4. QED
  BY <1>2, <1>3 DEF Take

\* A call that stores puts its items, in order, at one end.
LEMMA StoredItems ==
  ASSUME pool \in Ring, NEW c \in Put, RoomFor(c), pool' = Stored(c)
  PROVE  /\ pool' \in Ring
         /\ pool'.Count = pool.Count + Len(c.data)
         /\ \/ RB!Items(pool') = RB!Items(pool) \o c.data
            \/ RB!Items(pool') = c.data \o RB!Items(pool)
<1>1. /\ c.data \in Seq(Item) /\ Len(c.data) \in 1 .. Size
      /\ c.op \in {"push", "push_front", "write"}
  BY PutFields, BatchIsSeq
<1>2. pool.Count + Len(c.data) <= Size
  BY <1>1, RingFields DEF RoomFor, RB!get_free_size
<1>3. CASE c.op = "write"
  <2>1. pool' = RB!write(pool, c.data)
    BY <1>3 DEF Stored
  <2>2. /\ RB!write(pool, c.data) \in Ring
        /\ RB!write(pool, c.data).Count = pool.Count + Len(c.data)
        /\ RB!Items(RB!write(pool, c.data)) = RB!Items(pool) \o c.data
    <3> DEFINE data == c.data
    <3>1. data \in Seq(Item) /\ pool.Count + Len(data) <= Size
      BY <1>1, <1>2
    <3> HIDE DEF data
    <3>2. /\ RB!write(pool, data) \in Ring
          /\ RB!write(pool, data).Count = pool.Count + Len(data)
          /\ RB!Items(RB!write(pool, data)) = RB!Items(pool) \o data
      BY <3>1, WriteItems
    <3>3. QED
      BY <3>2 DEF data
  <2>3. QED
    BY <2>1, <2>2
<1>4. CASE c.op \in {"push", "push_front"}
  <2>1. PICK x \in Item : c.data = <<x>>
    BY <1>4, PutFields
  <2>2. c.data[1] = x /\ Len(c.data) = 1 /\ pool.Count < Size
    BY <1>2, <2>1, RingFields
  <2>3. CASE c.op = "push"
    <3>1. pool' = RB!push_item(pool, x)
      BY <2>2, <2>3 DEF Stored
    <3>2. QED
      BY <2>1, <2>2, <3>1, PushItems
  <2>4. CASE c.op = "push_front"
    <3>1. pool' = RB!push_item_front(pool, x)
      BY <2>2, <2>4 DEF Stored
    <3>2. QED
      BY <2>1, <2>2, <3>1, PushFrontItems
  <2>5. QED
    BY <1>4, <2>3, <2>4
<1>5. QED
  BY <1>1, <1>3, <1>4

\* A call that takes gets its items, in order, from one end.
LEMMA TakenItems ==
  ASSUME pool \in Ring, NEW c \in Take, HasData(c), Taken(c)
  PROVE  /\ pool' \in Ring
         /\ pool'.Count = pool.Count - c.count
         /\ \/ /\ got' = SubSeq(RB!Items(pool), 1, c.count)
               /\ RB!Items(pool') = SubSeq(RB!Items(pool), c.count + 1, pool.Count)
            \/ /\ got' = <<RB!Items(pool)[pool.Count]>>
               /\ RB!Items(pool') = SubSeq(RB!Items(pool), 1, pool.Count - 1)
<1>1. c.count \in Nat /\ c.count > 0 /\ c.count <= pool.Count
  BY TakeFields, ChannelAssumption DEF HasData, RB!get_count
<1>2. CASE c.op = "pop_back"
  <2>1. /\ pool' = RB!pop_item_back(pool).rest
        /\ got' = <<RB!pop_item_back(pool).item>>
        /\ c.count = 1 /\ pool.Count > 0
    BY <1>1, <1>2, TakeFields, RingFields DEF Taken
  <2>2. QED
    BY <2>1, PopBackItems
<1>3. CASE c.op # "pop_back"
  <2>1. pool' = RB!read(pool, c.count).rest /\ got' = RB!read(pool, c.count).data
    BY <1>3 DEF Taken
  <2>2. QED
    BY <1>1, <2>1, ReadItems
<1>4. QED
  BY <1>2, <1>3

-----------------------------------------------------------------------------
(***************************************************************************)
(* The channel implements the deque                                        *)
(***************************************************************************)

\* Storing is a step of the deque.
LEMMA StoreRefines ==
  ASSUME pool \in Ring, NEW c \in Put, RoomFor(c), pool' = Stored(c), UNCHANGED got
  PROVE  Deque!Next
<1>1. c.data \in {<<x>> : x \in Item} \cup Batches
  BY PutFields DEF Batch
<1>2. Len(RB!Items(pool)) + Len(c.data) <= Size
  BY <1>1, BatchIsSeq, ItemsIs, RingFields DEF Batch, RoomFor, RB!get_free_size
<1>3. Deque!PutBack(c.data) \/ Deque!PutFront(c.data)
  BY <1>2, StoredItems DEF Deque!PutBack, Deque!PutFront
<1>4. QED
  BY <1>1, <1>3 DEF Deque!Next

\* Taking is a step of the deque.
LEMMA TakeRefines ==
  ASSUME pool \in Ring, NEW c \in Take, HasData(c), Taken(c)
  PROVE  Deque!Next
<1>1. c.count \in 1 .. Size /\ c.count <= pool.Count
  BY TakeFields DEF HasData, RB!get_count
<1>2. Len(RB!Items(pool)) = pool.Count /\ RB!Items(pool) # << >>
  BY <1>1, ItemsIs, RingFields, EmptySeq
<1>3. Deque!TakeFront(c.count) \/ Deque!TakeBack
  BY <1>1, <1>2, TakenItems DEF Deque!TakeFront, Deque!TakeBack
<1>4. QED
  BY <1>1, <1>3 DEF Deque!Next

-----------------------------------------------------------------------------
(***************************************************************************)
(* Steps of a call, and the kernel                                         *)
(***************************************************************************)

\* A step of the process that has the processor, in its own code or back from
\* the scheduler.
Executes ==
  /\ InThread
  /\ CurProcPriority # prIDLE
  /\ CurProcPriority \in inSched => LeavesSched(CurProcPriority)
  /\ UNCHANGED <<kind, CurProcPriority, ISR_NestCount, exc, switchedOut>>

\* KInv says nothing of a timeout but its type.
LEMMA TimeoutOnly ==
  ASSUME KInv, Timeout' \in [TPriority -> timeout_t],
         UNCHANGED <<CurProcPriority, SchedProcPriority, ReadyProcessMap,
                     ISR_NestCount, inSched, pendSV, exc, switchedOut>>
  PROVE  KInv'
BY DEF KInv, TypeOK, NestCountExact, IdleReady, TargetReady, LoadedReady,
       UnreadyInSched, HighestKnown, SwitchPending

\* Waking the processes of a map keeps KInv.
LEMMA ResumesKeeps ==
  ASSUME KInv, Executes, NEW m \in SUBSET TPriority,
         ReadyProcessMap' = ReadyProcessMap \cup m,
         \/ scheduler
         \/ /\ inSched' = inSched \ {CurProcPriority}
            /\ UNCHANGED <<ReadyProcessMap, schedVars>>,
         Timeout' \in [TPriority -> timeout_t]
  PROVE  KInv' /\ inSched \ {CurProcPriority} \subseteq inSched'
<1>1. /\ ReadyProcessMap' \in SUBSET TPriority /\ prIDLE \in ReadyProcessMap'
      /\ CurProcPriority \in TPriority
  BY RunnerReady DEF Executes, KInv, TypeOK, IdleReady
<1>2. CASE scheduler
  BY <1>1, <1>2, SchedInductive, SchedKeepsOthers DEF Executes
<1>3. CASE /\ inSched' = inSched \ {CurProcPriority}
           /\ UNCHANGED <<ReadyProcessMap, schedVars>>
  <2>1. CASE CurProcPriority \in inSched
    BY <1>1, <1>3, <2>1, LeavesSchedInductive DEF Executes, schedVars
  <2>2. CASE CurProcPriority \notin inSched
    BY <1>3, <2>2, TimeoutOnly DEF Executes, schedVars
  <2>3. QED
    BY <1>3, <2>1, <2>2
<1>4. QED
  BY <1>2, <1>3

\* What Resumes does to the maps, with or without anybody to wake.
LEMMA ResumesProducers ==
  ASSUME Resumes(ProducersProcessMap)
  PROVE  /\ ReadyProcessMap' = ReadyProcessMap \cup ProducersProcessMap
         /\ ProducersProcessMap' = ProducersProcessMap \cap ReadyProcessMap
         /\ \/ scheduler
            \/ /\ inSched' = inSched \ {CurProcPriority}
               /\ UNCHANGED <<ReadyProcessMap, schedVars>>
BY DEF Resumes, resume_all, resume_all_isr, Timeouted, NobodyToResume

\* What waking the consumers changes.
LEMMA ResumesConsumers ==
  ASSUME Resumes(ConsumersProcessMap)
  PROVE  /\ ReadyProcessMap' = ReadyProcessMap \cup ConsumersProcessMap
         /\ ConsumersProcessMap' = ConsumersProcessMap \cap ReadyProcessMap
         /\ \/ scheduler
            \/ /\ inSched' = inSched \ {CurProcPriority}
               /\ UNCHANGED <<ReadyProcessMap, schedVars>>
BY DEF Resumes, resume_all, resume_all_isr, Timeouted, NobodyToResume

\* Suspending the caller keeps KInv.
LEMMA SuspendsKeeps ==
  ASSUME KInv, Executes, scheduler,
         ReadyProcessMap' = ReadyProcessMap \ {CurProcPriority},
         Timeout' \in [TPriority -> timeout_t]
  PROVE  KInv' /\ inSched' = inSched \cup {CurProcPriority}
<1>1. ReadyProcessMap' \in SUBSET TPriority /\ prIDLE \in ReadyProcessMap'
  BY DEF Executes, KInv, TypeOK, IdleReady
<1>2. QED
  BY <1>1, SchedInductive, SchedParks DEF Executes

\* Who executes is on no map, unless its time is up, and has a timeout only if
\* it is a consumer that was resumed.
LEMMA CallerIs ==
  ASSUME ChInv, Executes
  PROVE  /\ CurProcPriority \in TPriority
         /\ CurProcPriority \in ReadyProcessMap
         /\ CurProcPriority \notin ProducersProcessMap
         /\ call[CurProcPriority] \notin Take =>
              /\ CurProcPriority \notin ConsumersProcessMap
              /\ Timeout[CurProcPriority] = 0
         /\ kind = "TChannel" => /\ CurProcPriority \notin ConsumersProcessMap
                                 /\ Timeout[CurProcPriority] = 0
<1>1. CurProcPriority \in TPriority /\ CurProcPriority \in ReadyProcessMap
  BY RunnerReady DEF ChInv, Executes
<1>2. CurProcPriority \notin ProducersProcessMap
  BY <1>1 DEF ChInv, MapsAreBlocked
<1>3. call[CurProcPriority] \notin Take =>
        CurProcPriority \notin ConsumersProcessMap /\ Timeout[CurProcPriority] = 0
  BY <1>1 DEF ChInv, MapsAreBlocked, OverdueResumed, Overdue
<1>4. ASSUME kind = "TChannel", call[CurProcPriority] \in Take
      PROVE  CurProcPriority \notin ConsumersProcessMap /\ Timeout[CurProcPriority] = 0
  BY <1>1, <1>4 DEF ChInv, TConsumersAsleep, UntimedRemain, Untimed
<1>5. QED
  BY <1>1, <1>2, <1>3, <1>4

\* The maps in terms of single processes.
Placed(p) ==
  /\ p \in ProducersProcessMap <=> call[p] \in Put /\ p \notin ReadyProcessMap
  /\ call[p] \in Take /\ p \notin ReadyProcessMap => p \in ConsumersProcessMap
  /\ p \in ConsumersProcessMap => call[p] \in Take

\* The property of the maps, process by process.
LEMMA MapsByProcess ==
  MapsAreBlocked <=>
    /\ ProducersProcessMap \subseteq TPriority
    /\ ConsumersProcessMap \subseteq TPriority
    /\ \A p \in TPriority : Placed(p)
BY DEF MapsAreBlocked, Placed

-----------------------------------------------------------------------------
(***************************************************************************)
(* The steps of a call keep the invariant                                  *)
(***************************************************************************)

\* The caller's own call, and nobody else's.
LEMMA CallOf ==
  ASSUME ChannelType, CurProcPriority \in TPriority,
         NEW c \in Put \cup Take \cup {NoCall},
         call' = [call EXCEPT ![CurProcPriority] = c]
  PROVE  /\ call' \in [TPriority -> Put \cup Take \cup {NoCall}]
         /\ call'[CurProcPriority] = c
         /\ \A p \in TPriority \ {CurProcPriority} : call'[p] = call[p]
BY DEF ChannelType

\* A call that ends in Resumes: it has served one side, to the good of the
\* other, all of whose waiters it has made ready.
ServesConsumers ==
  /\ ReadyProcessMap' = ReadyProcessMap \cup ConsumersProcessMap
  /\ ConsumersProcessMap' = ConsumersProcessMap \cap ReadyProcessMap
  /\ UNCHANGED ProducersProcessMap
  /\ pool'.Count >= pool.Count

ServesProducers ==
  /\ ReadyProcessMap' = ReadyProcessMap \cup ProducersProcessMap
  /\ ProducersProcessMap' = ProducersProcessMap \cap ReadyProcessMap
  /\ UNCHANGED ConsumersProcessMap
  /\ pool'.Count <= pool.Count

\* A call that serves one side, wakes all of the other and returns keeps the
\* invariant: whoever stays blocked is on the side that was not helped.
LEMMA ReturnKeeps ==
  ASSUME ChInv, Executes, KInv', inSched \ {CurProcPriority} \subseteq inSched',
         ServesConsumers \/ ServesProducers,
         pool' \in Ring, Returns,
         CurProcPriority \notin ConsumersProcessMap,
         Timeout'[CurProcPriority] = 0,
         \A p \in TPriority \ {CurProcPriority} : Timeout'[p] = Timeout[p]
  PROVE  ChInv'
<1> USE DEF Placed
<1> DEFINE me == CurProcPriority
<1>1. /\ me \in TPriority /\ me \in ReadyProcessMap /\ me \in ReadyProcessMap'
      /\ me \notin ProducersProcessMap
  BY CallerIs DEF ServesConsumers, ServesProducers
<1>2. /\ call' \in [TPriority -> Put \cup Take \cup {NoCall}]
      /\ call'[me] = NoCall
      /\ \A p \in TPriority \ {me} : call'[p] = call[p]
  BY <1>1, CallOf DEF ChInv, Returns
<1>3. /\ MapsAreBlocked
      /\ ProducersProcessMap \subseteq TPriority
      /\ ConsumersProcessMap \subseteq TPriority
      /\ \A p \in TPriority : Placed(p)
  BY MapsByProcess DEF ChInv
<1>4. /\ NoCall \notin Put /\ NoCall \notin Take
      /\ \A x \in Put : x \notin Take
  BY PutFields, TakeFields
<1>5. ChannelType'
  BY <1>2 DEF ChInv, ChannelType, Executes
<1>6. CallersInSched'
  BY <1>2 DEF ChInv, CallersInSched, Callers
<1>7. UntimedRemain'
  BY <1>2, <1>4 DEF ChInv, UntimedRemain, Untimed, Executes
<1>8. TConsumersAsleep'
  <2>1. CASE ServesConsumers
    BY <2>1 DEF ChInv, TConsumersAsleep, Executes, ServesConsumers
  <2>2. CASE ServesProducers
    BY <1>3, <1>4, <2>2 DEF ChInv, TConsumersAsleep, Executes, ServesProducers
  <2>3. QED
    BY <2>1, <2>2
<1>9. MapsAreBlocked'
  <2>1. ASSUME NEW p \in TPriority
        PROVE  Placed(p)'
    <3>1. CASE p = me
      BY <1>1, <1>2, <1>4, <3>1 DEF ServesConsumers, ServesProducers
    <3>2. CASE p # me
      BY <1>2, <1>3, <1>4, <3>2 DEF ServesConsumers, ServesProducers
    <3>3. QED
      BY <3>1, <3>2
  <2>2. /\ ProducersProcessMap' \subseteq TPriority
        /\ ConsumersProcessMap' \subseteq TPriority
    BY <1>3 DEF ServesConsumers, ServesProducers
  <2>3. QED
    BY <2>1, <2>2 DEF MapsAreBlocked
<1>10. OverdueResumed'
  <2>1. ASSUME NEW p \in Overdue'
        PROVE  p \in TPriority /\ call'[p] \in Take /\ p \notin ConsumersProcessMap'
    <3>1. /\ p \in TPriority /\ Timeout[p] # 0 /\ p # me /\ p \in ReadyProcessMap'
          /\ call'[p] = call[p]
      BY <1>2, <2>1 DEF Overdue, KInv, TypeOK
    <3>2. CASE p \in ReadyProcessMap
      BY <3>1, <3>2
      DEF ChInv, OverdueResumed, Overdue, ServesConsumers, ServesProducers
    <3>3. CASE p \notin ReadyProcessMap
      <4>1. ServesConsumers /\ p \in ConsumersProcessMap
        BY <1>3, <3>1, <3>3
        DEF ChInv, UntimedRemain, Untimed, ServesConsumers, ServesProducers
      <4>2. QED
        BY <1>3, <3>1, <3>3, <4>1 DEF ServesConsumers
    <3>4. QED
      BY <3>2, <3>3
  <2>2. QED
    BY <2>1 DEF OverdueResumed
<1>11. NobodyWaitsInVain'
  <2> SUFFICES ASSUME NEW p \in TPriority, call'[p] # NoCall, p \notin ReadyProcessMap'
      PROVE IF call'[p] \in Put THEN ~(Size - pool'.Count >= Len(call'[p].data))
                                ELSE ~(pool'.Count >= call'[p].count)
    BY DEF NobodyWaitsInVain, Blocked, RoomFor, HasData, RB!get_free_size, RB!get_count
  <2>1. p # me /\ call'[p] = call[p] /\ p \notin ReadyProcessMap
    BY <1>2 DEF ServesConsumers, ServesProducers
  <2>2. IF call[p] \in Put THEN ~(Size - pool.Count >= Len(call[p].data))
                           ELSE ~(pool.Count >= call[p].count)
    BY <2>1 DEF ChInv, NobodyWaitsInVain, Blocked, RoomFor, HasData, RB!get_free_size,
       RB!get_count
  <2>3. pool.Count \in Nat /\ pool'.Count \in Nat /\ Size \in Nat
    BY RingFields DEF ChInv, ChannelType
  <2>4. CASE ServesConsumers
    <3>1. call[p] \in Put
      BY <1>2, <1>3, <2>1, <2>4 DEF ServesConsumers
    <3>2. Len(call[p].data) \in Nat
      BY <3>1, PutFields, BatchIsSeq
    <3>3. QED
      BY <2>1, <2>2, <2>3, <2>4, <3>1, <3>2 DEF ServesConsumers
  <2>5. CASE ServesProducers
    <3>1. call[p] \in Take /\ call[p] \notin Put
      BY <1>2, <1>3, <1>4, <2>1, <2>5 DEF ServesProducers
    <3>2. call[p].count \in Nat
      BY <3>1, TakeFields, ChannelAssumption
    <3>3. QED
      BY <2>1, <2>2, <2>3, <2>5, <3>1, <3>2 DEF ServesProducers
  <2>6. QED
    BY <2>4, <2>5
<1>12. QED
  BY <1>5, <1>6, <1>7, <1>8, <1>9, <1>10, <1>11 DEF ChInv

\* A call that has to wait: its process leaves the ready ones and goes on the
\* map of its side.
LEMMA WaitKeeps ==
  ASSUME ChInv, Executes, KInv', NEW c \in Put \cup Take,
         inSched' = inSched \cup {CurProcPriority},
         ReadyProcessMap' = ReadyProcessMap \ {CurProcPriority},
         WaitsIn(c), UNCHANGED pool,
         \/ /\ c \in Put /\ ~RoomFor(c)
            /\ ProducersProcessMap' = ProducersProcessMap \cup {CurProcPriority}
            /\ UNCHANGED ConsumersProcessMap
            /\ CurProcPriority \notin ConsumersProcessMap
         \/ /\ c \in Take /\ ~HasData(c)
            /\ ConsumersProcessMap' = ConsumersProcessMap \cup {CurProcPriority}
            /\ UNCHANGED ProducersProcessMap,
         c \in Put \/ kind = "TChannel" => Timeout'[CurProcPriority] = 0,
         \A p \in TPriority \ {CurProcPriority} : Timeout'[p] = Timeout[p]
  PROVE  ChInv'
<1> USE DEF Placed
<1> DEFINE me == CurProcPriority
<1>1. me \in TPriority /\ me # prIDLE /\ me \notin ProducersProcessMap
  BY CallerIs DEF Executes
<1>2. /\ call' \in [TPriority -> Put \cup Take \cup {NoCall}]
      /\ call'[me] = c
      /\ \A p \in TPriority \ {me} : call'[p] = call[p]
  BY <1>1, CallOf DEF ChInv, WaitsIn
<1>3. /\ ProducersProcessMap \subseteq TPriority
      /\ ConsumersProcessMap \subseteq TPriority
      /\ \A p \in TPriority : Placed(p)
  BY MapsByProcess DEF ChInv
<1>4. /\ c # NoCall /\ (c \in Put => c \notin Take) /\ (c \in Take => c \notin Put)
  BY PutFields, TakeFields
<1>5. ChannelType'
  BY <1>2 DEF ChInv, ChannelType, Executes
<1>6. CallersInSched'
  BY <1>1, <1>2 DEF ChInv, CallersInSched, Callers
<1>7. UntimedRemain'
  BY <1>2, <1>4 DEF ChInv, UntimedRemain, Untimed, Executes
<1>8. TConsumersAsleep'
  BY DEF ChInv, TConsumersAsleep, Executes
<1>9. MapsAreBlocked'
  <2>1. ASSUME NEW p \in TPriority
        PROVE  Placed(p)'
    <3>1. CASE p = me
      BY <1>1, <1>2, <1>4, <3>1
    <3>2. CASE p # me
      BY <1>2, <1>3, <3>2
    <3>3. QED
      BY <3>1, <3>2
  <2>2. /\ ProducersProcessMap' \subseteq TPriority
        /\ ConsumersProcessMap' \subseteq TPriority
    BY <1>1, <1>3
  <2>3. QED
    BY <2>1, <2>2 DEF MapsAreBlocked
<1>10. OverdueResumed'
  <2>1. Overdue' \subseteq Overdue \ {me}
    BY DEF Overdue, ChInv, KInv, TypeOK
  <2>2. QED
    BY <1>2, <2>1 DEF ChInv, OverdueResumed
<1>11. NobodyWaitsInVain'
  <2> SUFFICES ASSUME NEW p \in TPriority, call'[p] # NoCall, p \notin ReadyProcessMap'
      PROVE IF call'[p] \in Put THEN ~(Size - pool.Count >= Len(call'[p].data))
                                ELSE ~(pool.Count >= call'[p].count)
    BY DEF NobodyWaitsInVain, Blocked, RoomFor, HasData, RB!get_free_size, RB!get_count
  <2>1. CASE p = me
    BY <1>2, <1>4, <2>1 DEF RoomFor, HasData, RB!get_free_size, RB!get_count
  <2>2. CASE p # me
    BY <1>2, <2>2
    DEF ChInv, NobodyWaitsInVain, Blocked, RoomFor, HasData, RB!get_free_size,
        RB!get_count
  <2>3. QED
    BY <2>1, <2>2
<1>12. QED
  BY <1>5, <1>6, <1>7, <1>8, <1>9, <1>10, <1>11 DEF ChInv

\* The invariant holds at the start.
LEMMA ChInitInductive == ChannelInit => ChInv
<1> SUFFICES ASSUME ChannelInit PROVE ChInv
  OBVIOUS
<1>1. KInv /\ Overdue = {}
  BY InitInductive, NoneOverdue DEF ChannelInit, IInv, KInv
<1>2. NoCall \notin Put /\ NoCall \notin Take
  BY PutFields, TakeFields
<1>3. pool \in Ring
  <2>1. pool \in Fields /\ pool.Count = 0 /\ pool.First = 0 /\ pool.Last = 0
    BY ChannelAssumption DEF ChannelInit, RB!Empty, RB!Index, Fields, Slots
  <2>2. QED
    BY <2>1, ChannelAssumption DEF Ring, Place
<1>4. \A p \in TPriority : call[p] = NoCall
  BY DEF ChannelInit
<1>5. ChannelType /\ CallersInSched /\ NobodyWaitsInVain
  BY <1>3, <1>4 DEF ChannelInit, ChannelType, CallersInSched, Callers,
     NobodyWaitsInVain, Blocked
<1>6. UntimedRemain /\ TConsumersAsleep /\ OverdueResumed
  BY <1>1, <1>2, <1>4 DEF ChannelInit, UntimedRemain, Untimed, TConsumersAsleep,
     OverdueResumed
<1>7. MapsAreBlocked
  BY <1>2, <1>4 DEF ChannelInit, MapsAreBlocked
<1>8. QED
  BY <1>1, <1>5, <1>6, <1>7 DEF ChInv

\* Setting the timeout of the caller keeps its type.
LEMMA TimeoutTyped ==
  ASSUME ChInv
  PROVE  /\ Timeout \in [TPriority -> timeout_t]
         /\ 0 \in timeout_t
         /\ \A t \in timeout_t : [Timeout EXCEPT ![CurProcPriority] = t]
                                   \in [TPriority -> timeout_t]
BY KernelAssumption DEF ChInv, KInv, TypeOK, timeout_t

\* push, push_front and write keep the invariant.
LEMMA ProduceKeeps ==
  ASSUME ChInv, Executes, call[CurProcPriority] \notin Take, NEW c \in Put, Produce(c)
  PROVE  ChInv'
<1>1. /\ CurProcPriority \in TPriority
      /\ CurProcPriority \notin ConsumersProcessMap
      /\ Timeout[CurProcPriority] = 0
      /\ UNCHANGED Timeout
      /\ Timeout' \in [TPriority -> timeout_t]
      /\ ProducersProcessMap \in SUBSET TPriority
      /\ ConsumersProcessMap \in SUBSET TPriority
      /\ pool \in Ring
  BY CallerIs, TimeoutTyped, MapsByProcess DEF Produce, ChInv, ChannelType
<1>2. CASE /\ RoomFor(c) /\ pool' = Stored(c) /\ Returns
           /\ Resumes(ConsumersProcessMap) /\ UNCHANGED ProducersProcessMap
  <2>1. pool' \in Ring /\ pool'.Count >= pool.Count
    <3>1. pool' \in Ring /\ pool'.Count = pool.Count + Len(c.data)
      BY <1>1, <1>2, StoredItems
    <3>2. Len(c.data) \in Nat /\ pool.Count \in Nat
      BY <1>1, PutFields, BatchIsSeq, RingFields
    <3>3. QED
      BY <3>1, <3>2
  <2>2. ServesConsumers
    BY <1>2, <2>1, ResumesConsumers DEF ServesConsumers
  <2>3. KInv' /\ inSched \ {CurProcPriority} \subseteq inSched'
    BY <1>1, <1>2, ResumesConsumers, ResumesKeeps DEF ChInv
  <2>4. QED
    BY <1>1, <1>2, <2>1, <2>2, <2>3, ReturnKeeps
<1>3. CASE /\ ~RoomFor(c) /\ suspend(ProducersProcessMap) /\ WaitsIn(c)
           /\ UNCHANGED <<pool, ConsumersProcessMap>>
  <2>1. /\ ProducersProcessMap' = ProducersProcessMap \cup {CurProcPriority}
        /\ ReadyProcessMap' = ReadyProcessMap \ {CurProcPriority}
        /\ scheduler
    BY <1>3 DEF suspend
  <2>2. KInv' /\ inSched' = inSched \cup {CurProcPriority}
    BY <1>1, <2>1, SuspendsKeeps DEF ChInv
  <2>3. QED
    BY <1>1, <1>3, <2>1, <2>2, WaitKeeps
<1>4. QED
  BY <1>2, <1>3 DEF Produce

\* A pop or read that finds enough keeps the invariant.
LEMMA TakesDataKeeps ==
  ASSUME ChInv, Executes, NEW c \in Take, TakesData(c),
         CurProcPriority \notin ConsumersProcessMap,
         Timeout' = [Timeout EXCEPT ![CurProcPriority] = 0]
  PROVE  ChInv'
<1>1. /\ CurProcPriority \in TPriority
      /\ Timeout' \in [TPriority -> timeout_t]
      /\ Timeout'[CurProcPriority] = 0
      /\ \A p \in TPriority \ {CurProcPriority} : Timeout'[p] = Timeout[p]
      /\ ProducersProcessMap \in SUBSET TPriority
      /\ pool \in Ring
  BY CallerIs, TimeoutTyped, MapsByProcess DEF ChInv, ChannelType
<1>2. /\ HasData(c) /\ Taken(c) /\ Returns
      /\ Resumes(ProducersProcessMap) /\ UNCHANGED ConsumersProcessMap
  BY DEF TakesData
<1>3. pool' \in Ring /\ pool'.Count <= pool.Count
  <2>1. pool' \in Ring /\ pool'.Count = pool.Count - c.count
    BY <1>1, <1>2, TakenItems
  <2>2. c.count \in Nat /\ pool.Count \in Nat
    BY <1>1, TakeFields, RingFields, ChannelAssumption
  <2>3. QED
    BY <2>1, <2>2
<1>4. ServesProducers
  BY <1>2, <1>3, ResumesProducers DEF ServesProducers
<1>5. KInv' /\ inSched \ {CurProcPriority} \subseteq inSched'
  BY <1>1, <1>2, ResumesProducers, ResumesKeeps DEF ChInv
<1>6. QED
  BY <1>1, <1>2, <1>3, <1>4, <1>5, ReturnKeeps

\* A pop or read that waits keeps the invariant.
LEMMA SuspendsForKeeps ==
  ASSUME ChInv, Executes, NEW c \in Take, SuspendsFor(c),
         NEW t \in timeout_t, Timeout' = [Timeout EXCEPT ![CurProcPriority] = t],
         kind = "TChannel" => t = 0
  PROVE  ChInv'
<1>1. /\ CurProcPriority \in TPriority
      /\ Timeout' \in [TPriority -> timeout_t]
      /\ Timeout'[CurProcPriority] = t
      /\ \A p \in TPriority \ {CurProcPriority} : Timeout'[p] = Timeout[p]
  BY CallerIs, TimeoutTyped
<1>2. /\ ~HasData(c) /\ WaitsIn(c) /\ scheduler
      /\ ConsumersProcessMap' = ConsumersProcessMap \cup {CurProcPriority}
      /\ ReadyProcessMap' = ReadyProcessMap \ {CurProcPriority}
      /\ UNCHANGED <<pool, ProducersProcessMap>>
  BY DEF SuspendsFor, suspend
<1>3. KInv' /\ inSched' = inSched \cup {CurProcPriority}
  BY <1>1, <1>2, SuspendsKeeps DEF ChInv
<1>4. c \notin Put
  BY TakeFields
<1>5. QED
  BY <1>1, <1>2, <1>3, <1>4, WaitKeeps

\* The timeout of a process that has none to take back.
LEMMA NothingToTakeBack ==
  ASSUME ChInv, CurProcPriority \in TPriority, Timeout[CurProcPriority] = 0
  PROVE  Timeout = [Timeout EXCEPT ![CurProcPriority] = 0]
BY TimeoutTyped

\* pop, pop_back and read, from their call on, keep the invariant.
LEMMA ConsumeKeeps ==
  ASSUME ChInv, Executes, call[CurProcPriority] \notin Take,
         NEW c \in Take, kind = "TChannel" => c.timeout = 0, Consume(c)
  PROVE  ChInv'
<1>1. /\ CurProcPriority \notin ConsumersProcessMap
      /\ Timeout = [Timeout EXCEPT ![CurProcPriority] = 0]
      /\ c.timeout \in timeout_t /\ 0 \in timeout_t
      /\ kind \in {"channel", "TChannel"}
  BY CallerIs, NothingToTakeBack, TakeFields, TimeoutTyped DEF ChInv, ChannelType
<1>2. CASE HasData(c)
  <2>1. TakesData(c) /\ Timeout' = [Timeout EXCEPT ![CurProcPriority] = 0]
    BY <1>1, <1>2 DEF Consume, SetTimeout, SuspendsFor
  <2>2. QED
    BY <1>1, <2>1, TakesDataKeeps
<1>3. CASE ~HasData(c)
  <2>1. SuspendsFor(c) /\ IF kind = "channel" THEN SetTimeout(c.timeout)
                                              ELSE UNCHANGED Timeout
    BY <1>3 DEF Consume, TakesData
  <2>2. CASE kind = "channel"
    <3>1. Timeout' = [Timeout EXCEPT ![CurProcPriority] = c.timeout]
      BY <2>1, <2>2 DEF SetTimeout
    <3>2. QED
      BY <1>1, <2>1, <2>2, <3>1, SuspendsForKeeps
  <2>3. CASE kind = "TChannel"
    <3>1. Timeout' = [Timeout EXCEPT ![CurProcPriority] = 0]
      BY <1>1, <2>1, <2>3
    <3>2. QED
      BY <1>1, <2>1, <2>3, <3>1, SuspendsForKeeps
  <2>4. QED
    BY <1>1, <2>2, <2>3
<1>4. QED
  BY <1>2, <1>3

\* flush keeps the invariant.
LEMMA FlushKeeps ==
  ASSUME ChInv, Executes, call[CurProcPriority] = NoCall, flush
  PROVE  ChInv'
<1>1. /\ CurProcPriority \in TPriority
      /\ CurProcPriority \notin ConsumersProcessMap
      /\ Timeout[CurProcPriority] = 0
      /\ ProducersProcessMap \in SUBSET TPriority
      /\ pool \in Ring
  <2>1. NoCall \notin Take
    BY TakeFields
  <2>2. QED
    BY <2>1, CallerIs, MapsByProcess DEF ChInv, ChannelType
<1>2. /\ pool' = RB!flush(pool) /\ Resumes(ProducersProcessMap)
      /\ UNCHANGED <<ConsumersProcessMap, call, Timeout>>
  BY DEF flush
<1>3. Returns
  BY <1>2 DEF ChInv, ChannelType, Returns
<1>4. pool' \in Ring /\ pool'.Count <= pool.Count
  BY <1>1, <1>2, FlushItems, RingFields
<1>5. ServesProducers
  BY <1>2, <1>4, ResumesProducers DEF ServesProducers
<1>6. KInv' /\ inSched \ {CurProcPriority} \subseteq inSched'
  BY <1>1, <1>2, TimeoutTyped, ResumesProducers, ResumesKeeps DEF ChInv
<1>7. QED
  BY <1>1, <1>2, <1>3, <1>4, <1>5, <1>6, ReturnKeeps

\* A pop or read that gives up keeps the invariant.
LEMMA TimesOutKeeps ==
  ASSUME ChInv, Executes, CurProcPriority \in inSched,
         NEW c \in Take, TimesOut(c)
  PROVE  ChInv'
<1> DEFINE me == CurProcPriority
<1>1. /\ me \in TPriority /\ me \in ReadyProcessMap /\ me \notin ProducersProcessMap
      /\ me \in ConsumersProcessMap /\ kind = "channel"
      /\ ConsumersProcessMap' = ConsumersProcessMap \ {me}
      /\ inSched' = inSched \ {me}
      /\ Returns
      /\ UNCHANGED <<pool, ProducersProcessMap, ReadyProcessMap, Timeout, schedVars>>
  BY CallerIs DEF TimesOut, is_timeouted
<1>2. /\ call' \in [TPriority -> Put \cup Take \cup {NoCall}]
      /\ call'[me] = NoCall
      /\ \A p \in TPriority \ {me} : call'[p] = call[p]
  BY <1>1, CallOf DEF ChInv, Returns
<1>3. NoCall \notin Put /\ NoCall \notin Take
  BY PutFields, TakeFields
<1>4. KInv'
  BY <1>1, TimeoutTyped, LeavesSchedInductive DEF ChInv, Executes, schedVars
<1>5. ChannelType' /\ CallersInSched' /\ TConsumersAsleep'
  BY <1>1, <1>2 DEF ChInv, ChannelType, CallersInSched, Callers, TConsumersAsleep,
     Executes
<1>6. UntimedRemain'
  BY <1>1, <1>2, <1>3 DEF ChInv, UntimedRemain, Untimed, Executes
<1>7. OverdueResumed'
  BY <1>1, <1>2 DEF ChInv, OverdueResumed, Overdue
<1>8. MapsAreBlocked'
  BY <1>1, <1>2, <1>3 DEF ChInv, MapsAreBlocked
<1>9. NobodyWaitsInVain'
  <2> SUFFICES ASSUME NEW p \in TPriority, call'[p] # NoCall, p \notin ReadyProcessMap'
      PROVE IF call'[p] \in Put THEN ~(Size - pool.Count >= Len(call'[p].data))
                                ELSE ~(pool.Count >= call'[p].count)
    BY <1>1 DEF NobodyWaitsInVain, Blocked, RoomFor, HasData, RB!get_free_size,
       RB!get_count
  <2>1. call'[p] = call[p] /\ p \notin ReadyProcessMap
    BY <1>1, <1>2
  <2>2. QED
    BY <2>1 DEF ChInv, NobodyWaitsInVain, Blocked, RoomFor, HasData,
       RB!get_free_size, RB!get_count
<1>10. QED
  BY <1>4, <1>5, <1>6, <1>7, <1>8, <1>9 DEF ChInv

\* A pop or read that goes round its loop keeps the invariant.
LEMMA TriesAgainKeeps ==
  ASSUME ChInv, Executes, NEW c \in Take, TriesAgain(c)
  PROVE  ChInv'
<1>1. /\ CurProcPriority \in TPriority
      /\ CurProcPriority \notin ConsumersProcessMap
      /\ kind \in {"channel", "TChannel"}
      /\ kind = "TChannel" => Timeout = [Timeout EXCEPT ![CurProcPriority] = 0]
      /\ 0 \in timeout_t
  BY CallerIs, NothingToTakeBack, TimeoutTyped
  DEF ChInv, ChannelType, TriesAgain, is_timeouted
<1>2. CASE /\ TakesData(c)
           /\ IF kind = "channel" THEN SetTimeout(0) ELSE UNCHANGED Timeout
  <2>1. Timeout' = [Timeout EXCEPT ![CurProcPriority] = 0]
    BY <1>1, <1>2 DEF SetTimeout
  <2>2. QED
    BY <1>1, <1>2, <2>1, TakesDataKeeps
<1>3. CASE SuspendsFor(c) /\ UNCHANGED Timeout
  <2>1. /\ Timeout' = [Timeout EXCEPT ![CurProcPriority] = Timeout[CurProcPriority]]
        /\ Timeout[CurProcPriority] \in timeout_t
    BY <1>1, <1>3, TimeoutTyped
  <2>2. kind = "TChannel" => Timeout[CurProcPriority] = 0
    BY CallerIs
  <2>3. QED
    BY <1>3, <2>1, <2>2, SuspendsForKeeps
<1>4. QED
  BY <1>2, <1>3 DEF TriesAgain

-----------------------------------------------------------------------------
(***************************************************************************)
(* Steps outside the channel                                               *)
(***************************************************************************)

\* They leave the channel and its ready callers alone, and wake a caller only
\* if its time is up or if it is a consumer that expects to be woken.
LEMMA OtherKeeps ==
  ASSUME ChInv, KInv', UNCHANGED channelVars,
         Callers \subseteq inSched',
         Callers \cap ReadyProcessMap \subseteq ReadyProcessMap',
         Overdue' \subseteq Overdue,
         \A p \in Callers :
           Untimed(p) => /\ p \in ReadyProcessMap' => p \in ReadyProcessMap
                         /\ Timeout'[p] = 0
  PROVE  ChInv'
<1> USE DEF Placed
<1>1. /\ NoCall \notin Put /\ NoCall \notin Take
      /\ \A x \in Put : x \notin Take
  BY PutFields, TakeFields
<1>2. /\ UNCHANGED <<kind, ProducersProcessMap, ConsumersProcessMap, pool, call>>
  BY DEF channelVars
<1>3. ChannelType' /\ CallersInSched' /\ OverdueResumed'
  BY <1>2 DEF ChInv, ChannelType, CallersInSched, Callers, OverdueResumed
<1>4. UntimedRemain'
  BY <1>1, <1>2 DEF UntimedRemain, Untimed, Callers
<1>5. TConsumersAsleep'
  BY <1>1, <1>2 DEF ChInv, TConsumersAsleep, Untimed, Callers, MapsAreBlocked
<1>6. MapsAreBlocked'
  <2>1. /\ ProducersProcessMap \subseteq TPriority
        /\ ConsumersProcessMap \subseteq TPriority
        /\ \A p \in TPriority : Placed(p)
    BY MapsByProcess DEF ChInv
  <2>2. \A p \in TPriority : Placed(p)'
    BY <1>1, <1>2, <2>1 DEF Untimed, Callers
  <2>3. QED
    BY <1>2, <2>1, <2>2 DEF MapsAreBlocked
<1>7. NobodyWaitsInVain'
  <2> SUFFICES ASSUME NEW p \in TPriority, call[p] # NoCall, p \notin ReadyProcessMap'
      PROVE IF call[p] \in Put THEN ~(Size - pool.Count >= Len(call[p].data))
                               ELSE ~(pool.Count >= call[p].count)
    BY <1>2 DEF NobodyWaitsInVain, Blocked, RoomFor, HasData, RB!get_free_size,
       RB!get_count
  <2>1. p \notin ReadyProcessMap
    BY DEF Callers
  <2>2. QED
    BY <2>1 DEF ChInv, NobodyWaitsInVain, Blocked, RoomFor, HasData,
       RB!get_free_size, RB!get_count
<1>8. QED
  BY <1>3, <1>4, <1>5, <1>6, <1>7 DEF ChInv

\* What else processes and interrupts do keeps the invariant.
LEMMA OthersKeepCallers ==
  ASSUME ChInv, OtherCall \/ OtherReturns \/ KernelHandlers
  PROVE  ChInv'
<1>1. /\ KInv /\ Callers \subseteq inSched /\ Callers \subseteq TPriority
      /\ \A p \in Callers : Untimed(p) => Timeout[p] = 0
      /\ Timeout \in [TPriority -> timeout_t]
      /\ UNCHANGED channelVars
  BY TimeoutTyped DEF ChInv, CallersInSched, UntimedRemain, Callers, OtherCall,
     OtherReturns, KernelHandlers
<1>2. CASE OtherCall
  <2>1. ProcessCall /\ CurProcPriority \notin Callers
    BY <1>1, <1>2 DEF OtherCall, ProcessCall, Running
  <2>2. KInv' /\ Overdue' \subseteq Overdue
    BY <1>1, <2>1, ProcessCallInductive
  <2>3. \/ /\ scheduler
           /\ ReadyProcessMap \ {CurProcPriority} \subseteq ReadyProcessMap'
           /\ \E q \in TPriority, t \in timeout_t :
                /\ Timeout' = [Timeout EXCEPT ![q] = t]
                /\ q = CurProcPriority \/ t = 0
        \/ UNCHANGED <<inSched, ReadyProcessMap, Timeout>>
    <3>1. CurProcPriority \in TPriority /\ 0 \in timeout_t
      BY TimeoutTyped DEF ChInv, KInv, TypeOK
    <3>2. QED
      BY <2>1, <3>1 DEF ProcessCall, sleep, wake_up, force_wake_up, set_awake,
         kernelVars
  <2>4. Callers \subseteq inSched'
        /\ Callers \cap ReadyProcessMap \subseteq ReadyProcessMap'
    BY <1>1, <2>1, <2>3, SchedKeepsOthers
  <2>5. \A p \in Callers : Untimed(p) => Timeout'[p] = 0
    BY <1>1, <2>1, <2>3
  <2>6. \A p \in Callers : Untimed(p) /\ p \in ReadyProcessMap' => p \in ReadyProcessMap
    <3>1. \A p \in Callers : Untimed(p) => ~ExpectsForce(p)
      BY PutFields, TakeFields DEF Untimed, ExpectsForce
    <3>2. QED
      BY <1>2, <3>1 DEF OtherCall, Callers
  <2>7. QED
    BY <1>1, <2>2, <2>4, <2>5, <2>6, OtherKeeps
<1>3. CASE OtherReturns
  <2>1. PICK p \in TPriority : call[p] = NoCall /\ SchedReturns(p)
    BY <1>3 DEF OtherReturns
  <2>2. /\ KInv' /\ Overdue' = Overdue /\ inSched' = inSched \ {p} /\ p \notin Callers
        /\ UNCHANGED <<ReadyProcessMap, Timeout>>
    BY <1>1, <2>1, SchedReturnsInductive DEF SchedReturns, Callers
  <2>3. QED
    BY <1>1, <2>2, OtherKeeps
<1>4. CASE KernelHandlers
  <2>1. KInv' /\ Overdue' \subseteq Overdue /\ UNCHANGED inSched
    BY <1>1, <1>4, HandlersInductive, HandlersOverdue
    DEF KernelHandlers, SysTickEntry, SysTick, PendSV, ISR_Enter, system_timer,
        ISR_Exit, PendSVEntry, context_switch_hook
  <2>2. /\ ReadyProcessMap \subseteq ReadyProcessMap'
        /\ \A p \in TPriority : Timeout[p] = 0 =>
             Timeout'[p] = 0 /\ (p \in ReadyProcessMap' => p \in ReadyProcessMap)
    <3>1. CASE system_timer
      BY <1>1, <3>1 DEF system_timer
    <3>2. CASE UNCHANGED <<ReadyProcessMap, Timeout>>
      BY <3>2
    <3>3. QED
      BY <1>4, <3>1, <3>2
      DEF KernelHandlers, SysTickEntry, SysTick, PendSV, ISR_Enter, ISR_Exit,
          PendSVEntry, context_switch_hook
  <2>3. QED
    BY <1>1, <2>1, <2>2, OtherKeeps
<1>5. QED
  BY <1>2, <1>3, <1>4

-----------------------------------------------------------------------------
(***************************************************************************)
(* The theorems                                                            *)
(***************************************************************************)

\* A process goes on in its call only when it has the processor.
LEMMA GoesOn ==
  ASSUME ChInv, NEW p \in TPriority, LeavesSched(p), call[p] # NoCall
  PROVE  /\ CurProcPriority = p /\ p \in inSched
         /\ InThread /\ CurProcPriority # prIDLE
         /\ LeavesSched(CurProcPriority)
BY DEF ChInv, CallersInSched, Callers, LeavesSched

\* A step that changes nothing keeps the invariant.
LEMMA StutterKeeps == ChInv /\ UNCHANGED serviceVars => ChInv'
<1> SUFFICES ASSUME ChInv, UNCHANGED serviceVars PROVE ChInv'
  OBVIOUS
<1>1. UNCHANGED channelVars /\ UNCHANGED kernelVars
  BY DEF serviceVars
<1>2. KInv'
  BY <1>1, TimeoutOnly, TimeoutTyped DEF kernelVars, ChInv
<1>3. Callers \subseteq inSched /\ \A p \in Callers : Untimed(p) => Timeout[p] = 0
  BY DEF ChInv, CallersInSched, UntimedRemain, Callers
<1>4. QED
  BY <1>1, <1>2, <1>3, OtherKeeps DEF kernelVars, Overdue

\* Every step keeps the invariant.
LEMMA ChNextInductive == ChInv /\ [ChannelNext]_serviceVars => ChInv'
<1> SUFFICES ASSUME ChInv, [ChannelNext]_serviceVars PROVE ChInv'
  OBVIOUS
<1>1. CASE ChannelCall
  <2>1. /\ InThread /\ CurProcPriority \notin inSched /\ CurProcPriority # prIDLE
        /\ CurProcPriority \in TPriority
    BY <1>1 DEF ChannelCall, Running, ChInv, KInv, TypeOK
  <2>2. call[CurProcPriority] = NoCall /\ call[CurProcPriority] \notin Take
    BY <2>1, TakeFields DEF ChInv, CallersInSched, Callers
  <2>3. ASSUME NEW c \in Offered \cap Put, Produce(c) PROVE ChInv'
    BY <2>1, <2>2, <2>3, ProduceKeeps DEF Produce, Executes
  <2>4. ASSUME NEW c \in Offered \cap Take, Consume(c) PROVE ChInv'
    <3>1. kind = "TChannel" => c.timeout = 0
      BY DEF Offered
    <3>2. QED
      BY <2>1, <2>2, <2>4, <3>1, ConsumeKeeps DEF Consume, Executes
  <2>5. CASE flush
    BY <2>1, <2>2, <2>5, FlushKeeps DEF flush, Executes
  <2>6. QED
    BY <1>1, <2>3, <2>4, <2>5 DEF ChannelCall
<1>2. ASSUME NEW p \in TPriority, ProducerGoesOn(p) PROVE ChInv'
  <2>1. LeavesSched(p) /\ call[p] \in Put /\ Produce(call[p])
    BY <1>2 DEF ProducerGoesOn
  <2>2. call[p] # NoCall /\ call[p] \notin Take
    BY <2>1, PutFields
  <2>3. QED
    BY <2>1, <2>2, GoesOn, ProduceKeeps DEF Produce, Executes
<1>3. ASSUME NEW p \in TPriority, ConsumerGoesOn(p) PROVE ChInv'
  <2>1. /\ LeavesSched(p) /\ call[p] \in Take
        /\ TimesOut(call[p]) \/ TriesAgain(call[p])
        /\ UNCHANGED <<kind, CurProcPriority, ISR_NestCount, exc, switchedOut>>
    BY <1>3 DEF ConsumerGoesOn
  <2>2. call[p] # NoCall
    BY <2>1, TakeFields
  <2>3. Executes /\ CurProcPriority \in inSched
    BY <2>1, <2>2, GoesOn DEF Executes
  <2>4. QED
    BY <2>1, <2>3, TimesOutKeeps, TriesAgainKeeps
<1>4. QED
  BY <1>1, <1>2, <1>3, OthersKeepCallers, StutterKeeps DEF ChannelNext

\* The invariant holds in every state.
LEMMA ChInvariance == ChSpec => []ChInv
BY ChInitInductive, ChNextInductive, PTL DEF ChSpec

\* Nobody is left blocked although the pool would let it go on, whichever of
\* the other calls, of whatever size, has changed the pool.
THEOREM NobodyInVain == ChSpec => []NobodyWaitsInVain
<1>1. ChInv => NobodyWaitsInVain
  BY DEF ChInv
<1>2. QED
  BY <1>1, ChInvariance, PTL

\* The maps hold the processes that are blocked, each on the side it waits on.
THEOREM MapsExact == ChSpec => []MapsAreBlocked
<1>1. ChInv => MapsAreBlocked
  BY DEF ChInv
<1>2. QED
  BY <1>1, ChInvariance, PTL

\* A step of the code is a step of the deque, or changes nothing in it.
LEMMA ChStepRefines ==
  ChInv /\ [ChannelNext]_serviceVars => [Deque!Next]_(Deque!channelVars)
<1> SUFFICES ASSUME ChInv, [ChannelNext]_serviceVars
             PROVE  Deque!Next \/ UNCHANGED <<RB!Items(pool), got>>
  BY DEF Deque!channelVars
<1>1. pool \in Ring
  BY DEF ChInv, ChannelType
<1>2. CASE UNCHANGED <<pool, got>>
  BY <1>2
<1>3. ASSUME NEW c \in Put, Produce(c) PROVE Deque!Next \/ UNCHANGED <<pool, got>>
  BY <1>1, <1>3, StoreRefines DEF Produce
<1>4. ASSUME NEW c \in Take, TakesData(c) \/ SuspendsFor(c)
      PROVE  Deque!Next \/ UNCHANGED <<pool, got>>
  BY <1>1, <1>4, TakeRefines DEF TakesData, SuspendsFor
<1>5. CASE flush
  <2>1. Deque!Flush
    BY <1>1, <1>5, FlushItems DEF flush, Deque!Flush
  <2>2. QED
    BY <2>1 DEF Deque!Next
<1>6. CASE ChannelCall
  BY <1>2, <1>3, <1>4, <1>5, <1>6 DEF ChannelCall, Consume
<1>7. ASSUME NEW p \in TPriority, ProducerGoesOn(p)
      PROVE  Deque!Next \/ UNCHANGED <<pool, got>>
  BY <1>3, <1>7 DEF ProducerGoesOn
<1>8. ASSUME NEW p \in TPriority, ConsumerGoesOn(p)
      PROVE  Deque!Next \/ UNCHANGED <<pool, got>>
  BY <1>4, <1>8 DEF ConsumerGoesOn, TimesOut, TriesAgain
<1>9. CASE OtherCall \/ OtherReturns \/ KernelHandlers \/ UNCHANGED serviceVars
  BY <1>2, <1>9 DEF OtherCall, OtherReturns, KernelHandlers, channelVars, serviceVars
<1>10. QED
  BY <1>2, <1>6, <1>7, <1>8, <1>9 DEF ChannelNext

\* The ring, written and read at both ends by processes that are switched out
\* in the middle of their calls, implements the abstract channel: nothing is
\* lost, duplicated or reordered, and a batch is not mixed with other items.
THEOREM ChannelImplements == ChSpec => ImplementsDeque
<1> SUFFICES ChSpec => Deque!Spec
  BY DEF ImplementsDeque
<1>1. ChannelInit => Deque!Init
  <2> SUFFICES ASSUME ChannelInit PROVE RB!Items(pool) = << >> /\ got = << >>
    BY DEF Deque!Init
  <2>1. pool \in Ring /\ pool.Count = 0
    BY ChInitInductive DEF ChInv, ChannelType, ChannelInit, RB!Empty
  <2>2. RB!Items(pool) = << >>
    BY <2>1, ItemsIs, EmptySeq
  <2>3. QED
    BY <2>2 DEF ChannelInit
<1>2. QED
  BY <1>1, ChInvariance, ChStepRefines, PTL DEF ChSpec, Deque!Spec
-----------------------------------------------------------------------------
(***************************************************************************)
(* The kernel under the channel                                            *)
(***************************************************************************)

\* What the channel does to the kernel is what a call may do.
LEMMA ChStepIsKernelStep ==
  ASSUME ChInv, [ChannelNext]_serviceVars
  PROVE  KernelStep
<1>1. CASE ChannelCall
  <2>1. InThread
    BY <1>1 DEF ChannelCall, Running
  <2>2. QED
    BY <1>1, <2>1 DEF ChannelCall, Produce, Consume, flush, SetTimeout, KernelStep
<1>2. ASSUME NEW p \in TPriority, ProducerGoesOn(p) PROVE KernelStep
  BY <1>2 DEF ProducerGoesOn, LeavesSched, Produce, KernelStep
<1>3. ASSUME NEW p \in TPriority, ConsumerGoesOn(p) PROVE KernelStep
  BY <1>3 DEF ConsumerGoesOn, LeavesSched, TimesOut, TriesAgain, SetTimeout, KernelStep
<1>4. CASE OtherCall \/ OtherReturns \/ KernelHandlers
  BY <1>4, ProcessCallIsStep DEF OtherCall, OtherReturns, KernelHandlers, KernelStep
<1>5. CASE UNCHANGED serviceVars
  BY <1>5 DEF serviceVars, KernelStep
<1>6. QED
  BY <1>1, <1>2, <1>3, <1>4, <1>5 DEF ChannelNext

\* Whatever switch asked for while SysTick is entered is to a higher process.
LEMMA ChTickInvariance == ChSpec => []TickPending
<1>1. ChInv /\ TickPending /\ [ChannelNext]_serviceVars => TickPending'
  BY ChStepIsKernelStep, StepGuarantees DEF ChInv
<1>2. ChannelInit => TickPending
  BY StepGuarantees DEF ChannelInit
<1>3. QED
  BY <1>1, <1>2, ChInvariance, PTL DEF ChSpec

\* The kernel keeps its guarantees under the channel, whose resumed consumers
\* still have a timeout running.
THEOREM KernelUnderChannel ==
  ChSpec => []KernelSound /\ SleepIsTimed /\ TickEndsInversion
<1>1. ChInv /\ TickPending /\ [ChannelNext]_serviceVars =>
        [TimedStep]_kernelVars /\ [TickStep]_kernelVars
  BY ChStepIsKernelStep, StepGuarantees DEF ChInv
<1>2. ChInv => KernelSound
  BY StepGuarantees DEF ChInv
<1>3. QED
  BY <1>1, <1>2, ChTickInvariance, ChInvariance, PTL
  DEF ChSpec, SleepIsTimed, TickEndsInversion, TimedStep, TickStep
-----------------------------------------------------------------------------
(***************************************************************************)
(* The timed pop of the highest process                                    *)
(***************************************************************************)

\* While pr0 is ready it is loaded, or about to be, but for the middle of a
\* tick, which has not looked yet: the channel has no interrupt handler.
TopLoaded ==
  exc \notin {"tick_body", "tick_exit"} /\ pr0 \in ReadyProcessMap =>
    IF SwitchPending THEN SchedProcPriority = pr0 ELSE CurProcPriority = pr0

\* So if it was resumed and has not looked yet, nobody has taken its item.
TopPop ==
  call[pr0] \in TimedPop =>
    /\ kind = "channel"
    /\ IF pr0 \in ReadyProcessMap
         THEN pr0 \notin ConsumersProcessMap => pool.Count > 0
         ELSE Timeout[pr0] # 0

\* pr0 is the highest there is.
LEMMA TopHighest ==
  /\ pr0 \in TPriority
  /\ \A pm \in SUBSET TPriority : pr0 \in pm => highest_priority(pm) = pr0
<1>1. pr0 \in TPriority
  BY KernelAssumption DEF TPriority, pr0, prIDLE
<1>2. ASSUME NEW pm \in SUBSET TPriority, pr0 \in pm PROVE highest_priority(pm) = pr0
  <2>1. highest_priority(pm) \in TPriority /\ pr0 <= highest_priority(pm)
    BY <1>2, HighestPriority
  <2>2. QED
    BY <2>1, KernelAssumption DEF TPriority, pr0, prIDLE
<1>3. QED
  BY <1>1, <1>2

\* A process either reschedules or leaves the ready processes as they are.
LEMMA CallsReschedule ==
  ASSUME ChannelNext, ~KernelHandlers
  PROVE  /\ InThread /\ UNCHANGED <<CurProcPriority, ISR_NestCount, exc>>
         /\ scheduler \/ UNCHANGED <<ReadyProcessMap, schedVars>>
<1>1. CASE ChannelCall
  BY <1>1 DEF ChannelCall, Running, Produce, Consume, flush, TakesData, SuspendsFor,
     Resumes, resume_all, suspend
<1>2. CASE \E p \in TPriority : ProducerGoesOn(p) \/ ConsumerGoesOn(p)
  BY <1>2 DEF ProducerGoesOn, ConsumerGoesOn, LeavesSched, Produce, TimesOut,
     TriesAgain, TakesData, SuspendsFor, Resumes, resume_all, suspend
<1>3. CASE OtherCall
  BY <1>3 DEF OtherCall, ProcessCall, Running, sleep, wake_up, force_wake_up,
     kernelVars, schedVars
<1>4. CASE OtherReturns
  BY <1>4 DEF OtherReturns, SchedReturns, LeavesSched, schedVars
<1>5. QED
  BY <1>1, <1>2, <1>3, <1>4 DEF ChannelNext

\* Every step leaves pr0, if it is ready, loaded or about to be.
LEMMA TopLoadedInductive ==
  ASSUME ChInv, ChInv', TickPending, TopLoaded, [ChannelNext]_serviceVars
  PROVE  TopLoaded'
<1> USE DEF SwitchPending
<1>1. KInv /\ KInv' /\ TypeOK' /\ ReadyProcessMap' \in SUBSET TPriority
  BY DEF ChInv, KInv, TypeOK
<1>2. pr0 \in ReadyProcessMap' => highest_priority(ReadyProcessMap') = pr0
  BY <1>1, TopHighest
<1>3. CASE ChannelNext /\ ~KernelHandlers
  <2>1. InThread /\ UNCHANGED <<CurProcPriority, exc>> /\ ISR_NestCount = 0
    BY <1>1, <1>3, CallsReschedule DEF KInv, NestCountExact, InThread
  <2>2. CASE scheduler
    BY <1>2, <2>1, <2>2 DEF scheduler, sched, schedVars, InThread, TopLoaded
  <2>3. CASE UNCHANGED <<ReadyProcessMap, schedVars>>
    BY <2>1, <2>3 DEF schedVars, TopLoaded
  <2>4. QED
    BY <1>3, <2>2, <2>3, CallsReschedule
<1>4. CASE ISR_Exit
  <2>1. KernelStep /\ exc = "tick_exit" /\ exc' = "thread"
    BY <1>4 DEF ISR_Exit, SysTick, KernelStep
  <2>2. GoesToHighest'
    BY <1>1, <2>1, TickGoesToHighest
  <2>3. QED
    BY <1>2, <2>1, <2>2 DEF GoesToHighest, TopLoaded
<1>5. CASE ISR_Enter \/ system_timer
  BY <1>5 DEF ISR_Enter, system_timer, TopLoaded
<1>6. CASE SysTickEntry \/ PendSV \/ UNCHANGED serviceVars
  BY <1>6 DEF SysTickEntry, PendSV, PendSVEntry, context_switch_hook, InThread,
     serviceVars, kernelVars, TopLoaded
<1>7. QED
  BY <1>3, <1>4, <1>5, <1>6 DEF KernelHandlers, SysTick

\* What others do to pr0 while it waits in a pop: if it is resumed, then by a
\* producer that has left something in the pool.
LEMMA OthersResumeTop ==
  ASSUME ChInv, ChannelNext, ~KernelHandlers, CurProcPriority # pr0
  PROVE  /\ UNCHANGED <<kind, call[pr0]>>
         /\ pr0 \in ConsumersProcessMap \ ConsumersProcessMap' => pool'.Count > 0
<1>1. CurProcPriority \in TPriority /\ pr0 \in TPriority
  BY TopHighest DEF ChInv, KInv, TypeOK
<1>2. ASSUME NEW x, call' = [call EXCEPT ![CurProcPriority] = x]
      PROVE  UNCHANGED call[pr0]
  BY <1>1, <1>2 DEF ChInv, ChannelType
<1>3. ASSUME NEW x \in Put, Produce(x)
      PROVE  /\ UNCHANGED <<kind, call[pr0]>>
             /\ pr0 \in ConsumersProcessMap \ ConsumersProcessMap' => pool'.Count > 0
  <2>1. UNCHANGED <<kind, call[pr0]>>
    BY <1>2, <1>3 DEF Produce, WaitsIn, Returns
  <2>2. CASE RoomFor(x) /\ pool' = Stored(x)
    <3>1. pool.Count \in Nat /\ Len(x.data) \in 1 .. Size
      BY RingFields, PutFields, BatchIsSeq DEF ChInv, ChannelType
    <3>2. pool'.Count = pool.Count + Len(x.data)
      BY <2>2, StoredItems DEF ChInv, ChannelType
    <3>3. QED
      BY <2>1, <3>1, <3>2
  <2>3. CASE UNCHANGED ConsumersProcessMap
    BY <2>1, <2>3
  <2>4. QED
    BY <1>3, <2>2, <2>3 DEF Produce
<1>4. ASSUME NEW x, TakesData(x) \/ SuspendsFor(x) \/ TimesOut(x)
      PROVE  /\ UNCHANGED call[pr0]
             /\ pr0 \in ConsumersProcessMap => pr0 \in ConsumersProcessMap'
  BY <1>2, <1>4 DEF TakesData, SuspendsFor, TimesOut, suspend, WaitsIn, Returns
<1>5. CASE flush
  BY <1>5 DEF flush
<1>6. CASE ChannelCall
  BY <1>3, <1>4, <1>5, <1>6 DEF ChannelCall, Consume
<1>7. CASE \E p \in TPriority : ProducerGoesOn(p) \/ ConsumerGoesOn(p)
  BY <1>3, <1>4, <1>7 DEF ProducerGoesOn, ConsumerGoesOn, TriesAgain
<1>8. CASE OtherCall \/ OtherReturns
  BY <1>8 DEF OtherCall, OtherReturns, channelVars
<1>9. QED
  BY <1>6, <1>7, <1>8 DEF ChannelNext

\* What pr0 itself does: it enters its pop with its timeout, and if it was
\* resumed leaves it with an item.
LEMMA TopCalls ==
  ASSUME ChInv, TopPop, ChannelNext, ~KernelHandlers, CurProcPriority = pr0,
         call'[pr0] \in TimedPop
  PROVE  kind' = "channel" /\ pr0 \notin ReadyProcessMap' /\ Timeout'[pr0] # 0
<1>1. /\ InThread /\ pr0 \in TPriority /\ pr0 \in ReadyProcessMap
      /\ kind \in {"channel", "TChannel"}
  BY RunnerReady, CallsReschedule DEF ChInv, ChannelType
<1>2. /\ NoCall \notin TimedPop /\ TimedPop \subseteq Take
      /\ \A x \in Put : x \notin TimedPop
  BY PutFields, TakeFields DEF TimedPop
<1>3. ASSUME NEW x, call' = [call EXCEPT ![CurProcPriority] = x]
      PROVE  x = call'[pr0]
  BY <1>1, <1>3 DEF ChInv, ChannelType
<1>4. ASSUME NEW x, TakesData(x) \/ TimesOut(x) PROVE FALSE
  BY <1>2, <1>3, <1>4 DEF TakesData, TimesOut, Returns
<1>5. ASSUME NEW x \in Put, Produce(x) PROVE FALSE
  BY <1>2, <1>3, <1>5 DEF Produce, WaitsIn, Returns
<1>6. CASE ChannelCall
  <2>1. call[pr0] = NoCall
    BY <1>1, <1>6 DEF ChannelCall, Running, ChInv, CallersInSched, Callers
  <2>2. ~flush
    BY <1>2, <2>1 DEF flush
  <2>3. PICK x \in Offered \cap Take : Consume(x)
    BY <1>5, <1>6, <2>2 DEF ChannelCall
  <2>4. /\ SuspendsFor(x) /\ UNCHANGED kind
        /\ IF kind = "channel" THEN SetTimeout(x.timeout) ELSE UNCHANGED Timeout
    BY <1>4, <2>3 DEF Consume
  <2>5. x = call'[pr0] /\ x.timeout # 0
    BY <1>3, <2>4 DEF SuspendsFor, WaitsIn, TimedPop
  <2>6. kind = "channel"
    BY <1>1, <2>3, <2>5 DEF Offered
  <2>7. Timeout'[pr0] = x.timeout
    BY <1>1, <2>4, <2>6, TimeoutTyped DEF SetTimeout, ChInv
  <2>8. QED
    BY <2>4, <2>5, <2>6, <2>7 DEF SuspendsFor, suspend
<1>7. ASSUME NEW p \in TPriority, ProducerGoesOn(p) PROVE FALSE
  BY <1>5, <1>7 DEF ProducerGoesOn
<1>8. ASSUME NEW p \in TPriority, ConsumerGoesOn(p) PROVE FALSE
  <2>1. call[pr0] \in Take /\ TriesAgain(call[pr0])
    BY <1>4, <1>8 DEF ConsumerGoesOn, LeavesSched
  <2>2. SuspendsFor(call[pr0])
    BY <1>4, <2>1 DEF TriesAgain
  <2>3. call[pr0] \in TimedPop
    BY <1>3, <2>2 DEF SuspendsFor, WaitsIn
  <2>4. pool.Count > 0
    BY <1>1, <2>1, <2>3 DEF TopPop, TriesAgain, is_timeouted
  <2>5. call[pr0].count = 1
    BY <2>3, TakeFields DEF TimedPop
  <2>6. pool.Count \in Nat
    BY RingFields DEF ChInv, ChannelType
  <2>7. QED
    BY <2>2, <2>4, <2>5, <2>6 DEF SuspendsFor, HasData, RB!get_count
<1>9. CASE OtherCall \/ OtherReturns
  <2>1. call[pr0] = NoCall
    BY <1>1, <1>9 DEF OtherCall, OtherReturns, ProcessCall, Running, SchedReturns,
       LeavesSched, ChInv, CallersInSched, Callers
  <2>2. QED
    BY <1>2, <1>9, <2>1 DEF OtherCall, OtherReturns, channelVars
<1>10. QED
  BY <1>6, <1>7, <1>8, <1>9 DEF ChannelNext

\* Every step keeps the pop of pr0 as it should be.
LEMMA TopPopInductive ==
  ASSUME ChInv, ChInv', TopLoaded, TopPop, [ChannelNext]_serviceVars
  PROVE  TopPop'
<1> SUFFICES ASSUME call'[pr0] \in TimedPop
             PROVE  /\ kind' = "channel"
                    /\ IF pr0 \in ReadyProcessMap'
                         THEN pr0 \notin ConsumersProcessMap' => pool'.Count > 0
                         ELSE Timeout'[pr0] # 0
  BY DEF TopPop
<1>1. pr0 \in TPriority /\ TimedPop \subseteq Take
  BY TopHighest DEF TimedPop
<1>2. ASSUME pr0 \notin ReadyProcessMap, UNCHANGED call[pr0]
      PROVE  /\ pr0 \in ConsumersProcessMap /\ kind = "channel"
             /\ pr0 \notin ReadyProcessMap' => Timeout'[pr0] # 0
  <2>1. /\ pr0 \in ConsumersProcessMap /\ kind = "channel" /\ Timeout[pr0] # 0
    BY <1>1, <1>2, MapsByProcess DEF TopPop, ChInv, Placed
  <2>2. SleepRunsDown(pr0)
    BY <1>1, <1>2, <2>1, SleepRuns, ChStepIsKernelStep DEF ChInv
  <2>3. QED
    BY <2>1, <2>2 DEF SleepRunsDown
<1>3. CASE KernelHandlers \/ UNCHANGED serviceVars
  <2>1. UNCHANGED channelVars /\ ReadyProcessMap \subseteq ReadyProcessMap'
    BY <1>3 DEF KernelHandlers, SysTickEntry, SysTick, PendSV, ISR_Enter,
       system_timer, ISR_Exit, PendSVEntry, context_switch_hook, serviceVars,
       kernelVars
  <2>2. UNCHANGED <<kind, ConsumersProcessMap, pool, call>>
    BY <2>1 DEF channelVars
  <2>3. QED
    BY <1>2, <2>1, <2>2 DEF TopPop
<1>4. CASE ChannelNext /\ ~KernelHandlers /\ CurProcPriority # pr0
  <2>1. InThread /\ pr0 \notin ReadyProcessMap
    BY <1>4, CallsReschedule DEF TopLoaded, InThread, SwitchPending
  <2>2. QED
    BY <1>2, <1>4, <2>1, OthersResumeTop
<1>5. CASE ChannelNext /\ ~KernelHandlers /\ CurProcPriority = pr0
  BY <1>5, TopCalls
<1>6. QED
  BY <1>3, <1>4, <1>5

\* A timed pop of the highest process that is blocked has its timeout running:
\* resumed, it finds its item, and never has to wait again without a timeout.
THEOREM TopPopTimed == ChSpec => []TimedPopHasTimeout
<1>1. ChannelInit => TopLoaded /\ TopPop
  <2>1. NoCall \notin TimedPop /\ pr0 \in TPriority
    BY TakeFields, TopHighest DEF TimedPop
  <2>2. QED
    BY <2>1 DEF ChannelInit, KernelInit, TopLoaded, SwitchPending, TopPop
<1>2. ChInv /\ ChInv' /\ TickPending /\ TopLoaded /\ TopPop
        /\ [ChannelNext]_serviceVars => TopLoaded' /\ TopPop'
  BY TopLoadedInductive, TopPopInductive
<1>3. TopPop => TimedPopHasTimeout
  BY DEF TopPop, TimedPopHasTimeout
<1>4. QED
  BY <1>1, <1>2, <1>3, ChInvariance, ChTickInvariance, PTL DEF ChSpec
=============================================================================
