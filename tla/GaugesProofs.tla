---------------------------- MODULE GaugesProofs ----------------------------
(***************************************************************************)
(* Proofs about Gauges, for every reading and every content of the trouble *)
(* code registers.                                                         *)
(*                                                                         *)
(* dtc_string's chain of tests is a recursive function: that there is one, *)
(* and what it comes to, follows by an induction over the codes, which is  *)
(* one over a set of numbers (Induction).                                  *)
(***************************************************************************)
EXTENDS Gauges, TLAPS, NaturalsInduction, WellFoundedInduction, FiniteSetTheorems

\* Induction, as a fact about sets: a set that holds 0, and with each number
\* the next, holds them all.
LEMMA Induction ==
  ASSUME NEW S, 0 \in S, \A n \in Nat : n \in S => n + 1 \in S
  PROVE  \A n \in Nat : n \in S
<1> SUFFICES ASSUME Nat \ S # {} PROVE FALSE
  OBVIOUS
<1> DEFINE missing == Nat \ S
<1>1. PICK least \in missing : \A n \in missing : ~(<<n, least>> \in OpToRel(<, Nat))
  <2>1. missing \subseteq Nat
    OBVIOUS
  <2>2. QED
    BY <2>1, NatLessThanWellFounded, WFMin
<1>2. \A n \in missing : ~(n < least)
  BY <1>1 DEF OpToRel
<1>3. least \in Nat /\ least # 0 /\ least - 1 \in Nat
  OBVIOUS
<1>4. least - 1 \in S
  BY <1>2, <1>3
<1>5. least - 1 + 1 = least
  BY <1>3
<1>6. QED
  BY <1>3, <1>4, <1>5

-----------------------------------------------------------------------------
(***************************************************************************)
(* The trouble codes                                                       *)
(***************************************************************************)

\* There are twenty codes, none of them called "nullptr".
LEMMA CodesNamed ==
  Len(Codes) = 20 /\ \A k \in 1 .. 20 : Codes[k][3] # "nullptr"
BY SMT DEF Codes

\* How many codes are set among the first k: none at first, and one more with
\* each that is.
LEMMA SetAmongNext ==
  /\ SetAmong(0) = 0
  /\ \A k \in Nat : SetAmong(k) \in Nat
  /\ \A k \in Nat \ {0} :
       SetAmong(k) = IF IsSet(Codes[k]) THEN SetAmong(k - 1) + 1 ELSE SetAmong(k - 1)
<1> DEFINE Among(k) == {n \in 1 .. k : IsSet(Codes[n])}
<1>1. Among(0) = {}
  OBVIOUS
<1>2. ASSUME NEW k \in Nat PROVE IsFiniteSet(Among(k))
  <2>1. IsFiniteSet(1 .. k)
    BY FS_Interval
  <2>2. Among(k) \subseteq 1 .. k
    OBVIOUS
  <2> HIDE DEF Among
  <2>3. QED
    BY <2>1, <2>2, FS_Subset
<1>3. ASSUME NEW k \in Nat \ {0}
      PROVE  /\ k \notin Among(k - 1)
             /\ Among(k) = IF IsSet(Codes[k]) THEN Among(k - 1) \cup {k}
                                              ELSE Among(k - 1)
  <2>1. \A n \in Int : n \in 1 .. k <=> (n \in 1 .. (k - 1) \/ n = k)
    OBVIOUS
  <2>2. QED
    BY <2>1
<1>4. \A k : SetAmong(k) = Cardinality(Among(k))
  BY DEF SetAmong
<1> HIDE DEF Among
<1>5. \A k \in Nat : SetAmong(k) \in Nat
  BY <1>2, <1>4, FS_CardinalityType
<1>6. SetAmong(0) = 0
  BY <1>1, <1>4, FS_EmptySet
<1>7. ASSUME NEW k \in Nat \ {0}
      PROVE  SetAmong(k) = IF IsSet(Codes[k]) THEN SetAmong(k - 1) + 1
                                              ELSE SetAmong(k - 1)
  <2>1. k - 1 \in Nat /\ IsFiniteSet(Among(k - 1))
    BY <1>2
  <2>2. Cardinality(Among(k - 1) \cup {k}) = Cardinality(Among(k - 1)) + 1
    BY <1>3, <2>1, FS_AddElement
  <2>3. QED
    BY <1>3, <1>4, <2>2
<1>8. QED
  BY <1>5, <1>6, <1>7

\* h is the chain of tests, from index on, after each of the first n codes.
Chain(h, index, n) ==
  /\ h = [k \in 0 .. n |-> h[k]]
  /\ h[0] = [index |-> index, answer |-> "nullptr"]
  /\ \A k \in 1 .. n : h[k] = Test(h[k - 1], Codes[k])

\* There is a chain of any length.
LEMMA ChainExists ==
  ASSUME NEW index, NEW N \in Nat
  PROVE  \E h : Chain(h, index, N)
<1> DEFINE Fine == {n \in Nat : \E h : Chain(h, index, n)}
<1>1. 0 \in Fine
  <2> DEFINE h == [k \in 0 .. 0 |-> [index |-> index, answer |-> "nullptr"]]
  <2>1. h = [k \in 0 .. 0 |-> h[k]] /\ h[0] = [index |-> index, answer |-> "nullptr"]
    OBVIOUS
  <2> HIDE DEF h
  <2>2. Chain(h, index, 0)
    BY <2>1 DEF Chain
  <2>3. QED
    BY <2>2
<1>2. ASSUME NEW n \in Nat, n \in Fine PROVE n + 1 \in Fine
  <2>1. PICK g : Chain(g, index, n)
    BY <1>2
  <2> DEFINE last == Test(g[n], Codes[n + 1])
             h == [k \in 0 .. (n + 1) |-> IF k = n + 1 THEN last ELSE g[k]]
  <2> HIDE DEF last
  <2>2. /\ h = [k \in 0 .. (n + 1) |-> h[k]]
        /\ h[n + 1] = last
        /\ \A k \in 0 .. n : h[k] = g[k]
    OBVIOUS
  <2> HIDE DEF h
  <2>3. h[0] = [index |-> index, answer |-> "nullptr"]
    BY <2>1, <2>2 DEF Chain
  <2>4. ASSUME NEW k \in 1 .. (n + 1)
        PROVE  h[k] = Test(h[k - 1], Codes[k])
    <3>1. CASE k = n + 1
      <4>1. k - 1 = n /\ h[k - 1] = g[n]
        BY <2>2, <3>1
      <4>2. QED
        BY <2>2, <3>1, <4>1 DEF last
    <3>2. CASE k # n + 1
      <4>1. k \in 1 .. n /\ k - 1 \in 0 .. n /\ k \in 0 .. n
        BY <3>2
      <4>2. QED
        BY <2>1, <2>2, <4>1 DEF Chain
    <3>3. QED
      BY <3>1, <3>2
  <2>5. Chain(h, index, n + 1)
    BY <2>2, <2>3, <2>4 DEF Chain
  <2>6. QED
    BY <2>5
<1> HIDE DEF Fine
<1>3. N \in Fine
  BY <1>1, <1>2, Induction
<1>4. QED
  BY <1>3 DEF Fine

\* dtc_string is the answer at the end of such a chain.
LEMMA AnswerOfChain ==
  ASSUME NEW index
  PROVE  \E h : Chain(h, index, 20) /\ dtc_string(index) = h[20].answer
<1> DEFINE After(g) == g = [k \in 0 .. Len(Codes) |->
                              IF k = 0 THEN [index |-> index, answer |-> "nullptr"]
                              ELSE Test(g[k - 1], Codes[k])]
           after == CHOOSE g : After(g)
<1>1. dtc_string(index) = after[20].answer
  BY CodesNamed DEF dtc_string
<1>2. PICK h : Chain(h, index, 20)
  BY ChainExists
<1>3. After(h)
  <2>1. ASSUME NEW k \in 0 .. 20
        PROVE  h[k] = IF k = 0 THEN [index |-> index, answer |-> "nullptr"]
                      ELSE Test(h[k - 1], Codes[k])
    <3>1. k # 0 => k \in 1 .. 20
      OBVIOUS
    <3>2. QED
      BY <1>2, <3>1 DEF Chain
  <2>2. h = [k \in 0 .. 20 |-> h[k]]
    BY <1>2 DEF Chain
  <2>3. QED
    BY <2>1, <2>2, CodesNamed
<1>4. After(after)
  BY <1>3
<1> HIDE DEF after
<1>5. Chain(after, index, 20)
  <2>1. after = [k \in 0 .. 20 |->
                  IF k = 0 THEN [index |-> index, answer |-> "nullptr"]
                  ELSE Test(after[k - 1], Codes[k])]
    BY <1>4, CodesNamed
  <2>2. after = [k \in 0 .. 20 |-> after[k]] /\ 0 \in 0 .. 20
    BY <2>1
  <2>3. \A k \in 1 .. 20 : k \in 0 .. 20 /\ k # 0
    OBVIOUS
  <2>4. after[0] = [index |-> index, answer |-> "nullptr"]
    BY <2>1, <2>2
  <2>5. \A k \in 1 .. 20 : after[k] = Test(after[k - 1], Codes[k])
    BY <2>1, <2>3
  <2>6. QED
    BY <2>2, <2>4, <2>5 DEF Chain
<1>6. QED
  BY <1>1, <1>5

\* What the chain has come to after the first k codes: its index has come down
\* by one for each that is set, until it was 0 and the next one the answer.
ChainAt(state, index, k) ==
  /\ SetAmong(k) <= index =>
       state = [index |-> index - SetAmong(k), answer |-> "nullptr"]
  /\ index < SetAmong(k) => state.answer # "nullptr"
  /\ \A n \in 1 .. k : IsSet(Codes[n]) /\ SetAmong(n - 1) = index =>
       state.answer = Codes[n][3]

\* A link more.
LEMMA ChainNext ==
  ASSUME NEW state, NEW index \in Nat, NEW k \in 1 .. 20, ChainAt(state, index, k - 1)
  PROVE  ChainAt(Test(state, Codes[k]), index, k)
<1> DEFINE before == SetAmong(k - 1)
           after == SetAmong(k)
           next == Test(state, Codes[k])
<1>1. /\ before \in Nat /\ after \in Nat /\ k - 1 \in Nat
      /\ after = IF IsSet(Codes[k]) THEN before + 1 ELSE before
  BY SetAmongNext
<1>2. \A n \in 1 .. k : n \in 1 .. (k - 1) \/ n = k
  OBVIOUS
<1>3. /\ before <= index => state = [index |-> index - before, answer |-> "nullptr"]
      /\ index < before => state.answer # "nullptr"
      /\ \A n \in 1 .. (k - 1) : IsSet(Codes[n]) /\ SetAmong(n - 1) = index =>
           state.answer = Codes[n][3]
  BY DEF ChainAt
<1>4. \A n \in 1 .. k : Codes[n][3] # "nullptr"
  BY CodesNamed
<1> SUFFICES
      /\ after <= index => next = [index |-> index - after, answer |-> "nullptr"]
      /\ index < after => next.answer # "nullptr"
      /\ \A n \in 1 .. k : IsSet(Codes[n]) /\ SetAmong(n - 1) = index =>
           next.answer = Codes[n][3]
  BY DEF ChainAt
<1>5. CASE state.answer # "nullptr"
  <2>1. next = state /\ index < before
    BY <1>1, <1>3, <1>5 DEF Test
  <2>2. QED
    BY <1>1, <1>2, <1>3, <1>5, <2>1
<1>6. CASE state.answer = "nullptr"
  <2>1. /\ before <= index
        /\ state = [index |-> index - before, answer |-> "nullptr"]
        /\ \A n \in 1 .. (k - 1) : ~(IsSet(Codes[n]) /\ SetAmong(n - 1) = index)
    BY <1>1, <1>2, <1>3, <1>4, <1>6
  <2>2. CASE ~IsSet(Codes[k])
    <3>1. next = state
      BY <2>2 DEF Test
    <3>2. QED
      BY <1>1, <1>2, <2>1, <2>2, <3>1
  <2>3. CASE IsSet(Codes[k]) /\ index = before
    <3>1. next.answer = Codes[k][3]
      BY <1>1, <2>1, <2>3 DEF Test
    <3>2. index < after /\ ~(after <= index)
      BY <1>1, <2>3
    <3>3. next.answer # "nullptr"
      BY <1>4, <3>1
    <3>4. QED
      BY <1>2, <2>1, <3>1, <3>2, <3>3
  <2>4. CASE IsSet(Codes[k]) /\ index # before
    <3>1. next = [index |-> index - after, answer |-> "nullptr"] /\ after <= index
      BY <1>1, <2>1, <2>4 DEF Test
    <3>2. QED
      BY <1>1, <1>2, <2>1, <2>4, <3>1
  <2>5. QED
    BY <2>2, <2>3, <2>4
<1>7. QED
  BY <1>5, <1>6

\* What dtc_string returns.
LEMMA DtcString ==
  ASSUME NEW index \in Nat
  PROVE  /\ SetAmong(20) <= index => dtc_string(index) = "nullptr"
         /\ \A k \in 1 .. 20 : IsSet(Codes[k]) /\ SetAmong(k - 1) = index =>
              dtc_string(index) = Codes[k][3]
<1>1. PICK h : Chain(h, index, 20) /\ dtc_string(index) = h[20].answer
  BY AnswerOfChain
<1> DEFINE Right == {k \in Nat : k <= 20 => ChainAt(h[k], index, k)}
<1>2. 0 \in Right
  <2>1. h[0] = [index |-> index, answer |-> "nullptr"]
    BY <1>1 DEF Chain
  <2>2. ChainAt(h[0], index, 0)
    BY <2>1, SetAmongNext DEF ChainAt
  <2>3. QED
    BY <2>2
<1>3. ASSUME NEW k \in Nat, k \in Right PROVE k + 1 \in Right
  <2> SUFFICES ASSUME k + 1 <= 20 PROVE ChainAt(h[k + 1], index, k + 1)
    OBVIOUS
  <2>1. k + 1 \in 1 .. 20 /\ (k + 1) - 1 = k /\ ChainAt(h[k], index, k)
    BY <1>3
  <2>2. h[k + 1] = Test(h[(k + 1) - 1], Codes[k + 1])
    BY <1>1, <2>1 DEF Chain
  <2>3. ChainAt(h[(k + 1) - 1], index, (k + 1) - 1)
    BY <2>1
  <2>4. QED
    BY <2>1, <2>2, <2>3, ChainNext
<1> HIDE DEF Right
<1>4. 20 \in Right
  BY <1>2, <1>3, Induction
<1>5. ChainAt(h[20], index, 20)
  BY <1>4 DEF Right
<1>6. QED
  BY <1>1, <1>5, SetAmongNext DEF ChainAt

\* Whatever the three registers hold, dtc_string counts the codes that are set
\* in order of priority, each once.
THEOREM CodesCounted == Spec => []CodesInPriorityOrder
<1>1. CodesInPriorityOrder
  <2>1. ASSUME NEW k \in 1 .. 20, IsSet(Codes[k])
        PROVE  dtc_string(SetAmong(k - 1)) = Codes[k][3]
    <3>1. SetAmong(k - 1) \in Nat
      BY SetAmongNext
    <3>2. QED
      BY <2>1, <3>1, DtcString
  <2>2. ASSUME NEW i \in SetAmong(20) .. 255 PROVE dtc_string(i) = "nullptr"
    <3>1. SetAmong(20) \in Nat
      BY SetAmongNext
    <3>2. i \in Nat /\ SetAmong(20) <= i
      BY <3>1
    <3>3. QED
      BY <3>2, DtcString
  <2>3. QED
    BY <2>1, <2>2, CodesNamed DEF CodesInPriorityOrder
<1>2. QED
  BY <1>1, PTL

-----------------------------------------------------------------------------
(***************************************************************************)
(* The gauges                                                              *)
(***************************************************************************)

\* The image holds bytes and readings of ten bits.
ImageType ==
  /\ ebl_mem \in [Addresses -> 0 .. 255]
  /\ ebl_adc \in [Channels -> 0 .. 1023]

\* Every packet leaves such an image.
LEMMA ImageInvariance == Spec => []ImageType
<1>1. Init => ImageType
  BY DEF Init, ImageType
<1>2. ImageType /\ [Next]_gaugeVars => ImageType'
  <2> SUFFICES ASSUME ImageType, [Next]_gaugeVars PROVE ImageType'
    OBVIOUS
  <2>1. CASE Readings
    <3>1. PICK n \in Counts : /\ ebl_mem' = [a \in Addresses |-> n % 256]
                             /\ ebl_adc' = [ch \in Channels |-> n]
      BY <2>1 DEF Readings
    <3>2. n \in 0 .. 1023
      BY GaugesAssumption
    <3>3. n % 256 \in 0 .. 255
      BY <3>2, SMT
    <3>4. QED
      BY <3>1, <3>2, <3>3 DEF ImageType
  <2>2. CASE Troubles
    <3>1. PICK codes \in [CodeAddresses -> CodeBytes], lamp \in {0, 1} :
            /\ ebl_mem' = [a \in Addresses |->
                             IF a \in CodeAddresses THEN codes[a] ELSE lamp]
            /\ ebl_adc' = [ch \in Channels |-> 0]
      BY <2>2 DEF Troubles
    <3>2. \A a \in CodeAddresses : codes[a] \in 0 .. 255
      <4>1. \A a \in CodeAddresses : codes[a] \in CodeBytes
        OBVIOUS
      <4>2. CodeBytes \subseteq 0 .. 255
        BY GaugesAssumption
      <4>3. QED
        BY <4>1, <4>2, Zenon
    <3>3. QED
      BY <3>1, <3>2 DEF ImageType
  <2>3. CASE UNCHANGED gaugeVars
    BY <2>3 DEF gaugeVars, ImageType
  <2>4. QED
    BY <2>1, <2>2, <2>3 DEF Next
<1>3. QED
  BY <1>1, <1>2, PTL DEF Spec

\* A number below ten thousand has four digits at most.
LEMMA FourDigits ==
  ASSUME NEW n \in Int, n < 10000
  PROVE  Digits(n) \in 1 .. 4
<1> DEFINE powers == {p \in PowersOfTen : p <= n}
           small == {10} \cup {100} \cup {1000}
<1>1. powers \subseteq small
  BY DEF PowersOfTen
<1>2. IsFiniteSet(small) /\ Cardinality(small) <= 3
  <2>1. IsFiniteSet({10}) /\ Cardinality({10}) = 1
    <3>1. IsFiniteSet({}) /\ Cardinality({}) = 0
      BY FS_EmptySet
    <3>2. IsFiniteSet({} \cup {10}) /\ Cardinality({} \cup {10}) = 0 + 1
      BY <3>1, FS_AddElement
    <3>3. {} \cup {10} = {10}
      OBVIOUS
    <3>4. QED
      BY <3>2, <3>3
  <2>2. /\ IsFiniteSet({10} \cup {100})
        /\ Cardinality({10} \cup {100}) = 1 + 1
    BY <2>1, FS_AddElement
  <2>3. /\ IsFiniteSet(small)
        /\ Cardinality(small) = Cardinality({10} \cup {100}) + 1
    BY <2>2, FS_AddElement
  <2>4. QED
    BY <2>2, <2>3
<1> HIDE DEF powers, small
<1>3. Cardinality(powers) \in 0 .. 3
  <2>1. IsFiniteSet(powers) /\ Cardinality(powers) <= Cardinality(small)
    BY <1>1, <1>2, FS_Subset
  <2>2. Cardinality(powers) \in Nat /\ Cardinality(small) \in Nat
    BY <1>2, <2>1, FS_CardinalityType
  <2>3. QED
    BY <1>2, <2>1, <2>2
<1>4. QED
  BY <1>3 DEF Digits, powers

\* No gauge's text is longer than its eight bytes.
LEMMA NumbersInBuffers == Spec => []NumbersFit
<1>1. ImageType => NumbersFit
  <2> SUFFICES ASSUME ImageType PROVE NumbersFit
    OBVIOUS
  <2>1. /\ ebl_mem[\hf3] \in 0 .. 255 /\ ebl_mem[\he3] \in 0 .. 255
        /\ ebl_mem[\h34] \in 0 .. 255 /\ ebl_mem[\h45] \in 0 .. 255
        /\ ebl_adc[1] \in 0 .. 1023 /\ ebl_adc[2] \in 0 .. 1023
    BY SMT DEF ImageType, Addresses, Channels
  <2>2. ground_speed \in Int /\ ground_speed < 10000
    BY <2>1, SMT DEF ground_speed
  <2>3. engine_speed \in Int /\ engine_speed < 10000
    BY <2>1, SMT DEF engine_speed
  <2>4. water_temperature \in Int /\ water_temperature < 10000
    BY <2>1, SMT DEF water_temperature, Rounded
  <2>5. oil_pressure \in Int /\ oil_pressure < 10000
    <3> DEFINE counts == IF ebl_adc[2] > 102 THEN ebl_adc[2] - 102 ELSE ebl_adc[2]
    <3>1. oil_pressure = PerPsi(counts) /\ counts \in 0 .. 1023
      BY <2>1, SMT DEF oil_pressure
    <3> HIDE DEF counts
    <3>2. PerPsi(counts) \in Int /\ PerPsi(counts) < 10000
      BY <3>1, SMT DEF PerPsi, Rounded
    <3>3. QED
      BY <3>1, <3>2
  <2>6. voltage \div 10 \in Int /\ voltage \div 10 < 10000
    BY <2>1, SMT DEF voltage
  <2>7. afr \div 10 \in Int /\ afr \div 10 < 10000
    <3> DEFINE counts == ebl_adc[1]
               tenths == Rounded(100 * counts + 96 * 1024, 1024)
    <3>1. afr = tenths /\ counts \in 0 .. 1023
      BY <2>1 DEF afr
    <3> HIDE DEF counts
    <3>2. tenths \div 10 \in Int /\ tenths \div 10 < 10000
      BY <3>1, SMT DEF Rounded
    <3> HIDE DEF tenths
    <3>3. QED
      BY <3>1, <3>2
  <2>8. /\ Digits(ground_speed) \in 1 .. 4 /\ Digits(engine_speed) \in 1 .. 4
        /\ Digits(water_temperature) \in 1 .. 4 /\ Digits(oil_pressure) \in 1 .. 4
        /\ Digits(voltage \div 10) \in 1 .. 4 /\ Digits(afr \div 10) \in 1 .. 4
    BY <2>2, <2>3, <2>4, <2>5, <2>6, <2>7, FourDigits
  <2>9. QED
    BY <2>8 DEF NumbersFit
<1>2. QED
  BY <1>1, ImageInvariance, PTL

\* The status names a trouble code if any of the known ones is set, and is 21
\* characters long in any case.
LEMMA StatusPadded == Len(ebl_status) = 21
<1>1. dtc_string(0) = "nullptr" \/ \E k \in 1 .. 20 : dtc_string(0) = Codes[k][3]
  <2> DEFINE Clear == {k \in Nat : k <= 20 => SetAmong(k) = 0}
  <2>1. CASE 20 \in Clear
    BY <2>1, DtcString
  <2>2. CASE 20 \notin Clear
    <3>1. 0 \in Clear
      BY SetAmongNext
    <3>2. PICK k \in Nat : k \in Clear /\ k + 1 \notin Clear
      <4> HIDE DEF Clear
      <4>1. QED
        BY <2>2, <3>1, Induction
    <3>3. k + 1 \in 1 .. 20 /\ (k + 1) - 1 = k /\ SetAmong(k) = 0 /\ SetAmong(k + 1) # 0
      BY <3>2
    <3>4. IsSet(Codes[k + 1])
      BY <3>3, SetAmongNext
    <3>5. dtc_string(0) = Codes[k + 1][3]
      BY <3>3, <3>4, DtcString
    <3>6. QED
      BY <3>3, <3>5
  <2>3. QED
    BY <2>1, <2>2
<1>2. /\ \A k \in 1 .. 20 : Len(CheckEngine(Codes[k][3])) = 21
      /\ Len(CheckEngine("??????")) = 21
  BY TextsPadded, CodesNamed
<1>3. Len(CheckEngine(IF dtc_string(0) = "nullptr" THEN "??????"
                      ELSE dtc_string(0))) = 21
  BY <1>1, <1>2
<1>4. QED
  BY <1>3, TextsPadded DEF ebl_status

\* sprintf never writes past the end of a gauge's text or of the status.
THEOREM TextsInBuffers == Spec => []TextsFit
<1>1. NumbersFit => TextsFit
  BY StatusPadded DEF TextsFit
<1>2. QED
  BY <1>1, NumbersInBuffers, PTL
=============================================================================
