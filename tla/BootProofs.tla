----------------------------- MODULE BootProofs -----------------------------
(***************************************************************************)
(* Theorems about the serial port and the boot sequence.  The port's       *)
(* invariant is SerialInv: the device is in the mode that serial_initialize *)
(* has got to, it holds what was written and has not left, and it has room *)
(* for what the writers that have polled it are about to write.            *)
(***************************************************************************)
EXTENDS Boot, SequenceTheorems, FiniteSetTheorems, TLAPS

-----------------------------------------------------------------------------
Devices ==
  [low : Nat, high : Nat, format : Nat, interrupts : Nat, holding : Seq(Characters),
   dlab : BOOLEAN, fifo : BOOLEAN, loopback : BOOLEAN]

Writers == [text : Seq(Characters), polled : BOOLEAN]

SerialTypeOK ==
  /\ uart \in Devices /\ setup \in 0 .. 7 /\ writers \in Seq(Writers)
  /\ written \in Seq(Characters) /\ wire \in Seq(Characters)

(* The mode after each write of serial_initialize; nothing is sent before  *)
(* the last.                                                               *)
Mode ==
  /\ setup \in 2 .. 4 => uart.dlab
  /\ setup \in 3 .. 7 => uart.low = 3
  /\ setup \in 4 .. 7 => uart.high = 0
  /\ setup \in 5 .. 7 => ~ uart.dlab /\ uart.format = 3
  /\ setup \in 6 .. 7 => uart.fifo
  /\ setup = 7 => ~ uart.loopback
  /\ setup # 7 => writers = <<>> /\ written = <<>> /\ wire = <<>> /\ uart.holding = <<>>

(* What was written is on the wire or in the device.                       *)
Delivered == written = wire \o uart.holding

(* The writers that have found the device empty, and not written yet.      *)
PolledOf(w) == {i \in 1 .. Len(w) : w[i].polled}

Polled == PolledOf(writers)

Room ==
  /\ Len(writers) <= MaxNested
  /\ \A i \in Polled : writers[i].text # <<>>
  /\ Len(uart.holding) + Cardinality(Polled) <= MaxNested

SerialInv == SerialTypeOK /\ Mode /\ Delivered /\ Room

LEMMA InitializationIs ==
  /\ Initialization = <<<<1, 0>>, <<3, 128>>, <<0, 3>>, <<1, 0>>, <<3, 3>>, <<2, 199>>, <<4, 11>>>>
  /\ Len(Initialization) = 7
BY DEF Initialization

LEMMA Bits ==
  /\ Bit(128, 128) = TRUE /\ Bit(3, 128) = FALSE /\ Bit(199, 1) = TRUE /\ Bit(199, 4) = TRUE
  /\ Bit(11, 16) = FALSE /\ 128 % 128 = 0 /\ 3 % 128 = 3
BY DEF Bit

(* There are no more polls than writers.                                   *)
LEMMA PolledFinite ==
  ASSUME NEW w \in Seq(Writers)
  PROVE  /\ IsFiniteSet(PolledOf(w)) /\ Cardinality(PolledOf(w)) \in Nat
         /\ Cardinality(PolledOf(w)) <= Len(w)
<1>1. Len(w) \in Nat
  BY LenProperties
<1>2. IsFiniteSet(1 .. Len(w)) /\ Cardinality(1 .. Len(w)) = Len(w)
  BY <1>1, FS_Interval
<1>3. PolledOf(w) \in SUBSET (1 .. Len(w))
  BY DEF PolledOf
<1> QED
  BY <1>2, <1>3, FS_Subset, FS_CardinalityType

(* The first of what is held goes to the end of what is sent.              *)
LEMMA MovesOver ==
  ASSUME NEW s \in Seq(Characters), NEW t \in Seq(Characters), t # <<>>
  PROVE  Append(s, Head(t)) \o Tail(t) = s \o t
<1> DEFINE a == Append(s, Head(t))
<1>1. Len(s) \in Nat /\ Len(t) \in Nat /\ Len(t) > 0
  BY LenProperties, EmptySeq
<1>2. /\ Head(t) = t[1] /\ Head(t) \in Characters /\ Tail(t) \in Seq(Characters)
      /\ Len(Tail(t)) = Len(t) - 1
      /\ \A i \in 1 .. Len(Tail(t)) : Tail(t)[i] = t[i + 1]
  BY HeadTailProperties
<1>3. /\ a \in Seq(Characters) /\ Len(a) = Len(s) + 1
      /\ \A i \in 1 .. Len(s) : a[i] = s[i]
      /\ a[Len(s) + 1] = t[1]
  BY <1>1, <1>2, AppendProperties
<1> HIDE DEF a
<1>4. /\ a \o Tail(t) \in Seq(Characters) /\ Len(a \o Tail(t)) = Len(s) + Len(t)
      /\ \A i \in 1 .. Len(s) + Len(t) :
           (a \o Tail(t))[i] = IF i <= Len(s) + 1 THEN a[i] ELSE Tail(t)[i - (Len(s) + 1)]
  <2>1. Len(s) + 1 + (Len(t) - 1) = Len(s) + Len(t)
    BY <1>1
  <2>2. /\ a \o Tail(t) \in Seq(Characters) /\ Len(a \o Tail(t)) = Len(a) + Len(Tail(t))
        /\ \A i \in 1 .. Len(a) + Len(Tail(t)) :
             (a \o Tail(t))[i] = IF i <= Len(a) THEN a[i] ELSE Tail(t)[i - Len(a)]
    BY <1>2, <1>3, ConcatProperties
  <2>3. Len(a) = Len(s) + 1 /\ Len(a) + Len(Tail(t)) = Len(s) + Len(t)
    BY <1>2, <1>3, <2>1
  <2> QED
    BY <2>2, <2>3
<1>5. /\ s \o t \in Seq(Characters) /\ Len(s \o t) = Len(s) + Len(t)
      /\ \A i \in 1 .. Len(s) + Len(t) : (s \o t)[i] = IF i <= Len(s) THEN s[i] ELSE t[i - Len(s)]
  BY ConcatProperties
<1>6. ASSUME NEW i \in 1 .. Len(s) + Len(t)
      PROVE  (a \o Tail(t))[i] = (s \o t)[i]
  <2>1. CASE i <= Len(s)
    BY <1>1, <1>3, <1>4, <1>5, <2>1
  <2>2. CASE i = Len(s) + 1
    BY <1>1, <1>3, <1>4, <1>5, <2>2
  <2>3. CASE i > Len(s) + 1
    <3>1. i - (Len(s) + 1) \in 1 .. Len(Tail(t)) /\ i - (Len(s) + 1) + 1 = i - Len(s)
      BY <1>1, <1>2, <2>3
    <3> QED
      BY <1>1, <1>2, <1>4, <1>5, <2>3, <3>1
  <2>4. i <= Len(s) \/ i = Len(s) + 1 \/ i > Len(s) + 1
    BY <1>1
  <2> QED
    BY <2>1, <2>2, <2>3, <2>4
<1> QED
  BY <1>4, <1>5, <1>6, SeqEqual DEF a

(* What is written goes to the end of what is held.                        *)
LEMMA GoesLast ==
  ASSUME NEW s \in Seq(Characters), NEW t \in Seq(Characters), NEW c \in Characters
  PROVE  Append(s \o t, c) = s \o Append(t, c)
<1> DEFINE one == <<c>>
<1>1. one \in Seq(Characters)
  OBVIOUS
<1>2. Append(t, c) = t \o one /\ Append(s \o t, c) = (s \o t) \o one
  BY <1>1, ConcatProperties
<1> HIDE DEF one
<1> QED
  BY <1>1, <1>2, ConcatAssociative

(* All but the last.                                                       *)
LEMMA Shorter ==
  ASSUME NEW S, NEW s \in Seq(S), Len(s) > 0
  PROVE  /\ SubSeq(s, 1, Len(s) - 1) \in Seq(S) /\ Len(SubSeq(s, 1, Len(s) - 1)) = Len(s) - 1
         /\ \A i \in 1 .. Len(s) - 1 : SubSeq(s, 1, Len(s) - 1)[i] = s[i]
<1> DEFINE m == Len(s) - 1
<1>1. Len(s) \in Nat /\ m \in Nat /\ \A i \in 1 .. m : s[i] \in S
  BY LenProperties, ElementOfSeq
<1> HIDE DEF m
<1>2. /\ SubSeq(s, 1, m) \in Seq(S)
      /\ Len(SubSeq(s, 1, m)) = IF 1 <= m THEN m - 1 + 1 ELSE 0
      /\ \A i \in 1 .. m - 1 + 1 : SubSeq(s, 1, m)[i] = s[1 + i - 1]
  BY <1>1, SubSeqProperties
<1>3. m - 1 + 1 = m /\ (\A i \in 1 .. m : 1 + i - 1 = i) /\ (1 <= m \/ m = 0)
  BY <1>1
<1>4. /\ SubSeq(s, 1, m) \in Seq(S) /\ Len(SubSeq(s, 1, m)) = m
      /\ \A i \in 1 .. m : SubSeq(s, 1, m)[i] = s[i]
  BY <1>1, <1>2, <1>3
<1> QED
  BY <1>4 DEF m

LEMMA SerialInitInv == SerialInit => SerialInv
<1> SUFFICES ASSUME SerialInit PROVE SerialInv
  OBVIOUS
<1>1. SerialTypeOK
  <2> DEFINE Empty == {<<>>}
  <2>1. Empty \subseteq Seq(Characters) /\ <<>> \in Seq(Writers)
    BY EmptySeq
  <2>2. uart \in [low : {1}, high : {0}, format : {3}, interrupts : {0}, holding : Empty,
                  dlab : BOOLEAN, fifo : BOOLEAN, loopback : BOOLEAN]
    BY Zenon DEF SerialInit
  <2> HIDE DEF Empty
  <2>3. uart \in Devices
    BY <2>1, <2>2 DEF Devices
  <2> QED
    BY <2>1, <2>3, EmptySeq DEF SerialInit, SerialTypeOK
<1>2. Mode /\ Delivered
  <2>1. <<>> \o <<>> = <<>>
    OBVIOUS
  <2> QED
    BY <2>1 DEF SerialInit, Mode, Delivered
<1>3. Polled = {} /\ Len(writers) = 0
  BY DEF SerialInit, Polled, PolledOf
<1>4. Room
  BY <1>3, FS_EmptySet, SerialAssumption DEF SerialInit, Room
<1> QED
  BY <1>1, <1>2, <1>4 DEF SerialInv

LEMMA InitializeInv == SerialInv /\ serial_initialize => SerialInv'
<1> SUFFICES ASSUME SerialInv, serial_initialize PROVE SerialInv'
  OBVIOUS
<1>1. /\ setup \in 0 .. 6 /\ setup' = setup + 1
      /\ uart' = write_byte(uart, Initialization[setup + 1][1], Initialization[setup + 1][2])
      /\ writers' = writers /\ written' = written /\ wire' = wire
  BY InitializationIs DEF serial_initialize, SerialInv, SerialTypeOK
<1>2. /\ writers = <<>> /\ written = <<>> /\ wire = <<>> /\ uart.holding = <<>>
      /\ uart \in Devices
  BY <1>1 DEF SerialInv, Mode, SerialTypeOK
<1>3. uart' \in Devices /\ uart'.holding = <<>> /\ Mode'
  <2>1. CASE setup = 0
    <3>1. uart' = write_byte(uart, 1, 0)
      BY <1>1, <2>1, InitializationIs
    <3>2. uart.holding = <<>>
      BY <1>2
    <3>3. uart' = IF uart.dlab THEN [uart EXCEPT !.high = 0] ELSE [uart EXCEPT !.interrupts = 0]
      BY <3>1, <3>2 DEF write_byte
    <3>4. uart' \in Devices /\ uart'.holding = <<>>
      BY <1>2, <3>3, EmptySeq DEF Devices
    <3> QED
      BY <1>1, <1>2, <2>1, <3>2, <3>3, <3>4 DEF Mode, Devices
  <2>2. CASE setup = 1
    <3>1. uart' = write_byte(uart, 3, 128)
      BY <1>1, <2>2, InitializationIs
    <3>2. uart.holding = <<>>
      BY <1>2
    <3>3. uart' = [uart EXCEPT !.dlab = TRUE, !.format = 0]
      <4>1. uart' = [uart EXCEPT !.dlab = Bit(128, 128), !.format = 128 % 128]
        BY <3>1 DEF write_byte
      <4> QED
        BY <4>1, Bits, Zenon
    <3>4. uart' \in Devices /\ uart'.holding = <<>>
      BY <1>2, <3>3, EmptySeq DEF Devices
    <3>5. uart'.dlab = TRUE
      BY <1>2, <3>2, <3>3 DEF Devices
    <3> QED
      BY <1>1, <1>2, <2>2, <3>4, <3>5 DEF Mode
  <2>3. CASE setup = 2
    <3>1. uart' = write_byte(uart, 0, 3)
      BY <1>1, <2>3, InitializationIs
    <3>2. uart.dlab
      BY <2>3 DEF SerialInv, Mode
    <3>3. uart' = [uart EXCEPT !.low = 3]
      BY <3>1, <3>2 DEF write_byte
    <3>4. uart' \in Devices /\ uart'.holding = <<>>
      BY <1>2, <3>3, EmptySeq DEF Devices
    <3> QED
      BY <1>1, <1>2, <2>3, <3>2, <3>3, <3>4 DEF Mode, Devices
  <2>4. CASE setup = 3
    <3>1. uart' = write_byte(uart, 1, 0)
      BY <1>1, <2>4, InitializationIs
    <3>2. uart.dlab /\ uart.low = 3
      BY <2>4 DEF SerialInv, Mode
    <3>3. uart' = [uart EXCEPT !.high = 0]
      BY <3>1, <3>2 DEF write_byte
    <3>4. uart' \in Devices /\ uart'.holding = <<>>
      BY <1>2, <3>3, EmptySeq DEF Devices
    <3> QED
      BY <1>1, <1>2, <2>4, <3>2, <3>3, <3>4 DEF Mode, Devices
  <2>5. CASE setup = 4
    <3>1. uart' = write_byte(uart, 3, 3)
      BY <1>1, <2>5, InitializationIs
    <3>2. uart.low = 3 /\ uart.high = 0
      BY <2>5 DEF SerialInv, Mode
    <3>3. uart' = [uart EXCEPT !.dlab = FALSE, !.format = 3]
      <4>1. uart' = [uart EXCEPT !.dlab = Bit(3, 128), !.format = 3 % 128]
        BY <3>1 DEF write_byte
      <4> QED
        BY <4>1, Bits, Zenon
    <3>4. uart' \in Devices /\ uart'.holding = <<>>
      BY <1>2, <3>3, EmptySeq DEF Devices
    <3>5. uart'.dlab = FALSE /\ uart'.format = 3 /\ uart'.low = 3 /\ uart'.high = 0
      BY <1>2, <3>2, <3>3 DEF Devices
    <3> QED
      BY <1>1, <1>2, <2>5, <3>4, <3>5 DEF Mode
  <2>6. CASE setup = 5
    <3>1. uart' = write_byte(uart, 2, 199)
      BY <1>1, <2>6, InitializationIs
    <3>2. uart.low = 3 /\ uart.high = 0 /\ ~ uart.dlab /\ uart.format = 3
      BY <2>6 DEF SerialInv, Mode
    <3>3. uart' = [uart EXCEPT !.fifo = TRUE, !.holding = <<>>]
      <4>1. uart' = [uart EXCEPT !.fifo = Bit(199, 1), !.holding = IF Bit(199, 4) THEN <<>> ELSE @]
        BY <3>1 DEF write_byte
      <4> QED
        BY <4>1, Bits, Zenon
    <3>4. uart' \in Devices /\ uart'.holding = <<>>
      BY <1>2, <3>3, EmptySeq DEF Devices
    <3>5. /\ uart'.dlab = FALSE /\ uart'.format = 3 /\ uart'.low = 3 /\ uart'.high = 0
          /\ uart'.fifo = TRUE
      BY <1>2, <3>2, <3>3 DEF Devices
    <3> QED
      BY <1>1, <1>2, <2>6, <3>4, <3>5 DEF Mode
  <2>7. CASE setup = 6
    <3>1. uart' = write_byte(uart, 4, 11)
      BY <1>1, <2>7, InitializationIs
    <3>2. uart.low = 3 /\ uart.high = 0 /\ ~ uart.dlab /\ uart.format = 3 /\ uart.fifo
      BY <2>7 DEF SerialInv, Mode
    <3>3. uart' = [uart EXCEPT !.loopback = FALSE]
      <4>1. uart' = [uart EXCEPT !.loopback = Bit(11, 16)]
        BY <3>1 DEF write_byte
      <4> QED
        BY <4>1, Bits, Zenon
    <3>4. uart' \in Devices /\ uart'.holding = <<>>
      BY <1>2, <3>3, EmptySeq DEF Devices
    <3> QED
      BY <1>1, <1>2, <2>7, <3>2, <3>3, <3>4 DEF Mode, Devices
  <2> QED
    BY <1>1, <2>1, <2>2, <2>3, <2>4, <2>5, <2>6, <2>7
<1>4. SerialTypeOK'
  BY <1>1, <1>3 DEF SerialInv, SerialTypeOK
<1>5. Delivered'
  BY <1>1, <1>2, <1>3 DEF SerialInv, Delivered
<1>6. Room'
  BY <1>1, <1>2, <1>3 DEF SerialInv, Room, Polled, PolledOf
<1> QED
  BY <1>3, <1>4, <1>5, <1>6 DEF SerialInv

LEMMA Quiet == SerialInv /\ UNCHANGED serialVars => SerialInv'
BY DEF SerialInv, SerialTypeOK, Devices, Writers, Mode, Delivered, Room, Polled, PolledOf, serialVars

LEMMA TransmitInv == SerialInv /\ Transmit => SerialInv' /\ Line!Arrive
<1> SUFFICES ASSUME SerialInv, Transmit PROVE SerialInv' /\ Line!Arrive
  OBVIOUS
<1> DEFINE held == uart.holding
<1>1. /\ uart \in Devices /\ held \in Seq(Characters) /\ held # <<>>
      /\ setup = 7 /\ wire \in Seq(Characters) /\ written = wire \o held
  BY DEF Transmit, SerialInv, SerialTypeOK, Mode, Delivered, Devices
<1>2. /\ uart.low = 3 /\ uart.high = 0 /\ uart.format = 3 /\ ~ uart.loopback /\ ~ uart.dlab /\ uart.fifo
  BY <1>1 DEF SerialInv, Mode
<1>3. /\ Head(held) \in Characters /\ Tail(held) \in Seq(Characters)
      /\ Len(held) \in Nat /\ Len(held) > 0 /\ Len(Tail(held)) = Len(held) - 1
  BY <1>1, HeadTailProperties, LenProperties, EmptySeq
<1>4. /\ uart' = [uart EXCEPT !.holding = Tail(held)]
      /\ wire' = Append(wire, Head(held))
      /\ setup' = setup /\ writers' = writers /\ written' = written
  BY <1>2 DEF Transmit, Agreed
<1>5. uart' \in Devices /\ uart'.holding = Tail(held)
  BY <1>1, <1>3, <1>4 DEF Devices
<1>6. Mode'
  <2>1. /\ uart'.low = 3 /\ uart'.high = 0 /\ uart'.format = 3 /\ uart'.loopback = uart.loopback
        /\ uart'.dlab = uart.dlab /\ uart'.fifo = uart.fifo
    BY <1>1, <1>2, <1>4 DEF Devices
  <2> QED
    BY <1>1, <1>2, <1>4, <2>1 DEF Mode
<1>7. wire' \in Seq(Characters)
  BY <1>1, <1>3, <1>4, AppendProperties
<1>8. Delivered'
  BY <1>1, <1>4, <1>5, MovesOver DEF Delivered
<1>9. Room'
  <2>1. Polled' = Polled
    BY <1>4 DEF Polled, PolledOf
  <2>2. Cardinality(Polled) \in Nat /\ MaxNested \in Nat
    BY PolledFinite, SerialAssumption DEF SerialInv, SerialTypeOK, Polled
  <2> QED
    BY <1>3, <1>4, <1>5, <2>1, <2>2 DEF SerialInv, Room
<1>10. SerialTypeOK'
  BY <1>4, <1>5, <1>7 DEF SerialInv, SerialTypeOK
<1>11. Line!Arrive
  <2>1. Len(wire) \in Nat /\ Len(written) = Len(wire) + Len(held)
    BY <1>1, <1>3, LenProperties, ConcatProperties
  <2>2. written[Len(wire) + 1] = Head(held)
    BY <1>1, <1>3, <2>1
  <2> QED
    BY <1>3, <1>4, <2>1, <2>2 DEF Line!Arrive
<1> QED
  BY <1>6, <1>8, <1>9, <1>10, <1>11 DEF SerialInv

LEMMA CallInv ==
  ASSUME SerialInv, NEW text \in Seq(Characters), serial_write_string(text)
  PROVE  SerialInv'
<1> DEFINE new == [text |-> text, polled |-> FALSE]
<1>1. /\ writers \in Seq(Writers) /\ new \in Writers
      /\ setup = 7 /\ Len(writers) < MaxNested /\ writers' = Append(writers, new)
      /\ uart' = uart /\ setup' = setup /\ written' = written /\ wire' = wire
  BY InitializationIs DEF SerialInv, SerialTypeOK, serial_write_string, Innermost, Writers
<1>2. /\ Len(writers) \in Nat /\ writers' \in Seq(Writers) /\ Len(writers') = Len(writers) + 1
      /\ \A i \in 1 .. Len(writers) : writers'[i] = writers[i]
      /\ writers'[Len(writers) + 1] = new
  BY <1>1, AppendProperties, LenProperties
<1>3. Polled' = Polled
  <2>1. \A i \in 1 .. Len(writers') : i \in 1 .. Len(writers) \/ i = Len(writers) + 1
    BY <1>2
  <2>2. ~ writers'[Len(writers) + 1].polled
    BY <1>2
  <2> QED
    BY <1>2, <2>1, <2>2 DEF Polled, PolledOf
<1>4. Room'
  <2>1. \A i \in Polled : writers'[i].text # <<>>
    BY <1>2 DEF SerialInv, Room, Polled, PolledOf
  <2>2. Len(writers') <= MaxNested
    BY <1>1, <1>2, SerialAssumption
  <2>3. Len(uart'.holding) + Cardinality(Polled') <= MaxNested
    BY <1>1, <1>3 DEF SerialInv, Room
  <2> QED
    BY <1>3, <2>1, <2>2, <2>3 DEF Room
<1>5. SerialTypeOK' /\ Mode' /\ Delivered'
  BY <1>1, <1>2 DEF SerialInv, SerialTypeOK, Mode, Delivered
<1> QED
  BY <1>4, <1>5 DEF SerialInv

(* A poll succeeds only when nothing is held, and there are no more        *)
(* writers than places.                                                    *)
LEMMA PollInv == SerialInv /\ Poll => SerialInv'
<1> SUFFICES ASSUME SerialInv, Poll PROVE SerialInv'
  OBVIOUS
<1> DEFINE n == Len(writers)
<1>1. /\ writers \in Seq(Writers) /\ writers # <<>> /\ writers[n].text # <<>> /\ ~ writers[n].polled
      /\ uart.holding = <<>> /\ writers' = [writers EXCEPT ![n].polled = TRUE]
      /\ uart' = uart /\ setup' = setup /\ written' = written /\ wire' = wire
  BY DEF SerialInv, SerialTypeOK, Poll, running, Innermost, serial_is_transmit_empty
<1>2. n \in Nat /\ n \in 1 .. n /\ writers[n] \in Writers
  BY <1>1, LenProperties, EmptySeq, ElementOfSeq
<1>3. [writers[n] EXCEPT !.polled = TRUE] \in Writers
  BY <1>2 DEF Writers
<1>4. writers' \in Seq(Writers) /\ Len(writers') = n
  BY <1>1, <1>2, <1>3, ExceptSeq
<1>5. \A i \in 1 .. n : writers'[i].text = writers[i].text
  <2>1. \A i \in 1 .. n : i # n => writers'[i] = writers[i]
    BY <1>1, <1>2
  <2>2. writers'[n] = [writers[n] EXCEPT !.polled = TRUE]
    <3>1. DOMAIN writers = 1 .. n
      BY <1>1, LenProperties
    <3>2. writers' = [writers EXCEPT ![n] = [writers[n] EXCEPT !.polled = TRUE]]
      BY <1>1
    <3> QED
      BY <1>2, <3>1, <3>2, Zenon
  <2> QED
    BY <1>2, <2>1, <2>2 DEF Writers
<1>6. Room'
  <2>1. \A i \in Polled' : writers'[i].text # <<>>
    <3>1. writers' \in Seq(Writers) /\ \A i \in Polled' : i \in 1 .. n
      BY <1>4 DEF Polled, PolledOf
    <3>2. \A i \in 1 .. n : i # n => writers'[i] = writers[i]
      BY <1>1, <1>2
    <3> QED
      BY <1>1, <1>5, <3>1, <3>2 DEF SerialInv, Room, Polled, PolledOf
  <2>2. Cardinality(Polled') \in Nat /\ Cardinality(Polled') <= n
    BY <1>4, PolledFinite DEF Polled
  <2>3. Len(uart'.holding) = 0
    BY <1>1
  <2> QED
    BY <1>2, <1>4, <2>1, <2>2, <2>3, SerialAssumption DEF SerialInv, Room
<1>7. SerialTypeOK' /\ Mode' /\ Delivered'
  BY <1>1, <1>4 DEF SerialInv, SerialTypeOK, Mode, Delivered
<1> QED
  BY <1>6, <1>7 DEF SerialInv

(* The writer has polled, so there is a place for its character.           *)
LEMMA WriteInv == SerialInv /\ WriteCharacter => SerialInv' /\ Line!Send
<1> SUFFICES ASSUME SerialInv, WriteCharacter PROVE SerialInv' /\ Line!Send
  OBVIOUS
<1> DEFINE n == Len(writers)
           held == uart.holding
           c == Head(writers[n].text)
           rest == [text |-> Tail(writers[n].text), polled |-> FALSE]
<1>1. /\ writers \in Seq(Writers) /\ writers # <<>> /\ writers[n].polled
      /\ uart' = write_byte(uart, 0, c) /\ written' = Append(written, c)
      /\ writers' = [writers EXCEPT ![n] = rest] /\ setup' = setup /\ wire' = wire
  BY DEF SerialInv, SerialTypeOK, WriteCharacter, running, Innermost
<1>2. n \in Nat /\ n \in 1 .. n /\ writers[n] \in Writers
  BY <1>1, LenProperties, EmptySeq, ElementOfSeq
<1>3. n \in Polled /\ writers[n].text # <<>>
  BY <1>1, <1>2 DEF SerialInv, Room, Polled, PolledOf
<1>4. c \in Characters /\ rest \in Writers
  BY <1>2, <1>3, HeadTailProperties DEF Writers
<1>5. writers' \in Seq(Writers) /\ Len(writers') = n
  BY <1>1, <1>2, <1>4, ExceptSeq
<1>6. Polled' = Polled \ {n}
  <2>1. \A i \in 1 .. n : i # n => writers'[i] = writers[i]
    BY <1>1, <1>2
  <2>2. ~ writers'[n].polled
    BY <1>1, <1>2
  <2> QED
    BY <1>2, <1>5, <2>1, <2>2 DEF Polled, PolledOf
<1>7. /\ IsFiniteSet(Polled) /\ Cardinality(Polled) \in Nat
      /\ Cardinality(Polled') = Cardinality(Polled) - 1
  BY <1>1, <1>3, <1>6, PolledFinite, FS_RemoveElement DEF Polled
<1>8. /\ setup = 7 /\ uart \in Devices /\ held \in Seq(Characters) /\ Len(held) \in Nat
      /\ written \in Seq(Characters) /\ wire \in Seq(Characters) /\ written = wire \o held
  BY <1>1, LenProperties DEF SerialInv, SerialTypeOK, Mode, Delivered, Devices
<1>9. /\ uart.low = 3 /\ uart.high = 0 /\ uart.format = 3 /\ ~ uart.loopback /\ ~ uart.dlab /\ uart.fifo
  BY <1>8 DEF SerialInv, Mode
<1>10. Len(held) < 16
  <2>1. Len(held) + Cardinality(Polled) <= MaxNested /\ Cardinality(Polled) # 0
    BY <1>3, <1>7, FS_EmptySet DEF SerialInv, Room
  <2> QED
    BY <1>7, <1>8, <2>1, SerialAssumption DEF Places
<1>11. uart' = [uart EXCEPT !.holding = Append(held, c)]
  BY <1>1, <1>9, <1>10 DEF write_byte, Hold, Places
<1>12. uart' \in Devices /\ uart'.holding = Append(held, c) /\ Len(uart'.holding) = Len(held) + 1
  <2>1. Append(held, c) \in Seq(Characters) /\ Len(Append(held, c)) = Len(held) + 1
    BY <1>4, <1>8, AppendProperties
  <2> QED
    BY <1>8, <1>11, <2>1 DEF Devices
<1>13. Mode'
  <2>1. /\ uart'.low = 3 /\ uart'.high = 0 /\ uart'.format = 3 /\ uart'.loopback = uart.loopback
        /\ uart'.dlab = uart.dlab /\ uart'.fifo = uart.fifo
    BY <1>8, <1>9, <1>11 DEF Devices
  <2> QED
    <3>1. writers # <<>> /\ setup' = 7
      BY <1>1, <1>8
    <3> QED
      BY <1>8, <1>9, <2>1, <3>1 DEF Mode
<1>14. Delivered'
  <2>1. Append(wire \o held, c) = wire \o Append(held, c)
    BY <1>4, <1>8, GoesLast
  <2> QED
    BY <1>1, <1>8, <1>12, <2>1 DEF Delivered
<1>15. Room'
  <2>1. \A i \in Polled' : writers'[i].text # <<>>
    BY <1>1, <1>2, <1>6 DEF SerialInv, Room, Polled, PolledOf
  <2> QED
    BY <1>5, <1>7, <1>8, <1>12, <2>1, SerialAssumption DEF SerialInv, Room
<1>16. SerialTypeOK'
  BY <1>1, <1>4, <1>5, <1>8, <1>12, AppendProperties DEF SerialInv, SerialTypeOK
<1>17. Line!Send
  BY <1>1, <1>4 DEF Line!Send
<1> QED
  BY <1>13, <1>14, <1>15, <1>16, <1>17 DEF SerialInv

LEMMA ReturnInv == SerialInv /\ SerialReturn => SerialInv'
<1> SUFFICES ASSUME SerialInv, SerialReturn PROVE SerialInv'
  OBVIOUS
<1> DEFINE n == Len(writers)
<1>1. /\ writers \in Seq(Writers) /\ writers # <<>> /\ writers[n].text = <<>>
      /\ writers' = SubSeq(writers, 1, n - 1)
      /\ uart' = uart /\ setup' = setup /\ written' = written /\ wire' = wire
  BY DEF SerialInv, SerialTypeOK, SerialReturn, running, Innermost
<1>2. n \in Nat /\ n \in 1 .. n
  BY <1>1, LenProperties, EmptySeq
<1>3. /\ writers' \in Seq(Writers) /\ Len(writers') = n - 1
      /\ \A i \in 1 .. n - 1 : writers'[i] = writers[i]
  BY <1>1, <1>2, Shorter
<1>4. n \notin Polled
  BY <1>1 DEF SerialInv, Room
<1>5. Polled' = Polled
  <2>1. \A i \in 1 .. n : i \in 1 .. n - 1 \/ i = n
    BY <1>2
  <2> QED
    BY <1>2, <1>3, <1>4, <2>1 DEF Polled, PolledOf
<1>6. Room'
  <2>1. \A i \in Polled : i \in 1 .. n - 1
    BY <1>2, <1>4 DEF Polled, PolledOf
  <2> QED
    BY <1>1, <1>2, <1>3, <1>5, <2>1, SerialAssumption DEF SerialInv, Room
<1>7. SerialTypeOK' /\ Mode' /\ Delivered'
  BY <1>1, <1>3 DEF SerialInv, SerialTypeOK, Mode, Delivered
<1> QED
  BY <1>6, <1>7 DEF SerialInv

-----------------------------------------------------------------------------
(* What a step of the port is on the line.                                 *)
LEMMA SerialStep ==
  SerialInv /\ [SerialNext]_serialVars => SerialInv' /\ [Line!Send \/ Line!Arrive]_Line!line
<1> SUFFICES ASSUME SerialInv, [SerialNext]_serialVars
             PROVE  SerialInv' /\ [Line!Send \/ Line!Arrive]_Line!line
  OBVIOUS
<1>1. CASE Transmit
  BY <1>1, TransmitInv
<1>2. CASE serial_initialize
  BY <1>2, InitializeInv DEF serial_initialize, Line!line
<1>3. CASE \E text \in Seq(Characters) : serial_write_string(text)
  BY <1>3, CallInv DEF serial_write_string, Line!line
<1>4. CASE Poll
  BY <1>4, PollInv DEF Poll, Line!line
<1>5. CASE WriteCharacter
  BY <1>5, WriteInv
<1>6. CASE SerialReturn
  BY <1>6, ReturnInv DEF SerialReturn, Line!line
<1>7. CASE UNCHANGED serialVars
  BY <1>7, Quiet DEF serialVars, Line!line
<1> QED
  BY <1>1, <1>2, <1>3, <1>4, <1>5, <1>6, <1>7 DEF SerialNext

(* Whatever texts the driver is given, and however the calls are nested,   *)
(* no character is lost, repeated, garbled or overtaken.                   *)
THEOREM LineSafe == SerialSpec => Line!Safely
<1>1. SerialInit => SerialInv /\ Line!Init
  BY SerialInitInv DEF SerialInit, Line!Init
<1> QED
  BY <1>1, SerialStep, PTL DEF SerialSpec, Line!Safely

-----------------------------------------------------------------------------
(* Every step of the boot sequence is one of the port, or none.            *)
LEMMA LogIs ==
  ASSUME NEW level \in Levels, NEW follows, Log(level, follows)
  PROVE  SerialNext
<1>1. <<level>> \in Seq(Characters)
  BY BootAssumption
<1> QED
  BY <1>1 DEF Log, SerialNext

LEMMA BootStep == [Next]_vars => [SerialNext]_serialVars
<1> USE DEF Done, Levels
<1>1. ASSUME loggers \/ terminal_initialize \/ gdt_load \/ ltr \/ idt_initialize \/ isr_initialize
             \/ sti \/ pmm_initialize \/ msrs \/ efer \/ greet
      PROVE  SerialNext
  BY <1>1, LogIs DEF loggers, terminal_initialize, gdt_load, ltr, idt_initialize, isr_initialize,
                     sti, pmm_initialize, msrs, efer, greet
<1>2. ASSUME limine_get_file \/ gdt_reload_segments \/ (\E request \in Requests : Check(request))
      PROVE  [SerialNext]_serialVars
  BY <1>2, LogIs DEF limine_get_file, gdt_reload_segments, Check, Refuse
<1>3. ASSUME NEW v \in Vectors, Exception(v)
      PROVE  [SerialNext]_serialVars
  BY <1>3, LogIs DEF Exception, default_interrupt_handler
<1>4. ASSUME Setup \/ Drive \/ Logged \/ Device
      PROVE  SerialNext
  BY <1>4 DEF Setup, Drive, Logged, Device, SerialNext
<1>5. ASSUME hcf \/ (\E v \in Vectors : idt_set_entry(v)) \/ UNCHANGED vars
      PROVE  UNCHANGED serialVars
  BY <1>5 DEF hcf, idt_set_entry, vars
<1> QED
  BY <1>1, <1>2, <1>3, <1>4, <1>5 DEF Next, Processor

(* So the port's promise holds of a whole boot, with exceptions that come  *)
(* between a poll and the write that follows.                              *)
THEOREM BootLineSafe == Spec => Line!Safely
<1>1. Init => SerialInit
  BY DEF Init
<1>2. Spec => SerialSpec
  BY <1>1, BootStep, PTL DEF Spec, SerialSpec
<1> QED
  BY <1>2, LineSafe

THEOREM PortInvariance == Spec => []SerialInv
<1>1. Init => SerialInv
  BY SerialInitInv DEF Init
<1>2. SerialInv /\ [Next]_vars => SerialInv'
  BY SerialStep, BootStep
<1> QED
  BY <1>1, <1>2, PTL DEF Spec

-----------------------------------------------------------------------------
Outcomes == {"running", "halted", "panicked", "repeating", "lost"}

(* A panic has begun, or a handler's message precedes one.                 *)
Panics == state = "panicked" \/ \E i \in DOMAIN after : after[i] = "panicked"

BootInv ==
  /\ step \in 1 .. 21 /\ after \in Seq(Outcomes) /\ Len(after) = Len(writers)
  /\ step > 1 => "loggers" \in ready
  /\ step > 9 => "terminal" \in ready
  /\ step < 14 => idt = [v \in Vectors |-> idt_segment_create(Nowhere, 40, 142, 0)]
  /\ Panics => step >= 14

(* The places of the steps that the invariants tell apart.                 *)
LEMMA OrderIs ==
  /\ Len(Order) = 20
  /\ \A i \in 1 .. 20 :
       /\ Order[i] = "loggers" <=> i = 1
       /\ Order[i] = "terminal_initialize" <=> i = 9
       /\ Order[i] = "gdt_load" <=> i = 10
       /\ Order[i] = "gdt_reload_segments" <=> i = 11
       /\ Order[i] = "ltr" <=> i = 12
       /\ Order[i] = "idt_initialize" <=> i = 13
       /\ Order[i] = "isr_initialize" <=> i = 14
       /\ Order[i] = "sti" <=> i = 15
       /\ Order[i] = "msrs" <=> i = 17
       /\ Order[i] = "efer" <=> i = 18
       /\ Order[i] = "hcf" <=> i = 20
<1>1. Len(Order) = 20
  BY DEF Order
<1>2. /\ Order[1] = "loggers" /\ Order[2] = "revision" /\ Order[3] = "framebuffer"
      /\ Order[4] = "memory_map" /\ Order[5] = "kernel_address" /\ Order[6] = "kernel_file"
      /\ Order[7] = "hhdm" /\ Order[8] = "font" /\ Order[9] = "terminal_initialize"
      /\ Order[10] = "gdt_load" /\ Order[11] = "gdt_reload_segments" /\ Order[12] = "ltr"
      /\ Order[13] = "idt_initialize" /\ Order[14] = "isr_initialize" /\ Order[15] = "sti"
      /\ Order[16] = "pmm_initialize" /\ Order[17] = "msrs" /\ Order[18] = "efer"
      /\ Order[19] = "greet" /\ Order[20] = "hcf"
  BY DEF Order
<1>3. ASSUME NEW i \in 1 .. 20
      PROVE  \/ i = 1 \/ i = 2 \/ i = 3 \/ i = 4 \/ i = 5 \/ i = 6 \/ i = 7
             \/ i = 8 \/ i = 9 \/ i = 10 \/ i = 11 \/ i = 12 \/ i = 13
             \/ i = 14 \/ i = 15 \/ i = 16 \/ i = 17 \/ i = 18 \/ i = 19 \/ i = 20
  OBVIOUS
<1> QED
  BY <1>1, <1>2, <1>3

LEMMA PastIs ==
  ASSUME step \in 1 .. 21
  PROVE  /\ Past("idt_initialize") <=> step > 13
         /\ Past("isr_initialize") <=> step > 14
<1>1. DOMAIN Order = 1 .. 20
  BY DEF Order
<1>2. 13 \in DOMAIN Order /\ 14 \in DOMAIN Order
  BY <1>1
<1> QED
  BY <1>1, <1>2, OrderIs DEF Past

LEMMA PlacesOf ==
  ASSUME step \in 1 .. 21, NEW name, At(name)
  PROVE  /\ step \in 1 .. 20 /\ state = "running" /\ writers = <<>>
         /\ name = "loggers" <=> step = 1
         /\ name = "terminal_initialize" <=> step = 9
         /\ name = "gdt_load" <=> step = 10
         /\ name = "gdt_reload_segments" <=> step = 11
         /\ name = "ltr" <=> step = 12
         /\ name = "idt_initialize" <=> step = 13
         /\ name = "isr_initialize" <=> step = 14
         /\ name = "msrs" <=> step = 17
         /\ name = "efer" <=> step = 18
<1>1. step \in 1 .. 20 /\ Order[step] = name /\ state = "running" /\ writers = <<>>
  BY OrderIs DEF At
<1> QED
  BY <1>1, OrderIs

(* What a call adds to what is to follow.                                  *)
LEMMA LogKeeps ==
  ASSUME SerialInv, BootInv, NEW level, NEW follows \in Outcomes, Log(level, follows)
  PROVE  /\ after' \in Seq(Outcomes) /\ Len(after') = Len(writers')
         /\ (\E i \in DOMAIN after' : after'[i] = "panicked") =>
              (\E i \in DOMAIN after : after[i] = "panicked") \/ follows = "panicked"
<1> DEFINE new == [text |-> <<level>>, polled |-> FALSE]
<1>1. /\ writers \in Seq(Writers) /\ after \in Seq(Outcomes) /\ Len(after) = Len(writers)
      /\ writers' = Append(writers, new) /\ after' = Append(after, follows)
  BY DEF SerialInv, SerialTypeOK, BootInv, Log, serial_write_string
<1>2. Len(writers') = Len(writers) + 1
  BY <1>1
<1>3. /\ after' \in Seq(Outcomes) /\ Len(after') = Len(after) + 1 /\ Len(after) \in Nat
      /\ DOMAIN after' = 1 .. Len(after') /\ DOMAIN after = 1 .. Len(after)
      /\ \A i \in 1 .. Len(after) : after'[i] = after[i]
      /\ after'[Len(after) + 1] = follows
  BY <1>1, AppendProperties, LenProperties
<1>4. \A i \in 1 .. Len(after) + 1 : i \in 1 .. Len(after) \/ i = Len(after) + 1
  BY <1>3
<1> QED
  BY <1>1, <1>2, <1>3, <1>4

LEMMA BootInitInv == Init => BootInv
<1> SUFFICES ASSUME Init PROVE BootInv
  OBVIOUS
<1>1. /\ step = 1 /\ after = <<>> /\ writers = <<>> /\ state = "running"
      /\ idt = [v \in Vectors |-> idt_segment_create(Nowhere, 40, 142, 0)]
  BY DEF Init, SerialInit
<1>2. ~ Panics
  BY <1>1 DEF Panics
<1> QED
  BY <1>1, <1>2, EmptySeq DEF BootInv

(* A step of _start that logs and goes on.                                 *)
LEMMA DoneKeeps ==
  ASSUME SerialInv, BootInv, NEW name, At(name), NEW level, Done(level), state' = state,
         ready \subseteq ready',
         name = "loggers" => "loggers" \in ready',
         name = "terminal_initialize" => "terminal" \in ready',
         name # "idt_initialize" => idt' = idt
  PROVE  BootInv'
<1>1. /\ step \in 1 .. 20 /\ state = "running" /\ step' = step + 1
      /\ Log(level, "running") /\ "running" \in Outcomes
  BY PlacesOf DEF BootInv, Done, Outcomes
<1>2. /\ after' \in Seq(Outcomes) /\ Len(after') = Len(writers')
      /\ Panics' => Panics
  BY <1>1, LogKeeps DEF Panics
<1>3. step' > 1 => "loggers" \in ready'
  BY <1>1, PlacesOf DEF BootInv
<1>4. step' > 9 => "terminal" \in ready'
  BY <1>1, PlacesOf DEF BootInv
<1>5. step' < 14 => idt' = idt /\ step < 14
  BY <1>1, PlacesOf DEF BootInv
<1>6. Panics' => step' >= 14
  BY <1>1, <1>2 DEF BootInv
<1> QED
  BY <1>1, <1>2, <1>3, <1>4, <1>5, <1>6 DEF BootInv

(* A step that leaves the sequence where it is, and the messages too.      *)
LEMMA StandsKeeps ==
  ASSUME BootInv, step' = step, ready' = ready, after' = after, writers' = writers,
         step < 14 => idt' = idt, state' = state \/ state' # "panicked"
  PROVE  BootInv'
BY DEF BootInv, Panics

(* A message logged without going on: a refusal, or a handler's.           *)
LEMMA MessageKeeps ==
  ASSUME SerialInv, BootInv, step' = step, ready' = ready, idt' = idt, state' = state,
         NEW level, NEW follows \in Outcomes, Log(level, follows),
         follows = "panicked" => step >= 14
  PROVE  BootInv'
<1>1. /\ after' \in Seq(Outcomes) /\ Len(after') = Len(writers')
      /\ Panics' => Panics \/ follows = "panicked"
  BY LogKeeps DEF Panics
<1> QED
  BY <1>1 DEF BootInv

(* No gate leads to a stub before isr_initialize.                          *)
LEMMA StubsLater ==
  ASSUME BootInv, NEW v \in Vectors, TargetOf(idt[v]) = IsrStubs[v]
  PROVE  step >= 14
<1> SUFFICES ASSUME step < 14 PROVE FALSE
  BY DEF BootInv
<1>1. idt[v] = idt_segment_create(Nowhere, 40, 142, 0)
  BY DEF BootInv
<1>2. TargetOf(idt[v]) = Nowhere
  BY <1>1 DEF TargetOf, idt_segment_create, Nowhere
<1> QED
  BY <1>2, BootAssumption

LEMMA BootNextInv == SerialInv /\ BootInv /\ [Next]_vars => BootInv'
<1> SUFFICES ASSUME SerialInv, BootInv, [Next]_vars PROVE BootInv'
  OBVIOUS
<1>1. CASE UNCHANGED vars
  BY <1>1, StandsKeeps DEF vars, serialVars, bootVars, tables
<1>2. CASE Setup \/ Device
  BY <1>2, StandsKeeps DEF Setup, Device, serial_initialize, Transmit, bootVars, tables
<1>3. CASE loggers
  BY <1>3, DoneKeeps DEF loggers, tables
<1>4. CASE terminal_initialize
  BY <1>4, DoneKeeps DEF terminal_initialize, tables
<1>5. CASE gdt_load \/ ltr \/ isr_initialize \/ sti \/ pmm_initialize \/ msrs \/ greet
  <2>1. CASE gdt_load
    BY <2>1, DoneKeeps DEF gdt_load
  <2>2. CASE ltr
    BY <2>2, DoneKeeps DEF ltr
  <2>3. CASE isr_initialize
    BY <2>3, DoneKeeps DEF isr_initialize, tables
  <2>4. CASE sti
    BY <2>4, DoneKeeps DEF sti, tables
  <2>5. CASE pmm_initialize
    BY <2>5, DoneKeeps DEF pmm_initialize, tables
  <2>6. CASE msrs
    BY <2>6, DoneKeeps DEF msrs
  <2>7. CASE greet
    BY <2>7, DoneKeeps DEF greet, tables
  <2> QED
    BY <1>5, <2>1, <2>2, <2>3, <2>4, <2>5, <2>6, <2>7
<1>6. CASE idt_initialize
  BY <1>6, DoneKeeps DEF idt_initialize
<1>7. ASSUME NEW request \in Requests, Check(request)
      PROVE  BootInv'
  <2>1. At(request) /\ ready' = ready /\ idt' = idt
    BY <1>7 DEF Check, tables
  <2>2. request # "loggers" /\ request # "terminal_initialize"
    <3>1. Checked = <<"revision", "framebuffer", "memory_map", "kernel_address", "kernel_file", "hhdm">>
      BY DEF Checked
    <3> QED
      BY <3>1 DEF Requests
  <2>3. CASE Done("INFO") /\ state' = state
    BY <2>1, <2>2, <2>3, DoneKeeps
  <2>4. CASE Refuse
    BY <2>1, <2>4, MessageKeeps DEF Refuse, Outcomes
  <2> QED
    BY <1>7, <2>3, <2>4 DEF Check
<1>8. CASE limine_get_file
  <2>1. At("font") /\ ready' = ready /\ idt' = idt
    BY <1>8 DEF limine_get_file, tables
  <2>2. CASE Done("INFO") /\ state' = state
    BY <2>1, <2>2, DoneKeeps
  <2>3. CASE Refuse
    BY <2>1, <2>3, MessageKeeps DEF Refuse, Outcomes
  <2>4. CASE state' = "lost" /\ UNCHANGED <<serialVars, step, after>>
    BY <2>1, <2>4, StandsKeeps DEF serialVars
  <2> QED
    BY <1>8, <2>2, <2>3, <2>4 DEF limine_get_file
<1>9. CASE gdt_reload_segments
  <2>1. At("gdt_reload_segments") /\ ready' = ready /\ idt' = idt
    BY <1>9 DEF gdt_reload_segments
  <2>2. CASE Done("INFO") /\ state' = state
    BY <2>1, <2>2, DoneKeeps
  <2>3. CASE state' = "lost" /\ UNCHANGED <<serialVars, step, after>>
    BY <2>1, <2>3, StandsKeeps DEF serialVars
  <2> QED
    BY <1>9, <2>2, <2>3 DEF gdt_reload_segments
<1>10. ASSUME NEW v \in Vectors, idt_set_entry(v)
       PROVE  BootInv'
  <2>1. step = 14
    BY <1>10, PlacesOf DEF idt_set_entry, BootInv
  <2> QED
    BY <1>10, <2>1, StandsKeeps DEF idt_set_entry, serialVars
<1>11. CASE efer
  <2>1. At("efer") /\ idt' = idt /\ state' = state /\ step = 18
    BY <1>11, PlacesOf DEF efer, tables, BootInv
  <2>2. CASE ready' = ready \cup {"system calls"} /\ Done("INFO")
    <3>1. ready \subseteq ready'
      BY <2>2
    <3>2. Done("INFO")
      BY <2>2
    <3> QED
      BY <2>1, <3>1, <3>2, DoneKeeps
  <2>3. CASE Log("FATAL", "panicked") /\ UNCHANGED <<step, ready>>
    BY <2>1, <2>3, MessageKeeps DEF Outcomes
  <2> QED
    BY <1>11, <2>2, <2>3 DEF efer
<1>12. CASE hcf
  BY <1>12, StandsKeeps DEF hcf, tables, serialVars
<1>13. CASE Drive
  <2>1. /\ step' = step /\ ready' = ready /\ idt' = idt /\ after' = after /\ state' = state
        /\ Len(writers') = Len(writers)
    BY <1>13 DEF Drive, Poll, WriteCharacter, bootVars, tables, SerialInv, SerialTypeOK
  <2> QED
    BY <2>1 DEF BootInv, Panics
<1>14. CASE Logged
  <2> DEFINE n == Len(after)
  <2>1. /\ writers \in Seq(Writers) /\ writers # <<>> /\ Len(writers) = n /\ after \in Seq(Outcomes)
        /\ after' = SubSeq(after, 1, n - 1) /\ writers' = SubSeq(writers, 1, n - 1)
        /\ state' = after[n] /\ step' = step /\ ready' = ready /\ idt' = idt
    BY <1>14 DEF Logged, SerialReturn, Innermost, tables, BootInv, SerialInv, SerialTypeOK
  <2>2. n \in Nat /\ n \in 1 .. n
    BY <2>1, LenProperties, EmptySeq
  <2>3. after' \in Seq(Outcomes) /\ Len(after') = n - 1 /\ \A i \in 1 .. n - 1 : after'[i] = after[i]
    BY <2>1, <2>2, Shorter
  <2>4. Len(writers') = n - 1
    BY <2>1, <2>2, Shorter
  <2>5. Panics' => Panics
    <3>1. DOMAIN after = 1 .. n /\ DOMAIN after' = 1 .. n - 1
      BY <2>1, <2>3, LenProperties
    <3>2. \A i \in 1 .. n - 1 : i \in 1 .. n
      BY <2>2
    <3> QED
      BY <2>1, <2>2, <2>3, <3>1, <3>2 DEF Panics
  <2> QED
    BY <2>1, <2>3, <2>4, <2>5 DEF BootInv
<1>15. ASSUME NEW v \in Vectors, Exception(v)
       PROVE  BootInv'
  <2>1. step' = step /\ ready' = ready /\ idt' = idt
    BY <1>15 DEF Exception, tables
  <2>2. CASE default_interrupt_handler(v) /\ UNCHANGED state
    BY <2>1, <2>2, MessageKeeps DEF default_interrupt_handler, Outcomes
  <2>3. CASE TargetOf(idt[v]) = IsrStubs[v] /\ Log("FATAL", "panicked") /\ UNCHANGED state
    BY <2>1, <2>3, StubsLater, MessageKeeps DEF Outcomes
  <2>4. CASE state' = "lost" /\ UNCHANGED <<serialVars, after>>
    BY <2>1, <2>4, StandsKeeps DEF serialVars
  <2> QED
    BY <1>15, <2>2, <2>3, <2>4 DEF Exception
<1> QED
  BY <1>1, <1>2, <1>3, <1>4, <1>5, <1>6, <1>7, <1>8, <1>9, <1>10, <1>11, <1>12, <1>13, <1>14, <1>15
  DEF Next, Processor

(* A panic comes only when there is a log and a terminal to write to,      *)
(* whatever the bootloader answers and whenever exceptions come.           *)
THEOREM PanicsReady == Spec => []PanicReady
<1>1. Init => SerialInv /\ BootInv
  BY SerialInitInv, BootInitInv DEF Init
<1>2. SerialInv /\ BootInv /\ [Next]_vars => SerialInv' /\ BootInv'
  BY SerialStep, BootStep, BootNextInv
<1>3. BootInv => PanicReady
  BY DEF BootInv, Panics, PanicReady
<1> QED
  BY <1>1, <1>2, <1>3, PTL DEF Spec

-----------------------------------------------------------------------------
(* The descriptor tables.                                                  *)
Loaded == [i \in 0 .. 6 |-> Segments[i + 1]]

Busy == [Loaded EXCEPT ![5].access = @ + 2]

Uses ==
  {Use("code", 0, 8), Use("data", 0, 16), Use("tss", 0, 40), Use("code", 3, 35), Use("data", 3, 27)}

(* The segments are there when the first selector is used, and the task    *)
(* state is marked by ltr; the gates are the kernel's from the step on     *)
(* that installs its table.                                                *)
TablesInv ==
  /\ selectors \subseteq Uses /\ (step <= 10 => selectors = {})
  /\ step \in 11 .. 12 => gdt = Loaded
  /\ step \in 13 .. 21 => gdt = Busy
  /\ step \in 14 .. 21 =>
       /\ DOMAIN idt = Vectors
       /\ \A v \in Vectors : idt[v] \in {Gate(DefaultHandler), Gate(IsrStubs[v])}

(* What is decoded of a descriptor is what it was made from.               *)
LEMMA SegmentDecodes ==
  /\ KindOf(Segment(ACCESS_KERNEL_CODE, FLAG_GRANULARITY_BYTE)) = "code"
  /\ RingOf(Segment(ACCESS_KERNEL_CODE, FLAG_GRANULARITY_BYTE)) = 0
  /\ KindOf(Segment(ACCESS_KERNEL_DATA, FLAG_GRANULARITY_4KB)) = "data"
  /\ RingOf(Segment(ACCESS_KERNEL_DATA, FLAG_GRANULARITY_4KB)) = 0
<1>1. /\ BitOf(154, 7) = 1 /\ BitOf(154, 4) = 1 /\ BitOf(154, 3) = 1
      /\ BitOf(146, 7) = 1 /\ BitOf(146, 4) = 1 /\ BitOf(146, 3) = 0 /\ BitOf(146, 1) = 1
  BY DEF BitOf
<1>2. (154 \div 32) % 4 = 0 /\ (146 \div 32) % 4 = 0
  OBVIOUS
<1>3. ((15 % 16) + (10 % 16) * 16) \div 16 = 10 /\ BitOf(10, 1) = 1 /\ BitOf(10, 2) = 0
  BY DEF BitOf
<1>4. /\ Segment(154, 10).access = 154 /\ Segment(146, 12).access = 146
      /\ Segment(154, 10).limit_high_flags = (15 % 16) + (10 % 16) * 16
  BY DEF Segment, gdt_create_segment_descriptor, SEGMENT_LIMIT
<1>5. KindOf(Segment(154, 10)) = "code"
  BY <1>1, <1>3, <1>4 DEF KindOf, FlagsOf
<1>6. KindOf(Segment(146, 12)) = "data"
  BY <1>1, <1>4 DEF KindOf
<1>7. RingOf(Segment(154, 10)) = 0 /\ RingOf(Segment(146, 12)) = 0
  BY <1>2, <1>4 DEF RingOf
<1> QED
  BY <1>5, <1>6, <1>7 DEF ACCESS_KERNEL_CODE, ACCESS_KERNEL_DATA, FLAG_GRANULARITY_BYTE,
                          FLAG_GRANULARITY_4KB

LEMMA AddressIs ==
  ASSUME NEW a \in Addresses
  PROVE  a \in [1 .. 4 -> Int] /\ <<a[1], a[2], a[3], a[4]>> = a
<1> DEFINE last == 2^16 - 1
<1>1. last = 65535
  OBVIOUS
<1>2. a \in [1 .. 4 -> Int]
  <2>1. a \in [1 .. 4 -> 0 .. last]
    BY Zenon DEF Addresses
  <2> HIDE DEF last
  <2>2. \A i \in 1 .. 4 : a[i] \in 0 .. last
    BY <2>1
  <2>3. \A i \in 1 .. 4 : a[i] \in Int
    BY <2>2
  <2>4. a = [i \in 1 .. 4 |-> a[i]]
    BY <2>1
  <2> QED
    BY <2>3, <2>4
<1> DEFINE b == <<a[1], a[2], a[3], a[4]>>
<1>3. b \in [1 .. 4 -> Int]
  BY <1>2
<1>4. \A i \in 1 .. 4 : i = 1 \/ i = 2 \/ i = 3 \/ i = 4
  OBVIOUS
<1>5. b[1] = a[1] /\ b[2] = a[2] /\ b[3] = a[3] /\ b[4] = a[4]
  OBVIOUS
<1> HIDE DEF b
<1>6. \A i \in 1 .. 4 : b[i] = a[i]
  BY <1>4, <1>5
<1>7. b = a
  BY <1>2, <1>3, <1>6
<1>8. <<a[1], a[2], a[3], a[4]>> = a
  BY <1>7, Zenon DEF b
<1> QED
  BY <1>2, <1>8

LEMMA GateTarget ==
  ASSUME NEW handler \in Addresses
  PROVE  TargetOf(Gate(handler)) = handler
<1>1. TargetOf(Gate(handler)) = <<handler[1], handler[2], handler[3], handler[4]>>
  BY DEF TargetOf, Gate, idt_segment_create
<1> QED
  BY <1>1, AddressIs

LEMMA TaskStateDecodes ==
  ASSUME NEW access \in {137, 139},
         NEW lower, lower = [TssLower(TssAddress, TssLimit) EXCEPT !.access = access]
  PROVE  /\ KindOf(lower) = "tss" /\ RingOf(lower) = 0
         /\ TssBase(lower, TssUpper(TssAddress)) = TssAddress
<1>1. /\ BitOf(137, 7) = 1 /\ BitOf(137, 4) = 0 /\ 137 % 16 = 9 /\ (137 \div 32) % 4 = 0
      /\ BitOf(139, 7) = 1 /\ BitOf(139, 4) = 0 /\ 139 % 16 = 11 /\ (139 \div 32) % 4 = 0
  BY DEF BitOf
<1>2. lower.access = access
  BY DEF TssLower, gdt_create_segment_descriptor
<1>3. KindOf(lower) = "tss" /\ RingOf(lower) = 0
  BY <1>1, <1>2 DEF KindOf, RingOf
<1>4. /\ lower.base_low = TssAddress[1] /\ lower.base_middle = TssAddress[2] % 256
      /\ lower.base_high = TssAddress[2] \div 256
  BY DEF TssLower, gdt_create_segment_descriptor
<1>5. TssAddress \in [1 .. 4 -> Int]
  BY AddressIs, BootAssumption
<1>6. ((TssAddress[2] \div 256) * 256) + (TssAddress[2] % 256) = TssAddress[2]
  <2>1. TssAddress[2] \in Int
    BY <1>5
  <2> QED
    BY <2>1
<1>7. TssUpper(TssAddress).limit_low = TssAddress[3] /\ TssUpper(TssAddress).base_low = TssAddress[4]
  BY DEF TssUpper
<1>8. TssBase(lower, TssUpper(TssAddress)) = <<TssAddress[1], TssAddress[2], TssAddress[3], TssAddress[4]>>
  <2> DEFINE upper == TssUpper(TssAddress)
  <2>1. upper.limit_low = TssAddress[3] /\ upper.base_low = TssAddress[4]
    BY <1>7
  <2>2. (lower.base_high * 256) + lower.base_middle = TssAddress[2]
    BY <1>4, <1>6
  <2> HIDE DEF upper
  <2>3. TssBase(lower, upper) = <<TssAddress[1], TssAddress[2], TssAddress[3], TssAddress[4]>>
    BY <1>4, <2>1, <2>2 DEF TssBase
  <2> QED
    BY <2>3 DEF upper
<1> QED
  BY <1>3, <1>8, AddressIs, BootAssumption

(* The kernel's descriptors, before and after the task state is marked.    *)
LEMMA KernelDescriptors ==
  ASSUME NEW g \in {Loaded, Busy}
  PROVE  /\ g[1] = Segment(ACCESS_KERNEL_CODE, FLAG_GRANULARITY_BYTE)
         /\ g[2] = Segment(ACCESS_KERNEL_DATA, FLAG_GRANULARITY_4KB)
         /\ g[6] = TssUpper(TssAddress)
         /\ \E access \in {137, 139} : g[5] = [TssLower(TssAddress, TssLimit) EXCEPT !.access = access]
<1> DEFINE lower == TssLower(TssAddress, TssLimit)
<1>1. /\ Loaded[1] = Segment(ACCESS_KERNEL_CODE, FLAG_GRANULARITY_BYTE)
      /\ Loaded[2] = Segment(ACCESS_KERNEL_DATA, FLAG_GRANULARITY_4KB)
      /\ Loaded[5] = lower /\ Loaded[6] = TssUpper(TssAddress) /\ DOMAIN Loaded = 0 .. 6
  BY DEF Loaded, Segments
<1>2. lower.access = 137 /\ lower = [lower EXCEPT !.access = 137]
  BY DEF TssLower, gdt_create_segment_descriptor, ACCESS_TSS
<1> HIDE DEF lower
<1>3. /\ Busy[1] = Loaded[1] /\ Busy[2] = Loaded[2] /\ Busy[6] = Loaded[6]
      /\ Busy[5] = [Loaded[5] EXCEPT !.access = Loaded[5].access + 2]
  <2> HIDE DEF Loaded
  <2> QED
    BY <1>1 DEF Busy
<1>4. Busy[5] = [lower EXCEPT !.access = 139]
  BY <1>1, <1>2, <1>3
<1>5. \E access \in {137, 139} : g[5] = [lower EXCEPT !.access = access]
  BY <1>1, <1>2, <1>4
<1> QED
  BY <1>1, <1>3, <1>5 DEF lower

LEMMA InvDecodes ==
  ASSUME step \in 1 .. 21, TablesInv
  PROVE  TablesDecode
<1>1. step \in 11 .. 21 => gdt \in {Loaded, Busy}
  BY DEF TablesInv
<1>2. ASSUME gdt \in {Loaded, Busy}
      PROVE  Fits(Use("code", 0, 8)) /\ Fits(Use("data", 0, 16)) /\ Fits(Use("tss", 0, 40))
             /\ TssBase(gdt[5], gdt[6]) = TssAddress
  <2>1. /\ KindOf(gdt[1]) = "code" /\ RingOf(gdt[1]) = 0
        /\ KindOf(gdt[2]) = "data" /\ RingOf(gdt[2]) = 0
        /\ KindOf(gdt[5]) = "tss" /\ RingOf(gdt[5]) = 0 /\ TssBase(gdt[5], gdt[6]) = TssAddress
    BY <1>2, KernelDescriptors, SegmentDecodes, TaskStateDecodes
  <2>2. /\ IndexOf(8) = 1 /\ IndexOf(16) = 2 /\ IndexOf(40) = 5
        /\ RingAsked(8) = 0 /\ RingAsked(16) = 0 /\ RingAsked(40) = 0
    BY DEF IndexOf, RingAsked
  <2> QED
    BY <2>1, <2>2 DEF Fits, Use
<1>3. ASSUME NEW use \in selectors
      PROVE  /\ use.ring = 0 => Fits(use)
             /\ use.kind = "tss" =>
                  TssBase(gdt[IndexOf(use.selector)], gdt[IndexOf(use.selector) + 1]) = TssAddress
  <2>1. gdt \in {Loaded, Busy} /\ use \in Uses
    BY <1>1, <1>3 DEF TablesInv
  <2>2. use.ring = 0 => use \in {Use("code", 0, 8), Use("data", 0, 16), Use("tss", 0, 40)}
    BY <2>1 DEF Uses, Use
  <2>3. use.kind = "tss" => use.selector = 40
    BY <2>1 DEF Uses, Use
  <2>4. IndexOf(40) = 5 /\ IndexOf(40) + 1 = 6
    BY DEF IndexOf
  <2> QED
    BY <1>2, <2>1, <2>2, <2>3, <2>4
<1>4. ASSUME NEW v \in Vectors, Past("idt_initialize")
      PROVE  /\ IsInterruptGate(idt[v]) /\ Fits(Use("code", 0, idt[v].selector))
             /\ TargetOf(idt[v]) \in {DefaultHandler, IsrStubs[v]}
  <2>1. step \in 14 .. 21
    BY <1>4, PastIs
  <2>2. PICK handler \in {DefaultHandler, IsrStubs[v]} : idt[v] = Gate(handler)
    BY <2>1 DEF TablesInv
  <2>3. handler \in Addresses
    BY BootAssumption
  <2>4. TargetOf(Gate(handler)) = handler
    BY <2>3, GateTarget
  <2>5. IsInterruptGate(Gate(handler)) /\ Gate(handler).selector = 8
    BY DEF IsInterruptGate, Gate, idt_segment_create
  <2>6. Fits(Use("code", 0, 8))
    <3>1. gdt \in {Loaded, Busy}
      BY <1>1, <2>1
    <3> QED
      BY <1>2, <3>1
  <2> QED
    BY <2>2, <2>4, <2>5, <2>6
<1> QED
  BY <1>3, <1>4 DEF TablesDecode

LEMMA TablesInitInv == Init => TablesInv
BY DEF Init, TablesInv

(* A step of _start that logs and goes on: at the place of name.           *)
LEMMA TablesGoOn ==
  ASSUME step \in 1 .. 20, step' = step + 1, TablesInv,
         step # 10 /\ step # 12 => gdt' = gdt,
         step = 10 => gdt' = Loaded,
         step = 12 => gdt' = Busy,
         step # 13 => idt' = idt,
         step = 13 => idt' = [v \in Vectors |-> Gate(DefaultHandler)],
         selectors' \subseteq Uses, step <= 10 => selectors' = selectors, step = 10 => selectors' = {}
  PROVE  TablesInv'
<1>1. selectors' \subseteq Uses /\ (step' <= 10 => selectors' = {})
  BY DEF TablesInv
<1>2. step' \in 11 .. 12 => gdt' = Loaded
  BY DEF TablesInv
<1>3. step' \in 13 .. 21 => gdt' = Busy
  BY DEF TablesInv
<1>4. step' \in 14 .. 21 => /\ DOMAIN idt' = Vectors
                            /\ \A v \in Vectors : idt'[v] \in {Gate(DefaultHandler), Gate(IsrStubs[v])}
  <2>1. CASE step = 13
    BY <2>1
  <2>2. CASE step # 13
    BY <2>2 DEF TablesInv
  <2> QED
    BY <2>1, <2>2
<1> QED
  BY <1>1, <1>2, <1>3, <1>4 DEF TablesInv

LEMMA TablesNextInv == BootInv /\ TablesInv /\ [Next]_vars => TablesInv'
<1> SUFFICES ASSUME BootInv, TablesInv, [Next]_vars PROVE TablesInv'
  OBVIOUS
<1> DEFINE Same == step' = step /\ UNCHANGED tables
<1>1. step \in 1 .. 21 /\ selectors \subseteq Uses /\ (step <= 10 => selectors = {})
  BY DEF BootInv, TablesInv
<1>2. CASE Same
  BY <1>2 DEF TablesInv, tables
<1>3. ASSUME NEW name, At(name), step' = step + 1, UNCHANGED tables,
             name \notin {"gdt_load", "ltr", "idt_initialize"}
      PROVE  TablesInv'
  <2>1. step \in 1 .. 20 /\ step # 10 /\ step # 12 /\ step # 13
    BY <1>1, <1>3, PlacesOf
  <2>2. gdt' = gdt /\ idt' = idt /\ selectors' = selectors
    BY <1>3 DEF tables
  <2> QED
    BY <1>1, <1>3, <2>1, <2>2, TablesGoOn
<1>4. CASE gdt_load
  <2>1. step = 10 /\ step' = step + 1 /\ gdt' = Loaded /\ idt' = idt /\ selectors' = selectors
    BY <1>1, <1>4, PlacesOf DEF gdt_load, Done, Loaded
  <2> QED
    BY <1>1, <2>1, TablesGoOn
<1>5. CASE gdt_reload_segments
  <2>1. step = 11 /\ gdt' = gdt /\ idt' = idt /\ step' \in {step, step + 1}
    BY <1>1, <1>5, PlacesOf DEF gdt_reload_segments, Done
  <2>2. selectors' \subseteq Uses
    BY <1>1, <1>5 DEF gdt_reload_segments, Uses
  <2>3. CASE step' = step + 1
    BY <2>1, <2>2, <2>3, TablesGoOn
  <2>4. CASE step' = step
    BY <2>1, <2>2, <2>4 DEF TablesInv
  <2> QED
    BY <2>1, <2>3, <2>4
<1>6. CASE ltr
  <2>1. step = 12 /\ step' = step + 1 /\ idt' = idt /\ gdt = Loaded
    BY <1>1, <1>6, PlacesOf DEF ltr, Done, TablesInv
  <2>2. gdt' = Busy
    BY <1>6, <2>1 DEF ltr, IndexOf, Busy
  <2>3. selectors' \subseteq Uses
    BY <1>1, <1>6 DEF ltr, Uses
  <2> QED
    BY <2>1, <2>2, <2>3, TablesGoOn
<1>7. CASE idt_initialize
  <2>1. /\ step = 13 /\ step' = step + 1 /\ gdt' = gdt /\ selectors' = selectors
        /\ idt' = [v \in Vectors |-> Gate(DefaultHandler)]
    BY <1>1, <1>7, PlacesOf DEF idt_initialize, Done
  <2> QED
    BY <1>1, <2>1, TablesGoOn
<1>8. CASE msrs
  <2>1. step = 17 /\ step' = step + 1 /\ gdt' = gdt /\ idt' = idt
    BY <1>1, <1>8, PlacesOf DEF msrs, Done
  <2>2. selectors' \subseteq Uses
    BY <1>1, <1>8 DEF msrs, Uses
  <2> QED
    BY <2>1, <2>2, TablesGoOn
<1>9. ASSUME NEW v \in Vectors, idt_set_entry(v)
      PROVE  TablesInv'
  <2>1. step = 14 /\ step' = step /\ gdt' = gdt /\ selectors' = selectors
    BY <1>1, <1>9, PlacesOf DEF idt_set_entry
  <2>2. idt' = [idt EXCEPT ![v] = Gate(IsrStubs[v])] /\ DOMAIN idt = Vectors
    BY <1>9, <2>1 DEF idt_set_entry, TablesInv
  <2>3. \A w \in Vectors : idt'[w] \in {Gate(DefaultHandler), Gate(IsrStubs[w])}
    BY <2>1, <2>2 DEF TablesInv
  <2> QED
    BY <2>1, <2>2, <2>3 DEF TablesInv
<1>10. CASE \/ loggers \/ terminal_initialize \/ isr_initialize \/ sti \/ pmm_initialize \/ greet
  <2>1. PICK name \in {"loggers", "terminal_initialize", "isr_initialize", "sti", "pmm_initialize",
                       "greet"} : At(name) /\ step' = step + 1 /\ UNCHANGED tables
    BY <1>10 DEF loggers, terminal_initialize, isr_initialize, sti, pmm_initialize, greet, Done
  <2> QED
    BY <1>3, <2>1
<1>11. ASSUME NEW request \in Requests, Check(request)
       PROVE  TablesInv'
  <2>1. request \notin {"gdt_load", "ltr", "idt_initialize"}
    <3>1. Checked = <<"revision", "framebuffer", "memory_map", "kernel_address", "kernel_file", "hhdm">>
      BY DEF Checked
    <3> QED
      BY <3>1 DEF Requests
  <2>2. At(request) /\ UNCHANGED tables /\ step' \in {step, step + 1}
    BY <1>11 DEF Check, Refuse, Done
  <2> QED
    BY <1>2, <1>3, <2>1, <2>2
<1>12. CASE limine_get_file \/ efer
  <2>1. PICK name \in {"font", "efer"} : At(name)
    BY <1>12 DEF limine_get_file, efer
  <2>2. UNCHANGED tables /\ step' \in {step, step + 1}
    BY <1>12 DEF limine_get_file, efer, Refuse, Done
  <2> QED
    BY <1>2, <1>3, <2>1, <2>2
<1>13. CASE \/ Setup \/ Device \/ Drive \/ Logged \/ hcf \/ (\E v \in Vectors : Exception(v))
            \/ UNCHANGED vars
  <2>1. Same
    BY <1>13 DEF Setup, Device, Drive, Logged, hcf, Exception, bootVars, vars
  <2> QED
    BY <1>2, <2>1
<1> QED
  BY <1>4, <1>5, <1>6, <1>7, <1>8, <1>9, <1>10, <1>11, <1>12, <1>13 DEF Next, Processor

(* Each selector of the kernel that is in use decodes to a segment of the  *)
(* kind and ring it is used for, the task register's to tss, and each gate *)
(* to a handler, whatever the vectors and wherever the linker put tss and  *)
(* the handlers.                                                           *)
THEOREM TablesAlwaysDecode == Spec => []TablesDecode
<1>1. Init => SerialInv /\ BootInv /\ TablesInv
  BY SerialInitInv, BootInitInv, TablesInitInv DEF Init
<1>2. SerialInv /\ BootInv /\ TablesInv /\ [Next]_vars => SerialInv' /\ BootInv' /\ TablesInv'
  BY SerialStep, BootStep, BootNextInv, TablesNextInv
<1>3. BootInv /\ TablesInv => TablesDecode
  BY InvDecodes DEF BootInv
<1> QED
  BY <1>1, <1>2, <1>3, PTL DEF Spec

-----------------------------------------------------------------------------
(* How a boot ends: what a handler returns to, and what has been said when *)
(* the kernel halts.  A step logs, or drives the port, or does neither.    *)
LogStep(level, follows) ==
  /\ Log(level, follows) /\ state' = state
  /\ follows \in {"halted", "panicked"} => level = "FATAL"
  /\ follows \in {"repeating", "lost"} =>
       step' = step /\ \E v \in Vectors : TargetOf(idt[v]) = DefaultHandler
  /\ \/ step' = step
     \/ step' = step + 1 /\ writers = <<>> /\ state = "running" /\ (step = 19 => level = "DEBUG")

QuietStep ==
  /\ UNCHANGED <<writers, written, after, step>>
  /\ \/ state' = state
     \/ state' = "lost" /\ (step <= 14 \/ \E v \in Vectors : TargetOf(idt[v]) # IsrStubs[v])
     \/ state' = "halted" /\ step = 20 /\ writers = <<>>

LEMMA GreetsAt19 ==
  ASSUME step \in 1 .. 21, NEW name, At(name), name # "greet"
  PROVE  step # 19
<1>1. Order[19] = "greet"
  BY DEF Order
<1> QED
  BY <1>1 DEF At

LEMMA FontAt8 ==
  ASSUME step \in 1 .. 21, At("font")
  PROVE  step = 8
<1>1. /\ Order[1] = "loggers" /\ Order[2] = "revision" /\ Order[3] = "framebuffer"
      /\ Order[4] = "memory_map" /\ Order[5] = "kernel_address" /\ Order[6] = "kernel_file"
      /\ Order[7] = "hhdm" /\ Order[9] = "terminal_initialize" /\ Order[10] = "gdt_load"
      /\ Order[11] = "gdt_reload_segments" /\ Order[12] = "ltr" /\ Order[13] = "idt_initialize"
      /\ Order[14] = "isr_initialize" /\ Order[15] = "sti" /\ Order[16] = "pmm_initialize"
      /\ Order[17] = "msrs" /\ Order[18] = "efer" /\ Order[19] = "greet" /\ Order[20] = "hcf"
  BY DEF Order
<1>2. step \in 1 .. 20 /\ Order[step] = "font"
  BY OrderIs DEF At
<1> QED
  BY <1>1, <1>2

LEMMA DoneIs ==
  ASSUME BootInv, NEW name, At(name), NEW level, Done(level), state' = state,
         level = "DEBUG" \/ name # "greet"
  PROVE  LogStep(level, "running")
BY PlacesOf, GreetsAt19 DEF BootInv, LogStep, Done

LEMMA StepKinds ==
  ASSUME BootInv, [Next]_vars
  PROVE  \/ \E level \in Levels, follows \in Outcomes : LogStep(level, follows)
         \/ QuietStep \/ Drive \/ Logged
<1> DEFINE Goal == \E level \in Levels, follows \in Outcomes : LogStep(level, follows)
<1>a. step \in 1 .. 21
  BY DEF BootInv
<1>b. /\ "INFO" \in Levels /\ "DEBUG" \in Levels /\ "FATAL" \in Levels
      /\ "running" \in Outcomes /\ "halted" \in Outcomes /\ "panicked" \in Outcomes
      /\ "repeating" \in Outcomes /\ "lost" \in Outcomes
  BY DEF Levels, Outcomes
<1>c. ASSUME NEW level \in Levels, NEW follows \in Outcomes, LogStep(level, follows)
      PROVE  Goal
  BY <1>c
<1> SUFFICES Goal \/ QuietStep \/ Drive \/ Logged
  OBVIOUS
<1> HIDE DEF Goal
<1>d. ASSUME NEW name, At(name), name # "greet", Done("INFO"), state' = state
      PROVE  Goal
  BY <1>b, <1>c, <1>d, DoneIs
<1>e. ASSUME Refuse, state' = state
      PROVE  Goal
  <2>1. LogStep("FATAL", "halted")
    BY <1>e DEF Refuse, LogStep
  <2> QED
    BY <1>b, <1>c, <2>1
<1>1. CASE \/ loggers \/ terminal_initialize \/ gdt_load \/ ltr \/ idt_initialize \/ isr_initialize
           \/ sti \/ pmm_initialize \/ msrs
  <2>1. PICK name \in {"loggers", "terminal_initialize", "gdt_load", "ltr", "idt_initialize",
                       "isr_initialize", "sti", "pmm_initialize", "msrs"} :
          At(name) /\ Done("INFO") /\ state' = state
    BY <1>1 DEF loggers, terminal_initialize, gdt_load, ltr, idt_initialize, isr_initialize, sti,
                pmm_initialize, msrs
  <2> QED
    BY <1>d, <2>1
<1>2. CASE greet
  <2>1. LogStep("DEBUG", "running")
    BY <1>2, DoneIs DEF greet
  <2> QED
    BY <1>b, <1>c, <2>1
<1>3. ASSUME NEW request \in Requests, Check(request)
      PROVE  Goal
  <2>1. request # "greet"
    <3>1. Checked = <<"revision", "framebuffer", "memory_map", "kernel_address", "kernel_file", "hhdm">>
      BY DEF Checked
    <3> QED
      BY <3>1 DEF Requests
  <2> QED
    BY <1>3, <1>d, <1>e, <2>1 DEF Check, Refuse
<1>4. CASE limine_get_file
  <2>1. At("font")
    BY <1>4 DEF limine_get_file
  <2>2. CASE Done("INFO") /\ state' = state
    BY <1>d, <2>1, <2>2
  <2>3. CASE Refuse
    BY <1>e, <2>3 DEF Refuse
  <2>4. CASE state' = "lost" /\ UNCHANGED <<serialVars, step, after>>
    <3>1. step <= 14
      BY <1>a, <2>1, FontAt8
    <3> QED
      BY <2>4, <3>1 DEF QuietStep, serialVars
  <2> QED
    BY <1>4, <2>2, <2>3, <2>4 DEF limine_get_file
<1>5. CASE gdt_reload_segments
  <2>1. At("gdt_reload_segments")
    BY <1>5 DEF gdt_reload_segments
  <2>2. CASE Done("INFO") /\ state' = state
    BY <1>d, <2>1, <2>2
  <2>3. CASE state' = "lost" /\ UNCHANGED <<serialVars, step, after>>
    <3>1. step <= 14
      BY <1>a, <2>1, PlacesOf
    <3> QED
      BY <2>3, <3>1 DEF QuietStep, serialVars
  <2> QED
    BY <1>5, <2>2, <2>3 DEF gdt_reload_segments
<1>6. CASE efer
  <2>1. At("efer") /\ state' = state
    BY <1>6 DEF efer
  <2>2. CASE Done("INFO")
    BY <1>d, <2>1, <2>2
  <2>3. CASE Log("FATAL", "panicked") /\ UNCHANGED <<step, ready>>
    <3>1. LogStep("FATAL", "panicked")
      BY <2>1, <2>3 DEF LogStep
    <3> QED
      BY <1>b, <1>c, <3>1
  <2> QED
    BY <1>6, <2>2, <2>3 DEF efer
<1>7. ASSUME NEW v \in Vectors, Exception(v)
      PROVE  Goal \/ QuietStep
  <2>1. step' = step
    BY <1>7 DEF Exception
  <2>2. CASE /\ TargetOf(idt[v]) = DefaultHandler
             /\ default_interrupt_handler(v) /\ UNCHANGED state
    <3>1. PICK follows \in {"lost", "running", "repeating"} : Log("INFO", follows)
      BY <2>2 DEF default_interrupt_handler
    <3>2. LogStep("INFO", follows)
      BY <2>1, <2>2, <3>1 DEF LogStep
    <3> QED
      BY <1>b, <1>c, <3>2
  <2>3. CASE Log("FATAL", "panicked") /\ UNCHANGED state
    <3>1. LogStep("FATAL", "panicked")
      BY <2>1, <2>3 DEF LogStep
    <3> QED
      BY <1>b, <1>c, <3>1
  <2>4. CASE /\ TargetOf(idt[v]) \notin {DefaultHandler, IsrStubs[v]}
             /\ state' = "lost" /\ UNCHANGED <<serialVars, after>>
    BY <2>1, <2>4 DEF QuietStep, serialVars
  <2> QED
    BY <1>7, <2>2, <2>3, <2>4 DEF Exception
<1>8. CASE hcf
  <2>1. step = 20 /\ writers = <<>>
    BY <1>8, <1>a, OrderIs DEF hcf, At
  <2> QED
    BY <1>8, <2>1 DEF hcf, QuietStep, serialVars
<1>9. CASE Setup \/ Device \/ (\E v \in Vectors : idt_set_entry(v)) \/ UNCHANGED vars
  BY <1>9 DEF Setup, Device, idt_set_entry, serial_initialize, Transmit, bootVars, serialVars, vars,
              QuietStep
<1> QED
  BY <1>1, <1>2, <1>3, <1>4, <1>5, <1>6, <1>7, <1>8, <1>9 DEF Next, Processor

-----------------------------------------------------------------------------
(* Handlers that return to the fault.                                      *)
StubsSet == step > 14 => \A v \in Vectors : idt[v] = Gate(IsrStubs[v])

(* The boot goes astray, or will when a message is out.                    *)
Strays(end) == state = end \/ \E i \in DOMAIN after : after[i] = end

(* A handler that returns to a fault, or to an error code, was called in   *)
(* the step that replaces the default handlers.                            *)
AstrayInv ==
  /\ StubsSet
  /\ Strays("repeating") => step = 14
  /\ Strays("lost") => step <= 14

LEMMA StubsSetNext ==
  ASSUME BootInv, StubsSet, [Next]_vars
  PROVE  StubsSet'
<1>a. step \in 1 .. 21
  BY DEF BootInv
<1>1. CASE idt' = idt /\ step' = step
  BY <1>1 DEF StubsSet
<1>2. ASSUME NEW name, At(name), Done("INFO") \/ Done("DEBUG"), idt' = idt, name # "isr_initialize"
      PROVE  StubsSet'
  <2>1. step # 14 /\ step' = step + 1
    BY <1>2, <1>a, PlacesOf DEF Done
  <2> QED
    BY <1>2, <1>a, <2>1 DEF StubsSet
<1>3. CASE isr_initialize
  BY <1>3 DEF isr_initialize, tables, StubsSet
<1>4. CASE idt_initialize
  <2>1. step = 13 /\ step' = step + 1
    BY <1>4, <1>a, PlacesOf DEF idt_initialize, Done
  <2> QED
    BY <2>1 DEF StubsSet
<1>5. ASSUME NEW v \in Vectors, idt_set_entry(v)
      PROVE  StubsSet'
  <2>1. step = 14 /\ step' = step
    BY <1>5, <1>a, PlacesOf DEF idt_set_entry
  <2> QED
    BY <2>1 DEF StubsSet
<1>6. CASE \/ loggers \/ terminal_initialize \/ gdt_load \/ ltr \/ sti \/ pmm_initialize \/ msrs \/ greet
  <2>1. PICK name \in {"loggers", "terminal_initialize", "gdt_load", "ltr", "sti", "pmm_initialize",
                       "msrs", "greet"} :
          At(name) /\ (Done("INFO") \/ Done("DEBUG")) /\ idt' = idt
    BY <1>6 DEF loggers, terminal_initialize, gdt_load, ltr, sti, pmm_initialize, msrs, greet, tables
  <2> QED
    BY <1>2, <2>1
<1>7. ASSUME NEW request \in Requests, Check(request)
      PROVE  StubsSet'
  <2>1. request # "isr_initialize"
    <3>1. Checked = <<"revision", "framebuffer", "memory_map", "kernel_address", "kernel_file", "hhdm">>
      BY DEF Checked
    <3> QED
      BY <3>1 DEF Requests
  <2> QED
    BY <1>1, <1>2, <1>7, <2>1 DEF Check, Refuse, tables
<1>8. CASE limine_get_file \/ gdt_reload_segments \/ efer
  <2>1. PICK name \in {"font", "gdt_reload_segments", "efer"} : At(name)
    BY <1>8 DEF limine_get_file, gdt_reload_segments, efer
  <2>2. idt' = idt /\ (Done("INFO") \/ step' = step)
    BY <1>8 DEF limine_get_file, gdt_reload_segments, efer, Refuse, tables
  <2> QED
    BY <1>1, <1>2, <2>1, <2>2
<1>9. CASE \/ Setup \/ Device \/ Drive \/ Logged \/ hcf \/ (\E v \in Vectors : Exception(v))
           \/ UNCHANGED vars
  <2>1. idt' = idt /\ step' = step
    BY <1>9 DEF Setup, Device, Drive, Logged, hcf, Exception, bootVars, tables, vars
  <2> QED
    BY <1>1, <2>1
<1> QED
  BY <1>3, <1>4, <1>5, <1>6, <1>7, <1>8, <1>9 DEF Next, Processor

(* A gate leads to the default handler only in that step.                  *)
LEMMA DefaultOnly ==
  ASSUME BootInv, StubsSet, NEW v \in Vectors, TargetOf(idt[v]) = DefaultHandler
  PROVE  step = 14
<1>1. step \in 1 .. 21
  BY DEF BootInv
<1>2. CASE step < 14
  <2>1. idt[v] = idt_segment_create(Nowhere, 40, 142, 0)
    BY <1>2 DEF BootInv
  <2>2. TargetOf(idt[v]) = Nowhere
    BY <2>1 DEF TargetOf, idt_segment_create, Nowhere
  <2> QED
    BY <2>2, BootAssumption
<1>3. CASE step > 14
  <2>1. idt[v] = Gate(IsrStubs[v])
    BY <1>3 DEF StubsSet
  <2>2. IsrStubs[v] \in Addresses /\ IsrStubs[v] # DefaultHandler
    BY BootAssumption
  <2> QED
    BY <2>1, <2>2, GateTarget
<1> QED
  BY <1>1, <1>2, <1>3

(* The stubs are the gates' in every step after it.                        *)
LEMMA OthersEarly ==
  ASSUME BootInv, StubsSet, NEW v \in Vectors, TargetOf(idt[v]) # IsrStubs[v]
  PROVE  step <= 14
<1>1. step \in 1 .. 21
  BY DEF BootInv
<1>2. CASE step > 14
  <2>1. idt[v] = Gate(IsrStubs[v])
    BY <1>2 DEF StubsSet
  <2>2. IsrStubs[v] \in Addresses
    BY BootAssumption
  <2> QED
    BY <2>1, <2>2, GateTarget
<1> QED
  BY <1>1, <1>2

LEMMA AstrayNext ==
  ASSUME SerialInv, BootInv, AstrayInv, [Next]_vars
  PROVE  AstrayInv'
<1>1. StubsSet'
  BY StubsSetNext DEF AstrayInv
<1>2. /\ writers \in Seq(Writers) /\ after \in Seq(Outcomes) /\ Len(after) = Len(writers)
      /\ DOMAIN after = 1 .. Len(after) /\ Len(after) \in Nat
  BY LenProperties DEF SerialInv, SerialTypeOK, BootInv
<1>3. ASSUME NEW level \in Levels, NEW follows \in Outcomes, LogStep(level, follows),
             NEW end \in {"repeating", "lost"}
      PROVE  Strays(end)' => step' = step /\ (Strays(end) \/ step = 14)
  <2>1. after' = Append(after, follows) /\ state' = state
    BY <1>3 DEF LogStep, Log
  <2>2. /\ DOMAIN after' = 1 .. Len(after) + 1 /\ after'[Len(after) + 1] = follows
        /\ \A i \in 1 .. Len(after) : after'[i] = after[i]
    BY <1>2, <2>1, AppendProperties, LenProperties
  <2>3. Strays(end)' => Strays(end) \/ follows = end
    <3>1. \A i \in 1 .. Len(after) + 1 : i \in 1 .. Len(after) \/ i = Len(after) + 1
      BY <1>2
    <3> QED
      BY <1>2, <2>1, <2>2, <3>1 DEF Strays
  <2>4. CASE follows = end
    <3>1. step' = step /\ \E v \in Vectors : TargetOf(idt[v]) = DefaultHandler
      BY <1>3, <2>4 DEF LogStep
    <3>2. step = 14
      BY <3>1, DefaultOnly DEF AstrayInv
    <3> QED
      BY <3>1, <3>2
  <2>5. CASE follows # end /\ step' = step
    BY <2>3, <2>5
  <2>6. CASE follows # end /\ writers = <<>> /\ state = "running"
    <3>1. DOMAIN after = {}
      BY <1>2, <2>6
    <3> QED
      BY <2>3, <2>6, <3>1 DEF Strays
  <2> QED
    BY <1>3, <2>4, <2>5, <2>6 DEF LogStep
<1>4. CASE QuietStep \/ Drive
  <2>1. step' = step /\ after' = after /\ (state' = state \/ state' # "repeating")
    BY <1>4 DEF QuietStep, Drive, bootVars
  <2>2. state' # "lost" \/ state' = state \/ step <= 14
    BY <1>4, OthersEarly DEF QuietStep, Drive, bootVars, AstrayInv
  <2>3. Strays("repeating")' => Strays("repeating")
    BY <2>1 DEF Strays
  <2>4. Strays("lost")' => Strays("lost") \/ step <= 14
    BY <2>1, <2>2 DEF Strays
  <2> QED
    BY <1>1, <2>1, <2>3, <2>4 DEF AstrayInv
<1>5. CASE Logged
  <2> DEFINE n == Len(after)
  <2>1. /\ writers # <<>> /\ after' = SubSeq(after, 1, n - 1) /\ state' = after[n] /\ step' = step
    BY <1>5 DEF Logged, SerialReturn
  <2>2. n \in 1 .. n
    BY <1>2, <2>1, EmptySeq
  <2>3. /\ after' \in Seq(Outcomes) /\ Len(after') = n - 1
        /\ \A i \in 1 .. n - 1 : after'[i] = after[i]
    BY <1>2, <2>1, <2>2, Shorter
  <2>4. ASSUME NEW end, Strays(end)'
        PROVE  Strays(end)
    <3>1. DOMAIN after' = 1 .. n - 1
      BY <2>3, LenProperties
    <3>2. \A i \in 1 .. n - 1 : i \in 1 .. n
      BY <2>2
    <3> QED
      BY <1>2, <2>1, <2>2, <2>3, <2>4, <3>1, <3>2 DEF Strays
  <2> QED
    BY <1>1, <2>1, <2>4 DEF AstrayInv
<1>6. ASSUME NEW level \in Levels, NEW follows \in Outcomes, LogStep(level, follows)
      PROVE  AstrayInv'
  <2>1. step \in 1 .. 21
    BY DEF BootInv
  <2>2. Strays("repeating")' => step' = step /\ (Strays("repeating") \/ step = 14)
    BY <1>3, <1>6
  <2>3. Strays("lost")' => step' = step /\ (Strays("lost") \/ step = 14)
    BY <1>3, <1>6
  <2> QED
    BY <1>1, <2>1, <2>2, <2>3 DEF AstrayInv
<1> QED
  BY <1>4, <1>5, <1>6, StepKinds

(* A handler returns to its fault again and again only while               *)
(* isr_initialize replaces the default handlers, and the boot is lost only *)
(* before it is done, for every set of vectors and every placement of      *)
(* handlers.  This is what BootEnds says of safety.                        *)
THEOREM AstrayOnlyEarly == Spec => []AstrayEarly
<1>1. Init => SerialInv /\ BootInv
  BY SerialInitInv, BootInitInv DEF Init
<1>2. Init => AstrayInv
  BY DEF Init, AstrayInv, StubsSet, Strays
<1>3. SerialInv /\ BootInv /\ AstrayInv /\ [Next]_vars => SerialInv' /\ BootInv' /\ AstrayInv'
  BY SerialStep, BootStep, BootNextInv, AstrayNext
<1>4. BootInv /\ AstrayInv => AstrayEarly
  <2> SUFFICES ASSUME BootInv, AstrayInv PROVE AstrayEarly
    OBVIOUS
  <2>1. step \in 1 .. 21
    BY DEF BootInv
  <2> QED
    BY <2>1, PastIs DEF AstrayInv, Strays, AstrayEarly
<1> QED
  BY <1>1, <1>2, <1>3, <1>4, PTL DEF Spec

-----------------------------------------------------------------------------
(* What has been said when the kernel halts.                               *)
Explained == \E i \in DOMAIN written : written[i] \in {"FATAL", "DEBUG"}

(* A writer that is followed by a halt has still to write why, or has done *)
(* so; and from the greeting on, that is written or under way.             *)
SaidInv ==
  /\ \A i \in DOMAIN after :
       after[i] \in {"halted", "panicked"} => writers[i].text = <<"FATAL">> \/ Explained
  /\ step > 19 => Explained \/ \E i \in DOMAIN writers : writers[i].text = <<"DEBUG">>
  /\ state \in {"halted", "panicked"} => Explained

LEMMA SaidLog ==
  ASSUME SerialInv, BootInv, SaidInv, NEW level \in Levels, NEW follows \in Outcomes,
         LogStep(level, follows)
  PROVE  SaidInv'
<1> DEFINE new == [text |-> <<level>>, polled |-> FALSE]
           n == Len(writers)
<1>1. /\ writers' = Append(writers, new) /\ after' = Append(after, follows)
      /\ written' = written /\ state' = state
  BY DEF LogStep, Log, serial_write_string
<1>2. /\ writers \in Seq(Writers) /\ after \in Seq(Outcomes) /\ Len(after) = n /\ n \in Nat
      /\ DOMAIN writers = 1 .. n /\ DOMAIN after = 1 .. n /\ step \in 1 .. 21
  BY LenProperties DEF SerialInv, SerialTypeOK, BootInv
<1>3. /\ new \in Writers /\ new.text = <<level>>
  <2>1. <<level>> \in Seq(Characters)
    BY BootAssumption
  <2> QED
    BY <2>1 DEF Writers
<1> HIDE DEF new
<1>4. /\ DOMAIN after' = 1 .. n + 1 /\ after'[n + 1] = follows
      /\ \A i \in 1 .. n : after'[i] = after[i]
  BY <1>1, <1>2, AppendProperties, LenProperties
<1>5. /\ DOMAIN writers' = 1 .. n + 1 /\ writers'[n + 1] = new
      /\ \A i \in 1 .. n : writers'[i] = writers[i]
  BY <1>1, <1>2, <1>3, AppendProperties, LenProperties
<1>6. Explained' <=> Explained
  BY <1>1 DEF Explained
<1> HIDE DEF n
<1>7. ASSUME NEW i \in DOMAIN after', after'[i] \in {"halted", "panicked"}
      PROVE  writers'[i].text = <<"FATAL">> \/ Explained'
  <2>1. CASE i = n + 1
    <3>1. level = "FATAL"
      BY <1>4, <1>7, <2>1 DEF LogStep
    <3> QED
      BY <1>3, <1>5, <2>1, <3>1
  <2>2. CASE i \in 1 .. n
    BY <1>2, <1>4, <1>5, <1>6, <1>7, <2>2 DEF SaidInv
  <2>3. i = n + 1 \/ i \in 1 .. n
    BY <1>2, <1>4
  <2> QED
    BY <2>1, <2>2, <2>3
<1>8. ASSUME step' > 19
      PROVE  Explained' \/ \E i \in DOMAIN writers' : writers'[i].text = <<"DEBUG">>
  <2>1. CASE step > 19
    <3>1. \A i \in 1 .. n : i \in 1 .. n + 1
      BY <1>2
    <3> QED
      BY <1>2, <1>5, <1>6, <2>1, <3>1 DEF SaidInv
  <2>2. CASE step <= 19
    <3>1. step = 19 /\ level = "DEBUG"
      BY <1>2, <1>8, <2>2 DEF LogStep
    <3>2. n + 1 \in DOMAIN writers' /\ writers'[n + 1].text = <<"DEBUG">>
      BY <1>2, <1>3, <1>5, <3>1
    <3> QED
      BY <3>2
  <2> QED
    BY <1>2, <2>1, <2>2
<1>9. state' \in {"halted", "panicked"} => Explained'
  BY <1>1, <1>6 DEF SaidInv
<1> QED
  BY <1>7, <1>8, <1>9 DEF SaidInv

LEMMA SaidDrive ==
  ASSUME SerialInv, BootInv, SaidInv, Drive
  PROVE  SaidInv'
<1> DEFINE n == Len(writers)
<1>1. step' = step /\ after' = after /\ state' = state
  BY DEF Drive, bootVars
<1>2. /\ writers \in Seq(Writers) /\ Len(after) = n /\ n \in Nat /\ after \in Seq(Outcomes)
      /\ DOMAIN writers = 1 .. n /\ DOMAIN after = 1 .. n /\ written \in Seq(Characters)
  BY LenProperties DEF SerialInv, SerialTypeOK, BootInv
<1>3. CASE Poll
  <2>1. writers' = [writers EXCEPT ![n].polled = TRUE] /\ written' = written
    BY <1>3 DEF Poll, Innermost
  <2>2. \A i \in 1 .. n : writers[i] \in Writers
    BY <1>2
  <2>3. DOMAIN writers' = 1 .. n /\ \A i \in 1 .. n : writers'[i].text = writers[i].text
    BY <1>2, <2>1, <2>2 DEF Writers
  <2>4. Explained' <=> Explained
    BY <2>1 DEF Explained
  <2> HIDE DEF n
  <2> QED
    BY <1>1, <1>2, <2>3, <2>4 DEF SaidInv
<1>4. CASE WriteCharacter
  <2> DEFINE c == Head(writers[n].text)
             rest == [text |-> Tail(writers[n].text), polled |-> FALSE]
  <2>1. /\ writers' = [writers EXCEPT ![n] = rest] /\ written' = Append(written, c)
        /\ writers # <<>> /\ writers[n].polled
    BY <1>4 DEF WriteCharacter, Innermost, running
  <2>2. n \in 1 .. n
    <3>1. n # 0
      BY <1>2, <2>1, EmptySeq, Zenon
    <3> HIDE DEF n
    <3> QED
      BY <1>2, <3>1
  <2>3. DOMAIN writers' = 1 .. n /\ \A i \in 1 .. n : i # n => writers'[i] = writers[i]
    BY <1>2, <2>1, Zenon
  <2>4. c \in Characters
    <3>1. writers[n] \in Writers /\ n \in Polled
      BY <1>2, <2>1, <2>2 DEF Polled, PolledOf
    <3>2. writers[n].text \in Seq(Characters) /\ writers[n].text # <<>>
      BY <3>1 DEF Writers, SerialInv, Room
    <3> QED
      BY <3>2
  <2> HIDE DEF c, rest
  <2>5. /\ DOMAIN written' = 1 .. Len(written) + 1 /\ written'[Len(written) + 1] = c
        /\ DOMAIN written = 1 .. Len(written) /\ Len(written) \in Nat
        /\ \A i \in 1 .. Len(written) : written'[i] = written[i]
    BY <1>2, <2>1, <2>4, AppendProperties, LenProperties
  <2>6. Explained => Explained'
    <3>1. \A i \in 1 .. Len(written) : i \in 1 .. Len(written) + 1
      BY <2>5
    <3> QED
      BY <2>5, <3>1 DEF Explained
  <2>7. c \in {"FATAL", "DEBUG"} => Explained'
    <3>1. Len(written) + 1 \in 1 .. Len(written) + 1
      BY <2>5
    <3> QED
      BY <2>5, <3>1 DEF Explained
  <2>8. writers[n].text \in {<<"FATAL">>, <<"DEBUG">>} => Explained'
    BY <2>7 DEF c
  <2> HIDE DEF n
  <2>9. ASSUME NEW i \in DOMAIN after', after'[i] \in {"halted", "panicked"}
        PROVE  writers'[i].text = <<"FATAL">> \/ Explained'
    <3>1. i \in 1 .. n /\ (writers[i].text = <<"FATAL">> \/ Explained)
      BY <1>1, <1>2, <2>9 DEF SaidInv
    <3> QED
      BY <2>3, <2>6, <2>8, <3>1
  <2>10. ASSUME step' > 19
         PROVE  Explained' \/ \E i \in DOMAIN writers' : writers'[i].text = <<"DEBUG">>
    <3>1. Explained \/ \E i \in 1 .. n : writers[i].text = <<"DEBUG">>
      BY <1>1, <1>2, <2>10 DEF SaidInv
    <3> QED
      BY <2>3, <2>6, <2>8, <3>1
  <2> QED
    BY <1>1, <2>6, <2>9, <2>10 DEF SaidInv
<1> QED
  BY <1>3, <1>4 DEF Drive

LEMMA SaidLogged ==
  ASSUME SerialInv, BootInv, SaidInv, Logged
  PROVE  SaidInv'
<1> DEFINE n == Len(writers)
<1>1. /\ writers # <<>> /\ writers[n].text = <<>> /\ writers' = SubSeq(writers, 1, n - 1)
      /\ written' = written /\ after' = SubSeq(after, 1, Len(after) - 1) /\ state' = after[Len(after)]
      /\ step' = step
  BY DEF Logged, SerialReturn, Innermost, running
<1>2. /\ writers \in Seq(Writers) /\ Len(after) = n /\ n \in Nat /\ after \in Seq(Outcomes)
      /\ DOMAIN writers = 1 .. n /\ DOMAIN after = 1 .. n
  BY LenProperties DEF SerialInv, SerialTypeOK, BootInv
<1>3. n \in 1 .. n /\ n > 0 /\ \A i \in 1 .. n - 1 : i \in 1 .. n
  BY <1>1, <1>2, EmptySeq
<1>4. DOMAIN writers' = 1 .. n - 1 /\ \A i \in 1 .. n - 1 : writers'[i] = writers[i]
  BY <1>1, <1>2, <1>3, Shorter, LenProperties
<1>5. DOMAIN after' = 1 .. n - 1 /\ \A i \in 1 .. n - 1 : after'[i] = after[i]
  BY <1>1, <1>2, <1>3, Shorter, LenProperties
<1>6. Explained' <=> Explained
  BY <1>1 DEF Explained
<1>7. <<>> # <<"FATAL">> /\ <<>> # <<"DEBUG">>
  OBVIOUS
<1> HIDE DEF n
<1>8. \A i \in 1 .. n : i \in 1 .. n - 1 \/ i = n
  <2>1. n \in Nat
    BY <1>2
  <2> QED
    BY <2>1
<1>9. \A i \in DOMAIN after' :
        after'[i] \in {"halted", "panicked"} => writers'[i].text = <<"FATAL">> \/ Explained'
  BY <1>2, <1>3, <1>4, <1>5, <1>6 DEF SaidInv
<1>10. step' > 19 => Explained' \/ \E i \in DOMAIN writers' : writers'[i].text = <<"DEBUG">>
  BY <1>1, <1>2, <1>4, <1>6, <1>7, <1>8 DEF SaidInv
<1>11. state' \in {"halted", "panicked"} => Explained'
  BY <1>1, <1>2, <1>3, <1>6, <1>7 DEF SaidInv
<1> QED
  BY <1>9, <1>10, <1>11 DEF SaidInv

LEMMA SaidQuiet ==
  ASSUME SerialInv, SaidInv, QuietStep
  PROVE  SaidInv'
<1>1. writers' = writers /\ written' = written /\ after' = after /\ step' = step
  BY DEF QuietStep
<1>2. Explained' <=> Explained
  BY <1>1 DEF Explained
<1>3. state' \in {"halted", "panicked"} => Explained'
  <2>1. CASE state' = state \/ state' = "lost"
    BY <1>2, <2>1 DEF SaidInv
  <2>2. CASE step = 20 /\ writers = <<>>
    <3>1. DOMAIN writers = {}
      BY <2>2
    <3> QED
      BY <1>2, <2>2, <3>1 DEF SaidInv
  <2> QED
    BY <2>1, <2>2 DEF QuietStep
<1> QED
  BY <1>1, <1>2, <1>3 DEF SaidInv

(* When the kernel halts, its greeting or a fatal message has been written *)
(* to the port, whatever the bootloader answers and whenever exceptions    *)
(* come.  That it then comes out is the device's part of HaltsExplained.   *)
THEOREM HaltsHaveReasons ==
  Spec => [](state \in {"halted", "panicked"} => \E i \in DOMAIN written : written[i] \in {"FATAL", "DEBUG"})
<1>1. Init => SerialInv /\ BootInv
  BY SerialInitInv, BootInitInv DEF Init
<1>2. Init => SaidInv
  BY DEF Init, SaidInv
<1>3. SerialInv /\ BootInv /\ SaidInv /\ [Next]_vars => SaidInv'
  BY StepKinds, SaidLog, SaidDrive, SaidLogged, SaidQuiet
<1>4. SerialInv /\ BootInv /\ [Next]_vars => SerialInv' /\ BootInv'
  BY SerialStep, BootStep, BootNextInv
<1>5. SaidInv => (state \in {"halted", "panicked"} => Explained)
  BY DEF SaidInv
<1>6. Spec => [](state \in {"halted", "panicked"} => Explained)
  BY <1>1, <1>2, <1>3, <1>4, <1>5, PTL DEF Spec
<1> QED
  BY <1>6 DEF Explained

-----------------------------------------------------------------------------
(* What is left of a boot.  Either it will stop where it is, or it has all *)
(* the steps ahead.                                                        *)
Ending == state # "running" \/ \E i \in DOMAIN after : after[i] # "running"

Ahead == (21 - step) + (7 - setup) + (IF Ending THEN 0 ELSE 1)

Unset == {v \in Vectors : idt[v] # Gate(IsrStubs[v])}

TextLeft == IF writers = <<>> THEN 0 ELSE Len(running.text)

PollLeft == IF writers = <<>> \/ running.polled THEN 0 ELSE 1

(* First exceptions, then steps of _start, then entries of the table, then *)
(* of the messages under way the calls, the characters of the innermost,   *)
(* its poll, and what the device holds.                                    *)
Remaining ==
  <<MaxExceptions - exceptions, Ahead, Cardinality(Unset),
    Len(writers), TextLeft, PollLeft, Len(uart.holding)>>

Precedes(m, n) ==
  \E i \in DOMAIN n : m[i] < n[i] /\ \A j \in 1 .. i - 1 : m[j] = n[j]

CountsInv == exceptions \in 0 .. MaxExceptions /\ DOMAIN idt = Vectors

LEMMA CountsNext ==
  ASSUME CountsInv, [Next]_vars
  PROVE  CountsInv'
<1>1. exceptions' = exceptions \/ (exceptions < MaxExceptions /\ exceptions' = exceptions + 1)
  BY DEF Next, Processor, Setup, loggers, Check, limine_get_file, terminal_initialize, gdt_load,
         gdt_reload_segments, ltr, idt_initialize, idt_set_entry, isr_initialize, sti,
         pmm_initialize, msrs, efer, greet, hcf, Drive, Logged, Device, Exception, bootVars, vars
<1>2. \/ idt' = idt \/ idt' = [v \in Vectors |-> Gate(DefaultHandler)]
      \/ \E v \in Vectors : idt' = [idt EXCEPT ![v] = Gate(IsrStubs[v])]
  BY DEF Next, Processor, Setup, loggers, Check, limine_get_file, terminal_initialize, gdt_load,
         gdt_reload_segments, ltr, idt_initialize, idt_set_entry, isr_initialize, sti, tables,
         pmm_initialize, msrs, efer, greet, hcf, Drive, Logged, Device, Exception, bootVars, vars
<1>3. DOMAIN idt' = Vectors
  BY <1>2 DEF CountsInv
<1> QED
  BY <1>1, <1>3, BootAssumption DEF CountsInv

LEMMA UnsetFinite ==
  /\ IsFiniteSet(Unset) /\ Cardinality(Unset) \in Nat
<1>1. IsFiniteSet(0 .. 31)
  <2>1. 0 \in Int /\ 31 \in Int
    OBVIOUS
  <2> QED
    BY <2>1, FS_Interval, Zenon
<1>2. Unset \subseteq 0 .. 31
  BY BootAssumption DEF Unset
<1> QED
  BY <1>1, <1>2, FS_Subset, FS_CardinalityType

LEMMA RemainingTypes ==
  ASSUME SerialInv, BootInv, CountsInv
  PROVE  /\ MaxExceptions - exceptions \in Nat /\ Ahead \in Nat /\ Cardinality(Unset) \in Nat
         /\ Len(writers) \in Nat /\ TextLeft \in Nat /\ PollLeft \in Nat /\ Len(uart.holding) \in Nat
<1>1. MaxExceptions - exceptions \in Nat
  BY BootAssumption DEF CountsInv
<1>2. Ahead \in Nat
  BY DEF Ahead, BootInv, SerialInv, SerialTypeOK
<1>3. /\ writers \in Seq(Writers) /\ uart.holding \in Seq(Characters)
      /\ Len(writers) \in Nat /\ Len(uart.holding) \in Nat
  BY LenProperties DEF SerialInv, SerialTypeOK, Devices
<1>4. TextLeft \in Nat
  <2>1. CASE writers = <<>>
    BY <2>1 DEF TextLeft
  <2>2. CASE writers # <<>>
    <3>1. Len(writers) \in 1 .. Len(writers)
      BY <1>3, <2>2, EmptySeq
    <3>2. running \in Writers
      BY <1>3, <3>1, ElementOfSeq DEF running, Innermost
    <3> QED
      BY <2>2, <3>2, LenProperties DEF TextLeft, Writers
  <2> QED
    BY <2>1, <2>2
<1>5. PollLeft \in Nat
  BY DEF PollLeft
<1> QED
  BY <1>1, <1>2, <1>3, <1>4, <1>5, UnsetFinite

(* The places of Remaining one by one.                                     *)
LEMMA Fewer ==
  ASSUME \/ MaxExceptions - exceptions' < MaxExceptions - exceptions
         \/ /\ exceptions' = exceptions
            /\ \/ Ahead' < Ahead
               \/ /\ Ahead' = Ahead
                  /\ \/ Cardinality(Unset)' < Cardinality(Unset)
                     \/ /\ Cardinality(Unset)' = Cardinality(Unset)
                        /\ \/ Len(writers)' < Len(writers)
                           \/ /\ Len(writers)' = Len(writers)
                              /\ \/ TextLeft' < TextLeft
                                 \/ /\ TextLeft' = TextLeft
                                    /\ \/ PollLeft' < PollLeft
                                       \/ /\ PollLeft' = PollLeft
                                          /\ Len(uart.holding)' < Len(uart.holding)
  PROVE  Precedes(Remaining', Remaining)
<1> DEFINE m == Remaining'
           n == Remaining
<1>1. /\ DOMAIN n = 1 .. 7
      /\ n[1] = MaxExceptions - exceptions /\ n[2] = Ahead /\ n[3] = Cardinality(Unset)
      /\ n[4] = Len(writers) /\ n[5] = TextLeft /\ n[6] = PollLeft /\ n[7] = Len(uart.holding)
  BY DEF Remaining
<1>2. /\ m[1] = MaxExceptions - exceptions' /\ m[2] = Ahead' /\ m[3] = Cardinality(Unset)'
      /\ m[4] = Len(writers)' /\ m[5] = TextLeft' /\ m[6] = PollLeft' /\ m[7] = Len(uart.holding)'
  BY DEF Remaining
<1>3. \/ m[1] < n[1]
      \/ m[1] = n[1] /\ m[2] < n[2]
      \/ m[1] = n[1] /\ m[2] = n[2] /\ m[3] < n[3]
      \/ m[1] = n[1] /\ m[2] = n[2] /\ m[3] = n[3] /\ m[4] < n[4]
      \/ m[1] = n[1] /\ m[2] = n[2] /\ m[3] = n[3] /\ m[4] = n[4] /\ m[5] < n[5]
      \/ m[1] = n[1] /\ m[2] = n[2] /\ m[3] = n[3] /\ m[4] = n[4] /\ m[5] = n[5] /\ m[6] < n[6]
      \/ /\ m[1] = n[1] /\ m[2] = n[2] /\ m[3] = n[3] /\ m[4] = n[4] /\ m[5] = n[5] /\ m[6] = n[6]
         /\ m[7] < n[7]
  BY <1>1, <1>2
<1> HIDE DEF m, n
<1>4. /\ 1 .. 1 - 1 = {} /\ 1 .. 2 - 1 = {1} /\ 1 .. 3 - 1 = {1, 2} /\ 1 .. 4 - 1 = {1, 2, 3}
      /\ 1 .. 5 - 1 = {1, 2, 3, 4} /\ 1 .. 6 - 1 = {1, 2, 3, 4, 5}
      /\ 1 .. 7 - 1 = {1, 2, 3, 4, 5, 6}
      /\ {1, 2, 3, 4, 5, 6, 7} \subseteq 1 .. 7
  OBVIOUS
<1>5. \E i \in 1 .. 7 : m[i] < n[i] /\ \A j \in 1 .. i - 1 : m[j] = n[j]
  BY <1>3, <1>4
<1> QED
  BY <1>1, <1>5 DEF Precedes, m, n

(* A step of _start goes on, or stops the boot.                            *)
LEMMA StepAhead ==
  ASSUME SerialInv, BootInv, CountsInv, state = "running", writers = <<>>,
         exceptions' = exceptions, setup' = setup,
         step' = step + 1 \/ (step' = step /\ Ending')
  PROVE  Precedes(Remaining', Remaining)
<1>1. step \in 1 .. 21 /\ setup \in 0 .. 7 /\ Len(after) = 0 /\ after \in Seq(Outcomes)
  BY DEF BootInv, SerialInv, SerialTypeOK
<1>2. ~ Ending
  <2>1. after = <<>>
    BY <1>1, EmptySeq
  <2> QED
    BY <2>1 DEF Ending
<1>3. Ahead' < Ahead
  BY <1>1, <1>2 DEF Ahead
<1> QED
  BY <1>3, Fewer

LEMMA LastOf ==
  ASSUME BootInv, NEW level, NEW follows \in Outcomes, follows # "running", Log(level, follows)
  PROVE  Ending'
<1>1. after \in Seq(Outcomes) /\ after' = Append(after, follows)
  BY DEF BootInv, Log
<1>2. Len(after) + 1 \in DOMAIN after' /\ after'[Len(after) + 1] = follows
  BY <1>1, AppendProperties, LenProperties
<1> QED
  BY <1>2 DEF Ending

LEMMA StartAdvances ==
  ASSUME SerialInv, BootInv, CountsInv, Processor,
         ~ Setup, ~ Drive, ~ Logged, ~ \E v \in Vectors : idt_set_entry(v)
  PROVE  Precedes(Remaining', Remaining)
<1>a. /\ "halted" \in Outcomes /\ "panicked" \in Outcomes
      /\ "halted" # "running" /\ "panicked" # "running"
  BY DEF Outcomes
<1>1. exceptions' = exceptions /\ state = "running" /\ writers = <<>>
  BY DEF Processor, loggers, Check, limine_get_file, terminal_initialize, gdt_load, At,
         gdt_reload_segments, ltr, idt_initialize, isr_initialize, sti, pmm_initialize, msrs, efer,
         greet, hcf
<1>2. ASSUME NEW level, Done(level)
      PROVE  step' = step + 1 /\ setup' = setup
  BY <1>2 DEF Done, Log, serial_write_string
<1>3. ASSUME Refuse
      PROVE  step' = step /\ setup' = setup /\ Ending'
  BY <1>a, <1>3, LastOf DEF Refuse, Log, serial_write_string
<1>4. ASSUME state' # "running"
      PROVE  Ending'
  BY <1>4 DEF Ending
<1>5. setup' = setup /\ (step' = step + 1 \/ (step' = step /\ Ending'))
  <2>1. CASE \/ loggers \/ terminal_initialize \/ gdt_load \/ ltr \/ idt_initialize
             \/ isr_initialize \/ sti \/ pmm_initialize \/ msrs \/ greet
    BY <1>2, <2>1 DEF loggers, terminal_initialize, gdt_load, ltr, idt_initialize,
                      isr_initialize, sti, pmm_initialize, msrs, greet
  <2>2. CASE limine_get_file \/ \E request \in Requests : Check(request)
    BY <1>2, <1>3, <1>4, <2>2 DEF limine_get_file, Check, serialVars
  <2>3. CASE gdt_reload_segments \/ hcf
    BY <1>2, <1>4, <2>3 DEF gdt_reload_segments, hcf, serialVars
  <2>4. CASE efer
    <3>1. ASSUME Log("FATAL", "panicked")
          PROVE  Ending' /\ setup' = setup
      BY <1>a, <3>1, LastOf DEF Log, serial_write_string
    <3> QED
      BY <1>2, <2>4, <3>1 DEF efer
  <2> QED
    BY <2>1, <2>2, <2>3, <2>4 DEF Processor
<1> QED
  BY <1>1, <1>5, StepAhead

LEMMA EntryAdvances ==
  ASSUME SerialInv, BootInv, CountsInv, NEW v \in Vectors, idt_set_entry(v)
  PROVE  Precedes(Remaining', Remaining)
<1>1. /\ exceptions' = exceptions /\ Ahead' = Ahead
  BY DEF idt_set_entry, Ahead, Ending, serialVars
<1>2. Cardinality(Unset') < Cardinality(Unset)
  <2>1. v \in Unset
    BY DEF idt_set_entry, Unset
  <2>2. Unset' = Unset \ {v}
    <3>1. \A w \in Vectors : w # v => idt'[w] = idt[w]
      BY DEF idt_set_entry
    <3>2. v \notin Unset'
      <4>1. idt'[v] = Gate(IsrStubs[v])
        BY DEF idt_set_entry, CountsInv
      <4> QED
        BY <4>1 DEF Unset
    <3> QED
      BY <3>1, <3>2 DEF Unset
  <2>3. Cardinality(Unset \ {v}) = Cardinality(Unset) - 1
    BY <2>1, UnsetFinite, FS_RemoveElement, Zenon
  <2> HIDE DEF Unset
  <2> QED
    BY <2>2, <2>3, UnsetFinite
<1> QED
  BY <1>1, <1>2, Fewer

LEMMA PortAdvances ==
  ASSUME SerialInv, BootInv, CountsInv, Poll \/ WriteCharacter \/ Transmit, UNCHANGED bootVars
  PROVE  Precedes(Remaining', Remaining)
<1> DEFINE n == Len(writers)
<1>1. /\ exceptions' = exceptions /\ Ahead' = Ahead /\ Cardinality(Unset)' = Cardinality(Unset)
  BY DEF bootVars, Ahead, Ending, Unset, Poll, WriteCharacter, Transmit, tables
<1>2. writers \in Seq(Writers) /\ n \in Nat /\ uart.holding \in Seq(Characters)
  BY LenProperties DEF SerialInv, SerialTypeOK, Devices
<1>3. ASSUME writers # <<>>
      PROVE  n \in 1 .. n /\ running \in Writers /\ running = writers[n]
  <2>1. n \in 1 .. n
    BY <1>2, <1>3, EmptySeq
  <2> QED
    BY <1>2, <2>1, ElementOfSeq DEF running, Innermost
<1>4. CASE Poll
  <2>1. /\ writers # <<>> /\ ~ running.polled
        /\ writers' = [writers EXCEPT ![n] = [writers[n] EXCEPT !.polled = TRUE]]
    BY <1>4 DEF Poll, Innermost
  <2> DEFINE new == [writers[n] EXCEPT !.polled = TRUE]
  <2>2. new \in Writers /\ new.text = running.text /\ new.polled
    BY <1>3, <2>1 DEF Writers
  <2>3. writers' = [writers EXCEPT ![n] = new]
    BY <2>1
  <2> HIDE DEF new
  <2>4. writers' \in Seq(Writers) /\ Len(writers') = n /\ writers'[n] = new
    <3>1. n \in 1 .. n
      BY <1>3, <2>1
    <3> QED
      BY <1>2, <2>2, <2>3, <3>1
  <2>5. writers' # <<>> /\ running' = new
    BY <1>3, <2>1, <2>4 DEF running, Innermost
  <2>6. TextLeft' = TextLeft /\ PollLeft' = 0 /\ PollLeft = 1
    BY <2>1, <2>2, <2>5 DEF TextLeft, PollLeft
  <2> QED
    BY <1>1, <2>4, <2>6, Fewer
<1>5. CASE WriteCharacter
  <2> DEFINE rest == [text |-> Tail(running.text), polled |-> FALSE]
  <2>1. /\ writers # <<>> /\ running.polled /\ writers' = [writers EXCEPT ![n] = rest]
    BY <1>5 DEF WriteCharacter, Innermost
  <2>2. running.text # <<>> /\ running.text \in Seq(Characters)
    BY <1>3, <2>1 DEF SerialInv, Room, Polled, PolledOf, Writers
  <2>3. /\ Tail(running.text) \in Seq(Characters) /\ Len(Tail(running.text)) = Len(running.text) - 1
        /\ Len(running.text) \in Nat
    BY <2>2
  <2>4. rest \in Writers /\ rest.text = Tail(running.text)
    BY <2>3 DEF Writers
  <2> HIDE DEF rest
  <2>5. Len(writers') = n /\ writers'[n] = rest /\ writers' \in Seq(Writers)
    BY <1>2, <1>3, <2>1, <2>4
  <2>6. writers' # <<>> /\ running' = rest
    BY <1>3, <2>1, <2>5 DEF running, Innermost
  <2>7. TextLeft' < TextLeft
    <3>1. TextLeft' = Len(Tail(running.text)) /\ TextLeft = Len(running.text)
      BY <2>1, <2>4, <2>6 DEF TextLeft
    <3> QED
      BY <2>3, <3>1
  <2> QED
    BY <1>1, <2>5, <2>7, Fewer
<1>6. CASE Transmit
  <2>1. /\ uart.holding # <<>> /\ writers' = writers /\ uart'.holding = Tail(uart.holding)
    BY <1>6 DEF Transmit, SerialInv, SerialTypeOK, Devices
  <2>2. Len(uart'.holding) < Len(uart.holding)
    BY <1>2, <2>1
  <2>3. TextLeft' = TextLeft /\ PollLeft' = PollLeft
    BY <2>1 DEF TextLeft, PollLeft, running, Innermost
  <2> QED
    BY <1>1, <2>1, <2>2, <2>3, Fewer
<1> QED
  BY <1>4, <1>5, <1>6

LEMMA LoggedAdvances ==
  ASSUME SerialInv, BootInv, CountsInv, Logged
  PROVE  Precedes(Remaining', Remaining)
<1> DEFINE n == Len(writers)
<1>1. /\ writers # <<>> /\ writers' = SubSeq(writers, 1, n - 1) /\ setup' = setup
      /\ after' = SubSeq(after, 1, Len(after) - 1) /\ state' = after[Len(after)]
      /\ state = "running" /\ step' = step /\ exceptions' = exceptions /\ idt' = idt
  BY DEF Logged, SerialReturn, Innermost, tables
<1>2. /\ writers \in Seq(Writers) /\ after \in Seq(Outcomes) /\ Len(after) = n /\ n \in Nat
      /\ DOMAIN after = 1 .. n
  BY LenProperties DEF SerialInv, SerialTypeOK, BootInv
<1>3. n > 0 /\ n \in 1 .. n
  BY <1>1, <1>2, EmptySeq
<1>4. /\ Len(writers') = n - 1 /\ Len(writers') < n
      /\ DOMAIN after' = 1 .. n - 1 /\ \A i \in 1 .. n - 1 : after'[i] = after[i]
  BY <1>1, <1>2, <1>3, Shorter, LenProperties
<1> HIDE DEF n
<1>5. \A i \in 1 .. n : i \in 1 .. n - 1 \/ i = n
  BY <1>2
<1>6. \A i \in 1 .. n - 1 : i \in 1 .. n
  BY <1>2
<1>7. Ending' <=> Ending
  BY <1>1, <1>2, <1>3, <1>4, <1>5, <1>6 DEF Ending
<1>8. Ahead' = Ahead /\ Cardinality(Unset)' = Cardinality(Unset)
  BY <1>1, <1>7 DEF Ahead, Unset
<1> QED
  BY <1>1, <1>4, <1>8, Fewer DEF n

LEMMA BootAdvancesStep ==
  ASSUME SerialInv, BootInv, CountsInv, Next
  PROVE  Precedes(Remaining', Remaining)
<1>1. CASE Setup
  <2>1. exceptions' = exceptions /\ step' = step /\ setup' = setup + 1 /\ (Ending' <=> Ending)
    BY <1>1 DEF Setup, serial_initialize, bootVars, Ending
  <2>2. Ahead' < Ahead
    <3>1. step \in 1 .. 21 /\ setup \in 0 .. 7
      BY DEF BootInv, SerialInv, SerialTypeOK
    <3> QED
      BY <2>1, <3>1 DEF Ahead
  <2> QED
    BY <2>1, <2>2, Fewer
<1>2. ASSUME NEW v \in Vectors, Exception(v)
      PROVE  Precedes(Remaining', Remaining)
  <2>1. exceptions' = exceptions + 1 /\ exceptions \in Int /\ MaxExceptions \in Int
    BY <1>2, BootAssumption DEF Exception, CountsInv
  <2> QED
    BY <2>1, Fewer
<1>3. CASE Drive \/ Device
  BY <1>3, PortAdvances DEF Drive, Device
<1>4. CASE Logged
  BY <1>4, LoggedAdvances
<1>5. CASE \E v \in Vectors : idt_set_entry(v)
  BY <1>5, EntryAdvances
<1> QED
  BY <1>1, <1>2, <1>3, <1>4, <1>5, StartAdvances DEF Next

(* No boot goes on for ever, whatever the bootloader answers and whenever  *)
(* exceptions come: every step, of the processor, the device or an         *)
(* exception, leaves less, in the lexicographic order of seven natural     *)
(* numbers.  That it is not stuck in a wait for the serial port before it  *)
(* has come to an end is left to the run.                                  *)
THEOREM BootAdvances ==
  Spec => /\ [](\A i \in DOMAIN Remaining : Remaining[i] \in Nat)
          /\ [][Precedes(Remaining', Remaining)]_vars
<1>1. Init => SerialInv /\ BootInv /\ CountsInv
  <2>1. Init => CountsInv
    BY BootAssumption DEF Init, CountsInv
  <2> QED
    BY <2>1, SerialInitInv, BootInitInv DEF Init
<1>2. SerialInv /\ BootInv /\ CountsInv /\ [Next]_vars => SerialInv' /\ BootInv' /\ CountsInv'
  BY SerialStep, BootStep, BootNextInv, CountsNext
<1>3. SerialInv /\ BootInv /\ CountsInv => \A i \in DOMAIN Remaining : Remaining[i] \in Nat
  <2> SUFFICES ASSUME SerialInv, BootInv, CountsInv, NEW i \in DOMAIN Remaining
               PROVE  Remaining[i] \in Nat
    OBVIOUS
  <2>1. i \in 1 .. 7
    BY DEF Remaining
  <2> QED
    BY <2>1, RemainingTypes DEF Remaining
<1>4. SerialInv /\ BootInv /\ CountsInv /\ [Next]_vars => [Precedes(Remaining', Remaining)]_vars
  BY BootAdvancesStep
<1> QED
  BY <1>1, <1>2, <1>3, <1>4, PTL DEF Spec
=============================================================================
