------------------------------- MODULE Serial -------------------------------
(***************************************************************************)
(* The serial port: the driver of src/hal/arch-x86_64/io/serial.c, and as  *)
(* much of the device, a 16550, as the driver depends on.  One processor   *)
(* runs the driver, so calls of serial_write_string do not interleave, but *)
(* an exception's handler may start one within another, between its poll   *)
(* of the device and the write that follows.                               *)
(***************************************************************************)
EXTENDS Integers, Sequences

CONSTANTS
  Characters,   \* what is written
  MaxNested     \* bound: calls within each other

(* Places of the device's FIFO.                                            *)
Places == 16

ASSUME SerialAssumption ==
  /\ MaxNested \in Nat /\ MaxNested <= Places
  /\ "garbled" \notin Characters

VARIABLES
  uart,      \* the device
  setup,     \* how much of serial_initialize is done
  writers,   \* the calls of serial_write_string, the running one last
  written,   \* history: the characters written to the device
  wire       \* what has come out of it

serialVars == <<uart, setup, writers, written, wire>>

-----------------------------------------------------------------------------
(* The device's registers, by their distance from COM1.  The first two are *)
(* the divisor while DLAB is set.                                          *)
Hold(u, c) ==
  IF Len(u.holding) < (IF u.fifo THEN Places ELSE 1)
  THEN [u EXCEPT !.holding = Append(@, c)] ELSE u

Bit(value, weight) == (value \div weight) % 2 = 1

write_byte(u, register, value) ==
  CASE register = 0 -> IF u.dlab THEN [u EXCEPT !.low = value] ELSE Hold(u, value)
    [] register = 1 -> IF u.dlab THEN [u EXCEPT !.high = value] ELSE [u EXCEPT !.interrupts = value]
    [] register = 2 -> [u EXCEPT !.fifo = Bit(value, 1),
                                 !.holding = IF Bit(value, 4) THEN <<>> ELSE @]
    [] register = 3 -> [u EXCEPT !.dlab = Bit(value, 128), !.format = value % 128]
    [] register = 4 -> [u EXCEPT !.loopback = Bit(value, 16)]

(* 38400 baud, eight bits, no parity, one stop bit.                        *)
Agreed(u) == u.low = 3 /\ u.high = 0 /\ u.format = 3

(* The next character leaves.  The other end knows it if it was sent as    *)
(* agreed.                                                                 *)
Transmit ==
  /\ uart.holding # <<>>
  /\ uart' = [uart EXCEPT !.holding = Tail(@)]
  /\ wire' = IF uart.loopback THEN wire
             ELSE Append(wire, IF Agreed(uart) THEN Head(uart.holding) ELSE "garbled")
  /\ UNCHANGED <<setup, writers, written>>

-----------------------------------------------------------------------------
(* The driver.                                                             *)
Initialization_slow ==    \* mutant: the FIFO stays off
  <<<<1, 0>>, <<3, 128>>, <<0, 3>>, <<1, 0>>, <<3, 3>>, <<2, 198>>, <<4, 11>>>>
Initialization ==
  <<<<1, 0>>, <<3, 128>>, <<0, 3>>, <<1, 0>>, <<3, 3>>, <<2, 199>>, <<4, 11>>>>

(* Firmware or bootloader may have left the device in any mode.            *)
SerialInit ==
  /\ uart \in [low : {1}, high : {0}, format : {3}, interrupts : {0}, holding : {<<>>},
               dlab : BOOLEAN, fifo : BOOLEAN, loopback : BOOLEAN]
  /\ setup = 0 /\ writers = <<>> /\ written = <<>> /\ wire = <<>>

serial_initialize ==
  /\ setup < Len(Initialization)
  /\ uart' = write_byte(uart, Initialization[setup + 1][1], Initialization[setup + 1][2])
  /\ setup' = setup + 1
  /\ UNCHANGED <<writers, written, wire>>

serial_is_transmit_empty_not(u) == u.holding # <<>>    \* mutant: the bit is taken for its opposite
serial_is_transmit_empty(u) == u.holding = <<>>

Innermost == Len(writers)

running == writers[Innermost]

(* A call, from the kernel or from the handler of an exception.            *)
serial_write_string(text) ==
  /\ setup = Len(Initialization) /\ Innermost < MaxNested
  /\ writers' = Append(writers, [text |-> text, polled |-> FALSE])
  /\ UNCHANGED <<uart, setup, written, wire>>

(* serial_write_char: the loop that waits ends, and then the character is  *)
(* written.                                                                *)
Poll ==
  /\ writers # <<>> /\ running.text # <<>> /\ ~running.polled
  /\ serial_is_transmit_empty(uart)
  /\ writers' = [writers EXCEPT ![Innermost].polled = TRUE]
  /\ UNCHANGED <<uart, setup, written, wire>>

WriteCharacter ==
  /\ writers # <<>> /\ running.polled
  /\ uart' = write_byte(uart, 0, Head(running.text))
  /\ written' = Append(written, Head(running.text))
  /\ writers' = [writers EXCEPT ![Innermost] = [text |-> Tail(running.text), polled |-> FALSE]]
  /\ UNCHANGED <<setup, wire>>

SerialReturn ==
  /\ writers # <<>> /\ running.text = <<>>
  /\ writers' = SubSeq(writers, 1, Innermost - 1)
  /\ UNCHANGED <<uart, setup, written, wire>>

(* The port by itself, whatever texts it is given.                         *)
SerialNext ==
  \/ Transmit \/ serial_initialize
  \/ \E text \in Seq(Characters) : serial_write_string(text)
  \/ Poll \/ WriteCharacter \/ SerialReturn

SerialSpec == SerialInit /\ [][SerialNext]_serialVars

-----------------------------------------------------------------------------
(* No character is lost, twice on the line, garbled or overtaken, although *)
(* the driver polls for each character and writes it in two steps, with    *)
(* room for all of those that handlers write in between.                   *)
Line == INSTANCE ReliableLine WITH sent <- written, received <- wire

LineReliable == Line!Spec
=============================================================================
