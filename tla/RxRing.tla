------------------------------- MODULE RxRing -------------------------------
(***************************************************************************)
(* The receive ring of the interrupt-driven serial driver (Drive/serial.c, *)
(* struct stm32_serial_int_rx): an array, the index the interrupt handler  *)
(* saves the next character at, and the index the reader takes the next    *)
(* character from.  One slot is always unused: equal indices mean "empty". *)
(***************************************************************************)
EXTENDS UartBytes, Integers, Sequences

CONSTANT UART_INT_RX_BUFFER_SIZE   \* slots of the ring, 512 in serial.h

ASSUME RxRingAssumption == UART_INT_RX_BUFFER_SIZE \in Nat \ {0, 1}

Slots == 0 .. UART_INT_RX_BUFFER_SIZE - 1

RxRingType == [rx_buffer : [Slots -> Byte], save_index : Slots, read_index : Slots]

EmptyRing == [rx_buffer |-> [i \in Slots |-> Zero], save_index |-> 0, read_index |-> 0]

(* Mutant: the wrap is one slot late. *)
AdvanceLate(i) == IF i + 1 > UART_INT_RX_BUFFER_SIZE THEN 0 ELSE i + 1

(* An index after its increment: back to 0 past the last slot. *)
Advance(i) == IF i + 1 >= UART_INT_RX_BUFFER_SIZE THEN 0 ELSE i + 1

(* Mutant: a full ring keeps its read index and looks empty. *)
SaveCharNoDiscard(r, b) ==
  [r EXCEPT !.rx_buffer[r.save_index] = b, !.save_index = Advance(@)]

(* The handler saves a character; a full ring gives up its oldest one. *)
SaveChar(r, b) ==
  LET save == Advance(r.save_index)
  IN  [rx_buffer  |-> [r.rx_buffer EXCEPT ![r.save_index] = b],
       save_index |-> save,
       read_index |-> IF save = r.read_index THEN Advance(r.read_index) ELSE r.read_index]

HasChar(r) == r.read_index # r.save_index

(* What rt_serial_read hands out, and the ring it leaves behind. *)
NextChar(r) == r.rx_buffer[r.read_index]

ReadChar(r) == [r EXCEPT !.read_index = Advance(r.read_index)]

(* rx_length of rt_hw_serial_isr: the characters waiting in the ring. *)
RxLength(r) ==
  IF r.read_index > r.save_index
  THEN UART_INT_RX_BUFFER_SIZE - r.read_index + r.save_index
  ELSE r.save_index - r.read_index

(* The slot k places after i, round the end of the array. *)
SlotAfter(i, k) ==
  IF i + k >= UART_INT_RX_BUFFER_SIZE THEN i + k - UART_INT_RX_BUFFER_SIZE ELSE i + k

(* The waiting characters, oldest first. *)
RingContents(r) ==
  [k \in 1 .. RxLength(r) |-> r.rx_buffer[SlotAfter(r.read_index, k - 1)]]
=============================================================================
