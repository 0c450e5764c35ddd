--------------------------- MODULE EthernetDriver ---------------------------
(***************************************************************************)
(* The Ethernet driver of the air unit: the rings of descriptors that the  *)
(* DMA and the CPU hand to each other (STM32F4x7_ETH_Driver), the          *)
(* interrupt handler and the two routines of Bsp/stm32f4_eth.c, and the    *)
(* receiving and the sending thread between it and lwIP's thread           *)
(* (Lwip/src/netif/ethernetif.c).  Frames fit one descriptor.  Threads,    *)
(* interrupt and DMA take their steps in any order.                        *)
(***************************************************************************)
EXTENDS Integers, Sequences, FiniteSets

CONSTANTS
  Frame, Bad,  \* Bad: those received with an error
  NoFrame,
  Caller,            \* threads that call lwIP through its API
  RXBUFNB, TXBUFNB,  \* descriptors
  MboxSize,          \* mails in the mailbox of the receiving thread
  TCPIP_MBOX_SIZE,   \* and in that of lwIP's thread
  Budgets            \* bounds of a behaviour: [in, out], frames that come in and
                     \* frames that lwIP sends

ASSUME EthernetAssumption ==
  /\ Bad \subseteq Frame /\ NoFrame \notin Frame /\ Frame # {}
  /\ Caller \cap (Frame \cup {NoFrame}) = {}
  /\ {RXBUFNB, TXBUFNB, MboxSize, TCPIP_MBOX_SIZE} \subseteq Nat \ {0}
  /\ Budgets \subseteq [in : Nat, out : Nat]

VARIABLES
  DMARxDscrTab,   \* [own, frame] of each descriptor; own: by the DMA
  rx_dma,         \* where the DMA is in it
  DMARxDescToGet, \* where the CPU is
  rbus,           \* the DMA found no descriptor and is suspended
  irq,            \* ETH_DMA_FLAG_R
  eth_rx_mb,      \* mails
  erx,            \* where the receiving thread is
  p,              \* the frame in its pbuf
  heap,           \* what rt_malloc has a block for
  tcpip_mbox,     \* mails for lwIP's thread: a frame's message or a thread's call
  got,            \* the last frame lwIP was given
  DMATxDscrTab,   \* [own, len, buffer]
  tx_dma, DMATxDescToSet,
  tbus, fifo,     \* fifo: what the DMA has read from its descriptor
  wire,           \* the last frame sent
  tcpip, etx, msg,\* where lwIP's and the sending thread are; the frame between them
  stranded,       \* history: a frame was dropped, and none has come since
  left            \* what the bounds still allow

rxRing == <<DMARxDscrTab, rx_dma, DMARxDescToGet, rbus>>
rxRest == <<irq, eth_rx_mb, erx, p, heap, tcpip_mbox, got, stranded>>
txRing == <<DMATxDscrTab, tx_dma, DMATxDescToSet, tbus, fifo, wire>>
txRest == <<tcpip, etx, msg>>
vars == <<rxRing, rxRest, txRing, txRest, left>>

(* What the way in allocates.  memp_malloc is rt_malloc in this build      *)
(* (RT_LWIP_USING_RT_MEM): there is no pool, and what all threads of the   *)
(* unit take from the one heap decides what it has a block for; if for     *)
(* a pbuf of PBUF_POOL_BUFSIZE, then for the small message too.            *)
Blocks == {"message", "pbuf"}
Heap == {{}, {"message"}, Blocks}

(* Buffer2NextDescAddr: the descriptors are chained to a ring.             *)
NextRx(i) == (i + 1) % RXBUFNB
NextTx(i) == (i + 1) % TXBUFNB

RxDesc(o, f) == [own |-> o, frame |-> f]
TxDesc(o, l, b) == [own |-> o, len |-> l, buffer |-> b]

Init ==
  /\ DMARxDscrTab = [i \in 0 .. RXBUFNB - 1 |-> RxDesc(TRUE, NoFrame)]
  /\ rx_dma = 0 /\ DMARxDescToGet = 0 /\ rbus = FALSE
  /\ irq = FALSE /\ eth_rx_mb = 0 /\ erx = "wait" /\ p = NoFrame
  /\ heap = Blocks /\ tcpip_mbox = <<>> /\ got = NoFrame /\ stranded = FALSE
  /\ DMATxDscrTab = [i \in 0 .. TXBUFNB - 1 |-> TxDesc(FALSE, NoFrame, NoFrame)]
  /\ tx_dma = 0 /\ DMATxDescToSet = 0 /\ tbus = FALSE /\ fifo = <<>>
  /\ wire = [len |-> NoFrame, data |-> NoFrame]
  /\ tcpip = "idle" /\ etx = "wait" /\ msg = NoFrame
  /\ left \in Budgets
-----------------------------------------------------------------------------
(* The DMA receives a frame into its next descriptor. *)
DmaReceives(f) ==
  /\ left.in > 0 /\ ~rbus /\ DMARxDscrTab[rx_dma].own
  /\ DMARxDscrTab' = [DMARxDscrTab EXCEPT ![rx_dma] = RxDesc(FALSE, f)]
  /\ rx_dma' = NextRx(rx_dma)
  /\ irq' = TRUE /\ stranded' = FALSE
  /\ left' = [left EXCEPT !.in = @ - 1]
  /\ UNCHANGED <<DMARxDescToGet, rbus, eth_rx_mb, erx, p, heap, tcpip_mbox, got,
                 txRing, txRest>>

(* It has none, and waits for a poll demand; frames are lost meanwhile. *)
DmaOverruns ==
  /\ left.in > 0 /\ ~rbus /\ ~DMARxDscrTab[rx_dma].own
  /\ rbus' = TRUE
  /\ left' = [left EXCEPT !.in = @ - 1]
  /\ UNCHANGED <<DMARxDscrTab, rx_dma, DMARxDescToGet, rxRest, txRing, txRest>>

(* ETH_IRQHandler: the flag is cleared before the mail is sent; a mail     *)
(* that finds the mailbox full is lost.  A frame that comes in between     *)
(* sets the flag again.                                                    *)
Interrupt ==
  /\ irq
  /\ irq' = FALSE
  /\ eth_rx_mb' = IF eth_rx_mb = MboxSize THEN eth_rx_mb ELSE eth_rx_mb + 1
  /\ UNCHANGED <<rxRing, erx, p, heap, tcpip_mbox, got, stranded, txRing, txRest, left>>
-----------------------------------------------------------------------------
(* eth_rx_thread_entry and rt_stm32_eth_rx. *)

RxWakes ==
  /\ erx = "wait" /\ eth_rx_mb > 0
  /\ eth_rx_mb' = eth_rx_mb - 1
  /\ erx' = "get"
  /\ UNCHANGED <<rxRing, irq, p, heap, tcpip_mbox, got, stranded, txRing, txRest, left>>

(* ETH_Get_Received_Frame_interrupt finds nothing: back to the mailbox. *)
RxDone ==
  /\ erx = "get" /\ DMARxDscrTab[DMARxDescToGet].own
  /\ erx' = "wait"
  /\ UNCHANGED <<rxRing, irq, eth_rx_mb, p, heap, tcpip_mbox, got, stranded,
                 txRing, txRest, left>>

(* It finds a frame, which is copied if it has no error and the heap has   *)
(* room for a pbuf.                                                        *)
RxGets ==
  /\ erx = "get" /\ ~DMARxDscrTab[DMARxDescToGet].own
  /\ LET f == DMARxDscrTab[DMARxDescToGet].frame
     IN p' = IF f \notin Bad /\ "pbuf" \in heap THEN f ELSE NoFrame
  /\ DMARxDescToGet' = NextRx(DMARxDescToGet)
  /\ erx' = "release"
  /\ UNCHANGED <<DMARxDscrTab, rx_dma, rbus, irq, eth_rx_mb, heap, tcpip_mbox, got,
                 stranded, txRing, txRest, left>>

(* The descriptor goes back to the DMA. *)
RxReleases ==
  /\ erx = "release"
  /\ LET i == (DMARxDescToGet + RXBUFNB - 1) % RXBUFNB
     IN DMARxDscrTab' = [DMARxDscrTab EXCEPT ![i] = RxDesc(TRUE, NoFrame)]
  /\ erx' = "resume"
  /\ UNCHANGED <<rx_dma, DMARxDescToGet, rbus, irq, eth_rx_mb, p, heap, tcpip_mbox, got,
                 stranded, txRing, txRest, left>>

(* A suspended DMA is resumed.  Without a pbuf the loop ends, whatever     *)
(* else there is in the ring.                                              *)
RxResumes ==
  /\ erx = "resume"
  /\ rbus' = FALSE
  /\ erx' = IF p = NoFrame THEN "wait" ELSE "input"
  /\ stranded' = (p = NoFrame)
  /\ UNCHANGED <<DMARxDscrTab, rx_dma, DMARxDescToGet, irq, eth_rx_mb, p, heap,
                 tcpip_mbox, got, txRing, txRest, left>>

(* tcpip_input gets a message, and room in the mailbox for it: it does not *)
(* wait for either.                                                        *)
Posts == "message" \in heap /\ Len(tcpip_mbox) < TCPIP_MBOX_SIZE

(* Mutant: one frame for each mail. *)
RxInputOnce ==
  /\ erx = "input"
  /\ tcpip_mbox' = IF Posts THEN Append(tcpip_mbox, p) ELSE tcpip_mbox
  /\ p' = NoFrame /\ erx' = "wait"
  /\ UNCHANGED <<rxRing, irq, eth_rx_mb, heap, got, stranded, txRing, txRest, left>>

(* It posts the frame, or fails and the pbuf is freed; the loop goes on.   *)
RxInput ==
  /\ erx = "input"
  /\ tcpip_mbox' = IF Posts THEN Append(tcpip_mbox, p) ELSE tcpip_mbox
  /\ p' = NoFrame /\ erx' = "get"
  /\ UNCHANGED <<rxRing, irq, eth_rx_mb, heap, got, stranded, txRing, txRest, left>>

RxThread == RxWakes \/ RxDone \/ RxGets \/ RxReleases \/ RxResumes \/ RxInput
-----------------------------------------------------------------------------
(* The other threads of the unit take blocks and give them back. *)
HeapChanges(h) ==
  /\ heap' = h
  /\ UNCHANGED <<rxRing, irq, eth_rx_mb, erx, p, tcpip_mbox, got, stranded,
                 txRing, txRest, left>>

(* A thread calls lwIP, tcpip_apimsg: a mail, for which it waits until the *)
(* mailbox has room, and then until the call was handled.                  *)
Calls(t) ==
  /\ \A i \in 1 .. Len(tcpip_mbox) : tcpip_mbox[i] # t
  /\ Len(tcpip_mbox) < TCPIP_MBOX_SIZE
  /\ tcpip_mbox' = Append(tcpip_mbox, t)
  /\ UNCHANGED <<rxRing, irq, eth_rx_mb, erx, p, heap, got, stranded, txRing, txRest, left>>

(* lwIP's thread handles a mail, a frame or a call, one every 50 ms;       *)
TcpipTakes ==
  /\ tcpip = "idle" /\ tcpip_mbox # <<>>
  /\ got' = IF Head(tcpip_mbox) \in Frame THEN Head(tcpip_mbox) ELSE got
  /\ tcpip_mbox' = Tail(tcpip_mbox)
  /\ UNCHANGED <<rxRing, irq, eth_rx_mb, erx, p, heap, stranded, txRing, txRest, left>>

(* or sends one, ethernetif_linkoutput: a mail that points to the frame,   *)
(* and a wait until it was sent.                                           *)
TcpipSends(f) ==
  /\ tcpip = "idle" /\ left.out > 0
  /\ msg' = f /\ tcpip' = "ack"
  /\ left' = [left EXCEPT !.out = @ - 1]
  /\ UNCHANGED <<rxRing, rxRest, txRing, etx>>

(* eth_tx_thread_entry and rt_stm32_eth_tx: the frame is copied to the     *)
(* buffer of the next descriptor,                                          *)
TxCopies ==
  /\ etx = "wait" /\ msg # NoFrame
  /\ LET d == DMATxDscrTab[DMATxDescToSet]
     IN DMATxDscrTab' = [DMATxDscrTab EXCEPT ![DMATxDescToSet] = TxDesc(d.own, d.len, msg)]
  /\ etx' = "prepare"
  /\ UNCHANGED <<rxRing, rxRest, tx_dma, DMATxDescToSet, tbus, fifo, wire, tcpip, msg, left>>

(* Mutant: a descriptor the DMA still owns is set. *)
TxPreparesAnyway ==
  /\ etx = "prepare"
  /\ LET d == DMATxDscrTab[DMATxDescToSet]
     IN DMATxDscrTab' = [DMATxDscrTab EXCEPT ![DMATxDescToSet] = TxDesc(TRUE, msg, d.buffer)]
  /\ DMATxDescToSet' = NextTx(DMATxDescToSet)
  /\ tbus' = FALSE /\ etx' = "ack"
  /\ UNCHANGED <<rxRing, rxRest, tx_dma, fifo, wire, tcpip, msg, left>>

(* ETH_Prepare_Transmit_Descriptors: and only then is it seen whether the  *)
(* DMA still owns it; the error is printed, not returned.                  *)
TxPrepares ==
  /\ etx = "prepare"
  /\ LET d == DMATxDscrTab[DMATxDescToSet]
     IN \/ /\ d.own
           /\ UNCHANGED <<DMATxDscrTab, DMATxDescToSet, tbus>>
        \/ /\ ~d.own
           /\ DMATxDscrTab' =
                [DMATxDscrTab EXCEPT ![DMATxDescToSet] = TxDesc(TRUE, msg, d.buffer)]
           /\ DMATxDescToSet' = NextTx(DMATxDescToSet)
           /\ tbus' = FALSE
  /\ etx' = "ack"
  /\ UNCHANGED <<rxRing, rxRest, tx_dma, fifo, wire, tcpip, msg, left>>

(* rt_sem_release(tx_ack): linkoutput returns. *)
TxAcks ==
  /\ etx = "ack"
  /\ etx' = "wait" /\ tcpip' = "idle" /\ msg' = NoFrame
  /\ UNCHANGED <<rxRing, rxRest, txRing, left>>

TxThread == TxCopies \/ TxPrepares \/ TxAcks

(* The DMA reads the buffer of its descriptor, *)
DmaFetches ==
  /\ ~tbus /\ fifo = <<>> /\ DMATxDscrTab[tx_dma].own
  /\ LET d == DMATxDscrTab[tx_dma]
     IN fifo' = <<[len |-> d.len, data |-> d.buffer]>>
  /\ UNCHANGED <<rxRing, rxRest, DMATxDscrTab, tx_dma, DMATxDescToSet, tbus, wire, txRest, left>>

(* sends what it read and gives the descriptor back. *)
DmaSends ==
  /\ fifo # <<>>
  /\ wire' = Head(fifo) /\ fifo' = <<>>
  /\ LET d == DMATxDscrTab[tx_dma]
     IN DMATxDscrTab' = [DMATxDscrTab EXCEPT ![tx_dma] = TxDesc(FALSE, d.len, d.buffer)]
  /\ tx_dma' = NextTx(tx_dma)
  /\ UNCHANGED <<rxRing, rxRest, DMATxDescToSet, tbus, txRest, left>>

(* Or it finds none, and waits for a poll demand. *)
DmaStarves ==
  /\ ~tbus /\ fifo = <<>> /\ ~DMATxDscrTab[tx_dma].own
  /\ tbus' = TRUE
  /\ UNCHANGED <<rxRing, rxRest, DMATxDscrTab, tx_dma, DMATxDescToSet, fifo, wire, txRest, left>>

Next ==
  \/ \E f \in Frame : DmaReceives(f)
  \/ \E f \in Frame \ Bad : TcpipSends(f)
  \/ \E h \in Heap : HeapChanges(h)
  \/ \E t \in Caller : Calls(t)
  \/ DmaOverruns \/ Interrupt
  \/ RxThread \/ TcpipTakes \/ TxThread
  \/ DmaFetches \/ DmaSends \/ DmaStarves

(* The interrupt comes, the DMA sends, and each thread gets to run. *)
Spec ==
  /\ Init /\ [][Next]_vars
  /\ WF_vars(Interrupt) /\ WF_vars(RxThread) /\ WF_vars(TxThread)
  /\ SF_vars(TcpipTakes)
  /\ WF_vars(DmaFetches) /\ WF_vars(DmaSends)
-----------------------------------------------------------------------------
(* The frames in the receive ring, oldest first; the line that ends with   *)
(* them; and the frames to be sent.                                        *)
InRing ==
  LET at(i) == DMARxDscrTab[(DMARxDescToGet + i) % RXBUFNB]
      last == IF erx = "release" THEN RXBUFNB - 2 ELSE RXBUFNB - 1
      n == Cardinality({i \in 0 .. last : ~at(i).own})
  IN [i \in 1 .. n |-> at(i - 1).frame]

Held == IF p = NoFrame THEN <<>> ELSE <<p>>

In == tcpip_mbox \o Held \o InRing

Out ==
  LET at(i) == DMATxDscrTab[(tx_dma + i) % TXBUFNB]
      n == Cardinality({i \in 0 .. TXBUFNB - 1 : at(i).own})
      waiting == [i \in 1 .. n |-> [len |-> at(i - 1).len, data |-> at(i - 1).buffer]]
  IN IF fifo = <<>> THEN waiting ELSE fifo \o Tail(waiting)

Path == INSTANCE FramePath
          WITH InCapacity <- TCPIP_MBOX_SIZE, OutCapacity <- TXBUFNB,
               in <- In, out <- Out, scarce <- heap # Blocks

(* Frames are neither lost, doubled, reordered nor mixed up between the    *)
(* DMA and lwIP, and no call is lost, but for what FramePath allows: a     *)
(* frame is dropped while the heap is short (stm32f4_eth.c:175) or behind  *)
(* a full mailbox, calls counted (tcpip.c:215), and one that finds the     *)
(* send ring full takes the place of the oldest in it, under that one's    *)
(* length (stm32f4_eth.c:133).                                             *)
FramePathSpec == Path!PSpec

(* There is a frame on the way in. *)
Incoming == \E i \in 1 .. Len(In) : In[i] \in Frame

(* Nothing stays where it is: frames in the driver reach lwIP, although    *)
(* one interrupt may stand for several and mails may be lost, unless a     *)
(* frame was dropped and none has come since; a suspended reception is     *)
(* resumed; frames to send are sent.                                       *)
HandedOn ==
  /\ Incoming ~> ~Incoming \/ stranded
  /\ rbus ~> ~rbus
  /\ Out # <<>> ~> Out = <<>>
=============================================================================
