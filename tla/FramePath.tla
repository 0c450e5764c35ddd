----------------------------- MODULE FramePath -----------------------------
(***************************************************************************)
(* What the Ethernet driver promises, without descriptors, interrupts,     *)
(* mailboxes or threads: two lines of frames.  On the way in calls of      *)
(* other threads join the line, and a frame may be lost while memory is    *)
(* short or behind as many as the stack takes; on the way out a frame that *)
(* finds the line full spoils the one in front.                            *)
(***************************************************************************)
EXTENDS Naturals, Sequences, SequencesExt

CONSTANTS
  Frame,
  Bad,         \* frames received with an error
  NoFrame,
  Caller,      \* threads whose calls the stack handles in turn with the frames
  InCapacity,  \* frames and calls the stack takes before it handles them
  OutCapacity

VARIABLES
  in,    \* frames received, and calls, that the stack has not handled
  got,   \* the last frame handed to the stack
  out,   \* frames to send, [len, data]
  wire,  \* the last frame sent
  scarce \* memory is short

pvars == <<in, got, out, wire, scarce>>

(* A frame as long as l with the contents of d. *)
Cut(l, d) == [len |-> l, data |-> d]

PInit ==
  /\ in = <<>> /\ out = <<>> /\ got = NoFrame /\ wire = Cut(NoFrame, NoFrame)
  /\ scarce = FALSE

Arrive(f) == in' = Append(in, f) /\ UNCHANGED <<got, out, wire, scarce>>

(* A call joins the line, at a place among those the stack takes.          *)
Call(t) ==
  /\ \E i \in 1 .. Len(in) + 1 : i <= InCapacity /\ in' = InsertAt(in, i, t)
  /\ UNCHANGED <<got, out, wire, scarce>>

(* A frame with an error, or one for which there is no memory or no room.  *)
Drop(i) ==
  /\ in[i] \in Frame
  /\ in[i] \in Bad \/ scarce \/ i > InCapacity
  /\ in' = RemoveAt(in, i)
  /\ UNCHANGED <<got, out, wire, scarce>>

Deliver ==
  /\ in # <<>> /\ Head(in) \in Frame \ Bad
  /\ got' = Head(in) /\ in' = Tail(in)
  /\ UNCHANGED <<out, wire, scarce>>

Serve ==
  /\ in # <<>> /\ Head(in) \in Caller
  /\ in' = Tail(in)
  /\ UNCHANGED <<got, out, wire, scarce>>

(* Memory gets short, or is given back. *)
Memory == scarce' \in BOOLEAN /\ UNCHANGED <<in, got, out, wire>>

Put(f) ==
  /\ Len(out) < OutCapacity
  /\ out' = Append(out, Cut(f, f))
  /\ UNCHANGED <<in, got, wire, scarce>>

(* The frame in front keeps its length and gets the contents of another. *)
Spoil(f) ==
  /\ Len(out) = OutCapacity
  /\ out' = <<Cut(Head(out).len, f)>> \o Tail(out)
  /\ UNCHANGED <<in, got, wire, scarce>>

Send ==
  /\ out # <<>>
  /\ wire' = Head(out) /\ out' = Tail(out)
  /\ UNCHANGED <<in, got, scarce>>

PNext ==
  \/ \E f \in Frame : Arrive(f) \/ Put(f) \/ Spoil(f)
  \/ \E i \in 1 .. Len(in) : Drop(i)
  \/ \E t \in Caller : Call(t)
  \/ Deliver \/ Serve \/ Send \/ Memory

PSpec == PInit /\ [][PNext]_pvars
=============================================================================
