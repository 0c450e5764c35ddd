-------------------------------- MODULE Ipc --------------------------------
(***************************************************************************)
(* Semaphores and mailboxes of the kernel (RTOS/kernel/ipc.c), each with   *)
(* one thread that may wait for it for a limited time.                     *)
(*                                                                         *)
(* The list of waiting threads has a head with two pointers.  It is null   *)
(* in an object that was not initialised yet, a global full of zeros, and  *)
(* what the list routines then write through those pointers goes to        *)
(* address 0, the flash, and is lost.  A thread that suspends itself on    *)
(* such a list is a stray: it points to the head, but the head does not    *)
(* lead to it.  When the timer of a stray unlinks it, it takes the pointer *)
(* the head needs for insertions away with it; if the head was initialised *)
(* in between the list is cut, and whoever suspends on it is a stray.      *)
(***************************************************************************)
EXTENDS Integers

(* value: of a semaphore, or the number of mails in a mailbox. *)
IpcObject ==
  [list : {"null", "sound", "cut"}, waiter : {"none", "linked", "stray"}, value : Nat]

ObjectOf(l, w, v) == [list |-> l, waiter |-> w, value |-> v]

(* A global before its rt_sem_init or rt_mb_init, *)
Zeroed == ObjectOf("null", "none", 0)

(* and at that call, which does not know of a thread that waits already.   *)
Initialised(o) ==
  ObjectOf("sound", IF o.waiter = "none" THEN "none" ELSE "stray", 0)

(* A thread puts itself on the list. *)
Suspended(o) ==
  ObjectOf(o.list, IF o.list = "sound" THEN "linked" ELSE "stray", o.value)

(* Its timer takes it off. *)
TimedOut(o) ==
  ObjectOf(IF o.waiter = "stray" /\ o.list # "null" THEN "cut" ELSE o.list,
           "none", o.value)

(* Something is there, and is taken. *)
Taken(o) == ObjectOf(o.list, o.waiter, o.value - 1)

(* Mutant: a release is a wake-up and nothing when nobody waits. *)
ReleasedUncounted(o, mod) ==
  ObjectOf(o.list, IF o.waiter = "linked" THEN "none" ELSE o.waiter, o.value)

(* rt_sem_release hands over to the thread on the list or counts, in       *)
(* arithmetic modulo mod; on a null list it does neither.                  *)
Released(o, mod) ==
  IF o.waiter = "linked" THEN ObjectOf(o.list, "none", o.value)
  ELSE ObjectOf(o.list, o.waiter,
                IF o.list = "null" THEN o.value ELSE (o.value + 1) % mod)

(* rt_mb_send to a mailbox that is not full: the mail is counted, and the  *)
(* thread on the list, now woken, will find it.                            *)
Sent(o) ==
  ObjectOf(o.list, IF o.waiter = "linked" THEN "none" ELSE o.waiter, o.value + 1)
=============================================================================
