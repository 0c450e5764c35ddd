------------------------------- MODULE SpiBus -------------------------------
(***************************************************************************)
(* The SPI bus that several threads share (Drive/spi_bus.c,                *)
(* Bsp/stm32f4_spi.c): a mutex, the device the bus is configured for, and  *)
(* one chip select per device.  A transaction takes the mutex, configures  *)
(* the bus if another device used it last, pulls the chip select low with  *)
(* its first message and high with its last, and releases the mutex.       *)
(*                                                                         *)
(* Transfers are polled, so a thread never blocks in one; it is preempted  *)
(* by a thread of a higher priority, or by one of its own when its time    *)
(* slice ends.  The mutex (rt_mutex of the kernel) lends its owner the     *)
(* priority of a thread that comes to wait, and is handed over to the      *)
(* thread that has waited longest.                                         *)
(***************************************************************************)
EXTENDS Integers, Sequences

CONSTANTS
  Thread,
  Device,
  Priority,     \* of each thread; 0 is the highest
  NoThread,     \* owner of a mutex that is free
  NoDevice      \* bus->owner before the first transaction

ASSUME SpiBusAssumption ==
  /\ Priority \in [Thread -> Nat]
  /\ NoThread \notin Thread
  /\ NoDevice \notin Device

VARIABLES
  lock,              \* owner of bus->lock
  suspended,         \* the threads that wait for it
  original_priority, \* what its owner's priority goes back to
  current_priority,  \* of each thread
  owner,             \* bus->owner
  config,            \* the device the SPI registers are set up for
  cs,                \* level of each chip select
  at,                \* where each thread is
  dev                \* the device of its transaction, or NoDevice

mutexVars == <<lock, suspended, original_priority, current_priority>>
wireVars == <<owner, config, cs>>
busVars == <<mutexVars, wireVars, at, dev>>

(* away: not ready, blocked elsewhere; running: ready, outside the bus.    *)
Place == {"away", "running", "suspended", "locked", "selected", "deselected"}
Inside == {"locked", "selected", "deselected"}

BusInit ==
  /\ lock = NoThread /\ suspended = <<>> /\ original_priority = 255
  /\ current_priority = Priority
  /\ owner = NoDevice /\ config = NoDevice
  /\ cs = [d \in Device |-> "high"]
  /\ at = [t \in Thread |-> "away"]
  /\ dev = [t \in Thread |-> NoDevice]
-----------------------------------------------------------------------------
(* Scheduling. *)

Ready(t) == at[t] \notin {"away", "suspended"}

(* No thread of a higher priority is ready. *)
MayRun(t) ==
  \A u \in Thread : Ready(u) => current_priority[t] <= current_priority[u]

Runs(t) == Ready(t) /\ MayRun(t)

Goto(t, place) == at' = [at EXCEPT ![t] = place]

(* What a thread waits for elsewhere has come. *)
Wake(t) ==
  /\ at[t] = "away"
  /\ Goto(t, "running")
  /\ UNCHANGED <<mutexVars, wireVars, dev>>
-----------------------------------------------------------------------------
(* A transaction: rt_spi_send_then_recv, rt_spi_send_then_send or          *)
(* rt_spi_transfer.                                                        *)

(* rt_mutex_take of a mutex that is free, *)
TakeFree(t, d) ==
  /\ at[t] = "running" /\ Runs(t)
  /\ lock = NoThread
  /\ lock' = t
  /\ original_priority' = current_priority[t]
  /\ Goto(t, "locked")
  /\ dev' = [dev EXCEPT ![t] = d]
  /\ UNCHANGED <<suspended, current_priority, wireVars>>

(* or of one that is not: its owner goes on with the priority of this      *)
(* thread if that is higher.                                               *)
TakeBusy(t, d) ==
  /\ at[t] = "running" /\ Runs(t)
  /\ lock # NoThread
  /\ suspended' = Append(suspended, t)
  /\ current_priority' =
       [current_priority EXCEPT
          ![lock] = IF current_priority[t] < current_priority[lock]
                    THEN current_priority[t] ELSE current_priority[lock]]
  /\ Goto(t, "suspended")
  /\ dev' = [dev EXCEPT ![t] = d]
  /\ UNCHANGED <<lock, original_priority, wireVars>>

Take(t, d) == TakeFree(t, d) \/ TakeBusy(t, d)

(* Mutant: the owner is tested, the configuration is not made. *)
SelectUnconfigured(t) ==
  /\ at[t] = "locked" /\ Runs(t)
  /\ owner' = dev[t]
  /\ cs' = [cs EXCEPT ![dev[t]] = "low"]
  /\ Goto(t, "selected")
  /\ UNCHANGED <<mutexVars, dev, config>>

(* ops->configure for a new owner; the first message, with cs_take.        *)
Select(t) ==
  /\ at[t] = "locked" /\ Runs(t)
  /\ config' = IF owner # dev[t] THEN dev[t] ELSE config
  /\ owner' = dev[t]
  /\ cs' = [cs EXCEPT ![dev[t]] = "low"]
  /\ Goto(t, "selected")
  /\ UNCHANGED <<mutexVars, dev>>

(* The end of the last message, with cs_release. *)
Deselect(t) ==
  /\ at[t] = "selected" /\ Runs(t)
  /\ cs' = [cs EXCEPT ![dev[t]] = "high"]
  /\ Goto(t, "deselected")
  /\ UNCHANGED <<mutexVars, owner, config, dev>>

(* Mutant: the thread that waited longest is not made the owner. *)
ReleaseForgets(t, place) ==
  /\ at[t] = "deselected" /\ Runs(t)
  /\ current_priority' = [current_priority EXCEPT ![t] = original_priority]
  /\ lock' = NoThread /\ original_priority' = 255
  /\ Goto(t, place)
  /\ dev' = [dev EXCEPT ![t] = NoDevice]
  /\ UNCHANGED <<suspended, wireVars>>

(* Mutant: the owner that was boosted keeps the priority. *)
ReleaseBoosted(t, place) ==
  /\ at[t] = "deselected" /\ Runs(t)
  /\ \/ /\ suspended = <<>>
        /\ lock' = NoThread /\ original_priority' = 255
        /\ Goto(t, place)
        /\ UNCHANGED suspended
     \/ /\ suspended # <<>>
        /\ lock' = Head(suspended)
        /\ suspended' = Tail(suspended)
        /\ original_priority' = current_priority[Head(suspended)]
        /\ at' = [at EXCEPT ![t] = place, ![Head(suspended)] = "locked"]
  /\ dev' = [dev EXCEPT ![t] = NoDevice]
  /\ UNCHANGED <<current_priority, wireVars>>

(* rt_mutex_release, and where the thread goes from there. *)
Release(t, place) ==
  /\ at[t] = "deselected" /\ Runs(t)
  /\ \/ /\ suspended = <<>>
        /\ current_priority' = [current_priority EXCEPT ![t] = original_priority]
        /\ lock' = NoThread /\ original_priority' = 255
        /\ Goto(t, place)
        /\ UNCHANGED suspended
     \/ /\ suspended # <<>>
        /\ current_priority' = [current_priority EXCEPT ![t] = original_priority]
        /\ lock' = Head(suspended)
        /\ suspended' = Tail(suspended)
        /\ original_priority' = current_priority[Head(suspended)]
        /\ at' = [at EXCEPT ![t] = place, ![Head(suspended)] = "locked"]
  /\ dev' = [dev EXCEPT ![t] = NoDevice]
  /\ UNCHANGED wireVars

(* A thread sets a chip select by itself, without the mutex. *)
Drive(t, d, level) ==
  /\ at[t] = "running" /\ Runs(t)
  /\ cs' = [cs EXCEPT ![d] = level]
  /\ Goto(t, "away")
  /\ UNCHANGED <<mutexVars, owner, config, dev>>
-----------------------------------------------------------------------------
(* Types of the bus's state. *)
BusTypeOK ==
  /\ lock \in Thread \cup {NoThread}
  /\ suspended \in Seq(Thread)
  /\ original_priority \in Nat
  /\ current_priority \in [Thread -> Nat]
  /\ owner \in Device \cup {NoDevice} /\ config \in Device \cup {NoDevice}
  /\ cs \in [Device -> {"low", "high"}]
  /\ at \in [Thread -> Place]
  /\ dev \in [Thread -> Device \cup {NoDevice}]
  /\ \A t \in Thread : at[t] \in Inside \cup {"suspended"} => dev[t] \in Device

(* What any set of threads can do with the bus, whatever they use it for.  *)
BusNext ==
  \E t \in Thread :
    \/ Wake(t)
    \/ \E d \in Device : Take(t, d)
    \/ Select(t) \/ Deselect(t)
    \/ \E place \in {"away", "running"} : Release(t, place)
    \/ \E d \in Device, level \in {"low", "high"} : Drive(t, d, level)

BusSpec == BusInit /\ [][BusNext]_busVars
-----------------------------------------------------------------------------
(* The mutex excludes: whoever is inside a transaction owns it, and only   *)
(* threads that wait for it are in its list, each once.                    *)
MutexExcludes ==
  /\ \A t \in Thread : at[t] \in Inside <=> lock = t
  /\ \A t \in Thread : at[t] = "suspended" <=> (\E i \in 1 .. Len(suspended) : suspended[i] = t)
  /\ \A i, j \in 1 .. Len(suspended) : suspended[i] = suspended[j] => i = j
  /\ lock = NoThread => suspended = <<>>

(* The bus is configured for its owner, and for the device that is being   *)
(* talked to.                                                              *)
BusConfigured ==
  /\ config = owner
  /\ \A t \in Thread : at[t] \in {"selected", "deselected"} => owner = dev[t]

(* Priority inheritance ends with the ownership: a thread outside the bus  *)
(* has its own priority, and the owner goes back to its own.               *)
PriorityReturned ==
  /\ \A t \in Thread \ {lock} : current_priority[t] = Priority[t]
  /\ lock # NoThread => original_priority = Priority[lock]
=============================================================================
