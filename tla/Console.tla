------------------------------- MODULE Console -------------------------------
(***************************************************************************)
(* Console input: the receive ring of kernel/src/drivers/uart.rs, the      *)
(* external interrupt that fills it (drivers/plic.rs) and sys_read of      *)
(* syscall/mod.rs, on top of Parking.                                      *)
(*                                                                         *)
(* sys_read runs with interrupts on, so the handler and other readers may  *)
(* run between any two of its critical sections; each section is a step.   *)
(* The handler runs with interrupts masked on the only hart.  All it does  *)
(* is therefore one step: a byte that arrives while it drains the receiver *)
(* might as well have arrived just before.                                 *)
(***************************************************************************)
EXTENDS Parking, Integers, Sequences

CONSTANTS
  CAP,
  FIFO_SIZE,     \* bytes the device can hold
  Bytes,
  Lengths        \* the lengths programs pass to read

ASSUME ConsoleAssumption ==
  /\ CAP \in Nat \ {0}
  /\ FIFO_SIZE \in Nat
  /\ Lengths \subseteq Nat \ {0}

VARIABLES
  fifo,            \* the receiver of the device
  buf, head, tail, \* RX_QUEUE
  readers,         \* the waiters of READERS
  pc,
  len, got,        \* sys_read: `len`, `buf`
  heard            \* history: who has had a byte queued since it joined READERS

ringVars == <<buf, head, tail>>
vars     == <<parkingVars, fifo, ringVars, readers, pc, len, got, heard>>

Contains(s, e) == \E i \in 1 .. Len(s) : s[i] = e

Step(t, from, to) ==
  /\ t \notin parked
  /\ pc[t] = from
  /\ pc' = [pc EXCEPT ![t] = to]

------------------------------------------------------------------------------
(* RxRing                                                                     *)

Advance(i) == (i + 1) % CAP

\* mutant of Full: the slot that tells a full ring from an empty one is used too
FullNever(r) == FALSE

\* push refuses; a ring is a record of buf, head and tail
Full(r) == Advance(r.tail) = r.head

PushByte(r, b) ==
  IF Full(r) THEN r ELSE [r EXCEPT !.buf[r.tail] = b, !.tail = Advance(r.tail)]

\* has_input
HasInput == head # tail

Used == (tail - head) % CAP

------------------------------------------------------------------------------
(* The device and its interrupt                                               *)

\* A character arrives; the device drops it when its receiver is full.
Receive(b) ==
  /\ Len(fifo) < FIFO_SIZE
  /\ fifo' = Append(fifo, b)
  /\ UNCHANGED <<parkingVars, ringVars, readers, pc, len, got, heard>>

\* mutant of WakeReaders: a reader that has not gone to sleep yet gets no note
WakeSleepers ==
  /\ parked' = {t \in parked : ~Contains(readers, t)}
  /\ readers' = <<>>
  /\ UNCHANGED pending

\* notify_readers: wake_all
WakeReaders ==
  LET woken == {t \in Tasks : Contains(readers, t)}
  IN  /\ parked' = parked \ woken
      /\ pending' = pending \cup (woken \ parked)
      /\ readers' = <<>>

\* handle_interrupt, as often as the device asks for it: the ring after the first n
\* bytes of the receiver, without those that did not fit
Pushed[n \in 0 .. Len(fifo)] ==
  IF n = 0 THEN [buf |-> buf, head |-> head, tail |-> tail]
  ELSE PushByte(Pushed[n - 1], fifo[n])

Drained == Pushed[Len(fifo)]

\* handle_external_interrupt, from claim to complete, for as long as the device
\* has bytes; nobody is woken if no byte fits
HandleExternal ==
  /\ fifo # <<>>
  /\ fifo' = <<>>
  /\ buf' = Drained.buf /\ tail' = Drained.tail
  /\ \/ /\ tail' # tail
        /\ WakeReaders
        /\ heard' = heard \cup {t \in Tasks : pc[t] \in {"park", "unqueue"}}
     \/ tail' = tail /\ UNCHANGED <<parkingVars, readers, heard>>
  /\ UNCHANGED <<head, pc, len, got>>

------------------------------------------------------------------------------
(* sys_read                                                                   *)

\* the arguments have passed the checks
Read(t, n) ==
  /\ Step(t, "user", "check")
  /\ len' = [len EXCEPT ![t] = n]
  /\ UNCHANGED <<parkingVars, fifo, ringVars, readers, got, heard>>

\* READERS.wait_until(has_input): the condition
WaitCheck(t) ==
  /\ Step(t, "check", IF HasInput THEN "pop" ELSE "push")
  /\ UNCHANGED <<parkingVars, fifo, ringVars, readers, len, got, heard>>

WaitPush(t) ==
  /\ Step(t, "push", "park")
  /\ readers' = Append(readers, t)
  /\ heard' = heard \ {t}
  /\ UNCHANGED <<parkingVars, fifo, ringVars, len, got>>

WaitPark(t) ==
  /\ Step(t, "park", "unqueue")
  /\ Park(t)
  /\ UNCHANGED <<fifo, ringVars, readers, len, got, heard>>

\* s without its first e
Without(s, e) ==
  LET first == CHOOSE i \in 1 .. Len(s) : s[i] = e /\ \A j \in 1 .. i - 1 : s[j] # e
  IN  IF Contains(s, e) THEN SubSeq(s, 1, first - 1) \o SubSeq(s, first + 1, Len(s)) ELSE s

WaitUnqueue(t) ==
  /\ Step(t, "unqueue", "check")
  /\ readers' = Without(readers, t)
  /\ heard' = heard \ {t}
  /\ UNCHANGED <<parkingVars, fifo, ringVars, len, got>>

\* read_byte, until len bytes were taken or the ring is empty
PopByte(t) ==
  /\ \/ /\ Len(got[t]) < len[t] /\ HasInput
        /\ Step(t, "pop", "pop")
        /\ got' = [got EXCEPT ![t] = Append(@, buf[head])]
        /\ head' = Advance(head)
     \/ /\ Len(got[t]) = len[t] \/ ~HasInput
        /\ Step(t, "pop", "copy")
        /\ UNCHANGED <<got, head>>
  /\ UNCHANGED <<parkingVars, fifo, buf, tail, readers, len, heard>>

\* copy_to_user, and the call returns the count or EFAULT
ReadReturn(t) ==
  /\ Step(t, "copy", "user")
  /\ got' = [got EXCEPT ![t] = <<>>]
  /\ len' = [len EXCEPT ![t] = 0]
  /\ UNCHANGED <<parkingVars, fifo, ringVars, readers, heard>>

------------------------------------------------------------------------------

Init ==
  /\ ParkingInit
  /\ fifo = <<>>
  /\ buf = [i \in 0 .. CAP - 1 |-> 0]
  /\ head = 0 /\ tail = 0
  /\ readers = <<>>
  /\ pc = [t \in Tasks |-> "user"]
  /\ len = [t \in Tasks |-> 0]
  /\ got = [t \in Tasks |-> <<>>]
  /\ heard = {}

ReaderStep(t) ==
  \/ \E n \in Lengths : Read(t, n)
  \/ WaitCheck(t) \/ WaitPush(t) \/ WaitPark(t) \/ WaitUnqueue(t)
  \/ PopByte(t) \/ ReadReturn(t)

Next == (\E t \in Tasks : ReaderStep(t)) \/ (\E b \in Bytes : Receive(b)) \/ HandleExternal

Spec == Init /\ [][Next]_vars

------------------------------------------------------------------------------
(* Properties                                                                 *)

\* Once a reader has joined READERS it does not sleep through a byte: an
\* interrupt that puts one into the ring, be it between the reader's push_back
\* and its block_current, leaves it awake; and a reader that sleeps can still be
\* reached, since it is in READERS.
AwakeForInput ==
  /\ parked \cap heard = {}
  /\ \A t \in parked : Contains(readers, t)

\* The ring with its wrapping indices is a line of at most CAP - 1 bytes: no byte
\* overtakes, is delivered twice or overwrites another ("Overflow drops the newest
\* byte"), whichever readers take them.
Line == [i \in 1 .. Used |-> buf[(head + i - 1) % CAP]]

L == INSTANCE InputLine
       WITH Readers <- Tasks, Room <- CAP - 1, incoming <- fifo, line <- Line

ImplementsInputLine == L!LineSpec

=============================================================================
