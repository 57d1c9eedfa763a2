------------------------------ MODULE InputLine ------------------------------
(***************************************************************************)
(* What the console's input side promises the programs that read it: a     *)
(* bounded line of bytes.  A byte that arrives joins the end of the line,  *)
(* or is dropped if the line is full; a reader takes bytes off the front.  *)
(***************************************************************************)
EXTENDS Integers, Sequences

CONSTANTS Readers, Bytes, Room

VARIABLES
  incoming,   \* bytes on their way
  line,
  got         \* what each reader has taken in its current call

lineVars == <<incoming, line, got>>

Come(b) == incoming' = Append(incoming, b) /\ UNCHANGED <<line, got>>

\* A burst joins the line: a byte is dropped only when the line is full, and
\* then so is every later one of the burst.
Arrival ==
  LET all == line \o incoming
  IN  /\ line' = SubSeq(all, 1, IF Len(all) < Room THEN Len(all) ELSE Room)
      /\ incoming' = <<>>
      /\ UNCHANGED got

Take(t) ==
  /\ line # <<>>
  /\ got' = [got EXCEPT ![t] = Append(@, Head(line))]
  /\ line' = Tail(line)
  /\ UNCHANGED incoming

\* The call returns, with what was taken or with an error.
Return(t) == got' = [got EXCEPT ![t] = <<>>] /\ UNCHANGED <<incoming, line>>

LineInit == incoming = <<>> /\ line = <<>> /\ got = [t \in Readers |-> <<>>]

LineNext ==
  \/ \E b \in Bytes : Come(b)
  \/ Arrival
  \/ \E t \in Readers : Take(t) \/ Return(t)

LineSpec == LineInit /\ [][LineNext]_lineVars

=============================================================================
