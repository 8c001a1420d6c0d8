--------------------------- MODULE ChannelQueue ---------------------------
(***************************************************************************)
(* What a byte channel promises: an unbounded queue that many send to and  *)
(* many receive from, each operation in one step.  Items are numbered in   *)
(* the order in which they are accepted; 0 is what recv returns of a       *)
(* channel that is closed and empty.                                       *)
(***************************************************************************)
EXTENDS Naturals, Sequences

CONSTANT Clients

VARIABLES
  queue,    \* the items that are in the channel
  sent,     \* how many were accepted
  closed,
  got       \* what each client has received, in its order

vars == <<queue, sent, closed, got>>

Init ==
  /\ queue = <<>>
  /\ sent = 0
  /\ closed = FALSE
  /\ got = [a \in Clients |-> <<>>]

Send ==
  /\ ~closed
  /\ queue' = Append(queue, sent + 1)
  /\ sent' = sent + 1
  /\ UNCHANGED <<closed, got>>

Receive(a) ==
  /\ queue # <<>>
  /\ queue' = Tail(queue)
  /\ got' = [got EXCEPT ![a] = Append(@, Head(queue))]
  /\ UNCHANGED <<sent, closed>>

ReceiveNothing(a) ==
  /\ queue = <<>>
  /\ closed
  /\ got' = [got EXCEPT ![a] = Append(@, 0)]
  /\ UNCHANGED <<queue, sent, closed>>

Close ==
  /\ closed' = TRUE
  /\ UNCHANGED <<queue, sent, got>>

\* destroy closes the channel and throws away what is in it.
Destroy ==
  /\ closed' = TRUE
  /\ queue' = <<>>
  /\ UNCHANGED <<sent, got>>

Next ==
  \/ Send \/ Close \/ Destroy
  \/ \E a \in Clients : Receive(a) \/ ReceiveNothing(a)

Spec == Init /\ [][Next]_vars
=============================================================================
