--------------------------- MODULE BoundedChannel ---------------------------
(***************************************************************************)
(* What a message queue of the daemon promises to the threads on either    *)
(* side of it: a first-in first-out channel with a bounded backlog.        *)
(* Nothing is said about mutexes, condition variables or waiting threads;  *)
(* ConcurrentMessageQueue is shown to implement this specification.        *)
(***************************************************************************)
EXTENDS Integers, Sequences

CONSTANTS
  Message,   \* everything a producer may put into the channel
  Bound      \* the largest backlog

VARIABLES
  sent,      \* all messages put so far, in the order they were put
  received   \* all messages taken so far, in the order they were taken

chanVars == <<sent, received>>

ChanInit ==
  /\ sent = <<>>
  /\ received = <<>>

\* A message enters the channel while the backlog is below the bound.
Put(m) ==
  /\ Len(sent) - Len(received) < Bound
  /\ sent' = Append(sent, m)
  /\ UNCHANGED received

\* The oldest message that was not taken yet leaves the channel.
Take ==
  /\ Len(received) < Len(sent)
  /\ received' = Append(received, sent[Len(received) + 1])
  /\ UNCHANGED sent

ChanNext ==
  \/ \E m \in Message : Put(m)
  \/ Take

ChanSpec == ChanInit /\ [][ChanNext]_chanVars

=============================================================================
