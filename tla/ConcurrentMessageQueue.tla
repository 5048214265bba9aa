----------------------- MODULE ConcurrentMessageQueue -----------------------
(***************************************************************************)
(* The bounded queue that carries every message between the threads of a   *)
(* daemon (include/network/ConcurrentMessageQueue.h).                      *)
(*                                                                         *)
(* All operations run under one mutex, so the stretch from acquiring the   *)
(* mutex to releasing it, by returning or by entering a wait, is one step. *)
(* Producers that wait for room and consumers that wait for a message wait *)
(* on the SAME condition variable; notify_one releases an arbitrary thread *)
(* of its wait set, which then competes for the mutex like any other.      *)
(*                                                                         *)
(* A message is <<p, i>>: the one producer p passed to its i-th call.      *)
(***************************************************************************)
EXTENDS Integers, Sequences, FiniteSets

CONSTANTS
  Producers,  \* the threads that call send, try_send and timed_send
  Consumers,  \* the threads that call receive, try_receive and timed_receive
  Capacity,   \* the constructor's argument
  MaxCalls    \* bound: how often each producer calls an operation

ASSUME ThreadsAssumption ==
  /\ IsFiniteSet(Producers)
  /\ IsFiniteSet(Consumers)
  /\ Producers \cap Consumers = {}

ASSUME CapacityAssumption == Capacity \in Nat

ASSUME MaxCallsAssumption == MaxCalls \in Nat

Threads == Producers \cup Consumers

Message == Producers \X (1 .. MaxCalls)

\* The capacity; "if capacity is 0, we force it to be 1".
n == IF Capacity > 0 THEN Capacity ELSE 1

VARIABLES
  q,         \* the blocks in the queue, oldest first
  enq,       \* number of producers inside waitOnCapacity's wait
  deq,       \* number of consumers inside waitOnEmpty's wait
  waiting,   \* the wait set of the condition variable cnd
  expired,   \* threads whose timed_wait ran out, mutex not yet re-acquired
  pc,        \* the operation a thread is inside of, "idle" outside
  calls,     \* number of operations each producer has called
  received   \* history: the messages popped, in order

vars == <<q, enq, deq, waiting, expired, pc, calls, received>>

Init ==
  /\ q = <<>>
  /\ enq = 0
  /\ deq = 0
  /\ waiting = {}
  /\ expired = {}
  /\ pc = [t \in Threads |-> "idle"]
  /\ calls = [p \in Producers |-> 0]
  /\ received = <<>>

-----------------------------------------------------------------------------
(* The condition variable (boost::condition_variable)                      *)

NotifyOne ==
  \/ /\ waiting = {}
     /\ UNCHANGED waiting
  \/ \E t \in waiting : waiting' = waiting \ {t}

\* cnd.wait may return without a notification.
SpuriousWakeup(t) ==
  /\ t \in waiting
  /\ waiting' = waiting \ {t}
  /\ UNCHANGED <<q, enq, deq, expired, pc, calls, received>>

\* cnd.timed_wait gives up; the thread still has to get the mutex back.
Timeout(t) ==
  /\ t \in waiting
  /\ pc[t] \in {"timed_send", "timed_receive"}
  /\ waiting' = waiting \ {t}
  /\ expired' = expired \cup {t}
  /\ UNCHANGED <<q, enq, deq, pc, calls, received>>

-----------------------------------------------------------------------------
(* Notifications                                                           *)

\* Variants with an error, to show what the properties detect.
notifyConsumerNever == UNCHANGED waiting
notifyProducerOffByOne == IF enq > 1 THEN NotifyOne ELSE UNCHANGED waiting

notifyConsumer == IF deq > 0 THEN NotifyOne ELSE UNCHANGED waiting

notifyProducer == IF enq > 0 THEN NotifyOne ELSE UNCHANGED waiting

-----------------------------------------------------------------------------
(* The sending side                                                        *)

\* waitOnCapacity's loop and the push after it, in call op of producer p.
\* e is enq without p.  The notification precedes the push.
waitOnCapacity(p, op, e, m) ==
  \/ /\ Len(q) = n
     /\ enq' = e + 1
     /\ waiting' = waiting \cup {p}
     /\ pc' = [pc EXCEPT ![p] = op]
     /\ UNCHANGED q
  \/ /\ Len(q) # n
     /\ enq' = e
     /\ notifyConsumer
     /\ q' = Append(q, m)
     /\ pc' = [pc EXCEPT ![p] = "idle"]

\* Producer p enters its next call.
Call(p) ==
  /\ pc[p] = "idle"
  /\ calls[p] < MaxCalls
  /\ calls' = [calls EXCEPT ![p] = @ + 1]

send(p) ==
  /\ Call(p)
  /\ waitOnCapacity(p, "send", enq, <<p, calls[p] + 1>>)
  /\ UNCHANGED <<deq, expired, received>>

timed_send(p) ==
  /\ Call(p)
  /\ waitOnCapacity(p, "timed_send", enq, <<p, calls[p] + 1>>)
  /\ UNCHANGED <<deq, expired, received>>

\* try_send pushes first and notifies afterwards; a full queue returns false.
try_send(p) ==
  /\ Call(p)
  /\ \/ /\ Len(q) < n
        /\ q' = Append(q, <<p, calls[p] + 1>>)
        /\ notifyConsumer
     \/ /\ Len(q) >= n
        /\ UNCHANGED <<q, waiting>>
  /\ UNCHANGED <<enq, deq, expired, pc, received>>

\* Variant: "if" in the place of waitOnCapacity's "while".
ResumeSendUnchecked(p) ==
  /\ pc[p] \in {"send", "timed_send"}
  /\ p \notin waiting \cup expired
  /\ enq' = enq - 1
  /\ notifyConsumer
  /\ q' = Append(q, <<p, calls[p]>>)
  /\ pc' = [pc EXCEPT ![p] = "idle"]
  /\ UNCHANGED <<deq, expired, calls, received>>

\* A notified producer has the mutex again and goes round the loop.
ResumeSend(p) ==
  /\ pc[p] \in {"send", "timed_send"}
  /\ p \notin waiting \cup expired
  /\ waitOnCapacity(p, pc[p], enq - 1, <<p, calls[p]>>)
  /\ UNCHANGED <<deq, expired, calls, received>>

\* Variant: --enq is missing on the timeout path.
ExpireSendUncounted(p) ==
  /\ pc[p] = "timed_send"
  /\ p \in expired
  /\ notifyConsumer
  /\ expired' = expired \ {p}
  /\ pc' = [pc EXCEPT ![p] = "idle"]
  /\ UNCHANGED <<q, enq, deq, calls, received>>

\* A timed-out producer notifies a consumer and returns false; nothing is sent.
ExpireSend(p) ==
  /\ pc[p] = "timed_send"
  /\ p \in expired
  /\ enq' = enq - 1
  /\ notifyConsumer
  /\ expired' = expired \ {p}
  /\ pc' = [pc EXCEPT ![p] = "idle"]
  /\ UNCHANGED <<q, deq, calls, received>>

-----------------------------------------------------------------------------
(* The receiving side                                                      *)

\* Variant: q.pop() is missing.
popBlockKept ==
  /\ received' = Append(received, Head(q))
  /\ UNCHANGED q

popBlock ==
  /\ received' = Append(received, Head(q))
  /\ q' = Tail(q)

\* Variant: ++deq is missing before the wait.
waitOnEmptyUncounted(c, op, d) ==
  \/ /\ q = <<>>
     /\ deq' = d
     /\ waiting' = waiting \cup {c}
     /\ pc' = [pc EXCEPT ![c] = op]
     /\ UNCHANGED <<q, received>>
  \/ /\ q # <<>>
     /\ deq' = d
     /\ notifyProducer
     /\ popBlock
     /\ pc' = [pc EXCEPT ![c] = "idle"]

\* waitOnEmpty's loop and the pop after it; d is deq without c.
waitOnEmpty(c, op, d) ==
  \/ /\ q = <<>>
     /\ deq' = d + 1
     /\ waiting' = waiting \cup {c}
     /\ pc' = [pc EXCEPT ![c] = op]
     /\ UNCHANGED <<q, received>>
  \/ /\ q # <<>>
     /\ deq' = d
     /\ notifyProducer
     /\ popBlock
     /\ pc' = [pc EXCEPT ![c] = "idle"]

receive(c) ==
  /\ pc[c] = "idle"
  /\ waitOnEmpty(c, "receive", deq)
  /\ UNCHANGED <<enq, expired, calls>>

timed_receive(c) ==
  /\ pc[c] = "idle"
  /\ waitOnEmpty(c, "timed_receive", deq)
  /\ UNCHANGED <<enq, expired, calls>>

\* On an empty queue try_receive returns false and changes nothing.
try_receive(c) ==
  /\ pc[c] = "idle"
  /\ q # <<>>
  /\ popBlock
  /\ notifyProducer
  /\ UNCHANGED <<enq, deq, expired, pc, calls>>

ResumeReceive(c) ==
  /\ pc[c] \in {"receive", "timed_receive"}
  /\ c \notin waiting \cup expired
  /\ waitOnEmpty(c, pc[c], deq - 1)
  /\ UNCHANGED <<enq, expired, calls>>

ExpireReceive(c) ==
  /\ pc[c] = "timed_receive"
  /\ c \in expired
  /\ deq' = deq - 1
  /\ notifyProducer
  /\ expired' = expired \ {c}
  /\ pc' = [pc EXCEPT ![c] = "idle"]
  /\ UNCHANGED <<q, enq, calls, received>>

-----------------------------------------------------------------------------
ProducerStep(p) ==
  send(p) \/ try_send(p) \/ timed_send(p) \/ ResumeSend(p) \/ ExpireSend(p)

ConsumerStep(c) ==
  receive(c) \/ try_receive(c) \/ timed_receive(c)
             \/ ResumeReceive(c) \/ ExpireReceive(c)

Next ==
  \/ \E p \in Producers : ProducerStep(p)
  \/ \E c \in Consumers : ConsumerStep(c)
  \/ \E t \in Threads : SpuriousWakeup(t) \/ Timeout(t)

Spec == Init /\ [][Next]_vars

\* Every thread that can run is run; waking up by itself is never promised.
FairSpec ==
  /\ Spec
  /\ \A p \in Producers : WF_vars(ProducerStep(p))
  /\ \A c \in Consumers : WF_vars(ConsumerStep(c))

-----------------------------------------------------------------------------
(* Properties                                                              *)

Operations == {"idle", "send", "timed_send", "receive", "timed_receive"}

\* The type invariant.
TypeOK ==
  /\ q \in Seq(Message)
  /\ enq \in Nat
  /\ deq \in Nat
  /\ waiting \subseteq Threads
  /\ expired \subseteq Threads
  /\ pc \in [Threads -> Operations]
  /\ calls \in [Producers -> 0 .. MaxCalls]
  /\ received \in Seq(Message)

\* waitOnCapacity compares with "n == q.size()", never with >=: that the
\* queue cannot grow past its capacity rests on every path to a push.
CapacityRespected == Len(q) <= n

Sending == {p \in Producers : pc[p] \in {"send", "timed_send"}}

Receiving == {c \in Consumers : pc[c] \in {"receive", "timed_receive"}}

\* enq and deq count exactly the threads inside a wait.  notifyConsumer and
\* notifyProducer skip the notification when the counter is 0, so a counter
\* that is too small loses a wake-up for good.
CountersExact ==
  /\ enq = Cardinality(Sending)
  /\ deq = Cardinality(Receiving)

\* Whatever the operations in between (a timeout, a refused try_send, a
\* spurious wake-up), the messages of one producer reach the consumers in
\* the order of its calls, and none twice.
OrderPreserved ==
  LET line == received \o q IN
  \A i, j \in DOMAIN line :
    i < j /\ line[i][1] = line[j][1] => line[i][2] < line[j][2]

\* The queue implements a first-in first-out channel with backlog n: a
\* message leaves once, in the order in which messages entered.
Channel == INSTANCE BoundedChannel WITH Bound <- n, sent <- received \o q

ImplementsChannel == Channel!ChanSpec

\* A thread that will touch the queue again without being woken.
Awake(t) == t \notin waiting /\ (t \in Consumers \/ pc[t] # "idle")

\* No wake-up is lost: a message in the queue, or a producer inside a call,
\* is never left behind by threads that are all asleep.  The comments of
\* notifyConsumer and notifyProducer, "notify one consuming thread" and
\* "notify one producing thread", are what would guarantee it.
NoLostWakeup ==
  q # <<>> \/ Sending # {} => \E t \in Threads : Awake(t)

\* Every call returns and every message is consumed: nothing stays in the
\* queue and no producer stays inside an operation.
AllDelivered ==
  <>[](q = <<>> /\ \A p \in Producers : pc[p] = "idle")

=============================================================================
