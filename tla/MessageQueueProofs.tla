-------------------------- MODULE MessageQueueProofs --------------------------
(***************************************************************************)
(* Proofs about ConcurrentMessageQueue, for every set of threads, every    *)
(* capacity and every number of calls.                                     *)
(***************************************************************************)
EXTENDS ConcurrentMessageQueue, FiniteSetTheorems, SequenceTheorems, TLAPS

-----------------------------------------------------------------------------
(* The inductive invariant.  CountersExact needs to know which operations   *)
(* a thread can be inside of, and that only such threads wait.              *)

\* Producers only send, consumers only receive, a thread that waits or whose
\* wait expired is inside an operation, and being inside one was counted.
WaitDiscipline ==
  /\ \A p \in Producers : pc[p] \in {"idle", "send", "timed_send"}
  /\ \A c \in Consumers : pc[c] \in {"idle", "receive", "timed_receive"}
  /\ \A t \in waiting \cup expired : pc[t] # "idle"
  /\ waiting \cap expired = {}
  /\ \A p \in Producers : pc[p] # "idle" => calls[p] >= 1

IInv == TypeOK /\ WaitDiscipline /\ CapacityRespected /\ CountersExact

LEMMA CapacityPositive == n \in Nat \ {0}
BY CapacityAssumption DEF n

\* A message that is pushed or popped keeps the queue a queue of messages.
LEMMA PushType ==
  ASSUME NEW s \in Seq(Message), NEW m \in Message
  PROVE  Append(s, m) \in Seq(Message) /\ Len(Append(s, m)) = Len(s) + 1
BY AppendProperties

LEMMA PopType ==
  ASSUME NEW s \in Seq(Message), s # <<>>
  PROVE  /\ Head(s) \in Message
         /\ Tail(s) \in Seq(Message)
         /\ Len(Tail(s)) = Len(s) - 1
         /\ Len(s) \in Nat
BY HeadTailProperties, LenProperties

\* The threads inside a wait are finitely many.
LEMMA BlockedFinite ==
  /\ IsFiniteSet(Sending) /\ IsFiniteSet(Receiving)
  /\ Cardinality(Sending) \in Nat /\ Cardinality(Receiving) \in Nat
<1>1. Sending \in SUBSET Producers /\ Receiving \in SUBSET Consumers
  BY DEF Sending, Receiving
<1>2. IsFiniteSet(Sending) /\ IsFiniteSet(Receiving)
  BY <1>1, ThreadsAssumption, FS_Subset
<1> QED BY <1>2, FS_CardinalityType

\* Whatever it releases, a notification only shrinks the wait set.
LEMMA NotifyShrinks ==
  notifyConsumer \/ notifyProducer => waiting' \subseteq waiting
BY DEF notifyConsumer, notifyProducer, NotifyOne

-----------------------------------------------------------------------------
(* The loops of waitOnCapacity and waitOnEmpty preserve the invariant's     *)
(* conjuncts about what they change.                                        *)

LEMMA CapacityLoop ==
  ASSUME IInv, NEW p \in Producers, NEW op \in {"send", "timed_send"},
         NEW m \in Message, NEW e \in Nat, e = Cardinality(Sending \ {p}),
         waitOnCapacity(p, op, e, m), p \notin waiting \cup expired,
         UNCHANGED <<deq, expired, received>>,
         calls' \in [Producers -> 0 .. MaxCalls], m = <<p, calls'[p]>>,
         \A r \in Producers : calls[r] <= calls'[r]
  PROVE  IInv'
<1> USE DEF IInv, TypeOK
<1>0. p \in Threads /\ op \in Operations /\ p \notin Consumers
  BY ThreadsAssumption DEF Threads, Operations
<1>1. /\ n \in Nat /\ Len(q) \in Nat
      /\ calls'[p] >= 1
  BY CapacityPositive, LenProperties DEF Message
<1>2. Receiving' = Receiving
  BY <1>0 DEF waitOnCapacity, Receiving, Threads
<1>3. CASE Len(q) = n /\ q' = q /\ enq' = e + 1 /\ waiting' = waiting \cup {p}
            /\ pc' = [pc EXCEPT ![p] = op]
  <2>1. Sending' = (Sending \ {p}) \cup {p}
    BY <1>3 DEF Sending, Threads
  <2>2. IsFiniteSet(Sending \ {p}) /\ p \notin Sending \ {p}
    BY BlockedFinite, FS_RemoveElement
  <2>3. Cardinality((Sending \ {p}) \cup {p}) = Cardinality(Sending \ {p}) + 1
    BY <2>2, FS_AddElement
  <2>4. CountersExact'
    BY <2>1, <2>3, <1>2, <1>3 DEF CountersExact
  <2>5. WaitDiscipline'
    BY <1>0, <1>1, <1>3 DEF WaitDiscipline, Threads
  <2>6. TypeOK'
    BY <1>0, <1>3
  <2> QED BY <1>3, <2>4, <2>5, <2>6 DEF CapacityRespected
<1>4. CASE Len(q) # n /\ q' = Append(q, m) /\ enq' = e /\ notifyConsumer
            /\ pc' = [pc EXCEPT ![p] = "idle"]
  <2>1. waiting' \subseteq waiting /\ p \notin waiting'
    BY <1>4, NotifyShrinks
  <2>2. Sending' = Sending \ {p}
    BY <1>4 DEF Sending, Threads
  <2>3. CountersExact'
    BY <2>2, <1>2, <1>4 DEF CountersExact
  <2>4. WaitDiscipline'
    BY <1>0, <1>1, <1>4, <2>1 DEF WaitDiscipline, Threads
  <2>5. q' \in Seq(Message) /\ Len(q') = Len(q) + 1
    BY <1>4, PushType
  <2>6. TypeOK'
    BY <1>0, <1>4, <2>1, <2>5 DEF Operations
  <2> QED BY <1>1, <1>4, <2>3, <2>4, <2>5, <2>6 DEF CapacityRespected
<1> QED BY <1>3, <1>4 DEF waitOnCapacity

LEMMA EmptyLoop ==
  ASSUME IInv, NEW c \in Consumers, NEW op \in {"receive", "timed_receive"},
         NEW d \in Nat, d = Cardinality(Receiving \ {c}),
         waitOnEmpty(c, op, d), c \notin waiting \cup expired,
         UNCHANGED <<enq, expired, calls>>
  PROVE  IInv'
<1> USE DEF IInv, TypeOK
<1>0. c \in Threads /\ op \in Operations /\ c \notin Producers
  BY ThreadsAssumption DEF Threads, Operations
<1>1. n \in Nat /\ Len(q) \in Nat
  BY CapacityPositive, LenProperties
<1>2. Sending' = Sending
  BY <1>0 DEF waitOnEmpty, Sending, Threads
<1>3. CASE q = <<>> /\ UNCHANGED <<q, received>> /\ deq' = d + 1
            /\ waiting' = waiting \cup {c} /\ pc' = [pc EXCEPT ![c] = op]
  <2>1. Receiving' = (Receiving \ {c}) \cup {c}
    BY <1>3 DEF Receiving, Threads
  <2>2. IsFiniteSet(Receiving \ {c}) /\ c \notin Receiving \ {c}
    BY BlockedFinite, FS_RemoveElement
  <2>3. Cardinality((Receiving \ {c}) \cup {c}) = Cardinality(Receiving \ {c}) + 1
    BY <2>2, FS_AddElement
  <2>4. CountersExact'
    BY <2>1, <2>3, <1>2, <1>3 DEF CountersExact
  <2>5. WaitDiscipline'
    BY <1>0, <1>3 DEF WaitDiscipline, Threads
  <2>6. TypeOK'
    BY <1>0, <1>3
  <2> QED BY <1>3, <2>4, <2>5, <2>6 DEF CapacityRespected
<1>4. CASE q # <<>> /\ popBlock /\ deq' = d /\ notifyProducer
            /\ pc' = [pc EXCEPT ![c] = "idle"]
  <2>1. waiting' \subseteq waiting /\ c \notin waiting'
    BY <1>4, NotifyShrinks
  <2>2. Receiving' = Receiving \ {c}
    BY <1>4 DEF Receiving, Threads
  <2>3. CountersExact'
    BY <2>2, <1>2, <1>4 DEF CountersExact
  <2>4. WaitDiscipline'
    BY <1>0, <1>4, <2>1 DEF WaitDiscipline, Threads
  <2>5. /\ q' \in Seq(Message) /\ Len(q') = Len(q) - 1
        /\ received' \in Seq(Message)
    BY <1>4, PopType, PushType DEF popBlock
  <2>6. TypeOK'
    BY <1>0, <1>4, <2>1, <2>5 DEF Operations
  <2> QED BY <1>1, <1>4, <2>3, <2>4, <2>5, <2>6 DEF CapacityRespected
<1> QED BY <1>3, <1>4 DEF waitOnEmpty

\* An operation that gives up its wait: the thread leaves the counted set.
LEMMA LeaveWait ==
  ASSUME IInv, NEW t \in Threads, UNCHANGED <<q, calls, received>>,
         expired' = expired \ {t}, waiting' \subseteq waiting, t \notin waiting',
         pc' = [pc EXCEPT ![t] = "idle"],
         enq' = Cardinality(Sending \ {t}), deq' = Cardinality(Receiving \ {t})
  PROVE  IInv'
<1> USE DEF IInv, TypeOK
<1>1. Sending' = Sending \ {t} /\ Receiving' = Receiving \ {t}
  BY DEF Sending, Receiving, Threads
<1>2. CountersExact' /\ enq' \in Nat /\ deq' \in Nat
  <2>1. IsFiniteSet(Sending \ {t}) /\ IsFiniteSet(Receiving \ {t})
    BY BlockedFinite, FS_RemoveElement
  <2> QED BY <1>1, <2>1, FS_CardinalityType DEF CountersExact
<1>3. WaitDiscipline'
  BY DEF WaitDiscipline, Threads
<1>4. TypeOK'
  BY <1>2 DEF Operations
<1> QED BY <1>2, <1>3, <1>4 DEF CapacityRespected

-----------------------------------------------------------------------------
(* Every action preserves the invariant.                                    *)

LEMMA CallStep ==
  ASSUME IInv, NEW p \in Producers, Call(p)
  PROVE  /\ pc[p] = "idle" /\ p \notin waiting \cup expired
         /\ calls' \in [Producers -> 0 .. MaxCalls]
         /\ calls'[p] = calls[p] + 1
         /\ <<p, calls[p] + 1>> \in Message
         /\ \A r \in Producers : calls[r] <= calls'[r]
<1>1. calls \in [Producers -> 0 .. MaxCalls] /\ calls[p] \in 0 .. MaxCalls
  BY DEF IInv, TypeOK
<1>2. calls[p] + 1 \in 1 .. MaxCalls
  BY <1>1, MaxCallsAssumption DEF Call
<1>3. calls' = [calls EXCEPT ![p] = calls[p] + 1]
  BY DEF Call
<1>4. pc[p] = "idle" /\ p \notin waiting \cup expired
  BY DEF Call, IInv, WaitDiscipline
<1> QED BY <1>1, <1>2, <1>3, <1>4, MaxCallsAssumption DEF Message

LEMMA SendSteps ==
  ASSUME IInv, NEW p \in Producers, send(p) \/ timed_send(p)
  PROVE  IInv'
<1>1. Call(p)
  BY DEF send, timed_send
<1>2. enq \in Nat /\ enq = Cardinality(Sending \ {p})
  <2>1. Sending \ {p} = Sending
    BY <1>1 DEF Call, Sending
  <2> QED BY <2>1 DEF IInv, TypeOK, CountersExact
<1>3. CASE send(p)
  BY <1>1, <1>2, <1>3, CallStep, CapacityLoop DEF send
<1>4. CASE timed_send(p)
  BY <1>1, <1>2, <1>4, CallStep, CapacityLoop DEF timed_send
<1> QED BY <1>3, <1>4

LEMMA TrySendStep ==
  ASSUME IInv, NEW p \in Producers, try_send(p)
  PROVE  IInv'
<1> USE DEF IInv, TypeOK
<1>1. Call(p)
  BY DEF try_send
<1>2. waiting' \subseteq waiting /\ UNCHANGED <<enq, deq, expired, pc, received>>
  BY NotifyShrinks DEF try_send
<1>3. q' \in Seq(Message) /\ Len(q') <= n
  <2>1. n \in Nat /\ Len(q) \in Nat /\ Len(q) <= n
    BY CapacityPositive, LenProperties DEF CapacityRespected
  <2>2. CASE Len(q) < n /\ q' = Append(q, <<p, calls[p] + 1>>)
    BY <1>1, <2>1, <2>2, CallStep, PushType
  <2>3. CASE q' = q
    BY <2>1, <2>3
  <2> QED BY <2>2, <2>3 DEF try_send
<1>4. CountersExact'
  BY <1>2 DEF CountersExact, Sending, Receiving
<1>5. WaitDiscipline'
  <2>1. /\ calls \in [Producers -> 0 .. MaxCalls]
        /\ calls' \in [Producers -> 0 .. MaxCalls]
        /\ \A r \in Producers : calls[r] <= calls'[r]
    BY <1>1, CallStep
  <2>2. \A r \in Producers : calls[r] >= 1 => calls'[r] >= 1
    BY <2>1, MaxCallsAssumption
  <2> QED BY <1>2, <2>2 DEF WaitDiscipline
<1> QED BY <1>1, <1>2, <1>3, <1>4, <1>5, CallStep DEF CapacityRespected

LEMMA ResumeSendStep ==
  ASSUME IInv, NEW p \in Producers, ResumeSend(p)
  PROVE  IInv'
<1>1. p \in Sending
  BY DEF ResumeSend, Sending
<1>2. enq - 1 = Cardinality(Sending \ {p}) /\ enq - 1 \in Nat
  <2>1. /\ Cardinality(Sending \ {p}) = Cardinality(Sending) - 1
        /\ IsFiniteSet(Sending \ {p})
    BY <1>1, BlockedFinite, FS_RemoveElement
  <2>2. Cardinality(Sending \ {p}) \in Nat
    BY <2>1, FS_CardinalityType
  <2> QED BY <2>1, <2>2 DEF IInv, CountersExact
<1>3. <<p, calls[p]>> \in Message /\ \A r \in Producers : calls[r] <= calls[r]
  BY MaxCallsAssumption DEF ResumeSend, IInv, TypeOK, WaitDiscipline, Message
<1> QED BY <1>2, <1>3, CapacityLoop DEF ResumeSend, IInv, TypeOK

LEMMA ExpireSendStep ==
  ASSUME IInv, NEW p \in Producers, ExpireSend(p)
  PROVE  IInv'
<1>1. p \in Threads /\ p \in Sending /\ p \notin Receiving
  BY ThreadsAssumption DEF ExpireSend, Sending, Receiving, Threads
<1>2. enq' = Cardinality(Sending \ {p}) /\ deq' = Cardinality(Receiving \ {p})
  <2>1. Receiving \ {p} = Receiving
    BY <1>1
  <2> QED BY <1>1, <2>1, BlockedFinite, FS_RemoveElement
          DEF ExpireSend, IInv, CountersExact
<1>3. waiting' \subseteq waiting /\ p \notin waiting'
  BY NotifyShrinks DEF ExpireSend, IInv, WaitDiscipline
<1> QED BY <1>1, <1>2, <1>3, LeaveWait DEF ExpireSend

LEMMA ReceiveSteps ==
  ASSUME IInv, NEW c \in Consumers, receive(c) \/ timed_receive(c)
  PROVE  IInv'
<1>1. pc[c] = "idle" /\ c \notin waiting \cup expired
  BY DEF receive, timed_receive, IInv, WaitDiscipline
<1>2. deq \in Nat /\ deq = Cardinality(Receiving \ {c})
  <2>1. Receiving \ {c} = Receiving
    BY <1>1 DEF Receiving
  <2> QED BY <2>1 DEF IInv, TypeOK, CountersExact
<1>3. CASE receive(c)
  BY <1>1, <1>2, <1>3, EmptyLoop DEF receive
<1>4. CASE timed_receive(c)
  BY <1>1, <1>2, <1>4, EmptyLoop DEF timed_receive
<1> QED BY <1>3, <1>4

LEMMA TryReceiveStep ==
  ASSUME IInv, NEW c \in Consumers, try_receive(c)
  PROVE  IInv'
<1> USE DEF IInv, TypeOK
<1>1. /\ waiting' \subseteq waiting
      /\ UNCHANGED <<enq, deq, expired, pc, calls>>
  BY NotifyShrinks DEF try_receive
<1>2. /\ q' \in Seq(Message) /\ Len(q') = Len(q) - 1 /\ Len(q) \in Nat
      /\ received' \in Seq(Message)
  BY PopType, PushType DEF try_receive, popBlock
<1>3. CountersExact' /\ WaitDiscipline'
  BY <1>1 DEF CountersExact, WaitDiscipline, Sending, Receiving
<1> QED BY <1>1, <1>2, <1>3, CapacityPositive DEF CapacityRespected

LEMMA ResumeReceiveStep ==
  ASSUME IInv, NEW c \in Consumers, ResumeReceive(c)
  PROVE  IInv'
<1>1. c \in Receiving
  BY DEF ResumeReceive, Receiving
<1>2. deq - 1 = Cardinality(Receiving \ {c}) /\ deq - 1 \in Nat
  <2>1. /\ Cardinality(Receiving \ {c}) = Cardinality(Receiving) - 1
        /\ IsFiniteSet(Receiving \ {c})
    BY <1>1, BlockedFinite, FS_RemoveElement
  <2>2. Cardinality(Receiving \ {c}) \in Nat
    BY <2>1, FS_CardinalityType
  <2> QED BY <2>1, <2>2 DEF IInv, CountersExact
<1> QED BY <1>2, EmptyLoop DEF ResumeReceive

LEMMA ExpireReceiveStep ==
  ASSUME IInv, NEW c \in Consumers, ExpireReceive(c)
  PROVE  IInv'
<1>1. c \in Threads /\ c \in Receiving /\ c \notin Sending
  BY ThreadsAssumption DEF ExpireReceive, Sending, Receiving, Threads
<1>2. enq' = Cardinality(Sending \ {c}) /\ deq' = Cardinality(Receiving \ {c})
  <2>1. Sending \ {c} = Sending
    BY <1>1
  <2> QED BY <1>1, <2>1, BlockedFinite, FS_RemoveElement
          DEF ExpireReceive, IInv, CountersExact
<1>3. waiting' \subseteq waiting /\ c \notin waiting'
  BY NotifyShrinks DEF ExpireReceive, IInv, WaitDiscipline
<1> QED BY <1>1, <1>2, <1>3, LeaveWait DEF ExpireReceive

LEMMA WakeSteps ==
  ASSUME IInv, NEW t \in Threads, SpuriousWakeup(t) \/ Timeout(t)
  PROVE  IInv'
<1> USE DEF IInv, TypeOK
<1>1. /\ waiting' = waiting \ {t} /\ expired' \subseteq expired \cup {t}
      /\ t \in waiting /\ UNCHANGED <<q, enq, deq, pc, calls, received>>
  BY DEF SpuriousWakeup, Timeout
<1>2. CountersExact' /\ CapacityRespected'
  BY <1>1 DEF CountersExact, CapacityRespected, Sending, Receiving
<1>3. WaitDiscipline'
  BY <1>1 DEF WaitDiscipline
<1> QED BY <1>1, <1>2, <1>3

-----------------------------------------------------------------------------
(* Theorems                                                                 *)

LEMMA InitIInv == Init => IInv
<1> SUFFICES ASSUME Init PROVE IInv
  OBVIOUS
<1>1. TypeOK
  BY EmptySeq, MaxCallsAssumption DEF Init, TypeOK, Operations
<1>2. WaitDiscipline
  BY DEF Init, WaitDiscipline, Threads
<1>3. CapacityRespected
  BY EmptySeq, CapacityPositive DEF Init, CapacityRespected
<1>4. CountersExact
  <2>1. Sending = {} /\ Receiving = {}
    BY DEF Init, Sending, Receiving, Threads
  <2> QED BY <2>1, FS_EmptySet DEF Init, CountersExact
<1> QED BY <1>1, <1>2, <1>3, <1>4 DEF IInv

LEMMA NextIInv == IInv /\ [Next]_vars => IInv'
<1> SUFFICES ASSUME IInv, [Next]_vars PROVE IInv'
  OBVIOUS
<1>1. ASSUME NEW p \in Producers, ProducerStep(p) PROVE IInv'
  BY <1>1, SendSteps, TrySendStep, ResumeSendStep, ExpireSendStep
     DEF ProducerStep
<1>2. ASSUME NEW c \in Consumers, ConsumerStep(c) PROVE IInv'
  BY <1>2, ReceiveSteps, TryReceiveStep, ResumeReceiveStep, ExpireReceiveStep
     DEF ConsumerStep
<1>3. ASSUME NEW t \in Threads, SpuriousWakeup(t) \/ Timeout(t) PROVE IInv'
  BY <1>3, WakeSteps
<1>4. CASE UNCHANGED vars
  BY <1>4 DEF vars, IInv, TypeOK, WaitDiscipline, CapacityRespected,
              CountersExact, Sending, Receiving
<1> QED BY <1>1, <1>2, <1>3, <1>4 DEF Next

\* Every reachable state satisfies the inductive invariant.
LEMMA Invariance == Spec => []IInv
BY InitIInv, NextIInv, PTL DEF Spec

\* The type invariant of the queue, enq and deq never below 0 included.
THEOREM TypeCorrect == Spec => []TypeOK
<1>1. IInv => TypeOK
  BY DEF IInv
<1> QED BY <1>1, Invariance, PTL

\* The queue never holds more blocks than its capacity, although only
\* equality is tested before a push.
THEOREM CapacityIsRespected == Spec => []CapacityRespected
<1>1. IInv => CapacityRespected
  BY DEF IInv
<1> QED BY <1>1, Invariance, PTL

\* enq and deq are exactly the numbers of threads inside a wait, whatever
\* the mixture of blocking and timed operations.
THEOREM CountersAreExact == Spec => []CountersExact
<1>1. IInv => CountersExact
  BY DEF IInv
<1> QED BY <1>1, Invariance, PTL

-----------------------------------------------------------------------------
(* What a step does to the messages: it appends one at the end of the line  *)
(* of all messages, moves the border between received and queued ones, or   *)
(* does neither.                                                            *)

Line == received \o q

\* Producer p pushes the message of its current call.
Pushes(p) ==
  /\ Len(q) < n
  /\ <<p, calls'[p]>> \in Message
  /\ q' = Append(q, <<p, calls'[p]>>)
  /\ UNCHANGED received
  /\ pc' = [pc EXCEPT ![p] = "idle"]
  /\ \/ calls' = [calls EXCEPT ![p] = @ + 1]
     \/ pc[p] # "idle" /\ UNCHANGED calls

Pops == q # <<>> /\ popBlock /\ UNCHANGED calls

\* No message moves; a producer may enter a call without sending (yet).
Keeps ==
  /\ UNCHANGED <<q, received>>
  /\ \A p \in Producers :
       \/ calls'[p] = calls[p] + 1
       \/ calls'[p] = calls[p] /\ (pc'[p] # "idle" => pc[p] # "idle")

LEMMA ProducerEffect ==
  ASSUME IInv, NEW p \in Producers, ProducerStep(p)
  PROVE  Pushes(p) \/ Keeps
<1> USE DEF IInv, TypeOK
<1>1. n \in Nat /\ Len(q) \in Nat /\ Len(q) <= n /\ p \in Threads
  BY CapacityPositive, LenProperties DEF CapacityRespected, Threads
<1>2. ASSUME NEW op, NEW e, Call(p),
             waitOnCapacity(p, op, e, <<p, calls[p] + 1>>), UNCHANGED received
      PROVE  Pushes(p) \/ Keeps
  <2>1. /\ calls' = [calls EXCEPT ![p] = @ + 1] /\ calls'[p] = calls[p] + 1
        /\ <<p, calls'[p]>> \in Message
    BY <1>2, CallStep DEF Call
  <2>2. CASE Len(q) # n
    BY <1>1, <1>2, <2>1, <2>2 DEF waitOnCapacity, Pushes
  <2>3. CASE Len(q) = n
    BY <1>1, <1>2, <2>1, <2>3 DEF waitOnCapacity, Keeps, Threads
  <2> QED BY <2>2, <2>3
<1>3. CASE send(p)
  BY <1>2, <1>3 DEF send
<1>4. CASE timed_send(p)
  BY <1>2, <1>4 DEF timed_send
<1>5. CASE try_send(p)
  <2>1. /\ calls' = [calls EXCEPT ![p] = @ + 1] /\ calls'[p] = calls[p] + 1
        /\ <<p, calls'[p]>> \in Message /\ pc[p] = "idle"
    BY <1>5, CallStep DEF Call, try_send
  <2>2. pc' = pc /\ pc = [pc EXCEPT ![p] = "idle"]
    BY <1>1, <1>5, <2>1 DEF try_send
  <2> QED BY <1>1, <1>5, <2>1, <2>2 DEF try_send, Pushes, Keeps
<1>6. CASE ResumeSend(p)
  <2>1. <<p, calls[p]>> \in Message
    BY <1>6, MaxCallsAssumption DEF ResumeSend, WaitDiscipline, Message
  <2>2. CASE Len(q) # n
    BY <1>1, <1>6, <2>1, <2>2 DEF ResumeSend, waitOnCapacity, Pushes
  <2>3. CASE Len(q) = n
    BY <1>1, <1>6, <2>3 DEF ResumeSend, waitOnCapacity, Keeps, Threads
  <2> QED BY <2>2, <2>3
<1>7. CASE ExpireSend(p)
  BY <1>1, <1>7 DEF ExpireSend, Keeps, Threads
<1> QED BY <1>3, <1>4, <1>5, <1>6, <1>7 DEF ProducerStep

LEMMA StepEffect ==
  ASSUME IInv, [Next]_vars
  PROVE  \/ \E p \in Producers : Pushes(p)
         \/ Pops /\ \A p \in Producers : pc'[p] = pc[p]
         \/ Keeps
<1>1. ASSUME NEW c \in Consumers, ConsumerStep(c)
      PROVE  (Pops \/ Keeps) /\ \A p \in Producers : pc'[p] = pc[p]
  <2>1. c \in Threads /\ c \notin Producers /\ pc \in [Threads -> Operations]
    BY ThreadsAssumption DEF Threads, IInv, TypeOK
  <2>2. \A p \in Producers : pc'[p] = pc[p]
    BY <1>1, <2>1 DEF ConsumerStep, receive, timed_receive, try_receive,
          ResumeReceive, ExpireReceive, waitOnEmpty, Threads
  <2>3. UNCHANGED calls /\ ((q # <<>> /\ popBlock) \/ UNCHANGED <<q, received>>)
    BY <1>1 DEF ConsumerStep, receive, timed_receive, try_receive,
          ResumeReceive, ExpireReceive, waitOnEmpty
  <2> QED BY <2>2, <2>3 DEF Pops, Keeps
<1>2. ASSUME NEW t \in Threads, SpuriousWakeup(t) \/ Timeout(t) PROVE Keeps
  BY <1>2 DEF SpuriousWakeup, Timeout, Keeps
<1>3. CASE UNCHANGED vars
  BY <1>3 DEF vars, Keeps
<1> QED BY <1>1, <1>2, <1>3, ProducerEffect DEF Next

LEMMA LineType ==
  ASSUME IInv
  PROVE  /\ Line \in Seq(Message)
         /\ Len(Line) = Len(received) + Len(q)
         /\ Len(received) \in Nat /\ Len(q) \in Nat
         /\ DOMAIN Line = 1 .. Len(Line)
BY ConcatProperties, LenProperties DEF IInv, TypeOK, Line

LEMMA PushLine ==
  ASSUME IInv, NEW p \in Producers, Pushes(p)
  PROVE  Line' = Append(Line, <<p, calls'[p]>>)
<1> DEFINE m == <<p, calls'[p]>>
<1>1. q \in Seq(Message) /\ received \in Seq(Message) /\ m \in Message
  BY DEF IInv, TypeOK, Pushes
<1>2. <<m>> \in Seq(Message)
  BY <1>1
<1>3. Append(q, m) = q \o <<m>>
  BY <1>1, AppendIsConcat
<1>4. (received \o q) \o <<m>> = received \o (q \o <<m>>)
  BY <1>1, <1>2, ConcatAssociative
<1>5. received \o q \in Seq(Message)
  BY <1>1, ConcatProperties
<1>6. Append(received \o q, m) = (received \o q) \o <<m>>
  BY <1>1, <1>5, AppendIsConcat
<1> QED BY <1>3, <1>4, <1>6 DEF Pushes, Line

LEMMA PopLine ==
  ASSUME IInv, Pops
  PROVE  /\ Line' = Line
         /\ Len(received) < Len(Line)
         /\ received' = Append(received, Line[Len(received) + 1])
<1>1. q \in Seq(Message) /\ received \in Seq(Message) /\ q # <<>>
  BY DEF IInv, TypeOK, Pops
<1>2. Head(q) \in Message /\ Tail(q) \in Seq(Message) /\ <<Head(q)>> \in Seq(Message)
  BY <1>1, HeadTailProperties
<1>3. q = <<Head(q)>> \o Tail(q)
  BY <1>1, <1>2
<1>4. Append(received, Head(q)) = received \o <<Head(q)>>
  BY <1>1, <1>2, AppendIsConcat
<1>5. (received \o <<Head(q)>>) \o Tail(q) = received \o (<<Head(q)>> \o Tail(q))
  BY <1>1, <1>2, ConcatAssociative
<1>6. Line' = Line
  BY <1>3, <1>4, <1>5 DEF Line, Pops, popBlock
<1>7. Len(q) \in Nat \ {0} /\ Len(received) \in Nat
  BY <1>1, EmptySeq, LenProperties
<1>8. Line[Len(received) + 1] = q[1] /\ q[1] = Head(q)
  BY <1>1, <1>7, ConcatProperties DEF Line
<1> QED BY <1>6, <1>7, <1>8, LineType DEF Pops, popBlock

\* The queue implements the first-in first-out channel of capacity n: all
\* messages entered, in order, are the received ones followed by the queue.
THEOREM QueueImplementsChannel == Spec => ImplementsChannel
<1>1. Init => Channel!ChanInit
  BY DEF Init, Channel!ChanInit
<1>2. ASSUME IInv, [Next]_vars
      PROVE  [Channel!ChanNext]_(Channel!chanVars)
  <2>1. ASSUME NEW p \in Producers, Pushes(p) PROVE Channel!ChanNext
    <3>1. Channel!Put(<<p, calls'[p]>>)
      BY <1>2, <2>1, PushLine, LineType DEF Channel!Put, Line, Pushes
    <3> QED BY <2>1, <3>1 DEF Channel!ChanNext, Pushes
  <2>2. CASE Pops
    <3>1. Channel!Take
      BY <1>2, <2>2, PopLine DEF Channel!Take, Line
    <3> QED BY <3>1 DEF Channel!ChanNext
  <2>3. CASE Keeps
    BY <2>3 DEF Keeps, Channel!chanVars
  <2> QED BY <1>2, <2>1, <2>2, <2>3, StepEffect
<1> QED BY <1>1, <1>2, Invariance, PTL DEF Spec, ImplementsChannel, Channel!ChanSpec

-----------------------------------------------------------------------------
(* Order.  OrderPreserved is not inductive: a push is in order because no   *)
(* message of the producer's current call is in the line yet.               *)

CallsCoverLine ==
  \A i \in 1 .. Len(Line) :
    /\ Line[i][2] <= calls[Line[i][1]]
    /\ pc[Line[i][1]] # "idle" => Line[i][2] < calls[Line[i][1]]

OrderInv == OrderPreserved /\ CallsCoverLine

LEMMA NextOrder ==
  ASSUME IInv, OrderInv, [Next]_vars
  PROVE  OrderInv'
<1>1. /\ Line \in Seq(Message) /\ Len(Line) \in Nat
      /\ \A i \in 1 .. Len(Line) :
           Line[i] \in Message /\ Line[i][1] \in Producers /\ Line[i][2] \in 1 .. MaxCalls
      /\ DOMAIN Line = 1 .. Len(Line)
  BY LineType, ElementOfSeq, LenProperties DEF Message
<1>2. calls \in [Producers -> 0 .. MaxCalls] /\ pc \in [Threads -> Operations]
  BY DEF IInv, TypeOK
<1>3. ASSUME NEW p \in Producers, Pushes(p) PROVE OrderInv'
  <2> DEFINE m == <<p, calls'[p]>>
  <2>1. /\ Line' = Append(Line, m) /\ m \in Message
    BY <1>3, PushLine DEF Pushes
  <2>2. /\ Len(Line') = Len(Line) + 1 /\ DOMAIN Line' = 1 .. Len(Line) + 1
        /\ \A i \in 1 .. Len(Line) : Line'[i] = Line[i]
        /\ Line'[Len(Line) + 1] = m
    BY <1>1, <2>1, AppendProperties, LenProperties
  <2>3. /\ calls'[p] \in Int
        /\ \A i \in 1 .. Len(Line) : Line[i][1] = p => Line[i][2] < calls'[p]
    BY <1>1, <1>2, <1>3, MaxCallsAssumption
       DEF Pushes, OrderInv, CallsCoverLine
  <2>4. OrderPreserved'
    <3>1. \A i, j \in 1 .. Len(Line) :
            i < j /\ Line[i][1] = Line[j][1] => Line[i][2] < Line[j][2]
      BY <1>1 DEF OrderInv, OrderPreserved, Line
    <3>2. \A i, j \in 1 .. Len(Line) + 1 :
            i < j /\ Line'[i][1] = Line'[j][1] => Line'[i][2] < Line'[j][2]
      <4> SUFFICES ASSUME NEW i \in 1 .. Len(Line) + 1, NEW j \in 1 .. Len(Line) + 1,
                          i < j, Line'[i][1] = Line'[j][1]
                   PROVE  Line'[i][2] < Line'[j][2]
        OBVIOUS
      <4>1. i \in 1 .. Len(Line) /\ Line'[i] = Line[i]
        BY <1>1, <2>2
      <4>2. CASE j = Len(Line) + 1
        BY <2>2, <2>3, <4>1, <4>2
      <4>3. CASE j \in 1 .. Len(Line)
        BY <2>2, <3>1, <4>1, <4>3
      <4>4. \A l \in Nat : j \in 1 .. l + 1 => j = l + 1 \/ j \in 1 .. l
        OBVIOUS
      <4>5. j = Len(Line) + 1 \/ j \in 1 .. Len(Line)
        BY <1>1, <4>4, Zenon
      <4> QED BY <4>2, <4>3, <4>5, Zenon
    <3> QED BY <2>2, <3>2 DEF OrderPreserved, Line
  <2>5. /\ pc'[p] = "idle"
        /\ \A r \in Producers \ {p} : calls'[r] = calls[r] /\ pc'[r] = pc[r]
    BY <1>2, <1>3 DEF Pushes, Threads
  <2>6. CallsCoverLine'
    BY <1>1, <2>2, <2>3, <2>5 DEF OrderInv, CallsCoverLine
  <2> QED BY <2>4, <2>6 DEF OrderInv
<1>4. CASE Pops /\ \A p \in Producers : pc'[p] = pc[p]
  <2>1. Line' = Line /\ calls' = calls
    BY <1>4, PopLine DEF Pops
  <2> QED BY <1>1, <1>4, <2>1 DEF OrderInv, OrderPreserved, CallsCoverLine, Line
<1>5. CASE Keeps
  <2>1. Line' = Line
    BY <1>5 DEF Keeps, Line
  <2>2. CallsCoverLine'
    <3> SUFFICES ASSUME NEW i \in 1 .. Len(Line)
                 PROVE  /\ Line[i][2] <= calls'[Line[i][1]]
                        /\ pc'[Line[i][1]] # "idle" => Line[i][2] < calls'[Line[i][1]]
      BY <2>1 DEF CallsCoverLine
    <3> DEFINE r == Line[i][1]
               k == Line[i][2]
    <3>1. r \in Producers /\ k \in Nat
      BY <1>1, MaxCallsAssumption
    <3>2. calls[r] \in Nat
      BY <1>2, <3>1, MaxCallsAssumption
    <3>3. k <= calls[r] /\ (pc[r] # "idle" => k < calls[r])
      BY DEF OrderInv, CallsCoverLine
    <3>4. \/ calls'[r] = calls[r] + 1
          \/ calls'[r] = calls[r] /\ (pc'[r] # "idle" => pc[r] # "idle")
      BY <1>5, <3>1 DEF Keeps
    <3> HIDE DEF r, k
    <3>5. k <= calls'[r] /\ (pc'[r] # "idle" => k < calls'[r])
      BY <3>1, <3>2, <3>3, <3>4
    <3> QED BY <3>5 DEF r, k
  <2>3. OrderPreserved'
    BY <2>1 DEF OrderInv, OrderPreserved, Line
  <2> QED BY <2>2, <2>3 DEF OrderInv
<1> QED BY <1>3, <1>4, <1>5, StepEffect

\* The messages of a producer are received in the order of its calls, none
\* twice, whatever mixture of operations the threads use.
THEOREM OrderIsPreserved == Spec => []OrderPreserved
<1>1. Init => OrderInv
  <2>1. ASSUME Init PROVE Line = <<>>
    BY <2>1, ConcatEmptySeq, EmptySeq DEF Init, Line
  <2> QED BY <2>1, EmptySeq DEF OrderInv, OrderPreserved, CallsCoverLine, Line
<1>2. OrderInv => OrderPreserved
  BY DEF OrderInv
<1>3. IInv /\ OrderInv /\ [Next]_vars => OrderInv'
  BY NextOrder
<1> QED BY <1>1, <1>2, <1>3, Invariance, PTL DEF Spec

-----------------------------------------------------------------------------
(* One producer and one consumer: no wake-up is lost, at any capacity.      *)

\* A thread that waits and was not notified has a reason to wait.
WaitsForReason ==
  /\ \A c \in Consumers \cap waiting : q = <<>>
  /\ \A p \in Producers \cap waiting : Len(q) = n

\* A push is announced, and the pushing thread is not itself waiting.
LEMMA PushNotifies ==
  ASSUME IInv, NEW p \in Producers, ProducerStep(p)
  PROVE  \/ /\ UNCHANGED q
            /\ waiting' \subseteq waiting \cup {p}
            /\ p \in waiting' => Len(q) = n
         \/ notifyConsumer /\ p \notin waiting
<1>1. pc[p] = "idle" => p \notin waiting
  BY DEF IInv, WaitDiscipline
<1>2. p \in expired => p \notin waiting
  BY DEF IInv, WaitDiscipline
<1> QED BY <1>1, <1>2, NotifyShrinks DEF ProducerStep, send, timed_send,
        try_send, ResumeSend, ExpireSend, waitOnCapacity, Call

LEMMA PopNotifies ==
  ASSUME IInv, NEW c \in Consumers, ConsumerStep(c)
  PROVE  \/ /\ UNCHANGED q
            /\ waiting' \subseteq waiting \cup {c}
            /\ c \in waiting' => q = <<>>
         \/ notifyProducer /\ c \notin waiting
<1>1. pc[c] = "idle" => c \notin waiting
  BY DEF IInv, WaitDiscipline
<1>2. c \in expired => c \notin waiting
  BY DEF IInv, WaitDiscipline
<1> QED BY <1>1, <1>2, NotifyShrinks DEF ConsumerStep, receive, timed_receive,
        try_receive, ResumeReceive, ExpireReceive, waitOnEmpty

LEMMA NextReason ==
  ASSUME NEW p, NEW c, Producers = {p}, Consumers = {c},
         IInv, WaitsForReason, [Next]_vars
  PROVE  WaitsForReason'
<1>1. waiting \subseteq {p, c} /\ p # c
  BY ThreadsAssumption DEF IInv, TypeOK, Threads
<1>2. c \in waiting => deq > 0
  <2>1. c \in waiting => Receiving # {}
    BY DEF IInv, WaitDiscipline, Receiving
  <2> QED BY <2>1, BlockedFinite, FS_EmptySet DEF IInv, CountersExact
<1>3. p \in waiting => enq > 0
  <2>1. p \in waiting => Sending # {}
    BY DEF IInv, WaitDiscipline, Sending
  <2> QED BY <2>1, BlockedFinite, FS_EmptySet DEF IInv, CountersExact
<1>4. CASE ProducerStep(p)
  <2>1. CASE notifyConsumer /\ p \notin waiting
    <3>1. waiting' = {}
      BY <1>1, <1>2, <2>1 DEF notifyConsumer, NotifyOne
    <3> QED BY <3>1 DEF WaitsForReason
  <2> QED BY <1>1, <1>4, <2>1, PushNotifies DEF WaitsForReason
<1>5. CASE ConsumerStep(c)
  <2>1. CASE notifyProducer /\ c \notin waiting
    <3>1. waiting' = {}
      BY <1>1, <1>3, <2>1 DEF notifyProducer, NotifyOne
    <3> QED BY <3>1 DEF WaitsForReason
  <2> QED BY <1>1, <1>5, <2>1, PopNotifies DEF WaitsForReason
<1>6. ASSUME NEW t \in Threads, SpuriousWakeup(t) \/ Timeout(t)
      PROVE  WaitsForReason'
  BY <1>6 DEF SpuriousWakeup, Timeout, WaitsForReason
<1>7. CASE UNCHANGED vars
  BY <1>7 DEF vars, WaitsForReason
<1> QED BY <1>4, <1>5, <1>6, <1>7 DEF Next

\* Between one producer and one consumer no wake-up is ever lost, whatever
\* the capacity: REQUEST_MQ, CYCLE_BREAKER_MQ, NEIGHBOR_IN_MQ, JOIN_IN_MQ and
\* NEIGHBOR_OUT_MQ of a daemon are used that way.  With more threads on
\* a side than places, notify_one may release a thread of the wrong side.
THEOREM OneToOneNeverLosesWakeup ==
  ASSUME NEW p, NEW c, Producers = {p}, Consumers = {c}
  PROVE  Spec => []NoLostWakeup
<1>1. Init => WaitsForReason
  BY DEF Init, WaitsForReason
<1>2. IInv /\ WaitsForReason /\ [Next]_vars => WaitsForReason'
  BY NextReason
<1>3. IInv /\ WaitsForReason => NoLostWakeup
  <2> SUFFICES ASSUME IInv, WaitsForReason, q # <<>> \/ Sending # {}
               PROVE  \E t \in Threads : Awake(t)
    BY DEF NoLostWakeup
  <2>1. p \in Threads /\ c \in Threads /\ c \in Consumers
    BY DEF Threads
  <2>2. CASE c \notin waiting
    BY <2>1, <2>2 DEF Awake
  <2>3. CASE c \in waiting
    <3>1. q = <<>> /\ p \in Sending
      BY <2>3 DEF WaitsForReason, Sending
    <3>2. p \notin waiting
      BY <3>1, EmptySeq, CapacityPositive DEF WaitsForReason
    <3> QED BY <2>1, <3>1, <3>2 DEF Awake, Sending
  <2> QED BY <2>2, <2>3
<1> QED BY <1>1, <1>2, <1>3, Invariance, PTL DEF Spec

-----------------------------------------------------------------------------
(* Several threads on a side: no wake-up is lost when the queue has room    *)
(* for all of them.  A producer sleeps at a full queue only, a consumer at  *)
(* an empty one only, and each pop or push in between wakes one of the      *)
(* sleepers: sleepers of the two sides never meet, so that notify_one       *)
(* cannot pick a thread of the wrong side.                                  *)

WaitingProducers == Producers \cap waiting

WaitingConsumers == Consumers \cap waiting

\* The sleeping producers are at most the messages, the sleeping consumers at
\* most the free places, and a message has a consumer that is awake.
RoomForAll ==
  /\ Cardinality(WaitingProducers) <= Len(q)
  /\ Cardinality(WaitingConsumers) <= n - Len(q)
  /\ WaitingProducers = {} \/ WaitingConsumers = {}
  /\ WaitingConsumers = Consumers => q = <<>>

\* The sleepers of a side are finitely many, and counted by enq or deq.
LEMMA SleepersCounted ==
  ASSUME IInv
  PROVE  /\ IsFiniteSet(WaitingProducers) /\ IsFiniteSet(WaitingConsumers)
         /\ waiting = WaitingProducers \cup WaitingConsumers
         /\ WaitingProducers # {} => enq > 0
         /\ WaitingConsumers # {} => deq > 0
<1>1. WaitingProducers \in SUBSET Producers /\ WaitingConsumers \in SUBSET Consumers
  BY DEF WaitingProducers, WaitingConsumers
<1>2. IsFiniteSet(WaitingProducers) /\ IsFiniteSet(WaitingConsumers)
  BY <1>1, ThreadsAssumption, FS_Subset
<1>3. waiting = WaitingProducers \cup WaitingConsumers
  BY DEF IInv, TypeOK, Threads, WaitingProducers, WaitingConsumers
<1>4. WaitingProducers # {} => Sending # {}
  BY DEF IInv, WaitDiscipline, Sending, WaitingProducers
<1>5. WaitingConsumers # {} => Receiving # {}
  BY DEF IInv, WaitDiscipline, Receiving, WaitingConsumers
<1>6. (Sending # {} => enq > 0) /\ (Receiving # {} => deq > 0)
  BY BlockedFinite, FS_EmptySet DEF IInv, CountersExact
<1> QED BY <1>2, <1>3, <1>4, <1>5, <1>6

\* Fewer sleepers are never more in number.
LEMMA FewerSleepers ==
  ASSUME IInv, waiting' \subseteq waiting
  PROVE  /\ WaitingProducers' \subseteq WaitingProducers
         /\ WaitingConsumers' \subseteq WaitingConsumers
         /\ Cardinality(WaitingProducers') <= Cardinality(WaitingProducers)
         /\ Cardinality(WaitingConsumers') <= Cardinality(WaitingConsumers)
<1>1. /\ WaitingProducers' \subseteq WaitingProducers
      /\ WaitingConsumers' \subseteq WaitingConsumers
  BY DEF WaitingProducers, WaitingConsumers
<1> QED BY <1>1, SleepersCounted, FS_Subset

\* What is left of a finite set without one of its members is one fewer.
LEMMA OneFewer ==
  ASSUME NEW S, IsFiniteSet(S), NEW t \in S
  PROVE  Cardinality(S \ {t}) = Cardinality(S) - 1 /\ Cardinality(S) \in Nat
BY FS_RemoveElement, FS_CardinalityType

\* A step that only wakes threads and leaves the messages alone.
LEMMA RoomWhenWoken ==
  ASSUME IInv, RoomForAll, waiting' \subseteq waiting, UNCHANGED q
  PROVE  RoomForAll'
<1>1. Len(q) \in Nat /\ n \in Nat
  BY CapacityPositive, LenProperties DEF IInv, TypeOK
<1>2. /\ Cardinality(WaitingProducers) \in Nat /\ Cardinality(WaitingConsumers) \in Nat
      /\ Cardinality(WaitingProducers') \in Nat /\ Cardinality(WaitingConsumers') \in Nat
  BY SleepersCounted, FewerSleepers, FS_Subset, FS_CardinalityType
<1>3. WaitingConsumers' = Consumers => WaitingConsumers = Consumers
  BY FewerSleepers DEF WaitingConsumers
<1>4. n' = n
  BY DEF n
<1> QED BY <1>1, <1>2, <1>3, <1>4, FewerSleepers DEF RoomForAll

\* A producer goes to sleep at a full queue: no consumer sleeps.
LEMMA RoomProducerSleeps ==
  ASSUME Cardinality(Producers) <= n, Consumers # {}, IInv, RoomForAll,
         NEW p \in Producers, UNCHANGED q, waiting' \subseteq waiting \cup {p}, Len(q) = n
  PROVE  RoomForAll'
<1>1. WaitingConsumers = {}
  <2>1. Cardinality(WaitingConsumers) <= 0
    BY CapacityPositive DEF RoomForAll
  <2> QED BY <2>1, SleepersCounted, FS_EmptySet, FS_CardinalityType
<1>2. WaitingConsumers' = {} /\ WaitingProducers' \in SUBSET Producers
  BY <1>1, ThreadsAssumption DEF WaitingConsumers, WaitingProducers
<1>3. Cardinality(WaitingProducers') <= Cardinality(Producers)
  BY <1>2, ThreadsAssumption, FS_Subset
<1>4. Cardinality(WaitingProducers') \in Nat /\ Cardinality(Producers) \in Nat
  BY <1>2, ThreadsAssumption, FS_Subset, FS_CardinalityType
<1>5. Cardinality(WaitingConsumers') = 0 /\ n \in Nat /\ n' = n
  BY <1>2, FS_EmptySet, CapacityPositive DEF n
<1> QED BY <1>2, <1>3, <1>4, <1>5 DEF RoomForAll

\* A consumer goes to sleep at an empty queue: no producer sleeps.
LEMMA RoomConsumerSleeps ==
  ASSUME Cardinality(Consumers) <= n, IInv, RoomForAll,
         NEW c \in Consumers, UNCHANGED q, waiting' \subseteq waiting \cup {c}, q = <<>>
  PROVE  RoomForAll'
<1>0. Len(q) = 0
  BY EmptySeq
<1>1. WaitingProducers = {}
  <2>1. Cardinality(WaitingProducers) <= 0
    BY <1>0 DEF RoomForAll
  <2> QED BY <2>1, SleepersCounted, FS_EmptySet, FS_CardinalityType
<1>2. WaitingProducers' = {} /\ WaitingConsumers' \in SUBSET Consumers
  BY <1>1, ThreadsAssumption DEF WaitingConsumers, WaitingProducers
<1>3. Cardinality(WaitingConsumers') <= Cardinality(Consumers)
  BY <1>2, ThreadsAssumption, FS_Subset
<1>4. Cardinality(WaitingConsumers') \in Nat /\ Cardinality(Consumers) \in Nat
  BY <1>2, ThreadsAssumption, FS_Subset, FS_CardinalityType
<1>5. Cardinality(WaitingProducers') = 0 /\ n \in Nat /\ n' = n
  BY <1>2, FS_EmptySet, CapacityPositive DEF n
<1> QED BY <1>0, <1>2, <1>3, <1>4, <1>5 DEF RoomForAll

\* A push, or the end of a producer's wait, wakes a consumer if one sleeps.
LEMMA RoomAfterPush ==
  ASSUME Consumers # {}, IInv, IInv', RoomForAll, notifyConsumer,
         Len(q') \in {Len(q), Len(q) + 1}
  PROVE  RoomForAll'
<1>0. /\ Len(q) \in Nat /\ Len(q') \in Nat /\ n \in Nat /\ n' = n
      /\ Len(q) <= n /\ Len(q') <= n
  BY CapacityPositive, LenProperties DEF IInv, TypeOK, CapacityRespected, n
<1>1. waiting' \subseteq waiting
  BY NotifyShrinks
<1>2. /\ Cardinality(WaitingProducers) \in Nat /\ Cardinality(WaitingConsumers) \in Nat
      /\ Cardinality(WaitingProducers') \in Nat /\ Cardinality(WaitingConsumers') \in Nat
  BY <1>1, SleepersCounted, FewerSleepers, FS_Subset, FS_CardinalityType
<1>3. CASE WaitingConsumers = {}
  <2>1. WaitingConsumers' = {}
    BY <1>1, <1>3, FewerSleepers
  <2>2. Cardinality(WaitingConsumers') = 0
    BY <2>1, FS_EmptySet
  <2> QED BY <1>0, <1>1, <1>2, <2>1, <2>2, FewerSleepers DEF RoomForAll
<1>4. CASE WaitingConsumers # {}
  <2>1. PICK t \in waiting : waiting' = waiting \ {t}
    BY <1>4, SleepersCounted DEF notifyConsumer, NotifyOne
  <2>2. WaitingProducers = {} /\ t \in WaitingConsumers
    BY <1>4, SleepersCounted DEF RoomForAll
  <2>3. WaitingProducers' = {} /\ WaitingConsumers' = WaitingConsumers \ {t}
    BY <2>1, <2>2 DEF WaitingProducers, WaitingConsumers
  <2>4. Cardinality(WaitingConsumers') = Cardinality(WaitingConsumers) - 1
    BY <2>2, <2>3, SleepersCounted, OneFewer
  <2>5. WaitingConsumers' # Consumers /\ Cardinality(WaitingProducers') = 0
    BY <2>2, <2>3, FS_EmptySet DEF WaitingConsumers
  <2> QED BY <1>0, <1>2, <2>3, <2>4, <2>5 DEF RoomForAll
<1> QED BY <1>3, <1>4

\* A pop, or the end of a consumer's wait, wakes a producer if one sleeps; the
\* consumer itself is awake.
LEMMA RoomAfterPop ==
  ASSUME IInv, IInv', RoomForAll, notifyProducer, NEW c \in Consumers, c \notin waiting,
         Len(q') \in {Len(q), Len(q) - 1}
  PROVE  RoomForAll'
<1>0. /\ Len(q) \in Nat /\ Len(q') \in Nat /\ n \in Nat /\ n' = n
      /\ Len(q) <= n /\ Len(q') <= n
  BY CapacityPositive, LenProperties DEF IInv, TypeOK, CapacityRespected, n
<1>1. waiting' \subseteq waiting
  BY NotifyShrinks
<1>2. /\ Cardinality(WaitingProducers) \in Nat /\ Cardinality(WaitingConsumers) \in Nat
      /\ Cardinality(WaitingProducers') \in Nat /\ Cardinality(WaitingConsumers') \in Nat
  BY <1>1, SleepersCounted, FewerSleepers, FS_Subset, FS_CardinalityType
<1>3. WaitingConsumers' # Consumers
  BY <1>1 DEF WaitingConsumers
<1>4. CASE WaitingProducers = {}
  <2>1. WaitingProducers' = {}
    BY <1>1, <1>4, FewerSleepers
  <2>2. Cardinality(WaitingProducers') = 0
    BY <2>1, FS_EmptySet
  <2> QED BY <1>0, <1>1, <1>2, <1>3, <2>1, <2>2, FewerSleepers DEF RoomForAll
<1>5. CASE WaitingProducers # {}
  <2>1. PICK t \in waiting : waiting' = waiting \ {t}
    BY <1>5, SleepersCounted DEF notifyProducer, NotifyOne
  <2>2. WaitingConsumers = {} /\ t \in WaitingProducers
    BY <1>5, SleepersCounted DEF RoomForAll
  <2>3. WaitingConsumers' = {} /\ WaitingProducers' = WaitingProducers \ {t}
    BY <2>1, <2>2 DEF WaitingProducers, WaitingConsumers
  <2>4. Cardinality(WaitingProducers') = Cardinality(WaitingProducers) - 1
    BY <2>2, <2>3, SleepersCounted, OneFewer
  <2>5. Cardinality(WaitingConsumers') = 0
    BY <2>3, FS_EmptySet
  <2> QED BY <1>0, <1>2, <1>3, <2>3, <2>4, <2>5 DEF RoomForAll
<1> QED BY <1>4, <1>5

LEMMA NextRoom ==
  ASSUME Cardinality(Producers) <= n, Cardinality(Consumers) <= n, Consumers # {},
         IInv, IInv', RoomForAll, [Next]_vars
  PROVE  RoomForAll'
<1>1. ASSUME NEW p \in Producers, ProducerStep(p) PROVE RoomForAll'
  <2>1. CASE UNCHANGED q /\ waiting' \subseteq waiting \cup {p} /\ (p \in waiting' => Len(q) = n)
    <3>1. CASE p \in waiting'
      BY <2>1, <3>1, RoomProducerSleeps
    <3>2. CASE p \notin waiting'
      BY <2>1, <3>2, RoomWhenWoken
    <3> QED BY <3>1, <3>2
  <2>2. CASE notifyConsumer /\ p \notin waiting
    <3>1. Len(q') \in {Len(q), Len(q) + 1}
      <4>1. CASE Pushes(p)
        BY <4>1, PushType DEF Pushes, IInv, TypeOK
      <4>2. CASE Keeps
        BY <4>2 DEF Keeps
      <4> QED BY <1>1, <4>1, <4>2, ProducerEffect
    <3> QED BY <2>2, <3>1, RoomAfterPush
  <2> QED BY <1>1, <2>1, <2>2, PushNotifies
<1>2. ASSUME NEW c \in Consumers, ConsumerStep(c) PROVE RoomForAll'
  <2>1. CASE UNCHANGED q /\ waiting' \subseteq waiting \cup {c} /\ (c \in waiting' => q = <<>>)
    <3>1. CASE c \in waiting'
      BY <2>1, <3>1, RoomConsumerSleeps
    <3>2. CASE c \notin waiting'
      BY <2>1, <3>2, RoomWhenWoken
    <3> QED BY <3>1, <3>2
  <2>2. CASE notifyProducer /\ c \notin waiting
    <3>1. (q # <<>> /\ q' = Tail(q)) \/ q' = q
      BY <1>2 DEF ConsumerStep, receive, timed_receive, try_receive, ResumeReceive,
            ExpireReceive, waitOnEmpty, popBlock
    <3>2. Len(q') \in {Len(q), Len(q) - 1}
      BY <3>1, PopType DEF IInv, TypeOK
    <3> QED BY <2>2, <3>2, RoomAfterPop
  <2> QED BY <1>2, <2>1, <2>2, PopNotifies
<1>3. ASSUME NEW t \in Threads, SpuriousWakeup(t) \/ Timeout(t) PROVE RoomForAll'
  <2>1. waiting' \subseteq waiting /\ UNCHANGED q
    BY <1>3 DEF SpuriousWakeup, Timeout
  <2> QED BY <2>1, RoomWhenWoken
<1>4. CASE UNCHANGED vars
  BY <1>4, RoomWhenWoken DEF vars
<1> QED BY <1>1, <1>2, <1>3, <1>4 DEF Next

\* No wake-up is lost in a queue with at least as many places as it has
\* producers and as it has consumers, although both sides wait on the same
\* condition variable and notify_one picks any thread: the default of 50
\* places is that for every queue of a daemon whose threads on a side are 50
\* at most.  With two producers, one consumer and one place a wake-up is lost.
THEOREM RoomForAllNeverLosesWakeup ==
  ASSUME Cardinality(Producers) <= n, Cardinality(Consumers) <= n, Consumers # {}
  PROVE  Spec => []NoLostWakeup
<1>1. Init => RoomForAll
  <2> SUFFICES ASSUME Init PROVE RoomForAll
    OBVIOUS
  <2>1. WaitingProducers = {} /\ WaitingConsumers = {} /\ q = <<>>
    BY DEF Init, WaitingProducers, WaitingConsumers
  <2>2. Cardinality({}) = 0 /\ Len(<<>>) = 0
    BY FS_EmptySet, EmptySeq
  <2> QED BY <2>1, <2>2, CapacityPositive DEF RoomForAll
<1>2. IInv /\ IInv' /\ RoomForAll /\ [Next]_vars => RoomForAll'
  BY NextRoom
<1>3. IInv /\ RoomForAll => NoLostWakeup
  <2> SUFFICES ASSUME IInv, RoomForAll, q # <<>> \/ Sending # {}
               PROVE  \E t \in Threads : Awake(t)
    BY DEF NoLostWakeup
  <2>1. CASE q # <<>>
    <3>1. PICK c \in Consumers : c \notin waiting
      BY <2>1 DEF RoomForAll, WaitingConsumers
    <3> QED BY <3>1 DEF Awake, Threads
  <2>2. CASE q = <<>> /\ Sending # {}
    <3>1. Cardinality(WaitingProducers) <= 0
      BY <2>2, EmptySeq DEF RoomForAll
    <3>2. WaitingProducers = {}
      BY <3>1, SleepersCounted, FS_EmptySet, FS_CardinalityType
    <3>3. PICK p \in Producers : pc[p] \in {"send", "timed_send"}
      BY <2>2 DEF Sending
    <3> QED BY <3>2, <3>3 DEF Awake, Threads, WaitingProducers
  <2> QED BY <2>1, <2>2
<1> QED BY <1>1, <1>2, <1>3, Invariance, PTL DEF Spec

=============================================================================
