---------------------------- MODULE ContextNetwork ----------------------------
(***************************************************************************)
(* The network of contexts: how a request travels from context to context, *)
(* how the RequestDispatcher breaks cycles with the history of a request,  *)
(* and who may use the evaluator that a context shares with its cycle      *)
(* breaker (src/mcs/NormalContext.cpp, CycleBreaker.cpp,                   *)
(* include/network/RequestDispatcher.h, src/network/NewNeighborOut.cpp,    *)
(* NewHandler.cpp).                                                        *)
(*                                                                         *)
(* A request is told apart by its query id: the context that asks, the     *)
(* order that its query_counter gave it, and the neighbor asked.  Calls of *)
(* the joiner that ask no neighbor are not counted.  Of an answer only its *)
(* end marker is kept and whether models came before it.                   *)
(* What a context joins and computes is the matter of StreamingJoiner and  *)
(* Context; here a context asks its neighbors, waits for their packs, and  *)
(* then evaluates, asks on or ends its answer in any order they may have.  *)
(***************************************************************************)
EXTENDS Integers, Sequences, Functions

CONSTANTS
  Contexts,     \* ids of the contexts, numbers; neighbors are asked in order
  Root,         \* the context that the client asks
  Client,       \* INVOKER_ID
  Topologies,   \* the neighbor relations to start from
  QueueSize,    \* capacity of every message queue
  MaxAsks,      \* bound: rounds of asking neighbors within one request
  MaxQueries    \* bound: requests of the client

ASSUME ContextsAssumption == Contexts \subseteq Nat /\ Root \in Contexts
ASSUME ClientAssumption == Client \notin Contexts
ASSUME TopologiesAssumption ==
  Topologies \subseteq [Contexts -> SUBSET Contexts]
ASSUME BoundsAssumption ==
  /\ QueueSize \in Nat \ {0}
  /\ MaxAsks \in Nat \ {0}
  /\ MaxQueries \in Nat

Invokers == Contexts \cup {Client}

Requests == [invoker : Invokers, receiver : Contexts, order : Nat,
             history : SUBSET Invokers]

Answers == [from : Contexts, to : Invokers, order : Nat, empty : BOOLEAN]

VARIABLES
  neighbors,      \* the neighbors of every context, by its query plan
  wire,           \* requests in NEIGHBOR_OUT_MQ or on a connection
  dispatcher_mq,  \* REQUEST_DISPATCHER_MQ of every daemon
  request_mq,     \* REQUEST_MQ of every context
  breaker_mq,     \* CYCLE_BREAKER_MQ of every context
  pc,             \* where the thread of a context is
  current,        \* the request it works on
  asked,          \* the neighbors it asked in this round
  marked,         \* the neighbors whose end marker it has read
  round,          \* the function that asked: ask_first_packs (from first_join
                  \* or from next_join) or ask_neighbor_and_receive
  asks,           \* rounds of this request
  query_counter,
  breaker_pc,     \* where the thread of the cycle breaker is
  breaker_req,    \* the request it works on
  answers,        \* answers on their way to the joiner that asked
  client_pc,
  orphaned        \* history: a join ended while a request was outstanding

normal == <<pc, current, asked, marked, round, asks, query_counter>>
breaker == <<breaker_pc, breaker_req>>
queues == <<dispatcher_mq, request_mq, breaker_mq>>

vars == <<neighbors, wire, dispatcher_mq, request_mq, breaker_mq, pc, current,
          asked, marked, round, asks, query_counter, breaker_pc, breaker_req,
          answers, client_pc, orphaned>>

NoRequest == [invoker |-> Client, receiver |-> Root, order |-> 0,
              history |-> {}]

Init ==
  /\ neighbors \in Topologies
  /\ wire = {}
  /\ dispatcher_mq = [c \in Contexts |-> <<>>]
  /\ request_mq = [c \in Contexts |-> <<>>]
  /\ breaker_mq = [c \in Contexts |-> <<>>]
  /\ pc = [c \in Contexts |-> "idle"]
  /\ current = [c \in Contexts |-> NoRequest]
  /\ asked = [c \in Contexts |-> {}]
  /\ marked = [c \in Contexts |-> {}]
  /\ round = [c \in Contexts |-> "first_join"]
  /\ asks = [c \in Contexts |-> 0]
  /\ query_counter = [c \in Invokers |-> 0]
  /\ breaker_pc = [c \in Contexts |-> "idle"]
  /\ breaker_req = [c \in Contexts |-> NoRequest]
  /\ answers = {}
  /\ client_pc = "idle"
  /\ orphaned = FALSE

------------------------------------------------------------------------------
(* The client asks the root, and asks on only after an answer.             *)

ClientAsk ==
  /\ client_pc = "idle"
  /\ query_counter[Client] < MaxQueries
  /\ query_counter' = [query_counter EXCEPT ![Client] = @ + 1]
  /\ wire' = wire \cup {[invoker |-> Client, receiver |-> Root,
                         order |-> query_counter[Client] + 1,
                         history |-> {Client}]}
  /\ client_pc' = "waiting"
  /\ UNCHANGED <<neighbors, queues, pc, current, asked, marked, round, asks,
                 breaker, answers, orphaned>>

ClientReceive(a) ==
  /\ client_pc = "waiting"
  /\ a.to = Client
  /\ answers' = answers \ {a}
  /\ client_pc' = "idle"
  /\ UNCHANGED <<neighbors, wire, queues, normal, breaker, orphaned>>

------------------------------------------------------------------------------
(* The daemon of the receiver.                                             *)

\* A handler reads the next request of its connection.
HandleRequest(r) ==
  LET c == r.receiver IN
  /\ \A o \in wire : o.invoker = r.invoker /\ o.receiver = c
                       => r.order <= o.order
  /\ Len(dispatcher_mq[c]) < QueueSize
  /\ wire' = wire \ {r}
  /\ dispatcher_mq' = [dispatcher_mq EXCEPT ![c] = Append(@, r)]
  /\ UNCHANGED <<neighbors, request_mq, breaker_mq, normal, breaker, answers,
                 client_pc, orphaned>>

\* Variant: a cycle goes unnoticed.
InCycleIgnored(r) == FALSE

\* The test of RequestDispatcher::startup for a cycle.
InCycle(r) == r.receiver \in r.history

\* The dispatcher serves its queue in order: it waits while the queue that
\* its next request goes to is full.
Dispatch(c) ==
  /\ dispatcher_mq[c] # <<>>
  /\ LET r == Head(dispatcher_mq[c]) IN
     \/ /\ ~InCycle(r)
        /\ Len(request_mq[c]) < QueueSize
        /\ request_mq' = [request_mq EXCEPT ![c] = Append(@, r)]
        /\ UNCHANGED breaker_mq
     \/ /\ InCycle(r)
        /\ Len(breaker_mq[c]) < QueueSize
        /\ breaker_mq' = [breaker_mq EXCEPT ![c] = Append(@, r)]
        /\ UNCHANGED request_mq
  /\ dispatcher_mq' = [dispatcher_mq EXCEPT ![c] = Tail(@)]
  /\ UNCHANGED <<neighbors, wire, normal, breaker, answers, client_pc,
                 orphaned>>

------------------------------------------------------------------------------
(* The thread of a NormalContext.                                          *)

\* Variant: the query id is built before the counter is incremented.
ForwardedOldOrder(c, r, S, order) ==
  {[invoker |-> c, receiver |-> n, order |-> order - 1,
    history |-> r.history \cup {c}] : n \in S}

\* What ask_neighbor sends to every neighbor in S on behalf of request r.
Forwarded(c, r, S, order) ==
  {[invoker |-> c, receiver |-> n, order |-> order,
    history |-> r.history \cup {c}] : n \in S}

\* Ask the neighbors in S and start to wait for their packs.
Ask(c, r, S, order, how, count) ==
  /\ wire' = wire \cup Forwarded(c, r, S, order)
  /\ query_counter' = [query_counter EXCEPT ![c] = order]
  /\ asked' = [asked EXCEPT ![c] = S]
  /\ marked' = [marked EXCEPT ![c] = {}]
  /\ round' = [round EXCEPT ![c] = how]
  /\ asks' = [asks EXCEPT ![c] = count]
  /\ pc' = [pc EXCEPT ![c] = "joining"]

\* Take the next request.  first_join asks all neighbors; the LeafJoiner of
\* a context without neighbors has an input at once.
TakeRequest(c) ==
  /\ pc[c] = "idle"
  /\ request_mq[c] # <<>>
  /\ LET r == Head(request_mq[c]) IN
     /\ current' = [current EXCEPT ![c] = r]
     /\ \/ /\ neighbors[c] # {}
           /\ Ask(c, r, neighbors[c], query_counter[c] + 1, "first_join", 1)
        \/ /\ neighbors[c] = {}
           /\ pc' = [pc EXCEPT ![c] = "joined"]
           /\ UNCHANGED <<wire, query_counter, asked, marked, round, asks>>
  /\ request_mq' = [request_mq EXCEPT ![c] = Tail(@)]
  /\ UNCHANGED <<neighbors, dispatcher_mq, breaker_mq, breaker, answers,
                 client_pc, orphaned>>

\* Variant: ask_first_packs returns with the first end marker.
ReceivePackFirst(c, a) ==
  /\ pc[c] = "joining"
  /\ a.to = c
  /\ answers' = answers \ {a}
  /\ marked' = [marked EXCEPT ![c] = @ \cup {a.from}]
  /\ pc' = [pc EXCEPT ![c] = "joined"]
  /\ UNCHANGED <<neighbors, wire, queues, current, asked, round, asks,
                 query_counter, breaker, client_pc, orphaned>>

\* Read a pack from JOIN_IN_MQ.  ask_neighbor_and_receive is over with any
\* end marker, ask_first_packs with an empty pack or when the neighbors
\* marked are those asked.
ReceivePack(c, a) ==
  /\ pc[c] = "joining"
  /\ a.to = c
  /\ answers' = answers \ {a}
  /\ marked' = [marked EXCEPT ![c] = @ \cup {a.from}]
  /\ LET left == asked[c] \ marked'[c] IN
     \/ /\ round[c] = "one"
        /\ pc' = [pc EXCEPT ![c] = "joined"]
        /\ orphaned' = (orphaned \/ left # {})
     \/ /\ round[c] # "one"
        /\ a.empty
        /\ pc' = [pc EXCEPT ![c] = IF round[c] = "first_join"
                                   THEN "ended" ELSE "joined"]
        /\ orphaned' = (orphaned \/ left # {})
     \/ /\ round[c] # "one"
        /\ ~a.empty
        /\ pc' = [pc EXCEPT ![c] = IF marked'[c] = asked[c]
                                   THEN "joined" ELSE @]
        /\ UNCHANGED orphaned
  /\ UNCHANGED <<neighbors, wire, queues, current, asked, round, asks,
                 query_counter, breaker, client_pc>>

\* Variant: the next pack is asked for before the last ones have come.
AskNextEarly(c, n) ==
  /\ pc[c] \in {"joining", "joined", "computed"}
  /\ n \in neighbors[c]
  /\ asks[c] < MaxAsks
  /\ Ask(c, current[c], {n}, query_counter[c] + 1, "one", asks[c] + 1)
  /\ UNCHANGED <<neighbors, queues, current, breaker, answers, client_pc,
                 orphaned>>

\* next_join asks neighbor n for its next pack, or, after a carry, all the
\* neighbors before n for their first packs.  It keeps its query id until it
\* finds an input.
AskNext(c, n) ==
  /\ pc[c] \in {"joined", "computed"}
  /\ n \in neighbors[c]
  /\ asks[c] < MaxAsks
  /\ LET order == IF pc[c] = "computed" THEN query_counter[c] + 1
                  ELSE query_counter[c]
         before == {m \in neighbors[c] : m < n}
     IN \/ Ask(c, current[c], {n}, order, "one", asks[c] + 1)
        \/ /\ before # {}
           /\ Ask(c, current[c], before, order, "next_join", asks[c] + 1)
  /\ UNCHANGED <<neighbors, queues, current, breaker, answers, client_pc,
                 orphaned>>

\* The join has inputs: they are sent to the evaluator one after the other,
\* each until read_and_send has read the end of its models.
Compute(c) ==
  /\ pc[c] = "joined"
  /\ pc' = [pc EXCEPT ![c] = "computing"]
  /\ UNCHANGED <<neighbors, wire, queues, current, asked, marked, round, asks,
                 query_counter, breaker, answers, client_pc, orphaned>>

ComputeEnds(c) ==
  /\ pc[c] = "computing"
  /\ pc' = [pc EXCEPT ![c] = "computed"]
  /\ UNCHANGED <<neighbors, wire, queues, current, asked, marked, round, asks,
                 query_counter, breaker, answers, client_pc, orphaned>>

\* Variant: sender and receiver of an answer are swapped.
AnswerSwapped(r, empty) == [from |-> r.invoker, to |-> r.receiver,
                            order |-> r.order, empty |-> empty]

Answer(r, empty) == [from |-> r.receiver, to |-> r.invoker,
                     order |-> r.order, empty |-> empty]

\* No more inputs, or k2 is reached: send the end marker.
SendMarker(c, empty) ==
  /\ \/ pc[c] = "computed"
     \/ pc[c] \in {"joined", "ended"} /\ empty
  /\ answers' = answers \cup {Answer(current[c], empty)}
  /\ pc' = [pc EXCEPT ![c] = "idle"]
  /\ UNCHANGED <<neighbors, wire, queues, current, asked, marked, round, asks,
                 query_counter, breaker, client_pc, orphaned>>

------------------------------------------------------------------------------
(* The thread of a CycleBreaker.                                           *)

BreakCycle(c) ==
  /\ breaker_pc[c] = "idle"
  /\ breaker_mq[c] # <<>>
  /\ breaker_req' = [breaker_req EXCEPT ![c] = Head(breaker_mq[c])]
  /\ breaker_mq' = [breaker_mq EXCEPT ![c] = Tail(@)]
  /\ breaker_pc' = [breaker_pc EXCEPT ![c] = "computing"]
  /\ UNCHANGED <<neighbors, wire, dispatcher_mq, request_mq, normal, answers,
                 client_pc, orphaned>>

BreakerSendMarker(c, empty) ==
  /\ breaker_pc[c] = "computing"
  /\ answers' = answers \cup {Answer(breaker_req[c], empty)}
  /\ breaker_pc' = [breaker_pc EXCEPT ![c] = "idle"]
  /\ UNCHANGED <<neighbors, wire, queues, normal, breaker_req, client_pc,
                 orphaned>>

------------------------------------------------------------------------------

\* What the thread of a context does next once it has joined.
Proceed(c) ==
  \/ \E n \in Contexts : AskNext(c, n)
  \/ Compute(c)
  \/ \E empty \in BOOLEAN : SendMarker(c, empty)

ContextStep(c) ==
  \/ Dispatch(c)
  \/ TakeRequest(c)
  \/ \E a \in answers : ReceivePack(c, a)
  \/ Proceed(c)
  \/ ComputeEnds(c)
  \/ BreakCycle(c)
  \/ \E empty \in BOOLEAN : BreakerSendMarker(c, empty)

\* The network is followed up to the first orphan; what a joiner does with
\* an orphan's answer is part of StreamingJoiner.
Next ==
  /\ ~orphaned
  /\ \/ ClientAsk
     \/ \E a \in answers : ClientReceive(a)
     \/ \E r \in wire : HandleRequest(r)
     \/ \E c \in Contexts : ContextStep(c)

\* Every thread goes on when it can: the client, the handlers, and of each
\* daemon the dispatcher, the context and the cycle breaker.
Fairness ==
  /\ WF_vars(ClientAsk)
  /\ WF_vars(\E a \in answers : ClientReceive(a))
  /\ WF_vars(\E r \in wire : HandleRequest(r))
  /\ \A c \in Contexts :
       /\ WF_vars(Dispatch(c))
       /\ WF_vars(TakeRequest(c))
       /\ WF_vars(\E a \in answers : ReceivePack(c, a))
       /\ WF_vars(Proceed(c))
       /\ WF_vars(ComputeEnds(c))
       /\ WF_vars(BreakCycle(c))
       /\ WF_vars(\E empty \in BOOLEAN : BreakerSendMarker(c, empty))

Spec == Init /\ [][Next]_vars

FairSpec == Spec /\ Fairness

------------------------------------------------------------------------------
(* Properties.                                                             *)

\* The requests that context c holds.
Held(c) ==
  Range(dispatcher_mq[c]) \cup Range(request_mq[c]) \cup Range(breaker_mq[c])
  \cup (IF pc[c] = "idle" THEN {} ELSE {current[c]})
  \cup (IF breaker_pc[c] = "idle" THEN {} ELSE {breaker_req[c]})

\* The requests that have not been answered yet.
Live == wire \cup UNION {Held(c) : c \in Contexts}

\* Type invariant.
TypeOK ==
  /\ neighbors \in [Contexts -> SUBSET Contexts]
  /\ wire \subseteq Requests
  /\ \A mq \in {dispatcher_mq, request_mq, breaker_mq} :
       mq \in [Contexts -> Seq(Requests)]
  /\ pc \in [Contexts -> {"idle", "joining", "joined", "computing",
                           "computed", "ended"}]
  /\ current \in [Contexts -> Requests]
  /\ asked \in [Contexts -> SUBSET Contexts]
  /\ marked \in [Contexts -> SUBSET Contexts]
  /\ round \in [Contexts -> {"first_join", "next_join", "one"}]
  /\ asks \in [Contexts -> Nat]
  /\ query_counter \in [Invokers -> Nat]
  /\ breaker_pc \in [Contexts -> {"idle", "computing"}]
  /\ breaker_req \in [Contexts -> Requests]
  /\ answers \subseteq Answers
  /\ client_pc \in {"idle", "waiting"}
  /\ orphaned \in BOOLEAN

\* A context and its cycle breaker share one evaluator, its two queues and
\* its counter of models (NormalContext.cpp:167).  They never use it at the
\* same time: a cycle breaker only works for a request that went through the
\* context, and that context waits in its joiner until it is answered, as
\* long as no join ends early.
EvaluatorExclusive ==
  ~orphaned => \A c \in Contexts :
                 ~(pc[c] = "computing" /\ breaker_pc[c] = "computing")

\* An invoker has at most one request open with a context, its cycle breaker
\* included.  So the models of two answers are never mixed in the one output
\* queue and the one pack that a NewOutputThread keeps for the invoker
\* (NewOutputThread.cpp:90-115).
OneRequestPerInvoker ==
  ~orphaned => \A r, q \in Live :
                 r.invoker = q.invoker /\ r.receiver = q.receiver => r = q

\* An answer that reaches a joiner belongs to the query that the joiner waits
\* for, and to a neighbor that has not answered it yet
\* (StreamingJoiner.cpp:281 and 497 assert this of models).
AnswerToOpenQuery ==
  ~orphaned => \A a \in answers :
                 IF a.to = Client
                 THEN client_pc = "waiting" /\ a.order = query_counter[Client]
                 ELSE /\ pc[a.to] = "joining"
                      /\ a.from \in asked[a.to] \ marked[a.to]
                      /\ a.order = query_counter[a.to]

\* Every request of the client is answered, unless a join ended early: no
\* context waits for ever for another one, and no cycle breaker for a request
\* that a dispatcher cannot pass on (RequestDispatcher.h:77).  This needs two
\* things of an instance: every cycle is entered through one context, and a
\* queue has room for the requests that can come together in it.
ClientAnswered ==
  [](client_pc = "waiting" => <>(client_pc = "idle" \/ orphaned))

------------------------------------------------------------------------------
(* When the contexts cannot wait for each other in a circle.               *)

\* Every way from the root to c leads through d: what can be reached without
\* entering d is contained in some set without c.
Dominates(nb, d, c) ==
  \/ d = Root
  \/ \E U \in SUBSET Contexts :
       /\ Root \in U /\ c \notin U
       /\ \A x \in U : nb[x] \ {d} \subseteq U

\* f goes round the contexts of S in one circle, from neighbor to neighbor.
IsCircle(S, f) ==
  /\ S # {}
  /\ \A T \in SUBSET S :
       (T # {} /\ \A c \in T : f[c] \in T) => T = S

\* Every cycle has a context through which all its contexts are entered.
Reducible(nb) ==
  \A S \in SUBSET Contexts : \A f \in [S -> S] :
    IsCircle(S, f) /\ (\A c \in S : f[c] \in nb[c])
      => \E d \in S : \A c \in S : Dominates(nb, d, c)

\* The contexts whose requests context n has in its queue or works on.  A
\* request that is still with the dispatcher is not counted; it gets there if
\* the queues have room for all invokers.
WaitingFor(n) ==
  {r.invoker : r \in Range(request_mq[n])}
  \cup {current[m].invoker : m \in {n} \cap {d \in Contexts : pc[d] # "idle"}}

\* If every cycle of the topology is entered through one of its contexts, no
\* circle of contexts forms in which each waits for the next one to take or
\* to answer its request (NormalContext.cpp:177): the history test of the
\* RequestDispatcher sends one of these requests to a cycle breaker.
NoWaitCircle ==
  LET waiting == {c \in Contexts : \E n \in Contexts : c \in WaitingFor(n)} IN
  (\E S \in SUBSET waiting : \E f \in [S -> S] :
     (\A c \in S : c \in WaitingFor(f[c])) /\ IsCircle(S, f))
  => ~Reducible(neighbors)

==============================================================================
