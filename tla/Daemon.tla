-------------------------------- MODULE Daemon --------------------------------
(***************************************************************************)
(* The life of the daemons: the start-up in two phases that the manager    *)
(* coordinates (src/network/Manager.cpp, NewServer.cpp,                    *)
(* NewThreadFactory.cpp), the connections between neighbors                *)
(* (NewNeighborThread.cpp, NewNeighborOut.cpp), the handlers of a daemon   *)
(* on its two io threads (NewHandler.cpp) with the registration of their   *)
(* output queues (NewConcurrentMessageDispatcher.cpp, NewBaseDispatcher.h, *)
(* NewOutputThread.cpp), the dispatchers, and the shutdown.                *)
(*                                                                         *)
(* Assertions are compiled out, as they are by default (configure.ac).     *)
(* A lookup that fails, whose result the code would then use, is undefined *)
(* behaviour, and a write to a closed socket an exception nobody catches:  *)
(* the daemon is "failed" from then on and takes no further step.  What    *)
(* a context does between a request and its answer is the matter of        *)
(* ContextNetwork: here it asks its neighbors and answers at any time.     *)
(* Queues are never full.                                                  *)
(***************************************************************************)
EXTENDS Integers, Sequences, FiniteSets

CONSTANTS
  Daemons,       \* ids of the contexts, one per daemon
  Neighbors,     \* the neighbors of every daemon's context
  Clients,       \* runs of the client
  ClientId,      \* INVOKER_ID, the id of every client
  IoThreads,     \* threads that run the io_service of a daemon: two
  MaxRequests    \* bound: requests of an invoker on one connection

ASSUME DaemonsAssumption ==
  /\ IsFiniteSet(Daemons)
  /\ Neighbors \in [Daemons -> SUBSET Daemons]
  /\ IsFiniteSet(Clients) /\ Clients \cap Daemons = {}
  /\ ClientId \notin Daemons
ASSUME DaemonBoundsAssumption ==
  /\ IoThreads \in Nat \ {0}
  /\ MaxRequests \in [Daemons \cup Clients -> Nat]

\* <<i, n>>: i may connect to the server of n.  A client is told which daemon to
\* ask on its command line.
Connections ==
  {c \in Daemons \X Daemons : c[2] \in Neighbors[c[1]]}
  \cup (Clients \X Daemons)

At(n) == {c \in Connections : c[2] = n}

Id(c) == IF c[1] \in Clients THEN ClientId ELSE c[1]

Ids == Daemons \cup {ClientId}

End == <<>>   \* the NULL that ends an output thread

VARIABLES
  server,          \* stage of every daemon
  notifications,   \* INIT_PHASE1_COMPLETED, sent and not yet read
  connections_vec, \* the daemons whose notification the manager has read
  triggers,        \* INIT_START_PHASE2, sent and not yet read
  context,         \* stage of the thread of every context
  link,            \* stage of every connection at its invoker
  sent,            \* requests sent on every connection
  wire,            \* messages on every connection, not yet read
  handler,         \* stage of the handler of every connection
  handler_vec,     \* the handlers that every server knows
  offset,          \* of the output queue of every handler
  output_mqs,      \* number of output queues of every daemon
  id2offset,       \* of the output dispatcher of every daemon
  dispatcher_mq,   \* REQUEST_DISPATCHER_MQ of every daemon
  taken,           \* connections whose request the context has not answered
  output_mq,       \* output queues: answers for a connection, or End
  output_thread,   \* stage of the output thread of every handler
  misrouted,       \* history: an answer was written to another invoker
  count_shutdown_handlers,
  counted,         \* the value that a handler has read of it
  races            \* history: the places without a lock in which callbacks of
                   \* two handlers of a daemon have overlapped

startup == <<notifications, connections_vec, triggers>>
invokers == <<link, sent>>
handlers == <<handler, handler_vec>>
registry == <<offset, output_mqs, id2offset>>
answers == <<taken, output_mq, output_thread, misrouted>>
counters == <<count_shutdown_handlers, counted, races>>
vars == <<server, startup, context, invokers, wire, handlers,
          registry, dispatcher_mq, answers, counters>>

Init ==
  /\ server = [d \in Daemons |-> "off"]
  /\ notifications = {} /\ connections_vec = {} /\ triggers = {}
  /\ context = [d \in Daemons |-> "none"]
  /\ link = [c \in Connections |-> "none"]
  /\ sent = [c \in Connections |-> 0]
  /\ wire = [c \in Connections |-> <<>>]
  /\ handler = [c \in Connections |-> "none"]
  /\ handler_vec = [d \in Daemons |-> {}]
  /\ offset = [c \in Connections |-> 0]
  /\ output_mqs = [d \in Daemons |-> 0]
  /\ id2offset = [d \in Daemons |-> [i \in Ids |-> 0]]
  /\ dispatcher_mq = [d \in Daemons |-> <<>>]
  /\ taken = [d \in Daemons |-> {}]
  /\ output_mq = [d \in Daemons |-> [o \in 1..Cardinality(At(d)) |-> <<>>]]
  /\ output_thread = [c \in Connections |-> "none"]
  /\ misrouted = FALSE
  /\ count_shutdown_handlers = [d \in Daemons |-> 0]
  /\ counted = [c \in Connections |-> 0]
  /\ races = {}
-------------------------------------------------------------------------------
(* Start-up                                                                  *)

\* The constructor of NewServer: first_initialization_phase; the acceptor
\* listens from here on, though nothing is accepted before the io_service runs.
Start(d) ==
  /\ server[d] = "off"
  /\ server' = [server EXCEPT ![d] = "phase1"]
  /\ UNCHANGED <<startup, context, invokers, wire, handlers,
                 registry, dispatcher_mq, answers, counters>>

\* connect_to_manager, send_notification_to_manager, wait_trigger.
Notify(d) ==
  /\ server[d] = "phase1"
  /\ server' = [server EXCEPT ![d] = "waiting"]
  /\ notifications' = notifications \cup {d}
  /\ UNCHANGED <<connections_vec, triggers, context, invokers,
                 wire, handlers, registry, dispatcher_mq, answers, counters>>

\* Variant: the manager does not wait for the last daemon.
AllConnectedEarly(vec) == Cardinality(vec) + 1 = Cardinality(Daemons)

AllConnected(vec) == Cardinality(vec) = Cardinality(Daemons)

\* Variant: only the last daemon is triggered.
trigger_2nd_phaseLast(vec) == {d \in vec : d \notin connections_vec}

trigger_2nd_phase(vec) == vec

\* Manager::handle_read_header, which holds the manager's mutex.
ManagerReadHeader(d) ==
  LET vec == connections_vec \cup {d} IN
  /\ d \in notifications
  /\ notifications' = notifications \ {d}
  /\ connections_vec' = vec
  /\ triggers' = IF AllConnected(vec)
                 THEN triggers \cup trigger_2nd_phase(vec) ELSE triggers
  /\ UNCHANGED <<server, context, invokers, wire, handlers,
                 registry, dispatcher_mq, answers, counters>>

\* second_initialization_phase: threads for neighbors, dispatchers and the
\* context are created; then the io_service runs.
SecondPhase(d) ==
  /\ server[d] = "waiting" /\ d \in triggers
  /\ triggers' = triggers \ {d}
  /\ server' = [server EXCEPT ![d] = "serving"]
  /\ context' = [context EXCEPT ![d] = "created"]
  /\ UNCHANGED <<notifications, connections_vec, invokers, wire,
                 handlers, registry, dispatcher_mq, answers, counters>>

\* NormalContext::startup in its own thread: REQUEST_MQ and the entry for the
\* request dispatcher, then CYCLE_BREAKER_MQ, evaluator and cycle breaker.
RegisterContext(d) ==
  /\ server[d] = "serving" /\ context[d] \in {"created", "registered"}
  /\ context' = [context EXCEPT ![d] =
                   IF @ = "created" THEN "registered" ELSE "ready"]
  /\ UNCHANGED <<server, startup, invokers, wire, handlers,
                 registry, dispatcher_mq, answers, counters>>

Running(n) == server[n] \in {"serving", "shutdown"}

Listening(n) == server[n] # "off"

\* A neighbor thread or a client connects.  A client that comes before the
\* server listens is refused and exits; a connection made before the io_service
\* runs waits for it.  Both are the same as a client that comes later.
Connect(c) ==
  /\ link[c] = "none"
  /\ IF c[1] \in Daemons THEN server[c[1]] = "serving" ELSE Running(c[2])
  /\ c[1] \in Clients => \A n \in Daemons : link[<<c[1], n>>] = "none"
  /\ link' = [link EXCEPT ![c] = IF Listening(c[2]) THEN "up" ELSE "refused"]
  /\ UNCHANGED <<server, startup, context, sent, wire, handlers,
                 registry, dispatcher_mq, answers, counters>>
-------------------------------------------------------------------------------
(* Requests                                                                  *)

\* A client asks; a context that works on a request asks a neighbor.
Ask(c) ==
  /\ link[c] = "up" /\ sent[c] < MaxRequests[c[1]]
  /\ link' = [link EXCEPT ![c] = "waiting"]
  /\ c[1] \in Daemons => server[c[1]] = "serving" /\ taken[c[1]] # {}
  /\ sent' = [sent EXCEPT ![c] = @ + 1]
  /\ wire' = [wire EXCEPT ![c] = Append(@, "request")]
  /\ UNCHANGED <<server, startup, context, handlers, registry,
                 dispatcher_mq, answers, counters>>

\* Only clients send HEADER_TERMINATE: no shutdown message ever reaches a
\* NEIGHBOR_OUT_MQ.
Terminate(c) ==
  /\ c[1] \in Clients /\ link[c] = "up"
  /\ sent[c] > 0
  /\ link' = [link EXCEPT ![c] = "closed"]
  /\ wire' = [wire EXCEPT ![c] = Append(@, "terminate")]
  /\ UNCHANGED <<server, startup, context, sent, handlers,
                 registry, dispatcher_mq, answers, counters>>

\* The callbacks that have begun and not yet returned: those of handlers, and
\* those of the server that have started a handler.
Busy(n) ==
  Cardinality({c \in At(n) : handler[c] \in {"pushed", "sized", "counting",
                                             "checking"}})
  + Cardinality({c \in At(n) : handler[c] # "none" /\ c \notin handler_vec[n]})

\* What has raced when c goes into a place that handlers are in at the stages S.
Raced(place, S, c) ==
  IF \E b \in At(c[2]) \ {c} : handler[b] \in S
  THEN races \cup {place} ELSE races

FreeThread(n) == Running(n) /\ Busy(n) < IoThreads

\* NewServer::handle_accept and handle_read_header: the header of the first
\* request has been read and the handler is started ...
Accept(c) ==
  /\ FreeThread(c[2])
  /\ handler[c] = "none" /\ wire[c] # <<>>
  /\ handler' = [handler EXCEPT ![c] = "accepted"]
  /\ UNCHANGED <<server, startup, context, invokers, wire,
                 handler_vec, registry, dispatcher_mq, answers, counters>>

\* ... and only then enters handler_vec.
PushHandler(c) ==
  /\ Running(c[2]) /\ handler[c] # "none" /\ c \notin handler_vec[c[2]]
  /\ handler_vec' = [handler_vec EXCEPT ![c[2]] = @ \cup {c}]
  /\ UNCHANGED <<server, startup, context, invokers, wire,
                 handler, registry, dispatcher_mq, answers, counters>>

\* Variant: the request is forwarded before the output queue is registered.
FirstMessageForwards(c) ==
  /\ FreeThread(c[2])
  /\ handler[c] = "accepted" /\ wire[c] # <<>>
  /\ wire' = [wire EXCEPT ![c] = Tail(@)]
  /\ handler' = [handler EXCEPT ![c] = "pushed"]
  /\ output_mqs' = [output_mqs EXCEPT ![c[2]] = @ + 1]
  /\ dispatcher_mq' = [dispatcher_mq EXCEPT ![c[2]] =
                         Append(@, <<"request", c>>)]
  /\ UNCHANGED <<server, startup, context, invokers, handler_vec,
                 offset, id2offset, answers, counters>>

\* handle_read_message in the first round, with createAndRegisterMQ: the new
\* queue is pushed back ...
FirstMessage(c) ==
  /\ FreeThread(c[2])
  /\ handler[c] = "accepted" /\ wire[c] # <<>>
  /\ wire' = [wire EXCEPT ![c] = Tail(@)]
  /\ handler' = [handler EXCEPT ![c] = "pushed"]
  /\ output_mqs' = [output_mqs EXCEPT ![c[2]] = @ + 1]
  /\ races' = Raced("createAndRegisterMQ", {"pushed"}, c)
  /\ UNCHANGED <<server, startup, context, invokers, handler_vec,
                 offset, id2offset, dispatcher_mq, answers,
                 count_shutdown_handlers, counted>>

\* Variant: the offset is one too small, except for the first queue.
TakeOffsetOffByOne(c) ==
  /\ Running(c[2]) /\ handler[c] = "pushed"
  /\ handler' = [handler EXCEPT ![c] = "sized"]
  /\ offset' = [offset EXCEPT ![c] =
                  IF output_mqs[c[2]] = 1 THEN 1 ELSE output_mqs[c[2]] - 1]
  /\ UNCHANGED <<server, startup, context, invokers, wire,
                 handler_vec, output_mqs, id2offset, dispatcher_mq, answers,
                 counters>>

\* ... and its offset is taken from the size of the vector.
TakeOffset(c) ==
  /\ Running(c[2]) /\ handler[c] = "pushed"
  /\ handler' = [handler EXCEPT ![c] = "sized"]
  /\ offset' = [offset EXCEPT ![c] = output_mqs[c[2]]]
  /\ UNCHANGED <<server, startup, context, invokers, wire,
                 handler_vec, output_mqs, id2offset, dispatcher_mq, answers,
                 counters>>

\* registerIdOffset keeps an entry that exists; the output thread starts and
\* the request goes to the request dispatcher.
RegisterOutput(c) ==
  LET n == c[2] IN
  /\ Running(n) /\ handler[c] = "sized"
  /\ handler' = [handler EXCEPT ![c] = "open"]
  /\ id2offset' = [id2offset EXCEPT ![n][Id(c)] =
                     IF @ = 0 THEN offset[c] ELSE @]
  /\ output_thread' = [output_thread EXCEPT ![c] = "running"]
  /\ dispatcher_mq' = [dispatcher_mq EXCEPT ![n] =
                         Append(@, <<"request", c>>)]
  /\ UNCHANGED <<server, startup, context, invokers, wire,
                 handler_vec, offset, output_mqs, taken, output_mq, misrouted,
                 counters>>

\* Variant: first_round is not reset.
LaterMessageRegisters(c) ==
  /\ FreeThread(c[2])
  /\ handler[c] = "open" /\ wire[c] # <<>> /\ Head(wire[c]) = "request"
  /\ wire' = [wire EXCEPT ![c] = Tail(@)]
  /\ output_mqs' = [output_mqs EXCEPT ![c[2]] = @ + 1]
  /\ dispatcher_mq' = [dispatcher_mq EXCEPT ![c[2]] =
                         Append(@, <<"request", c>>)]
  /\ UNCHANGED <<server, startup, context, invokers, handlers,
                 offset, id2offset, answers, counters>>

\* handle_read_header and handle_read_message in a later round.
LaterMessage(c) ==
  /\ FreeThread(c[2])
  /\ handler[c] = "open" /\ wire[c] # <<>> /\ Head(wire[c]) = "request"
  /\ wire' = [wire EXCEPT ![c] = Tail(@)]
  /\ dispatcher_mq' = [dispatcher_mq EXCEPT ![c[2]] =
                         Append(@, <<"request", c>>)]
  /\ UNCHANGED <<server, startup, context, invokers, handlers,
                 registry, answers, counters>>

\* RequestDispatcher::startup: the queues of the context must exist.  A context
\* that has a shutdown message in its queue reads no request behind it.
Dispatch(n) ==
  LET mess == Head(dispatcher_mq[n])
      found == \/ context[n] \in {"ready", "ended"}
               \/ context[n] = "registered" /\ mess[1] = "request"
  IN
  /\ server[n] = "serving" /\ dispatcher_mq[n] # <<>>
  /\ dispatcher_mq' = [dispatcher_mq EXCEPT ![n] = Tail(@)]
  /\ \/ /\ ~found
        /\ server' = [server EXCEPT ![n] = "failed"]
        /\ UNCHANGED <<context, taken>>
     \/ /\ found /\ mess[1] = "request"
        /\ taken' = IF context[n] = "ended" THEN taken
                    ELSE [taken EXCEPT ![n] = @ \cup {mess[2]}]
        /\ UNCHANGED <<server, context>>
     \/ /\ found /\ mess[1] = "shutdown"
        /\ context' = [context EXCEPT ![n] = "ended"]
        /\ UNCHANGED <<server, taken>>
  /\ UNCHANGED <<startup, invokers, wire, handlers, registry,
                 output_mq, output_thread, misrouted, counters>>

\* The context has answered; NewOutputDispatcher::startup finds the output
\* queue of the invoker.
Answer(n, c) ==
  LET out == id2offset[n][Id(c)] IN
  /\ server[n] = "serving" /\ context[n] \in {"ready", "ended"}
  /\ c \in taken[n]
  /\ taken' = [taken EXCEPT ![n] = @ \ {c}]
  /\ \/ out = 0 /\ server' = [server EXCEPT ![n] = "failed"]
               /\ UNCHANGED output_mq
     \/ out # 0 /\ output_mq' = [output_mq EXCEPT ![n][out] = Append(@, c)]
                /\ UNCHANGED server
  /\ UNCHANGED <<startup, context, invokers, wire, handlers,
                 registry, dispatcher_mq, output_thread, misrouted, counters>>

\* NewOutputThread::startup and write_result: the thread writes what it takes
\* from its queue to its own connection, and ends with an End.
WriteResult(c) ==
  LET n == c[2]
      queue == output_mq[n][offset[c]]
  IN
  /\ Running(n) /\ output_thread[c] = "running" /\ queue # <<>>
  /\ output_mq' = [output_mq EXCEPT ![n][offset[c]] = Tail(@)]
  /\ \/ /\ Head(queue) = End
        /\ output_thread' = [output_thread EXCEPT ![c] = "ended"]
        /\ UNCHANGED <<server, link, misrouted>>
     \/ /\ Head(queue) # End /\ handler[c] # "closed"
        /\ misrouted' = (misrouted \/ Id(Head(queue)) # Id(c))
        /\ link' = [link EXCEPT ![c] = IF @ = "waiting" THEN "up" ELSE @]
        /\ UNCHANGED <<server, output_thread>>
     \/ /\ Head(queue) # End /\ handler[c] = "closed"
        /\ server' = [server EXCEPT ![n] = "failed"]
        /\ UNCHANGED <<link, output_thread, misrouted>>
  /\ UNCHANGED <<startup, context, sent, wire, handlers,
                 registry, dispatcher_mq, taken, counters>>
-------------------------------------------------------------------------------
(* Shutdown                                                                  *)

\* handle_finalize: the output thread is ended, the message is sent on, and
\* notify_shutdown_handler reads the counter ...
Finalize(c) ==
  LET n == c[2] IN
  /\ FreeThread(n)
  /\ handler[c] = "open" /\ wire[c] # <<>> /\ Head(wire[c]) = "terminate"
  /\ wire' = [wire EXCEPT ![c] = Tail(@)]
  /\ handler' = [handler EXCEPT ![c] = "counting"]
  /\ dispatcher_mq' = [dispatcher_mq EXCEPT ![n] =
                         Append(@, <<"shutdown", c>>)]
  /\ output_mq' = [output_mq EXCEPT ![n][offset[c]] = Append(@, End)]
  /\ counted' = [counted EXCEPT ![c] = count_shutdown_handlers[n]]
  /\ races' = Raced("handle_finalize", {"counting", "checking"}, c)
              \cup (IF c \in handler_vec[n] THEN {} ELSE {"handler_vec"})
  /\ UNCHANGED <<server, startup, context, invokers, handler_vec,
                 registry, taken, output_thread, misrouted,
                 count_shutdown_handlers>>

\* ... and writes it.
NotifyShutdown(c) ==
  LET n == c[2] IN
  /\ Running(n) /\ handler[c] = "counting"
  /\ handler' = [handler EXCEPT ![c] = "checking"]
  /\ count_shutdown_handlers' =
       [count_shutdown_handlers EXCEPT ![n] = counted[c] + 1]
  /\ counted' = [counted EXCEPT ![c] = 0]
  /\ UNCHANGED <<server, startup, context, invokers, wire,
                 handler_vec, registry, dispatcher_mq, answers, races>>

\* Variant: one handler may still be open.
isShutdownOffByOne(n) ==
  count_shutdown_handlers[n] + 1 >= Cardinality(handler_vec[n])

isShutdown(n) == count_shutdown_handlers[n] = Cardinality(handler_vec[n])

\* shutdown: the end messages and killThreads end the dispatchers, the neighbor
\* threads and the context; then the connection is closed.
CheckShutdown(c) ==
  LET n == c[2] IN
  /\ Running(n) /\ handler[c] = "checking"
  /\ handler' = [handler EXCEPT ![c] = "closed"]
  /\ server' = [server EXCEPT ![n] = IF isShutdown(n) THEN "shutdown" ELSE @]
  /\ context' = [context EXCEPT ![n] = IF isShutdown(n) THEN "ended" ELSE @]
  /\ UNCHANGED <<startup, invokers, wire, handler_vec, registry,
                 dispatcher_mq, answers, counters>>

StartUpStep(d) ==
  \/ Start(d) \/ Notify(d) \/ ManagerReadHeader(d) \/ SecondPhase(d)
  \/ RegisterContext(d)

HandlerStep(c) ==
  \/ Accept(c) \/ PushHandler(c) \/ FirstMessage(c) \/ TakeOffset(c) \/ RegisterOutput(c)
  \/ LaterMessage(c) \/ Finalize(c) \/ NotifyShutdown(c) \/ CheckShutdown(c)

Next ==
  \/ \E d \in Daemons : StartUpStep(d) \/ Dispatch(d)
  \/ \E d \in Daemons : \E c \in taken[d] : Answer(d, c)
  \/ \E c \in Connections : Connect(c) \/ Ask(c) \/ Terminate(c)
  \/ \E c \in Connections : HandlerStep(c) \/ WriteResult(c)

Spec == Init /\ [][Next]_vars

\* Every process is started and every started thread runs.
FairSpec == Spec /\ \A d \in Daemons : WF_vars(StartUpStep(d))
-------------------------------------------------------------------------------
(* Properties                                                                *)

TypeOK ==
  /\ server \in [Daemons -> {"off", "phase1", "waiting", "serving", "shutdown",
                             "failed"}]
  /\ notifications \subseteq Daemons /\ connections_vec \subseteq Daemons
  /\ triggers \subseteq Daemons
  /\ context \in [Daemons -> {"none", "created", "registered", "ready", "ended"}]
  /\ link \in [Connections -> {"none", "refused", "up", "waiting", "closed"}]
  /\ \A c \in Connections : sent[c] \in 0..MaxRequests[c[1]]
  /\ \A c \in Connections : wire[c] \in Seq({"request", "terminate"})
  /\ handler \in [Connections -> {"none", "accepted", "pushed", "sized", "open",
                                  "counting", "checking", "closed"}]
  /\ \A d \in Daemons :
       /\ handler_vec[d] \subseteq At(d) /\ taken[d] \subseteq At(d)
       /\ output_mqs[d] = Cardinality({c \in At(d) : handler[c] \notin {"none", "accepted"}})
       /\ id2offset[d] \in [Ids -> 0..output_mqs[d]]
       /\ count_shutdown_handlers[d] \in 0..Cardinality(At(d))
  /\ offset \in [Connections -> 0..Cardinality(Connections)]
  /\ output_thread \in [Connections -> {"none", "running", "ended"}]
  /\ misrouted \in BOOLEAN
  /\ races \subseteq {"createAndRegisterMQ", "handle_finalize", "handler_vec"}

\* The manager's barrier: neighbors connect only when every server listens, so
\* establish_connections is never refused.  It needs the whole protocol between
\* servers and manager, in every order of start.
NoRefusedConnection ==
  \A c \in Connections : link[c] # "refused"

\* Whatever the order of the callbacks of several handlers, the output
\* dispatcher finds a queue for the invoker of every request that a context has
\* taken: NewHandler registers it before it sends the request on.
AnswerFindsOutput ==
  \A n \in Daemons : \A c \in taken[n] :
    id2offset[n][Id(c)] # 0

\* As long as no two handlers have been in createAndRegisterMQ together, an
\* output thread only writes answers for its own invoker (the assertion of
\* NewOutputThread::startup).  Nothing keeps the two threads of new_dmcsd out of
\* it: two handlers can get the same offset, and then this is lost.
AnswersRouted == "createAndRegisterMQ" \notin races => ~misrouted

\* A server shuts down exactly with the last of the handlers that it knows: not
\* while one is open, and not later.  This holds until two handlers overlap in
\* handle_finalize, where an update of count_shutdown_handlers can be lost and
\* the server then runs for ever, or one ends before it is in handler_vec and is
\* counted for another one.
ShutdownWithLastHandler ==
  [][\A n \in Daemons :
       races' \subseteq {"createAndRegisterMQ"} /\ server[n] = "serving" =>
         (server'[n] = "shutdown" <=>
            /\ handler_vec'[n] # {}
            /\ \A c \in handler_vec'[n] : handler'[c] = "closed")]_vars

\* Every daemon leaves the start-up: the manager triggers the second phase of
\* each of them, whatever the order of their notifications.
EveryDaemonServes ==
  \A d \in Daemons : <>(server[d] \in {"serving", "shutdown", "failed"})
===============================================================================
