------------------------------ MODULE DaemonProofs ------------------------------
(***************************************************************************)
(* The daemons, for any number of daemons, clients, io threads and         *)
(* requests: the start-up barrier, the registration of output queues, the  *)
(* routing of answers and the shutdown.                                    *)
(***************************************************************************)
EXTENDS Daemon, FiniteSetTheorems, TLAPS

\* The provers, in this order, and the time an obligation may take.
USE ZenonT(30), SMTT(20)

Started == {"serving", "shutdown", "failed"}

\* The stages of a handler from a certain point on.
FromOpen == {"open", "counting", "checking", "closed"}
FromSized == {"sized"} \cup FromOpen
FromPushed == {"pushed"} \cup FromSized
Finalizing == {"counting", "checking"}
FromChecking == {"checking", "closed"}

Stages == {"none", "accepted"} \cup FromPushed

Queues(d) == [1 .. Cardinality(At(d)) -> Seq(Connections \cup {End})]

\* Types, with the domains of the functions.
ShapeInv ==
  /\ server \in [Daemons -> {"off", "phase1", "waiting"} \cup Started]
  /\ notifications \subseteq Daemons /\ connections_vec \subseteq Daemons
  /\ triggers \subseteq Daemons
  /\ context \in [Daemons -> {"none", "created", "registered", "ready", "ended"}]
  /\ link \in [Connections -> {"none", "refused", "up", "waiting", "closed"}]
  /\ sent \in [Connections -> Nat]
  /\ wire \in [Connections -> Seq({"request", "terminate"})]
  /\ handler \in [Connections -> Stages]
  /\ handler_vec \in [Daemons -> SUBSET Connections]
  /\ offset \in [Connections -> Nat]
  /\ output_mqs \in [Daemons -> Nat]
  /\ id2offset \in [Daemons -> [Ids -> Nat]]
  /\ dispatcher_mq \in [Daemons -> Seq({"request", "shutdown"} \X Connections)]
  /\ taken \in [Daemons -> SUBSET Connections]
  /\ output_mq = [d \in Daemons |-> output_mq[d]]
  /\ output_thread \in [Connections -> {"none", "running", "ended"}]
  /\ misrouted \in BOOLEAN
  /\ count_shutdown_handlers \in [Daemons -> Nat]
  /\ counted \in [Connections -> Nat]
  /\ races \subseteq {"createAndRegisterMQ", "handle_finalize", "handler_vec"}

\* The manager's barrier.
BarrierInv ==
  /\ \A d \in notifications \cup connections_vec : server[d] # "off"
  /\ triggers # {} => \A d \in Daemons : server[d] # "off"
  /\ \A d \in Daemons :
       server[d] \in Started => \A e \in Daemons : server[e] # "off"
  /\ NoRefusedConnection

\* Handlers exist at started daemons; every server knows its own only.
HandlerInv ==
  /\ \A c \in Connections : handler[c] # "none" => server[c[2]] \in Started
  /\ \A d \in Daemons : \A c \in handler_vec[d] : c[2] = d /\ handler[c] # "none"

\* How many handlers of d are at the stages S.
Count(d, S) == Cardinality({c \in At(d) : handler[c] \in S})

\* The counters and the handlers that they count.
CountInv ==
  /\ \A c \in Connections : sent[c] <= MaxRequests[c[1]]
  /\ \A d \in Daemons :
       /\ output_mqs[d] = Count(d, FromPushed)
       /\ count_shutdown_handlers[d] <= Count(d, FromChecking)
       /\ \A i \in Ids : id2offset[d][i] <= output_mqs[d]
  /\ \A c \in Connections :
       /\ handler[c] = "counting" => counted[c] <= Count(c[2], FromChecking)
       /\ offset[c] <= output_mqs[c[2]]
       /\ handler[c] \in FromSized => offset[c] > 0

\* An invoker that is waited for is registered.
RegisterInv ==
  /\ \A c \in Connections : handler[c] \in FromOpen => id2offset[c[2]][Id(c)] # 0
  /\ \A d \in Daemons : \A k \in 1 .. Len(dispatcher_mq[d]) :
       LET c == dispatcher_mq[d][k][2] IN c[2] = d /\ id2offset[d][Id(c)] # 0
  /\ \A d \in Daemons : \A c \in taken[d] : c[2] = d /\ id2offset[d][Id(c)] # 0

\* Offsets are unique: a handler that has pushed a queue is alone until it has
\* taken the offset.
UniqueOffsets ==
  \A b, c \in Connections : b[2] = c[2] /\ b # c =>
    /\ handler[b] = "pushed" => handler[c] # "pushed"
    /\ handler[b] = "pushed" /\ handler[c] \in FromSized => offset[c] < output_mqs[c[2]]
    /\ handler[b] \in FromSized /\ handler[c] \in FromSized => offset[b] # offset[c]

\* Every entry of id2offset is the offset of an open handler of that invoker.
EntriesOwned ==
  \A d \in Daemons : \A i \in Ids : id2offset[d][i] # 0 =>
    \E c \in At(d) : handler[c] \in FromOpen /\ Id(c) = i /\ offset[c] = id2offset[d][i]

\* Unless two handlers were in createAndRegisterMQ together, answers are routed.
RouteInv ==
  "createAndRegisterMQ" \notin races => UniqueOffsets /\ EntriesOwned /\ ~misrouted

\* What is in an output queue is for an invoker that is registered with it.
OutputInv ==
  \A d \in Daemons :
    /\ output_mq[d] \in Queues(d)
    /\ \A o \in 1 .. Cardinality(At(d)) : \A k \in 1 .. Len(output_mq[d][o]) :
         output_mq[d][o][k] # End => id2offset[d][Id(output_mq[d][o][k])] = o

\* An output thread serves a handler that is open.
ThreadInv ==
  \A c \in Connections : output_thread[c] # "none" => handler[c] \in FromOpen

\* One handler of a daemon finalizes at a time, the counter is exact, and the
\* server knows the handlers that it counts.
ExactCount ==
  /\ \A b, c \in Connections :
       b[2] = c[2] /\ b # c /\ handler[b] \in Finalizing => handler[c] \notin Finalizing
  /\ \A d \in Daemons : count_shutdown_handlers[d] = Count(d, FromChecking)
  /\ \A c \in Connections :
       /\ handler[c] = "counting" => counted[c] = count_shutdown_handlers[c[2]]
       /\ handler[c] \in Finalizing \cup {"closed"} => c \in handler_vec[c[2]]

\* A server that serves and knows handlers has one that is not closed.
OpenWhileServing ==
  \A d \in Daemons : server[d] = "serving" /\ handler_vec[d] # {} =>
    \E c \in handler_vec[d] : handler[c] # "closed"

\* Unless handlers overlapped in the shutdown, both hold.
ShutdownInv ==
  races \subseteq {"createAndRegisterMQ"} => ExactCount /\ OpenWhileServing

DaemonInv ==
  /\ ShapeInv /\ BarrierInv /\ HandlerInv /\ CountInv /\ RegisterInv
  /\ RouteInv /\ OutputInv /\ ThreadInv /\ ShutdownInv
-------------------------------------------------------------------------------
(* Facts about the operators                                                 *)

LEMMA AppendElements ==
  ASSUME NEW T, NEW q \in Seq(T), NEW x \in T
  PROVE  /\ Append(q, x) \in Seq(T)
         /\ Len(Append(q, x)) = Len(q) + 1
         /\ \A k \in 1 .. Len(Append(q, x)) :
              Append(q, x)[k] = IF k <= Len(q) THEN q[k] ELSE x
BY SMTT(20)

LEMMA TailElements ==
  ASSUME NEW T, NEW q \in Seq(T), q # <<>>
  PROVE  /\ Tail(q) \in Seq(T) /\ Len(Tail(q)) = Len(q) - 1
         /\ Head(q) = q[1] /\ 1 \in 1 .. Len(q) /\ Head(q) \in T
         /\ \A k \in 1 .. Len(Tail(q)) : Tail(q)[k] = q[k + 1] /\ k + 1 \in 1 .. Len(q)
BY SMTT(20)

\* A connection goes to a daemon, and its invoker has an id.
LEMMA ConnectionType ==
  ASSUME NEW c \in Connections
  PROVE  /\ c[1] \in Daemons \cup Clients /\ c[2] \in Daemons
         /\ Id(c) \in Ids /\ c \in At(c[2])
BY DaemonsAssumption DEF Connections, Id, Ids, At
-------------------------------------------------------------------------------
(* One step: types                                                           *)

LEMMA ShapeStartUp ==
  ASSUME ShapeInv, NEW d \in Daemons, StartUpStep(d)
  PROVE  ShapeInv'
<1> USE DEF ShapeInv, Started, startup, invokers, handlers, registry, answers, counters
<1>1. CASE Start(d)
  BY <1>1 DEF Start
<1>2. CASE Notify(d)
  BY <1>2 DEF Notify
<1>3. CASE ManagerReadHeader(d)
  <2>1. triggers' \subseteq Daemons
    BY <1>3 DEF ManagerReadHeader, trigger_2nd_phase
  <2> QED BY <1>3, <2>1 DEF ManagerReadHeader
<1>4. CASE SecondPhase(d)
  BY <1>4 DEF SecondPhase
<1>5. CASE RegisterContext(d)
  BY <1>5 DEF RegisterContext
<1> QED BY <1>1, <1>2, <1>3, <1>4, <1>5 DEF StartUpStep

LEMMA ShapeInvoker ==
  ASSUME ShapeInv, NEW c \in Connections, Connect(c) \/ Ask(c) \/ Terminate(c)
  PROVE  ShapeInv'
<1> USE DEF ShapeInv, startup, invokers, handlers, registry, answers, counters
<1>1. CASE Connect(c)
  BY <1>1 DEF Connect
<1>2. CASE Ask(c)
  BY <1>2, SMTT(20) DEF Ask
<1>3. CASE Terminate(c)
  BY <1>3, SMTT(20) DEF Terminate
<1> QED BY <1>1, <1>2, <1>3

LEMMA ShapeHandler ==
  ASSUME ShapeInv, NEW c \in Connections, HandlerStep(c)
  PROVE  ShapeInv'
<1> USE DEF ShapeInv, startup, invokers, handlers, registry, answers, counters
<1>0. c[2] \in Daemons /\ Id(c) \in Ids
  BY ConnectionType
<1>s. \A s \in Stages : [handler EXCEPT ![c] = s] \in [Connections -> Stages]
  OBVIOUS
<1>r. /\ Raced("createAndRegisterMQ", {"pushed"}, c) \subseteq
           {"createAndRegisterMQ", "handle_finalize", "handler_vec"}
      /\ Raced("handle_finalize", {"counting", "checking"}, c) \subseteq
           {"createAndRegisterMQ", "handle_finalize", "handler_vec"}
  BY DEF Raced
<1>t. \A s \in {"accepted", "pushed", "sized", "open", "counting", "checking", "closed"} :
        s \in Stages
  BY DEF Stages, FromPushed, FromSized, FromOpen
<1>w. wire[c] # <<>> => [wire EXCEPT ![c] = Tail(@)] \in
                          [Connections -> Seq({"request", "terminate"})]
  BY TailElements, SMTT(20)
<1>q. \A x \in {"request", "shutdown"} :
        [dispatcher_mq EXCEPT ![c[2]] = Append(@, <<x, c>>)] \in
          [Daemons -> Seq({"request", "shutdown"} \X Connections)]
  <2> SUFFICES ASSUME NEW x \in {"request", "shutdown"}
               PROVE  Append(dispatcher_mq[c[2]], <<x, c>>) \in
                        Seq({"request", "shutdown"} \X Connections)
    BY <1>0
  <2>1. <<x, c>> \in {"request", "shutdown"} \X Connections
    OBVIOUS
  <2> QED BY <1>0, <2>1, AppendElements, SMTT(20)
<1>1. CASE Accept(c)
  BY <1>1, <1>s, <1>t DEF Accept
<1>2. CASE PushHandler(c)
  <2>1. handler_vec' \in [Daemons -> SUBSET Connections]
    BY <1>0, <1>2, SMTT(20) DEF PushHandler
  <2> QED BY <1>2, <2>1 DEF PushHandler
<1>3. CASE FirstMessage(c)
  <2>1. /\ handler' \in [Connections -> Stages]
        /\ wire' \in [Connections -> Seq({"request", "terminate"})]
    BY <1>3, <1>s, <1>t, <1>w DEF FirstMessage
  <2>2. output_mqs' \in [Daemons -> Nat]
    BY <1>0, <1>3, SMTT(20) DEF FirstMessage
  <2>3. races' \subseteq {"createAndRegisterMQ", "handle_finalize", "handler_vec"}
    BY <1>3, <1>r DEF FirstMessage
  <2> QED BY <1>3, <2>1, <2>2, <2>3 DEF FirstMessage
<1>4. CASE TakeOffset(c)
  BY <1>0, <1>4, <1>s, <1>t DEF TakeOffset
<1>5. CASE RegisterOutput(c)
  <2>1. /\ handler' \in [Connections -> Stages]
        /\ dispatcher_mq' \in [Daemons -> Seq({"request", "shutdown"} \X Connections)]
        /\ output_thread' \in [Connections -> {"none", "running", "ended"}]
    BY <1>5, <1>s, <1>t, <1>q DEF RegisterOutput
  <2>2. id2offset' \in [Daemons -> [Ids -> Nat]]
    BY <1>0, <1>5, SMTT(20) DEF RegisterOutput
  <2> QED BY <1>5, <2>1, <2>2 DEF RegisterOutput
<1>6. CASE LaterMessage(c)
  <2>1. /\ wire' \in [Connections -> Seq({"request", "terminate"})]
        /\ dispatcher_mq' \in [Daemons -> Seq({"request", "shutdown"} \X Connections)]
    BY <1>6, <1>w, <1>q DEF LaterMessage
  <2> QED BY <1>6, <2>1 DEF LaterMessage
<1>7. CASE Finalize(c)
  <2>1. /\ handler' \in [Connections -> Stages]
        /\ wire' \in [Connections -> Seq({"request", "terminate"})]
        /\ dispatcher_mq' \in [Daemons -> Seq({"request", "shutdown"} \X Connections)]
    BY <1>7, <1>s, <1>t, <1>w, <1>q DEF Finalize
  <2>2. counted' \in [Connections -> Nat]
    BY <1>0, <1>7 DEF Finalize
  <2>3. races' \subseteq {"createAndRegisterMQ", "handle_finalize", "handler_vec"}
    BY <1>7, <1>r DEF Finalize
  <2>4. output_mq' = [d \in Daemons |-> output_mq'[d]]
    BY <1>7 DEF Finalize
  <2> QED BY <1>7, <2>1, <2>2, <2>3, <2>4 DEF Finalize
<1>8. CASE NotifyShutdown(c)
  <2>1. handler' \in [Connections -> Stages]
    BY <1>8, <1>s, <1>t DEF NotifyShutdown
  <2>2. /\ count_shutdown_handlers' \in [Daemons -> Nat]
        /\ counted' \in [Connections -> Nat]
    BY <1>0, <1>8, SMTT(20) DEF NotifyShutdown
  <2> QED BY <1>8, <2>1, <2>2 DEF NotifyShutdown
<1>9. CASE CheckShutdown(c)
  <2>1. /\ server' \in [Daemons -> {"off", "phase1", "waiting"} \cup Started]
        /\ context' \in [Daemons -> {"none", "created", "registered", "ready", "ended"}]
    BY <1>0, <1>9 DEF CheckShutdown, Started
  <2> QED BY <1>9, <1>s, <1>t, <2>1 DEF CheckShutdown
<1> QED BY <1>1, <1>2, <1>3, <1>4, <1>5, <1>6, <1>7, <1>8, <1>9 DEF HandlerStep

LEMMA ShapeAnswering ==
  ASSUME ShapeInv, NEW d \in Daemons, NEW c \in Connections,
         Dispatch(d) \/ Answer(d, c) \/ WriteResult(c)
  PROVE  ShapeInv'
<1> USE DEF ShapeInv, startup, invokers, handlers, registry, answers, counters
<1>0. \A n \in Daemons : [server EXCEPT ![n] = "failed"] \in
        [Daemons -> {"off", "phase1", "waiting"} \cup Started]
  BY DEF Started
<1>s. server \in [Daemons -> {"off", "phase1", "waiting"} \cup Started]
  OBVIOUS
<1>1. CASE Dispatch(d)
  <2> DEFINE mess == Head(dispatcher_mq[d])
  <2>1. /\ mess \in {"request", "shutdown"} \X Connections
        /\ Tail(dispatcher_mq[d]) \in Seq({"request", "shutdown"} \X Connections)
    BY <1>1, TailElements DEF Dispatch
  <2>2. dispatcher_mq' \in [Daemons -> Seq({"request", "shutdown"} \X Connections)]
    BY <1>1, <2>1 DEF Dispatch
  <2>3. server' \in [Daemons -> {"off", "phase1", "waiting"} \cup Started]
    <3>1. server' = server \/ server' = [server EXCEPT ![d] = "failed"]
      BY <1>1 DEF Dispatch
    <3> QED BY <1>0, <1>s, <3>1
  <2>4. context' \in [Daemons -> {"none", "created", "registered", "ready", "ended"}]
    <3>1. context' = context \/ context' = [context EXCEPT ![d] = "ended"]
      BY <1>1 DEF Dispatch
    <3>2. context \in [Daemons -> {"none", "created", "registered", "ready", "ended"}]
      OBVIOUS
    <3> HIDE DEF ShapeInv
    <3> QED BY <3>1, <3>2
  <2>5. taken' \in [Daemons -> SUBSET Connections]
    <3>1. mess[2] \in Connections
      BY <2>1
    <3>2. taken' = taken \/ taken' = [taken EXCEPT ![d] = @ \cup {mess[2]}]
      BY <1>1 DEF Dispatch
    <3>3. taken \in [Daemons -> SUBSET Connections]
      OBVIOUS
    <3> HIDE DEF mess, ShapeInv
    <3> QED BY <3>1, <3>2, <3>3
  <2> QED BY <1>1, <2>2, <2>3, <2>4, <2>5 DEF Dispatch
<1>2. CASE Answer(d, c)
  <2>1. server' \in [Daemons -> {"off", "phase1", "waiting"} \cup Started]
    BY <1>0, <1>2 DEF Answer
  <2>2. taken' \in [Daemons -> SUBSET Connections]
    BY <1>2 DEF Answer
  <2>3. output_mq' = [e \in Daemons |-> output_mq'[e]]
    BY <1>2 DEF Answer
  <2> QED BY <1>2, <2>1, <2>2, <2>3 DEF Answer
<1>3. CASE WriteResult(c)
  <2>1. /\ server' \in [Daemons -> {"off", "phase1", "waiting"} \cup Started]
        /\ link' \in [Connections -> {"none", "refused", "up", "waiting", "closed"}]
        /\ output_thread' \in [Connections -> {"none", "running", "ended"}]
    <3>1. c[2] \in Daemons
      BY ConnectionType
    <3>2. server' = server \/ server' = [server EXCEPT ![c[2]] = "failed"]
      BY <1>3 DEF WriteResult
    <3>3. link' = link \/ link' = [link EXCEPT ![c] = IF @ = "waiting" THEN "up" ELSE @]
      BY <1>3 DEF WriteResult
    <3>4. output_thread' = output_thread
          \/ output_thread' = [output_thread EXCEPT ![c] = "ended"]
      BY <1>3 DEF WriteResult
    <3>5. server' \in [Daemons -> {"off", "phase1", "waiting"} \cup Started]
      BY <1>0, <1>s, <3>1, <3>2
    <3>6. link' \in [Connections -> {"none", "refused", "up", "waiting", "closed"}]
      BY <3>3
    <3>7. output_thread' \in [Connections -> {"none", "running", "ended"}]
      BY <3>4
    <3> QED BY <3>5, <3>6, <3>7
  <2>2. output_mq' = [e \in Daemons |-> output_mq'[e]]
    BY <1>3 DEF WriteResult
  <2>3. misrouted' \in BOOLEAN
    BY <1>3 DEF WriteResult
  <2> QED BY <1>3, <2>1, <2>2, <2>3 DEF WriteResult
<1> QED BY <1>1, <1>2, <1>3

\* A step of the start-up, or one that a connection takes part in.
LaterStep(d, c) ==
  \/ Connect(c) \/ Ask(c) \/ Terminate(c) \/ HandlerStep(c)
  \/ Dispatch(d) \/ Answer(d, c) \/ WriteResult(c)

LEMMA NextCases ==
  ASSUME ShapeInv, Next
  PROVE  \/ \E d \in Daemons : StartUpStep(d)
         \/ \E d \in Daemons : \E c \in Connections : LaterStep(d, c)
<1>1. ASSUME NEW d \in Daemons, Dispatch(d)
      PROVE  \E c \in Connections : LaterStep(d, c)
  <2>1. dispatcher_mq[d] \in Seq({"request", "shutdown"} \X Connections)
        /\ dispatcher_mq[d] # <<>>
    BY <1>1 DEF Dispatch, ShapeInv
  <2>2. Connections # {}
    BY <2>1, SMTT(20)
  <2> QED BY <1>1, <2>2 DEF LaterStep
<1>2. ASSUME NEW d \in Daemons, NEW c \in taken[d], Answer(d, c)
      PROVE  \E b \in Connections : LaterStep(d, b)
  <2>1. c \in Connections
    BY DEF ShapeInv
  <2> QED BY <1>2, <2>1 DEF LaterStep
<1>3. ASSUME NEW c \in Connections,
             Connect(c) \/ Ask(c) \/ Terminate(c) \/ HandlerStep(c) \/ WriteResult(c)
      PROVE  \E d \in Daemons : \E b \in Connections : LaterStep(d, b)
  BY <1>3, ConnectionType DEF LaterStep
<1> QED BY <1>1, <1>2, <1>3 DEF Next

LEMMA ShapeStep ==
  ASSUME ShapeInv, Next
  PROVE  ShapeInv'
BY NextCases, ShapeStartUp, ShapeInvoker, ShapeHandler, ShapeAnswering DEF LaterStep
-------------------------------------------------------------------------------
(* One step: the barrier                                                     *)

\* Outside of the start-up, a daemon only moves from serving to its end.
LEMMA LaterMoves ==
  ASSUME ShapeInv, NEW c \in Connections, NEW d \in Daemons, LaterStep(d, c)
  PROVE  /\ UNCHANGED startup
         /\ \A e \in Daemons :
              \/ server'[e] = server[e]
              \/ server[e] \in {"serving", "shutdown"} /\ server'[e] \in {"shutdown", "failed"}
<1> USE DEF Running, startup, LaterStep
<1>s. server \in [Daemons -> {"off", "phase1", "waiting"} \cup Started] /\ c[2] \in Daemons
  BY ConnectionType DEF ShapeInv
<1>1. CASE Connect(c) \/ Ask(c) \/ Terminate(c)
  BY <1>1 DEF Connect, Ask, Terminate
<1>2. CASE HandlerStep(c) /\ ~CheckShutdown(c)
  BY <1>2 DEF HandlerStep, Accept, PushHandler, FirstMessage, TakeOffset, RegisterOutput,
              LaterMessage, Finalize, NotifyShutdown
<1>3. CASE CheckShutdown(c)
  BY <1>s, <1>3 DEF CheckShutdown
<1>4. CASE Dispatch(d)
  <2>1. server' = server \/ server' = [server EXCEPT ![d] = "failed"]
    BY <1>4 DEF Dispatch
  <2> QED BY <1>s, <1>4, <2>1 DEF Dispatch
<1>5. CASE Answer(d, c)
  BY <1>s, <1>5 DEF Answer
<1>6. CASE WriteResult(c)
  <2>1. server' = server \/ server' = [server EXCEPT ![c[2]] = "failed"]
    BY <1>6 DEF WriteResult
  <2>2. server[c[2]] \in {"serving", "shutdown"} /\ UNCHANGED startup
    BY <1>6 DEF WriteResult
  <2> QED BY <1>s, <2>1, <2>2
<1> QED BY <1>1, <1>2, <1>3, <1>4, <1>5, <1>6

\* The links that a step changes.
LEMMA LinkMoves ==
  ASSUME ShapeInv, NEW c \in Connections, NEW d \in Daemons, LaterStep(d, c), ~Connect(c)
  PROVE  \A b \in Connections : link'[b] = "refused" => link[b] = "refused"
<1> USE DEF invokers, LaterStep
<1>s. link \in [Connections -> {"none", "refused", "up", "waiting", "closed"}]
  BY DEF ShapeInv
<1>1. CASE Ask(c) \/ Terminate(c)
  BY <1>s, <1>1 DEF Ask, Terminate
<1>2. CASE HandlerStep(c)
  BY <1>2 DEF HandlerStep, Accept, PushHandler, FirstMessage, TakeOffset, RegisterOutput,
              LaterMessage, Finalize, NotifyShutdown, CheckShutdown
<1>3. CASE Dispatch(d) \/ Answer(d, c)
  BY <1>3 DEF Dispatch, Answer
<1>4. CASE WriteResult(c)
  <2>1. link' = link \/ link' = [link EXCEPT ![c] = IF @ = "waiting" THEN "up" ELSE @]
    BY <1>4 DEF WriteResult
  <2> QED BY <1>s, <2>1
<1> QED BY <1>1, <1>2, <1>3, <1>4

LEMMA BarrierConnect ==
  ASSUME ShapeInv, BarrierInv, NEW c \in Connections, Connect(c)
  PROVE  NoRefusedConnection'
<1>1. c[2] \in Daemons
  BY ConnectionType
<1>2. server[c[2]] # "off"
  BY <1>1 DEF Connect, BarrierInv, Running, Started
<1>3. link' = [link EXCEPT ![c] = "up"]
  BY <1>2 DEF Connect, Listening
<1> QED BY <1>3 DEF BarrierInv, NoRefusedConnection, ShapeInv

LEMMA BarrierLater ==
  ASSUME ShapeInv, BarrierInv, NEW c \in Connections, NEW d \in Daemons, LaterStep(d, c)
  PROVE  BarrierInv'
<1>1. NoRefusedConnection'
  BY BarrierConnect, LinkMoves DEF BarrierInv, NoRefusedConnection
<1>2. /\ UNCHANGED <<notifications, connections_vec, triggers>>
      /\ \A e \in Daemons :
           \/ server'[e] = server[e]
           \/ server[e] \in {"serving", "shutdown"} /\ server'[e] \in {"shutdown", "failed"}
  BY LaterMoves DEF startup
<1>3. notifications \subseteq Daemons /\ connections_vec \subseteq Daemons
  BY DEF ShapeInv
<1> QED BY <1>1, <1>2, <1>3 DEF BarrierInv, Started
-------------------------------------------------------------------------------
(* One step: handlers and their counters                                     *)

LEMMA StartedStays ==
  ASSUME ShapeInv, Next
  PROVE  \A e \in Daemons : server[e] \in Started => server'[e] \in Started
<1>1. ASSUME NEW d \in Daemons, StartUpStep(d)
      PROVE  \A e \in Daemons : server[e] \in Started => server'[e] \in Started
  BY <1>1 DEF StartUpStep, Start, Notify, ManagerReadHeader, SecondPhase, RegisterContext,
              Started, ShapeInv
<1>2. ASSUME NEW c \in Connections, NEW d \in Daemons, LaterStep(d, c)
      PROVE  \A e \in Daemons : server[e] \in Started => server'[e] \in Started
  BY <1>2, LaterMoves DEF Started
<1> QED BY <1>1, <1>2, NextCases

\* What only handlers change.
LEMMA OtherSteps ==
  ASSUME ShapeInv, Next
  PROVE  \/ \E c \in Connections : HandlerStep(c)
         \/ UNCHANGED <<handlers, registry, counters>>
<1>1. ASSUME NEW d \in Daemons, StartUpStep(d)
      PROVE  UNCHANGED <<handlers, registry, counters>>
  BY <1>1 DEF StartUpStep, Start, Notify, ManagerReadHeader, SecondPhase, RegisterContext
<1>2. ASSUME NEW c \in Connections, NEW d \in Daemons, LaterStep(d, c), ~HandlerStep(c)
      PROVE  UNCHANGED <<handlers, registry, counters>>
  BY <1>2 DEF LaterStep, Connect, Ask, Terminate, Dispatch, Answer, WriteResult
<1> QED BY <1>1, <1>2, NextCases

LEMMA HandlerInvStep ==
  ASSUME ShapeInv, HandlerInv, Next
  PROVE  HandlerInv'
<1>0. \A e \in Daemons : server[e] \in Started => server'[e] \in Started
  BY StartedStays
<1>t. \A c \in Connections : c[2] \in Daemons
  BY ConnectionType
<1>1. CASE UNCHANGED <<handlers, registry, counters>>
  BY <1>0, <1>1, <1>t DEF HandlerInv, handlers
<1>2. ASSUME NEW c \in Connections, HandlerStep(c)
      PROVE  HandlerInv'
  <2>1. /\ server[c[2]] \in Started
        /\ handler' = handler \/ \E s \in Stages \ {"none"} : handler' = [handler EXCEPT ![c] = s]
    BY <1>2 DEF HandlerStep, Accept, PushHandler, FirstMessage, TakeOffset, RegisterOutput,
         LaterMessage, Finalize, NotifyShutdown, CheckShutdown, FreeThread, Running, Started,
         handlers, Stages, FromPushed, FromSized, FromOpen
  <2>2. \/ handler_vec' = handler_vec
        \/ handler[c] # "none" /\ handler_vec' = [handler_vec EXCEPT ![c[2]] = @ \cup {c}]
    BY <1>2 DEF HandlerStep, Accept, PushHandler, FirstMessage, TakeOffset, RegisterOutput,
         LaterMessage, Finalize, NotifyShutdown, CheckShutdown, handlers
  <2>3. handler \in [Connections -> Stages] /\ handler_vec \in [Daemons -> SUBSET Connections]
    BY DEF ShapeInv
  <2>4. \A b \in Connections : handler[b] # "none" => handler'[b] # "none"
    BY <2>1, <2>3
  <2>5. \A b \in Connections : handler'[b] # "none" => server'[b[2]] \in Started
    BY <1>0, <1>t, <2>1, <2>3 DEF HandlerInv
  <2>6. \A d \in Daemons : \A b \in handler_vec'[d] : b[2] = d /\ handler'[b] # "none"
    BY <1>t, <2>2, <2>3, <2>4, SMTT(20) DEF HandlerInv
  <2> QED BY <2>5, <2>6 DEF HandlerInv
<1> QED BY <1>1, <1>2, OtherSteps

LEMMA SentStep ==
  ASSUME ShapeInv, CountInv, Next
  PROVE  \A c \in Connections : sent'[c] <= MaxRequests[c[1]]
<1>0. \A c \in Connections : sent[c] \in Nat /\ MaxRequests[c[1]] \in Nat
  BY ConnectionType, DaemonBoundsAssumption DEF ShapeInv
<1>1. ASSUME NEW d \in Daemons, StartUpStep(d)
      PROVE  sent' = sent
  BY <1>1 DEF StartUpStep, Start, Notify, ManagerReadHeader, SecondPhase, RegisterContext, invokers
<1>2. ASSUME NEW c \in Connections, HandlerStep(c)
      PROVE  sent' = sent
  BY <1>2 DEF HandlerStep, Accept, PushHandler, FirstMessage, TakeOffset, RegisterOutput,
              LaterMessage, Finalize, NotifyShutdown, CheckShutdown, invokers
<1>3. ASSUME NEW c \in Connections, NEW d \in Daemons,
             \/ Connect(c) \/ Terminate(c) \/ Dispatch(d) \/ Answer(d, c) \/ WriteResult(c)
      PROVE  sent' = sent
  BY <1>3 DEF Connect, Terminate, Dispatch, Answer, WriteResult, invokers
<1>4. ASSUME NEW c \in Connections, Ask(c)
      PROVE  sent' = [sent EXCEPT ![c] = @ + 1] /\ sent[c] < MaxRequests[c[1]]
  BY <1>4 DEF Ask
<1>5. sent' = sent \/ \E c \in Connections :
                        sent' = [sent EXCEPT ![c] = @ + 1] /\ sent[c] < MaxRequests[c[1]]
  BY <1>1, <1>2, <1>3, <1>4, NextCases DEF LaterStep
<1>6. sent \in [Connections -> Nat] /\ \A c \in Connections : sent[c] <= MaxRequests[c[1]]
  BY DEF ShapeInv, CountInv
<1> QED BY <1>0, <1>5, <1>6, SMTT(20)

LEMMA CountStays ==
  ASSUME handler' = handler
  PROVE  \A d \in Daemons : /\ Count(d, FromPushed)' = Count(d, FromPushed)
                            /\ Count(d, FromChecking)' = Count(d, FromChecking)
<1> SUFFICES ASSUME NEW d \in Daemons
             PROVE  /\ Count(d, FromPushed)' = Count(d, FromPushed)
                    /\ Count(d, FromChecking)' = Count(d, FromChecking)
  OBVIOUS
<1>1. {c \in At(d) : handler'[c] \in FromPushed} = {c \in At(d) : handler[c] \in FromPushed}
      /\ {c \in At(d) : handler'[c] \in FromChecking} = {c \in At(d) : handler[c] \in FromChecking}
  OBVIOUS
<1> QED BY <1>1 DEF Count, At
-------------------------------------------------------------------------------
(* One step: the registered invokers                                         *)

\* registerIdOffset keeps an entry that exists.
LEMMA IdStays ==
  ASSUME ShapeInv, Next
  PROVE  \A d \in Daemons : \A i \in Ids :
           id2offset[d][i] # 0 => id2offset'[d][i] = id2offset[d][i]
<1>1. \/ id2offset' = id2offset
      \/ \E c \in Connections :
           id2offset' = [id2offset EXCEPT ![c[2]][Id(c)] = IF @ = 0 THEN offset[c] ELSE @]
  <2>1. ASSUME NEW c \in Connections, HandlerStep(c)
        PROVE  \/ id2offset' = id2offset
               \/ id2offset' = [id2offset EXCEPT ![c[2]][Id(c)] = IF @ = 0 THEN offset[c] ELSE @]
    BY <2>1 DEF HandlerStep, Accept, PushHandler, FirstMessage, TakeOffset, RegisterOutput,
                LaterMessage, Finalize, NotifyShutdown, CheckShutdown, registry
  <2> QED BY <2>1, OtherSteps DEF registry
<1>2. id2offset \in [Daemons -> [Ids -> Nat]] /\ \A c \in Connections : c[2] \in Daemons /\ Id(c) \in Ids
  BY ConnectionType DEF ShapeInv
<1>3. ASSUME NEW c \in Connections,
             id2offset' = [id2offset EXCEPT ![c[2]][Id(c)] = IF @ = 0 THEN offset[c] ELSE @],
             NEW d \in Daemons, NEW i \in Ids
      PROVE  id2offset[d][i] # 0 => id2offset'[d][i] = id2offset[d][i]
  <2>1. CASE d = c[2]
    <3>1. id2offset'[d] = [id2offset[d] EXCEPT ![Id(c)] = IF @ = 0 THEN offset[c] ELSE @]
      BY <1>2, <1>3, <2>1
    <3>2. id2offset[d] \in [Ids -> Nat]
      BY <1>2
    <3> QED BY <3>1, <3>2
  <2>2. CASE d # c[2]
    BY <1>2, <1>3, <2>2
  <2> QED BY <2>1, <2>2
<1> QED BY <1>1, <1>3

\* A handler becomes open with RegisterOutput, and stays open with its offset.
LEMMA OpenMoves ==
  ASSUME ShapeInv, Next, NEW b \in Connections
  PROVE  /\ handler[b] \in FromSized => handler'[b] \in FromSized /\ offset'[b] = offset[b]
         /\ handler[b] \in FromOpen => handler'[b] \in FromOpen
         /\ handler'[b] \in FromOpen => handler[b] \in FromOpen \/ RegisterOutput(b)
<1> USE DEF FromOpen, FromSized
<1>s. handler \in [Connections -> Stages] /\ offset \in [Connections -> Nat]
  BY DEF ShapeInv
<1>1. CASE UNCHANGED <<handlers, registry, counters>>
  BY <1>1 DEF handlers, registry
<1>2. ASSUME NEW c \in Connections, HandlerStep(c)
      PROVE  /\ handler[b] \in FromSized => handler'[b] \in FromSized /\ offset'[b] = offset[b]
             /\ handler[b] \in FromOpen => handler'[b] \in FromOpen
             /\ handler'[b] \in FromOpen => handler[b] \in FromOpen \/ RegisterOutput(b)
  <2>1. CASE Accept(c) \/ PushHandler(c) \/ FirstMessage(c) \/ LaterMessage(c)
    BY <2>1, <1>s DEF Accept, PushHandler, FirstMessage, LaterMessage, handlers, registry
  <2>2. CASE TakeOffset(c)
    BY <2>2, <1>s DEF TakeOffset
  <2>3. CASE RegisterOutput(c)
    <3>1. handler' = [handler EXCEPT ![c] = "open"] /\ handler[c] = "sized" /\ offset' = offset
      BY <2>3 DEF RegisterOutput
    <3> QED BY <2>3, <3>1, <1>s
  <2>4. CASE Finalize(c) \/ NotifyShutdown(c) \/ CheckShutdown(c)
    BY <2>4, <1>s DEF Finalize, NotifyShutdown, CheckShutdown, registry
  <2> QED BY <1>2, <2>1, <2>2, <2>3, <2>4 DEF HandlerStep
<1> QED BY <1>1, <1>2, OtherSteps

\* What a message of REQUEST_DISPATCHER_MQ is after a step.
LEMMA DispatcherMoves ==
  ASSUME ShapeInv, Next, NEW d \in Daemons, NEW k \in 1 .. Len(dispatcher_mq'[d])
  PROVE  \/ \E j \in 1 .. Len(dispatcher_mq[d]) : dispatcher_mq'[d][k] = dispatcher_mq[d][j]
         \/ LET c == dispatcher_mq'[d][k][2] IN
              c \in Connections /\ c[2] = d /\ handler'[c] \in FromOpen
<1> DEFINE M == {"request", "shutdown"} \X Connections
<1>s. dispatcher_mq \in [Daemons -> Seq(M)]
  BY DEF ShapeInv
<1>1. ASSUME NEW n \in Daemons, StartUpStep(n)
      PROVE  dispatcher_mq' = dispatcher_mq
  BY <1>1 DEF StartUpStep, Start, Notify, ManagerReadHeader, SecondPhase, RegisterContext
<1>2. ASSUME NEW n \in Daemons, NEW c \in Connections,
             Connect(c) \/ Ask(c) \/ Terminate(c) \/ Answer(n, c) \/ WriteResult(c)
      PROVE  dispatcher_mq' = dispatcher_mq
  BY <1>2 DEF Connect, Ask, Terminate, Answer, WriteResult
<1>3. ASSUME NEW c \in Connections, HandlerStep(c)
      PROVE  \/ dispatcher_mq' = dispatcher_mq
             \/ /\ handler'[c] \in FromOpen
                /\ \E x \in {"request", "shutdown"} :
                     dispatcher_mq' = [dispatcher_mq EXCEPT ![c[2]] = Append(@, <<x, c>>)]
  <2>1. CASE Accept(c) \/ PushHandler(c) \/ FirstMessage(c) \/ TakeOffset(c)
             \/ NotifyShutdown(c) \/ CheckShutdown(c)
    BY <2>1 DEF Accept, PushHandler, FirstMessage, TakeOffset, NotifyShutdown, CheckShutdown
  <2>2. CASE RegisterOutput(c) \/ LaterMessage(c) \/ Finalize(c)
    BY <2>2 DEF RegisterOutput, LaterMessage, Finalize, handlers, FromOpen, ShapeInv
  <2> QED BY <1>3, <2>1, <2>2 DEF HandlerStep
<1>4. ASSUME NEW n \in Daemons, Dispatch(n)
      PROVE  dispatcher_mq[n] # <<>> /\ dispatcher_mq' = [dispatcher_mq EXCEPT ![n] = Tail(@)]
  BY <1>4 DEF Dispatch
<1>5. CASE dispatcher_mq' = dispatcher_mq
  BY <1>5
<1>6. ASSUME NEW c \in Connections, handler'[c] \in FromOpen, NEW x \in {"request", "shutdown"},
             dispatcher_mq' = [dispatcher_mq EXCEPT ![c[2]] = Append(@, <<x, c>>)]
      PROVE  \/ \E j \in 1 .. Len(dispatcher_mq[d]) : dispatcher_mq'[d][k] = dispatcher_mq[d][j]
             \/ LET b == dispatcher_mq'[d][k][2] IN
                  b \in Connections /\ b[2] = d /\ handler'[b] \in FromOpen
  <2>1. CASE d # c[2]
    BY <1>s, <1>6, <2>1
  <2>2. CASE d = c[2]
    <3>1. dispatcher_mq'[d] = Append(dispatcher_mq[d], <<x, c>>) /\ dispatcher_mq[d] \in Seq(M)
      BY <1>s, <1>6, <2>2
    <3>2. <<x, c>> \in M /\ <<x, c>>[2] = c
      OBVIOUS
    <3>3. /\ dispatcher_mq'[d][k] = IF k <= Len(dispatcher_mq[d]) THEN dispatcher_mq[d][k] ELSE <<x, c>>
          /\ Len(dispatcher_mq[d]) \in Nat
      BY <3>1, <3>2, AppendElements, SMTT(20)
    <3> QED BY <1>6, <2>2, <3>2, <3>3, SMTT(20)
  <2> QED BY <2>1, <2>2
<1>7. ASSUME NEW n \in Daemons, dispatcher_mq[n] # <<>>,
             dispatcher_mq' = [dispatcher_mq EXCEPT ![n] = Tail(@)]
      PROVE  \E j \in 1 .. Len(dispatcher_mq[d]) : dispatcher_mq'[d][k] = dispatcher_mq[d][j]
  <2>1. CASE d # n
    BY <1>s, <1>7, <2>1
  <2>2. CASE d = n
    <3>1. dispatcher_mq'[d] = Tail(dispatcher_mq[d]) /\ dispatcher_mq[d] \in Seq(M)
      BY <1>s, <1>7, <2>2
    <3> QED BY <1>7, <2>2, <3>1, TailElements, SMTT(20)
  <2> QED BY <2>1, <2>2
<1> QED BY <1>1, <1>2, <1>3, <1>4, <1>5, <1>6, <1>7, NextCases, SMTT(20) DEF LaterStep

\* A context takes the request at the head of REQUEST_DISPATCHER_MQ.
LEMMA TakenMoves ==
  ASSUME ShapeInv, Next, NEW d \in Daemons, NEW c \in taken'[d]
  PROVE  c \in taken[d] \/ \E k \in 1 .. Len(dispatcher_mq[d]) : c = dispatcher_mq[d][k][2]
<1>s. /\ taken \in [Daemons -> SUBSET Connections]
      /\ dispatcher_mq \in [Daemons -> Seq({"request", "shutdown"} \X Connections)]
  BY DEF ShapeInv
<1>1. ASSUME NEW n \in Daemons, StartUpStep(n)
      PROVE  taken' = taken
  BY <1>1 DEF StartUpStep, Start, Notify, ManagerReadHeader, SecondPhase, RegisterContext, answers
<1>2. ASSUME NEW b \in Connections, Connect(b) \/ Ask(b) \/ Terminate(b) \/ WriteResult(b)
      PROVE  taken' = taken
  BY <1>2 DEF Connect, Ask, Terminate, WriteResult, answers
<1>3. ASSUME NEW b \in Connections, HandlerStep(b)
      PROVE  taken' = taken
  BY <1>3 DEF HandlerStep, Accept, PushHandler, FirstMessage, TakeOffset, RegisterOutput,
              LaterMessage, Finalize, NotifyShutdown, CheckShutdown, answers
<1>4. ASSUME NEW n \in Daemons, NEW b \in Connections, Answer(n, b)
      PROVE  taken' = [taken EXCEPT ![n] = @ \ {b}]
  BY <1>4 DEF Answer
<1>5. ASSUME NEW n \in Daemons, Dispatch(n)
      PROVE  /\ dispatcher_mq[n] # <<>>
             /\ \/ taken' = taken
                \/ taken' = [taken EXCEPT ![n] = @ \cup {Head(dispatcher_mq[n])[2]}]
  BY <1>5 DEF Dispatch
<1>6. \/ taken' = taken
      \/ \E n \in Daemons : \E b \in Connections : taken' = [taken EXCEPT ![n] = @ \ {b}]
      \/ \E n \in Daemons : dispatcher_mq[n] # <<>>
                            /\ taken' = [taken EXCEPT ![n] = @ \cup {Head(dispatcher_mq[n])[2]}]
  BY <1>1, <1>2, <1>3, <1>4, <1>5, NextCases DEF LaterStep
<1>7. dispatcher_mq[d] # <<>> => 1 \in 1 .. Len(dispatcher_mq[d])
                                 /\ Head(dispatcher_mq[d]) = dispatcher_mq[d][1]
  BY <1>s, TailElements
<1> QED BY <1>s, <1>6, <1>7, SMTT(20)

LEMMA RegisterStep ==
  ASSUME ShapeInv, CountInv, RegisterInv, Next
  PROVE  RegisterInv'
<1>s. /\ \A c \in Connections : c[2] \in Daemons /\ Id(c) \in Ids
      /\ taken \in [Daemons -> SUBSET Connections]
      /\ dispatcher_mq \in [Daemons -> Seq({"request", "shutdown"} \X Connections)]
      /\ id2offset \in [Daemons -> [Ids -> Nat]]
  BY ConnectionType DEF ShapeInv
<1>k. \A d \in Daemons : \A k \in 1 .. Len(dispatcher_mq[d]) : dispatcher_mq[d][k][2] \in Connections
  BY <1>s, SMTT(20)
<1>0. \A d \in Daemons : \A c \in Connections :
        id2offset[d][Id(c)] # 0 => id2offset'[d][Id(c)] # 0
  BY <1>s, IdStays
<1>1. ASSUME NEW c \in Connections, handler'[c] \in FromOpen
      PROVE  id2offset'[c[2]][Id(c)] # 0
  <2>1. CASE handler[c] \in FromOpen
    BY <1>0, <1>s, <2>1 DEF RegisterInv
  <2>2. CASE RegisterOutput(c)
    <3>1. /\ offset[c] \in Nat /\ offset[c] > 0
          /\ id2offset' = [id2offset EXCEPT ![c[2]][Id(c)] = IF @ = 0 THEN offset[c] ELSE @]
      BY <2>2 DEF RegisterOutput, CountInv, FromSized, ShapeInv
    <3>2. id2offset'[c[2]] = [id2offset[c[2]] EXCEPT ![Id(c)] = IF @ = 0 THEN offset[c] ELSE @]
      BY <1>s, <3>1
    <3>3. id2offset[c[2]] \in [Ids -> Nat]
      BY <1>s
    <3> QED BY <1>s, <3>1, <3>2, <3>3, SMTT(20)
  <2> QED BY <1>1, <2>1, <2>2, OpenMoves
<1>2. ASSUME NEW d \in Daemons, NEW k \in 1 .. Len(dispatcher_mq'[d])
      PROVE  LET c == dispatcher_mq'[d][k][2] IN c[2] = d /\ id2offset'[d][Id(c)] # 0
  <2>1. CASE \E j \in 1 .. Len(dispatcher_mq[d]) : dispatcher_mq'[d][k] = dispatcher_mq[d][j]
    BY <1>0, <1>k, <2>1, SMTT(20) DEF RegisterInv
  <2>2. CASE LET c == dispatcher_mq'[d][k][2] IN
               c \in Connections /\ c[2] = d /\ handler'[c] \in FromOpen
    BY <1>1, <2>2
  <2> QED BY <2>1, <2>2, DispatcherMoves
<1>3. ASSUME NEW d \in Daemons, NEW c \in taken'[d]
      PROVE  c[2] = d /\ id2offset'[d][Id(c)] # 0
  <2>1. CASE c \in taken[d]
    BY <1>0, <1>s, <2>1 DEF RegisterInv
  <2>2. CASE \E k \in 1 .. Len(dispatcher_mq[d]) : c = dispatcher_mq[d][k][2]
    BY <1>0, <1>k, <2>2, SMTT(20) DEF RegisterInv
  <2> QED BY <2>1, <2>2, TakenMoves
<1> QED BY <1>1, <1>2, <1>3 DEF RegisterInv

LEMMA ThreadStep ==
  ASSUME ShapeInv, ThreadInv, Next
  PROVE  ThreadInv'
<1>s. output_thread \in [Connections -> {"none", "running", "ended"}]
  BY DEF ShapeInv
<1>1. ASSUME NEW d \in Daemons, StartUpStep(d)
      PROVE  output_thread' = output_thread
  BY <1>1 DEF StartUpStep, Start, Notify, ManagerReadHeader, SecondPhase, RegisterContext, answers
<1>2. ASSUME NEW d \in Daemons, NEW c \in Connections,
             Connect(c) \/ Ask(c) \/ Terminate(c) \/ Dispatch(d) \/ Answer(d, c)
      PROVE  output_thread' = output_thread
  BY <1>2 DEF Connect, Ask, Terminate, Dispatch, Answer, answers
<1>3. ASSUME NEW c \in Connections, HandlerStep(c)
      PROVE  \/ output_thread' = output_thread
             \/ handler'[c] \in FromOpen /\ output_thread' = [output_thread EXCEPT ![c] = "running"]
  <2>1. CASE RegisterOutput(c)
    BY <2>1 DEF RegisterOutput, FromOpen, ShapeInv
  <2> QED BY <1>3, <2>1 DEF HandlerStep, Accept, PushHandler, FirstMessage, TakeOffset,
                            LaterMessage, Finalize, NotifyShutdown, CheckShutdown, answers
<1>4. ASSUME NEW c \in Connections, WriteResult(c)
      PROVE  /\ output_thread[c] = "running"
             /\ \/ output_thread' = output_thread
                \/ output_thread' = [output_thread EXCEPT ![c] = "ended"]
  BY <1>4 DEF WriteResult
<1>5. \A b \in Connections : output_thread'[b] # "none" =>
        output_thread[b] # "none" \/ handler'[b] \in FromOpen
  BY <1>s, <1>1, <1>2, <1>3, <1>4, NextCases DEF LaterStep
<1>6. \A b \in Connections : handler[b] \in FromOpen => handler'[b] \in FromOpen
  BY OpenMoves
<1> QED BY <1>5, <1>6 DEF ThreadInv
-------------------------------------------------------------------------------
(* One step: the output queues                                               *)

LEMMA QueueAppend ==
  ASSUME NEW d \in Daemons, NEW q \in Queues(d), NEW o \in 1 .. Cardinality(At(d)),
         NEW x \in Connections \cup {End}, NEW r, r = [q EXCEPT ![o] = Append(@, x)]
  PROVE  /\ r \in Queues(d)
         /\ \A p \in 1 .. Cardinality(At(d)) : \A k \in 1 .. Len(r[p]) :
              \/ \E j \in 1 .. Len(q[p]) : r[p][k] = q[p][j]
              \/ p = o /\ r[p][k] = x
<1>1. q[o] \in Seq(Connections \cup {End})
  BY DEF Queues
<1>2. /\ Append(q[o], x) \in Seq(Connections \cup {End})
      /\ \A k \in 1 .. Len(Append(q[o], x)) :
           Append(q[o], x)[k] = IF k <= Len(q[o]) THEN q[o][k] ELSE x
  BY <1>1, AppendElements, SMTT(20)
<1>3. Len(q[o]) \in Nat
  BY <1>1, SMTT(20)
<1>4. r \in Queues(d)
  BY <1>2 DEF Queues
<1>5. ASSUME NEW p \in 1 .. Cardinality(At(d)), NEW k \in 1 .. Len(r[p])
      PROVE  (\E j \in 1 .. Len(q[p]) : r[p][k] = q[p][j]) \/ (p = o /\ r[p][k] = x)
  <2>1. CASE p = o
    <3>1. r[p] = Append(q[o], x)
      BY <2>1 DEF Queues
    <3> QED BY <1>2, <1>3, <2>1, <3>1, SMTT(20)
  <2>2. CASE p # o
    BY <2>2 DEF Queues
  <2> QED BY <2>1, <2>2
<1> QED BY <1>4, <1>5

LEMMA QueueTail ==
  ASSUME NEW d \in Daemons, NEW q \in Queues(d), NEW o \in 1 .. Cardinality(At(d)),
         q[o] # <<>>, NEW r, r = [q EXCEPT ![o] = Tail(@)]
  PROVE  /\ r \in Queues(d)
         /\ \A p \in 1 .. Cardinality(At(d)) : \A k \in 1 .. Len(r[p]) :
              \E j \in 1 .. Len(q[p]) : r[p][k] = q[p][j]
<1>1. q[o] \in Seq(Connections \cup {End})
  BY DEF Queues
<1>2. /\ Tail(q[o]) \in Seq(Connections \cup {End})
      /\ \A k \in 1 .. Len(Tail(q[o])) : Tail(q[o])[k] = q[o][k + 1] /\ k + 1 \in 1 .. Len(q[o])
  BY <1>1, TailElements
<1>3. r \in Queues(d)
  BY <1>2 DEF Queues
<1>4. ASSUME NEW p \in 1 .. Cardinality(At(d)), NEW k \in 1 .. Len(r[p])
      PROVE  \E j \in 1 .. Len(q[p]) : r[p][k] = q[p][j]
  <2>1. CASE p = o
    <3>1. r[p] = Tail(q[o])
      BY <2>1 DEF Queues
    <3> QED BY <1>2, <2>1, <3>1
  <2>2. CASE p # o
    BY <2>2 DEF Queues
  <2> QED BY <2>1, <2>2
<1> QED BY <1>3, <1>4
-------------------------------------------------------------------------------
(* One step: the routing of answers                                          *)

\* Nothing takes a race back.
LEMMA RacesStay ==
  ASSUME ShapeInv, Next
  PROVE  races \subseteq races'
<1>1. ASSUME NEW c \in Connections, HandlerStep(c)
      PROVE  races \subseteq races'
  BY <1>1 DEF HandlerStep, Accept, PushHandler, FirstMessage, TakeOffset, RegisterOutput,
              LaterMessage, Finalize, NotifyShutdown, CheckShutdown, Raced, counters
<1> QED BY <1>1, OtherSteps DEF counters

LEMMA UniqueStep ==
  ASSUME ShapeInv, CountInv, UniqueOffsets, Next, "createAndRegisterMQ" \notin races'
  PROVE  UniqueOffsets'
<1>s. /\ handler \in [Connections -> Stages] /\ offset \in [Connections -> Nat]
      /\ output_mqs \in [Daemons -> Nat] /\ \A b \in Connections : b[2] \in Daemons
      /\ \A b \in Connections : offset[b] <= output_mqs[b[2]]
  BY ConnectionType DEF ShapeInv, CountInv
<1>t. /\ \A x \in {"none", "accepted", "pushed"} : x \notin FromSized
      /\ \A x \in {"sized", "open", "counting", "checking", "closed"} : x \in FromSized
  BY DEF FromSized, FromOpen
<1>1. CASE UNCHANGED <<handler, offset, output_mqs>>
  BY <1>1 DEF UniqueOffsets
<1>2. ASSUME NEW c \in Connections, NEW s, s # "pushed", handler[c] # "pushed",
             handler[c] \in FromSized <=> s \in FromSized,
             handler' = [handler EXCEPT ![c] = s], UNCHANGED <<offset, output_mqs>>
      PROVE  UniqueOffsets'
  <2>1. \A b \in Connections : /\ handler'[b] = "pushed" <=> handler[b] = "pushed"
                               /\ handler'[b] \in FromSized <=> handler[b] \in FromSized
    BY <1>s, <1>2
  <2> QED BY <1>2, <2>1 DEF UniqueOffsets
<1>3. ASSUME NEW c \in Connections, FirstMessage(c)
      PROVE  UniqueOffsets'
  <2>1. /\ \A b \in Connections : handler'[b] = IF b = c THEN "pushed" ELSE handler[b]
        /\ \A d \in Daemons : output_mqs'[d] = IF d = c[2] THEN output_mqs[d] + 1 ELSE output_mqs[d]
        /\ offset' = offset
    BY <1>3, <1>s DEF FirstMessage
  <2>2. \A b \in Connections : b[2] = c[2] /\ b # c => handler[b] # "pushed"
    BY <1>3 DEF FirstMessage, Raced, At
  <2>3. \A b \in Connections : offset[b] \in Nat /\ output_mqs[b[2]] \in Nat
    BY <1>s
  <2> SUFFICES ASSUME NEW a \in Connections, NEW b \in Connections, a[2] = b[2], a # b
               PROVE  /\ handler'[a] = "pushed" => handler'[b] # "pushed"
                      /\ handler'[a] = "pushed" /\ handler'[b] \in FromSized =>
                           offset'[b] < output_mqs'[b[2]]
                      /\ handler'[a] \in FromSized /\ handler'[b] \in FromSized =>
                           offset'[a] # offset'[b]
    BY DEF UniqueOffsets
  <2>4. handler'[a] = "pushed" => handler'[b] # "pushed"
    BY <2>1, <2>2 DEF UniqueOffsets
  <2>5. ASSUME handler'[a] = "pushed", handler'[b] \in FromSized
        PROVE  offset'[b] < output_mqs'[b[2]]
    <3>1. CASE b[2] = c[2]
      BY <1>s, <2>1, <2>3, <3>1, SMTT(20)
    <3>2. CASE b[2] # c[2]
      <4>1. handler[a] = "pushed" /\ handler[b] \in FromSized
        BY <1>t, <2>1, <2>5, <3>2
      <4> QED BY <1>s, <2>1, <3>2, <4>1 DEF UniqueOffsets
    <3> QED BY <3>1, <3>2
  <2>6. handler'[a] \in FromSized /\ handler'[b] \in FromSized => offset'[a] # offset'[b]
    BY <1>t, <2>1 DEF UniqueOffsets
  <2> QED BY <2>4, <2>5, <2>6
<1>4. ASSUME NEW c \in Connections, TakeOffset(c)
      PROVE  UniqueOffsets'
  <2>1. /\ handler[c] = "pushed"
        /\ \A b \in Connections : handler'[b] = IF b = c THEN "sized" ELSE handler[b]
        /\ \A b \in Connections : offset'[b] = IF b = c THEN output_mqs[c[2]] ELSE offset[b]
        /\ output_mqs' = output_mqs
    BY <1>4, <1>s DEF TakeOffset
  <2>2. \A b \in Connections : b[2] = c[2] /\ b # c =>
          handler[b] # "pushed" /\ (handler[b] \in FromSized => offset[b] < output_mqs[c[2]])
    BY <2>1 DEF UniqueOffsets
  <2>3. \A b \in Connections : offset[b] \in Nat /\ output_mqs[b[2]] \in Nat
    BY <1>s
  <2> SUFFICES ASSUME NEW a \in Connections, NEW b \in Connections, a[2] = b[2], a # b
               PROVE  /\ handler'[a] = "pushed" => handler'[b] # "pushed"
                      /\ handler'[a] = "pushed" /\ handler'[b] \in FromSized =>
                           offset'[b] < output_mqs'[b[2]]
                      /\ handler'[a] \in FromSized /\ handler'[b] \in FromSized =>
                           offset'[a] # offset'[b]
    BY DEF UniqueOffsets
  <2>4. CASE a = c
    BY <2>1, <2>2, <2>3, <2>4, SMTT(20)
  <2>5. CASE b = c
    BY <2>1, <2>2, <2>3, <2>5, SMTT(20)
  <2>6. CASE a # c /\ b # c
    BY <2>1, <2>6, SMTT(20) DEF UniqueOffsets
  <2> QED BY <2>4, <2>5, <2>6
<1>5. ASSUME NEW c \in Connections, HandlerStep(c)
      PROVE  UniqueOffsets'
  <2>1. CASE PushHandler(c) \/ LaterMessage(c)
    BY <1>1, <2>1 DEF PushHandler, LaterMessage, handlers, registry
  <2>2. CASE Accept(c)
    BY <1>2, <1>t, <2>2 DEF Accept, registry
  <2>3. CASE RegisterOutput(c)
    BY <1>2, <1>t, <2>3 DEF RegisterOutput
  <2>4. CASE Finalize(c)
    BY <1>2, <1>t, <2>4 DEF Finalize, registry
  <2>5. CASE NotifyShutdown(c)
    BY <1>2, <1>t, <2>5 DEF NotifyShutdown, registry
  <2>6. CASE CheckShutdown(c)
    BY <1>2, <1>t, <2>6 DEF CheckShutdown, registry
  <2> QED BY <1>3, <1>4, <1>5, <2>1, <2>2, <2>3, <2>4, <2>5, <2>6 DEF HandlerStep
<1> QED BY <1>1, <1>5, OtherSteps DEF handlers, registry

LEMMA EntriesStep ==
  ASSUME ShapeInv, EntriesOwned, Next
  PROVE  EntriesOwned'
<1> SUFFICES ASSUME NEW d \in Daemons, NEW i \in Ids, id2offset'[d][i] # 0
             PROVE  \E c \in At(d) : handler'[c] \in FromOpen /\ Id(c) = i
                                     /\ offset'[c] = id2offset'[d][i]
  BY DEF EntriesOwned, At
<1>1. CASE id2offset[d][i] # 0
  <2>1. PICK c \in At(d) : handler[c] \in FromOpen /\ Id(c) = i /\ offset[c] = id2offset[d][i]
    BY <1>1 DEF EntriesOwned
  <2>2. id2offset'[d][i] = id2offset[d][i]
    BY <1>1, IdStays
  <2>3. c \in Connections /\ handler[c] \in FromSized
    BY <2>1 DEF At, FromSized
  <2>4. handler'[c] \in FromOpen /\ offset'[c] = offset[c]
    BY <2>1, <2>3, OpenMoves
  <2> QED BY <2>1, <2>2, <2>4
<1>2. CASE id2offset[d][i] = 0
  <2>1. id2offset' # id2offset
    BY <1>2
  <2>2. PICK c \in Connections : RegisterOutput(c)
    <3>1. ASSUME NEW c \in Connections, HandlerStep(c)
          PROVE  id2offset' = id2offset \/ RegisterOutput(c)
      BY <3>1 DEF HandlerStep, Accept, PushHandler, FirstMessage, TakeOffset, LaterMessage,
                  Finalize, NotifyShutdown, CheckShutdown, registry
    <3> QED BY <2>1, <3>1, OtherSteps DEF registry
  <2>3. id2offset' = [id2offset EXCEPT ![c[2]][Id(c)] = IF @ = 0 THEN offset[c] ELSE @]
        /\ handler' = [handler EXCEPT ![c] = "open"] /\ offset' = offset
    BY <2>2 DEF RegisterOutput
  <2>4. id2offset \in [Daemons -> [Ids -> Nat]] /\ handler \in [Connections -> Stages]
    BY DEF ShapeInv
  <2>5. c[2] \in Daemons /\ Id(c) \in Ids /\ c \in At(c[2])
    BY ConnectionType
  <2>6. id2offset'[c[2]] = [id2offset[c[2]] EXCEPT ![Id(c)] = IF @ = 0 THEN offset[c] ELSE @]
        /\ \A e \in Daemons : e # c[2] => id2offset'[e] = id2offset[e]
    BY <2>3, <2>4, <2>5
  <2>7. d = c[2]
    BY <1>2, <2>6
  <2>8. i = Id(c) /\ id2offset'[d][i] = offset[c]
    BY <1>2, <2>4, <2>5, <2>6, <2>7, SMTT(20)
  <2>9. handler'[c] \in FromOpen
    BY <2>3, <2>4 DEF FromOpen
  <2> QED BY <2>3, <2>5, <2>7, <2>8, <2>9
<1> QED BY <1>1, <1>2
-------------------------------------------------------------------------------
(* The counting of handlers                                                  *)

LEMMA ConnectionsFinite ==
  /\ IsFiniteSet(Connections) /\ Cardinality(Connections) \in Nat
  /\ \A d \in Daemons : \A S \in SUBSET At(d) :
       /\ IsFiniteSet(S) /\ Cardinality(S) \in Nat
       /\ Cardinality(S) <= Cardinality(At(d))
       /\ Cardinality(At(d)) <= Cardinality(Connections)
       /\ Cardinality(At(d)) \in Nat
<1>1. IsFiniteSet(Daemons \X Daemons) /\ IsFiniteSet(Clients \X Daemons)
  BY DaemonsAssumption, FS_Product
<1> DEFINE N == {c \in Daemons \X Daemons : c[2] \in Neighbors[c[1]]}
<1>2. IsFiniteSet(N)
  BY <1>1, FS_Subset
<1>3. IsFiniteSet(N \cup (Clients \X Daemons))
  BY <1>1, <1>2, FS_Union
<1>4. IsFiniteSet(Connections) /\ Cardinality(Connections) \in Nat
  BY <1>3, FS_CardinalityType DEF Connections
<1>5. ASSUME NEW d \in Daemons, NEW S \in SUBSET At(d)
      PROVE  /\ IsFiniteSet(S) /\ Cardinality(S) \in Nat
             /\ Cardinality(S) <= Cardinality(At(d))
             /\ Cardinality(At(d)) <= Cardinality(Connections)
             /\ Cardinality(At(d)) \in Nat
  <2>1. At(d) \in SUBSET Connections
    BY DEF At
  <2>2. IsFiniteSet(At(d)) /\ Cardinality(At(d)) <= Cardinality(Connections)
    BY <1>4, <2>1, FS_Subset
  <2>3. IsFiniteSet(S) /\ Cardinality(S) <= Cardinality(At(d))
    BY <2>2, FS_Subset
  <2> QED BY <2>2, <2>3, FS_CardinalityType
<1> QED BY <1>4, <1>5

\* A handler that moves changes the counts of its own daemon only.
LEMMA CountMove ==
  ASSUME handler \in [Connections -> Stages], NEW c \in Connections, NEW s,
         handler' = [handler EXCEPT ![c] = s],
         NEW S, NEW d \in Daemons
  PROVE  /\ Count(d, S) \in Nat /\ Count(d, S)' \in Nat
         /\ Count(d, S) <= Cardinality(At(d))
         /\ d # c[2] => Count(d, S)' = Count(d, S)
         /\ (handler[c] \in S <=> s \in S) => Count(d, S)' = Count(d, S)
         /\ d = c[2] /\ handler[c] \notin S /\ s \in S =>
              Count(d, S)' = Count(d, S) + 1
<1> DEFINE A == {b \in At(d) : handler[b] \in S}
           B == {b \in At(d) : handler'[b] \in S}
<1>1. Count(d, S) = Cardinality(A) /\ Count(d, S)' = Cardinality(B)
  BY DEF Count, At
<1>2. A \in SUBSET At(d) /\ B \in SUBSET At(d)
  OBVIOUS
<1>3. /\ IsFiniteSet(A) /\ Cardinality(A) \in Nat /\ Cardinality(B) \in Nat
      /\ Cardinality(A) <= Cardinality(At(d))
  BY <1>2, ConnectionsFinite
<1>4. At(d) \subseteq Connections /\ \A b \in At(d) : b[2] = d
  BY DEF At
<1>5. d # c[2] \/ (handler[c] \in S <=> s \in S) => A = B
  BY <1>4
<1>6. ASSUME d = c[2], handler[c] \notin S, s \in S
      PROVE  Cardinality(B) = Cardinality(A) + 1
  <2>1. B = A \cup {c} /\ c \notin A
    BY <1>4, <1>6, ConnectionType
  <2> QED BY <1>3, <2>1, FS_AddElement
<1> QED BY <1>1, <1>3, <1>5, <1>6
-------------------------------------------------------------------------------
(* The initial state                                                         *)

LEMMA DaemonInit == Init => DaemonInv
<1> SUFFICES ASSUME Init PROVE DaemonInv
  OBVIOUS
<1>0. IoThreads \in Nat /\ MaxRequests \in [Daemons \cup Clients -> Nat]
  BY DaemonBoundsAssumption
<1>1. ShapeInv
  <2>1. misrouted \in BOOLEAN
    BY DEF Init
  <2>2. dispatcher_mq \in [Daemons -> Seq({"request", "shutdown"} \X Connections)]
    BY SMTT(20) DEF Init
  <2> QED BY <2>1, <2>2, SMTT(20) DEF Init, ShapeInv, Stages, FromPushed, FromSized, FromOpen
<1>2. BarrierInv /\ HandlerInv
  BY DEF Init, BarrierInv, HandlerInv, NoRefusedConnection, Started
<1>3. \A d \in Daemons : \A S : "none" \notin S => Count(d, S) = 0
  <2> SUFFICES ASSUME NEW d \in Daemons, NEW S, "none" \notin S
               PROVE  {c \in At(d) : handler[c] \in S} = {}
    BY FS_EmptySet DEF Count
  <2> QED BY DEF At, Init
<1>4. CountInv
  <2>1. \A d \in Daemons : Count(d, FromPushed) = 0 /\ Count(d, FromChecking) = 0
    BY <1>3 DEF FromPushed, FromSized, FromOpen, FromChecking
  <2>2. \A c \in Connections : 0 <= MaxRequests[c[1]] /\ c[2] \in Daemons
    BY <1>0, ConnectionType, SMTT(20)
  <2> QED BY <2>1, <2>2, SMTT(20) DEF Init, CountInv, FromSized, FromOpen
<1>5. RegisterInv /\ ThreadInv
  BY SMTT(20) DEF Init, RegisterInv, ThreadInv, FromOpen
<1>6. RouteInv
  BY DEF Init, RouteInv, UniqueOffsets, EntriesOwned, FromSized, FromOpen
<1>7. OutputInv
  BY SMTT(20) DEF Init, OutputInv, Queues
<1>8. ShutdownInv
  BY <1>3 DEF Init, ShutdownInv, ExactCount, OpenWhileServing, FromChecking, Finalizing
<1> QED BY <1>1, <1>2, <1>4, <1>5, <1>6, <1>7, <1>8 DEF DaemonInv
-------------------------------------------------------------------------------
(* One step: the barrier                                                     *)

LEMMA BarrierStartUp ==
  ASSUME ShapeInv, BarrierInv, NEW d \in Daemons, StartUpStep(d)
  PROVE  BarrierInv'
<1> USE DEF BarrierInv, NoRefusedConnection, Started, startup, invokers
<1>s. /\ server \in [Daemons -> {"off", "phase1", "waiting"} \cup Started]
      /\ notifications \subseteq Daemons /\ connections_vec \subseteq Daemons
      /\ triggers \subseteq Daemons
  BY DEF ShapeInv
<1>1. CASE Start(d)
  BY <1>s, <1>1 DEF Start
<1>2. CASE Notify(d)
  BY <1>s, <1>2 DEF Notify
<1>3. CASE ManagerReadHeader(d)
  <2> DEFINE vec == connections_vec \cup {d}
  <2>1. /\ vec \subseteq Daemons /\ \A e \in vec : server[e] # "off"
        /\ UNCHANGED <<server, link>>
        /\ notifications' \cup connections_vec' \subseteq notifications \cup connections_vec
    BY <1>s, <1>3 DEF ManagerReadHeader
  <2>2. AllConnected(vec) => vec = Daemons
    BY <2>1, DaemonsAssumption, FS_Subset DEF AllConnected
  <2>3. triggers' # {} => triggers # {} \/ AllConnected(vec)
    BY <1>3 DEF ManagerReadHeader
  <2> QED BY <2>1, <2>2, <2>3
<1>4. CASE SecondPhase(d)
  BY <1>s, <1>4 DEF SecondPhase
<1>5. CASE RegisterContext(d)
  BY <1>5 DEF RegisterContext
<1> QED BY <1>1, <1>2, <1>3, <1>4, <1>5 DEF StartUpStep

LEMMA BarrierStep ==
  ASSUME ShapeInv, BarrierInv, Next
  PROVE  BarrierInv'
BY NextCases, BarrierStartUp, BarrierLater
-------------------------------------------------------------------------------
(* One step: handlers and their counters                                     *)

\* A handler at one of the stages is counted.
LEMMA CountPositive ==
  ASSUME NEW c \in Connections, NEW S, handler[c] \in S
  PROVE  Count(c[2], S) \in Nat /\ Count(c[2], S) > 0
<1> DEFINE A == {b \in At(c[2]) : handler[b] \in S}
<1>1. c \in A /\ A \in SUBSET At(c[2]) /\ c[2] \in Daemons
  BY ConnectionType
<1>2. IsFiniteSet(A) /\ Cardinality(A) \in Nat
  BY <1>1, ConnectionsFinite
<1>3. Cardinality(A) # 0
  BY <1>1, <1>2, FS_EmptySet
<1> QED BY <1>2, <1>3, SMTT(20) DEF Count

\* How the two counts that matter follow a move of a handler.
LEMMA CountAfter ==
  ASSUME handler \in [Connections -> Stages], NEW c \in Connections, NEW s,
         handler' = [handler EXCEPT ![c] = s], NEW d \in Daemons
  PROVE  /\ Count(d, FromPushed) \in Nat /\ Count(d, FromChecking) \in Nat
         /\ (handler[c] \in FromPushed <=> s \in FromPushed) =>
              Count(d, FromPushed)' = Count(d, FromPushed)
         /\ (handler[c] \in FromChecking <=> s \in FromChecking) =>
              Count(d, FromChecking)' = Count(d, FromChecking)
         /\ handler[c] \notin FromPushed /\ s \in FromPushed =>
              Count(d, FromPushed)' = IF d = c[2] THEN Count(d, FromPushed) + 1
                                      ELSE Count(d, FromPushed)
         /\ handler[c] \notin FromChecking /\ s \in FromChecking =>
              Count(d, FromChecking)' = IF d = c[2] THEN Count(d, FromChecking) + 1
                                        ELSE Count(d, FromChecking)
<1>1. ASSUME NEW S
      PROVE  /\ Count(d, S) \in Nat
             /\ (handler[c] \in S <=> s \in S) => Count(d, S)' = Count(d, S)
             /\ handler[c] \notin S /\ s \in S =>
                  Count(d, S)' = IF d = c[2] THEN Count(d, S) + 1 ELSE Count(d, S)
  BY CountMove
<1> QED BY <1>1

LEMMA CountHandler ==
  ASSUME ShapeInv, CountInv, \A b \in Connections : sent'[b] <= MaxRequests[b[1]],
         NEW c \in Connections, HandlerStep(c)
  PROVE  CountInv'
<1> DEFINE n == c[2]
<1> USE DEF handlers, registry, counters
<1>t. /\ \A x \in {"none", "accepted"} :
           x \notin FromPushed /\ x \notin FromSized /\ x \notin FromChecking
      /\ "pushed" \in FromPushed /\ "pushed" \notin FromSized /\ "pushed" \notin FromChecking
      /\ \A x \in {"sized", "open", "counting"} :
           x \in FromPushed /\ x \in FromSized /\ x \notin FromChecking
      /\ \A x \in {"checking", "closed"} :
           x \in FromPushed /\ x \in FromSized /\ x \in FromChecking
  BY DEF FromChecking, FromPushed, FromSized, FromOpen
<1>0. n \in Daemons /\ Id(c) \in Ids /\ \A b \in Connections : b[2] \in Daemons
  BY ConnectionType
<1>s. /\ handler \in [Connections -> Stages] /\ offset \in [Connections -> Nat]
      /\ output_mqs \in [Daemons -> Nat] /\ id2offset \in [Daemons -> [Ids -> Nat]]
      /\ count_shutdown_handlers \in [Daemons -> Nat] /\ counted \in [Connections -> Nat]
  BY DEF ShapeInv
<1>i. /\ \A d \in Daemons :
           /\ output_mqs[d] = Count(d, FromPushed)
           /\ count_shutdown_handlers[d] <= Count(d, FromChecking)
           /\ \A i \in Ids : id2offset[d][i] <= output_mqs[d]
      /\ \A b \in Connections :
           /\ handler[b] = "counting" => counted[b] <= Count(b[2], FromChecking)
           /\ offset[b] <= output_mqs[b[2]]
           /\ handler[b] \in FromSized => offset[b] > 0
  BY DEF CountInv
<1>1. CASE Accept(c)
  <2>0. /\ handler' = [handler EXCEPT ![c] = "accepted"]
        /\ handler[c] \in FromPushed <=> "accepted" \in FromPushed
        /\ handler[c] \in FromChecking <=> "accepted" \in FromChecking
    BY <1>1, <1>t DEF Accept
  <2>1. \A d \in Daemons : /\ Count(d, FromPushed)' = Count(d, FromPushed)
                           /\ Count(d, FromChecking)' = Count(d, FromChecking)
    BY <2>0, CountAfter DEF ShapeInv
  <2> QED BY <1>1, <1>0, <1>s, <1>t, <1>i, <2>1 DEF Accept, CountInv
<1>2. CASE PushHandler(c) \/ LaterMessage(c)
  <2>1. UNCHANGED <<handler, offset, output_mqs, id2offset, count_shutdown_handlers, counted>>
    BY <1>2 DEF PushHandler, LaterMessage
  <2>2. \A d \in Daemons : Count(d, FromPushed)' = Count(d, FromPushed)
                           /\ Count(d, FromChecking)' = Count(d, FromChecking)
    BY <2>1, CountStays
  <2> QED BY <1>0, <1>i, <2>1, <2>2 DEF CountInv
<1>3. CASE FirstMessage(c)
  <2>1. \A d \in Daemons : Count(d, FromChecking)' = Count(d, FromChecking)
    BY <1>3, <1>s, <1>t, CountAfter DEF FirstMessage
  <2>2. \A d \in Daemons : Count(d, FromPushed)' = IF d = n THEN Count(d, FromPushed) + 1
                                                   ELSE Count(d, FromPushed)
    BY <1>3, <1>s, <1>t, CountAfter DEF FirstMessage
  <2>3. \A d \in Daemons : output_mqs'[d] = IF d = n THEN output_mqs[d] + 1 ELSE output_mqs[d]
    BY <1>3, <1>s DEF FirstMessage
  <2>4. UNCHANGED <<offset, id2offset, count_shutdown_handlers, counted>>
        /\ \A b \in Connections : handler'[b] = IF b = c THEN "pushed" ELSE handler[b]
    BY <1>3, <1>s DEF FirstMessage
  <2>5. \A d \in Daemons :
          /\ output_mqs'[d] = Count(d, FromPushed)'
          /\ count_shutdown_handlers'[d] <= Count(d, FromChecking)'
          /\ \A i \in Ids : id2offset'[d][i] <= output_mqs'[d]
    BY <1>s, <1>i, <2>1, <2>2, <2>3, <2>4, SMTT(20)
  <2>6. \A b \in Connections :
          /\ handler'[b] = "counting" => counted'[b] <= Count(b[2], FromChecking)'
          /\ handler'[b] \in FromSized => offset'[b] > 0
    BY <1>0, <1>t, <1>i, <2>1, <2>4
  <2>7. \A b \in Connections : offset'[b] <= output_mqs'[b[2]]
    BY <1>0, <1>s, <1>i, <2>3, <2>4, SMTT(20)
  <2> QED BY <2>5, <2>6, <2>7 DEF CountInv
<1>4. CASE TakeOffset(c)
  <2>0. /\ handler' = [handler EXCEPT ![c] = "sized"]
        /\ handler[c] \in FromPushed <=> "sized" \in FromPushed
        /\ handler[c] \in FromChecking <=> "sized" \in FromChecking
    BY <1>4, <1>t DEF TakeOffset
  <2>1. \A d \in Daemons : /\ Count(d, FromPushed)' = Count(d, FromPushed)
                           /\ Count(d, FromChecking)' = Count(d, FromChecking)
    BY <2>0, CountAfter DEF ShapeInv
  <2>2. output_mqs[n] > 0
    BY <1>4, <1>i, <1>0, <1>t, CountPositive DEF TakeOffset
  <2>3. offset' = [offset EXCEPT ![c] = output_mqs[n]]
        /\ UNCHANGED <<output_mqs, id2offset, count_shutdown_handlers, counted>>
    BY <1>4 DEF TakeOffset
  <2>4. \A b \in Connections : /\ offset'[b] <= output_mqs[b[2]]
                               /\ handler'[b] \in FromSized => offset'[b] > 0
    BY <1>0, <1>s, <1>i, <2>0, <2>2, <2>3, SMTT(20)
  <2>5. \A b \in Connections : handler'[b] = "counting" => handler[b] = "counting"
    BY <1>s, <2>0
  <2> QED BY <1>0, <1>i, <2>1, <2>3, <2>4, <2>5 DEF CountInv
<1>5. CASE RegisterOutput(c)
  <2>1. \A d \in Daemons : /\ Count(d, FromPushed)' = Count(d, FromPushed)
                           /\ Count(d, FromChecking)' = Count(d, FromChecking)
    BY <1>5, <1>s, <1>t, CountAfter DEF RegisterOutput
  <2>2. \A d \in Daemons : \A i \in Ids : id2offset'[d][i] <= output_mqs[d]
    BY <1>5, <1>0, <1>s, <1>i DEF RegisterOutput
  <2> QED BY <1>5, <1>0, <1>s, <1>t, <1>i, <2>1, <2>2 DEF RegisterOutput, CountInv
<1>6. CASE Finalize(c)
  <2>1. \A d \in Daemons : /\ Count(d, FromPushed)' = Count(d, FromPushed)
                           /\ Count(d, FromChecking)' = Count(d, FromChecking)
    BY <1>6, <1>s, <1>t, CountAfter DEF Finalize
  <2>2. \A b \in Connections : handler'[b] = "counting" =>
                                 counted'[b] <= Count(b[2], FromChecking)
    BY <1>6, <1>0, <1>s, <1>i DEF Finalize
  <2> QED BY <1>6, <1>0, <1>s, <1>t, <1>i, <2>1, <2>2 DEF Finalize, CountInv
<1>7. CASE NotifyShutdown(c)
  <2>1. \A d \in Daemons : Count(d, FromPushed)' = Count(d, FromPushed)
    BY <1>7, <1>s, <1>t, CountAfter DEF NotifyShutdown
  <2>2. \A d \in Daemons : /\ Count(d, FromChecking) \in Nat
                           /\ Count(d, FromChecking)' = IF d = n THEN Count(d, FromChecking) + 1
                                                        ELSE Count(d, FromChecking)
    BY <1>7, <1>s, <1>t, CountAfter DEF NotifyShutdown
  <2>n. /\ handler' = [handler EXCEPT ![c] = "checking"] /\ handler[c] = "counting"
        /\ count_shutdown_handlers' = [count_shutdown_handlers EXCEPT ![n] = counted[c] + 1]
        /\ counted' = [counted EXCEPT ![c] = 0]
    BY <1>7 DEF NotifyShutdown
  <2>3. \A d \in Daemons : count_shutdown_handlers'[d] <= Count(d, FromChecking)'
    BY <1>0, <1>s, <1>i, <2>n, <2>2, SMTT(20)
  <2>4. \A b \in Connections : handler'[b] = "counting" =>
                                 counted'[b] <= Count(b[2], FromChecking)'
    BY <1>0, <1>s, <1>i, <2>n, <2>2, SMTT(20)
  <2>5. \A b \in Connections : handler'[b] \in FromSized => offset[b] > 0
    BY <1>7, <1>s, <1>t, <1>i DEF NotifyShutdown
  <2>6. UNCHANGED registry
    BY <1>7 DEF NotifyShutdown
  <2> QED BY <1>0, <1>i, <2>1, <2>3, <2>4, <2>5, <2>6 DEF CountInv
<1>8. CASE CheckShutdown(c)
  <2>1. \A d \in Daemons : /\ Count(d, FromPushed)' = Count(d, FromPushed)
                           /\ Count(d, FromChecking)' = Count(d, FromChecking)
    BY <1>8, <1>s, <1>t, CountAfter DEF CheckShutdown
  <2> QED BY <1>8, <1>0, <1>s, <1>t, <1>i, <2>1 DEF CheckShutdown, CountInv
<1> QED BY <1>1, <1>2, <1>3, <1>4, <1>5, <1>6, <1>7, <1>8 DEF HandlerStep

LEMMA CountStep ==
  ASSUME ShapeInv, CountInv, Next
  PROVE  CountInv'
<1>1. \A b \in Connections : sent'[b] <= MaxRequests[b[1]]
  BY SentStep
<1>2. CASE UNCHANGED <<handlers, registry, counters>>
  <2>1. \A d \in Daemons : Count(d, FromPushed)' = Count(d, FromPushed)
                           /\ Count(d, FromChecking)' = Count(d, FromChecking)
    BY <1>2, CountStays DEF handlers
  <2>2. \A c \in Connections : c[2] \in Daemons
    BY ConnectionType
  <2> QED BY <1>1, <1>2, <2>1, <2>2 DEF CountInv, handlers, registry, counters
<1> QED BY <1>1, <1>2, OtherSteps, CountHandler
-------------------------------------------------------------------------------
(* One step: the output queues                                               *)

\* There is an output queue for every offset in use.
LEMMA OffsetRange ==
  ASSUME ShapeInv, CountInv
  PROVE  /\ \A c \in Connections : handler[c] \in FromSized =>
              offset[c] \in 1 .. Cardinality(At(c[2]))
         /\ \A d \in Daemons : \A i \in Ids :
              id2offset[d][i] # 0 => id2offset[d][i] \in 1 .. Cardinality(At(d))
<1>1. ASSUME NEW d \in Daemons
      PROVE  /\ Count(d, FromPushed) <= Cardinality(At(d))
             /\ Count(d, FromPushed) \in Nat /\ Cardinality(At(d)) \in Nat
  <2>1. {c \in At(d) : handler[c] \in FromPushed} \in SUBSET At(d)
    OBVIOUS
  <2> QED BY <2>1, ConnectionsFinite DEF Count
<1>2. \A c \in Connections : c[2] \in Daemons /\ offset[c] \in Nat
  BY ConnectionType DEF ShapeInv
<1>3. \A d \in Daemons : \A i \in Ids : id2offset[d][i] \in Nat
  BY SMTT(20) DEF ShapeInv
<1> QED BY <1>1, <1>2, <1>3, SMTT(20) DEF CountInv

\* How the output queues of a step come about.
LEMMA OutputMoves ==
  ASSUME ShapeInv, CountInv, RegisterInv, ThreadInv, Next
  PROVE  \/ output_mq' = output_mq
         \/ \E d \in Daemons : \E o \in 1 .. Cardinality(At(d)) :
              \/ output_mq' = [output_mq EXCEPT ![d][o] = Append(@, End)]
              \/ output_mq[d][o] # <<>> /\ output_mq' = [output_mq EXCEPT ![d][o] = Tail(@)]
              \/ \E c \in Connections : /\ id2offset[d][Id(c)] = o
                                        /\ output_mq' = [output_mq EXCEPT ![d][o] = Append(@, c)]
<1>1. ASSUME NEW d \in Daemons, StartUpStep(d)
      PROVE  output_mq' = output_mq
  BY <1>1 DEF StartUpStep, Start, Notify, ManagerReadHeader, SecondPhase, RegisterContext, answers
<1>2. ASSUME NEW d \in Daemons, NEW c \in Connections,
             Connect(c) \/ Ask(c) \/ Terminate(c) \/ Dispatch(d)
      PROVE  output_mq' = output_mq
  BY <1>2 DEF Connect, Ask, Terminate, Dispatch, answers
<1>3. ASSUME NEW c \in Connections, HandlerStep(c), ~Finalize(c)
      PROVE  output_mq' = output_mq
  BY <1>3 DEF HandlerStep, Accept, PushHandler, FirstMessage, TakeOffset, RegisterOutput,
              LaterMessage, NotifyShutdown, CheckShutdown, answers
<1>4. ASSUME NEW c \in Connections, Finalize(c)
      PROVE  /\ c[2] \in Daemons /\ offset[c] \in 1 .. Cardinality(At(c[2]))
             /\ output_mq' = [output_mq EXCEPT ![c[2]][offset[c]] = Append(@, End)]
  <2>1. handler[c] \in FromSized
    BY <1>4 DEF Finalize, FromSized, FromOpen
  <2> QED BY <1>4, <2>1, OffsetRange, ConnectionType DEF Finalize
<1>5. ASSUME NEW c \in Connections, WriteResult(c)
      PROVE  /\ c[2] \in Daemons /\ offset[c] \in 1 .. Cardinality(At(c[2]))
             /\ output_mq[c[2]][offset[c]] # <<>>
             /\ output_mq' = [output_mq EXCEPT ![c[2]][offset[c]] = Tail(@)]
  <2>1. handler[c] \in FromSized
    BY <1>5 DEF WriteResult, FromSized, ThreadInv
  <2>2. /\ output_mq[c[2]][offset[c]] # <<>>
        /\ output_mq' = [output_mq EXCEPT ![c[2]][offset[c]] = Tail(@)]
    BY <1>5 DEF WriteResult
  <2> QED BY <2>1, <2>2, OffsetRange, ConnectionType
<1>6. ASSUME NEW d \in Daemons, NEW c \in Connections, Answer(d, c)
      PROVE  /\ id2offset[d][Id(c)] \in 1 .. Cardinality(At(d))
             /\ output_mq' = [output_mq EXCEPT ![d][id2offset[d][Id(c)]] = Append(@, c)]
  <2>1. id2offset[d][Id(c)] # 0
    BY <1>6 DEF Answer, RegisterInv
  <2> QED BY <1>6, <2>1, OffsetRange, ConnectionType DEF Answer
<1> DEFINE G == \/ output_mq' = output_mq
                \/ \E d \in Daemons : \E o \in 1 .. Cardinality(At(d)) :
                     \/ output_mq' = [output_mq EXCEPT ![d][o] = Append(@, End)]
                     \/ output_mq[d][o] # <<>> /\ output_mq' = [output_mq EXCEPT ![d][o] = Tail(@)]
                     \/ \E c \in Connections :
                          /\ id2offset[d][Id(c)] = o
                          /\ output_mq' = [output_mq EXCEPT ![d][o] = Append(@, c)]
<1>8. ASSUME NEW d \in Daemons, NEW c \in Connections, LaterStep(d, c)
      PROVE  G
  <2>1. CASE Finalize(c)
    BY <1>4, <2>1
  <2>2. CASE WriteResult(c)
    BY <1>5, <2>2
  <2>3. CASE Answer(d, c)
    BY <1>6, <2>3, SMTT(20)
  <2> QED BY <1>2, <1>3, <1>8, <2>1, <2>2, <2>3 DEF LaterStep
<1> QED BY <1>1, <1>8, NextCases

LEMMA OutputStep ==
  ASSUME ShapeInv, CountInv, RegisterInv, ThreadInv, OutputInv, Next
  PROVE  OutputInv'
<1>s. /\ output_mq = [d \in Daemons |-> output_mq[d]]
      /\ \A d \in Daemons : output_mq[d] \in Queues(d)
      /\ \A c \in Connections : Id(c) \in Ids
  BY ConnectionType DEF ShapeInv, OutputInv
<1> DEFINE From(d) ==
      /\ output_mq'[d] \in Queues(d)
      /\ \A p \in 1 .. Cardinality(At(d)) : \A k \in 1 .. Len(output_mq'[d][p]) :
           \/ output_mq'[d][p][k] = End
           \/ \E j \in 1 .. Len(output_mq[d][p]) : output_mq'[d][p][k] = output_mq[d][p][j]
           \/ id2offset[d][Id(output_mq'[d][p][k])] = p
<1>1. ASSUME NEW d \in Daemons
      PROVE  From(d)
  <2>0. CASE output_mq'[d] = output_mq[d]
    BY <1>s, <2>0
  <2>1. ASSUME NEW o \in 1 .. Cardinality(At(d)),
               output_mq' = [output_mq EXCEPT ![d][o] = Append(@, End)]
        PROVE  output_mq'[d] = [output_mq[d] EXCEPT ![o] = Append(@, End)]
    BY <1>s, <2>1
  <2>2. ASSUME NEW o \in 1 .. Cardinality(At(d)),
               output_mq' = [output_mq EXCEPT ![d][o] = Tail(@)]
        PROVE  output_mq'[d] = [output_mq[d] EXCEPT ![o] = Tail(@)]
    BY <1>s, <2>2
  <2>3. ASSUME NEW o \in 1 .. Cardinality(At(d)), NEW c \in Connections,
               output_mq' = [output_mq EXCEPT ![d][o] = Append(@, c)]
        PROVE  output_mq'[d] = [output_mq[d] EXCEPT ![o] = Append(@, c)]
    BY <1>s, <2>3
  <2>4. ASSUME NEW o \in 1 .. Cardinality(At(d)),
               output_mq'[d] = [output_mq[d] EXCEPT ![o] = Append(@, End)]
        PROVE  From(d)
    BY <1>s, <2>4, QueueAppend, SMTT(20)
  <2>5. ASSUME NEW o \in 1 .. Cardinality(At(d)), output_mq[d][o] # <<>>,
               output_mq'[d] = [output_mq[d] EXCEPT ![o] = Tail(@)]
        PROVE  From(d)
    BY <1>s, <2>5, QueueTail, SMTT(20)
  <2>6. ASSUME NEW o \in 1 .. Cardinality(At(d)), NEW c \in Connections, id2offset[d][Id(c)] = o,
               output_mq'[d] = [output_mq[d] EXCEPT ![o] = Append(@, c)]
        PROVE  From(d)
    BY <1>s, <2>6, QueueAppend, SMTT(20)
  <2>7. ASSUME NEW e \in Daemons, NEW o \in 1 .. Cardinality(At(e)),
               \/ output_mq' = [output_mq EXCEPT ![e][o] = Append(@, End)]
               \/ output_mq[e][o] # <<>> /\ output_mq' = [output_mq EXCEPT ![e][o] = Tail(@)]
               \/ \E c \in Connections : /\ id2offset[e][Id(c)] = o
                                         /\ output_mq' = [output_mq EXCEPT ![e][o] = Append(@, c)]
        PROVE  From(d)
    <3> HIDE DEF From
    <3>1. CASE e # d
      <4>1. output_mq'[d] = output_mq[d]
        BY <1>s, <2>7, <3>1
      <4> QED BY <2>0, <4>1
    <3>2. CASE e = d
      <4>1. CASE output_mq' = [output_mq EXCEPT ![d][o] = Append(@, End)]
        BY <2>1, <2>4, <2>7, <3>2, <4>1
      <4>2. CASE output_mq[d][o] # <<>> /\ output_mq' = [output_mq EXCEPT ![d][o] = Tail(@)]
        BY <2>2, <2>5, <2>7, <3>2, <4>2
      <4>3. ASSUME NEW c \in Connections, id2offset[d][Id(c)] = o,
                   output_mq' = [output_mq EXCEPT ![d][o] = Append(@, c)]
            PROVE  From(d)
        BY <2>3, <2>6, <2>7, <3>2, <4>3
      <4> QED BY <2>7, <3>2, <4>1, <4>2, <4>3
    <3> QED BY <3>1, <3>2
  <2> HIDE DEF From
  <2> QED BY <2>0, <2>7, OutputMoves
<1>2. ASSUME NEW d \in Daemons, NEW p \in 1 .. Cardinality(At(d)),
             NEW k \in 1 .. Len(output_mq'[d][p]), output_mq'[d][p][k] # End
      PROVE  id2offset'[d][Id(output_mq'[d][p][k])] = p
  <2> DEFINE x == output_mq'[d][p][k]
  <2>0. \/ x = End
        \/ \E j \in 1 .. Len(output_mq[d][p]) : x = output_mq[d][p][j]
        \/ id2offset[d][Id(x)] = p
    BY <1>1
  <2>1. id2offset[d][Id(x)] = p
    <3>1. \A j \in 1 .. Len(output_mq[d][p]) :
            output_mq[d][p][j] # End => id2offset[d][Id(output_mq[d][p][j])] = p
      BY DEF OutputInv
    <3>2. x # End
      BY <1>2
    <3> HIDE DEF x
    <3> QED BY <2>0, <3>1, <3>2
  <2>2. output_mq'[d][p] \in Seq(Connections \cup {End})
    BY <1>1 DEF Queues
  <2>3. x \in Connections
    BY <1>2, <2>2, SMTT(20)
  <2>4. Id(x) \in Ids
    BY <1>s, <2>3
  <2>5. p # 0
    BY SMTT(20)
  <2> HIDE DEF x
  <2> QED BY <2>1, <2>4, <2>5, IdStays DEF x
<1>3. \A d \in Daemons : output_mq'[d] \in Queues(d)
  BY <1>1
<1> QED BY <1>2, <1>3 DEF OutputInv, Queues, At
-------------------------------------------------------------------------------
(* One step: the routing of answers                                          *)

\* A result that is written is the thread's own.
LEMMA WriteRouted ==
  ASSUME DaemonInv, UniqueOffsets, EntriesOwned, NEW c \in Connections, WriteResult(c),
         Head(output_mq[c[2]][offset[c]]) # End
  PROVE  Id(Head(output_mq[c[2]][offset[c]])) = Id(c)
<1> DEFINE q == output_mq[c[2]][offset[c]]
           x == Head(q)
<1>1. handler[c] \in FromOpen /\ handler[c] \in FromSized
  BY DEF WriteResult, DaemonInv, ThreadInv, FromSized
<1>2. offset[c] \in 1 .. Cardinality(At(c[2])) /\ c[2] \in Daemons
  BY <1>1, OffsetRange, ConnectionType DEF DaemonInv
<1>3. q \in Seq(Connections \cup {End}) /\ q # <<>>
  BY <1>2 DEF DaemonInv, OutputInv, Queues, WriteResult
<1>4. x = q[1] /\ 1 \in 1 .. Len(q) /\ x \in Connections
  BY <1>3, TailElements, SMTT(20)
<1>5. id2offset[c[2]][Id(x)] = offset[c]
  BY <1>2, <1>4 DEF DaemonInv, OutputInv
<1> HIDE DEF q, x
<1>6. Id(x) \in Ids /\ id2offset[c[2]][Id(x)] # 0
  <2>1. Id(x) \in Ids
    BY <1>4, ConnectionType
  <2>2. offset[c] # 0
    BY <1>2, SMTT(20)
  <2> QED BY <1>5, <2>1, <2>2
<1>7. PICK b \in At(c[2]) : handler[b] \in FromOpen /\ Id(b) = Id(x) /\ offset[b] = offset[c]
  BY <1>2, <1>5, <1>6, SMTT(20) DEF EntriesOwned
<1>8. b = c
  BY <1>1, <1>7 DEF UniqueOffsets, At, FromSized
<1> QED BY <1>7, <1>8 DEF x, q

LEMMA RouteStep ==
  ASSUME DaemonInv, Next
  PROVE  RouteInv'
<1> SUFFICES ASSUME "createAndRegisterMQ" \notin races'
             PROVE  UniqueOffsets' /\ EntriesOwned' /\ ~misrouted'
  BY DEF RouteInv
<1>0. ShapeInv /\ CountInv /\ UniqueOffsets /\ EntriesOwned /\ ~misrouted
  <2>1. "createAndRegisterMQ" \notin races
    BY RacesStay DEF DaemonInv
  <2> QED BY <2>1 DEF DaemonInv, RouteInv
<1>1. UniqueOffsets' /\ EntriesOwned'
  BY <1>0, UniqueStep, EntriesStep
<1>2. ASSUME NEW d \in Daemons, StartUpStep(d)
      PROVE  misrouted' = misrouted
  BY <1>2 DEF StartUpStep, Start, Notify, ManagerReadHeader, SecondPhase, RegisterContext, answers
<1>3. ASSUME NEW d \in Daemons, NEW c \in Connections,
             Connect(c) \/ Ask(c) \/ Terminate(c) \/ Dispatch(d) \/ Answer(d, c)
      PROVE  misrouted' = misrouted
  BY <1>3 DEF Connect, Ask, Terminate, Dispatch, Answer, answers
<1>4. ASSUME NEW c \in Connections, HandlerStep(c)
      PROVE  misrouted' = misrouted
  BY <1>4 DEF HandlerStep, Accept, PushHandler, FirstMessage, TakeOffset, RegisterOutput,
              LaterMessage, Finalize, NotifyShutdown, CheckShutdown, answers
<1>5. ASSUME NEW c \in Connections, WriteResult(c)
      PROVE  ~misrouted'
  <2> DEFINE x == Head(output_mq[c[2]][offset[c]])
  <2>1. \/ misrouted' = misrouted
        \/ x # End /\ misrouted' = (misrouted \/ Id(x) # Id(c))
    BY <1>5 DEF WriteResult
  <2>2. x # End => Id(x) = Id(c)
    BY <1>0, <1>5, WriteRouted
  <2> HIDE DEF x
  <2> QED BY <1>0, <2>1, <2>2
<1> QED BY <1>0, <1>1, <1>2, <1>3, <1>4, <1>5, NextCases DEF LaterStep
-------------------------------------------------------------------------------
(* One step: the shutdown                                                    *)

LEMMA ExactStep ==
  ASSUME ShapeInv, ExactCount, Next, races' \subseteq {"createAndRegisterMQ"}
  PROVE  ExactCount'
<1>s. /\ handler \in [Connections -> Stages] /\ handler_vec \in [Daemons -> SUBSET Connections]
      /\ count_shutdown_handlers \in [Daemons -> Nat] /\ counted \in [Connections -> Nat]
      /\ \A b \in Connections : b[2] \in Daemons
  BY ConnectionType DEF ShapeInv
<1>t. /\ \A x \in {"none", "accepted", "pushed", "sized", "open"} :
           x \notin FromChecking /\ x \notin Finalizing /\ x # "counting" /\ x # "closed"
      /\ "counting" \in Finalizing /\ "counting" \notin FromChecking
      /\ "checking" \in Finalizing /\ "checking" \in FromChecking
      /\ "closed" \notin Finalizing /\ "closed" \in FromChecking
  BY DEF FromChecking, Finalizing
<1>1. CASE UNCHANGED <<handlers, counters>>
  <2>1. \A d \in Daemons : Count(d, FromChecking)' = Count(d, FromChecking)
    BY <1>1, CountStays DEF handlers
  <2> QED BY <1>1, <2>1 DEF ExactCount, handlers, counters
<1>2. ASSUME NEW c \in Connections, NEW s \in {"accepted", "pushed", "sized", "open"},
             handler[c] \in {"none", "accepted", "pushed", "sized", "open"},
             handler' = [handler EXCEPT ![c] = s],
             UNCHANGED <<handler_vec, count_shutdown_handlers, counted>>
      PROVE  ExactCount'
  <2>1. \A d \in Daemons : Count(d, FromChecking)' = Count(d, FromChecking)
    BY <1>s, <1>t, <1>2, CountAfter
  <2>2. \A b \in Connections :
          /\ handler'[b] \in Finalizing <=> handler[b] \in Finalizing
          /\ handler'[b] = "counting" <=> handler[b] = "counting"
          /\ handler'[b] = "closed" <=> handler[b] = "closed"
    BY <1>s, <1>t, <1>2
  <2> QED BY <1>2, <2>1, <2>2, SMTT(20) DEF ExactCount
<1>3. ASSUME NEW c \in Connections, PushHandler(c)
      PROVE  ExactCount'
  <2>1. UNCHANGED <<handler, count_shutdown_handlers, counted>>
        /\ \A d \in Daemons : handler_vec[d] \subseteq handler_vec'[d]
    BY <1>3, <1>s DEF PushHandler, counters
  <2>2. \A d \in Daemons : Count(d, FromChecking)' = Count(d, FromChecking)
    BY <2>1, CountStays
  <2> QED BY <1>s, <2>1, <2>2 DEF ExactCount
<1>4. ASSUME NEW c \in Connections, Finalize(c)
      PROVE  ExactCount'
  <2>1. /\ handler[c] = "open" /\ handler' = [handler EXCEPT ![c] = "counting"]
        /\ counted' = [counted EXCEPT ![c] = count_shutdown_handlers[c[2]]]
        /\ UNCHANGED <<handler_vec, count_shutdown_handlers>>
        /\ races' = Raced("handle_finalize", {"counting", "checking"}, c)
                    \cup (IF c \in handler_vec[c[2]] THEN {} ELSE {"handler_vec"})
    BY <1>4 DEF Finalize
  <2>2. c \in handler_vec[c[2]]
    BY <2>1
  <2>3. \A b \in Connections : b[2] = c[2] /\ b # c => handler[b] \notin Finalizing
    BY <2>1 DEF Raced, At, Finalizing
  <2>4. ASSUME NEW d \in Daemons PROVE Count(d, FromChecking)' = Count(d, FromChecking)
    <3>1. handler[c] \notin FromChecking /\ "counting" \notin FromChecking
      BY <1>t, <2>1
    <3>2. handler' = [handler EXCEPT ![c] = "counting"]
      BY <2>1
    <3> QED BY <1>s, <3>1, <3>2, CountAfter
  <2>5. \A b \in Connections : /\ handler'[b] = IF b = c THEN "counting" ELSE handler[b]
                               /\ counted'[b] = IF b = c THEN count_shutdown_handlers[c[2]]
                                                ELSE counted[b]
    BY <1>s, <2>1
  <2>6. UNCHANGED <<handler_vec, count_shutdown_handlers>>
    BY <2>1
  <2> QED BY <1>t, <2>2, <2>3, <2>4, <2>5, <2>6, SMTT(20) DEF ExactCount
<1>5. ASSUME NEW c \in Connections, NotifyShutdown(c)
      PROVE  ExactCount'
  <2>1. /\ handler[c] = "counting" /\ handler' = [handler EXCEPT ![c] = "checking"]
        /\ handler_vec' = handler_vec
        /\ \A d \in Daemons : count_shutdown_handlers'[d] =
             IF d = c[2] THEN counted[c] + 1 ELSE count_shutdown_handlers[d]
        /\ \A b \in Connections : b # c => counted'[b] = counted[b]
    BY <1>5, <1>s DEF NotifyShutdown
  <2>2. ASSUME NEW d \in Daemons
        PROVE  Count(d, FromChecking)' =
                 IF d = c[2] THEN Count(d, FromChecking) + 1 ELSE Count(d, FromChecking)
    <3>1. handler[c] \notin FromChecking /\ "checking" \in FromChecking
      BY <1>t, <2>1
    <3>2. handler' = [handler EXCEPT ![c] = "checking"]
      BY <2>1
    <3> QED BY <1>s, <3>1, <3>2, CountAfter
  <2>3. \A b \in Connections : handler'[b] = IF b = c THEN "checking" ELSE handler[b]
    BY <1>s, <2>1
  <2>4. \A b \in Connections : b[2] = c[2] /\ b # c => handler[b] \notin Finalizing
    BY <1>t, <2>1 DEF ExactCount
  <2>5. \A d \in Daemons : count_shutdown_handlers'[d] = Count(d, FromChecking)'
    BY <1>s, <2>1, <2>2, SMTT(20) DEF ExactCount
  <2>6. \A b \in Connections : handler'[b] = "counting" =>
                                 counted'[b] = count_shutdown_handlers'[b[2]]
    BY <1>s, <1>t, <2>1, <2>3, <2>4, SMTT(20) DEF ExactCount
  <2>7. \A b \in Connections : handler'[b] \in Finalizing \cup {"closed"} =>
                                 b \in handler_vec'[b[2]]
    BY <1>t, <2>1, <2>3, SMTT(20) DEF ExactCount
  <2>8. \A a, b \in Connections : a[2] = b[2] /\ a # b /\ handler'[a] \in Finalizing =>
          handler'[b] \notin Finalizing
    BY <1>t, <2>3, <2>4 DEF ExactCount
  <2> QED BY <2>5, <2>6, <2>7, <2>8 DEF ExactCount
<1>6. ASSUME NEW c \in Connections, CheckShutdown(c)
      PROVE  ExactCount'
  <2>1. /\ handler[c] = "checking" /\ handler' = [handler EXCEPT ![c] = "closed"]
        /\ UNCHANGED <<handler_vec, count_shutdown_handlers, counted>>
    BY <1>6 DEF CheckShutdown, counters
  <2>2. \A d \in Daemons : Count(d, FromChecking)' = Count(d, FromChecking)
    BY <1>s, <1>t, <2>1, CountAfter
  <2>3. \A b \in Connections : handler'[b] = IF b = c THEN "closed" ELSE handler[b]
    BY <1>s, <2>1
  <2> QED BY <1>t, <2>1, <2>2, <2>3, SMTT(20) DEF ExactCount
<1>7. ASSUME NEW c \in Connections, HandlerStep(c)
      PROVE  ExactCount'
  <2>1. CASE LaterMessage(c)
    BY <1>1, <2>1 DEF LaterMessage
  <2>2. CASE Accept(c)
    BY <1>2, <2>2 DEF Accept, counters
  <2>3. CASE FirstMessage(c)
    BY <1>2, <2>3 DEF FirstMessage
  <2>4. CASE TakeOffset(c)
    BY <1>2, <2>4 DEF TakeOffset, counters
  <2>5. CASE RegisterOutput(c)
    BY <1>2, <2>5 DEF RegisterOutput, counters
  <2> QED BY <1>3, <1>4, <1>5, <1>6, <1>7, <2>1, <2>2, <2>3, <2>4, <2>5 DEF HandlerStep
<1> QED BY <1>1, <1>7, OtherSteps

\* isShutdown holds exactly when every handler that the server knows is counted.
LEMMA ShutdownTest ==
  ASSUME ShapeInv, HandlerInv, ExactCount, NEW d \in Daemons
  PROVE  isShutdown(d) <=> \A c \in handler_vec[d] : handler[c] \in FromChecking
<1> DEFINE A == {c \in At(d) : handler[c] \in FromChecking}
<1>1. A \subseteq handler_vec[d]
  BY DEF At, ExactCount, FromChecking, Finalizing
<1>2. handler_vec[d] \in SUBSET At(d)
  BY SMTT(20) DEF ShapeInv, HandlerInv, At
<1>3. IsFiniteSet(handler_vec[d])
  BY <1>2, ConnectionsFinite
<1>4. count_shutdown_handlers[d] = Cardinality(A)
  BY DEF ExactCount, Count
<1>5. Cardinality(A) = Cardinality(handler_vec[d]) => A = handler_vec[d]
  BY <1>1, <1>3, FS_Subset
<1>6. (\A c \in handler_vec[d] : handler[c] \in FromChecking) => A = handler_vec[d]
  BY <1>1, <1>2
<1>7. isShutdown(d) <=> A = handler_vec[d]
  BY <1>4, <1>5 DEF isShutdown
<1> QED BY <1>6, <1>7

\* How a handler's last step decides the shutdown.
LEMMA LastHandler ==
  ASSUME ShapeInv, HandlerInv, ExactCount, NEW c \in Connections, CheckShutdown(c),
         NEW d \in Daemons
  PROVE  /\ d # c[2] => server'[d] = server[d]
         /\ d = c[2] => /\ handler_vec'[d] # {}
                        /\ server'[d] = IF \A b \in handler_vec'[d] : handler'[b] = "closed"
                                        THEN "shutdown" ELSE server[d]
<1>s. /\ handler \in [Connections -> Stages] /\ server = [e \in Daemons |-> server[e]]
      /\ handler_vec[d] \subseteq Connections /\ c[2] \in Daemons
  BY ConnectionType DEF ShapeInv
<1>1. /\ handler[c] = "checking" /\ handler' = [handler EXCEPT ![c] = "closed"]
      /\ server' = [server EXCEPT ![c[2]] = IF isShutdown(c[2]) THEN "shutdown" ELSE @]
      /\ handler_vec' = handler_vec
  BY DEF CheckShutdown
<1>2. d # c[2] => server'[d] = server[d]
  BY <1>s, <1>1
<1>3. ASSUME d = c[2]
      PROVE  /\ handler_vec'[d] # {}
             /\ server'[d] = IF \A b \in handler_vec'[d] : handler'[b] = "closed"
                             THEN "shutdown" ELSE server[d]
  <2>1. c \in handler_vec[d]
    BY <1>1, <1>3 DEF ExactCount, Finalizing
  <2>2. \A b \in handler_vec[d] : b # c => b[2] = d /\ handler[b] # "checking"
    BY <1>s, <1>1, <1>3 DEF ExactCount, Finalizing, HandlerInv
  <2>3. isShutdown(d) <=> \A b \in handler_vec[d] : handler[b] \in FromChecking
    BY ShutdownTest
  <2>4. \A b \in handler_vec[d] : handler'[b] = "closed" <=> handler[b] \in FromChecking
    BY <1>s, <1>1, <2>2 DEF FromChecking
  <2>5. server'[d] = IF isShutdown(d) THEN "shutdown" ELSE server[d]
    BY <1>s, <1>1, <1>3
  <2> QED BY <1>1, <2>1, <2>3, <2>4, <2>5
<1> QED BY <1>2, <1>3

LEMMA ServingStep ==
  ASSUME ShapeInv, HandlerInv, ExactCount, OpenWhileServing, Next,
         races' \subseteq {"createAndRegisterMQ"}
  PROVE  OpenWhileServing'
<1> SUFFICES ASSUME NEW d \in Daemons, server'[d] = "serving", handler_vec'[d] # {}
             PROVE  \E c \in handler_vec'[d] : handler'[c] # "closed"
  BY DEF OpenWhileServing
<1>s. /\ handler \in [Connections -> Stages] /\ handler_vec \in [Daemons -> SUBSET Connections]
      /\ server \in [Daemons -> {"off", "phase1", "waiting"} \cup Started]
      /\ \A b \in Connections : b[2] \in Daemons
  BY ConnectionType DEF ShapeInv
<1>1. ASSUME NEW e \in Daemons, StartUpStep(e)
      PROVE  \E c \in handler_vec'[d] : handler'[c] # "closed"
  <2>1. UNCHANGED handlers
    BY <1>1 DEF StartUpStep, Start, Notify, ManagerReadHeader, SecondPhase, RegisterContext
  <2>2. server[d] \in Started
    <3>1. PICK c \in handler_vec[d] : c \in Connections
      BY <2>1, <1>s DEF handlers
    <3> QED BY <3>1 DEF HandlerInv
  <2>3. server[d] = "serving"
    BY <1>1, <1>s, <2>2 DEF StartUpStep, Start, Notify, ManagerReadHeader, SecondPhase,
                            RegisterContext, Started
  <2> QED BY <2>1, <2>3 DEF handlers, OpenWhileServing
<1>2. ASSUME NEW e \in Daemons, NEW c \in Connections, LaterStep(e, c)
      PROVE  server[d] = "serving"
  BY <1>2, LaterMoves
<1>3. ASSUME NEW e \in Daemons, NEW c \in Connections, LaterStep(e, c), ~HandlerStep(c)
      PROVE  \E b \in handler_vec'[d] : handler'[b] # "closed"
  <2>1. UNCHANGED handlers
    BY <1>3 DEF LaterStep, Connect, Ask, Terminate, Dispatch, Answer, WriteResult
  <2> QED BY <1>2, <1>3, <2>1 DEF handlers, OpenWhileServing
<1>4. ASSUME NEW c \in Connections, PushHandler(c), server[d] = "serving"
      PROVE  \E b \in handler_vec'[d] : handler'[b] # "closed"
  <2>1. /\ handler' = handler /\ handler_vec' = [handler_vec EXCEPT ![c[2]] = @ \cup {c}]
        /\ c \notin handler_vec[c[2]]
    BY <1>4 DEF PushHandler
  <2>2. handler[c] # "closed"
    BY <2>1 DEF ExactCount
  <2> QED BY <1>s, <1>4, <2>1, <2>2 DEF OpenWhileServing
<1>5. ASSUME NEW c \in Connections, CheckShutdown(c), server[d] = "serving"
      PROVE  \E b \in handler_vec'[d] : handler'[b] # "closed"
  <2>1. CASE d = c[2]
    BY <1>5, <2>1, LastHandler
  <2>2. CASE d # c[2]
    <3>1. handler' = [handler EXCEPT ![c] = "closed"] /\ handler_vec' = handler_vec
      BY <1>5 DEF CheckShutdown
    <3>2. \A b \in handler_vec[d] : b # c /\ handler'[b] = handler[b]
      BY <1>s, <2>2, <3>1, SMTT(20) DEF HandlerInv
    <3> QED BY <1>5, <3>1, <3>2 DEF OpenWhileServing
  <2> QED BY <2>1, <2>2
<1>6. ASSUME NEW c \in Connections, HandlerStep(c), ~PushHandler(c), ~CheckShutdown(c),
             server[d] = "serving"
      PROVE  \E b \in handler_vec'[d] : handler'[b] # "closed"
  <2>1. handler_vec' = handler_vec
        /\ (handler' = handler \/ \E s \in Stages \ {"closed"} : handler' = [handler EXCEPT ![c] = s])
    BY <1>6 DEF HandlerStep, Accept, FirstMessage, TakeOffset, RegisterOutput, LaterMessage,
         Finalize, NotifyShutdown, handlers, Stages, FromPushed, FromSized, FromOpen
  <2> QED BY <1>s, <1>6, <2>1 DEF OpenWhileServing
<1> QED BY <1>1, <1>2, <1>3, <1>4, <1>5, <1>6, NextCases DEF LaterStep

LEMMA ShutdownStep ==
  ASSUME DaemonInv, Next
  PROVE  ShutdownInv'
<1> SUFFICES ASSUME races' \subseteq {"createAndRegisterMQ"}
             PROVE  ExactCount' /\ OpenWhileServing'
  BY DEF ShutdownInv
<1>1. races \subseteq {"createAndRegisterMQ"}
  BY RacesStay DEF DaemonInv
<1>2. ShapeInv /\ HandlerInv /\ ExactCount /\ OpenWhileServing
  BY <1>1 DEF DaemonInv, ShutdownInv
<1> QED BY <1>2, ExactStep, ServingStep
-------------------------------------------------------------------------------
(* The theorems                                                              *)

LEMMA DaemonStep ==
  ASSUME DaemonInv, [Next]_vars
  PROVE  DaemonInv'
<1>1. CASE Next
  <2>1. ShapeInv' /\ BarrierInv' /\ HandlerInv' /\ CountInv'
    BY <1>1, ShapeStep, BarrierStep, HandlerInvStep, CountStep DEF DaemonInv
  <2>2. RegisterInv' /\ ThreadInv' /\ OutputInv'
    BY <1>1, RegisterStep, ThreadStep, OutputStep DEF DaemonInv
  <2>3. RouteInv' /\ ShutdownInv'
    BY <1>1, RouteStep, ShutdownStep
  <2> QED BY <2>1, <2>2, <2>3 DEF DaemonInv
<1>2. CASE UNCHANGED vars
  <2> USE <1>2 DEF vars, startup, invokers, handlers, registry, answers, counters
  <2>1. ShapeInv'
    BY DEF DaemonInv, ShapeInv
  <2>2. BarrierInv' /\ HandlerInv'
    BY DEF DaemonInv, BarrierInv, HandlerInv, NoRefusedConnection
  <2>c. handler' = handler
    OBVIOUS
  <2>3. \A d \in Daemons : /\ Count(d, FromPushed)' = Count(d, FromPushed)
                           /\ Count(d, FromChecking)' = Count(d, FromChecking)
    BY <2>c, CountStays
  <2>d. \A c \in Connections : c[2] \in Daemons
    BY ConnectionType
  <2>4. CountInv'
    BY <2>3, <2>d DEF DaemonInv, CountInv
  <2>5. RegisterInv' /\ ThreadInv'
    BY SMTT(20) DEF DaemonInv, RegisterInv, ThreadInv
  <2>6. RouteInv'
    <3>1. UniqueOffsets => UniqueOffsets'
      BY SMT DEF UniqueOffsets
    <3>2. EntriesOwned => EntriesOwned'
      <4>1. UNCHANGED <<id2offset, handler, offset>>
        OBVIOUS
      <4> QED BY <4>1, SMT DEF EntriesOwned, At
    <3> QED BY <3>1, <3>2 DEF DaemonInv, RouteInv
  <2>7. OutputInv'
    BY DEF DaemonInv, OutputInv, Queues, At
  <2>8. ShutdownInv'
    BY <2>3 DEF DaemonInv, ShutdownInv, ExactCount, OpenWhileServing
  <2> QED BY <2>1, <2>2, <2>4, <2>5, <2>6, <2>7, <2>8 DEF DaemonInv
<1> QED BY <1>1, <1>2

\* The inductive invariant: the types, the barrier, the registered invokers, the
\* output queues and the count of the handlers that have ended.
THEOREM DaemonInvariant == Spec => []DaemonInv
<1>1. Init => DaemonInv
  BY DaemonInit
<1>2. DaemonInv /\ [Next]_vars => DaemonInv'
  BY DaemonStep
<1> QED BY <1>1, <1>2, PTL DEF Spec

LEMMA DaemonTyped == DaemonInv => TypeOK
<1> SUFFICES ASSUME DaemonInv PROVE TypeOK
  OBVIOUS
<1>1. ShapeInv
  BY DEF DaemonInv
<1>2. \A c \in Connections : sent[c] \in 0..MaxRequests[c[1]]
  <2>1. \A c \in Connections : sent[c] \in Nat /\ MaxRequests[c[1]] \in Nat
    BY <1>1, ConnectionType, DaemonBoundsAssumption DEF ShapeInv
  <2>2. \A c \in Connections : sent[c] <= MaxRequests[c[1]]
    BY DEF DaemonInv, CountInv
  <2> QED BY <2>1, <2>2, SMTT(20)
<1>3. ASSUME NEW d \in Daemons
      PROVE  /\ handler_vec[d] \subseteq At(d) /\ taken[d] \subseteq At(d)
             /\ output_mqs[d] =
                  Cardinality({c \in At(d) : handler[c] \notin {"none", "accepted"}})
             /\ id2offset[d] \in [Ids -> 0..output_mqs[d]]
             /\ count_shutdown_handlers[d] \in 0..Cardinality(At(d))
  <2>1. handler_vec[d] \subseteq At(d) /\ taken[d] \subseteq At(d)
    BY <1>1 DEF DaemonInv, ShapeInv, HandlerInv, RegisterInv, At
  <2>2. {c \in At(d) : handler[c] \notin {"none", "accepted"}}
          = {c \in At(d) : handler[c] \in FromPushed}
    BY <1>1 DEF ShapeInv, At, Stages, FromPushed, FromSized, FromOpen
  <2>3. output_mqs[d] = Count(d, FromPushed) /\ output_mqs[d] \in Nat
    BY <1>1 DEF DaemonInv, CountInv, ShapeInv
  <2>4. id2offset[d] \in [Ids -> 0..output_mqs[d]]
    BY <1>1, <2>3, SMTT(20) DEF DaemonInv, CountInv, ShapeInv
  <2>5. Count(d, FromChecking) \in Nat /\ Count(d, FromChecking) <= Cardinality(At(d))
    <3>1. {c \in At(d) : handler[c] \in FromChecking} \in SUBSET At(d)
      OBVIOUS
    <3> QED BY <3>1, ConnectionsFinite DEF Count
  <2>6. Cardinality(At(d)) \in Nat
    BY ConnectionsFinite
  <2>7. count_shutdown_handlers[d] \in 0..Cardinality(At(d))
    BY <1>1, <2>5, <2>6, SMTT(20) DEF DaemonInv, CountInv, ShapeInv
  <2> QED BY <2>1, <2>2, <2>3, <2>4, <2>7 DEF Count
<1>4. offset \in [Connections -> 0..Cardinality(Connections)]
  <2>1. ASSUME NEW c \in Connections
        PROVE  offset[c] \in 0..Cardinality(Connections)
    <3>1. c[2] \in Daemons /\ offset[c] \in Nat /\ offset[c] <= output_mqs[c[2]]
      BY <1>1, ConnectionType DEF DaemonInv, CountInv, ShapeInv
    <3>2. {b \in At(c[2]) : handler[b] \in FromPushed} \in SUBSET At(c[2])
      OBVIOUS
    <3>3. /\ Count(c[2], FromPushed) \in Nat /\ Cardinality(Connections) \in Nat
          /\ Count(c[2], FromPushed) <= Cardinality(At(c[2]))
          /\ Cardinality(At(c[2])) <= Cardinality(Connections) /\ Cardinality(At(c[2])) \in Nat
      BY <3>1, <3>2, ConnectionsFinite DEF Count
    <3>4. output_mqs[c[2]] = Count(c[2], FromPushed)
      BY <3>1 DEF DaemonInv, CountInv
    <3> QED BY <3>1, <3>3, <3>4, SMTT(20)
  <2> QED BY <1>1, <2>1 DEF ShapeInv
<1>5. handler \in [Connections -> {"none", "accepted", "pushed", "sized", "open",
                                   "counting", "checking", "closed"}]
  BY <1>1 DEF ShapeInv, Stages, FromPushed, FromSized, FromOpen
<1>6. misrouted \in BOOLEAN
  BY <1>1 DEF ShapeInv
<1>7. server \in [Daemons -> {"off", "phase1", "waiting", "serving", "shutdown", "failed"}]
  BY <1>1 DEF ShapeInv, Started
<1> QED BY <1>1, <1>2, <1>3, <1>4, <1>5, <1>6, <1>7 DEF TypeOK, ShapeInv

\* Types and counters: the number of output queues is the number of handlers
\* that have pushed one, offsets stay within it, and no more handlers are counted
\* as ended than there are connections, even where an update is lost.
THEOREM DaemonTypeOK == Spec => []TypeOK
<1>1. DaemonInv => TypeOK
  BY DaemonTyped
<1> QED BY <1>1, DaemonInvariant, PTL

\* The manager's barrier, for any number of daemons: establish_connections of
\* NewNeighborThread is never refused.
THEOREM DaemonNoRefusedConnection == Spec => []NoRefusedConnection
<1>1. DaemonInv => NoRefusedConnection
  BY DEF DaemonInv, BarrierInv
<1> QED BY <1>1, DaemonInvariant, PTL

\* The output dispatcher finds a queue for the invoker of every request that a
\* context works on, for any number of handlers and io threads.
THEOREM DaemonAnswerFindsOutput == Spec => []AnswerFindsOutput
<1>1. DaemonInv => AnswerFindsOutput
  BY DEF DaemonInv, RegisterInv, AnswerFindsOutput
<1> QED BY <1>1, DaemonInvariant, PTL

\* Where no two handlers have been in createAndRegisterMQ together, an output
\* thread only writes answers for its own invoker.
THEOREM DaemonAnswersRouted == Spec => []AnswersRouted
<1>1. DaemonInv => AnswersRouted
  BY DEF DaemonInv, RouteInv, AnswersRouted
<1> QED BY <1>1, DaemonInvariant, PTL

LEMMA ShutdownExact ==
  ASSUME DaemonInv, DaemonInv', Next, NEW n \in Daemons,
         races' \subseteq {"createAndRegisterMQ"}, server[n] = "serving"
  PROVE  server'[n] = "shutdown" <=> /\ handler_vec'[n] # {}
                                     /\ \A c \in handler_vec'[n] : handler'[c] = "closed"
<1>0. /\ ShapeInv /\ HandlerInv /\ ExactCount /\ OpenWhileServing
      /\ (OpenWhileServing)'
  <2>1. races \subseteq {"createAndRegisterMQ"}
    BY RacesStay DEF DaemonInv
  <2> QED BY <2>1 DEF DaemonInv, ShutdownInv
<1>1. ASSUME NEW d \in Daemons, StartUpStep(d)
      PROVE  server'[n] # "shutdown" /\ UNCHANGED handlers
  BY <1>0, <1>1 DEF StartUpStep, Start, Notify, ManagerReadHeader, SecondPhase, RegisterContext,
                    ShapeInv
<1>2. ASSUME NEW d \in Daemons, NEW c \in Connections, LaterStep(d, c), ~HandlerStep(c)
      PROVE  server'[n] # "shutdown" /\ UNCHANGED handlers
  <2>1. UNCHANGED handlers
    BY <1>2 DEF LaterStep, Connect, Ask, Terminate, Dispatch, Answer, WriteResult
  <2>2. server' = server \/ \E e \in Daemons : server' = [server EXCEPT ![e] = "failed"]
    <3>1. CASE Connect(c) \/ Ask(c) \/ Terminate(c)
      BY <3>1 DEF Connect, Ask, Terminate
    <3>2. CASE Dispatch(d) \/ Answer(d, c)
      BY <3>2 DEF Dispatch, Answer
    <3>3. CASE WriteResult(c)
      BY <3>3, ConnectionType DEF WriteResult
    <3> QED BY <1>2, <3>1, <3>2, <3>3 DEF LaterStep
  <2> QED BY <1>0, <2>1, <2>2 DEF ShapeInv
<1>3. ASSUME server'[n] # "shutdown", UNCHANGED handlers
      PROVE  ~(handler_vec'[n] # {} /\ \A c \in handler_vec'[n] : handler'[c] = "closed")
  BY <1>0, <1>3 DEF OpenWhileServing, handlers
<1>4. ASSUME NEW c \in Connections, HandlerStep(c), ~CheckShutdown(c)
      PROVE  server' = server
  BY <1>4 DEF HandlerStep, Accept, PushHandler, FirstMessage, TakeOffset, RegisterOutput,
              LaterMessage, Finalize, NotifyShutdown
<1>5. ASSUME server'[n] = "serving"
      PROVE  ~(handler_vec'[n] # {} /\ \A c \in handler_vec'[n] : handler'[c] = "closed")
  BY <1>0, <1>5 DEF OpenWhileServing
<1>6. ASSUME NEW c \in Connections, CheckShutdown(c)
      PROVE  server'[n] = "shutdown" <=> /\ handler_vec'[n] # {}
                                         /\ \A b \in handler_vec'[n] : handler'[b] = "closed"
  BY <1>0, <1>5, <1>6, LastHandler
<1> QED BY <1>0, <1>1, <1>2, <1>3, <1>4, <1>5, <1>6, NextCases DEF LaterStep

\* Where no two handlers overlapped in the shutdown, a server shuts down exactly
\* with the last of the handlers that it knows: no step to "shutdown" while one is
\* open, and none that closes the last one without it.
THEOREM DaemonShutdown == Spec => ShutdownWithLastHandler
<1> DEFINE Exact ==
      \A n \in Daemons :
        races' \subseteq {"createAndRegisterMQ"} /\ server[n] = "serving" =>
          (server'[n] = "shutdown" <=>
             /\ handler_vec'[n] # {}
             /\ \A c \in handler_vec'[n] : handler'[c] = "closed")
<1>1. DaemonInv /\ DaemonInv' /\ [Next]_vars => [Exact]_vars
  <2>1. CASE UNCHANGED vars
    BY <2>1
  <2>2. CASE Next
    BY <2>2, ShutdownExact
  <2> QED BY <2>1, <2>2
<1>2. Spec => [][Exact]_vars
  <2> HIDE DEF Exact
  <2> QED BY <1>1, DaemonInvariant, PTL DEF Spec
<1> QED BY <1>2 DEF ShutdownWithLastHandler
-------------------------------------------------------------------------------
(* The start-up does not get stuck                                           *)

\* The manager's books.  Who has sent its notification is recorded once, as on
\* its way or as read; nobody is released before the last one was read, and
\* from then on the triggers that have not arrived are those that are awaited.
ReleaseInv ==
  /\ notifications \cap connections_vec = {}
  /\ \A d \in Daemons :
       server[d] \notin {"off", "phase1"} <=> d \in notifications \cup connections_vec
  /\ connections_vec # Daemons =>
       triggers = {} /\ \A d \in Daemons : server[d] \notin Started
  /\ connections_vec = Daemons => triggers = {d \in Daemons : server[d] = "waiting"}

LEMMA ReleaseStartUp ==
  ASSUME ShapeInv, ReleaseInv, NEW d \in Daemons, StartUpStep(d)
  PROVE  ReleaseInv'
<1>s. /\ server \in [Daemons -> {"off", "phase1", "waiting"} \cup Started]
      /\ notifications \subseteq Daemons /\ connections_vec \subseteq Daemons
  BY DEF ShapeInv
<1>t. {"off", "phase1", "waiting"} \cap Started = {} /\ "serving" \in Started
  BY DEF Started
<1>1. CASE Start(d)
  <2>1. /\ \A e \in Daemons : server'[e] = IF e = d THEN "phase1" ELSE server[e]
        /\ server[d] = "off" /\ UNCHANGED <<notifications, connections_vec, triggers>>
    BY <1>s, <1>1 DEF Start, startup
  <2> QED BY <1>t, <2>1 DEF ReleaseInv
<1>2. CASE Notify(d)
  <2>1. /\ \A e \in Daemons : server'[e] = IF e = d THEN "waiting" ELSE server[e]
        /\ server[d] = "phase1" /\ notifications' = notifications \cup {d}
        /\ UNCHANGED <<connections_vec, triggers>>
    BY <1>s, <1>2 DEF Notify
  <2>2. d \notin connections_vec
    BY <2>1 DEF ReleaseInv
  <2> QED BY <1>t, <2>1, <2>2 DEF ReleaseInv
<1>3. CASE ManagerReadHeader(d)
  <2> DEFINE vec == connections_vec \cup {d}
  <2>1. /\ d \in notifications /\ notifications' = notifications \ {d}
        /\ connections_vec' = vec /\ UNCHANGED server
        /\ triggers' = IF AllConnected(vec) THEN triggers \cup vec ELSE triggers
    BY <1>3 DEF ManagerReadHeader, trigger_2nd_phase
  <2>2. vec \in SUBSET Daemons /\ connections_vec # Daemons
    BY <1>s, <2>1 DEF ReleaseInv
  <2>3. AllConnected(vec) <=> vec = Daemons
    BY <2>2, DaemonsAssumption, FS_Subset DEF AllConnected
  <2>4. triggers = {} /\ \A e \in Daemons : server[e] \notin Started
    BY <2>2 DEF ReleaseInv
  <2>5. \A e \in vec : server[e] = "waiting"
    BY <1>s, <2>1, <2>4 DEF ReleaseInv
  <2> QED BY <2>1, <2>2, <2>3, <2>4, <2>5 DEF ReleaseInv
<1>4. CASE SecondPhase(d)
  <2>1. /\ \A e \in Daemons : server'[e] = IF e = d THEN "serving" ELSE server[e]
        /\ server[d] = "waiting" /\ d \in triggers /\ triggers' = triggers \ {d}
        /\ UNCHANGED <<notifications, connections_vec>>
    BY <1>s, <1>4 DEF SecondPhase
  <2> QED BY <2>1 DEF ReleaseInv
<1>5. CASE RegisterContext(d)
  BY <1>5 DEF RegisterContext, ReleaseInv, startup
<1> QED BY <1>1, <1>2, <1>3, <1>4, <1>5 DEF StartUpStep

LEMMA ReleaseStep ==
  ASSUME ShapeInv, ReleaseInv, [Next]_vars
  PROVE  ReleaseInv'
<1>1. ASSUME NEW d \in Daemons, NEW c \in Connections, LaterStep(d, c)
      PROVE  ReleaseInv'
  <2>1. /\ UNCHANGED <<notifications, connections_vec, triggers>>
        /\ \A e \in Daemons :
             \/ server'[e] = server[e]
             \/ server[e] \in Started /\ server'[e] \in Started
    BY <1>1, LaterMoves DEF startup, Started
  <2>2. {"off", "phase1", "waiting"} \cap Started = {}
    BY DEF Started
  <2> QED BY <2>1, <2>2 DEF ReleaseInv
<1>2. CASE UNCHANGED vars
  BY <1>2 DEF vars, startup, ReleaseInv
<1> QED BY <1>1, <1>2, NextCases, ReleaseStartUp

\* A daemon that waits for the manager has its trigger, or another daemon has
\* not sent its notification or it has not been read yet.
StartUpMoves ==
  \A d \in Daemons : server[d] = "waiting" =>
    \/ d \in triggers
    \/ \E e \in Daemons : server[e] \in {"off", "phase1"} \/ e \in notifications

\* The manager releases each daemon once, after the last notification, and no
\* daemon waits for a trigger that will not come: as long as one waits, a step
\* of the start-up is possible.  It is the safety part of EveryDaemonServes.
THEOREM DaemonStartUpMoves == Spec => [](ReleaseInv /\ StartUpMoves)
<1>1. Init => ReleaseInv
  <2> SUFFICES ASSUME Init PROVE ReleaseInv
    OBVIOUS
  <2>1. /\ notifications = {} /\ connections_vec = {} /\ triggers = {}
        /\ \A d \in Daemons : server[d] = "off"
    BY DEF Init
  <2>2. "off" \notin Started
    BY DEF Started
  <2> QED BY <2>1, <2>2 DEF ReleaseInv
<1>2. DaemonInv => ShapeInv
  BY DEF DaemonInv
<1>3. ShapeInv /\ ReleaseInv /\ [Next]_vars => ReleaseInv'
  BY ReleaseStep
<1>4. ShapeInv /\ ReleaseInv => StartUpMoves
  <2> SUFFICES ASSUME ShapeInv, ReleaseInv, NEW d \in Daemons, server[d] = "waiting",
                      \A e \in Daemons : server[e] \notin {"off", "phase1"} /\ e \notin notifications
               PROVE  d \in triggers
    BY DEF StartUpMoves
  <2>1. connections_vec = Daemons
    BY DEF ShapeInv, ReleaseInv
  <2> QED BY <2>1 DEF ReleaseInv
<1> QED BY <1>1, <1>2, <1>3, <1>4, DaemonInvariant, PTL DEF Spec
===============================================================================
