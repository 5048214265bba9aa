--------------------------- MODULE StreamingJoiner ---------------------------
(***************************************************************************)
(* The joiner of a context with neighbors (src/mcs/StreamingJoiner.cpp,    *)
(* src/mcs/BaseJoiner.cpp).  For every request of its context it asks the  *)
(* neighbors for their models, one pack of pack_size models at a time, and *)
(* joins every model of every neighbor with every model of the others.     *)
(*                                                                         *)
(* A model is <<i, k>>: the k-th model of neighbor i.  Whether a           *)
(* combination of models is consistent is left open: the join of some      *)
(* packs yields any subset of their combinations.                          *)
(*                                                                         *)
(* The thread of the joiner is sequential and pc is its program counter.   *)
(* A neighbor answers its requests in order, each answer being one         *)
(* uninterrupted run of models and an end marker in JOIN_IN_MQ, and the    *)
(* answers of different neighbors arrive in any order.  A message is seen  *)
(* by nobody before the joiner reads it, so an answer is read in the step  *)
(* in which it arrives.                                                    *)
(***************************************************************************)
EXTENDS Integers, Sequences, FiniteSets

CONSTANTS
  N,            \* number of neighbors; a context without any has a LeafJoiner
  PackSizes,    \* the values of pack_size considered; 0 asks for all models
  MaxModels,    \* bound: number of models of a neighbor
  MaxRequests   \* bound: number of requests the context processes

ASSUME NAssumption == N \in Nat \ {0}
ASSUME PackSizesAssumption == PackSizes \subseteq Nat
ASSUME MaxModelsAssumption == MaxModels \in Nat
ASSUME MaxRequestsAssumption == MaxRequests \in Nat

Neighbors == 0 .. N - 1

VARIABLES
  pack_size,            \* fixed by the constructor
  models,               \* external: how many models each neighbor has, given
                        \* the history of the request being processed
  pc,                   \* where the thread is
  next_neighbor,
  asking_next,
  pack_count,
  input_belief_states,  \* per neighbor, the models of its current pack
  joined_results,       \* joined combinations the context has not taken yet
  marking_neighbors,    \* in ask_first_packs: neighbors that have answered
  query_counter,        \* the query id of the call in progress
  asked,                \* per neighbor, its unanswered requests, oldest first
  registered,           \* id2offset of the JoinerDispatcher
  requests,             \* number of requests of the context so far
  tried,                \* history: combinations joined for this request
  orphaned              \* history: a request ended with answers outstanding

joinState == <<next_neighbor, asking_next, pack_count>>
wire == <<asked, registered>>
request == <<pack_size, models, requests>>

vars == <<pack_size, models, pc, next_neighbor, asking_next, pack_count,
          input_belief_states, joined_results, marking_neighbors,
          query_counter, asked, registered, requests, tried, orphaned>>

\* The combinations that take one model from each neighbor's set.
Combinations(in) ==
  {c \in [Neighbors -> UNION {in[i] : i \in Neighbors}] :
     \A i \in Neighbors : c[i] \in in[i]}

\* Models k1 to k2 of a neighbor that has m of them; (0, 0) asks for all.
\* This is what NormalContext and CycleBreaker promise their invokers.
Pack(i, m, k1, k2) ==
  {<<i, k>> : k \in {x \in 1 .. m : k2 = 0 \/ (k1 <= x /\ x <= k2)}}

Answer(i) ==
  LET r == Head(asked[i]) IN Pack(i, r.models, r.k1, r.k2)

Outstanding(a) == \E i \in Neighbors : a[i] # <<>>

-----------------------------------------------------------------------------
Init ==
  /\ pack_size \in PackSizes
  /\ models = [i \in Neighbors |-> 0]
  /\ pc = "idle"
  /\ next_neighbor = 0
  /\ asking_next = FALSE
  /\ pack_count = [i \in Neighbors |-> 0]
  /\ input_belief_states = [i \in Neighbors |-> {}]
  /\ joined_results = {}
  /\ marking_neighbors = {}
  /\ query_counter = 0
  /\ asked = [i \in Neighbors |-> <<>>]
  /\ registered = {}
  /\ requests = 0
  /\ tried = {}
  /\ orphaned = FALSE

\* StreamingJoiner::reset and BaseJoiner::reset.
reset ==
  /\ joined_results' = {}
  /\ input_belief_states' = [i \in Neighbors |-> {}]
  /\ asking_next' = FALSE
  /\ next_neighbor' = 0
  /\ pack_count' = [i \in Neighbors |-> 0]

\* Return NULL to the context, which then has no input left.
ReturnNull == pc' = "idle"

\* ask_neighbor for every neighbor of S: the old pack is dropped, the query
\* registered with the JoinerDispatcher and the request sent.
ask_neighbor(S, k1, k2) ==
  /\ input_belief_states' = [i \in Neighbors |->
       IF i \in S THEN {} ELSE input_belief_states[i]]
  /\ registered' = registered \cup {<<query_counter, i>> : i \in S}
  /\ asked' = [i \in Neighbors |->
       IF i \in S
         THEN Append(asked[i], [qid |-> query_counter, k1 |-> k1, k2 |-> k2,
                                models |-> models[i]])
         ELSE asked[i]]

\* Variant: unregisterIdOffset is left out.
AnsweredKept(i) ==
  /\ asked' = [asked EXCEPT ![i] = Tail(@)]
  /\ UNCHANGED registered

\* The end marker of neighbor i's answer: the query is unregistered.
Answered(i) ==
  /\ asked' = [asked EXCEPT ![i] = Tail(@)]
  /\ registered' = registered \ {<<Head(asked[i]).qid, i>>}

-----------------------------------------------------------------------------
(* first_join                                                              *)

\* The context starts on a request: a first query for fresh input.
first_join ==
  /\ pc \in {"idle", "ready"}
  /\ requests < MaxRequests
  /\ requests' = requests + 1
  /\ models' \in [Neighbors -> 0 .. MaxModels]
  /\ query_counter' = query_counter + 1
  /\ reset
  /\ tried' = {}
  /\ pc' = "ask_first"
  /\ UNCHANGED <<pack_size, marking_neighbors, wire, orphaned>>

\* The neighbors ask_first_packs asks: all of them in first_join, those
\* before next_neighbor in next_join.
FirstPacks == 0 .. (IF asking_next THEN next_neighbor - 1 ELSE N - 1)

ask_first_packs ==
  /\ pc = "ask_first"
  /\ ask_neighbor(FirstPacks, IF pack_size > 0 THEN 1 ELSE 0, pack_size)
  /\ marking_neighbors' = {}
  /\ pc' = "wait_first"
  /\ UNCHANGED <<joinState, joined_results, query_counter, request, tried,
                 orphaned>>

\* Variants: a pack that is not full counts as empty; the test is left out.
CountIsShort(i) ==
  IF i \in FirstPacks
    THEN Cardinality(input_belief_states[i] \cup Answer(i)) < pack_size
    ELSE TRUE

CountIsAnything(i) == TRUE

\* count_models_read of the neighbor that just answered is 0.  It has an
\* entry per neighbor of FirstPacks; past its end it reads anything.
CountIsZero(i) ==
  IF i \in FirstPacks THEN input_belief_states[i] \cup Answer(i) = {}
                      ELSE TRUE

CountIsPositive(i) ==
  IF i \in FirstPacks THEN input_belief_states[i] \cup Answer(i) # {}
                      ELSE TRUE

\* An answer without models ends ask_first_packs at once.  first_join then
\* returns NULL; next_join asserts that this does not happen and otherwise
\* joins an empty pack, whose first element does not exist.
BailOut(i) ==
  /\ pc = "wait_first"
  /\ asked[i] # <<>>
  /\ CountIsZero(i)
  /\ Answered(i)
  /\ IF asking_next
       THEN /\ pc' = "crashed"
            /\ UNCHANGED <<joinState, joined_results, input_belief_states,
                           orphaned>>
       ELSE /\ reset
            /\ ReturnNull
            /\ orphaned' = (orphaned \/ Outstanding(asked'))
  /\ UNCHANGED <<marking_neighbors, query_counter, request, tried>>

\* The first pack of neighbor i has arrived.
ReceiveFirst(i) ==
  /\ pc = "wait_first"
  /\ asked[i] # <<>>
  /\ CountIsPositive(i)
  /\ Answered(i)
  /\ input_belief_states' = [input_belief_states EXCEPT ![i] = @ \cup Answer(i)]
  /\ marking_neighbors' = marking_neighbors \cup {i}
  /\ IF marking_neighbors' = FirstPacks
       THEN /\ pc' = "join"
            /\ pack_count' = [j \in Neighbors |->
                 IF asking_next /\ j < next_neighbor THEN 0 ELSE pack_count[j]]
       ELSE UNCHANGED <<pc, pack_count>>
  /\ UNCHANGED <<next_neighbor, asking_next, joined_results, query_counter,
                 request, tried, orphaned>>

-----------------------------------------------------------------------------
(* The join of the current packs                                           *)

\* The front of joined_results goes to the context.
TakeResult(results) ==
  /\ \E r \in results : joined_results' = results \ {r}
  /\ pc' = "ready"

\* Variant: next_neighbor is not set back to 0.
do_joinNotReset ==
  /\ pc = "join"
  /\ tried' = tried \cup Combinations(input_belief_states)
  /\ asking_next' = FALSE
  /\ \/ \E results \in SUBSET Combinations(input_belief_states) :
          TakeResult(results)
     \/ /\ joined_results' = {}
        /\ IF pack_size > 0 THEN pc' = "loop" ELSE ReturnNull
  /\ UNCHANGED <<next_neighbor, pack_count, input_belief_states,
                 marking_neighbors, query_counter, wire, request, orphaned>>

\* Without a result, pack_size 0 means that there is nothing left to ask.
do_join ==
  /\ pc = "join"
  /\ tried' = tried \cup Combinations(input_belief_states)
  /\ next_neighbor' = 0
  /\ asking_next' = FALSE
  /\ \/ \E results \in SUBSET Combinations(input_belief_states) :
          TakeResult(results)
     \/ /\ joined_results' = {}
        /\ IF pack_size > 0 THEN pc' = "loop" ELSE ReturnNull
  /\ UNCHANGED <<pack_count, input_belief_states, marking_neighbors,
                 query_counter, wire, request, orphaned>>

-----------------------------------------------------------------------------
(* next_join                                                               *)

next_join ==
  /\ pc = "ready"
  /\ query_counter' = query_counter + 1
  /\ \/ TakeResult(joined_results)
     \/ /\ joined_results = {}
        /\ IF pack_size = 0 THEN ReturnNull ELSE pc' = "loop"
        /\ UNCHANGED joined_results
  /\ UNCHANGED <<joinState, input_belief_states, marking_neighbors, wire,
                 request, tried, orphaned>>

\* Variant: the range starts one model early.
AskNextOverlapping ==
  /\ pc = "loop"
  /\ next_neighbor # N
  /\ pack_count' = [pack_count EXCEPT ![next_neighbor] = @ + 1]
  /\ LET count == pack_count[next_neighbor] + 1 IN
       ask_neighbor({next_neighbor}, count * pack_size, (count + 1) * pack_size)
  /\ pc' = "wait_next"
  /\ UNCHANGED <<next_neighbor, asking_next, joined_results,
                 marking_neighbors, query_counter, request, tried, orphaned>>

\* Variant: the end of the neighbors is not tested, and some number is read
\* past the end of pack_count.
AskNextPastEnd ==
  /\ pc = "loop"
  /\ pack_count' = [pack_count EXCEPT ![next_neighbor] = @ + 1]
  /\ LET count == IF next_neighbor = N THEN 1 ELSE pack_count[next_neighbor] + 1
     IN  ask_neighbor({next_neighbor}, count * pack_size + 1,
                      (count + 1) * pack_size)
  /\ pc' = "wait_next"
  /\ UNCHANGED <<next_neighbor, asking_next, joined_results,
                 marking_neighbors, query_counter, request, tried, orphaned>>

\* The top of next_join's loop: the next pack of next_neighbor.
AskNext ==
  /\ pc = "loop"
  /\ next_neighbor # N
  /\ pack_count' = [pack_count EXCEPT ![next_neighbor] = @ + 1]
  /\ LET count == pack_count[next_neighbor] + 1 IN
       ask_neighbor({next_neighbor}, count * pack_size + 1,
                    (count + 1) * pack_size)
  /\ pc' = "wait_next"
  /\ UNCHANGED <<next_neighbor, asking_next, joined_results,
                 marking_neighbors, query_counter, request, tried, orphaned>>

\* Variant: the loop goes on after the reset.
NoMoreModelsGoesOn ==
  /\ pc = "loop"
  /\ next_neighbor = N
  /\ reset
  /\ UNCHANGED <<pc, marking_neighbors, query_counter, wire, request, tried,
                 orphaned>>

NoMoreModels ==
  /\ pc = "loop"
  /\ next_neighbor = N
  /\ reset
  /\ ReturnNull
  /\ UNCHANGED <<marking_neighbors, query_counter, wire, request, tried,
                 orphaned>>

\* ask_neighbor_and_receive takes whatever answer comes for next_neighbor's.
ReceiveNext(i) ==
  /\ pc = "wait_next"
  /\ asked[i] # <<>>
  /\ Answered(i)
  /\ input_belief_states' =
       [input_belief_states EXCEPT ![next_neighbor] = @ \cup Answer(i)]
  /\ IF Answer(i) # {}
       THEN /\ pc' = IF asking_next THEN "ask_first" ELSE "join"
            /\ UNCHANGED <<next_neighbor, asking_next>>
       ELSE /\ next_neighbor' = next_neighbor + 1
            /\ asking_next' = TRUE
            /\ pc' = "loop"
  /\ UNCHANGED <<pack_count, joined_results, marking_neighbors,
                 query_counter, request, tried, orphaned>>

-----------------------------------------------------------------------------
JoinerStep ==
  \/ ask_first_packs
  \/ \E i \in Neighbors : BailOut(i) \/ ReceiveFirst(i) \/ ReceiveNext(i)
  \/ do_join
  \/ AskNext
  \/ NoMoreModels

Next == first_join \/ next_join \/ JoinerStep

Spec == Init /\ [][Next]_vars

\* The joiner's thread runs, and every neighbor answers in the end; the
\* context need not ask for more.
FairSpec == Spec /\ WF_vars(JoinerStep)

-----------------------------------------------------------------------------
(* Properties                                                              *)

\* The type invariant.
TypeOK ==
  /\ pack_size \in PackSizes
  /\ models \in [Neighbors -> 0 .. MaxModels]
  /\ pc \in {"idle", "ready", "ask_first", "wait_first", "join", "loop",
             "wait_next", "crashed"}
  /\ next_neighbor \in 0 .. N
  /\ asking_next \in BOOLEAN
  /\ pack_count \in [Neighbors -> Nat]
  /\ input_belief_states \in [Neighbors -> SUBSET (Neighbors \X Nat)]
  /\ joined_results \subseteq [Neighbors -> Neighbors \X Nat]
  /\ marking_neighbors \subseteq Neighbors
  /\ query_counter \in Nat
  /\ asked \in [Neighbors -> Seq([qid : Nat, k1 : Nat, k2 : Nat,
                                  models : Nat])]
  /\ registered \subseteq Nat \X Neighbors
  /\ requests \in 0 .. MaxRequests
  /\ tried \subseteq [Neighbors -> Neighbors \X Nat]
  /\ orphaned \in BOOLEAN

\* All combinations of all models, for the request being processed.
AllCombinations ==
  Combinations([i \in Neighbors |-> Pack(i, models[i], 0, 0)])

\* When NULL tells the context that there is no more input, every
\* combination of the neighbors' models has been joined: the odometer of
\* pack_count, next_neighbor and asking_next skips none.
EveryCombinationJoined ==
  ~orphaned /\ pc = "idle" /\ requests > 0 => tried = AllCombinations

\* No combination is joined twice: a pack asked for again is joined only
\* with packs it has not met.
NeverJoinedTwice ==
  ~orphaned /\ pc = "join" => Combinations(input_belief_states) \cap tried = {}

\* "assert (ret == true)" of next_join: a first pack that was not empty the
\* first time is not empty when it is asked for again, so no pack that
\* do_join reads is empty.
FirstPacksNeverEmpty ==
  ~orphaned =>
    /\ pc # "crashed"
    /\ pc = "join" => \A i \in Neighbors : input_belief_states[i] # {}

\* The JoinerDispatcher knows exactly the queries that are outstanding;
\* unregisterIdOffset relies on finding the query it removes.
RegistrationsExact ==
  ~orphaned =>
    registered = UNION {{<<asked[i][x].qid, i>> : x \in DOMAIN asked[i]} :
                          i \in Neighbors}

\* Answers are orphaned only by a request that meets a neighbor without
\* models: ask_first_packs reads everything it asked for otherwise.
OnlyInconsistencyOrphans ==
  [][~orphaned /\ orphaned' => \E i \in Neighbors : models[i] = 0]_vars

\* A call of first_join or next_join returns, unless answers were orphaned.
CallsReturn ==
  pc \notin {"idle", "ready"} ~> pc \in {"idle", "ready"} \/ orphaned

\* "this neighbor is inconsistent": first_join gives up only on a neighbor
\* that has no model for the request being processed.
InconsistentNeighborIsReal ==
  [][ \A i \in Neighbors :
        BailOut(i) /\ ~asking_next => \E j \in Neighbors : models[j] = 0 ]_vars

=============================================================================
