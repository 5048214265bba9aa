# DMCS: specifications, model checking and proofs

DMCS computes the equilibria of a distributed multi-context system. Every
context is a logic program with a *daemon* (`new_dmcsd`); bridge rules make
beliefs of one context depend on beliefs of others. A client (`new_dmcsc`) asks
one daemon for models, which asks its neighbors, and so on. This directory
specifies the client, the daemon and the network of contexts in TLA+, checks the
specifications with TLC on small instances and proves the main results with
TLAPS for every size.

## 1. The system

Threads of a daemon and the queues between them:

```
 network -> NewHandler -> REQUEST_DISPATCHER_MQ -> RequestDispatcher
              -> REQUEST_MQ -> NormalContext          (first visit)
              -> CYCLE_BREAKER_MQ -> CycleBreaker     (context is in the history)
 NormalContext: joiner -> NEIGHBOR_OUT_MQ -> NewNeighborOut -> network
                network -> NewNeighborThread -> JOINER_DISPATCHER_MQ
                        -> NewJoinerDispatcher -> JOIN_IN_MQ -> joiner
 NormalContext, CycleBreaker: EVAL_IN_MQ -> Evaluator (dlv) -> EVAL_OUT_MQ
                -> OUTPUT_DISPATCHER_MQ -> NewOutputDispatcher
                -> OUTPUT_MQ -> NewOutputThread -> network
```

| part | state | operations | module |
|---|---|---|---|
| message queue (`include/network/ConcurrentMessageQueue.h`) | ring of blocks, `enq`, `deq`, mutex, one condition variable | send, try_send, timed_send, receive, try_receive, timed_receive | `ConcurrentMessageQueue` |
| streaming joiner (`src/mcs/StreamingJoiner.cpp`, `BaseJoiner.cpp`) | `pack_count`, `next_neighbor`, `asking_next`, packs, results | first_join, next_join | `StreamingJoiner` |
| one context, its cache and evaluator (`src/mcs/NewContext.cpp`, `NormalContext.cpp`, `CycleBreaker.cpp`, `CachePosition.cpp`, `src/dmcs/*Evaluator.cpp`) | k1, k2, current guess, `mark`, `models_counter`, heads | startup, process_request, process_input, compute, find_position, update_cache, solve | `Context` |
| network of contexts (the same with `RequestDispatcher.h`, `NewNeighborOut.cpp`, `NewHandler.cpp`) | requests, histories, queues, joiners | dispatch, ask, answer, break cycles | `ContextNetwork` |
| data of a context (`NewBeliefState`, `BeliefStateOffset.cpp`, `BridgeRuleEvaluator.cpp`, `ReturnedBeliefState.cpp`, `NewOutputThread.cpp`) | belief states, guesses, output list | join, guess, evaluate, project, sort, remove duplicates | `ContextData` |
| daemon (`NewServer.cpp`, `Manager.cpp`, `NewThreadFactory.cpp`, `NewHandler.cpp`, `NewOutputThread.cpp`, dispatchers) | phases, handlers, `id2offset`, counter of shut down handlers | initialisation, connections, registration, shutdown | `Daemon` |
| client (`src/new_dmcsc.cpp`, `NewClient.cpp`) | k1, k2, `final_result`, `diff_count` | the request loop | `Client` |
| query ids (`include/mcs/QueryID.h`) | none | packing and unpacking of fields | `QueryId` |

The parts fit together as follows. `StreamingJoiner` assumes of a neighbor that
it answers (k1, k2) with these of its models and an end marker; `Context` shows
that contexts do. `ContextNetwork` abstracts both: a context asks some of its
neighbors, waits for their packs, computes, asks on or ends its answer, in every
order that joiner and context allow, and shows what the two take for granted:
answers that belong to the open query, an evaluator of one's own, and
neighbors that do answer. `Client` takes the enumeration of the root as given.
`Daemon` shows that the threads and queues the others use are in place.
`ContextData` fills in which combinations are consistent and which models there
are, which the others leave open.

What is hard: producers and consumers wait on one condition variable; a joiner
drives an odometer of packs over answers that arrive in any order and gives up
early; a context counts a range down across inputs, guesses and a second thread;
a cache filled by one request steers the next; contexts that ask each other in
cycles must not wait for each other; handlers meet in functions without a lock.
The hazards are listed with their lines in `PROJECT.json`.

## 2. Modules

### ConcurrentMessageQueue, BoundedChannel

One step is the stretch of code from acquiring the mutex to releasing it, by
returning or by waiting. `waiting` is the wait set of `cnd`; `notifyConsumer` and
`notifyProducer` release an arbitrary member of it, as notify_one does. A woken
thread finishes with `ResumeSend` or `ResumeReceive`; timed waits run out
(`Timeout`) and return with `ExpireSend` or `ExpireReceive`; wake-ups may be
spurious. A message is the pair of a producer and the number of its call.

`BoundedChannel` is the abstract specification: a FIFO channel with a bounded
backlog. The refinement mapping takes `sent` to `received \o q`.

### StreamingJoiner

One joiner, its context (which calls first_join and next_join and may turn to a
new request after any result) and its neighbors, which are external. `pc` is the
place in first_join, next_join and ask_first_packs. A neighbor answers a request
for (k1, k2) with that part of its models and an end marker; `Pack` is this
promise, which `Context` shows contexts keep. Which combinations of models are
consistent is left open, so do_join yields any subset of them.

Reductions. JOIN_IN_MQ has one reader, and each end marker closes one neighbor's
answer, so an answer is read in the step in which it arrives; between its models
the joiner only stores them. The model keeps models as sets: a request
meets each model once, and only what follows an orphaned answer could mix two
answers of one neighbor.

`orphaned` records that a request was given up with answers outstanding. The
properties are about requests with `orphaned` false, and `JoinerOrphans.cfg`
shows what happens after.

### Context

One context thread (a NormalContext or a CycleBreaker) and its evaluator thread.
The models of a request are numbered in the order in which a complete enumeration
meets them. `upto` says where the models of each input and guess start and is
external, as is the number of inputs. `pc` is the place in process_request:
waiting for the joiner, searching the cache, computing, reading the evaluator's
results. `mark` is the cache; the binary search of find_position is one step per
round. `jumped` records that find_position made this request skip guesses.

`compute` also tests for heads that are NULL; evaluate_bridge_rules never returns
NULL, so the branch is dead and left out. No result is dropped between evaluator
and invoker: the code that would (conflict_models) is disabled with `#if 0` in
send_out_result. update_cache can read `mark.back()` of an empty vector; the
vector never had an element, the read is below address 0 and the model goes to
"crashed". Assertions are not part of the model (they are compiled out of
release builds); some are properties, and the one of update_cache is violated
(`CacheInOrder`, run `context_assertion`). `RequestEnds` says so: a request ends
with its end marker, or, when a part of its answer was sent, in this assertion
(`CacheBroken`).

### ContextNetwork

Several contexts, each with a dispatcher, a context thread and a cycle breaker,
and a client that asks the root. A request is its query id (who asks, the order
given by `query_counter`, who is asked) and its history; of an answer only the
end marker is kept and whether models came before it. `pc` is the place in
NormalContext::startup: asking and waiting ("joining"), the joiner has what it
asked for ("joined"), using the evaluator ("computing"), done with it
("computed"), no model of some neighbor ("ended"). Queues are bounded, and the
dispatcher waits when the queue its next request goes to is full. A connection
keeps the order of its requests.

`orphaned` is as in `StreamingJoiner`; the network is followed up to the first
orphan, after which an answer may be read for another query.

A topology is *reducible* if every cycle has a context through which all its
contexts are entered from the root (`Dominates`, as in flow graphs). This is where
the history test suffices: in reducible topologies contexts never wait in a circle
(`NoWaitCircle`, proved); in others they can (`network_deadlock`). A context waits
for another one here when its request is with it or in its queue; a request that
is still with the dispatcher does not count. So `NoWaitCircle` says nothing of
requests behind a dispatcher that is blocked at a full queue, although one of them
may be the one for the cycle breaker that would free the context. There the size
of the queues matters: `NetworkDispatcherFree` (proved, any topology) says that a
dispatcher never blocks while its queues have a place for each invoker that may
ask its context. With less room it may block for a while (`network`, where three
requests meet at a context inside a cycle and queues have two places) or for ever
(the same with one place). The code has 50.

### ContextData

One request of one context on the bits. A belief state is a record of two sets of
bits, status and value; block c of `SizeBs + 1` bits starts with the epsilon bit.
JoinStep and JoinAt are the odometer of `join` over the packs in hand, `combine`
works through the masks of BeliefStateOffset, `next_guess` counts in binary over
the bits to guess and `jump_guess` starts in the middle (`Remaining` is what is
left of the step after each bit). A bridge rule is a head
with positive and negated bits; the knowledge base is any function from heads to
local models (dlv, external). The answer is sorted (`list_sort`, the stable sort
of std::list, external) and freed of duplicates in place; `freed` counts
deletions. It is compared with a definition of the answer, written over sets of
beliefs (`Joins`, `Completions`, `LocalModels`, `Answer`) and without premises.

In three places this definition is not the one of a partial equilibrium, because
the code is not, and says exactly how:

- `Part` and `Given`: the masks end one bit early, so the last belief of a context
  is neither compared nor copied; the first neighbor's are kept.
- `Completions`: an input that knows some guessed contexts and not others is or-ed
  with every guess for all of them, so a belief that a neighbor has as false
  becomes true in some of the completions.
- `BornOut`: `consistent_with` looks at the first bit after the epsilon bit of this
  context, even if it belongs to another one, and begins again at bit 0 if there is
  none. An input that knows this context but no belief of it loses all its models,
  unless it says nothing else.

Where none of the three occurs, the definition is the one of partial equilibria.
The instance has belief states for each of them.

### Daemon

Daemons, the manager and clients. Start-up is the protocol of both phases; a
connection goes from the invoker (`link`) over `wire` to a handler. A callback of
a handler is split where another io thread can come between its steps:
createAndRegisterMQ (push_back, then size) and notify_shutdown_handler (read, then
write). `Busy` counts callbacks, so that no more than `IoThreads` run;
`new_dmcsd` has two. `races` records in which of these places two handlers
have been together. `AnswersRouted` and `ShutdownWithLastHandler` hold until then;
without that premise both fail: two handlers get one offset, or an update of
`count_shutdown_handlers` is lost ("todo: mutex protection here",
`src/network/NewServer.cpp:153`), or a handler is counted out before it is in
`handler_vec`.

A NULL offset (`id2offset` 0) is a failed lookup and the daemon goes to
"failed". The shutdown branch of NewNeighborOut is dead: no shutdown message
reaches NEIGHBOR_OUT_MQ, so only clients terminate connections.

### Client

The loop of `new_dmcsc` and the callbacks of NewClient. `enumeration` is the
sequence of models of the root, which may repeat a model because the root removes
duplicates only within a pack; positions past its end are one (`PastEnd`). The
connection may be refused for each endpoint and be lost while an answer or the
end is awaited, and the user may interrupt. The client has its own loop over packs
(handle_read_answer) inside the loop of main.

### QueryId

A number is the set of its one bits: "or" is union, masking is intersection,
shifting adds to every bit and drops what leaves the word of 64 bits.

## 3. Runs

| run | instance | result |
|---|---|---|
| `message_queue` | 2 producers, 2 consumers, capacity 2, 3 calls each | implements `BoundedChannel`; counters exact, order kept, no wake-up lost, everything delivered |
| `joiner` | 2 neighbors, up to 3 models, packs of all, 1 or 2, 2 requests | every combination joined exactly once, first packs never empty, registrations exact, calls return |
| `joiner_orphans` | as `joiner`, past orphaned answers | **violated**: a consistent request is answered "inconsistent" |
| `context` | normal or breaker, up to 2 inputs, 4 guesses, 3 models, all ranges up to 3, 2 requests | answer exact while the cache skips nothing, always in order and bounded, queues drained, requests end, with their marker or in the assertion of update_cache |
| `context_cache` | 1 input, 4 guesses, both requests with the same models | **violated**: the answer does not start at k1 |
| `context_assertion` | 1 input, 4 guesses, one request | **violated**: update_cache is called for a guess that does not follow the last one |
| `network` | all reducible topologies of 3 contexts with 2 rounds of asking, one of 5 contexts with 1, queues of 2 | evaluator used by one at a time, one request per invoker, answers belong to open queries, no circle of waiting, client answered |
| `network_deadlock` | all other topologies of 3 contexts | **violated**: the client is never answered |
| `client` | all sequences of up to 7 out of 5 models, ranges up to 3, 2 endpoints | range delivered, at most one model too many, stops at a fixed point, stops |
| `client_loop` | the same | **violated**: with repeated models the loop may never end |
| `daemon` | 2 daemons, 1 asks the other, 2 clients, 2 io threads | no refused connection, answers find their queue and their invoker, shutdown with the last handler, all daemons serve |
| `context_data` | 5 contexts of 2 beliefs, 2 of them asked and 2 guessed, packs of 1 or 2 states, 2 sets of rules, 2 knowledge bases | join, guesses and answer are those of the definition, freed once |

Bounds. A queue of two with three calls is full, empty and in between, and every
operation meets every state. Up to three models with packs of one and two give
last packs that are full, partly full and empty. Two inputs let a range begin and
end inside, at the edge of and beyond each of them; four guesses are the fewest
for which find_position makes a round (with two inputs, `FewInputs` puts all
models of an input into its first two guesses, which keeps the instance small).
Two requests show what one leaves to the next. Three contexts are the fewest with
an irreducible topology; chains, trees, rings and a ring with a tail are among the
reducible ones. With three contexts no dispatcher waits at a queue of two; in
`Crowded`, of five contexts, four invokers ask one context that is in a cycle, so that its
dispatcher meets a full queue and holds up the request for its cycle breaker; each
context asks once there (`AskOnce`). Seven models with ranges of three give the client more
than two rounds, each with new, old and no models. Two clients and a neighbor give
two handlers at one daemon. The theorems remove these bounds for the safety
properties of all modules.

`CHECK_DEADLOCK FALSE` is set everywhere: calls and requests are bounded, and the
system stops when they are used up, or in a crash. That it does not stop earlier is
`NoLostWakeup`, `AllDelivered`, `CallsReturn`, `RequestEnds`, `ClientAnswered`,
`ClientStops` and `EveryDaemonServes`.

`Joiner.cfg` stops at states with `orphaned` true (`Synchronised`). These states
satisfy the right side of `CallsReturn`, so nothing is hidden from it.

Fairness. Queue: weak fairness of every thread's own steps; a thread that is
ready to take the mutex gets it, and nothing is assumed of waiting threads
(spurious wake-ups and timeouts need not happen). Joiner: its thread runs and
every neighbor answers. Context: both threads run; the joiner returns (checked in
`joiner`), and the solver ends. Network: every thread goes on when it can (each is
a thread of its own), connections deliver, the solver ends. Client: its own steps;
the daemon answers (checked in `network`); lost connections and signals need
not happen. Daemon: processes are started and threads run; nothing is assumed of
clients.

### Disagreements between the code and its comments

1. ask_first_packs returns on the first neighbor without models and leaves the
   other answers in JOIN_IN_MQ, where the next request reads them as its own.
2. find_position can return a guess after the one that holds model k1, because
   guess 0 is never cached, and k1 is not reduced by the models that are skipped:
   the invoker does not get "models from k1 to k2".
3. update_cache asserts `index == mark.size()+1`, but only guesses that sent no
   model reach it. If only guess 1 has a model and models 1 to 2 are asked for,
   guess 2 comes to an empty cache; without assertions `mark.back()` of the empty
   vector is read, after a part of the answer was sent.
4. "cycle detecting is handled at RequestDispatcher [...] We don't have to care
   about breaking the cycles here": the history shows cycles of one branch only.
   If a cycle can be entered at two contexts, requests of two branches wait for
   each other: contexts 2 and 3, each a neighbor of the other and of the root 1.
5. `diff_count = final_result.size() - diff_count` is not what is new in a round,
   so the loop of the client does not end at the "fixed point" of its comment when
   models are repeated.

### Variants

Definitions commented as *Variant* are plausible mistakes (a dropped guard, an
off-by-one, a missing reset). Put in place of the definition that follows them,
each makes TLC report a violation of a property: this shows what the property
detects. `PROJECT.json` ("mutants") pairs them.

## 4. Proofs

All theorems are for arbitrary constants that satisfy the named assumptions of
the modules (capacities and bounds are natural numbers, thread sets are finite
and disjoint, there is at least one neighbor, ranges are well formed, the client
is not a context, daemons are finitely many, a neighbor's pack is a nonempty list
of well-formed belief states, the solver returns lists of sets of beliefs).

**MessageQueueProofs.** `IInv` adds to the type, `CapacityRespected` and
`CountersExact` the discipline of waiting: who waits is inside an operation of
its side, and only timed operations expire. The lemmas `CapacityLoop` and
`EmptyLoop` prove the loop bodies of waitOnCapacity and waitOnEmpty once for all
operations that share them. `QueueImplementsChannel` follows from three effects a
step can have on `received \o q`: push, pop or nothing. `OrderIsPreserved` needs
that numbers of calls bound the messages seen. `OneToOneNeverLosesWakeup`
strengthens `NoLostWakeup` to "a waiting producer faces a full queue and a
waiting consumer an empty one". `RoomForAllNeverLosesWakeup` is for any number of
threads, as long as neither side has more of them than the queue has places (50
by default). Its invariant `RoomForAll` counts: no more producers sleep than
there are messages, no more consumers than free places. Hence sleepers of the two
sides never meet, and the notify_one on their shared condition variable cannot
pick one of the wrong side.

**StreamingJoinerProofs.** `CoverInv` orders the combinations by the packs they
fall in, most significant neighbor last. `tried` is exactly the set of
combinations before the current packs in this order, and the steps of next_join
are steps of an odometer: `CountUp` (a next pack), `CarryOn` (a neighbor has run
out), `Refill` (the neighbors before it start over), `Overflow` (the end).
`WireInv` says which requests are outstanding at each `pc`, `PackInv` which packs
are loaded. Theorems: completeness, no repetition, first packs never empty, exact
registrations, and that only a neighbor without models orphans answers.
`CallsComeNearer` is why a call returns: a step joins something new (`tried` grows
inside the finite set of all combinations), or `Stage` falls, or one more first
pack is there; and who waits is owed an answer (`NoWaitInVain`).

**ContextProofs.** `AnswerExact` speaks only of what was sent; to prove it, the
invariant must say what is still to come. `RangeInv` does: as long as the cache
has skipped no guess, the answer holds what was asked for of the `Done` models
before the current guess, `k2 = range[2] - Done`, and `k1` is `range[1] - Done`
or 1. `EvalInv` says where the evaluator is with the heads in hand (`Waiting`,
`Solving`, `Solved`) and that the models in the queue are the next ones of the
range; from it follows that the marker is the last message (`Finished`).
`StepInv` bounds the cache by the number of guesses, `LeftInv` keeps what is left
a range, and `OrderInv` does not depend on the cache. `EndStep` has one case per
branch of read_and_send_k1_k2, and `GoOn` is what the branches that go on to the
next guess share. Theorems: answers are exact unless the cache was used, always
ordered and bounded, the queues of the evaluator are drained, and steps are
guesses. `RequestComesCloser` is why a request ends: every step of either thread
lowers, lexicographically, the inputs left, the search rounds and guesses left,
the phases of the evaluator left, and the models left, of which one that is in the
queue counts once and one still to be found twice. `NoMutualWait` says that the
context waits at an empty queue only while the evaluator can move. `ContextCrash`
says how a request can end without its marker: `CrashInv` keeps that, while the
cache is empty, only a request that has sent models or wants all of them comes
past guess 1.

**NetworkProofs.** The properties speak of pairs of actors; the reason they hold
is the history. `Located` says what the place of a request tells of it: with a
cycle breaker it has the context in its history, with the context it has not.
`Paths` says that the invoker of a request can be reached from the root
without d, unless d is in its history. `Ordered` (`Apart`, `AllDistinct`) keeps
the places of one invoker's requests and answers at a context apart. `Logic` says
that every live request and every answer belongs to an invoker that waits for it,
with the order of its `query_counter` (`Issued`), and that every context in the
history of a live request is waiting in its joiner, for a request on whose behalf
it was sent (`Chained`). So a cycle breaker works only while its own context
waits: `EvaluatorExclusive`. In a circle of waiting, the context that dominates it
would be in the history of the request made to it, which would then be with the
cycle breaker: `NoWaitCircle`. As an invoker has one request at a context at most
(`AllDistinct`), a queue with a place for each of them has one for the request that
the dispatcher holds: `NetworkDispatcherFree`. The lemmas `InWire`, ..., `InAnswer` say where a
request can be, `LogicMove`, `LogicAsk`, `LogicAnswer` and `LogicStay` carry
`Logic` over a request that moves, is asked, is answered or is not concerned; then
there is one lemma per action.

**ClientProofs.** `ClientInv` says that what is still asked for and what has been
read exceed the range by one at most (`Asked`), that `known` is part of
`final_result` and that `diff_count` is at most its size (`Counted`), so that the
subtraction of unsigned numbers never wraps. `FixedPoint` is the one place where
the alternating `diff_count` is used: if it is 0, the round brought nothing.
`ClientRangeDelivered` needs to know why the loop ends: `DeliverInv` says that the
client, while it waits, has either read nothing and asked for its range, or has
all that was wanted and asks behind the end of the enumeration (`FirstRequest`,
`Exhausted`). `FullRange` counts: a range inside an enumeration without
repetitions has as many models as numbers, so that a round that brings fewer has
met the end. `ClientComesToAnEnd` adds `RoundInv`: without repetitions
`diff_count` is 0 in the first round and the number of all models read in the
second, so it is 0 again after that and there is no third; `StepsLeft` is a bound
on the steps to the end that every step lowers.

**DaemonProofs.** `DaemonInv` is a conjunction of nine parts. `BarrierInv` makes
`NoRefusedConnection` inductive: whoever is in the second phase has been released
by a manager that has heard from everybody. `CountInv` ties the counters to the
number of handlers at each stage (`Count`); `RegisterInv` follows an invoker's
entry in `id2offset` from the handler over the dispatcher's queue to the request
that is answered (`AnswerFindsOutput`). For the rest the premise about `races` is
part of the invariant: `RouteInv` says that offsets are unique and that every
entry is the offset of an open handler of that invoker, `ShutdownInv` that the
counter of the server is exact, that it knows the handlers it counts, and that
one of those it knows is open while it serves. The first half of the module has
what needs no counting, one lemma per group of actions and part; then come the
lemmas on how `Count` moves when one handler moves (`CountMove`), and the parts
that need them. Last, `ReleaseInv` follows the triggers of the manager: it
releases every daemon once, after the last notification, so that no daemon is left
waiting for its trigger (`DaemonStartUpMoves`).

**ContextDataProofs.** Recursion over bits, neighbors and models is handled
without an induction rule with an operator parameter: `IntervalInduction` is
induction over an interval for *sets* (from the least element of the complement),
`Recursion` gives a function defined by recursion on an interval its equations.
`TypeInv` says that the current guess is `Guess(S)`, the one whose true bits are
S, and that it equals `jump_guess(current_step)`: with `JumpNext` (adding 1 to a
binary number sets the first zero bit and clears the ones before it) this is
`ContextGuessOfStep`. For the join, `CombineExact` shows that `combine` on two
belief states is the union of the first with what the second gives if they agree,
and NULL otherwise (`Masked`: the masks leave out the last beliefs and nothing
else); `UnionAgrees` lifts this to all selections before a neighbor, so that
comparing the union with the next belief state is comparing all pairs
(`JoinOfExact`). `JoinedInv` says that the results are the joins of the selections
`Before` the iterators in the order of the odometer; `AdvancedOrder` and
`LastSelection` show that the odometer misses none: `ContextJoinExact`. `AnswerInv` says that the heap has exactly what is sent
for the inputs evaluated so far (`Computed`): all of them for the joined states
before `next_input`, and for the current one those with a guess before the current
guess, in the order in which the highest bit that differs decides (`GuessLess`);
`GuessNext` shows that next_guess goes to the successor.

**ContextAnswerProofs.** `HeapIsAnswer` compares the heap, known from
`AnswerInv`, with the definition: the inputs are the completions of the joins
(`InputsComplete`), and what is sent for one are its local models (`SentLocal`).
`ConsistentOwn` shows that the walk of `consistent_with` over the bits decides
`BornOut`, by where the first bit after the epsilon bit lies: in the block, behind
it, or nowhere. For the list,
`Sorted` derives from the definition by counting (`Places`) that list_sort is a
permutation in ascending order, stable or not. `DedupInv` is the loop invariant of
remove_duplication: the positions up to `mid` and from `beg_remove` on (`Active`)
list every belief state of the heap up to equality, those up to `mid` ascend
strictly, those from `beg_remove` to `first` equal the last that was kept, and a
belief state was deleted exactly if it is no longer listed. `DedupSkip`,
`DedupKeep` and `DedupEnd` are its three moves. Theorems: types, `FreedOnce`, and
from all of it together `ContextAnswer`: the answer is that of the definition,
every belief state once.

**Query ids** (at the end of `StreamingJoinerProofs`). `FieldOfShift`,
`FieldOfUnion` and `FieldElsewhere` give `QueryIdRoundTrip`: the handler, the
dispatchers and the joiner read from an id what ask_neighbor wrote, while every
number fits its field. `query_counter` grows without bound: `QueryOrderOverflow`
says for every order, and every context id that fits, what each field reads as. The
bits of the order from 24, 40 and 50 on are the joiner offset, the neighbor offset
and the receiver, those from 30 on are or-ed into the invoker, and the order is
read back exactly if it is below 2^24.

Only model-checked: all liveness (`AllDelivered`, `CallsReturn`, `RequestEnds`,
`ClientAnswered`, `ClientStops`, `EveryDaemonServes`), which needs ENABLED and
fairness, and the violations. What they need besides is proved for most of them:
that the steps make a measure fall and that nobody waits for what will not come
(`CallsComeNearer`, `RequestComesCloser`, `ClientComesToAnEnd`), or at least a
part of the latter (`RoomForAllNeverLosesWakeup`, `NoWaitCircle` and
`NetworkDispatcherFree`, `DaemonStartUpMoves`). For the network that part is: no
contexts wait in a circle, and with queues that have room for all invokers no
request waits behind a blocked dispatcher; with smaller queues `ClientAnswered` is
shown by the run only, and it fails where they are too small. That
a measure that falls in a well-founded order cannot fall for ever, and that the
guards named there are the whole of what enables a step, is left to the reader and
to TLC. Every invariant, every action property and the refinement of the passing
runs are proved. `NoLostWakeup` is proved for one thread
on either side, and for a capacity no smaller than the number of threads on a side
(the passing run is such a case). With less room, two producers and a consumer at
one place, say, a notification meant for the consumer can release a producer, and
all sleep.

## 5. Not modelled

- The joiner dispatcher as a thread of its own that can block on a full
  JOIN_IN_MQ. Answers are read in the step in which they arrive.
- Which of two clients of one daemon gets an answer: both have the invoker id
  1023, `registerIdOffset` keeps the first queue. `AnswersRouted` compares ids, as
  the assertion in NewOutputThread does.
- Daemons that die, and neighbors' connections that break: the callbacks throw
  and the process ends; there is no recovery to check. Nothing is persisted.
- The contents of text: parsers, printing, serialisation, the dlv process and its
  pipes, the query planner and the generators of benchmarks.
- Code that is not built (`dyndmcs`, `solver`, the first generation `dmcsd` and
  `dmcsc`, `Pool`, `ResourceManager`) or never called (Manager::handle_finalize,
  close_all_connections).

By lines this is most of the repository: BitMagic, a vendored library of bit
vectors, is half of it; parsers, generators, the unbuilt first generation, tests,
headers of declarations and build scripts are most of the rest. What runs in
`new_dmcsd`, `new_dmcsc` and the manager and changes state shared between threads
or messages is modelled, with the exceptions above.
