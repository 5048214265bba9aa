------------------------------- MODULE Context -------------------------------
(***************************************************************************)
(* How a context answers one request for models k1 to k2                   *)
(* (src/mcs/NewContext.cpp, NormalContext.cpp, CycleBreaker.cpp,           *)
(* CachePosition.cpp) and the evaluator thread that computes the models    *)
(* (src/dmcs/Evaluator.cpp, DLVEvaluator.cpp).                             *)
(*                                                                         *)
(* The context goes through its inputs, which the joiner delivers, and for *)
(* an input that must be guessed through the G guesses, in the order of    *)
(* next_guess.  It sends every pair of an input and a guess to the         *)
(* evaluator and passes the models that come back on to its invoker.  A    *)
(* CycleBreaker is a context with a single input, to be guessed.           *)
(*                                                                         *)
(* The models of a request are numbered in the order in which a complete   *)
(* enumeration meets them: guess g of input i yields the models            *)
(* upto[i][g] + 1 to upto[i][g + 1].  Answer sets that contradict the      *)
(* input are dropped uncounted by the evaluator and not models.            *)
(***************************************************************************)
EXTENDS Integers, Sequences

CONSTANTS
  Roles,        \* a subset of {"normal", "breaker"}
  MaxInputs,    \* bound: number of inputs of a request
  G,            \* number of guesses; a power of two in the code
  MaxTotal,     \* bound: number of models of a request
  Ranges,       \* the pairs <<k1, k2>> invokers ask for; <<0, 0>> means all
  QueueSize,    \* capacity of EVAL_OUT_MQ
  MaxRequests   \* bound: number of requests

ASSUME RolesAssumption == Roles \subseteq {"normal", "breaker"}
ASSUME MaxInputsAssumption == MaxInputs \in Nat \ {0}
ASSUME GAssumption == G \in Nat \ {0}
ASSUME MaxTotalAssumption == MaxTotal \in Nat
ASSUME RangesAssumption ==
  \A r \in Ranges : /\ r \in Nat \X Nat
                    /\ r = <<0, 0>> \/ (0 < r[1] /\ r[1] <= r[2])
ASSUME QueueSizeAssumption == QueueSize \in Nat \ {0}
ASSUME MaxRequestsAssumption == MaxRequests \in Nat

Inputs == 1 .. MaxInputs

\* The marker that ends the models of one pair (heads, NULL).
NULL == 0

VARIABLES
  role,
  inputs,           \* external: number of inputs the joiner has
  guessing,         \* external: the inputs for which must_guess holds
  upto,             \* external: where the models of each guess start
  range,            \* the k1 and k2 of the request
  pc,               \* where the thread of the context is
  k1, k2,           \* what is left of the range
  input,            \* the current input
  current_step,     \* the current guess
  models_sent,
  beg, end,         \* the bounds of find_position's search
  mark,             \* the cache: counts of models that update_cache adds up
  eval_in,          \* EVAL_IN_MQ
  eval_out,         \* EVAL_OUT_MQ
  eval_pc,          \* where the thread of the evaluator is
  heads,            \* what the evaluator works on
  models_counter,
  answer,           \* history: the models sent to the invoker
  requests,         \* number of requests so far
  jumped            \* history: the cache made this request skip guesses

data == <<role, inputs, guessing, upto, range, requests>>
evaluator == <<eval_pc, heads, models_counter>>
search == <<beg, end>>
progress == <<k1, k2, input, current_step, search, mark, jumped>>

vars == <<role, inputs, guessing, upto, range, pc, k1, k2, input,
          current_step, models_sent, beg, end, mark, eval_in, eval_out, eval_pc,
          heads, models_counter, answer, requests, jumped>>

\* The numberings: an input starts where the one before it ends.
Chained ==
  {t \in [Inputs -> {row \in [0 .. G -> 0 .. MaxTotal] :
                       \A g, h \in 0 .. G : g <= h => row[g] <= row[h]}] :
     /\ t[1][0] = 0
     /\ \A i, j \in Inputs : i <= j => t[i][G] <= t[j][G]
     /\ \A i \in Inputs : i + 1 \in Inputs => t[i + 1][0] = t[i][G]}

\* The same set, as a list that TLC computes once.
Numbering == {[i \in Inputs |-> t[i]] : t \in Chained}

\* Those for ins inputs of which those in gs are guessed.
Numberings(ins, gs) ==
  {t \in Numbering :
     /\ \A i \in Inputs \ gs : t[i][1] = t[i][G]
     /\ \A i \in Inputs : i > ins => t[i][0] = t[i][G]}

Init ==
  /\ role \in Roles
  /\ inputs = 0
  /\ guessing = {}
  /\ upto = [i \in Inputs |-> [g \in 0 .. G |-> 0]]
  /\ range = <<0, 0>>
  /\ pc = "idle"
  /\ k1 = 0 /\ k2 = 0
  /\ input = 0
  /\ current_step = 0
  /\ models_sent = 0
  /\ beg = 0 /\ end = 0
  /\ mark = <<>>
  /\ eval_in = <<>>
  /\ eval_out = <<>>
  /\ eval_pc = "idle"
  /\ heads = [k1 |-> 0, k2 |-> 0, input |-> 1, step |-> 0]
  /\ models_counter = 0
  /\ answer = <<>>
  /\ requests = 0
  /\ jumped = FALSE

-----------------------------------------------------------------------------
(* CachePosition                                                           *)

\* find_position returns a step, and the guess of this step is computed.
Position(step) ==
  /\ current_step' = step
  /\ jumped' = (jumped \/ step # 0)
  /\ pc' = "compute"

\* One round of the binary search; positions count from 0 in the code.
find_position ==
  /\ pc = "search"
  /\ beg + 1 < end
  /\ LET mid == (beg + end) \div 2 IN
       \/ /\ mark[mid + 1] < k1
          /\ beg' = mid
          /\ UNCHANGED <<end, current_step, jumped, pc>>
       \/ /\ mark[mid + 1] > k1
          /\ end' = mid
          /\ UNCHANGED <<beg, current_step, jumped, pc>>
       \/ /\ mark[mid + 1] = k1
          /\ Position(mid)
          /\ UNCHANGED search
  /\ UNCHANGED <<data, k1, k2, input, models_sent, mark, eval_in, eval_out,
                 evaluator, answer>>

\* The end of the search: "actually beg but outside we count from 1".
PositionFound ==
  /\ pc = "search"
  /\ beg + 1 >= end
  /\ Position(IF mark[beg + 1] = k1 THEN beg ELSE beg + 1)
  /\ UNCHANGED <<data, k1, k2, input, search, models_sent, mark, eval_in,
                 eval_out, evaluator, answer>>

\* update_cache reads mark.back() although mark may be empty: a read below
\* the null pointer of a vector that never had an element.
BackOfEmpty(index) == index > 1 /\ mark = <<>>

update_cache(index, k) ==
  mark' = IF index <= Len(mark) THEN mark
          ELSE IF index = 1 THEN Append(mark, k)
          ELSE Append(mark, k + mark[Len(mark)])

-----------------------------------------------------------------------------
(* The context                                                             *)

\* A request for some range, in which the context has ins inputs and has to
\* guess those of gs.
StartRequest(ins, gs) ==
  /\ pc = "idle"
  /\ requests < MaxRequests
  /\ requests' = requests + 1
  /\ inputs' = ins
  /\ guessing' = gs
  /\ upto' \in Numberings(ins, gs)
  /\ range' \in Ranges
  /\ k1' = range'[1]
  /\ k2' = range'[2]
  /\ input' = 0
  /\ answer' = <<>>
  /\ jumped' = FALSE
  /\ pc' = "join"
  /\ UNCHANGED <<role, current_step, search, models_sent, mark, eval_in,
                 eval_out, evaluator>>

\* NormalContext::startup takes a request from REQUEST_MQ.
NormalRequest ==
  /\ role = "normal"
  /\ \E ins \in 0 .. MaxInputs : \E gs \in SUBSET (1 .. ins) :
       StartRequest(ins, gs)

\* CycleBreaker::startup takes one from CYCLE_BREAKER_MQ; it guesses
\* everything and needs no joiner.
BreakerRequest == role = "breaker" /\ StartRequest(1, {1})

\* first_join or next_join has an input, and process_input looks for the
\* guess to begin with; an empty cache has position 0 for everything.
NextInput ==
  /\ pc = "join"
  /\ input < inputs
  /\ input' = input + 1
  /\ IF input' \in guessing /\ mark # <<>>
       THEN /\ pc' = "search"
            /\ beg' = 0 /\ end' = Len(mark)
            /\ UNCHANGED <<current_step, jumped>>
       ELSE Position(0) /\ UNCHANGED search
  /\ UNCHANGED <<data, k1, k2, models_sent, mark, eval_in, eval_out,
                 evaluator, answer>>

\* The end marker is sent and the request is finished.
NoInput ==
  /\ pc = "join"
  /\ input = inputs
  /\ pc' = "idle"
  /\ UNCHANGED <<data, progress, models_sent, eval_in, eval_out, evaluator,
                 answer>>

\* compute evaluates the bridge rules and sends the heads to the evaluator.
compute ==
  /\ pc = "compute"
  /\ eval_in' = Append(eval_in, [k1 |-> k1, k2 |-> k2, input |-> input,
                                 step |-> current_step])
  /\ models_sent' = 0
  /\ pc' = "read"
  /\ UNCHANGED <<data, progress, eval_out, evaluator, answer>>

\* Variant: reading stops with the last model asked for.
read_and_sendStopsEarly ==
  /\ pc = "read"
  /\ eval_out # <<>>
  /\ Head(eval_out) # NULL
  /\ eval_out' = Tail(eval_out)
  /\ answer' = Append(answer, Head(eval_out))
  /\ models_sent' = models_sent + 1
  /\ pc' = IF models_sent' = k2 - k1 + 1 /\ k2 > 0 THEN "idle" ELSE pc
  /\ UNCHANGED <<data, progress, eval_in, evaluator>>

\* One model from the evaluator goes to the invoker.
read_and_send ==
  /\ pc = "read"
  /\ eval_out # <<>>
  /\ Head(eval_out) # NULL
  /\ eval_out' = Tail(eval_out)
  /\ answer' = Append(answer, Head(eval_out))
  /\ models_sent' = models_sent + 1
  /\ UNCHANGED <<data, progress, pc, eval_in, evaluator>>

\* next_guess, or the next input when there is none.
next_guess ==
  IF input \in guessing /\ current_step + 1 < G
    THEN current_step' = current_step + 1 /\ pc' = "compute"
    ELSE current_step' = current_step /\ pc' = "join"

\* Variant: one model too many is taken off.
NoneSentOffByOne ==
  /\ models_sent = 0
  /\ k1' = k1 - models_counter - 1
  /\ k2' = k2 - models_counter - 1
  /\ next_guess
  /\ UNCHANGED mark

\* There was no model in the range: k1 and k2 are counted from the next
\* guess on, and the cache learns how many models this guess has.
NoneSent ==
  /\ models_sent = 0
  /\ k1' = k1 - models_counter
  /\ k2' = k2 - models_counter
  /\ IF current_step > 0
       THEN IF BackOfEmpty(current_step)
              THEN pc' = "crashed" /\ UNCHANGED <<mark, current_step>>
              ELSE update_cache(current_step, models_counter) /\ next_guess
       ELSE next_guess /\ UNCHANGED mark

\* Variants: the "+ 1" is missing; k2 is not reduced.
SomeSentOffByOne ==
  /\ 0 < models_sent /\ models_sent < k2 - k1 + 1
  /\ k1' = 1
  /\ k2' = k2 - models_sent - k1
  /\ next_guess
  /\ UNCHANGED mark

SomeSentKept ==
  /\ 0 < models_sent /\ models_sent < k2 - k1 + 1
  /\ k1' = 1
  /\ next_guess
  /\ UNCHANGED <<k2, mark>>

SomeSent ==
  /\ 0 < models_sent /\ models_sent < k2 - k1 + 1
  /\ k1' = 1
  /\ k2' = k2 - models_sent - k1 + 1
  /\ next_guess
  /\ UNCHANGED mark

\* The request is complete; the loops are left and the end marker is sent.
AllSent ==
  /\ models_sent >= k2 - k1 + 1
  /\ models_sent > 0
  /\ pc' = "idle"
  /\ UNCHANGED <<k1, k2, current_step, mark>>

\* The end of the models of this guess.
read_and_send_k1_k2 ==
  /\ pc = "read"
  /\ eval_out # <<>>
  /\ Head(eval_out) = NULL
  /\ eval_out' = Tail(eval_out)
  /\ IF k1 = 0 /\ k2 = 0
       THEN next_guess /\ UNCHANGED <<k1, k2, mark>>
       ELSE NoneSent \/ SomeSent \/ AllSent
  /\ UNCHANGED <<data, input, search, jumped, models_sent, eval_in, evaluator,
                 answer>>

-----------------------------------------------------------------------------
(* The evaluator                                                           *)

Start(h) == upto[h.input][h.step]

\* The solver has another answer set for the heads.
MoreModels == models_counter < upto[heads.input][heads.step + 1] - Start(heads)

All(h) == h.k1 = 0 /\ h.k2 = 0

\* startup takes heads from EVAL_IN_MQ; reset_process.
TakeHeads ==
  /\ eval_pc = "idle"
  /\ eval_in # <<>>
  /\ heads' = Head(eval_in)
  /\ eval_in' = Tail(eval_in)
  /\ models_counter' = 0
  /\ eval_pc' = "solve"
  /\ UNCHANGED <<data, progress, pc, models_sent, eval_out, answer>>

\* read_until_k2 ignores the models before k1.
Ignore ==
  /\ eval_pc = "solve"
  /\ ~All(heads)
  /\ models_counter < heads.k1 - 1
  /\ MoreModels
  /\ models_counter' = models_counter + 1
  /\ UNCHANGED <<data, progress, pc, models_sent, eval_in, eval_out, eval_pc,
                 heads, answer>>

test_and_send ==
  /\ eval_pc = "solve"
  /\ All(heads) \/ (heads.k1 - 1 <= models_counter /\ models_counter < heads.k2)
  /\ MoreModels
  /\ Len(eval_out) < QueueSize
  /\ models_counter' = models_counter + 1
  /\ eval_out' = Append(eval_out, Start(heads) + models_counter + 1)
  /\ UNCHANGED <<data, progress, pc, models_sent, eval_in, eval_pc, heads,
                 answer>>

\* Variant: NULL is sent only when the solver has no more models.
EndOfModelsOnly ==
  /\ eval_pc = "solve"
  /\ ~MoreModels
  /\ Len(eval_out) < QueueSize
  /\ eval_out' = Append(eval_out, NULL)
  /\ eval_pc' = "idle"
  /\ UNCHANGED <<data, progress, pc, models_sent, eval_in, heads,
                 models_counter, answer>>

\* Either no more answer with these heads, or k2 answers reached.
EndOfModels ==
  /\ eval_pc = "solve"
  /\ ~MoreModels \/ (~All(heads) /\ models_counter >= heads.k2)
  /\ Len(eval_out) < QueueSize
  /\ eval_out' = Append(eval_out, NULL)
  /\ eval_pc' = "idle"
  /\ UNCHANGED <<data, progress, pc, models_sent, eval_in, heads,
                 models_counter, answer>>

-----------------------------------------------------------------------------
ContextStep ==
  \/ NextInput \/ NoInput \/ find_position \/ PositionFound
  \/ compute \/ read_and_send \/ read_and_send_k1_k2

EvaluatorStep == TakeHeads \/ Ignore \/ test_and_send \/ EndOfModels

Next == NormalRequest \/ BreakerRequest \/ ContextStep \/ EvaluatorStep

Spec == Init /\ [][Next]_vars

\* Both threads run, the joiner returns and the solver ends.
FairSpec == Spec /\ WF_vars(ContextStep) /\ WF_vars(EvaluatorStep)

-----------------------------------------------------------------------------
(* Properties                                                              *)

Heads == [k1 : Nat, k2 : Nat, input : Inputs, step : Nat]

\* The type invariant.
TypeOK ==
  /\ role \in Roles
  /\ inputs \in 0 .. MaxInputs
  /\ guessing \subseteq Inputs
  /\ upto \in [Inputs -> [0 .. G -> 0 .. MaxTotal]]
  /\ range \in Nat \X Nat
  /\ pc \in {"idle", "join", "search", "compute", "read", "crashed"}
  /\ k1 \in Nat /\ k2 \in Nat
  /\ input \in 0 .. MaxInputs
  /\ current_step \in Nat
  /\ models_sent \in Nat
  /\ beg \in Nat /\ end \in Nat
  /\ mark \in Seq(Nat)
  /\ eval_in \in Seq(Heads)
  /\ eval_out \in Seq(Nat)
  /\ eval_pc \in {"idle", "solve"}
  /\ heads \in Heads
  /\ models_counter \in Nat
  /\ answer \in Seq(Nat)
  /\ requests \in 0 .. MaxRequests
  /\ jumped \in BOOLEAN

\* The number of models of the request.
Total == IF inputs = 0 THEN 0 ELSE upto[inputs][G]

\* What is asked for: the models after First, up to Last.
First == IF range = <<0, 0>> THEN 0 ELSE range[1] - 1
Last == IF range = <<0, 0>> \/ range[2] > Total THEN Total ELSE range[2]

\* The answer is models k1, k1 + 1, ... in order without a gap, and when
\* the end marker is sent it goes up to k2 or to the last model.
Exact ==
  /\ \A j \in 1 .. Len(answer) : answer[j] = First + j
  /\ pc = "idle" /\ requests > 0 =>
       Len(answer) = IF Last > First THEN Last - First ELSE 0

\* "The invoker wants models from k1 to k2", and gets them, however the
\* range falls across inputs and guesses, while the cache skips no guess.
AnswerExact == ~jumped => Exact

\* With or without the cache no model is sent twice, models keep their order
\* and never more are sent than were asked for.
AnswerBounded ==
  /\ \A i, j \in 1 .. Len(answer) : i < j => answer[i] < answer[j]
  /\ range # <<0, 0>> => Len(answer) <= range[2] - range[1] + 1

\* No model or marker of one guess is left in a queue when the context turns
\* to the next one: it would be taken for a result of the next guess.
EvaluatorDrained ==
  pc # "read" => eval_in = <<>> /\ eval_out = <<>> /\ eval_pc = "idle"

\* A step that find_position returns is a guess: jump_guess never returns
\* NULL, which process_input would dereference.
GuessInRange == pc \in {"compute", "read"} => current_step < G

\* "assert (index == mark.size()+1);" of update_cache: the cache learns the guesses
\* one after the other.
CacheInOrder ==
  /\ pc = "read" /\ eval_out # <<>> /\ Head(eval_out) = NULL
  /\ range # <<0, 0>> /\ models_sent = 0 /\ current_step > 0
  => current_step <= Len(mark) + 1

\* The request broke the assertion of update_cache on an empty cache, after models
\* were sent for an earlier guess: a guess with models teaches the cache nothing.
CacheBroken ==
  pc = "crashed" /\ mark = <<>> /\ current_step > 1 /\ answer # <<>>

\* Every request is answered up to its end marker, or ends in the broken assertion
\* of update_cache, when part of its answer was sent.
RequestEnds == pc # "idle" ~> pc = "idle" \/ CacheBroken

\* "The invoker wants models from k1 to k2", with the cache in use.
InvokerGetsRange == Exact

=============================================================================
