---------------------------- MODULE ContextProofs ----------------------------
(***************************************************************************)
(* The answer of a context is right, for any number of inputs, guesses,    *)
(* models and requests and any capacity of the evaluator's queue.          *)
(*                                                                         *)
(* All parts of the inductive invariant but RangeInv hold whatever the     *)
(* cache does; RangeInv says what k1, k2 and the answer are while the      *)
(* cache has skipped no guess.                                             *)
(***************************************************************************)
EXTENDS Context, TLAPS

\* The request and where the context is in it.
DataInv ==
  /\ inputs \in 0 .. MaxInputs
  /\ guessing \subseteq 1 .. inputs
  /\ upto \in Numberings(inputs, guessing)
  /\ range \in Nat \X Nat
  /\ range = <<0, 0>> \/ (0 < range[1] /\ range[1] <= range[2])
  /\ requests \in 0 .. MaxRequests
  /\ role \in Roles
  /\ jumped \in BOOLEAN
  /\ pc \in {"idle", "join", "search", "compute", "read", "crashed"}
  /\ input \in 0 .. inputs
  /\ pc \in {"search", "compute", "read"} => input > 0

\* The cache holds fewer positions than there are guesses.
StepInv ==
  /\ mark \in Seq(Nat)
  /\ Len(mark) < G
  /\ beg \in Nat /\ end \in Nat
  /\ pc = "search" =>
       beg < end /\ end <= Len(mark) /\ input \in guessing
  /\ current_step \in 0 .. G - 1
  /\ pc \in {"compute", "read"} /\ input \notin guessing => current_step = 0

\* What is left of the range is a range.
LeftInv ==
  /\ k1 \in Nat /\ k2 \in Nat
  /\ range = <<0, 0>> => k1 = 0 /\ k2 = 0
  /\ range # <<0, 0>> => 0 < k1 /\ k1 <= k2

\* The first and the number of models of the current guess, and how many of
\* them are before the range.
Here == upto[input][current_step]
Size == upto[input][current_step + 1] - upto[input][current_step]
Skip == IF k2 = 0 THEN 0 ELSE k1 - 1

CurrentHeads ==
  [k1 |-> k1, k2 |-> k2, input |-> input, step |-> current_step]

\* The evaluator has sent n models, of which the context has read some.
Sent(n) ==
  /\ models_sent + n = IF models_counter > Skip THEN models_counter - Skip ELSE 0
  /\ models_counter <= Size
  /\ k2 > 0 => models_counter <= k2
  /\ \A j \in 1 .. n : eval_out[j] = Here + Skip + models_sent + j

Waiting ==
  /\ eval_pc = "idle"
  /\ eval_in = <<CurrentHeads>>
  /\ eval_out = <<>>
  /\ models_sent = 0

Solving ==
  /\ eval_pc = "solve"
  /\ eval_in = <<>>
  /\ heads = CurrentHeads
  /\ Sent(Len(eval_out))

Solved ==
  /\ eval_pc = "idle"
  /\ eval_in = <<>>
  /\ eval_out # <<>>
  /\ eval_out[Len(eval_out)] = NULL
  /\ Sent(Len(eval_out) - 1)
  /\ models_counter = Size \/ (k2 > 0 /\ models_counter = k2)

\* The two queues and the evaluator.
EvalInv ==
  /\ eval_in \in Seq(Heads)
  /\ eval_out \in Seq(Nat)
  /\ eval_pc \in {"idle", "solve"}
  /\ heads \in Heads
  /\ models_counter \in Nat
  /\ models_sent \in Nat
  /\ EvaluatorDrained
  /\ pc = "read" => Waiting \/ Solving \/ Solved

\* The number of models the context has dealt with before this guess.
Done ==
  IF pc = "join" THEN IF input = 0 THEN 0 ELSE upto[input][G]
  ELSE IF pc = "search" THEN upto[input][0]
  ELSE Here

Active == pc \in {"join", "search", "compute", "read"}

\* The models of the current guess that are in the answer.
Current == IF pc = "read" THEN models_sent ELSE 0

Above(x, y) == IF x > y THEN x - y ELSE 0

\* As long as no guess is skipped, the answer is what was asked for of the
\* models dealt with, and k1 and k2 are what is left.
RangeInv ==
  ~jumped =>
    /\ Exact
    /\ Active => Len(answer) = Above(Done, First) + Current
    /\ Active /\ range # <<0, 0>> =>
         /\ Done < range[2]
         /\ k2 = range[2] - Done
         /\ k1 = IF Done < range[1] THEN range[1] - Done ELSE 1

\* Whatever is skipped, the answer is in order and not too long.
OrderInv ==
  /\ answer \in Seq(Nat)
  /\ AnswerBounded
  /\ Active => \A j \in 1 .. Len(answer) :
       answer[j] <= Done + (IF pc = "read" /\ models_sent > 0
                              THEN Skip + models_sent ELSE 0)
  /\ Active /\ range # <<0, 0>> =>
       /\ Current <= k2 - k1 + 1
       /\ Len(answer) - Current + k2 - k1 + 1 <= range[2] - range[1] + 1

IInv == DataInv /\ StepInv /\ LeftInv /\ EvalInv /\ RangeInv /\ OrderInv

-----------------------------------------------------------------------------
(* Numberings                                                              *)

LEMMA NumberingIsChained == Numbering = Chained
<1>1. ASSUME NEW t \in Chained PROVE t = [i \in Inputs |-> t[i]]
  <2> DEFINE Rows == {row \in [0 .. G -> 0 .. MaxTotal] :
                        \A g, h \in 0 .. G : g <= h => row[g] <= row[h]}
  <2>1. t \in [Inputs -> Rows]
    BY Zenon DEF Chained
  <2> HIDE DEF Rows
  <2> QED BY <2>1, Zenon
<1>2. \A t \in Numbering : t \in Chained
  <2> SUFFICES ASSUME NEW u \in Numbering PROVE u \in Chained
    OBVIOUS
  <2>1. PICK t \in Chained : u = [i \in Inputs |-> t[i]]
    BY Zenon DEF Numbering
  <2> QED BY <2>1, <1>1, Zenon
<1>3. \A t \in Chained : t \in Numbering
  BY <1>1, Zenon DEF Numbering
<1> QED BY <1>2, <1>3, Zenon

LEMMA Numbered ==
  ASSUME DataInv
  PROVE  /\ \A i \in Inputs : \A g \in 0 .. G : upto[i][g] \in Nat
         /\ \A i \in Inputs : \A g, h \in 0 .. G : g <= h => upto[i][g] <= upto[i][h]
         /\ upto[1][0] = 0
         /\ \A i, j \in Inputs : i <= j => upto[i][G] <= upto[j][G]
         /\ \A i \in Inputs : i + 1 \in Inputs => upto[i + 1][0] = upto[i][G]
         /\ \A i \in Inputs \ guessing : upto[i][1] = upto[i][G]
<1> DEFINE Rows == {row \in [0 .. G -> 0 .. MaxTotal] :
                      \A g, h \in 0 .. G : g <= h => row[g] <= row[h]}
<1>1. upto \in [Inputs -> Rows]
  BY NumberingIsChained, Zenon DEF DataInv, Numberings, Chained
<1>2. ASSUME NEW i \in Inputs
      PROVE  /\ \A g \in 0 .. G : upto[i][g] \in Nat
             /\ \A g, h \in 0 .. G : g <= h => upto[i][g] <= upto[i][h]
  <2>1. upto[i] \in Rows
    BY <1>1
  <2>2. \A x \in 0 .. MaxTotal : x \in Nat
    BY MaxTotalAssumption
  <2>3. upto[i] \in [0 .. G -> 0 .. MaxTotal]
    BY <2>1, Zenon
  <2> QED BY <2>1, <2>2, <2>3, Zenon
<1>3. /\ upto[1][0] = 0
      /\ \A i, j \in Inputs : i <= j => upto[i][G] <= upto[j][G]
      /\ \A i \in Inputs : i + 1 \in Inputs => upto[i + 1][0] = upto[i][G]
      /\ \A i \in Inputs \ guessing : upto[i][1] = upto[i][G]
  BY NumberingIsChained, Zenon DEF DataInv, Numberings, Chained
<1> QED BY <1>2, <1>3, Zenon

\* Where the models of the current input and guess are.
LEMMA Place ==
  ASSUME DataInv, StepInv, pc \in {"search", "compute", "read"}
  PROVE  /\ input \in Inputs /\ input \in Nat
         /\ current_step \in 0 .. G /\ current_step + 1 \in 0 .. G
         /\ 0 \in 0 .. G /\ G \in 0 .. G /\ 1 \in 0 .. G
         /\ Here \in Nat /\ Size \in Nat
         /\ Here + Size = upto[input][current_step + 1]
         /\ Here + Size <= upto[input][G]
<1>1. input \in Inputs /\ input \in Nat
  BY MaxInputsAssumption DEF DataInv, Inputs
<1>2. /\ current_step \in 0 .. G /\ current_step + 1 \in 0 .. G
      /\ 0 \in 0 .. G /\ G \in 0 .. G /\ 1 \in 0 .. G
      /\ current_step <= current_step + 1 /\ current_step + 1 <= G
  BY GAssumption DEF StepInv
<1>3. /\ upto[input][current_step] \in Nat /\ upto[input][current_step + 1] \in Nat
      /\ upto[input][current_step] <= upto[input][current_step + 1]
      /\ upto[input][current_step + 1] <= upto[input][G]
      /\ upto[input][G] \in Nat
  BY <1>1, <1>2, Numbered, Zenon
<1> QED BY <1>1, <1>2, <1>3 DEF Here, Size

LEMMA ZeroRange ==
  ASSUME DataInv, LeftInv
  PROVE  /\ range[1] \in Nat /\ range[2] \in Nat /\ k1 \in Nat /\ k2 \in Nat
         /\ range = <<0, 0>> => k1 = 0 /\ k2 = 0 /\ First = 0
         /\ range # <<0, 0>> => /\ 0 < k1 /\ k1 <= k2
                               /\ 0 < range[1] /\ range[1] <= range[2]
                               /\ First = range[1] - 1
         /\ Skip = (IF k2 = 0 THEN 0 ELSE k1 - 1) /\ Skip \in Nat
         /\ First \in Nat
<1>1. range[1] \in Nat /\ range[2] \in Nat
  BY DEF DataInv
<1> QED BY <1>1 DEF DataInv, LeftInv, First, Skip

-----------------------------------------------------------------------------
(* The evaluator                                                           *)

LEMMA SamePlace ==
  ASSUME UNCHANGED <<upto, input, current_step, k1, k2>>
  PROVE  Here' = Here /\ Size' = Size /\ Skip' = Skip /\ CurrentHeads' = CurrentHeads
BY DEF Here, Size, Skip, CurrentHeads

\* The steps of the evaluator leave the context alone.
LEMMA EvaluatorFrame ==
  ASSUME IInv, UNCHANGED <<data, progress, pc, models_sent, answer>>
  PROVE  DataInv' /\ StepInv' /\ LeftInv' /\ RangeInv' /\ OrderInv'
<1>1. UNCHANGED <<role, inputs, guessing, upto, range, requests, k1, k2, input,
                  current_step, beg, end, mark, jumped, pc, models_sent, answer>>
  BY DEF data, progress, search
<1>2. DataInv' /\ StepInv' /\ LeftInv'
  BY <1>1 DEF IInv, DataInv, StepInv, LeftInv
<1>3. /\ First' = First /\ Last' = Last /\ Done' = Done /\ Current' = Current
      /\ (Active' <=> Active) /\ Skip' = Skip
  BY <1>1 DEF First, Last, Total, Done, Current, Active, Skip, Here
<1>4. RangeInv'
  BY <1>1, <1>3 DEF IInv, RangeInv, Exact, Above
<1>5. OrderInv'
  BY <1>1, <1>3 DEF IInv, OrderInv, AnswerBounded
<1> QED BY <1>2, <1>4, <1>5

LEMMA AtHeads ==
  ASSUME heads = CurrentHeads
  PROVE  /\ heads.k1 = k1 /\ heads.k2 = k2
         /\ Start(heads) = Here
         /\ MoreModels <=> models_counter < Size
         /\ All(heads) <=> k1 = 0 /\ k2 = 0
<1>1. /\ heads.k1 = k1 /\ heads.k2 = k2
      /\ heads.input = input /\ heads.step = current_step
  BY DEF CurrentHeads
<1> QED BY <1>1 DEF Start, MoreModels, All, Here, Size

LEMMA Busy ==
  ASSUME IInv, eval_pc = "solve"
  PROVE  pc = "read" /\ Solving
<1>1. pc = "read"
  BY DEF IInv, EvalInv, EvaluatorDrained
<1> QED BY <1>1 DEF IInv, EvalInv, Waiting, Solved

LEMMA TakeHeadsStep ==
  ASSUME IInv, TakeHeads
  PROVE  IInv'
<1>1. pc = "read" /\ Waiting
  BY DEF IInv, EvalInv, EvaluatorDrained, TakeHeads, Solving, Solved
<1>2. /\ heads' = CurrentHeads
      /\ eval_in' = <<>>
      /\ models_counter' = 0
      /\ eval_pc' = "solve"
      /\ UNCHANGED <<pc, models_sent, eval_out>>
  BY <1>1 DEF TakeHeads, Waiting
<1>3. UNCHANGED <<upto, input, current_step, k1, k2>>
  BY DEF TakeHeads, data, progress
<1>4. heads' \in Heads
  BY DEF TakeHeads, IInv, EvalInv
<1>5. Size \in Nat /\ Skip \in Nat /\ k2 \in Nat
  BY <1>1, Place, ZeroRange DEF IInv
<1>6. Solving'
  <2>1. Len(eval_out') = 0 /\ eval_out' = <<>>
    BY <1>1, <1>2 DEF Waiting
  <2>2. Sent(Len(eval_out))'
    BY <1>1, <1>2, <1>3, <1>5, <2>1, SamePlace DEF Sent, Waiting
  <2> QED BY <1>2, <1>3, <2>2, SamePlace DEF Solving
<1>7. EvalInv'
  <2>1. eval_in' \in Seq(Heads) /\ eval_out' \in Seq(Nat) /\ models_sent' \in Nat
    BY <1>2 DEF IInv, EvalInv
  <2> QED BY <1>1, <1>2, <1>4, <1>6, <2>1 DEF EvalInv, EvaluatorDrained
<1> QED BY <1>7, EvaluatorFrame DEF TakeHeads, IInv

LEMMA IgnoreStep ==
  ASSUME IInv, Ignore
  PROVE  IInv'
<1>1. pc = "read" /\ Solving /\ heads = CurrentHeads
  BY Busy DEF Ignore, Solving
<1>2. /\ models_counter' = models_counter + 1
      /\ UNCHANGED <<pc, models_sent, eval_in, eval_out, eval_pc, heads>>
      /\ UNCHANGED <<upto, input, current_step, k1, k2>>
  BY DEF Ignore, data, progress
<1>3. Size \in Nat /\ Skip \in Nat /\ k1 \in Nat /\ k2 \in Nat
      /\ models_counter \in Nat /\ models_sent \in Nat /\ Len(eval_out) \in Nat
  BY <1>1, Place, ZeroRange DEF IInv, EvalInv
<1>4. ~(k1 = 0 /\ k2 = 0) /\ models_counter < k1 - 1 /\ models_counter < Size
  BY <1>1, AtHeads DEF Ignore
<1>5. 0 < k1 /\ k1 <= k2 /\ Skip = k1 - 1
  BY <1>4, ZeroRange DEF IInv
<1>6. Sent(Len(eval_out))
  BY <1>1 DEF Solving
<1>7. Sent(Len(eval_out))'
  BY <1>2, <1>3, <1>4, <1>5, <1>6, SamePlace DEF Sent
<1>8. Solving'
  BY <1>1, <1>2, <1>7, SamePlace DEF Solving
<1>9. EvalInv'
  BY <1>1, <1>2, <1>3, <1>8 DEF IInv, EvalInv, EvaluatorDrained
<1> QED BY <1>9, EvaluatorFrame DEF Ignore, IInv

LEMMA TestAndSendStep ==
  ASSUME IInv, test_and_send
  PROVE  IInv'
<1> DEFINE L == Len(eval_out)
           m == Here + models_counter + 1
<1>1. pc = "read" /\ Solving /\ heads = CurrentHeads
  BY Busy DEF test_and_send, Solving
<1>2. /\ models_counter' = models_counter + 1
      /\ UNCHANGED <<pc, models_sent, eval_in, eval_pc, heads>>
      /\ UNCHANGED <<upto, input, current_step, k1, k2>>
      /\ eval_out' = Append(eval_out, m)
  BY <1>1, AtHeads DEF test_and_send, data, progress
<1>3. Here \in Nat /\ Size \in Nat /\ Skip \in Nat /\ k1 \in Nat /\ k2 \in Nat
      /\ models_counter \in Nat /\ models_sent \in Nat /\ L \in Nat
      /\ eval_out \in Seq(Nat)
  BY <1>1, Place, ZeroRange DEF IInv, EvalInv
<1>4. /\ (k1 = 0 /\ k2 = 0) \/ (k1 - 1 <= models_counter /\ models_counter < k2)
      /\ models_counter < Size
  BY <1>1, AtHeads DEF test_and_send
<1>5. /\ Skip <= models_counter
      /\ k2 > 0 => models_counter + 1 <= k2
  BY <1>3, <1>4 DEF Skip
<1>6. Sent(L)
  BY <1>1 DEF Solving
<1>7. models_sent + L = models_counter - Skip
  BY <1>3, <1>5, <1>6 DEF Sent
<1>8. /\ eval_out' \in Seq(Nat) /\ Len(eval_out') = L + 1
      /\ \A j \in 1 .. L : eval_out'[j] = eval_out[j]
      /\ eval_out'[L + 1] = m
  BY <1>2, <1>3
<1>9. Sent(Len(eval_out))'
  <2>1. /\ models_sent' + (L + 1) = models_counter' - Skip
        /\ models_counter' > Skip /\ models_counter' <= Size
        /\ k2' > 0 => models_counter' <= k2'
    BY <1>2, <1>3, <1>4, <1>5, <1>7
  <2>2. ASSUME NEW j \in 1 .. L + 1
        PROVE  eval_out'[j] = Here + Skip + models_sent + j
    <3>1. CASE j \in 1 .. L
      BY <1>6, <1>8, <3>1 DEF Sent
    <3>2. CASE j = L + 1
      BY <1>3, <1>7, <1>8, <3>2
    <3> QED BY <1>3, <3>1, <3>2
  <2> QED BY <1>2, <1>3, <1>8, <2>1, <2>2, SamePlace DEF Sent
<1>10. Solving'
  BY <1>1, <1>2, <1>9, SamePlace DEF Solving
<1>11. EvalInv'
  BY <1>1, <1>2, <1>3, <1>8, <1>10 DEF IInv, EvalInv, EvaluatorDrained
<1> QED BY <1>11, EvaluatorFrame DEF test_and_send, IInv

LEMMA EndOfModelsStep ==
  ASSUME IInv, EndOfModels
  PROVE  IInv'
<1> DEFINE L == Len(eval_out)
<1>1. pc = "read" /\ Solving /\ heads = CurrentHeads
  BY Busy DEF EndOfModels, Solving
<1>2. /\ eval_out' = Append(eval_out, 0)
      /\ eval_pc' = "idle"
      /\ UNCHANGED <<pc, models_sent, models_counter, eval_in, heads>>
      /\ UNCHANGED <<upto, input, current_step, k1, k2>>
  BY DEF EndOfModels, data, progress, NULL
<1>3. Size \in Nat /\ Skip \in Nat /\ k1 \in Nat /\ k2 \in Nat
      /\ models_counter \in Nat /\ models_sent \in Nat /\ L \in Nat
      /\ eval_out \in Seq(Nat)
  BY <1>1, Place, ZeroRange DEF IInv, EvalInv
<1>4. \/ ~(models_counter < Size)
      \/ ~(k1 = 0 /\ k2 = 0) /\ models_counter >= k2
  BY <1>1, AtHeads DEF EndOfModels
<1>5. (k1 = 0 /\ k2 = 0) \/ k2 > 0
  BY <1>3, ZeroRange DEF IInv
<1>6. Sent(L)
  BY <1>1 DEF Solving
<1>7. models_counter = Size \/ (k2 > 0 /\ models_counter = k2)
  BY <1>3, <1>4, <1>5, <1>6 DEF Sent
<1>8. /\ eval_out' \in Seq(Nat) /\ Len(eval_out') = L + 1 /\ eval_out' # <<>>
      /\ \A j \in 1 .. L : eval_out'[j] = eval_out[j]
      /\ eval_out'[L + 1] = 0
  BY <1>2, <1>3
<1>9. Sent(Len(eval_out) - 1)'
  <2>1. Len(eval_out') - 1 = L
    BY <1>3, <1>8
  <2> QED BY <1>2, <1>6, <1>8, <2>1, SamePlace DEF Sent
<1>10. Solved'
  BY <1>1, <1>2, <1>7, <1>8, <1>9, SamePlace DEF Solving, Solved, NULL
<1>11. EvalInv'
  BY <1>1, <1>2, <1>3, <1>8, <1>10 DEF IInv, EvalInv, EvaluatorDrained
<1> QED BY <1>11, EvaluatorFrame DEF EndOfModels, IInv

-----------------------------------------------------------------------------
(* The context between two guesses                                         *)

LEMMA InitIInv == Init => IInv
<1> SUFFICES ASSUME Init PROVE IInv
  OBVIOUS
<1> USE DEF Init
<1>1. DataInv
  <2>1. upto \in Numberings(0, {})
    <3>1. upto \in Chained
      BY MaxTotalAssumption, MaxInputsAssumption, GAssumption DEF Chained, Inputs
    <3>2. \A i \in Inputs : upto[i][0] = upto[i][G] /\ upto[i][1] = upto[i][G]
      BY GAssumption
    <3>3. upto \in Numbering
      BY <3>1, NumberingIsChained, Zenon
    <3> QED BY <3>2, <3>3, Zenon DEF Numberings
  <2>2. upto \in Numberings(inputs, guessing)
    BY <2>1, Zenon
  <2>3. inputs \in 0 .. MaxInputs /\ requests \in 0 .. MaxRequests
    BY MaxInputsAssumption, MaxRequestsAssumption
  <2>4. jumped \in BOOLEAN /\ range \in Nat \X Nat /\ guessing \subseteq 1 .. inputs
    OBVIOUS
  <2> QED BY <2>2, <2>3, <2>4 DEF DataInv
<1>2. StepInv
  BY GAssumption DEF StepInv
<1>3. LeftInv
  BY DEF LeftInv
<1>4. EvalInv
  BY MaxInputsAssumption DEF EvalInv, EvaluatorDrained, Heads, Inputs
<1>5. RangeInv
  BY DEF RangeInv, Exact, Active
<1>6. OrderInv
  BY DEF OrderInv, AnswerBounded, Active
<1> QED BY <1>1, <1>2, <1>3, <1>4, <1>5, <1>6 DEF IInv

LEMMA IdleFrame ==
  ASSUME IInv, pc # "read", pc' # "read",
         UNCHANGED <<eval_in, eval_out, evaluator, models_sent>>
  PROVE  EvalInv'
BY DEF IInv, EvalInv, EvaluatorDrained, evaluator

LEMMA DoneType ==
  ASSUME DataInv, StepInv, Active
  PROVE  Done \in Nat
<1>1. CASE pc = "join"
  <2>1. G \in 0 .. G
    BY GAssumption
  <2>2. input # 0 => input \in Inputs
    BY MaxInputsAssumption DEF DataInv, Inputs
  <2> QED BY <1>1, <2>1, <2>2, Numbered DEF Done
<1>2. CASE pc = "search"
  BY <1>2, Place, Numbered DEF Done
<1>3. CASE pc \in {"compute", "read"}
  BY <1>3, Place DEF Done
<1> QED BY <1>1, <1>2, <1>3 DEF Active

\* Between two guesses the context only moves forward, and without the cache
\* it does not even skip a model.
LEMMA Forward ==
  ASSUME IInv, Active, Active', pc # "read",
         pc' = "read" => models_sent' = 0,
         UNCHANGED <<range, requests, k1, k2, answer>>,
         Done \in Nat, Done' \in Nat, Done <= Done',
         ~jumped' => ~jumped /\ Done' = Done
  PROVE  RangeInv' /\ OrderInv'
<1>1. Current = 0 /\ Current' = 0 /\ pc' # "idle" /\ First' = First
  BY DEF Current, Active, First
<1>2. RangeInv'
  <2> SUFFICES ASSUME ~jumped'
               PROVE  /\ Exact'
                      /\ Len(answer') = Above(Done', First') + Current'
                      /\ range' # <<0, 0>> =>
                           /\ Done' < range'[2]
                           /\ k2' = range'[2] - Done'
                           /\ k1' = IF Done' < range'[1] THEN range'[1] - Done' ELSE 1
    BY DEF RangeInv, Above
  <2>1. ~jumped /\ Done' = Done
    OBVIOUS
  <2>2. Exact'
    BY <1>1, <2>1 DEF IInv, RangeInv, Exact
  <2> QED BY <1>1, <2>1, <2>2 DEF IInv, RangeInv
<1>3. OrderInv'
  <2>1. AnswerBounded' /\ answer' \in Seq(Nat)
    BY DEF IInv, OrderInv, AnswerBounded
  <2>2. ASSUME NEW j \in 1 .. Len(answer')
        PROVE  answer'[j] <= Done' + (IF pc' = "read" /\ models_sent' > 0
                                        THEN Skip' + models_sent' ELSE 0)
    <3>1. answer[j] <= Done + 0
      BY DEF IInv, OrderInv
    <3>2. answer[j] \in Nat
      BY DEF IInv, OrderInv
    <3>3. ~(pc' = "read" /\ models_sent' > 0)
      OBVIOUS
    <3> QED BY <3>1, <3>2, <3>3
  <2>3. range # <<0, 0>> =>
          /\ Current <= k2 - k1 + 1
          /\ Len(answer) - Current + k2 - k1 + 1 <= range[2] - range[1] + 1
    BY DEF IInv, OrderInv
  <2> QED BY <1>1, <2>1, <2>2, <2>3 DEF OrderInv
<1> QED BY <1>2, <1>3

LEMMA StartStep ==
  ASSUME IInv, NEW ins \in 0 .. MaxInputs, NEW gs \in SUBSET (1 .. ins),
         StartRequest(ins, gs)
  PROVE  IInv'
<1>1. /\ pc = "idle" /\ pc' = "join" /\ ~jumped' /\ jumped' \in BOOLEAN
      /\ input' = 0 /\ answer' = <<>> /\ inputs' = ins /\ guessing' = gs
      /\ upto' \in Numberings(ins, gs) /\ requests' = requests + 1
      /\ requests < MaxRequests
      /\ range' \in Ranges /\ k1' = range'[1] /\ k2' = range'[2]
      /\ UNCHANGED <<role, current_step, beg, end, models_sent, mark, eval_in,
                     eval_out, evaluator>>
  BY DEF StartRequest, search
<1>2. /\ range' \in Nat \X Nat
      /\ range' = <<0, 0>> \/ (0 < range'[1] /\ range'[1] <= range'[2])
      /\ range'[1] \in Nat /\ range'[2] \in Nat
  BY <1>1, RangesAssumption
<1>3. DataInv'
  <2>1. requests' \in 0 .. MaxRequests
    BY <1>1, MaxRequestsAssumption DEF IInv, DataInv
  <2>2. input' \in 0 .. inputs'
    BY <1>1
  <2> QED BY <1>1, <1>2, <2>1, <2>2 DEF IInv, DataInv
<1>4. StepInv'
  BY <1>1 DEF IInv, StepInv
<1>5. LeftInv'
  BY <1>1, <1>2 DEF LeftInv
<1>6. EvalInv'
  BY <1>1, IdleFrame
<1>7. Done' = 0 /\ Current' = 0 /\ Len(answer') = 0
  BY <1>1 DEF Done, Current
<1>8. RangeInv'
  <2>1. First' \in Nat
    BY <1>2 DEF First
  <2>2. Exact'
    BY <1>1, <1>7 DEF Exact
  <2>3. Above(Done', First') = 0
    <3>1. \A x \in Nat : Above(0, x) = 0
      BY DEF Above
    <3> QED BY <1>7, <2>1, <3>1, Zenon
  <2> QED BY <1>1, <1>2, <1>7, <2>2, <2>3 DEF RangeInv
<1>9. OrderInv'
  BY <1>1, <1>2, <1>7 DEF OrderInv, AnswerBounded
<1> QED BY <1>3, <1>4, <1>5, <1>6, <1>8, <1>9 DEF IInv

\* find_position has returned the step to begin with.
LEMMA PositionStep ==
  ASSUME IInv, NEW step \in 0 .. G - 1, Position(step),
         pc \in {"join", "search"}, input' \in 1 .. inputs,
         input' \notin guessing => step = 0,
         Done = upto[input'][0], beg' \in Nat, end' \in Nat,
         UNCHANGED <<data, k1, k2, models_sent, mark, eval_in, eval_out,
                     evaluator, answer>>
  PROVE  IInv'
<1>1. /\ current_step' = step /\ pc' = "compute"
      /\ jumped' = (jumped \/ step # 0)
      /\ UNCHANGED <<role, inputs, guessing, upto, range, requests>>
  BY DEF Position, data
<1>2. input' \in Inputs /\ input' \in 0 .. inputs' /\ input' > 0
  BY <1>1, MaxInputsAssumption DEF IInv, DataInv, Inputs
<1>3. jumped' \in BOOLEAN
  BY <1>1 DEF IInv, DataInv
<1>4. DataInv'
  BY <1>1, <1>2, <1>3 DEF IInv, DataInv
<1>5. StepInv'
  BY <1>1 DEF IInv, StepInv
<1>6. LeftInv'
  BY <1>1 DEF IInv, LeftInv
<1>7. EvalInv'
  BY <1>1, IdleFrame
<1>8. /\ Done \in Nat /\ Done' \in Nat /\ Done <= Done'
      /\ step = 0 => Done' = Done
  <2>1. step \in 0 .. G /\ 0 \in 0 .. G /\ 0 <= step
    BY GAssumption
  <2>2. Done' = upto[input'][step]
    BY <1>1 DEF Done, Here
  <2> QED BY <1>2, <2>1, <2>2, Numbered DEF IInv
<1>9. ~jumped' => ~jumped /\ Done' = Done
  BY <1>1, <1>8
<1>10. Active /\ Active' /\ pc # "read" /\ pc' # "read"
  BY <1>1 DEF Active
<1>11. RangeInv' /\ OrderInv'
  BY <1>1, <1>8, <1>9, <1>10, Forward
<1> QED BY <1>4, <1>5, <1>6, <1>7, <1>11 DEF IInv

\* find_position goes on searching.
LEMMA SearchStep ==
  ASSUME IInv, pc \in {"join", "search"}, pc' = "search",
         input' \in guessing, Done = upto[input'][0],
         beg' \in Nat, end' \in Nat, beg' < end', end' <= Len(mark),
         UNCHANGED <<data, k1, k2, current_step, jumped, models_sent, mark,
                     eval_in, eval_out, evaluator, answer>>
  PROVE  IInv'
<1>1. UNCHANGED <<role, inputs, guessing, upto, range, requests>>
  BY DEF data
<1>2. input' \in Inputs /\ input' \in 0 .. inputs' /\ input' > 0
  BY <1>1, MaxInputsAssumption DEF IInv, DataInv, Inputs
<1>3. DataInv'
  BY <1>1, <1>2 DEF IInv, DataInv
<1>4. StepInv'
  BY <1>1 DEF IInv, StepInv
<1>5. LeftInv'
  BY <1>1 DEF IInv, LeftInv
<1>6. EvalInv'
  BY IdleFrame
<1>7. Done' = Done
  BY <1>1 DEF Done
<1>8. Active /\ Active' /\ pc # "read" /\ pc' # "read"
  BY DEF Active
<1>9. Done \in Nat
  BY <1>8, DoneType DEF IInv
<1>10. RangeInv' /\ OrderInv'
  BY <1>1, <1>7, <1>8, <1>9, Forward
<1> QED BY <1>3, <1>4, <1>5, <1>6, <1>10 DEF IInv

LEMMA NextInputStep ==
  ASSUME IInv, NextInput
  PROVE  IInv'
<1>1. /\ pc = "join" /\ input < inputs /\ input' = input + 1
      /\ UNCHANGED <<data, k1, k2, models_sent, mark, eval_in, eval_out,
                     evaluator, answer>>
  BY DEF NextInput
<1>2. /\ input \in Nat /\ inputs \in Nat /\ inputs <= MaxInputs
      /\ input' \in 1 .. inputs /\ input' \in Inputs
      /\ input # 0 => input \in Inputs
  BY <1>1, MaxInputsAssumption DEF IInv, DataInv, Inputs
<1>3. Done = upto[input'][0]
  <2>1. CASE input = 0
    BY <1>1, <2>1, Numbered DEF Done, IInv
  <2>2. CASE input # 0
    BY <1>1, <1>2, <2>2, Numbered DEF Done, IInv
  <2> QED BY <2>1, <2>2
<1>4. beg \in Nat /\ end \in Nat /\ mark \in Seq(Nat) /\ 0 \in 0 .. G - 1
  BY GAssumption DEF IInv, StepInv
<1>5. CASE input' \in guessing /\ mark # <<>>
  <2>1. /\ pc' = "search" /\ beg' = 0 /\ end' = Len(mark)
        /\ UNCHANGED <<current_step, jumped>>
    BY <1>5 DEF NextInput
  <2>2. Len(mark) \in Nat /\ 0 < Len(mark)
    BY <1>4, <1>5
  <2> QED BY <1>1, <1>3, <1>5, <2>1, <2>2, SearchStep
<1>6. CASE ~(input' \in guessing /\ mark # <<>>)
  <2>1. Position(0) /\ beg' = beg /\ end' = end
    BY <1>6 DEF NextInput, search
  <2> QED BY <1>1, <1>2, <1>3, <1>4, <2>1, PositionStep
<1> QED BY <1>5, <1>6

LEMMA FindPositionStep ==
  ASSUME IInv, find_position
  PROVE  IInv'
<1> DEFINE mid == (beg + end) \div 2
<1>1. /\ pc = "search" /\ beg + 1 < end
      /\ UNCHANGED <<data, k1, k2, input, models_sent, mark, eval_in, eval_out,
                     evaluator, answer>>
  BY DEF find_position
<1>2. /\ beg \in Nat /\ end \in Nat /\ end <= Len(mark) /\ Len(mark) < G
      /\ input \in guessing /\ Len(mark) \in Nat /\ input \in 1 .. inputs
  BY <1>1, GAssumption DEF IInv, DataInv, StepInv
<1>3. mid \in Nat /\ beg < mid /\ mid < end
  BY <1>1, <1>2
<1>4. Done = upto[input'][0]
  BY <1>1 DEF Done
<1> HIDE DEF mid
<1>5. CASE /\ UNCHANGED <<current_step, jumped, pc>>
           /\ (beg' = mid /\ end' = end) \/ (beg' = beg /\ end' = mid)
  <2>1. /\ beg' \in Nat /\ end' \in Nat /\ beg' < end' /\ end' <= Len(mark)
    BY <1>2, <1>3, <1>5
  <2> QED BY <1>1, <1>2, <1>4, <1>5, <2>1, SearchStep
<1>6. CASE Position(mid) /\ UNCHANGED <<beg, end>>
  <2>1. mid \in 0 .. G - 1
    BY <1>2, <1>3, GAssumption
  <2> QED BY <1>1, <1>2, <1>4, <1>6, <2>1, PositionStep
<1> QED BY <1>5, <1>6 DEF find_position, search, mid

LEMMA PositionFoundStep ==
  ASSUME IInv, PositionFound
  PROVE  IInv'
<1>1. /\ pc = "search"
      /\ UNCHANGED <<data, k1, k2, input, beg, end, models_sent, mark, eval_in,
                     eval_out, evaluator, answer>>
  BY DEF PositionFound, search
<1>2. /\ beg \in Nat /\ end \in Nat /\ beg < end /\ end <= Len(mark)
      /\ Len(mark) \in Nat /\ Len(mark) < G
      /\ input \in guessing /\ input \in 1 .. inputs
  BY <1>1 DEF IInv, DataInv, StepInv
<1>3. Done = upto[input'][0]
  BY <1>1 DEF Done
<1>4. PICK step \in {beg, beg + 1} : Position(step)
  BY DEF PositionFound
<1>5. step \in 0 .. G - 1
  BY <1>2, <1>4, GAssumption
<1> QED BY <1>1, <1>2, <1>3, <1>4, <1>5, PositionStep

LEMMA NoInputStep ==
  ASSUME IInv, NoInput
  PROVE  IInv'
<1>1. /\ pc = "join" /\ input = inputs /\ pc' = "idle"
      /\ UNCHANGED <<role, inputs, guessing, upto, range, requests, k1, k2, input,
                     current_step, beg, end, mark, jumped, models_sent, eval_in,
                     eval_out, evaluator, answer>>
  BY DEF NoInput, data, progress, search
<1>2. DataInv' /\ StepInv' /\ LeftInv'
  BY <1>1 DEF IInv, DataInv, StepInv, LeftInv
<1>3. EvalInv'
  BY <1>1, IdleFrame
<1>4. OrderInv'
  BY <1>1 DEF IInv, OrderInv, AnswerBounded, Active
<1>5. RangeInv'
  <2> SUFFICES ASSUME ~jumped PROVE Exact'
    BY <1>1 DEF RangeInv, Active
  <2>1. Done = Total /\ Total' = Total /\ First' = First /\ Last' = Last
    BY <1>1 DEF Done, Total, First, Last
  <2>2. Total \in Nat /\ First \in Nat /\ range[1] \in Nat /\ range[2] \in Nat
    BY <1>1, <2>1, DoneType, ZeroRange DEF IInv, Active
  <2>3. /\ \A j \in 1 .. Len(answer) : answer[j] = First + j
        /\ Len(answer) = Above(Total, First) + 0
        /\ range # <<0, 0>> => Total < range[2]
    BY <1>1, <2>1 DEF IInv, RangeInv, Exact, Active, Current
  <2>4. Last = Total
    BY <2>2, <2>3 DEF Last
  <2>5. Len(answer) = IF Last > First THEN Last - First ELSE 0
    BY <2>2, <2>3, <2>4 DEF Above
  <2> QED BY <1>1, <2>1, <2>3, <2>5 DEF Exact
<1> QED BY <1>2, <1>3, <1>4, <1>5 DEF IInv

LEMMA ComputeStep ==
  ASSUME IInv, compute
  PROVE  IInv'
<1>1. /\ pc = "compute" /\ pc' = "read" /\ models_sent' = 0
      /\ eval_in' = Append(eval_in, CurrentHeads)
      /\ UNCHANGED <<role, inputs, guessing, upto, range, requests, k1, k2, input,
                     current_step, beg, end, mark, jumped, eval_out,
                     eval_pc, heads, models_counter, answer>>
  BY DEF compute, data, progress, search, evaluator, CurrentHeads
<1>2. DataInv' /\ StepInv' /\ LeftInv'
  BY <1>1 DEF IInv, DataInv, StepInv, LeftInv
<1>3. /\ eval_in = <<>> /\ eval_out = <<>> /\ eval_pc = "idle"
  BY <1>1 DEF IInv, EvalInv, EvaluatorDrained
<1>4. CurrentHeads \in Heads
  <2>1. input \in Inputs /\ current_step \in 0 .. G
    BY <1>1, Place DEF IInv
  <2>2. k1 \in Nat /\ k2 \in Nat /\ current_step \in Nat
    BY <2>1, GAssumption DEF IInv, LeftInv
  <2> QED BY <2>1, <2>2 DEF Heads, CurrentHeads
<1>5. eval_in' = <<CurrentHeads>> /\ eval_in' \in Seq(Heads)
  BY <1>1, <1>3, <1>4
<1>6. Waiting'
  BY <1>1, <1>3, <1>5, SamePlace DEF Waiting
<1>7. EvalInv'
  BY <1>1, <1>3, <1>5, <1>6 DEF IInv, EvalInv, EvaluatorDrained
<1>8. Done' = Done /\ Active /\ Active' /\ Done \in Nat
  BY <1>1, DoneType DEF Done, Here, Active, IInv
<1>9. RangeInv' /\ OrderInv'
  BY <1>1, <1>8, Forward
<1> QED BY <1>2, <1>7, <1>9 DEF IInv

-----------------------------------------------------------------------------
(* The context reads                                                       *)

LEMMA TailFacts ==
  ASSUME NEW S, NEW s \in Seq(S), s # <<>>
  PROVE  /\ Len(s) \in Nat /\ Len(s) > 0
         /\ Head(s) = s[1]
         /\ Tail(s) \in Seq(S) /\ Len(Tail(s)) = Len(s) - 1
         /\ \A j \in 1 .. Len(s) - 1 : Tail(s)[j] = s[j + 1]
OBVIOUS

\* The models to skip are the ones between here and the first one wanted.
LEMMA SkipAbove ==
  \A h, r \in Nat :
    0 < r => h + ((IF h < r THEN r - h ELSE 1) - 1) = (r - 1) + Above(h, r - 1)
BY DEF Above

LEMMA ReadStep ==
  ASSUME IInv, read_and_send
  PROVE  IInv'
<1> DEFINE m == Here + Skip + models_sent + 1
           L == Len(eval_out)
<1>1. /\ pc = "read" /\ pc' = "read" /\ eval_out # <<>> /\ Head(eval_out) # 0
      /\ eval_out' = Tail(eval_out)
      /\ answer' = Append(answer, Head(eval_out))
      /\ models_sent' = models_sent + 1
      /\ UNCHANGED <<role, inputs, guessing, upto, range, requests, k1, k2, input,
                     current_step, beg, end, mark, jumped, eval_in,
                     eval_pc, heads, models_counter>>
  BY DEF read_and_send, data, progress, search, evaluator, NULL
<1>2. DataInv' /\ StepInv' /\ LeftInv'
  BY <1>1 DEF IInv, DataInv, StepInv, LeftInv
<1>3. /\ Here \in Nat /\ Size \in Nat /\ Skip \in Nat /\ k1 \in Nat /\ k2 \in Nat
      /\ models_counter \in Nat /\ models_sent \in Nat
      /\ eval_out \in Seq(Nat) /\ answer \in Seq(Nat)
  BY <1>1, Place, ZeroRange DEF IInv, EvalInv, OrderInv
<1>4. /\ L \in Nat /\ L > 0 /\ Head(eval_out) = eval_out[1]
      /\ eval_out' \in Seq(Nat) /\ Len(eval_out') = L - 1
      /\ \A j \in 1 .. L - 1 : eval_out'[j] = eval_out[j + 1]
  BY <1>1, <1>3, TailFacts
<1>5. Solving \/ Solved
  BY <1>1 DEF IInv, EvalInv, Waiting
<1>6. PICK n \in Nat : /\ Sent(n) /\ n > 0 /\ n <= L
                       /\ (Solving /\ n = L) \/ (Solved /\ n = L - 1)
  <2>1. CASE Solving
    BY <1>4, <2>1 DEF Solving
  <2>2. CASE Solved
    <3>1. eval_out[L] = 0 /\ Sent(L - 1)
      BY <2>2 DEF Solved, NULL
    <3>2. L # 1
      BY <1>1, <1>4, <3>1
    <3>3. L - 1 \in Nat /\ L - 1 > 0 /\ L - 1 <= L
      BY <1>4, <3>2
    <3> QED BY <2>2, <3>1, <3>3
  <2> QED BY <1>5, <2>1, <2>2
<1>7. Head(eval_out) = m
  BY <1>3, <1>4, <1>6 DEF Sent
<1>8. Sent(n - 1)'
  <2>1. models_sent' + (n - 1) = models_sent + n
    BY <1>1, <1>3
  <2>2. ASSUME NEW j \in 1 .. n - 1
        PROVE  eval_out'[j] = Here + Skip + models_sent' + j
    <3>1. j + 1 \in 1 .. n /\ j \in 1 .. L - 1
      BY <1>4, <1>6
    <3>2. eval_out[j + 1] = Here + Skip + models_sent + (j + 1)
      BY <1>6, <3>1 DEF Sent
    <3>3. Here + Skip + models_sent + (j + 1) = Here + Skip + (models_sent + 1) + j
      BY <1>3
    <3> QED BY <1>1, <1>4, <3>1, <3>2, <3>3
  <2> QED BY <1>1, <1>6, <2>1, <2>2, SamePlace DEF Sent
<1>9. Solving' \/ Solved'
  <2>1. CASE Solving /\ n = L
    BY <1>1, <1>4, <1>8, <2>1, SamePlace DEF Solving
  <2>2. CASE Solved /\ n = L - 1
    <3>1. /\ L - 1 \in 1 .. L - 1 /\ Len(eval_out') = L - 1 /\ eval_out' # <<>>
      BY <1>4, <1>6, <2>2
    <3>2. eval_out'[L - 1] = 0
      BY <1>4, <2>2, <3>1 DEF Solved, NULL
    <3> QED BY <1>1, <1>8, <2>2, <3>1, <3>2, SamePlace DEF Solved, NULL
  <2> QED BY <1>6, <2>1, <2>2
<1>10. EvalInv'
  BY <1>1, <1>3, <1>4, <1>9 DEF IInv, EvalInv, EvaluatorDrained
<1>11. /\ models_sent + 1 <= models_counter - Skip
       /\ k2 > 0 => models_counter <= k2
  BY <1>3, <1>6 DEF Sent
<1>12. /\ answer' \in Seq(Nat) /\ Len(answer') = Len(answer) + 1 /\ Len(answer) \in Nat
       /\ \A j \in 1 .. Len(answer) : answer'[j] = answer[j]
       /\ answer'[Len(answer) + 1] = m
  <2>1. m \in Nat
    BY <1>3
  <2> QED BY <1>1, <1>3, <1>7, <2>1
<1>13. /\ Done = Here /\ Done' = Here /\ Current = models_sent
       /\ Current' = models_sent + 1 /\ Active /\ Active' /\ First' = First
       /\ Skip' = Skip
  BY <1>1, SamePlace DEF Done, Current, Active, First, Here
<1>14. OrderInv'
  <2>1. ASSUME NEW j \in 1 .. Len(answer)
        PROVE  answer[j] <= Here + (IF models_sent > 0 THEN Skip + models_sent ELSE 0)
               /\ answer[j] \in Nat
    BY <1>1, <1>3, <1>13 DEF IInv, OrderInv
  <2>2. \A j \in 1 .. Len(answer) : answer[j] < m
    BY <1>3, <2>1
  <2>3. \A i, j \in 1 .. Len(answer') : i < j => answer'[i] < answer'[j]
    <3> SUFFICES ASSUME NEW i \in 1 .. Len(answer) + 1, NEW j \in 1 .. Len(answer) + 1,
                        i < j
                 PROVE  answer'[i] < answer'[j]
      BY <1>12
    <3>1. i \in 1 .. Len(answer) /\ answer'[i] = answer[i]
      BY <1>12
    <3>2. CASE j = Len(answer) + 1
      BY <1>12, <2>2, <3>1, <3>2
    <3>3. CASE j \in 1 .. Len(answer)
      BY <1>12, <3>1, <3>3 DEF IInv, OrderInv, AnswerBounded
    <3>4. j = Len(answer) + 1 \/ j \in 1 .. Len(answer)
      BY <1>12
    <3> QED BY <3>2, <3>3, <3>4
  <2>4. range # <<0, 0>> =>
          /\ models_sent + 1 <= k2 - k1 + 1
          /\ Len(answer) + 1 - (models_sent + 1) + k2 - k1 + 1 <= range[2] - range[1] + 1
          /\ Len(answer) + 1 <= range[2] - range[1] + 1
    <3> SUFFICES ASSUME range # <<0, 0>>
                 PROVE  /\ models_sent + 1 <= k2 - k1 + 1
                        /\ Len(answer) + 1 - (models_sent + 1) + k2 - k1 + 1
                             <= range[2] - range[1] + 1
                        /\ Len(answer) + 1 <= range[2] - range[1] + 1
      OBVIOUS
    <3>1. 0 < k1 /\ k1 <= k2 /\ Skip = k1 - 1 /\ range[1] \in Nat /\ range[2] \in Nat
      BY ZeroRange DEF IInv
    <3>2. Len(answer) - models_sent + k2 - k1 + 1 <= range[2] - range[1] + 1
      BY <1>13 DEF IInv, OrderInv
    <3> QED BY <1>3, <1>11, <1>12, <3>1, <3>2
  <2>5. ASSUME NEW j \in 1 .. Len(answer')
        PROVE  answer'[j] <= Here + Skip + models_sent'
    <3>1. j = Len(answer) + 1 \/ j \in 1 .. Len(answer)
      BY <1>12
    <3>2. answer'[j] <= m
      BY <1>3, <1>12, <2>1, <2>2, <3>1
    <3> QED BY <1>1, <1>3, <1>12, <3>2
  <2>6. AnswerBounded'
    BY <1>1, <1>12, <2>3, <2>4 DEF AnswerBounded
  <2>7. \A j \in 1 .. Len(answer') :
          answer'[j] <= Done' + (IF pc' = "read" /\ models_sent' > 0
                                   THEN Skip' + models_sent' ELSE 0)
    <3>1. models_sent' > 0 /\ Here + Skip + models_sent' = Here + (Skip + models_sent')
      BY <1>1, <1>3
    <3> QED BY <1>1, <1>13, <2>5, <3>1
  <2>8. range' # <<0, 0>> =>
          /\ Current' <= k2' - k1' + 1
          /\ Len(answer') - Current' + k2' - k1' + 1 <= range'[2] - range'[1] + 1
    BY <1>1, <1>12, <1>13, <2>4
  <2> QED BY <1>12, <2>6, <2>7, <2>8 DEF OrderInv
<1>15. RangeInv'
  <2> SUFFICES ASSUME ~jumped PROVE RangeInv'
    BY <1>1 DEF RangeInv
  <2>1. /\ \A j \in 1 .. Len(answer) : answer[j] = First + j
        /\ Len(answer) = Above(Here, First) + models_sent
        /\ range # <<0, 0>> =>
             /\ Here < range[2] /\ k2 = range[2] - Here
             /\ k1 = IF Here < range[1] THEN range[1] - Here ELSE 1
    BY <1>13 DEF IInv, RangeInv, Exact
  <2>2. Here + Skip = First + Above(Here, First)
    <3>1. CASE range = <<0, 0>>
      BY <1>3, <3>1, ZeroRange DEF IInv, Above
    <3>2. CASE range # <<0, 0>>
      <4>1. /\ range[1] \in Nat /\ 0 < range[1] /\ First = range[1] - 1
            /\ 0 < k1 /\ k1 <= k2 /\ Skip = k1 - 1
        BY <1>3, <3>2, ZeroRange DEF IInv
      <4>2. k1 = IF Here < range[1] THEN range[1] - Here ELSE 1
        BY <2>1, <3>2
      <4>3. Here + (k1 - 1) = (range[1] - 1) + Above(Here, range[1] - 1)
        BY <1>3, <4>1, <4>2, SkipAbove
      <4> QED BY <4>1, <4>3
    <3> QED BY <3>1, <3>2
  <2>3. First \in Nat /\ Above(Here, First) \in Nat
    BY <1>3, ZeroRange DEF IInv, Above
  <2>4. m = First + (Len(answer) + 1)
    <3> DEFINE a == Above(Here, First)
    <3>1. a \in Nat /\ Here + Skip = First + a /\ Len(answer) = a + models_sent
      BY <2>1, <2>2, <2>3
    <3> HIDE DEF a
    <3> QED BY <1>3, <2>3, <3>1
  <2>5. \A j \in 1 .. Len(answer') : answer'[j] = First + j
    BY <1>12, <2>1, <2>4
  <2>6. Exact'
    BY <1>1, <1>13, <2>5 DEF Exact
  <2>7. Len(answer') = Above(Here, First) + (models_sent + 1)
    BY <1>3, <1>12, <2>1, <2>3
  <2> QED BY <1>1, <1>13, <2>1, <2>6, <2>7 DEF RangeInv
<1> QED BY <1>2, <1>10, <1>14, <1>15 DEF IInv

-----------------------------------------------------------------------------
(* The end of a guess                                                      *)

\* An answer of l models, s of them from this guess, leaves room for what is
\* left of the range after it.
LEMMA CountLeft ==
  ASSUME NEW l \in Nat, NEW s \in Nat, NEW a \in Nat, NEW b \in Nat,
         NEW aa \in Nat, NEW bb \in Nat, NEW r1 \in Nat, NEW r2 \in Nat,
         l - s + b - a + 1 <= r2 - r1 + 1, bb - aa + s <= b - a, aa <= bb
  PROVE  /\ 0 <= bb - aa + 1
         /\ l - 0 + bb - aa + 1 <= r2 - r1 + 1
OBVIOUS

\* When the marker is read, nothing is left to read and nothing to do.
LEMMA Finished ==
  ASSUME IInv, read_and_send_k1_k2
  PROVE  /\ pc = "read" /\ eval_out' = <<>> /\ eval_in = <<>> /\ eval_pc = "idle"
         /\ UNCHANGED <<role, inputs, guessing, upto, range, requests, input,
                        beg, end, jumped, models_sent, eval_in, eval_pc, heads,
                        models_counter, answer>>
         /\ models_sent = IF models_counter > Skip THEN models_counter - Skip ELSE 0
         /\ models_counter <= Size
         /\ k2 > 0 => models_counter <= k2
         /\ models_counter = Size \/ (k2 > 0 /\ models_counter = k2)
<1> DEFINE L == Len(eval_out)
<1>1. /\ pc = "read" /\ eval_out # <<>> /\ Head(eval_out) = 0
      /\ eval_out' = Tail(eval_out)
      /\ UNCHANGED <<role, inputs, guessing, upto, range, requests, input,
                     beg, end, jumped, models_sent, eval_in, eval_pc, heads,
                     models_counter, answer>>
  BY DEF read_and_send_k1_k2, data, search, evaluator, NULL
<1>2. /\ Here \in Nat /\ Skip \in Nat /\ models_sent \in Nat /\ eval_out \in Seq(Nat)
  BY <1>1, Place, ZeroRange DEF IInv, EvalInv
<1>3. L \in Nat /\ L > 0 /\ Head(eval_out) = eval_out[1]
      /\ Tail(eval_out) \in Seq(Nat) /\ Len(Tail(eval_out)) = L - 1
  BY <1>1, <1>2, TailFacts
<1>4. ASSUME NEW n \in Nat, Sent(n) PROVE n = 0
  <2> SUFFICES ASSUME n # 0 PROVE FALSE
    OBVIOUS
  <2>1. 1 \in 1 .. n
    OBVIOUS
  <2>2. eval_out[1] = Here + Skip + models_sent + 1
    BY <1>4, <2>1 DEF Sent
  <2> QED BY <1>1, <1>2, <1>3, <2>2
<1>5. ~Solving /\ ~Waiting
  BY <1>1, <1>3, <1>4 DEF Solving, Waiting
<1>6. Solved /\ Sent(L - 1)
  BY <1>1, <1>5 DEF IInv, EvalInv, Solved
<1>7. L - 1 = 0
  BY <1>3, <1>4, <1>6
<1>8. eval_out' = <<>>
  BY <1>1, <1>3, <1>7
<1>9. /\ models_sent + 0 = IF models_counter > Skip THEN models_counter - Skip ELSE 0
      /\ models_counter <= Size
      /\ k2 > 0 => models_counter <= k2
  BY <1>6, <1>7 DEF Sent
<1> QED BY <1>1, <1>2, <1>6, <1>8, <1>9 DEF Solved

LEMMA DrainedFrame ==
  ASSUME IInv, read_and_send_k1_k2, pc' # "read"
  PROVE  EvalInv'
BY Finished DEF IInv, EvalInv, EvaluatorDrained

LEMMA NextGuess ==
  ASSUME IInv, pc = "read", next_guess, UNCHANGED <<upto, input>>
  PROVE  /\ pc' \in {"compute", "join"}
         /\ current_step' \in 0 .. G - 1
         /\ pc' = "compute" => input \in guessing
         /\ Done' = Here + Size
<1>1. /\ input \in Inputs /\ input # 0 /\ 1 \in 0 .. G
      /\ Here + Size = upto[input][current_step + 1]
      /\ current_step \in 0 .. G - 1
  <2>1. /\ input \in Inputs /\ input \in Nat /\ 1 \in 0 .. G
        /\ Here + Size = upto[input][current_step + 1]
    BY Place DEF IInv
  <2>2. input # 0
    BY <2>1 DEF Inputs
  <2>3. current_step \in 0 .. G - 1
    BY DEF IInv, StepInv
  <2> QED BY <2>1, <2>2, <2>3
<1>2. CASE input \in guessing /\ current_step + 1 < G
  <2>1. current_step' = current_step + 1 /\ pc' = "compute"
    BY <1>2 DEF next_guess
  <2>2. current_step + 1 \in 0 .. G - 1
    BY <1>1, <1>2, GAssumption
  <2>3. Done' = upto[input][current_step + 1]
    BY <2>1 DEF Done, Here
  <2> QED BY <1>1, <1>2, <2>1, <2>2, <2>3
<1>3. CASE ~(input \in guessing /\ current_step + 1 < G)
  <2>1. current_step' = current_step /\ pc' = "join"
    BY <1>3 DEF next_guess
  <2>2. Done' = upto[input][G]
    BY <1>1, <2>1 DEF Done
  <2>3. upto[input][current_step + 1] = upto[input][G]
    <3>1. CASE input \notin guessing
      <4>1. current_step = 0
        BY <3>1 DEF IInv, StepInv
      <4>2. upto[input][1] = upto[input][G]
        BY <1>1, <3>1, Numbered DEF IInv
      <4> QED BY <4>1, <4>2
    <3>2. CASE ~(current_step + 1 < G)
      <4>1. current_step + 1 = G
        BY <1>1, <3>2, GAssumption
      <4> QED BY <4>1
    <3> QED BY <1>3, <3>1, <3>2
  <2> QED BY <1>1, <2>1, <2>2, <2>3
<1> QED BY <1>2, <1>3

\* The context turns to the next guess.
LEMMA GoOn ==
  ASSUME IInv, read_and_send_k1_k2, next_guess, models_counter = Size,
         mark' \in Seq(Nat), Len(mark') < G, LeftInv',
         range # <<0, 0>> => k2' - k1' + models_sent <= k2 - k1,
         ~jumped => Len(answer) = Above(Here + Size, First),
         ~jumped /\ range # <<0, 0>> =>
           /\ Here + Size < range[2]
           /\ k2' = range[2] - (Here + Size)
           /\ k1' = IF Here + Size < range[1] THEN range[1] - (Here + Size) ELSE 1
  PROVE  IInv'
<1>1. /\ pc = "read"
      /\ UNCHANGED <<role, inputs, guessing, upto, range, requests, input,
                     beg, end, jumped, models_sent, answer>>
      /\ models_sent = IF Size > Skip THEN Size - Skip ELSE 0
  BY Finished
<1>2. /\ pc' \in {"compute", "join"} /\ current_step' \in 0 .. G - 1
      /\ pc' = "compute" => input \in guessing
      /\ Done' = Here + Size
  BY <1>1, NextGuess
<1>3. DataInv'
  BY <1>1, <1>2 DEF IInv, DataInv
<1>4. StepInv'
  BY <1>1, <1>2 DEF IInv, StepInv
<1>5. EvalInv'
  BY <1>2, DrainedFrame
<1>6. /\ First' = First /\ Current' = 0 /\ Active' /\ Active
      /\ Current = models_sent /\ Done = Here
  BY <1>1, <1>2 DEF First, Current, Active, Done
<1>7. RangeInv'
  <2> SUFFICES ASSUME ~jumped PROVE RangeInv'
    BY <1>1 DEF RangeInv
  <2>1. Exact'
    BY <1>1, <1>2, <1>6 DEF IInv, RangeInv, Exact
  <2>2. Len(answer) \in Nat
    BY DEF IInv, OrderInv
  <2>3. Len(answer') = Above(Done', First') + Current'
    BY <1>1, <1>2, <1>6, <2>2
  <2> QED BY <1>1, <1>2, <2>1, <2>3 DEF RangeInv
<1>8. OrderInv'
  <2>1. /\ Here \in Nat /\ Size \in Nat /\ Skip \in Nat /\ models_sent \in Nat
        /\ k1 \in Nat /\ k2 \in Nat /\ k1' \in Nat /\ k2' \in Nat
        /\ range[1] \in Nat /\ range[2] \in Nat
        /\ range # <<0, 0>> => k1' <= k2'
        /\ answer \in Seq(Nat) /\ Len(answer) \in Nat
    <3>1. Here \in Nat /\ Size \in Nat
      BY <1>1, Place DEF IInv
    <3>2. /\ Skip \in Nat /\ k1 \in Nat /\ k2 \in Nat
          /\ range[1] \in Nat /\ range[2] \in Nat
      BY ZeroRange DEF IInv
    <3>3. models_sent \in Nat /\ answer \in Seq(Nat) /\ Len(answer) \in Nat
      BY DEF IInv, EvalInv, OrderInv
    <3>4. k1' \in Nat /\ k2' \in Nat /\ (range # <<0, 0>> => k1' <= k2')
      BY <1>1 DEF LeftInv
    <3> QED BY <3>1, <3>2, <3>3, <3>4
  <2>2. ASSUME NEW j \in 1 .. Len(answer')
        PROVE  answer'[j] <= Done' + 0
    <3>1. answer[j] <= Here + (IF models_sent > 0 THEN Skip + models_sent ELSE 0)
          /\ answer[j] \in Nat
      <4>1. j \in 1 .. Len(answer) /\ answer[j] \in Nat
        BY <1>1, <2>1
      <4>2. answer[j] <= Done + (IF pc = "read" /\ models_sent > 0
                                   THEN Skip + models_sent ELSE 0)
        BY <1>6, <4>1 DEF IInv, OrderInv
      <4> QED BY <1>1, <1>6, <4>1, <4>2
    <3>2. (IF models_sent > 0 THEN Skip + models_sent ELSE 0) <= Size
      BY <1>1, <2>1
    <3>3. answer[j] <= Here + Size
      BY <2>1, <3>1, <3>2
    <3> QED BY <1>1, <1>2, <2>1, <3>3
  <2>3. ASSUME range # <<0, 0>>
        PROVE  /\ 0 <= k2' - k1' + 1
               /\ Len(answer) - 0 + k2' - k1' + 1 <= range[2] - range[1] + 1
    <3>1. Len(answer) - models_sent + k2 - k1 + 1 <= range[2] - range[1] + 1
      BY <1>6, <2>3 DEF IInv, OrderInv
    <3>2. k2' - k1' + models_sent <= k2 - k1 /\ k1' <= k2'
      BY <2>1, <2>3
    <3> QED BY <2>1, <3>1, <3>2, CountLeft
  <2>4. AnswerBounded'
    BY <1>1 DEF IInv, OrderInv, AnswerBounded
  <2> QED BY <1>1, <1>2, <1>6, <2>1, <2>2, <2>3, <2>4 DEF OrderInv
<1> QED BY <1>3, <1>4, <1>5, <1>7, <1>8 DEF IInv

\* What update_cache leaves in the cache.
LEMMA UpdateCacheType ==
  ASSUME StepInv, NEW k \in Nat, current_step > 0, ~BackOfEmpty(current_step),
         update_cache(current_step, k)
  PROVE  mark' \in Seq(Nat) /\ Len(mark') < G
<1>1. /\ mark \in Seq(Nat) /\ Len(mark) \in Nat /\ Len(mark) < G
      /\ current_step \in Nat /\ current_step < G
  BY GAssumption DEF StepInv
<1>2. CASE current_step <= Len(mark)
  BY <1>1, <1>2 DEF update_cache
<1>3. CASE ~(current_step <= Len(mark))
  <2>1. PICK x \in Nat : mark' = Append(mark, x)
    <3>1. CASE current_step = 1
      BY <1>3, <3>1 DEF update_cache
    <3>2. CASE current_step # 1
      <4>1. mark # <<>> /\ current_step > 1
        BY <1>1, <3>2 DEF BackOfEmpty
      <4>2. mark[Len(mark)] \in Nat
        BY <1>1, <4>1
      <4>3. k + mark[Len(mark)] \in Nat
        BY <4>2
      <4> QED BY <1>3, <3>2, <4>3 DEF update_cache
    <3> QED BY <3>1, <3>2
  <2>2. Len(mark) + 1 < G
    BY <1>1, <1>3, GAssumption
  <2>3. mark' \in Seq(Nat) /\ Len(mark') = Len(mark) + 1
    BY <1>1, <2>1
  <2> QED BY <2>2, <2>3
<1> QED BY <1>2, <1>3

\* The marker ends the models of a guess: all models were asked for, none was
\* sent, some were, or all that were asked for.
LEMMA EndStep ==
  ASSUME IInv, read_and_send_k1_k2
  PROVE  IInv'
<1> DEFINE h == Here
           c == models_counter
           s == models_sent
           r1 == range[1]
           r2 == range[2]
<1>1. /\ pc = "read"
      /\ UNCHANGED <<role, inputs, guessing, upto, range, requests, input,
                     beg, end, jumped, models_sent, answer>>
      /\ s = IF c > Skip THEN c - Skip ELSE 0
      /\ c <= Size
      /\ k2 > 0 => c <= k2
      /\ c = Size \/ (k2 > 0 /\ c = k2)
  BY Finished
<1>2. /\ h \in Nat /\ Size \in Nat /\ Skip \in Nat /\ s \in Nat /\ c \in Nat
      /\ k1 \in Nat /\ k2 \in Nat /\ r1 \in Nat /\ r2 \in Nat
      /\ First \in Nat /\ mark \in Seq(Nat) /\ Len(mark) < G
  BY <1>1, Place, ZeroRange DEF IInv, EvalInv, StepInv
<1>3. ~jumped => Len(answer) = Above(h, First) + s
  BY <1>1 DEF IInv, RangeInv, Active, Done, Current
<1>4. CASE k1 = 0 /\ k2 = 0
  <2>1. next_guess /\ UNCHANGED <<k1, k2, mark>>
    BY <1>4 DEF read_and_send_k1_k2
  <2>2. range = <<0, 0>> /\ First = 0 /\ Skip = 0
    BY <1>2, <1>4, ZeroRange DEF IInv
  <2>3. c = Size /\ s = Size
    BY <1>1, <1>2, <1>4, <2>2
  <2>4. LeftInv'
    BY <1>1, <2>1 DEF IInv, LeftInv
  <2>5. Above(h + Size, 0) = h + Size /\ Above(h, 0) = h
    BY <1>2 DEF Above
  <2> QED BY <1>2, <1>3, <2>1, <2>2, <2>3, <2>4, <2>5, GoOn
<1>5. ASSUME ~(k1 = 0 /\ k2 = 0)
      PROVE  /\ NoneSent \/ SomeSent \/ AllSent
             /\ range # <<0, 0>> /\ 0 < k1 /\ k1 <= k2 /\ Skip = k1 - 1
             /\ 0 < r1 /\ r1 <= r2 /\ First = r1 - 1
             /\ ~jumped => /\ h < r2 /\ k2 = r2 - h
                           /\ k1 = IF h < r1 THEN r1 - h ELSE 1
  <2>1. range # <<0, 0>> /\ (NoneSent \/ SomeSent \/ AllSent)
    BY <1>5, ZeroRange DEF IInv, read_and_send_k1_k2
  <2>2. /\ 0 < k1 /\ k1 <= k2 /\ Skip = k1 - 1
        /\ 0 < r1 /\ r1 <= r2 /\ First = r1 - 1
    BY <1>2, <2>1, ZeroRange DEF IInv
  <2>3. ~jumped => /\ h < r2 /\ k2 = r2 - h
                   /\ k1 = IF h < r1 THEN r1 - h ELSE 1
    BY <1>1, <2>1 DEF IInv, RangeInv, Active, Done
  <2> QED BY <2>1, <2>2, <2>3
<1> HIDE DEF h, r1, r2
<1>6. CASE ~(k1 = 0 /\ k2 = 0) /\ NoneSent
  <2>1. s = 0 /\ k1' = k1 - c /\ k2' = k2 - c
    BY <1>6 DEF NoneSent
  <2>2. c <= k1 - 1 /\ c = Size
    BY <1>1, <1>2, <1>5, <1>6, <2>1
  <2>3. /\ k1' \in Nat /\ k2' \in Nat /\ 0 < k1' /\ k1' <= k2'
        /\ k2' - k1' + s <= k2 - k1
    BY <1>2, <1>5, <1>6, <2>1, <2>2
  <2>4. LeftInv'
    BY <1>1, <1>5, <1>6, <2>3 DEF LeftInv
  <2>5. CASE pc' = "crashed" /\ UNCHANGED <<mark, current_step>>
    <3>1. DataInv' /\ StepInv'
      BY <1>1, <2>5 DEF IInv, DataInv, StepInv
    <3>2. EvalInv'
      BY <2>5, DrainedFrame
    <3>3. First' = First
      BY <1>1 DEF First
    <3>4. RangeInv'
      BY <1>1, <2>5, <3>3 DEF IInv, RangeInv, Exact, Active
    <3>5. OrderInv'
      BY <1>1, <2>5 DEF IInv, OrderInv, AnswerBounded, Active
    <3> QED BY <2>4, <3>1, <3>2, <3>4, <3>5 DEF IInv
  <2>6. CASE next_guess /\ mark' \in Seq(Nat) /\ Len(mark') < G
    <3>1. ~jumped => /\ h + c < r2
                     /\ k2' = r2 - (h + c)
                     /\ k1' = IF h + c < r1 THEN r1 - (h + c) ELSE 1
                     /\ Len(answer) = Above(h + c, First)
      <4> SUFFICES ASSUME ~jumped
                   PROVE  /\ h + c < r2
                          /\ k2' = r2 - (h + c)
                          /\ k1' = IF h + c < r1 THEN r1 - (h + c) ELSE 1
                          /\ Len(answer) = Above(h + c, First)
        OBVIOUS
      <4>1. /\ h < r2 /\ k2 = r2 - h /\ k1 = (IF h < r1 THEN r1 - h ELSE 1)
            /\ 0 < r1 /\ r1 <= r2 /\ First = r1 - 1
        BY <1>5, <1>6
      <4>2. /\ h + c < r2
            /\ (r2 - h) - c = r2 - (h + c)
            /\ k1 - c = IF h + c < r1 THEN r1 - (h + c) ELSE 1
            /\ Above(h + c, r1 - 1) = Above(h, r1 - 1)
        BY <1>2, <2>2, <4>1 DEF Above
      <4>3. Above(h, r1 - 1) \in Nat
        BY <1>2, <4>1 DEF Above
      <4>4. Len(answer) = Above(h, r1 - 1)
        BY <1>3, <2>1, <4>1, <4>3
      <4> QED BY <2>1, <4>1, <4>2, <4>4
    <3> QED BY <2>2, <2>3, <2>4, <2>6, <3>1, GoOn DEF h, r1, r2
  <2>7. \/ pc' = "crashed" /\ UNCHANGED <<mark, current_step>>
        \/ next_guess /\ mark' \in Seq(Nat) /\ Len(mark') < G
    <3>1. CASE current_step > 0 /\ ~BackOfEmpty(current_step)
      <4>1. update_cache(current_step, c) /\ next_guess
        BY <1>6, <3>1 DEF NoneSent
      <4> QED BY <1>2, <3>1, <4>1, UpdateCacheType DEF IInv
    <3>2. CASE ~(current_step > 0 /\ ~BackOfEmpty(current_step))
      BY <1>2, <1>6, <3>2 DEF NoneSent
    <3> QED BY <3>1, <3>2
  <2> QED BY <2>5, <2>6, <2>7
<1>7. CASE ~(k1 = 0 /\ k2 = 0) /\ SomeSent
  <2>1. /\ 0 < s /\ s < k2 - k1 + 1 /\ k1' = 1 /\ k2' = k2 - s - k1 + 1
        /\ next_guess /\ mark' = mark
    BY <1>7 DEF SomeSent
  <2>2. s = c - (k1 - 1) /\ c = Size
    <3>1. 0 < k1 /\ k1 <= k2 /\ Skip = k1 - 1
      BY <1>5, <1>7
    <3>2. c > Skip /\ s = c - Skip
      BY <1>1, <2>1
    <3>3. c # k2
      BY <1>2, <2>1, <3>1, <3>2
    <3> QED BY <1>1, <3>1, <3>2, <3>3
  <2>3. /\ k1' \in Nat /\ k2' \in Nat /\ 0 < k1' /\ k1' <= k2'
        /\ k2' - k1' + s <= k2 - k1
    BY <1>2, <1>5, <1>7, <2>1
  <2>4. LeftInv'
    BY <1>1, <1>5, <1>7, <2>3 DEF LeftInv
  <2>5. ~jumped => /\ h + c < r2
                   /\ k2' = r2 - (h + c)
                   /\ k1' = IF h + c < r1 THEN r1 - (h + c) ELSE 1
                   /\ Len(answer) = Above(h + c, First)
    <3> SUFFICES ASSUME ~jumped
                 PROVE  /\ h + c < r2
                        /\ k2' = r2 - (h + c)
                        /\ k1' = IF h + c < r1 THEN r1 - (h + c) ELSE 1
                        /\ Len(answer) = Above(h + c, First)
      OBVIOUS
    <3>1. /\ h < r2 /\ k2 = r2 - h /\ k1 = (IF h < r1 THEN r1 - h ELSE 1)
          /\ 0 < r1 /\ r1 <= r2 /\ First = r1 - 1
      BY <1>5, <1>7
    <3>2. s < (r2 - h) - k1 + 1
      BY <2>1, <3>1
    <3>3. /\ h + c < r2
          /\ (r2 - h) - s - k1 + 1 = r2 - (h + c)
          /\ ~(h + c < r1)
          /\ Above(h + c, r1 - 1) = Above(h, r1 - 1) + s
      BY <1>2, <2>1, <2>2, <3>1, <3>2 DEF Above
    <3> QED BY <1>3, <2>1, <3>1, <3>3
  <2> QED BY <1>2, <2>1, <2>2, <2>3, <2>4, <2>5, GoOn DEF h, r1, r2
<1>8. CASE ~(k1 = 0 /\ k2 = 0) /\ AllSent
  <2>1. /\ s >= k2 - k1 + 1 /\ s > 0 /\ pc' = "idle"
        /\ UNCHANGED <<k1, k2, current_step, mark>>
    BY <1>8 DEF AllSent
  <2>2. s = c - (k1 - 1) /\ c = k2
    <3>1. 0 < k1 /\ k1 <= k2 /\ Skip = k1 - 1
      BY <1>5, <1>8
    <3>2. c > Skip /\ s = c - Skip
      BY <1>1, <2>1
    <3>3. c <= k2
      BY <1>1, <1>2, <3>1
    <3> QED BY <1>2, <2>1, <3>1, <3>2, <3>3
  <2>3. DataInv' /\ StepInv' /\ LeftInv'
    BY <1>1, <2>1 DEF IInv, DataInv, StepInv, LeftInv
  <2>4. EvalInv'
    BY <2>1, DrainedFrame
  <2>5. OrderInv'
    BY <1>1, <2>1 DEF IInv, OrderInv, AnswerBounded, Active
  <2>6. RangeInv'
    <3> SUFFICES ASSUME ~jumped PROVE Exact'
      BY <1>1, <2>1 DEF RangeInv, Active
    <3>1. /\ h < r2 /\ k2 = r2 - h /\ k1 = (IF h < r1 THEN r1 - h ELSE 1)
          /\ 0 < r1 /\ r1 <= r2 /\ First = r1 - 1 /\ range # <<0, 0>>
      BY <1>5, <1>8
    <3>2. Len(answer) = r2 - (r1 - 1)
      <4>1. Above(h, r1 - 1) + ((r2 - h) - (k1 - 1)) = r2 - (r1 - 1)
        BY <1>2, <3>1 DEF Above
      <4> QED BY <1>3, <2>2, <3>1, <4>1
    <3>3. Last = r2
      <4>1. h + Size <= upto[input][G] /\ input \in Inputs
        BY <1>1, Place DEF IInv, h
      <4>2. inputs \in Inputs /\ input <= inputs /\ inputs # 0
        <5>1. /\ inputs \in 0 .. MaxInputs /\ input \in 0 .. inputs
              /\ input \in 1 .. MaxInputs
          BY <4>1 DEF IInv, DataInv, Inputs
        <5> QED BY <5>1, MaxInputsAssumption DEF Inputs
      <4>3. upto[input][G] <= upto[inputs][G]
        BY <4>1, <4>2, Numbered DEF IInv
      <4>4. G \in 0 .. G
        BY GAssumption
      <4>5. upto[input][G] \in Nat /\ upto[inputs][G] \in Nat
        BY <4>1, <4>2, <4>4, Numbered DEF IInv
      <4>6. Total = upto[inputs][G]
        BY <4>2 DEF Total
      <4>7. r2 <= h + Size
        BY <1>1, <1>2, <2>2, <3>1
      <4>8. r2 <= Total /\ Total \in Nat
        <5> HIDE DEF Total
        <5>1. ASSUME NEW x \in Nat, NEW y \in Nat, NEW z \in Nat, NEW w \in Nat,
                     x <= y, y <= z, z <= w
              PROVE  x <= w
          BY <5>1
        <5>2. h + Size \in Nat
          BY <1>2
        <5>3. r2 <= upto[inputs][G]
          BY <1>2, <4>1, <4>3, <4>5, <4>7, <5>1, <5>2
        <5> QED BY <4>5, <4>6, <5>3
      <4> QED BY <1>2, <3>1, <4>8 DEF Last, r2
    <3>4. First' = First /\ Last' = Last
      BY <1>1 DEF First, Last, Total
    <3>5. Last > First /\ Len(answer) = Last - First
      BY <1>2, <3>1, <3>2, <3>3
    <3> QED BY <1>1, <3>4, <3>5 DEF IInv, RangeInv, Exact
  <2> QED BY <2>3, <2>4, <2>5, <2>6 DEF IInv
<1> QED BY <1>4, <1>5, <1>6, <1>7, <1>8

-----------------------------------------------------------------------------
(* The theorems                                                            *)

LEMMA NextIInv == IInv /\ [Next]_vars => IInv'
<1> SUFFICES ASSUME IInv, [Next]_vars PROVE IInv'
  OBVIOUS
<1>1. CASE NormalRequest
  BY <1>1, StartStep DEF NormalRequest
<1>2. CASE BreakerRequest
  <2>1. 1 \in 0 .. MaxInputs /\ {1} \in SUBSET (1 .. 1)
    BY MaxInputsAssumption
  <2> QED BY <1>2, <2>1, StartStep DEF BreakerRequest
<1>3. CASE ContextStep
  BY <1>3, NextInputStep, NoInputStep, FindPositionStep, PositionFoundStep,
     ComputeStep, ReadStep, EndStep DEF ContextStep
<1>4. CASE EvaluatorStep
  BY <1>4, TakeHeadsStep, IgnoreStep, TestAndSendStep, EndOfModelsStep
  DEF EvaluatorStep
<1>5. CASE UNCHANGED vars
  <2>1. EvalInv'
    BY <1>5 DEF vars, IInv, EvalInv, EvaluatorDrained, Waiting, Solving, Solved,
       Sent, Here, Size, Skip, CurrentHeads
  <2> QED BY <1>5, <2>1, EvaluatorFrame
          DEF vars, data, progress, search, IInv
<1> QED BY <1>1, <1>2, <1>3, <1>4, <1>5 DEF Next

LEMMA Invariance == Spec => []IInv
BY InitIInv, NextIInv, PTL DEF Spec

\* Type correctness of the context and its evaluator.
THEOREM TypeCorrect == Spec => []TypeOK
<1>1. IInv => TypeOK
  <2> SUFFICES ASSUME IInv PROVE TypeOK
    OBVIOUS
  <2>1. upto \in [Inputs -> [0 .. G -> 0 .. MaxTotal]]
    <3> DEFINE Rows == {row \in [0 .. G -> 0 .. MaxTotal] :
                          \A g, h \in 0 .. G : g <= h => row[g] <= row[h]}
    <3>1. upto \in [Inputs -> Rows]
      BY NumberingIsChained, Zenon DEF IInv, DataInv, Numberings, Chained
    <3>2. Rows \subseteq [0 .. G -> 0 .. MaxTotal]
      BY Zenon
    <3> HIDE DEF Rows
    <3> QED BY <3>1, <3>2, Zenon
  <2>2. guessing \subseteq Inputs /\ input \in 0 .. MaxInputs
    BY MaxInputsAssumption DEF IInv, DataInv, Inputs
  <2>3. current_step \in Nat
    BY GAssumption DEF IInv, StepInv
  <2> QED BY <2>1, <2>2, <2>3
          DEF TypeOK, IInv, DataInv, StepInv, LeftInv, EvalInv, OrderInv
<1> QED BY <1>1, Invariance, PTL

\* However the range falls across any number of inputs, guesses and models,
\* read_and_send_k1_k2 counts k1 and k2 down so that the invoker gets exactly
\* models k1 to k2, as long as the cache skips no guess.
THEOREM AnswerIsExact == Spec => []AnswerExact
<1>1. IInv => AnswerExact
  BY DEF IInv, RangeInv, AnswerExact
<1> QED BY <1>1, Invariance, PTL

\* Whatever find_position returns, models are sent in order, none twice and
\* not more than were asked for.
THEOREM AnswerIsBounded == Spec => []AnswerBounded
<1>1. IInv => AnswerBounded
  BY DEF IInv, OrderInv
<1> QED BY <1>1, Invariance, PTL

\* Context and evaluator agree on where the models of a guess end: nothing
\* of one guess is left in the queues for the next.
THEOREM EvaluatorIsDrained == Spec => []EvaluatorDrained
<1>1. IInv => EvaluatorDrained
  BY DEF IInv, EvalInv
<1> QED BY <1>1, Invariance, PTL

\* The cache is shorter than the number of guesses, so every step that
\* find_position returns is one jump_guess can make.
THEOREM StepsAreGuesses == Spec => []GuessInRange
<1>1. IInv => GuessInRange
  BY GAssumption DEF IInv, StepInv, GuessInRange
<1> QED BY <1>1, Invariance, PTL

-----------------------------------------------------------------------------
(* A request cannot go on for ever                                         *)

\* What is left of a request: the inputs, in an input the rounds of the
\* search and the guesses, in a guess what the evaluator has still to do, and
\* in the evaluator's work the models and what is in its queue.
InputsLeft == IF Active THEN inputs - input + 1 ELSE 0

GuessesLeft ==
  IF pc = "search" THEN G + (end - beg)
  ELSE IF pc \in {"compute", "read"} THEN G - current_step
  ELSE 0

PhasesLeft ==
  IF pc = "compute" THEN 3
  ELSE IF eval_in # <<>> THEN 2
  ELSE IF eval_pc = "solve" THEN 1
  ELSE 0

ModelsLeft ==
  IF pc = "read" /\ eval_in = <<>>
    THEN 2 * (Size - models_counter) + Len(eval_out)
    ELSE 0

\* The order of what is left is the lexicographic one on four natural numbers.
Closer ==
  \/ InputsLeft' < InputsLeft
  \/ /\ InputsLeft' = InputsLeft
     /\ GuessesLeft' < GuessesLeft
  \/ /\ InputsLeft' = InputsLeft
     /\ GuessesLeft' = GuessesLeft
     /\ PhasesLeft' < PhasesLeft
  \/ /\ InputsLeft' = InputsLeft
     /\ GuessesLeft' = GuessesLeft
     /\ PhasesLeft' = PhasesLeft
     /\ ModelsLeft' < ModelsLeft

LeftOver ==
  InputsLeft \in Nat /\ GuessesLeft \in Nat /\ PhasesLeft \in Nat /\ ModelsLeft \in Nat

\* The context waits for the evaluator only while the evaluator has heads to
\* take, or room for what it has to send.
NoMutualWait ==
  pc = "read" /\ eval_out = <<>> =>
    \/ eval_pc = "idle" /\ eval_in # <<>>
    \/ eval_pc = "solve" /\ Len(eval_out) < QueueSize

LEMMA LeftOverNat == IInv => LeftOver
<1> SUFFICES ASSUME IInv PROVE LeftOver
  OBVIOUS
<1>1. InputsLeft \in Nat
  BY MaxInputsAssumption DEF IInv, DataInv, InputsLeft
<1>2. GuessesLeft \in Nat
  BY GAssumption DEF IInv, StepInv, GuessesLeft
<1>3. PhasesLeft \in Nat
  BY DEF PhasesLeft
<1>4. ModelsLeft \in Nat
  <2> SUFFICES ASSUME pc = "read", eval_in = <<>>
               PROVE  2 * (Size - models_counter) + Len(eval_out) \in Nat
    BY DEF ModelsLeft
  <2>1. Size \in Nat /\ models_counter \in Nat /\ Len(eval_out) \in Nat
    BY Place DEF IInv, EvalInv
  <2>2. models_counter <= Size
    BY DEF IInv, EvalInv, Waiting, Solving, Solved, Sent
  <2> QED BY <2>1, <2>2
<1> QED BY <1>1, <1>2, <1>3, <1>4 DEF LeftOver

LEMMA MutualWait == IInv => NoMutualWait
<1> SUFFICES ASSUME IInv, pc = "read", eval_out = <<>>
             PROVE  \/ eval_pc = "idle" /\ eval_in # <<>>
                    \/ eval_pc = "solve" /\ Len(eval_out) < QueueSize
  BY DEF NoMutualWait
<1>1. Waiting \/ Solving
  BY DEF IInv, EvalInv, Solved
<1>2. Len(eval_out) < QueueSize
  BY QueueSizeAssumption
<1> QED BY <1>1, <1>2 DEF Waiting, Solving

LEMMA EvaluatorCloser ==
  ASSUME IInv, EvaluatorStep
  PROVE  Closer
<1>1. /\ UNCHANGED <<pc, inputs, upto, input, current_step, beg, end>>
      /\ pc = "read"
  BY Busy DEF EvaluatorStep, TakeHeads, Ignore, test_and_send, EndOfModels,
              data, progress, search, IInv, EvalInv, EvaluatorDrained
<1>2. InputsLeft' = InputsLeft /\ GuessesLeft' = GuessesLeft /\ Size' = Size
  BY <1>1 DEF InputsLeft, GuessesLeft, Active, Size
<1>3. Size \in Nat /\ models_counter \in Nat /\ eval_out \in Seq(Nat)
  BY <1>1, Place DEF IInv, EvalInv
<1>4. CASE TakeHeads
  <2>1. Waiting
    BY <1>1, <1>4 DEF IInv, EvalInv, TakeHeads, Solving, Solved
  <2>2. eval_in # <<>> /\ eval_in' = <<>> /\ eval_pc' = "solve"
    BY <1>4, <2>1 DEF TakeHeads, Waiting
  <2> QED BY <1>1, <1>2, <2>2 DEF Closer, PhasesLeft
<1>5. ASSUME eval_pc = "solve" PROVE eval_in = <<>>
  BY <1>5, Busy DEF Solving
<1>6. CASE Ignore
  <2>1. /\ models_counter' = models_counter + 1
        /\ UNCHANGED <<eval_in, eval_out, eval_pc>>
        /\ eval_in = <<>>
    BY <1>5, <1>6 DEF Ignore
  <2>2. PhasesLeft' = PhasesLeft
    BY <1>1, <2>1 DEF PhasesLeft
  <2>3. ModelsLeft' < ModelsLeft
    BY <1>1, <1>2, <1>3, <2>1 DEF ModelsLeft
  <2> QED BY <1>2, <2>2, <2>3 DEF Closer
<1>7. CASE test_and_send
  <2>1. /\ models_counter' = models_counter + 1
        /\ UNCHANGED <<eval_in, eval_pc>>
        /\ eval_in = <<>>
        /\ Len(eval_out') = Len(eval_out) + 1
    BY <1>3, <1>5, <1>7 DEF test_and_send
  <2>2. PhasesLeft' = PhasesLeft
    BY <1>1, <2>1 DEF PhasesLeft
  <2>3. ModelsLeft' < ModelsLeft
    BY <1>1, <1>2, <1>3, <2>1 DEF ModelsLeft
  <2> QED BY <1>2, <2>2, <2>3 DEF Closer
<1>8. CASE EndOfModels
  <2>1. eval_in = <<>> /\ eval_in' = <<>> /\ eval_pc = "solve" /\ eval_pc' = "idle"
    BY <1>5, <1>8 DEF EndOfModels
  <2> QED BY <1>1, <1>2, <2>1 DEF Closer, PhasesLeft
<1> QED BY <1>4, <1>6, <1>7, <1>8 DEF EvaluatorStep

\* A next guess, or the next input, is less than what the current guess has.
LEMMA GuessCloser ==
  ASSUME IInv, pc = "read", next_guess, UNCHANGED <<inputs, input>>
  PROVE  Closer
<1>1. G \in Nat /\ current_step \in Nat /\ current_step < G
  BY GAssumption DEF IInv, StepInv
<1>2. \/ pc' = "compute" /\ current_step' = current_step + 1
      \/ pc' = "join"
  BY DEF next_guess
<1>3. InputsLeft' = InputsLeft
  BY <1>2 DEF InputsLeft, Active
<1>4. GuessesLeft' < GuessesLeft
  BY <1>1, <1>2 DEF GuessesLeft
<1> QED BY <1>3, <1>4 DEF Closer

\* So is the guess that the search ends with.
LEMMA PositionCloser ==
  ASSUME IInv, pc = "search", NEW step \in Nat, Position(step),
         UNCHANGED <<inputs, input>>
  PROVE  Closer
<1>1. G \in Nat /\ beg \in Nat /\ end \in Nat /\ beg < end
  BY GAssumption DEF IInv, StepInv
<1>2. pc' = "compute" /\ current_step' = step
  BY DEF Position
<1>3. InputsLeft' = InputsLeft
  BY <1>2 DEF InputsLeft, Active
<1>4. GuessesLeft' < GuessesLeft
  BY <1>1, <1>2 DEF GuessesLeft
<1> QED BY <1>3, <1>4 DEF Closer

\* A request that ends leaves no input.
LEMMA EndCloser ==
  ASSUME IInv, Active, pc' \in {"idle", "crashed"}
  PROVE  Closer
<1>1. InputsLeft' = 0
  BY DEF InputsLeft, Active
<1>2. InputsLeft > 0
  BY MaxInputsAssumption DEF IInv, DataInv, InputsLeft
<1> QED BY <1>1, <1>2 DEF Closer

LEMMA ContextCloser ==
  ASSUME IInv, ContextStep
  PROVE  Closer
<1>1. CASE NextInput
  <2>1. /\ pc = "join" /\ input' = input + 1 /\ inputs' = inputs
        /\ pc' \in {"search", "compute"}
        /\ inputs \in Nat /\ input \in Nat
    BY <1>1, MaxInputsAssumption DEF NextInput, Position, data, IInv, DataInv
  <2>2. InputsLeft' < InputsLeft
    BY <2>1 DEF InputsLeft, Active
  <2> QED BY <2>2 DEF Closer
<1>2. CASE NoInput
  BY <1>2, EndCloser DEF NoInput, Active
<1>3. CASE find_position
  <2> DEFINE mid == (beg + end) \div 2
  <2>1. /\ pc = "search" /\ beg + 1 < end
        /\ UNCHANGED <<inputs, input>>
        /\ beg \in Nat /\ end \in Nat /\ G \in Nat
    BY <1>3, GAssumption DEF find_position, data, IInv, StepInv
  <2>2. mid \in Nat /\ beg < mid /\ mid < end
    BY <2>1
  <2>3. \/ pc' = pc /\ beg' = mid /\ end' = end
        \/ pc' = pc /\ end' = mid /\ beg' = beg
        \/ Position(mid)
    BY <1>3 DEF find_position
  <2> HIDE DEF mid
  <2>4. CASE Position(mid)
    BY <2>1, <2>2, <2>4, PositionCloser
  <2>5. ASSUME pc' = pc, end' - beg' < end - beg, end' - beg' \in Nat
        PROVE  Closer
    <3>1. InputsLeft' = InputsLeft
      BY <2>1, <2>5 DEF InputsLeft, Active
    <3>2. GuessesLeft' < GuessesLeft
      BY <2>1, <2>5 DEF GuessesLeft
    <3> QED BY <3>1, <3>2 DEF Closer
  <2>6. CASE pc' = pc /\ beg' = mid /\ end' = end
    BY <2>1, <2>2, <2>5, <2>6
  <2>7. CASE pc' = pc /\ end' = mid /\ beg' = beg
    BY <2>1, <2>2, <2>5, <2>7
  <2> QED BY <2>3, <2>4, <2>6, <2>7
<1>4. CASE PositionFound
  <2> DEFINE step == IF mark[beg + 1] = k1 THEN beg ELSE beg + 1
  <2>1. pc = "search" /\ UNCHANGED <<inputs, input>> /\ Position(step)
    BY <1>4 DEF PositionFound, data
  <2>2. step \in Nat
    BY DEF IInv, StepInv
  <2> HIDE DEF step
  <2> QED BY <2>1, <2>2, PositionCloser
<1>5. CASE compute
  <2>1. /\ pc = "compute" /\ pc' = "read"
        /\ UNCHANGED <<inputs, input, current_step>>
    BY <1>5 DEF compute, data, progress
  <2>2. InputsLeft' = InputsLeft /\ GuessesLeft' = GuessesLeft
    BY <2>1 DEF InputsLeft, GuessesLeft, Active
  <2>3. PhasesLeft' < PhasesLeft
    BY <2>1 DEF PhasesLeft
  <2> QED BY <2>2, <2>3 DEF Closer
<1>6. CASE read_and_send
  <2>1. /\ pc = "read" /\ eval_out # <<>> /\ eval_out' = Tail(eval_out)
        /\ UNCHANGED <<pc, inputs, upto, input, current_step, eval_in, eval_pc,
                       models_counter>>
    BY <1>6 DEF read_and_send, data, progress, evaluator
  <2>2. InputsLeft' = InputsLeft /\ GuessesLeft' = GuessesLeft /\ Size' = Size
    BY <2>1 DEF InputsLeft, GuessesLeft, Active, Size
  <2>3. PhasesLeft' = PhasesLeft
    BY <2>1 DEF PhasesLeft
  <2>4. /\ Size \in Nat /\ models_counter \in Nat /\ eval_in = <<>>
        /\ eval_out \in Seq(Nat)
    BY <2>1, Place DEF IInv, EvalInv, Waiting, Solving, Solved
  <2>5. Len(eval_out') = Len(eval_out) - 1 /\ Len(eval_out) \in Nat
    BY <2>1, <2>4
  <2>6. ModelsLeft' < ModelsLeft
    BY <2>1, <2>2, <2>4, <2>5 DEF ModelsLeft
  <2> QED BY <2>2, <2>3, <2>6 DEF Closer
<1>7. CASE read_and_send_k1_k2
  <2>1. pc = "read" /\ Active /\ UNCHANGED <<inputs, input>>
    BY <1>7 DEF read_and_send_k1_k2, data, Active
  <2>2. next_guess \/ pc' \in {"idle", "crashed"}
    BY <1>7 DEF read_and_send_k1_k2, NoneSent, SomeSent, AllSent
  <2> QED BY <2>1, <2>2, GuessCloser, EndCloser
<1> QED BY <1>1, <1>2, <1>3, <1>4, <1>5, <1>6, <1>7 DEF ContextStep

\* Every step of the context or of the evaluator brings a request closer to
\* its end, in a well-founded order, and neither of the two threads waits for
\* the other in vain: what RequestEnds needs besides the fairness of the
\* threads, for NormalContext::startup, process_input and the evaluator loop.
THEOREM RequestComesCloser ==
  /\ Spec => [](LeftOver /\ NoMutualWait)
  /\ Spec => [][ContextStep \/ EvaluatorStep => Closer]_vars
<1>1. IInv => LeftOver /\ NoMutualWait
  BY LeftOverNat, MutualWait
<1>2. IInv /\ [Next]_vars => [ContextStep \/ EvaluatorStep => Closer]_vars
  BY ContextCloser, EvaluatorCloser
<1> QED BY <1>1, <1>2, Invariance, PTL DEF Spec

-----------------------------------------------------------------------------
(* How a request may end early                                             *)

\* While the cache is empty, the guesses after guess 1 are reached by a request
\* that has sent models, or wants all of them.
CrashInv ==
  /\ pc = "crashed" => CacheBroken
  /\ pc \in {"compute", "read"} /\ mark = <<>> /\ current_step > 1 =>
       answer # <<>> \/ (k1 = 0 /\ k2 = 0)
  /\ pc = "read" /\ models_sent > 0 => answer # <<>>

LEMMA AppendNotEmpty ==
  ASSUME NEW q \in Seq(Nat), NEW x \in Nat
  PROVE  Append(q, x) # <<>>
<1>1. Len(Append(q, x)) = Len(q) + 1 /\ Len(q) \in Nat
  OBVIOUS
<1>2. Len(<<>>) = 0
  OBVIOUS
<1> QED BY <1>1, <1>2

LEMMA CrashStep ==
  ASSUME IInv, CrashInv, [Next]_vars
  PROVE  CrashInv'
<1>0. current_step \in Nat /\ mark \in Seq(Nat) /\ answer \in Seq(Nat) /\ models_sent \in Nat
  BY GAssumption DEF IInv, StepInv, OrderInv, EvalInv
<1>1. CASE NormalRequest \/ BreakerRequest
  BY <1>1 DEF NormalRequest, BreakerRequest, StartRequest, CrashInv
<1>2. CASE NextInput
  BY <1>2 DEF NextInput, Position, CrashInv
<1>3. CASE NoInput
  BY <1>3 DEF NoInput, CrashInv
<1>4. CASE find_position \/ PositionFound
  <2>1. mark # <<>> /\ mark' = mark
    BY <1>4 DEF find_position, PositionFound, IInv, StepInv
  <2>2. pc' \in {"search", "compute"}
    BY <1>4 DEF find_position, PositionFound, Position
  <2> QED BY <2>1, <2>2 DEF CrashInv
<1>5. CASE compute
  BY <1>5 DEF compute, progress, CrashInv
<1>6. CASE read_and_send
  <2>1. pc = "read" /\ pc' = pc /\ answer' = Append(answer, Head(eval_out)) /\ eval_out \in Seq(Nat) /\ eval_out # <<>>
    BY <1>6 DEF read_and_send, IInv, EvalInv
  <2>2. answer' # <<>>
    <3>1. Head(eval_out) \in Nat
      BY <2>1
    <3>2. Append(answer, Head(eval_out)) # <<>>
      BY <1>0, <3>1, AppendNotEmpty, Zenon
    <3> QED BY <2>1, <3>2, Zenon
  <2> QED BY <2>1, <2>2 DEF CrashInv
<1>7. CASE read_and_send_k1_k2
  <2>1. pc = "read" /\ answer' = answer
    BY <1>7 DEF read_and_send_k1_k2
  <2>2. CASE k1 = 0 /\ k2 = 0
    <3>1. next_guess /\ UNCHANGED <<k1, k2, mark>>
      BY <1>7, <2>2 DEF read_and_send_k1_k2
    <3>2. pc' \in {"compute", "join"}
      BY <3>1 DEF next_guess
    <3> QED BY <2>2, <3>1, <3>2 DEF CrashInv
  <2>3. CASE ~(k1 = 0 /\ k2 = 0) /\ NoneSent
    <3>1. CASE current_step > 0 /\ BackOfEmpty(current_step)
      <4>1. pc' = "crashed" /\ UNCHANGED <<mark, current_step>>
        BY <2>3, <3>1 DEF NoneSent
      <4>2. mark = <<>> /\ current_step > 1
        BY <3>1 DEF BackOfEmpty
      <4>3. answer # <<>>
        BY <2>1, <2>3, <4>2 DEF CrashInv
      <4> QED BY <2>1, <4>1, <4>2, <4>3 DEF CrashInv, CacheBroken
    <3>2. CASE current_step > 0 /\ ~BackOfEmpty(current_step)
      <4>1. update_cache(current_step, models_counter) /\ next_guess
        BY <2>3, <3>2 DEF NoneSent
      <4>2. mark' # <<>>
        <5>1. models_counter \in Nat
          BY DEF IInv, EvalInv
        <5>2. CASE mark # <<>>
          <6>1. Len(mark) \in Nat /\ mark[Len(mark)] \in Nat
            BY <1>0, <5>2
          <6>2. \/ mark' = mark
                \/ mark' = Append(mark, models_counter)
                \/ mark' = Append(mark, models_counter + mark[Len(mark)])
            BY <4>1 DEF update_cache
          <6>3. models_counter + mark[Len(mark)] \in Nat
            BY <5>1, <6>1
          <6> QED BY <1>0, <5>1, <5>2, <6>2, <6>3, AppendNotEmpty
        <5>3. CASE mark = <<>>
          <6>1. current_step = 1 /\ Len(mark) = 0
            BY <1>0, <3>2, <5>3 DEF BackOfEmpty
          <6>2. mark' = Append(mark, models_counter)
            BY <4>1, <6>1 DEF update_cache
          <6> QED BY <1>0, <5>1, <6>2, AppendNotEmpty
        <5> QED BY <5>2, <5>3
      <4> QED BY <4>1, <4>2 DEF CrashInv, next_guess
    <3>3. CASE ~(current_step > 0)
      <4>1. next_guess
        BY <2>3, <3>3 DEF NoneSent
      <4>2. ~(current_step' > 1) /\ pc' \in {"compute", "join"}
        BY <1>0, <3>3, <4>1 DEF next_guess
      <4> QED BY <4>2 DEF CrashInv
    <3> QED BY <3>1, <3>2, <3>3
  <2>4. CASE ~(k1 = 0 /\ k2 = 0) /\ (SomeSent \/ AllSent)
    <3>1. models_sent > 0 /\ (next_guess \/ pc' = "idle")
      BY <2>4 DEF SomeSent, AllSent
    <3>2. answer' # <<>>
      BY <2>1, <3>1 DEF CrashInv
    <3>3. pc' # "crashed"
      BY <3>1 DEF next_guess
    <3> QED BY <3>2, <3>3 DEF CrashInv
  <2> QED BY <1>7, <2>2, <2>3, <2>4 DEF read_and_send_k1_k2
<1>8. CASE EvaluatorStep
  BY <1>8 DEF EvaluatorStep, TakeHeads, Ignore, test_and_send, EndOfModels, progress,
     CrashInv, CacheBroken
<1>9. CASE UNCHANGED vars
  BY <1>9 DEF vars, CrashInv, CacheBroken
<1> QED BY <1>1, <1>2, <1>3, <1>4, <1>5, <1>6, <1>7, <1>8, <1>9 DEF Next, ContextStep

\* A request that ends without its end marker has broken the assertion of
\* update_cache, on an empty cache and after models were sent: a context that
\* finds no model never does.
THEOREM ContextCrash == Spec => [](pc = "crashed" => CacheBroken)
<1>1. Init => CrashInv
  BY DEF Init, CrashInv
<1>2. CrashInv => (pc = "crashed" => CacheBroken)
  BY DEF CrashInv
<1> QED BY <1>1, <1>2, CrashStep, Invariance, PTL DEF Spec

=============================================================================
