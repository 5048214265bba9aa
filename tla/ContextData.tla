------------------------------ MODULE ContextData ------------------------------
(***************************************************************************)
(* What a context computes for a request, on the level of its data: the    *)
(* belief states of the neighbors are joined (StreamingJoiner::join,       *)
(* combine), joined inputs are completed with guesses (NormalContext,      *)
(* NewContext::next_guess and jump_guess), the bridge rules are evaluated  *)
(* (BridgeRuleEvaluator), the models of the solver are compared with the   *)
(* input, added to it and projected (DLVEvaluator, NewContext), and the    *)
(* output thread sorts them and removes duplicates (NewOutputThread,       *)
(* ReturnedBeliefState).  The control that surrounds these steps (packs,   *)
(* ranges, caching, queues) is in StreamingJoiner and Context; here every  *)
(* neighbor sends one pack and all models are asked for.                   *)
(*                                                                         *)
(* A belief state is a pair of bit sets.  A context c owns the SizeBs + 1  *)
(* bits from starting_offset(c) on: its epsilon bit, on when there is      *)
(* information on c, and one bit for every belief.                         *)
(***************************************************************************)
EXTENDS Integers, Sequences, FiniteSets, Functions

CONSTANTS
  NoBlocks,      \* number of contexts
  SizeBs,        \* beliefs of a context
  Ctx,           \* the id of this context
  Physical,      \* sequence of the neighbors that are asked
  Guessing,      \* the guessing neighbors
  Signature,     \* addresses of the beliefs that are guessed, of every context
  RuleTables,    \* possible sets of bridge rules
  KnowledgeBases,\* possible local knowledge bases: models for a set of heads
  Interface,     \* addresses the invoker is interested in, of every context
  Packs          \* possible packs of every neighbor

ASSUME SizesAssumption ==
  NoBlocks \in Nat \ {0} /\ SizeBs \in Nat \ {0} /\ Ctx \in 0 .. NoBlocks - 1

VARIABLES
  rules, kb,       \* bridge rules and knowledge base of this context
  packs,           \* the pack of every neighbor
  pc,
  run_it,          \* the running iterators of the join
  joined_results, next_input,
  current_guess, current_step,
  heap,            \* the belief states of the answer that were allocated
  output_list,     \* indices of heap; 0 for the end marker
  first, mid, beg_remove,
  freed            \* how often a belief state of heap was deleted

problem == <<rules, kb, packs>>
guess == <<current_guess, current_step>>
dedup == <<first, mid, beg_remove, freed>>
vars == <<problem, pc, run_it, joined_results, next_input, guess, heap, output_list, dedup>>

Contexts == 0 .. NoBlocks - 1
starting_offset(c) == c * (SizeBs + 1)
Block(c) == starting_offset(c) .. starting_offset(c) + SizeBs
NoBits == NoBlocks * (SizeBs + 1)
Bits == 0 .. NoBits - 1
Bit(c, address) == starting_offset(c) + address
NULL == <<>>

BeliefStates == [status : SUBSET Bits, value : SUBSET Bits]

\* A belief state that a neighbor sends: the epsilon bit of a context is on
\* wherever something is said about it.
WellFormed(bs) ==
  /\ bs \in BeliefStates /\ bs.value \subseteq bs.status
  /\ \A b \in bs.status :
       \E c \in Contexts : b \in Block(c) /\ starting_offset(c) \in bs.value

ASSUME NeighborsAssumption ==
  /\ Physical \in Seq(Contexts) /\ Physical # <<>>
  /\ Guessing \subseteq Contexts
  /\ \A c \in Guessing : Signature[c] \subseteq 1 .. SizeBs

\* A neighbor answers with at least one belief state.
ASSUME PacksAssumption ==
  \A p \in Packs :
    /\ p = [i \in DOMAIN Physical |-> p[i]]
    /\ \A i \in DOMAIN Physical :
         /\ p[i] \in Seq(BeliefStates) /\ p[i] # <<>>
         /\ \A k \in DOMAIN p[i] : WellFormed(p[i][k])

ASSUME KnowledgeBaseAssumption ==
  \A table \in RuleTables : \A base \in KnowledgeBases :
    \A H \in SUBSET {r.head : r \in table} : base[H] \in Seq(SUBSET (1 .. SizeBs))

\* The masks of BeliefStateOffset stop before the last belief of a context.
Mask(c) == Block(c) \ {starting_offset(c) + SizeBs}

NoBelief == [status |-> {}, value |-> {}]

test(bs, pos) ==
  IF pos \notin bs.status THEN "undef"
  ELSE IF pos \in bs.value THEN "true" ELSE "false"

set(bs, pos, val) ==
  [status |-> bs.status \cup {pos},
   value |-> IF val = "true" THEN bs.value \cup {pos} ELSE bs.value \ {pos}]

isEpsilon(bs, c) == starting_offset(c) \notin bs.status

\* Variant: only one of the two bit sets is changed.
OrValue(s, t) == [status |-> s.status, value |-> s.value \cup t.value]

Or(s, t) == [status |-> s.status \cup t.status, value |-> s.value \cup t.value]
And(s, t) == [status |-> s.status \cap t.status, value |-> s.value \cap t.value]
and_bm(s, mask) == And(s, [status |-> mask, value |-> mask])

\* get_next of BitMagic: 0 when there is no further bit.
NextBit(bits, pos) ==
  IF \E b \in bits : b > pos
  THEN CHOOSE b \in bits : b > pos /\ \A o \in bits : o > pos => b <= o
  ELSE 0

\* consistent_with looks at the first bit after the epsilon bit in any case,
\* and then goes on up to the end of the block.  Where no bit follows, it begins
\* again at bit 0 and goes over the blocks before this one.
consistent_with(bs, bm, c) ==
  LET pos == NextBit(bm.status, starting_offset(c))
      end_bit == starting_offset(c) + SizeBs + 1
      seen == {pos} \cup {p \in bm.status : p > pos /\ p < end_bit}
  IN
  \/ isEpsilon(bs, c) \/ isEpsilon(bm, c)
  \/ \A p \in seen : test(bs, p) = test(bm, p)

\* Variant: contexts that only the second one knows are not copied.
combineForgets(s, t) ==
  LET both == {c \in Contexts : ~isEpsilon(s, c) /\ ~isEpsilon(t, c)}
      check == UNION {Mask(c) : c \in both}
  IN IF and_bm(s, check) # and_bm(t, check) THEN NULL ELSE s

\* combine: NULL when s and t differ on a context that both know; otherwise t
\* is copied for the contexts that only t knows.
combine(s, t) ==
  LET both == {c \in Contexts : ~isEpsilon(s, c) /\ ~isEpsilon(t, c)}
      only_t == {c \in Contexts : isEpsilon(s, c) /\ ~isEpsilon(t, c)}
      mask_check_consistency == UNION {Mask(c) : c \in both}
      mask_combine == UNION {Mask(c) : c \in only_t}
  IN
  IF and_bm(s, mask_check_consistency) # and_bm(t, mask_check_consistency)
  THEN NULL
  ELSE Or(s, Or(and_bm(s, Bits \ mask_combine), and_bm(t, mask_combine)))
-------------------------------------------------------------------------------
(* Guesses                                                                   *)

EpsilonBits(cs) == {starting_offset(c) : c \in cs}

GuessBits == UNION {{Bit(c, a) : a \in Signature[c]} : c \in Guessing}

\* init: all that is guessed is false in the first guess.
starting_guess ==
  [status |-> EpsilonBits(Guessing) \cup GuessBits,
   value |-> EpsilonBits(Guessing)]

must_guess(input) == \E c \in Guessing : isEpsilon(input, c)

\* Variant: the bits before the one that is set are kept.
next_guessKeeps(g) ==
  LET unset == {b \in GuessBits : test(g, b) = "false"}
      bit == CHOOSE b \in unset : \A o \in unset : b <= o
  IN IF unset = {} THEN NULL ELSE set(g, bit, "true")

\* The first false bit becomes true and the ones before it false; there is no
\* next guess when all are true.
next_guess(g) ==
  LET unset == {b \in GuessBits : test(g, b) = "false"}
      bit == CHOOSE b \in unset : \A o \in unset : b <= o
  IN IF unset = {} THEN NULL
     ELSE [set(g, bit, "true") EXCEPT !.value = @ \ {b \in GuessBits : b < bit}]

\* What is left of step when the walk over the bits of the guesses comes to b.
Remaining(step) ==
  LET rest[b \in 0 .. NoBits] ==
        IF b = 0 THEN step
        ELSE IF b - 1 \in GuessBits THEN rest[b - 1] \div 2 ELSE rest[b - 1]
  IN rest

\* The bits of step, beginning with the lowest, are those of the guess; there is
\* none if a bit of step is left.
jump_guess(step) ==
  IF Remaining(step)[NoBits] # 0 THEN NULL
  ELSE [status |-> starting_guess.status,
        value |-> starting_guess.value \cup {b \in GuessBits : Remaining(step)[b] % 2 = 1}]
-------------------------------------------------------------------------------
(* Models                                                                    *)

satisfied(r, input) ==
  /\ \A b \in r.pos : test(input, b) = "true"
  /\ \A b \in r.naf : test(input, b) # "true"

\* The addresses of the heads of the bridge rules that fire.
evaluate_bridge_rules(input) == {r.head : r \in {q \in rules : satisfied(q, input)}}

\* The parser begins with all beliefs of this context false.
parseString(model) ==
  [status |-> Block(Ctx),
   value |-> {starting_offset(Ctx)} \cup {Bit(Ctx, a) : a \in model}]

\* The return plan has the epsilon bits of all contexts.
interface ==
  LET bits == EpsilonBits(Contexts)
              \cup UNION {{Bit(c, a) : a \in Interface[c]} : c \in Contexts}
  IN [status |-> bits, value |-> bits]

\* Variant: models that contradict the input are sent, too.
test_and_sendAll(local, input) == <<And(Or(local, input), interface)>>

\* What is sent of a local model, projected in send_out_result.
test_and_send(local, input) ==
  IF consistent_with(local, input, Ctx) THEN <<And(Or(local, input), interface)>> ELSE <<>>

\* read_all: what has been sent for an input after every model of the solver.
Sent(input) ==
  LET models == kb[evaluate_bridge_rules(input)]
      sent[k \in 0 .. Len(models)] ==
        IF k = 0 THEN <<>>
        ELSE sent[k - 1] \o test_and_send(parseString(models[k]), input)
  IN sent

read_all(input) == Sent(input)[Len(kb[evaluate_bridge_rules(input)])]
-------------------------------------------------------------------------------
Init ==
  /\ rules \in RuleTables
  /\ kb \in KnowledgeBases
  /\ packs \in Packs
  /\ pc = "join"
  /\ run_it = [i \in DOMAIN Physical |-> 1]
  /\ joined_results = <<>> /\ next_input = 1
  /\ current_guess = NULL /\ current_step = 0
  /\ heap = <<>> /\ output_list = <<>>
  /\ first = 1 /\ mid = 1 /\ beg_remove = 2
  /\ freed = <<>>

\* What the one-shot join of the belief states that the iterators point at has
\* combined after every neighbor; NULL once it has failed.
Combined(it) ==
  LET bs[k \in DOMAIN it] ==
        LET next == packs[k][it[k]]
            before == bs[k - 1]
        IN IF k = 1 THEN next
           ELSE IF before = NULL THEN NULL ELSE combine(before, next)
  IN bs

JoinAt(it) == Combined(it)[Len(it)]

\* The last iterator that can be advanced is, the ones after it are reset.
JoinStep ==
  LET result == JoinAt(run_it)
      more == {i \in DOMAIN run_it : run_it[i] < Len(packs[i])}
      inc == CHOOSE i \in more : \A j \in more : j <= i
  IN
  /\ pc = "join"
  /\ joined_results' = IF result = NULL THEN joined_results
                       ELSE Append(joined_results, result)
  /\ IF more = {}
     THEN pc' = "input" /\ UNCHANGED run_it
     ELSE /\ run_it' = [i \in DOMAIN run_it |->
                          CASE i < inc -> run_it[i]
                            [] i = inc -> run_it[i] + 1
                            [] i > inc -> 1]
          /\ UNCHANGED pc
  /\ UNCHANGED <<problem, next_input, guess, heap, output_list, dedup>>

\* process_input begins with the first guess, if it has to guess.
process_input ==
  /\ pc = "input" /\ next_input <= Len(joined_results)
  /\ pc' = "compute"
  /\ current_guess' = IF must_guess(joined_results[next_input])
                      THEN starting_guess ELSE NULL
  /\ current_step' = 0
  /\ UNCHANGED <<problem, run_it, joined_results, next_input, heap,
                 output_list, dedup>>

\* compute for the input and the current guess, and then the next guess or the
\* next input.
compute ==
  LET input == joined_results[next_input]
      combined_input == IF current_guess = NULL THEN input
                        ELSE Or(input, current_guess)
      next == IF current_guess = NULL THEN NULL ELSE next_guess(current_guess)
  IN
  /\ pc = "compute"
  /\ heap' = heap \o read_all(combined_input)
  /\ current_guess' = next
  /\ IF next = NULL
     THEN pc' = "input" /\ next_input' = next_input + 1 /\ current_step' = 0
     ELSE current_step' = current_step + 1 /\ UNCHANGED <<pc, next_input>>
  /\ UNCHANGED <<problem, run_it, joined_results, output_list, dedup>>
-------------------------------------------------------------------------------
(* Output                                                                    *)

\* The operator < of BitMagic: the lowest bit in which they differ decides.
LexLess(S, T) == \E b \in T \ S : \A o \in S \cup T : o < b => o \in S /\ o \in T

Less(s, t) ==
  \/ LexLess(s.status, t.status)
  \/ s.status = t.status /\ LexLess(s.value, t.value)

\* The end marker is the greatest element.
my_compare(i, j) == i # 0 /\ (j = 0 \/ Less(heap[i], heap[j]))

\* list::sort keeps the order of elements that compare equal: the place of an
\* element is the number of those that go before it.
list_sort(list) ==
  LET before(j, k) == my_compare(list[j], list[k])
                      \/ (j < k /\ ~my_compare(list[k], list[j]))
      place == [k \in DOMAIN list |-> Cardinality({j \in DOMAIN list : before(j, k)}) + 1]
  IN [n \in DOMAIN list |-> list[CHOOSE k \in DOMAIN list : place[k] = n]]

\* The end marker has arrived; write_result sorts the list.
write_result ==
  /\ pc = "input" /\ next_input > Len(joined_results)
  /\ pc' = "dedup"
  /\ output_list' = list_sort(Append([i \in 1 .. Len(heap) |-> i], 0))
  /\ freed' = [i \in 1 .. Len(heap) |-> 0]
  /\ UNCHANGED <<problem, run_it, joined_results, next_input, guess, heap, first,
                 mid, beg_remove>>

\* The == of two elements of the list.
SameState(i, j) ==
  IF i = 0 \/ j = 0 THEN i = j ELSE heap[i] = heap[j]

\* The belief states of the elements from beg_remove up to end are deleted.
Deleted(end) ==
  [i \in DOMAIN freed |->
     freed[i] + Cardinality({k \in beg_remove .. end : output_list[k] = i})]

\* Variant: the duplicates before an element that is kept are not skipped.
remove_duplicationStale ==
  /\ pc = "dedup" /\ first < Len(output_list)
  /\ first' = first + 1
  /\ IF SameState(output_list[mid], output_list[first'])
     THEN UNCHANGED <<mid, beg_remove, freed, output_list>>
     ELSE /\ freed' = Deleted(first)
          /\ mid' = mid + 1
          /\ output_list' = [output_list EXCEPT ![mid'] = output_list[first']]
          /\ UNCHANGED beg_remove
  /\ UNCHANGED <<problem, pc, run_it, joined_results, next_input, guess, heap>>

\* remove_duplication looks at the next element: if it differs from the last one
\* that was kept, what lies between them is deleted and it is moved there.
remove_duplication ==
  /\ pc = "dedup" /\ first < Len(output_list)
  /\ first' = first + 1
  /\ IF SameState(output_list[mid], output_list[first'])
     THEN UNCHANGED <<mid, beg_remove, freed, output_list>>
     ELSE /\ freed' = Deleted(first)
          /\ mid' = mid + 1
          /\ output_list' = [output_list EXCEPT ![mid'] = output_list[first']]
          /\ beg_remove' = first' + 1
  /\ UNCHANGED <<problem, pc, run_it, joined_results, next_input, guess, heap>>

\* At the end the rest is deleted and the list is cut.
resize ==
  /\ pc = "dedup" /\ first = Len(output_list)
  /\ pc' = "done"
  /\ freed' = Deleted(first)
  /\ output_list' = SubSeq(output_list, 1, mid)
  /\ UNCHANGED <<problem, run_it, joined_results, next_input, guess, heap, first,
                 mid, beg_remove>>

Next ==
  \/ JoinStep \/ process_input \/ compute
  \/ write_result \/ remove_duplication \/ resize

Spec == Init /\ [][Next]_vars
-------------------------------------------------------------------------------
(* Properties                                                                *)

TypeOK ==
  /\ pc \in {"join", "input", "compute", "dedup", "done"}
  /\ \A i \in DOMAIN Physical : run_it[i] \in DOMAIN packs[i]
  /\ \A i \in DOMAIN joined_results : joined_results[i].status \subseteq Bits
  /\ \A i \in DOMAIN heap : heap[i].value \subseteq heap[i].status
  /\ next_input \in 1 .. Len(joined_results) + 1
  /\ \A i \in DOMAIN output_list : output_list[i] \in 0 .. Len(heap)
  /\ mid <= first /\ first < beg_remove + Len(output_list)

\* The last belief of every context: combine neither compares nor copies it.
LastBeliefs == {Bit(c, SizeBs) : c \in Contexts}

\* What combine sees of what a belief state says about a context.
Part(bs, c) == and_bm(bs, Block(c) \ LastBeliefs)

\* Two belief states agree: no context that both know is known differently.
Agree(s, t) ==
  \A c \in Contexts :
    isEpsilon(s, c) \/ isEpsilon(t, c) \/ Part(s, c) = Part(t, c)

\* What the belief state of the i-th neighbor gives to a join: only the first one
\* gives its last beliefs.
Given(i, bs) == IF i = 1 THEN bs ELSE and_bm(bs, Bits \ LastBeliefs)

\* The inputs by definition: unions of one belief state of every neighbor that
\* agree pairwise.
Selections ==
  {f \in [DOMAIN packs -> UNION {DOMAIN packs[i] : i \in DOMAIN packs}] :
     \A i \in DOMAIN packs : f[i] \in DOMAIN packs[i]}

Joins ==
  {[status |-> UNION {Given(i, packs[i][it[i]]).status : i \in DOMAIN it},
    value |-> UNION {Given(i, packs[i][it[i]]).value : i \in DOMAIN it}] :
     it \in {f \in Selections :
               \A i, j \in DOMAIN packs : Agree(packs[i][f[i]], packs[j][f[j]])}}

\* The join of the neighbors' belief states is what its definition says, although
\* combine only looks at pairs, through masks, and in one order: every selection
\* that agrees pairwise is joined, no other one is, and the one belief that gets
\* lost is the last one of a context that a later neighbor talks about.
JoinExact == pc # "join" => Range(joined_results) = Joins

\* The n-th guess of the enumeration by next_guess is the one that jump_guess
\* computes from n: the cache, which remembers n, goes on with the right one.
GuessOfStep ==
  pc = "compute" /\ current_guess # NULL =>
    current_guess = jump_guess(current_step)

\* All guesses for the guessing neighbors.
Guesses ==
  {[status |-> EpsilonBits(Guessing) \cup GuessBits,
    value |-> EpsilonBits(Guessing) \cup S] : S \in SUBSET GuessBits}

\* The ways to complete an input.  One that does not know a guessing neighbor gets
\* every guess for all of them: a belief of another guessing neighbor that the
\* input has as false becomes true in half of them.
Completions(input) ==
  IF \A c \in Guessing : ~isEpsilon(input, c) THEN {input}
  ELSE {Or(input, g) : g \in Guesses}

\* The heads of the bridge rules that an input satisfies.
Heads(input) ==
  {r.head : r \in {q \in rules : q.pos \subseteq input.value
                                /\ q.naf \cap input.value = {}}}

\* What an input says on this context is a guess that a model must bear out.  An
\* input that knows this context and no belief of it is borne out by no model,
\* unless it says nothing else: the bits of other contexts that are compared
\* instead are in no model.
BornOut(m, input) ==
  LET own == {Bit(Ctx, a) : a \in 1 .. SizeBs} \cap input.status
  IN
  \/ isEpsilon(input, Ctx)
  \/ own # {} /\ \A b \in own : test(m, b) = test(input, b)
  \/ input.status = {starting_offset(Ctx)}

\* The local models for an input.
LocalModels(input) ==
  {m \in {parseString(kb[Heads(input)][k]) : k \in DOMAIN kb[Heads(input)]} :
     BornOut(m, input)}

\* The answer by definition: the parts that the invoker asked for of all completed
\* inputs with their local models.
Answer ==
  UNION {{And(Or(m, input), interface) : m \in LocalModels(input)} :
           input \in UNION {Completions(j) : j \in Joins}}

\* The answer that is written, after the join, the guesses, the solver and
\* remove_duplication, has every belief state of the definition once, nothing
\* else, and the end marker at its end.
AnswerAsDefined ==
  pc = "done" =>
    /\ output_list[Len(output_list)] = 0
    /\ {heap[i] : i \in Range(output_list) \ {0}} = Answer
    /\ Len(output_list) = Cardinality(Answer) + 1

\* remove_duplication deletes every belief state that it drops exactly once, and
\* none of those that it keeps.
FreedOnce ==
  /\ \A i \in DOMAIN freed : freed[i] <= 1
  /\ pc = "done" =>
       \A i \in DOMAIN freed : (freed[i] = 0) = (i \in Range(output_list))
===============================================================================
