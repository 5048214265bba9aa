-------------------------- MODULE ContextAnswerProofs --------------------------
(***************************************************************************)
(* The answer of a context to a request, for any number of contexts,       *)
(* beliefs and neighbors, any bridge rules, knowledge bases and packs: the *)
(* belief states it sends are those of the definition, every one once.     *)
(***************************************************************************)
EXTENDS ContextDataProofs, FiniteSetTheorems

\* The provers, in this order, and the time an obligation may take.
USE ZenonT(30), SMTT(20)
-------------------------------------------------------------------------------
(* The inputs and their local models                                         *)

LEMMA InputsWellFormed ==
  ASSUME NEW j, WellFormed(j), NEW i \in Inputs(j)
  PROVE  WellFormed(i)
<1>1. CASE must_guess(j)
  <2>1. PICK S \in SUBSET GuessBits : i = Or(j, Guess(S))
    BY <1>1 DEF Inputs
  <2>2. WellFormed(Guess(S))
    BY GuessState
  <2> QED BY <2>1, <2>2, OrWellFormed
<1>2. CASE ~must_guess(j)
  BY <1>2 DEF Inputs
<1> QED BY <1>1, <1>2

\* The inputs that process_input builds are the completions.
LEMMA InputsComplete ==
  ASSUME NEW j
  PROVE  Inputs(j) = Completions(j)
<1>1. Guesses = {Guess(S) : S \in SUBSET GuessBits}
  BY DEF Guesses, Guess
<1>2. {Or(j, g) : g \in Guesses} = {Or(j, Guess(S)) : S \in SUBSET GuessBits}
  BY <1>1
<1> QED BY <1>2 DEF Inputs, Completions, must_guess

\* consistent_with tells whether a model bears out what the input says on this
\* context.
LEMMA ConsistentOwn ==
  ASSUME NEW input, WellFormed(input), NEW m \in ProperStates,
         m.status = Block(Ctx), starting_offset(Ctx) \in m.value
  PROVE  consistent_with(m, input, Ctx) <=> BornOut(m, input)
<1> DEFINE off == starting_offset(Ctx)
           pos == NextBit(input.status, off)
           seen == {pos} \cup {p \in input.status : p > pos /\ p < off + SizeBs + 1}
           own == {Bit(Ctx, a) : a \in 1 .. SizeBs} \cap input.status
           X == {b \in input.status : b > off}
<1>0. Ctx \in Contexts
  BY SizesAssumption DEF Contexts
<1>1. off \in Nat /\ SizeBs \in Nat /\ off \in Block(Ctx) /\ Block(Ctx) = off .. off + SizeBs
  BY <1>0, Blocks DEF Block
<1>2. ~isEpsilon(m, Ctx)
  BY <1>1 DEF isEpsilon
<1>3. input.status \subseteq Nat
  BY Offsets, SMTT(20) DEF WellFormed, BeliefStates, Bits
<1>4. consistent_with(m, input, Ctx)
        <=> isEpsilon(input, Ctx) \/ \A p \in seen : test(m, p) = test(input, p)
  BY <1>2 DEF consistent_with
<1>5. BornOut(m, input) <=> \/ isEpsilon(input, Ctx)
                            \/ own # {} /\ \A b \in own : test(m, b) = test(input, b)
                            \/ input.status = {off}
  BY DEF BornOut
<1>6. \A b : b \in own <=> b \in X /\ b < off + SizeBs + 1
  <2>1. \A a \in 1 .. SizeBs : Bit(Ctx, a) > off /\ Bit(Ctx, a) < off + SizeBs + 1
    BY <1>1, SMTT(20) DEF Bit
  <2>2. ASSUME NEW b \in X, b < off + SizeBs + 1
        PROVE  \E a \in 1 .. SizeBs : b = Bit(Ctx, a)
    <3>1. b - off \in 1 .. SizeBs /\ b = off + (b - off)
      BY <1>1, <1>3, <2>2, SMTT(20)
    <3> QED BY <3>1 DEF Bit
  <2> HIDE DEF off
  <2> QED BY <2>1, <2>2
<1>7. ASSUME NEW b \in input.status, b \notin Block(Ctx) PROVE test(m, b) # test(input, b)
  BY <1>7 DEF test
<1>8. CASE isEpsilon(input, Ctx)
  BY <1>4, <1>5, <1>8
<1>9. CASE ~isEpsilon(input, Ctx) /\ X # {}
  <2>0. off \in input.status
    BY <1>9 DEF isEpsilon
  <2>1. PICK x \in X : \A o \in X : x <= o
    <3>1. X \subseteq Nat /\ X # {}
      BY <1>3, <1>9
    <3> HIDE DEF X
    <3> QED BY <3>1, Least
  <2>2. pos = CHOOSE b \in input.status : b > off /\ \A o \in input.status : o > off => b <= o
    <3>1. \E b \in input.status : b > off
      BY <2>1
    <3> QED BY <3>1 DEF NextBit
  <2>3. pos \in X /\ \A o \in X : pos <= o
    <3>1. \E b \in input.status : b > off /\ \A o \in input.status : o > off => b <= o
      BY <2>1
    <3> HIDE DEF pos
    <3> QED BY <2>2, <3>1
  <2> HIDE DEF pos
  <2>4. input.status # {off}
    BY <1>1, <1>3, <2>3, SMTT(20)
  <2>5. CASE own = {}
    <3>1. pos \notin Block(Ctx)
      <4>1. pos \in Nat /\ pos > off /\ ~(pos < off + SizeBs + 1)
        BY <1>3, <1>6, <2>3, <2>5
      <4> QED BY <1>1, <4>1, SMTT(20)
    <3>2. test(m, pos) # test(input, pos)
      BY <1>7, <2>3, <3>1
    <3> QED BY <1>4, <1>5, <1>9, <2>4, <2>5, <3>2
  <2>6. CASE own # {}
    <3>1. PICK e : e \in own
      BY <2>6
    <3>2. pos \in own
      <4>1. e \in X /\ e < off + SizeBs + 1
        BY <1>6, <3>1
      <4>2. pos \in Nat /\ e \in Nat /\ pos <= e
        BY <1>3, <2>3, <4>1
      <4>3. pos < off + SizeBs + 1
        BY <1>1, <4>1, <4>2, SMTT(20)
      <4> HIDE DEF X, own
      <4> QED BY <1>6, <2>3, <4>3
    <3>3. ASSUME NEW b PROVE b \in seen <=> b \in own
      <4>1. CASE b = pos
        BY <3>2, <4>1
      <4>2. CASE b # pos
        <5>1. b \in seen <=> b \in input.status /\ b > pos /\ b < off + SizeBs + 1
          BY <4>2
        <5>2. b \in input.status => (b > pos <=> b > off)
          <6>1. pos \in Nat /\ pos > off /\ off \in Nat
            BY <1>1, <1>3, <2>3
          <6>2. b \in input.status => b \in Nat /\ (b > off => pos <= b)
            BY <1>3, <2>3
          <6> HIDE DEF off
          <6> QED BY <4>2, <6>1, <6>2, SMTT(20)
        <5> HIDE DEF seen, own, off
        <5> QED BY <1>6, <5>1, <5>2
      <4> QED BY <4>1, <4>2
    <3> HIDE DEF seen, own
    <3> QED BY <1>4, <1>5, <1>9, <2>4, <2>6, <3>3
  <2> QED BY <2>5, <2>6
<1>10. CASE ~isEpsilon(input, Ctx) /\ X = {}
  <2>0. off \in input.status /\ off \in input.value
    BY <1>0, <1>10, KnownContext DEF isEpsilon
  <2>1. pos = 0
    <3>1. ~\E b \in input.status : b > off
      BY <1>10
    <3> QED BY <3>1 DEF NextBit
  <2>2. own = {}
    BY <1>6, <1>10
  <2>3. test(m, off) = test(input, off)
    BY <1>1, <2>0 DEF test
  <2>4. \A b \in input.status : b = off \/ (b \in seen /\ b \notin Block(Ctx))
    <3> SUFFICES ASSUME NEW b \in input.status, b # off PROVE b \in seen /\ b \notin Block(Ctx)
      OBVIOUS
    <3>1. b \in Nat /\ ~(b > off)
      BY <1>3, <1>10
    <3>2. b < off /\ (b = 0 \/ b > 0)
      BY <1>1, <3>1, SMTT(20)
    <3>3. b < off + SizeBs + 1 /\ b \notin off .. off + SizeBs
      BY <1>1, <3>1, <3>2, SMTT(20)
    <3> QED BY <1>1, <2>1, <3>2, <3>3
  <2>5. CASE input.status = {off}
    <3>1. ASSUME NEW p \in seen PROVE test(m, p) = test(input, p)
      <4>1. p = 0 \/ p = off
        BY <2>1, <2>5
      <4>2. CASE p # off
        <5>1. p \notin Block(Ctx)
          BY <1>1, <4>1, <4>2, SMTT(20)
        <5>2. p \notin input.status
          BY <2>5, <4>2
        <5> QED BY <5>1, <5>2 DEF test
      <4> QED BY <2>3, <4>2
    <3> QED BY <1>4, <1>5, <2>5, <3>1
  <2>6. CASE input.status # {off}
    <3>1. PICK b \in input.status : b # off
      BY <2>0, <2>6
    <3>2. b \in seen /\ test(m, b) # test(input, b)
      BY <1>7, <2>4, <3>1
    <3> HIDE DEF seen, own
    <3> QED BY <1>4, <1>5, <1>10, <2>2, <2>6, <3>2
  <2> QED BY <2>5, <2>6
<1> QED BY <1>8, <1>9, <1>10

\* What is sent for an input are its local models.
LEMMA SentLocal ==
  ASSUME rules \in RuleTables, kb \in KnowledgeBases, NEW input, WellFormed(input)
  PROVE  SentOf(rules, kb, input) = {And(Or(m, input), interface) : m \in LocalModels(input)}
<1> DEFINE models == ModelsOf(rules, kb, input)
           M(k) == parseString(models[k])
           P(m) == Projected(m, input)
           Borne(m) == BornOut(m, input)
           K == {k \in DOMAIN models : consistent_with(M(k), input, Ctx)}
<1>1. \A q : satisfied(q, input) <=> q.pos \subseteq input.value /\ q.naf \cap input.value = {}
  <2>1. \A b : test(input, b) = "true" <=> b \in input.value
    BY DEF test, WellFormed
  <2> QED BY <2>1 DEF satisfied
<1>2. models = kb[Heads(input)]
  <2>1. {q \in rules : satisfied(q, input)}
          = {q \in rules : q.pos \subseteq input.value /\ q.naf \cap input.value = {}}
    BY <1>1
  <2> QED BY <2>1 DEF ModelsOf, Heads
<1>3. models \in Seq(SUBSET (1 .. SizeBs))
  BY ModelsType
<1> HIDE DEF models
<1>4. ASSUME NEW k \in DOMAIN models
      PROVE  consistent_with(M(k), input, Ctx) <=> Borne(M(k))
  <2>1. models[k] \in SUBSET (1 .. SizeBs)
    BY <1>3, SMTT(20)
  <2>2. M(k) \in ProperStates /\ M(k).status = Block(Ctx) /\ starting_offset(Ctx) \in M(k).value
    BY <2>1, ParsedModel
  <2> HIDE DEF M
  <2> QED BY <2>2, ConsistentOwn
<1>5. LocalModels(input) = {m \in {M(k) : k \in DOMAIN models} : Borne(m)}
  BY <1>2 DEF LocalModels
<1>6. SentOf(rules, kb, input) = {P(m) : m \in {M(k) : k \in K}}
  BY DEF SentOf, models
<1> HIDE DEF M, Borne, P
<1>7. {M(k) : k \in K} = {m \in {M(k) : k \in DOMAIN models} : Borne(m)}
  BY <1>4
<1>8. SentOf(rules, kb, input) = {P(m) : m \in LocalModels(input)}
  BY <1>5, <1>6, <1>7
<1> QED BY <1>8 DEF P, Projected
-------------------------------------------------------------------------------
(* The order of the output list                                            *)

LEMMA LexOrder ==
  /\ \A S : ~LexLess(S, S)
  /\ \A S, T \in SUBSET Nat : S # T => LexLess(S, T) \/ LexLess(T, S)
  /\ \A S, T, U \in SUBSET Nat : LexLess(S, T) /\ LexLess(T, U) => LexLess(S, U)
<1>1. \A S : ~LexLess(S, S)
  BY DEF LexLess
<1>2. ASSUME NEW S \in SUBSET Nat, NEW T \in SUBSET Nat, S # T
      PROVE  LexLess(S, T) \/ LexLess(T, S)
  <2> DEFINE X == (S \ T) \cup (T \ S)
  <2>1. X \subseteq Nat /\ X # {}
    BY <1>2
  <2>2. PICK b \in X : \A o \in X : b <= o
    <3> HIDE DEF X
    <3> QED BY <2>1, Least
  <2>3. \A o \in S \cup T : o < b => o \in S /\ o \in T
    BY <2>2, SMTT(20)
  <2> QED BY <2>2, <2>3 DEF LexLess
<1>3. ASSUME NEW S \in SUBSET Nat, NEW T \in SUBSET Nat, NEW U \in SUBSET Nat,
             LexLess(S, T), LexLess(T, U)
      PROVE  LexLess(S, U)
  <2>1. PICK b \in T \ S : \A o \in S \cup T : o < b => o \in S /\ o \in T
    BY <1>3 DEF LexLess
  <2>2. PICK c \in U \ T : \A o \in T \cup U : o < c => o \in T /\ o \in U
    BY <1>3 DEF LexLess
  <2>3. CASE b < c
    <3>1. b \in U \ S
      BY <2>1, <2>2, <2>3
    <3>2. \A o \in S \cup U : o < b => o \in S /\ o \in U
      BY <2>1, <2>2, <2>3, SMTT(20)
    <3> QED BY <3>1, <3>2 DEF LexLess
  <2>4. CASE c < b
    <3>1. c \in U \ S
      BY <2>1, <2>2, <2>4
    <3>2. \A o \in S \cup U : o < c => o \in S /\ o \in U
      BY <2>1, <2>2, <2>4, SMTT(20)
    <3> QED BY <3>1, <3>2 DEF LexLess
  <2>5. b \in Nat /\ c \in Nat /\ b # c
    BY <2>1, <2>2
  <2> QED BY <2>3, <2>4, <2>5, SMTT(20)
<1> QED BY <1>1, <1>2, <1>3

\* Belief states are ordered one after the other.
LEMMA LessOrder ==
  /\ \A s : ~Less(s, s)
  /\ \A s, t \in BeliefStates : s # t => Less(s, t) \/ Less(t, s)
  /\ \A s, t, u \in BeliefStates : Less(s, t) /\ Less(t, u) => Less(s, u)
<1>1. \A s : ~Less(s, s)
  BY LexOrder DEF Less
<1>2. \A s \in BeliefStates : s.status \in SUBSET Nat /\ s.value \in SUBSET Nat
                              /\ s = [status |-> s.status, value |-> s.value]
  BY SMTT(20) DEF BeliefStates, Bits
<1>3. ASSUME NEW s \in BeliefStates, NEW t \in BeliefStates, s # t
      PROVE  Less(s, t) \/ Less(t, s)
  <2>1. s.status # t.status \/ s.value # t.value
    BY <1>2, <1>3
  <2>2. s.status # t.status => LexLess(s.status, t.status) \/ LexLess(t.status, s.status)
    BY <1>2, LexOrder
  <2>3. s.value # t.value => LexLess(s.value, t.value) \/ LexLess(t.value, s.value)
    BY <1>2, LexOrder
  <2> QED BY <2>1, <2>2, <2>3 DEF Less
<1>4. ASSUME NEW s \in BeliefStates, NEW t \in BeliefStates, NEW u \in BeliefStates,
             Less(s, t), Less(t, u)
      PROVE  Less(s, u)
  <2>1. LexLess(s.status, t.status) /\ LexLess(t.status, u.status)
        => LexLess(s.status, u.status)
    BY <1>2, LexOrder
  <2>2. LexLess(s.value, t.value) /\ LexLess(t.value, u.value)
        => LexLess(s.value, u.value)
    BY <1>2, LexOrder
  <2> QED BY <1>4, <2>1, <2>2 DEF Less
<1> QED BY <1>1, <1>3, <1>4

\* R orders the elements of D one after the other.
IsOrder(R, D) ==
  /\ \A j \in D : <<j, j>> \notin R
  /\ \A j, k \in D : j # k => <<j, k>> \in R \/ <<k, j>> \in R
  /\ \A j, k, l \in D : <<j, k>> \in R /\ <<k, l>> \in R => <<j, l>> \in R

Place(R, D, k) == Cardinality({j \in D : <<j, k>> \in R}) + 1

\* The places that the number of earlier elements gives are 1 .. n, each once.
LEMMA Places ==
  ASSUME NEW n \in Nat, NEW R, IsOrder(R, 1 .. n)
  PROVE  /\ \A k \in 1 .. n : Place(R, 1 .. n, k) \in 1 .. n
         /\ \A j, k \in 1 .. n : <<j, k>> \in R => Place(R, 1 .. n, j) < Place(R, 1 .. n, k)
         /\ \A m \in 1 .. n : \E k \in 1 .. n : Place(R, 1 .. n, k) = m
<1> DEFINE D == 1 .. n
           P(k) == {j \in D : <<j, k>> \in R}
<1>1. IsFiniteSet(D) /\ Cardinality(D) = n
  BY FS_Interval, SMTT(20)
<1>2. \A k \in D : IsFiniteSet(P(k)) /\ Cardinality(P(k)) \in Nat /\ k \notin P(k)
  <2> SUFFICES ASSUME NEW k \in D
               PROVE  IsFiniteSet(P(k)) /\ Cardinality(P(k)) \in Nat /\ k \notin P(k)
    OBVIOUS
  <2>1. P(k) \in SUBSET D /\ k \notin P(k)
    BY DEF IsOrder
  <2> HIDE DEF P, D
  <2> QED BY <1>1, <2>1, FS_Subset, FS_CardinalityType
<1>3. ASSUME NEW j \in D, NEW k \in D, <<j, k>> \in R
      PROVE  Cardinality(P(j)) < Cardinality(P(k))
  <2>1. P(j) \in SUBSET P(k)
    BY <1>3 DEF IsOrder
  <2>2. j \in P(k) /\ j \notin P(j)
    BY <1>3 DEF IsOrder
  <2> HIDE DEF P
  <2>3. IsFiniteSet(P(k)) /\ Cardinality(P(j)) \in Nat /\ Cardinality(P(k)) \in Nat
    BY <1>2
  <2>4. Cardinality(P(j)) <= Cardinality(P(k))
        /\ (Cardinality(P(k)) = Cardinality(P(j)) => P(k) = P(j))
    BY <2>1, <2>3, FS_Subset
  <2> QED BY <2>2, <2>3, <2>4, SMTT(20)
<1>4. ASSUME NEW k \in D PROVE Cardinality(P(k)) < n
  <2>1. P(k) \in SUBSET D /\ P(k) # D
    BY DEF IsOrder
  <2> HIDE DEF P, D
  <2>2. Cardinality(P(k)) <= Cardinality(D)
        /\ (Cardinality(D) = Cardinality(P(k)) => D = P(k))
    BY <1>1, <2>1, FS_Subset
  <2>3. Cardinality(P(k)) \in Nat
    BY <1>2
  <2> QED BY <1>1, <2>1, <2>2, <2>3, SMTT(20)
<1> HIDE DEF P
<1>5. \A k \in D : Place(R, D, k) = Cardinality(P(k)) + 1
  BY DEF Place, P
<1>6. ASSUME NEW k \in D PROVE Place(R, D, k) \in D
  <2>1. Cardinality(P(k)) \in Nat /\ Cardinality(P(k)) < n
    BY <1>2, <1>4
  <2>2. Place(R, D, k) = Cardinality(P(k)) + 1
    BY <1>5
  <2> QED BY <2>1, <2>2, SMTT(20)
<1>7. \A j, k \in D : <<j, k>> \in R => Place(R, D, j) < Place(R, D, k)
  BY <1>2, <1>3, <1>5, SMTT(20)
<1> DEFINE f == [k \in D |-> Place(R, D, k)]
<1>8. f \in Injection(D, D)
  <2>1. f \in [D -> D]
    BY <1>6
  <2>2. ASSUME NEW j \in D, NEW k \in D, f[j] = f[k] PROVE j = k
    <3>1. Place(R, D, j) = Place(R, D, k) /\ Place(R, D, j) \in D /\ Place(R, D, k) \in D
      BY <1>6, <2>2
    <3>2. <<j, k>> \notin R /\ <<k, j>> \notin R
      BY <1>7, <3>1, SMTT(20)
    <3> QED BY <3>2 DEF IsOrder
  <2> QED BY <2>1, <2>2 DEF Injection, IsInjective
<1>9. f \in Surjection(D, D)
  <2> HIDE DEF f, D
  <2> QED BY <1>1, <1>8, FS_Injection
<1>10. \A m \in D : \E k \in D : Place(R, D, k) = m
  BY <1>9 DEF Surjection
<1> QED BY <1>6, <1>7, <1>10

\* my_compare and the == of the elements of the list, for a given heap.
Smaller(h, i, j) == i # 0 /\ (j = 0 \/ Less(h[i], h[j]))
Same(h, i, j) == IF i = 0 \/ j = 0 THEN i = j ELSE h[i] = h[j]

LEMMA CompareOf ==
  \A i, j : my_compare(i, j) = Smaller(heap, i, j) /\ SameState(i, j) = Same(heap, i, j)
BY DEF my_compare, Smaller, SameState, Same

\* my_compare orders the elements up to ==.
LEMMA SmallerOrder ==
  ASSUME NEW h \in Seq(ProperStates), NEW i \in 0 .. Len(h), NEW j \in 0 .. Len(h),
         NEW k \in 0 .. Len(h)
  PROVE  /\ Same(h, i, i) /\ (Same(h, i, j) => Same(h, j, i))
         /\ Same(h, i, j) /\ Same(h, j, k) => Same(h, i, k)
         /\ Smaller(h, i, j) \/ Smaller(h, j, i) \/ Same(h, i, j)
         /\ Smaller(h, i, j) => ~Smaller(h, j, i) /\ ~Same(h, i, j)
         /\ Smaller(h, i, j) /\ Smaller(h, j, k) => Smaller(h, i, k)
         /\ Smaller(h, i, j) /\ Same(h, j, k) => Smaller(h, i, k)
         /\ Same(h, i, j) /\ Smaller(h, j, k) => Smaller(h, i, k)
<1>1. \A n \in 0 .. Len(h) : n # 0 => h[n] \in BeliefStates
  BY SMTT(20) DEF ProperStates
<1>2. Same(h, i, i) /\ (Same(h, i, j) => Same(h, j, i))
      /\ (Same(h, i, j) /\ Same(h, j, k) => Same(h, i, k))
  BY DEF Same
<1>3. Smaller(h, i, j) \/ Smaller(h, j, i) \/ Same(h, i, j)
  BY <1>1, LessOrder DEF Smaller, Same
<1>4. Smaller(h, i, j) /\ Smaller(h, j, k) => Smaller(h, i, k)
  BY <1>1, LessOrder DEF Smaller
<1>5. Smaller(h, i, j) => ~Smaller(h, j, i) /\ ~Same(h, i, j)
  BY <1>1, LessOrder DEF Smaller, Same
<1>6. /\ Smaller(h, i, j) /\ Same(h, j, k) => Smaller(h, i, k)
      /\ Same(h, i, j) /\ Smaller(h, j, k) => Smaller(h, i, k)
  BY DEF Smaller, Same
<1> QED BY <1>2, <1>3, <1>4, <1>5, <1>6

\* list_sort permutes the list, and an element never goes before a smaller one.
LEMMA Sorted ==
  ASSUME heap \in Seq(ProperStates), NEW list \in Seq(0 .. Len(heap))
  PROVE  LET out == list_sort(list) IN
         /\ out \in Seq(0 .. Len(heap)) /\ Len(out) = Len(list)
         /\ \A k \in 1 .. Len(list) : \E m \in 1 .. Len(list) : out[m] = list[k]
         /\ \E c \in [1 .. Len(list) -> 1 .. Len(list)] :
              \A m \in 1 .. Len(list) : out[m] = list[c[m]]
                /\ \A l \in 1 .. Len(list) : c[m] = c[l] => m = l
         /\ \A j, k \in 1 .. Len(list) : j < k => ~Smaller(heap, out[k], out[j])
<1> DEFINE n == Len(list)
           D == 1 .. n
           R == {e \in D \X D : \/ Smaller(heap, list[e[1]], list[e[2]])
                                \/ e[1] < e[2] /\ ~Smaller(heap, list[e[2]], list[e[1]])}
           c == [m \in D |-> CHOOSE k \in D : Place(R, D, k) = m]
           out == list_sort(list)
<1>0. n \in Nat /\ DOMAIN list = D /\ \A k \in D : list[k] \in 0 .. Len(heap)
  BY SMTT(20)
<1>1. \A j, k \in D : <<j, k>> \in R <=> \/ Smaller(heap, list[j], list[k])
                                         \/ j < k /\ ~Smaller(heap, list[k], list[j])
  OBVIOUS
<1>2. IsOrder(R, D)
  <2>1. ASSUME NEW j \in D PROVE <<j, j>> \notin R
    <3>1. ~Smaller(heap, list[j], list[j])
      BY <1>0, SmallerOrder
    <3> HIDE DEF R
    <3> QED BY <1>1, <3>1, SMTT(20)
  <2>2. ASSUME NEW j \in D, NEW k \in D, j # k PROVE <<j, k>> \in R \/ <<k, j>> \in R
    <3> HIDE DEF R
    <3> QED BY <1>1, <2>2, SMTT(20)
  <2>3. ASSUME NEW j \in D, NEW k \in D, NEW l \in D, <<j, k>> \in R, <<k, l>> \in R
        PROVE  <<j, l>> \in R
    <3> HIDE DEF R
    <3> DEFINE a == list[j]
               b == list[k]
               d == list[l]
    <3>0. a \in 0 .. Len(heap) /\ b \in 0 .. Len(heap) /\ d \in 0 .. Len(heap)
      BY <1>0
    <3>1. Smaller(heap, a, b) \/ (j < k /\ ~Smaller(heap, b, a))
      BY <1>1, <2>3
    <3>2. Smaller(heap, b, d) \/ (k < l /\ ~Smaller(heap, d, b))
      BY <1>1, <2>3
    <3>3. SUFFICES Smaller(heap, a, d) \/ (j < l /\ ~Smaller(heap, d, a))
      BY <1>1
    <3> HIDE DEF a, b, d
    <3>4. /\ Smaller(heap, a, b) \/ Smaller(heap, b, a) \/ Same(heap, a, b)
          /\ Smaller(heap, b, d) \/ Smaller(heap, d, b) \/ Same(heap, b, d)
          /\ Smaller(heap, a, b) /\ Smaller(heap, b, d) => Smaller(heap, a, d)
          /\ Smaller(heap, a, b) /\ Same(heap, b, d) => Smaller(heap, a, d)
          /\ Same(heap, a, b) /\ Smaller(heap, b, d) => Smaller(heap, a, d)
          /\ Same(heap, a, b) /\ Same(heap, b, d) => Same(heap, a, d)
      BY <3>0, SmallerOrder
    <3>5. Same(heap, a, d) => ~Smaller(heap, d, a)
      BY <3>0, SmallerOrder
    <3> QED BY <1>0, <3>1, <3>2, <3>4, <3>5, SMTT(20)
  <2> QED BY <2>1, <2>2, <2>3 DEF IsOrder
<1>3. out = [m \in D |-> list[c[m]]]
  <2> DEFINE before(j, k) == my_compare(list[j], list[k])
                             \/ (j < k /\ ~my_compare(list[k], list[j]))
             place == [k \in D |-> Cardinality({j \in D : before(j, k)}) + 1]
             chosen(m) == CHOOSE k \in D : place[k] = m
  <2>1. out = [m \in D |-> list[chosen(m)]]
    BY <1>0, SMTT(20) DEF list_sort
  <2>2. \A k \in D : {j \in D : before(j, k)} = {j \in D : <<j, k>> \in R}
    BY <1>1, CompareOf
  <2>3. \A k \in D : place[k] = Place(R, D, k)
    <3> HIDE DEF R, before, D
    <3> QED BY <2>2 DEF Place
  <2>4. \A m : (CHOOSE k \in D : place[k] = m) = (CHOOSE k \in D : Place(R, D, k) = m)
    <3> HIDE DEF R, place, D
    <3> QED BY <2>3
  <2>5. \A m \in D : c[m] = chosen(m)
    <3> HIDE DEF R, place, D
    <3> QED BY <2>4
  <2> HIDE DEF chosen, D, c, out
  <2> QED BY <2>1, <2>5
<1> HIDE DEF R
<1>4. /\ \A m \in D : \E k \in D : Place(R, D, k) = m
      /\ \A k \in D : Place(R, D, k) \in D
      /\ \A j, k \in D : <<j, k>> \in R => Place(R, D, j) < Place(R, D, k)
  BY <1>0, <1>2, Places
<1>5. c \in [D -> D] /\ \A m \in D : c[m] \in D /\ Place(R, D, c[m]) = m
  <2> HIDE DEF D
  <2> QED BY <1>4 DEF c
<1> HIDE DEF c, out
<1>6. ASSUME NEW k \in D PROVE \E m \in D : out[m] = list[k]
  <2>1. PICK m \in D : m = Place(R, D, k)
    BY <1>4
  <2>2. c[m] = k
    <3>1. c[m] \in D /\ Place(R, D, c[m]) = m
      BY <1>5
    <3>2. m \in Int /\ Place(R, D, k) = m /\ Place(R, D, c[m]) = m
      BY <2>1, <3>1, SMTT(20)
    <3>3. /\ <<c[m], k>> \in R => Place(R, D, c[m]) < Place(R, D, k)
          /\ <<k, c[m]>> \in R => Place(R, D, k) < Place(R, D, c[m])
      BY <1>4, <3>1
    <3>4. <<c[m], k>> \notin R /\ <<k, c[m]>> \notin R
      BY <3>2, <3>3, SMTT(20)
    <3> QED BY <1>2, <3>1, <3>4 DEF IsOrder
  <2> QED BY <1>3, <2>2
<1>7. ASSUME NEW j \in D, NEW k \in D, j < k PROVE ~Smaller(heap, out[k], out[j])
  <2>1. c[j] \in D /\ c[k] \in D /\ Place(R, D, c[j]) = j /\ Place(R, D, c[k]) = k
    BY <1>5
  <2>2. <<c[k], c[j]>> \in R => Place(R, D, c[k]) < Place(R, D, c[j])
    BY <1>4, <2>1
  <2>3. <<c[k], c[j]>> \notin R
    BY <1>7, <2>1, <2>2, SMTT(20)
  <2>4. ~Smaller(heap, list[c[k]], list[c[j]])
    BY <1>1, <2>1, <2>3
  <2> QED BY <1>3, <2>4
<1>8. c \in [D -> D] /\ \A m \in D : out[m] = list[c[m]] /\ \A l \in D : c[m] = c[l] => m = l
  BY <1>3, <1>5
<1>9. out \in Seq(0 .. Len(heap)) /\ Len(out) = n
  <2>1. \A m \in D : list[c[m]] \in 0 .. Len(heap)
    BY <1>0, <1>5
  <2> QED BY <1>0, <1>3, <2>1, SMTT(20)
<1> QED BY <1>6, <1>7, <1>8, <1>9 DEF out
-------------------------------------------------------------------------------
(* The removal of duplicates                                                 *)

\* The positions of the list whose elements are still there: those that were kept,
\* and those from beg_remove on.
Active(out, m, b) == {k \in 1 .. Len(out) : k <= m \/ k >= b}

\* The positions in A have different elements in ascending order, the end marker is
\* among them, and for every belief state there is one that equals it.
Listed(h, out, A) ==
  /\ \A j, k \in A : j # k => out[j] # out[k]
  /\ \A j, k \in A : j < k => ~Smaller(h, out[k], out[j])
  /\ \E k \in A : out[k] = 0
  /\ \A i \in 1 .. Len(h) : \E k \in A : Same(h, i, out[k])

\* What holds between two steps of remove_duplication: the elements that were kept
\* ascend strictly, and those from beg_remove to first equal the last of them.
DedupAt(h, out, f, m, b) ==
  /\ out \in Seq(0 .. Len(h)) /\ f \in 1 .. Len(h) + 1
  /\ m \in 1 .. f /\ b \in m + 1 .. f + 1 /\ m <= Len(out)
  /\ Listed(h, out, Active(out, m, b))
  /\ \A j, k \in 1 .. m : j < k => Smaller(h, out[j], out[k])
  /\ \A k \in b .. f : Same(h, out[m], out[k])

\* What is no longer listed was deleted once.
FreedAt(h, out, m, b) ==
  [i \in 1 .. Len(h) |-> IF \E k \in Active(out, m, b) : out[k] = i THEN 0 ELSE 1]

\* The positions B of new have the elements of some positions of A, in their order,
\* and the other elements of A have an equal one among them.
IsMove(h, out, A, new, B, p) ==
  /\ h \in Seq(ProperStates) /\ A \in SUBSET Int /\ B \in SUBSET Int
  /\ \A k \in A : out[k] \in 0 .. Len(h)
  /\ p \in [B -> A] /\ \A j, k \in B : j < k => p[j] < p[k]
  /\ \A k \in B : new[k] = out[p[k]]
  /\ \A k \in A : (\E l \in B : p[l] = k) \/
                   (out[k] # 0 /\ \E l \in B : Same(h, out[k], out[p[l]]))

LEMMA ListedMove ==
  ASSUME NEW h, NEW out, NEW A, NEW new, NEW B, NEW p,
         IsMove(h, out, A, new, B, p), Listed(h, out, A)
  PROVE  Listed(h, new, B)
<1>0. /\ h \in Seq(ProperStates) /\ A \in SUBSET Int /\ B \in SUBSET Int
      /\ \A k \in A : out[k] \in 0 .. Len(h)
      /\ p \in [B -> A] /\ \A j, k \in B : j < k => p[j] < p[k]
      /\ \A k \in B : new[k] = out[p[k]]
      /\ \A k \in A : (\E l \in B : p[l] = k) \/
                       (out[k] # 0 /\ \E l \in B : Same(h, out[k], out[p[l]]))
  BY DEF IsMove
<1>1. ASSUME NEW j \in B, NEW k \in B, j # k PROVE new[j] # new[k]
  <2>1. j \in Int /\ k \in Int /\ p[j] \in A /\ p[k] \in A /\ p[j] \in Int /\ p[k] \in Int
    BY <1>0
  <2>2. p[j] # p[k]
    BY <1>0, <1>1, <2>1, SMTT(20)
  <2> QED BY <1>0, <2>1, <2>2, SMTT(20) DEF Listed
<1>2. ASSUME NEW j \in B, NEW k \in B, j < k PROVE ~Smaller(h, new[k], new[j])
  <2>1. p[j] \in A /\ p[k] \in A /\ p[j] < p[k]
    BY <1>0, <1>2
  <2> QED BY <1>0, <2>1 DEF Listed
<1>3. \E k \in B : new[k] = 0
  <2>1. PICK a \in A : out[a] = 0
    BY <1>0 DEF Listed
  <2>2. PICK l \in B : p[l] = a
    BY <1>0, <2>1
  <2> QED BY <1>0, <2>1, <2>2
<1>4. ASSUME NEW i \in 1 .. Len(h) PROVE \E k \in B : Same(h, i, new[k])
  <2>1. PICK a \in A : Same(h, i, out[a])
    BY <1>0 DEF Listed
  <2>2. CASE \E l \in B : p[l] = a
    BY <1>0, <2>1, <2>2
  <2>3. CASE \E l \in B : Same(h, out[a], out[p[l]])
    <3>1. PICK l \in B : Same(h, out[a], out[p[l]])
      BY <1>0, <2>3
    <3>2. p[l] \in A /\ i \in 0 .. Len(h)
      BY <1>0, SMTT(20)
    <3>3. out[a] \in 0 .. Len(h) /\ out[p[l]] \in 0 .. Len(h)
      BY <1>0, <3>2
    <3>4. Same(h, i, out[p[l]])
      BY <1>0, <2>1, <3>1, <3>2, <3>3, SmallerOrder
    <3> QED BY <1>0, <3>4
  <2> QED BY <1>0, <2>2, <2>3
<1> QED BY <1>1, <1>2, <1>3, <1>4 DEF Listed

\* remove_duplication goes over an element that equals the last one kept.
LEMMA DedupSkip ==
  ASSUME NEW h, NEW out, NEW f, NEW m, NEW b, DedupAt(h, out, f, m, b),
         f < Len(out), Len(out) = Len(h) + 1, Same(h, out[m], out[f + 1])
  PROVE  DedupAt(h, out, f + 1, m, b)
<1>0. Len(h) + 1 \in Int
  <2>1. Len(out) \in Nat
    BY SMTT(20) DEF DedupAt
  <2> QED BY <2>1, SMTT(20)
<1>1. f \in 1 .. Len(h) + 1 /\ m \in 1 .. f /\ b \in m + 1 .. f + 1
  BY DEF DedupAt
<1>2. f + 1 \in 1 .. Len(h) + 1 /\ m \in 1 .. f + 1 /\ b \in m + 1 .. f + 1 + 1
  BY <1>0, <1>1, SMTT(20)
<1>3. \A k \in b .. f + 1 : k \in b .. f \/ k = f + 1
  BY <1>1, SMTT(20)
<1>4. \A k \in b .. f + 1 : Same(h, out[m], out[k])
  BY <1>3 DEF DedupAt
<1> QED BY <1>2, <1>4 DEF DedupAt

\* remove_duplication keeps an element that differs from the last one, and deletes
\* those between them.
Dropped(out, b, f, i) == Cardinality({k \in b .. f : out[k] = i})

Keeps(h, out, f, m, b, new) ==
  /\ h \in Seq(ProperStates) /\ DedupAt(h, out, f, m, b)
  /\ f < Len(out) /\ Len(out) = Len(h) + 1 /\ ~Same(h, out[m], out[f + 1])
  /\ new = [out EXCEPT ![m + 1] = out[f + 1]]

LEMMA DedupKeep ==
  ASSUME NEW h, NEW out, NEW f, NEW m, NEW b, NEW new, Keeps(h, out, f, m, b, new)
  PROVE  /\ DedupAt(h, new, f + 1, m + 1, f + 2)
         /\ \A i \in 1 .. Len(h) :
              FreedAt(h, new, m + 1, f + 2)[i] =
                FreedAt(h, out, m, b)[i] + Dropped(out, b, f, i)
<1> SUFFICES ASSUME h \in Seq(ProperStates), DedupAt(h, out, f, m, b),
                    f < Len(out), Len(out) = Len(h) + 1, ~Same(h, out[m], out[f + 1]),
                    new = [out EXCEPT ![m + 1] = out[f + 1]]
             PROVE  /\ DedupAt(h, new, f + 1, m + 1, f + 2)
                    /\ \A i \in 1 .. Len(h) :
                         FreedAt(h, new, m + 1, f + 2)[i] =
                           FreedAt(h, out, m, b)[i] + Dropped(out, b, f, i)
  BY DEF Keeps
<1> DEFINE n == Len(out)
           A == Active(out, m, b)
           B == Active(new, m + 1, f + 2)
           p == [k \in B |-> IF k = m + 1 THEN f + 1 ELSE k]
<1>o. out \in Seq(0 .. Len(h)) /\ n = Len(h) + 1
  BY DEF DedupAt
<1>1. /\ n \in Int /\ f \in Int /\ m \in Int /\ b \in Int
      /\ 1 <= m /\ m <= f /\ f < n /\ m < b /\ b <= f + 1
  <2>1. f \in 1 .. Len(h) + 1 /\ m \in 1 .. f /\ b \in m + 1 .. f + 1
    BY DEF DedupAt
  <2>2. n \in Nat
    BY <1>o, SMTT(20)
  <2>3. f \in Int /\ 1 <= f
    BY <2>1, <2>2, SMTT(20)
  <2>4. m \in Int /\ 1 <= m /\ m <= f
    BY <2>1, <2>3, SMTT(20)
  <2> QED BY <2>1, <2>2, <2>3, <2>4, SMTT(20)
<1>2. /\ new \in Seq(0 .. Len(h)) /\ Len(new) = n
      /\ \A k \in 1 .. n : new[k] = IF k = m + 1 THEN out[f + 1] ELSE out[k]
  <2>1. m + 1 \in 1 .. n /\ f + 1 \in 1 .. n
    BY <1>1, SMTT(20)
  <2> QED BY <1>o, <2>1, SMTT(20)
<1>3. /\ A = {k \in 1 .. n : k <= m \/ k >= b}
      /\ B = {k \in 1 .. n : k <= m + 1 \/ k >= f + 2}
  BY <1>2 DEF Active
<1>4. A \in SUBSET Int /\ B \in SUBSET Int /\ \A k \in A : out[k] \in 0 .. Len(h)
  <2> HIDE DEF A, B
  <2>1. A \subseteq 1 .. n /\ B \subseteq 1 .. n
    BY <1>3
  <2>2. \A k \in 1 .. n : k \in Int /\ out[k] \in 0 .. Len(h)
    BY <1>o, SMTT(20)
  <2> HIDE DEF n
  <2> QED BY <2>1, <2>2
<1>l. Listed(h, out, A)
  BY DEF DedupAt
<1>d. \A k \in b .. f : Same(h, out[m], out[k])
  BY DEF DedupAt
<1>x. \A j, k \in 1 .. m : j < k => Smaller(h, out[j], out[k])
  BY DEF DedupAt
<1> HIDE DEF A, B, n
<1>5. p \in [B -> A]
  BY <1>1, <1>3, SMTT(20)
<1>6. ASSUME NEW j \in B, NEW k \in B, j < k PROVE p[j] < p[k]
  <2>1. /\ p[j] = IF j = m + 1 THEN f + 1 ELSE j
        /\ p[k] = IF k = m + 1 THEN f + 1 ELSE k
    OBVIOUS
  <2>2. /\ j \in Int /\ k \in Int
        /\ (j <= m + 1 \/ j >= f + 2) /\ (k <= m + 1 \/ k >= f + 2)
    BY <1>3, <1>4
  <2> QED BY <1>1, <1>6, <2>1, <2>2, SMTT(20)
<1>n. \A k \in B : new[k] = out[p[k]]
  BY <1>2, <1>3
<1>7. ASSUME NEW k \in A PROVE (\E l \in B : p[l] = k) \/ k \in b .. f
  <2>1. CASE k = f + 1
    <3>1. m + 1 \in B /\ p[m + 1] = k
      BY <1>1, <1>3, <2>1, SMTT(20)
    <3> QED BY <3>1
  <2>2. CASE k <= m \/ k >= f + 2
    <3>1. k \in B /\ p[k] = k
      BY <1>1, <1>3, <2>2, SMTT(20)
    <3> QED BY <3>1
  <2>3. k \in Int /\ (k <= m \/ k >= b)
    BY <1>3, <1>4
  <2>4. k = f + 1 \/ (k <= m \/ k >= f + 2) \/ k \in b .. f
    BY <1>1, <2>3, SMTT(20)
  <2> QED BY <2>1, <2>2, <2>4
<1>m. m \in A /\ m \in B /\ p[m] = m /\ f + 1 \in A /\ m < f + 1
  BY <1>1, <1>3, SMTT(20)
<1>b. b .. f \subseteq A /\ \A k \in b .. f : k # m /\ k # f + 1
  BY <1>1, <1>3, SMTT(20)
<1>p. \A l \in B : p[l] \notin b .. f
  BY <1>1, <1>3, SMTT(20)
<1> HIDE DEF p
<1>8. Listed(h, new, B)
  <2>1. ASSUME NEW k \in b .. f PROVE out[k] # 0 /\ Same(h, out[k], out[p[m]])
    <3>1. out[m] \in 0 .. Len(h) /\ out[k] \in 0 .. Len(h)
      BY <1>m, <1>b, <1>4
    <3>2. out[m] # out[k] /\ Same(h, out[m], out[k])
      BY <1>m, <1>b, <1>l, <1>d DEF Listed
    <3>3. Same(h, out[k], out[m])
      BY <3>1, <3>2, SmallerOrder
    <3> QED BY <1>m, <3>2, <3>3 DEF Same
  <2>2. \A k \in A : (\E l \in B : p[l] = k) \/
                     (out[k] # 0 /\ \E l \in B : Same(h, out[k], out[p[l]]))
    BY <1>7, <1>m, <2>1
  <2>3. \A j, k \in B : j < k => p[j] < p[k]
    BY <1>6
  <2>4. IsMove(h, out, A, new, B, p)
    BY <1>4, <1>5, <1>n, <2>2, <2>3 DEF IsMove
  <2> QED BY <1>l, <2>4, ListedMove, SMTT(20)
<1>9. Smaller(h, out[m], out[f + 1])
  <2>1. out[m] \in 0 .. Len(h) /\ out[f + 1] \in 0 .. Len(h)
    BY <1>m, <1>4
  <2>2. ~Smaller(h, out[f + 1], out[m])
    BY <1>m, <1>l DEF Listed
  <2> QED BY <2>1, <2>2, SmallerOrder
<1>10. ASSUME NEW j \in 1 .. m + 1, NEW k \in 1 .. m + 1, j < k
       PROVE  Smaller(h, new[j], new[k])
  <2>0. j \in 1 .. m /\ new[j] = out[j]
    <3>1. j \in 1 .. m /\ j \in 1 .. n /\ j # m + 1
      BY <1>1, <1>10, SMTT(20)
    <3> QED BY <1>2, <3>1
  <2>1. CASE k \in 1 .. m
    <3>1. new[k] = out[k]
      BY <1>1, <1>2, <2>1, SMTT(20)
    <3> QED BY <1>10, <1>x, <2>0, <2>1, <3>1
  <2>2. CASE k = m + 1
    <3>1. new[k] = out[f + 1]
      BY <1>1, <1>2, <2>2, SMTT(20)
    <3>2. CASE j = m
      BY <1>9, <2>0, <3>1, <3>2
    <3>3. CASE j < m
      <4>1. m \in 1 .. m /\ j \in A
        BY <1>1, <1>3, <2>0, SMTT(20)
      <4>2. Smaller(h, out[j], out[m])
        BY <1>x, <2>0, <3>3, <4>1
      <4>3. out[j] \in 0 .. Len(h) /\ out[m] \in 0 .. Len(h) /\ out[f + 1] \in 0 .. Len(h)
        BY <1>m, <1>4, <4>1
      <4>4. Smaller(h, out[j], out[f + 1])
        BY <1>9, <4>2, <4>3, SmallerOrder
      <4> QED BY <2>0, <3>1, <4>4
    <3> QED BY <1>1, <2>0, <3>2, <3>3, SMTT(20)
  <2> QED BY <1>1, <2>1, <2>2, SMTT(20)
<1>11. DedupAt(h, new, f + 1, m + 1, f + 2)
  <2>1. /\ f + 1 \in 1 .. n /\ m + 1 \in 1 .. f + 1
        /\ f + 2 \in (m + 1) + 1 .. (f + 1) + 1 /\ m + 1 <= n
    BY <1>1, SMTT(20)
  <2>2. (f + 2) .. (f + 1) = {}
    BY <1>1, SMTT(20)
  <2> QED BY <1>o, <1>2, <1>8, <1>10, <2>1, <2>2 DEF DedupAt, B
<1>12. ASSUME NEW i \in 1 .. Len(h)
       PROVE  FreedAt(h, new, m + 1, f + 2)[i] =
                FreedAt(h, out, m, b)[i] + Dropped(out, b, f, i)
  <2> DEFINE X == {k \in b .. f : out[k] = i}
  <2>x. Dropped(out, b, f, i) = Cardinality(X)
    BY DEF Dropped
  <2>0. /\ FreedAt(h, new, m + 1, f + 2)[i] = IF \E k \in B : new[k] = i THEN 0 ELSE 1
        /\ FreedAt(h, out, m, b)[i] = IF \E k \in A : out[k] = i THEN 0 ELSE 1
    BY DEF FreedAt, A, B
  <2>1. CASE \E k \in B : new[k] = i
    <3>1. PICK l \in B : new[l] = i
      BY <2>1
    <3>2. p[l] \in A /\ out[p[l]] = i /\ p[l] \notin b .. f
      BY <1>5, <1>n, <1>p, <3>1
    <3>3. X = {}
      BY <1>b, <1>l, <3>2 DEF Listed
    <3>4. Cardinality(X) = 0
      BY <3>3, FS_EmptySet
    <3> HIDE DEF X
    <3> QED BY <2>0, <2>1, <3>2, <3>4, <2>x, SMTT(20)
  <2>2. CASE ~(\E k \in B : new[k] = i) /\ \E k \in A : out[k] = i
    <3>1. PICK a \in A : out[a] = i
      BY <2>2
    <3>2. a \in b .. f
      BY <1>n, <1>7, <2>2, <3>1, SMTT(20)
    <3>3. X = {a}
      BY <1>b, <1>l, <3>1, <3>2 DEF Listed
    <3>4. Cardinality(X) = 1
      BY <3>3, FS_Singleton
    <3> HIDE DEF X
    <3> QED BY <2>0, <2>2, <3>4, <2>x, SMTT(20)
  <2>3. CASE ~(\E k \in A : out[k] = i)
    <3>1. X = {}
      BY <1>b, <2>3
    <3>2. ~(\E k \in B : new[k] = i)
      BY <1>5, <1>n, <2>3
    <3>3. Cardinality(X) = 0
      BY <3>1, FS_EmptySet
    <3> HIDE DEF X
    <3> QED BY <2>0, <2>3, <3>2, <3>3, <2>x, SMTT(20)
  <2> QED BY <2>1, <2>2, <2>3
<1> QED BY <1>11, <1>12

\* When all elements were looked at, nothing is left to be deleted, and the end
\* marker is the last one that was kept.
Ends(h, out, f, m, b, new) ==
  /\ h \in Seq(ProperStates) /\ DedupAt(h, out, f, m, b)
  /\ f = Len(out) /\ Len(out) = Len(h) + 1 /\ new = SubSeq(out, 1, m)

LEMMA DedupEnd ==
  ASSUME NEW h, NEW out, NEW f, NEW m, NEW b, NEW new, Ends(h, out, f, m, b, new)
  PROVE  /\ b = f + 1 /\ Len(new) = m /\ new[m] = 0
         /\ DedupAt(h, new, f, m, b) /\ FreedAt(h, new, m, b) = FreedAt(h, out, m, b)
<1> SUFFICES ASSUME h \in Seq(ProperStates), DedupAt(h, out, f, m, b),
                    f = Len(out), Len(out) = Len(h) + 1, new = SubSeq(out, 1, m)
             PROVE  /\ b = f + 1 /\ Len(new) = m /\ new[m] = 0
                    /\ DedupAt(h, new, f, m, b) /\ FreedAt(h, new, m, b) = FreedAt(h, out, m, b)
  BY DEF Ends
<1> DEFINE A == Active(out, m, b)
<1>o. out \in Seq(0 .. Len(h))
  BY DEF DedupAt
<1>1. /\ f \in Int /\ m \in Int /\ b \in Int
      /\ 1 <= m /\ m <= f /\ m < b /\ b <= f + 1
  <2>1. f \in 1 .. Len(h) + 1 /\ m \in 1 .. f /\ b \in m + 1 .. f + 1
    BY DEF DedupAt
  <2>2. f \in Nat
    BY <1>o, SMTT(20)
  <2> QED BY <2>1, <2>2, SMTT(20)
<1>2. A = {k \in 1 .. f : k <= m \/ k >= b}
  BY DEF Active
<1>l. Listed(h, out, A)
  BY DEF DedupAt
<1> HIDE DEF A
<1>m. m \in A /\ \A k \in A : k \in Int
  BY <1>1, <1>2, SMTT(20)
<1>3. out[m] = 0
  <2>1. PICK a \in A : out[a] = 0
    BY <1>l DEF Listed
  <2>2. CASE a <= m
    <3>1. a < m => ~Smaller(h, out[m], out[a])
      BY <1>l, <1>m, <2>1 DEF Listed
    <3>2. a = m \/ a < m
      BY <1>1, <1>m, <2>1, <2>2, SMTT(20)
    <3> QED BY <2>1, <3>1, <3>2 DEF Smaller
  <2>3. CASE a > m
    <3>1. a \in b .. f
      BY <1>1, <1>2, <2>1, <2>3, SMTT(20)
    <3>2. Same(h, out[m], out[a])
      BY <3>1 DEF DedupAt
    <3> QED BY <2>1, <3>2 DEF Same
  <2> QED BY <1>1, <1>m, <2>1, <2>2, <2>3, SMTT(20)
<1>4. b = f + 1
  <2> SUFFICES ASSUME b <= f PROVE FALSE
    BY <1>1, SMTT(20)
  <2>1. b \in A /\ m < b
    BY <1>1, <1>2, SMTT(20)
  <2>2. ~Smaller(h, out[b], out[m]) /\ out[b] # out[m]
    BY <1>1, <1>l, <1>m, <2>1, SMTT(20) DEF Listed
  <2> QED BY <1>3, <2>2 DEF Smaller
<1>5. A = 1 .. m
  BY <1>1, <1>2, <1>4, SMTT(20)
<1>6. new \in Seq(0 .. Len(h)) /\ Len(new) = m /\ \A k \in 1 .. m : new[k] = out[k]
  BY <1>o, <1>1, SMTT(20)
<1>7. Active(new, m, b) = 1 .. m
  BY <1>1, <1>6, SMTT(20) DEF Active
<1>8. m \in 1 .. m
  BY <1>1, SMTT(20)
<1>9. FreedAt(h, new, m, b) = FreedAt(h, out, m, b)
  <2> DEFINE F(i) == IF \E k \in 1 .. m : new[k] = i THEN 0 ELSE 1
             G(i) == IF \E k \in 1 .. m : out[k] = i THEN 0 ELSE 1
  <2>1. \A i : F(i) = G(i)
    BY <1>6
  <2>2. /\ FreedAt(h, new, m, b) = [i \in 1 .. Len(h) |-> F(i)]
        /\ FreedAt(h, out, m, b) = [i \in 1 .. Len(h) |-> G(i)]
    BY <1>5, <1>7 DEF FreedAt, A
  <2> HIDE DEF F, G
  <2> QED BY <2>1, <2>2
<1>10. DedupAt(h, new, f, m, b)
  <2>1. Listed(h, new, 1 .. m)
    BY <1>5, <1>6, <1>l DEF Listed
  <2>2. b .. f = {}
    BY <1>1, <1>4, SMTT(20)
  <2>3. /\ f \in 1 .. Len(h) + 1 /\ m \in 1 .. f /\ b \in m + 1 .. f + 1
        /\ \A j, k \in 1 .. m : j < k => Smaller(h, out[j], out[k])
    BY DEF DedupAt
  <2>4. \A j, k \in 1 .. m : j < k => Smaller(h, new[j], new[k])
    BY <1>6, <2>3
  <2>a. m \in Int /\ Len(new) = m
    BY <1>1, <1>6
  <2>5. m <= Len(new)
    BY ONLY <2>a
  <2> QED BY <1>6, <1>7, <2>1, <2>2, <2>3, <2>4, <2>5 DEF DedupAt
<1> QED BY <1>3, <1>4, <1>6, <1>8, <1>9, <1>10

\* out is a permutation of 1 .. n and the end marker.
IsPermutation(n, out) ==
  /\ \A j, k \in 1 .. n + 1 : j # k => out[j] # out[k]
  /\ \A i \in 0 .. n : \E k \in 1 .. n + 1 : out[k] = i

LEMMA Numbered ==
  ASSUME NEW n \in Nat, NEW list,
         \A k \in 1 .. n + 1 : list[k] = IF k = n + 1 THEN 0 ELSE k
  PROVE  IsPermutation(n, list)
<1>1. \A x, y \in 1 .. n + 1 : x # y => list[x] # list[y]
  BY SMTT(20)
<1>2. ASSUME NEW i \in 0 .. n PROVE \E l \in 1 .. n + 1 : list[l] = i
  <2>1. CASE i = 0
    <3>1. n + 1 \in 1 .. n + 1
      BY SMTT(20)
    <3> QED BY <2>1, <3>1
  <2>2. CASE i # 0
    <3>1. i \in 1 .. n + 1 /\ i # n + 1
      BY <2>2, SMTT(20)
    <3> QED BY <3>1
  <2> QED BY <2>1, <2>2
<1> QED BY <1>1, <1>2 DEF IsPermutation

\* out has the N elements of list, in some order.
IsShuffle(N, list, out) ==
  /\ \A k \in 1 .. N : \E l \in 1 .. N : out[l] = list[k]
  /\ \E c \in [1 .. N -> 1 .. N] :
       \A l \in 1 .. N : out[l] = list[c[l]] /\ \A k \in 1 .. N : c[l] = c[k] => l = k

LEMMA AllListed ==
  ASSUME NEW n, NEW list, NEW out, IsPermutation(n, list), IsShuffle(n + 1, list, out)
  PROVE  IsPermutation(n, out)
<1> DEFINE D == 1 .. n + 1
<1>0. PICK c \in [D -> D] :
        \A l \in D : out[l] = list[c[l]] /\ \A k \in D : c[l] = c[k] => l = k
  BY DEF IsShuffle
<1>1. ASSUME NEW j \in D, NEW k \in D, j # k PROVE out[j] # out[k]
  <2>1. c[j] \in D /\ c[k] \in D /\ c[j] # c[k]
    <3> HIDE DEF D
    <3> QED BY <1>0, <1>1
  <2>2. list[c[j]] # list[c[k]]
    BY <2>1 DEF IsPermutation
  <2>3. out[j] = list[c[j]] /\ out[k] = list[c[k]]
    BY <1>0
  <2> QED BY <2>2, <2>3
<1>2. ASSUME NEW i \in 0 .. n PROVE \E l \in D : out[l] = i
  <2>1. PICK k \in D : list[k] = i
    BY <1>2 DEF IsPermutation
  <2>2. PICK l \in D : out[l] = list[k]
    BY DEF IsShuffle
  <2> QED BY <2>1, <2>2
<1> QED BY <1>1, <1>2 DEF IsPermutation

LEMMA DedupBegin ==
  ASSUME NEW h \in Seq(ProperStates), NEW out \in Seq(0 .. Len(h)),
         Len(out) = Len(h) + 1, IsPermutation(Len(h), out),
         \A j, k \in 1 .. Len(h) + 1 : j < k => ~Smaller(h, out[k], out[j])
  PROVE  DedupAt(h, out, 1, 1, 2) /\ FreedAt(h, out, 1, 2) = [i \in 1 .. Len(h) |-> 0]
<1> DEFINE n == Len(h)
<1>1. n \in Nat
  BY SMTT(20)
<1>2. Len(out) = n + 1
  OBVIOUS
<1>3. Active(out, 1, 2) = 1 .. n + 1
  <2> HIDE DEF n
  <2> QED BY <1>1, <1>2, SMTT(20) DEF Active
<1>4. \A i \in 1 .. n : i \in 0 .. n
  <2> HIDE DEF n
  <2> QED BY <1>1, SMTT(20)
<1>5. Listed(h, out, 1 .. n + 1)
  <2>0. 0 \in 0 .. n
    BY <1>1, SMTT(20)
  <2>1. \E k \in 1 .. n + 1 : out[k] = 0
    BY <2>0 DEF IsPermutation
  <2>2. ASSUME NEW i \in 1 .. n PROVE \E k \in 1 .. n + 1 : Same(h, i, out[k])
    <3>1. PICK k \in 1 .. n + 1 : out[k] = i
      BY <1>4 DEF IsPermutation
    <3> QED BY <3>1 DEF Same
  <2> QED BY <2>1, <2>2 DEF Listed, IsPermutation
<1>6. /\ 1 \in 1 .. n + 1 /\ 1 \in 1 .. 1 /\ 2 \in 1 + 1 .. 1 + 1 /\ 1 <= Len(out)
      /\ 2 .. 1 = {} /\ \A j, k \in 1 .. 1 : ~(j < k)
  BY <1>1, <1>2, SMTT(20)
<1>7. DedupAt(h, out, 1, 1, 2)
  BY <1>3, <1>5, <1>6 DEF DedupAt
<1>8. FreedAt(h, out, 1, 2) = [i \in 1 .. Len(h) |-> 0]
  <2>1. \A i \in 1 .. Len(h) : \E k \in Active(out, 1, 2) : out[k] = i
    BY <1>3, <1>4 DEF IsPermutation
  <2> QED BY <2>1 DEF FreedAt
<1> QED BY <1>7, <1>8

\* write_result sorts a list of all belief states and the end marker.
LEMMA DedupStart ==
  ASSUME heap \in Seq(ProperStates)
  PROVE  LET out == list_sort(Append([i \in 1 .. Len(heap) |-> i], 0)) IN
         /\ DedupAt(heap, out, 1, 1, 2) /\ Len(out) = Len(heap) + 1
         /\ FreedAt(heap, out, 1, 2) = [i \in 1 .. Len(heap) |-> 0]
<1> DEFINE n == Len(heap)
           list == Append([i \in 1 .. n |-> i], 0)
           out == list_sort(list)
<1>1. n \in Nat
  BY SMTT(20)
<1>2. /\ list \in Seq(0 .. n) /\ Len(list) = n + 1
      /\ \A k \in 1 .. n + 1 : list[k] = IF k = n + 1 THEN 0 ELSE k
  <2>1. [i \in 1 .. n |-> i] \in Seq(0 .. n) /\ Len([i \in 1 .. n |-> i]) = n
    BY <1>1, SMTT(20)
  <2> HIDE DEF n
  <2> QED BY <1>1, <2>1, SMTT(20)
<1> HIDE DEF list
<1>3. /\ out \in Seq(0 .. n) /\ Len(out) = Len(list) /\ IsShuffle(Len(list), list, out)
      /\ \A j, k \in 1 .. Len(list) : j < k => ~Smaller(heap, out[k], out[j])
  BY <1>2, Sorted DEF IsShuffle
<1> HIDE DEF out, n
<1>4. IsShuffle(n + 1, list, out)
  BY <1>2, <1>3
<1>5. IsPermutation(n, out)
  <2>1. IsPermutation(n, list)
    BY <1>1, <1>2, Numbered
  <2> QED BY <1>4, <2>1, AllListed
<1>6. /\ out \in Seq(0 .. n) /\ Len(out) = n + 1
      /\ \A j, k \in 1 .. n + 1 : j < k => ~Smaller(heap, out[k], out[j])
  BY <1>2, <1>3
<1>7. DedupAt(heap, out, 1, 1, 2) /\ FreedAt(heap, out, 1, 2) = [i \in 1 .. Len(heap) |-> 0]
  BY <1>5, <1>6, DedupBegin DEF n
<1> QED BY <1>6, <1>7 DEF n, out, list

DedupInv ==
  pc \in {"dedup", "done"} =>
    /\ DedupAt(heap, output_list, first, mid, beg_remove)
    /\ freed = FreedAt(heap, output_list, mid, beg_remove)
    /\ pc = "dedup" => Len(output_list) = Len(heap) + 1
    /\ pc = "done" => /\ Len(output_list) = mid /\ beg_remove = first + 1
                      /\ output_list[mid] = 0

LEMMA FreedDomain ==
  ASSUME NEW h, NEW out, NEW m, NEW b
  PROVE  /\ FreedAt(h, out, m, b) \in [1 .. Len(h) -> {0, 1}]
         /\ \A i \in 1 .. Len(h) :
              FreedAt(h, out, m, b)[i] = 0 <=> \E k \in Active(out, m, b) : out[k] = i
BY SMTT(20) DEF FreedAt

LEMMA WriteStep == TypeInv /\ write_result => DedupInv'
<1> SUFFICES ASSUME TypeInv, write_result PROVE DedupInv'
  OBVIOUS
<1>1. heap \in Seq(ProperStates) /\ first = 1 /\ mid = 1 /\ beg_remove = 2
  BY DEF TypeInv, HeapInv, write_result
<1>2. /\ DedupAt(heap, output_list', 1, 1, 2) /\ Len(output_list') = Len(heap) + 1
      /\ FreedAt(heap, output_list', 1, 2) = [i \in 1 .. Len(heap) |-> 0]
  BY <1>1, DedupStart DEF write_result
<1>3. /\ pc' = "dedup" /\ heap' = heap /\ first' = 1 /\ mid' = 1 /\ beg_remove' = 2
      /\ freed' = [i \in 1 .. Len(heap) |-> 0]
  BY <1>1 DEF write_result
<1> QED BY <1>2, <1>3 DEF DedupInv

LEMMA RemoveStep == TypeInv /\ DedupInv /\ remove_duplication => DedupInv'
<1> SUFFICES ASSUME TypeInv, DedupInv, remove_duplication PROVE DedupInv'
  OBVIOUS
<1>1. /\ heap \in Seq(ProperStates) /\ Len(output_list) = Len(heap) + 1
      /\ DedupAt(heap, output_list, first, mid, beg_remove)
      /\ freed = FreedAt(heap, output_list, mid, beg_remove)
  BY DEF TypeInv, HeapInv, DedupInv, remove_duplication
<1>2. /\ pc' = "dedup" /\ heap' = heap /\ first < Len(output_list) /\ first' = first + 1
  BY DEF remove_duplication
<1>3. CASE Same(heap, output_list[mid], output_list[first + 1])
  <2>1. UNCHANGED <<mid, beg_remove, freed, output_list>>
    BY <1>2, <1>3, CompareOf DEF remove_duplication
  <2>2. DedupAt(heap, output_list, first + 1, mid, beg_remove)
    BY <1>1, <1>2, <1>3, DedupSkip
  <2> QED BY <1>1, <1>2, <2>1, <2>2 DEF DedupInv
<1>4. CASE ~Same(heap, output_list[mid], output_list[first + 1])
  <2> DEFINE new == [output_list EXCEPT ![mid + 1] = output_list[first + 1]]
  <2>1. /\ freed' = Deleted(first) /\ mid' = mid + 1 /\ output_list' = new
        /\ beg_remove' = (first + 1) + 1
    BY <1>2, <1>4, CompareOf DEF remove_duplication
  <2>2. first \in Nat /\ output_list \in Seq(0 .. Len(heap))
    BY <1>1, SMTT(20) DEF DedupAt
  <2>3. beg_remove' = first + 2 /\ Len(new) = Len(output_list)
    BY <2>1, <2>2, SMTT(20)
  <2> HIDE DEF new
  <2>4. /\ DedupAt(heap, new, first + 1, mid + 1, first + 2)
        /\ \A i \in 1 .. Len(heap) :
             FreedAt(heap, new, mid + 1, first + 2)[i] = FreedAt(heap, output_list, mid, beg_remove)[i]
               + Dropped(output_list, beg_remove, first, i)
    <3>1. Keeps(heap, output_list, first, mid, beg_remove, new)
      BY <1>1, <1>2, <1>4 DEF Keeps, new
    <3> QED BY <3>1, DedupKeep, SMTT(20)
  <2>5. freed' = FreedAt(heap, new, mid + 1, first + 2)
    <3>1. DOMAIN freed = 1 .. Len(heap)
      BY <1>1, FreedDomain
    <3>2. freed' = [i \in 1 .. Len(heap) |-> freed[i] + Dropped(output_list, beg_remove, first, i)]
      BY <2>1, <3>1 DEF Deleted, Dropped
    <3>3. FreedAt(heap, new, mid + 1, first + 2) =
            [i \in 1 .. Len(heap) |-> FreedAt(heap, new, mid + 1, first + 2)[i]]
      BY FreedDomain
    <3> QED BY <1>1, <2>4, <3>2, <3>3
  <2> QED BY <1>1, <1>2, <2>1, <2>3, <2>4, <2>5 DEF DedupInv
<1> QED BY <1>3, <1>4

LEMMA ResizeStep == TypeInv /\ DedupInv /\ resize => DedupInv'
<1> SUFFICES ASSUME TypeInv, DedupInv, resize PROVE DedupInv'
  OBVIOUS
<1> DEFINE new == SubSeq(output_list, 1, mid)
<1>1. /\ heap \in Seq(ProperStates) /\ Len(output_list) = Len(heap) + 1
      /\ DedupAt(heap, output_list, first, mid, beg_remove)
      /\ freed = FreedAt(heap, output_list, mid, beg_remove)
  BY DEF TypeInv, HeapInv, DedupInv, resize
<1>2. /\ pc' = "done" /\ heap' = heap /\ first = Len(output_list) /\ freed' = Deleted(first)
      /\ output_list' = new
      /\ first' = first /\ mid' = mid /\ beg_remove' = beg_remove
  BY DEF resize
<1> HIDE DEF new
<1>3. /\ beg_remove = first + 1 /\ Len(new) = mid /\ new[mid] = 0
      /\ DedupAt(heap, new, first, mid, beg_remove)
      /\ FreedAt(heap, new, mid, beg_remove) = FreedAt(heap, output_list, mid, beg_remove)
  <2>1. Ends(heap, output_list, first, mid, beg_remove, new)
    BY <1>1, <1>2 DEF Ends, new
  <2> QED BY <2>1, DedupEnd
<1>4. freed' = freed
  <2>1. freed \in [1 .. Len(heap) -> {0, 1}]
    BY <1>1, FreedDomain
  <2>2. beg_remove .. first = {}
    <3>1. first \in Nat
      BY <1>1, <1>2, SMTT(20) DEF DedupAt
    <3> QED BY <1>3, <3>1, SMTT(20)
  <2>3. \A i : Cardinality({k \in beg_remove .. first : output_list[k] = i}) = 0
    <3>1. \A i : {k \in beg_remove .. first : output_list[k] = i} = {}
      BY <2>2
    <3> QED BY <3>1, FS_EmptySet
  <2>4. Deleted(first) = [i \in DOMAIN freed |-> freed[i] + 0]
    BY <2>3 DEF Deleted
  <2> QED BY <1>2, <2>1, <2>4, SMTT(20)
<1> QED BY <1>1, <1>2, <1>3, <1>4 DEF DedupInv

LEMMA DedupStep == TypeInv /\ DedupInv /\ [Next]_vars => DedupInv'
<1> SUFFICES ASSUME TypeInv, DedupInv, [Next]_vars PROVE DedupInv'
  OBVIOUS
<1>1. CASE JoinStep \/ process_input \/ compute
  BY <1>1 DEF JoinStep, process_input, compute, DedupInv
<1>2. CASE UNCHANGED vars
  BY <1>2 DEF vars, dedup, DedupInv
<1> QED BY <1>1, <1>2, WriteStep, RemoveStep, ResizeStep DEF Next

\* However the belief states of an answer repeat, remove_duplication deletes what it
\* drops once and nothing that it keeps.
THEOREM ContextFreedOnce == Spec => []FreedOnce
<1>1. TypeInv /\ DedupInv => FreedOnce
  <2> SUFFICES ASSUME TypeInv, DedupInv PROVE FreedOnce
    OBVIOUS
  <2>1. CASE pc \in {"dedup", "done"}
    <3>1. /\ DOMAIN freed = 1 .. Len(heap)
          /\ \A i \in 1 .. Len(heap) : freed[i] \in {0, 1}
          /\ \A i \in 1 .. Len(heap) :
               freed[i] = 0 <=> \E k \in Active(output_list, mid, beg_remove) : output_list[k] = i
      BY <2>1, FreedDomain, SMTT(20) DEF DedupInv
    <3>2. \A i \in DOMAIN freed : freed[i] <= 1
      BY <3>1, SMTT(20)
    <3>3. ASSUME pc = "done" PROVE Active(output_list, mid, beg_remove) = DOMAIN output_list
      <4>1. output_list \in Seq(0 .. Len(heap)) /\ Len(output_list) = mid
        BY <3>3 DEF DedupInv, DedupAt
      <4> QED BY <4>1, SMTT(20) DEF Active
    <3>4. ASSUME pc = "done", NEW i \in DOMAIN freed
          PROVE  (freed[i] = 0) = (i \in Range(output_list))
      <4>1. freed[i] = 0 <=> \E k \in DOMAIN output_list : output_list[k] = i
        BY <3>1, <3>3, <3>4
      <4> QED BY <4>1, SMTT(20) DEF Range
    <3> QED BY <3>2, <3>4 DEF FreedOnce
  <2>2. CASE pc \notin {"dedup", "done"}
    <3>1. DOMAIN freed = {}
      BY <2>2, SMTT(20) DEF TypeInv, HeapInv
    <3> QED BY <2>2, <3>1 DEF FreedOnce
  <2> QED BY <2>1, <2>2
<1>2. Init => DedupInv
  BY DEF Init, DedupInv
<1> QED BY <1>1, <1>2, InitType, TypeStep, DedupStep, PTL DEF Spec

\* The iterators, inputs and belief states keep their types, and the list positions
\* of remove_duplication their order, for any problem.
THEOREM ContextTypeOK == Spec => []TypeOK
<1>1. TypeInv /\ DedupInv => TypeOK
  <2> SUFFICES ASSUME TypeInv, DedupInv PROVE TypeOK
    OBVIOUS
  <2>1. pc \in {"join", "input", "compute", "dedup", "done"}
    BY DEF TypeInv, InputInv
  <2>2. \A i \in DOMAIN Physical : run_it[i] \in DOMAIN packs[i]
    BY SelectionType, PacksType, SMTT(20) DEF TypeInv, ProblemInv, InputInv
  <2>3. joined_results \in Seq(WellFormedStates) /\ heap \in Seq(ProperStates)
    BY DEF TypeInv, InputInv, HeapInv
  <2>4. \A i \in DOMAIN joined_results : joined_results[i].status \subseteq Bits
    <3>1. \A bs \in WellFormedStates : bs.status \subseteq Bits
      BY DEF WellFormedStates, BeliefStates
    <3>2. \A i \in DOMAIN joined_results : joined_results[i] \in WellFormedStates
      BY <2>3, SMTT(20)
    <3> QED BY <3>1, <3>2
  <2>5. \A i \in DOMAIN heap : heap[i].value \subseteq heap[i].status
    <3>1. \A i \in DOMAIN heap : heap[i] \in ProperStates
      BY <2>3, SMTT(20)
    <3> QED BY <3>1 DEF ProperStates
  <2>6. next_input \in 1 .. Len(joined_results) + 1
    BY <2>1, <2>3 DEF TypeInv, InputInv
  <2>7. /\ \A i \in DOMAIN output_list : output_list[i] \in 0 .. Len(heap)
        /\ mid <= first /\ first < beg_remove + Len(output_list)
    <3>1. CASE pc \in {"dedup", "done"}
      <4>1. /\ output_list \in Seq(0 .. Len(heap)) /\ first \in 1 .. Len(heap) + 1
            /\ mid \in 1 .. first /\ beg_remove \in mid + 1 .. first + 1
        BY <3>1 DEF DedupInv, DedupAt
      <4>2. Len(output_list) = Len(heap) + 1 \/ (Len(output_list) = mid /\ beg_remove = first + 1)
        BY <3>1 DEF DedupInv
      <4>3. first \in Int /\ mid \in Int /\ beg_remove \in Int /\ 1 <= mid /\ mid <= first
            /\ mid + 1 <= beg_remove /\ first <= Len(heap) + 1 /\ Len(heap) \in Nat
        BY <2>3, <4>1, SMTT(20)
      <4>4. \A i \in DOMAIN output_list : output_list[i] \in 0 .. Len(heap)
        BY <4>1, SMTT(20)
      <4> QED BY <4>2, <4>3, <4>4, SMTT(20)
    <3>2. CASE pc \notin {"dedup", "done"}
      <4>1. output_list = <<>> /\ first = 1 /\ mid = 1 /\ beg_remove = 2
        BY <3>2 DEF TypeInv, HeapInv
      <4> QED BY <4>1, SMTT(20)
    <3> QED BY <3>1, <3>2
  <2> QED BY <2>1, <2>2, <2>4, <2>5, <2>6, <2>7 DEF TypeOK
<1>2. Init => DedupInv
  BY DEF Init, DedupInv
<1> QED BY <1>1, <1>2, InitType, TypeStep, DedupStep, PTL DEF Spec
-------------------------------------------------------------------------------
(* The answer                                                                *)

\* When the last input was evaluated, the heap has the answer.
LEMMA HeapIsAnswer ==
  ASSUME TypeInv, JoinedInv, AnswerInv, pc = "done"
  PROVE  Range(heap) = Answer
<1> DEFINE N == Len(joined_results)
           All == UNION {Completions(j) : j \in Joins}
           L(i) == {And(Or(m, i), interface) : m \in LocalModels(i)}
<1>1. /\ rules \in RuleTables /\ kb \in KnowledgeBases
      /\ joined_results \in Seq(WellFormedStates) /\ next_input = N + 1 /\ current_guess = NULL
  BY DEF TypeInv, ProblemInv, InputInv, GuessInv
<1>2. Range(joined_results) = Joins
  BY JoinedExact DEF JoinExact
<1>3. N \in Nat /\ DOMAIN joined_results = 1 .. N /\ \A j \in Joins : j \in WellFormedStates
  BY <1>1, <1>2, SMTT(20) DEF Range
<1>4. \A j \in Joins : Inputs(j) = Completions(j)
  BY InputsComplete
<1>5. ASSUME NEW x PROVE x \in Computed(joined_results, next_input, current_guess) <=> x \in All
  <2>1. 1 .. next_input - 1 = DOMAIN joined_results
    BY <1>1, <1>3, SMTT(20)
  <2>2. Computed(joined_results, next_input, current_guess)
          = UNION {Inputs(joined_results[k]) : k \in 1 .. next_input - 1}
    <3> DEFINE U == UNION {Inputs(joined_results[k]) : k \in 1 .. next_input - 1}
    <3>1. Computed(joined_results, next_input, current_guess)
            = U \cup (IF current_guess = NULL THEN {} ELSE Tried(joined_results[next_input], current_guess))
      BY DEF Computed
    <3> HIDE DEF U
    <3>2. Computed(joined_results, next_input, current_guess) = U
      BY <1>1, <3>1
    <3> QED BY <3>2 DEF U
  <2>3. x \in Computed(joined_results, next_input, current_guess)
          <=> \E k \in DOMAIN joined_results : x \in Inputs(joined_results[k])
    BY <2>1, <2>2
  <2>4. (\E k \in DOMAIN joined_results : x \in Inputs(joined_results[k]))
          <=> \E j \in Range(joined_results) : x \in Inputs(j)
    BY DEF Range
  <2>5. (\E j \in Range(joined_results) : x \in Inputs(j)) <=> \E j \in Joins : x \in Completions(j)
    BY <1>2, <1>4
  <2>6. x \in All <=> \E j \in Joins : x \in Completions(j)
    OBVIOUS
  <2> QED BY <2>3, <2>4, <2>5, <2>6
<1>6. ASSUME NEW i \in All PROVE SentOf(rules, kb, i) = L(i)
  <2>1. PICK j \in Joins : i \in Completions(j)
    OBVIOUS
  <2>2. WellFormed(j) /\ i \in Inputs(j)
    BY <1>3, <1>4, <2>1 DEF WellFormedStates
  <2>3. WellFormed(i)
    BY <2>2, InputsWellFormed
  <2> QED BY <1>1, <2>3, SentLocal
<1> DEFINE C == Computed(joined_results, next_input, current_guess)
<1>7. Range(heap) = UNION {SentOf(rules, kb, i) : i \in C}
  BY DEF AnswerInv, SentFor
<1>8. Answer = UNION {L(i) : i \in All}
  BY DEF Answer
<1>9. \A x : x \in C <=> x \in All
  BY <1>5
<1> HIDE DEF C, All, L
<1>10. \A x : x \in Range(heap) <=> \E i \in C : x \in SentOf(rules, kb, i)
  BY <1>7
<1>11. \A x : x \in Answer <=> \E i \in All : x \in L(i)
  BY <1>8
<1>12. \A x : x \in Range(heap) <=> x \in Answer
  BY <1>6, <1>9, <1>10, <1>11
<1> QED BY <1>12

\* The elements that are kept name every belief state of the heap once.
LEMMA KeptOnce ==
  ASSUME TypeInv, DedupInv, pc = "done"
  PROVE  /\ output_list[Len(output_list)] = 0
         /\ {heap[i] : i \in Range(output_list) \ {0}} = Range(heap)
         /\ Len(output_list) = Cardinality(Range(heap)) + 1
<1> DEFINE out == output_list
           m == mid
           D == 1 .. m - 1
           f == [k \in D |-> heap[out[k]]]
<1>1. /\ heap \in Seq(ProperStates) /\ DedupAt(heap, out, first, m, beg_remove)
      /\ Len(out) = m /\ out[m] = 0
  BY DEF TypeInv, HeapInv, DedupInv
<1>2. /\ out \in Seq(0 .. Len(heap)) /\ m \in Nat /\ 1 <= m /\ Len(heap) \in Nat
      /\ Listed(heap, out, Active(out, m, beg_remove))
      /\ \A j, k \in 1 .. m : j < k => Smaller(heap, out[j], out[k])
  <2>1. out \in Seq(0 .. Len(heap)) /\ first \in 1 .. Len(heap) + 1 /\ m \in 1 .. first
    BY <1>1 DEF DedupAt
  <2> QED BY <1>1, <2>1, SMTT(20) DEF DedupAt
<1>3. Active(out, m, beg_remove) = 1 .. m
  BY <1>1, <1>2, SMTT(20) DEF Active
<1>4. DOMAIN out = 1 .. m /\ DOMAIN heap = 1 .. Len(heap) /\ \A k \in 1 .. m : out[k] \in 0 .. Len(heap)
  BY <1>1, <1>2, SMTT(20)
<1>5. \A k \in 1 .. m : k = m \/ k \in D
  BY <1>2, SMTT(20)
<1>6. \A k \in D : k \in 1 .. m /\ k < m
  BY <1>2, SMTT(20)
<1>7. ASSUME NEW k \in D PROVE out[k] # 0 /\ out[k] \in DOMAIN heap /\ f[k] = heap[out[k]]
  <2>1. Smaller(heap, out[k], out[m])
    BY <1>2, <1>6, SMTT(20)
  <2>2. out[k] # 0
    BY <2>1 DEF Smaller
  <2>3. out[k] \in 0 .. Len(heap)
    BY <1>4, <1>6
  <2> QED BY <1>2, <1>4, <2>2, <2>3, SMTT(20)
<1>8. ASSUME NEW i \in DOMAIN heap PROVE \E k \in D : out[k] # 0 /\ heap[out[k]] = heap[i]
  <2>1. i # 0 /\ i \in 1 .. Len(heap)
    BY <1>2, <1>4, SMTT(20)
  <2>2. PICK k \in 1 .. m : Same(heap, i, out[k])
    BY <1>2, <1>3, <2>1 DEF Listed
  <2>3. out[k] # 0 /\ heap[i] = heap[out[k]]
    BY <2>1, <2>2 DEF Same
  <2>4. k \in D
    BY <1>1, <1>5, <2>3
  <2> QED BY <2>3, <2>4
<1>9. ASSUME NEW j \in D, NEW k \in D, f[j] = f[k] PROVE j = k
  <2>1. Same(heap, out[j], out[k]) /\ Same(heap, out[k], out[j])
    BY <1>7, <1>9 DEF Same
  <2>2. out[j] \in 0 .. Len(heap) /\ out[k] \in 0 .. Len(heap)
    BY <1>4, <1>6
  <2>3. ~Smaller(heap, out[j], out[k]) /\ ~Smaller(heap, out[k], out[j])
    BY <1>1, <2>1, <2>2, SmallerOrder
  <2>4. ~(j < k) /\ ~(k < j)
    BY <1>2, <1>6, <2>3
  <2>5. j \in Int /\ k \in Int
    BY <1>2, SMTT(20)
  <2> QED BY <2>4, <2>5, SMTT(20)
<1>10. \A x : x \in Range(heap) <=> \E k \in D : f[k] = x
  <2>1. \A x : x \in Range(heap) <=> \E i \in DOMAIN heap : heap[i] = x
    BY DEF Range
  <2> HIDE DEF D, f
  <2> QED BY <1>7, <1>8, <2>1, SMTT(20)
<1>11. {heap[i] : i \in Range(out) \ {0}} = Range(heap)
  <2>1. \A i : i \in Range(out) \ {0} <=> i # 0 /\ \E k \in 1 .. m : out[k] = i
    BY <1>4 DEF Range
  <2>2. \A i : i \in Range(out) \ {0} <=> \E k \in D : out[k] = i
    <3> HIDE DEF D
    <3> QED BY <1>1, <1>5, <1>6, <1>7, <2>1
  <2>3. \A x : x \in {heap[i] : i \in Range(out) \ {0}} <=> \E k \in D : f[k] = x
    <3> HIDE DEF D, f
    <3> QED BY <1>7, <2>2, SMTT(20)
  <2> HIDE DEF D, f
  <2> QED BY <1>10, <2>3
<1>12. Cardinality(Range(heap)) = m - 1
  <2>1. f \in [D -> Range(heap)]
    <3>1. \A k \in D : f[k] \in Range(heap)
      BY <1>10
    <3> QED BY <3>1
  <2>2. f \in Bijection(D, Range(heap))
    <3> HIDE DEF D, f
    <3> QED BY <1>9, <1>10, <2>1 DEF Bijection, Injection, Surjection, IsInjective
  <2>3. IsFiniteSet(D) /\ Cardinality(D) = m - 1
    <3> DEFINE e == m - 1
    <3>1. e \in Int /\ 1 \in Int /\ e >= 0
      BY <1>2, SMTT(20)
    <3> HIDE DEF e
    <3>2. IsFiniteSet(1 .. e) /\ Cardinality(1 .. e) = IF 1 > e THEN 0 ELSE e - 1 + 1
      BY <3>1, FS_Interval
    <3>3. Cardinality(1 .. e) = e
      BY <3>1, <3>2, SMTT(20)
    <3> QED BY <3>2, <3>3 DEF e
  <2>4. ExistsBijection(D, Range(heap))
    BY <2>2 DEF ExistsBijection
  <2> HIDE DEF D
  <2> QED BY <2>3, <2>4, FS_Bijection
<1> QED BY <1>1, <1>2, <1>11, <1>12, SMTT(20)

\* The answer of a context has every belief state of its definition once, nothing
\* else, and the end marker at its end, for any number of contexts, beliefs and
\* neighbors, any bridge rules, knowledge bases, packs and interface.
THEOREM ContextAnswer == Spec => []AnswerAsDefined
<1> DEFINE Inv == TypeInv /\ JoinedInv /\ DedupInv /\ AnswerInv
<1>1. Inv => AnswerAsDefined
  BY HeapIsAnswer, KeptOnce DEF AnswerAsDefined
<1>2. Init => Inv
  <2>1. Init => DedupInv
    BY DEF Init, DedupInv
  <2> QED BY <2>1, InitType, InitJoined, InitAnswer
<1>3. Inv /\ [Next]_vars => Inv'
  BY TypeStep, JoinedStep, DedupStep, AnswerStep
<1> QED BY <1>1, <1>2, <1>3, PTL DEF Spec
===============================================================================
