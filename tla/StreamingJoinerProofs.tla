------------------------ MODULE StreamingJoinerProofs ------------------------
(***************************************************************************)
(* Proofs about StreamingJoiner, for every number of neighbors, every pack *)
(* size, every number of models and every number of requests.              *)
(*                                                                         *)
(* pack_count is read as a number whose digit i is the pack of neighbor i, *)
(* the last digit being the most significant.  The inductive invariant     *)
(* says which combinations have been joined: those whose pack numbers form *)
(* a smaller number (Passed), and, after the join, those that form this    *)
(* number (Reached).  While a carry is under way the digits below          *)
(* next_neighbor are out of use, and only the higher ones are compared.    *)
(***************************************************************************)
EXTENDS StreamingJoiner, QueryId, TLAPS

-----------------------------------------------------------------------------
(* The inductive invariant                                                 *)

Low(i) == pack_count[i] * pack_size

High(i) == (pack_count[i] + 1) * pack_size

FullPack(i) == Pack(i, models[i], 0, 0)

CurrentPack(i) == Pack(i, models[i], Low(i) + 1, High(i))

FirstPack(i) == Pack(i, models[i], IF pack_size > 0 THEN 1 ELSE 0, pack_size)

\* The model c takes from neighbor i is in an earlier pack, in this pack.
Before(c, i) == c[i][2] <= Low(i)

At(c, i) == pack_size = 0 \/ (Low(i) < c[i][2] /\ c[i][2] <= High(i))

Passed(j) ==
  {c \in AllCombinations : \E k \in Neighbors :
     k >= j /\ Before(c, k) /\ \A i \in Neighbors : i > k => At(c, i)}

Reached(j) ==
  {c \in AllCombinations : \A i \in Neighbors : i >= j => At(c, i)}

\* The packs from neighbor j on are the ones pack_count names, none empty.
Loaded(j) ==
  \A i \in Neighbors : i >= j =>
    /\ input_belief_states[i] = CurrentPack(i)
    /\ CurrentPack(i) # {}

Consistent == \A i \in Neighbors : models[i] > 0

FirstRequest(i) ==
  [qid |-> query_counter, k1 |-> IF pack_size > 0 THEN 1 ELSE 0,
   k2 |-> pack_size, models |-> models[i]]

NextRequest(i) ==
  [qid |-> query_counter, k1 |-> Low(i) + 1, k2 |-> High(i),
   models |-> models[i]]

\* What is on the wire.
WireInv ==
  /\ registered = {<<query_counter, i>> : i \in {j \in Neighbors : asked[j] # <<>>}}
  /\ pc \in {"idle", "ready", "ask_first", "join", "loop"} =>
       \A i \in Neighbors : asked[i] = <<>>
  /\ pc = "wait_first" =>
       /\ marking_neighbors \subseteq FirstPacks
       /\ marking_neighbors # FirstPacks
       /\ \A i \in Neighbors : asked[i] =
            IF i \in FirstPacks \ marking_neighbors THEN <<FirstRequest(i)>>
                                                    ELSE <<>>
  /\ pc = "wait_next" =>
       \A i \in Neighbors : asked[i] =
         IF i = next_neighbor THEN <<NextRequest(i)>> ELSE <<>>

\* What the packs hold while answers come in.
PackInv ==
  /\ pc = "wait_first" =>
       \A i \in FirstPacks :
         /\ i \in marking_neighbors =>
              input_belief_states[i] = FirstPack(i) /\ FirstPack(i) # {}
         /\ i \notin marking_neighbors => input_belief_states[i] = {}
  /\ pc = "wait_next" => input_belief_states[next_neighbor] = {}

\* Which combinations have been joined.
CoverInv ==
  /\ pc # "crashed"
  /\ pc = "idle" /\ requests > 0 => tried = AllCombinations
  /\ pc \in {"ask_first", "wait_first"} /\ ~asking_next =>
       /\ tried = {}
       /\ pack_count = [i \in Neighbors |-> 0]
  /\ pc \in {"ask_first", "wait_first"} /\ asking_next =>
       /\ next_neighbor \in 1 .. N - 1
       /\ pack_size > 0
       /\ Consistent
       /\ tried = Passed(next_neighbor)
       /\ Loaded(next_neighbor)
  /\ pc = "join" =>
       /\ Consistent
       /\ tried = Passed(0)
       /\ Loaded(0)
  /\ pc = "ready" =>
       /\ Consistent
       /\ next_neighbor = 0
       /\ ~asking_next
       /\ tried = Passed(0) \cup Reached(0)
       /\ Loaded(0)
  /\ pc = "loop" =>
       /\ Consistent
       /\ pack_size > 0
       /\ (asking_next <=> next_neighbor > 0)
       /\ tried = Passed(next_neighbor) \cup Reached(next_neighbor)
       /\ Loaded(next_neighbor)
  /\ pc = "wait_next" =>
       /\ Consistent
       /\ pack_size > 0
       /\ (asking_next <=> next_neighbor > 0)
       /\ tried = Passed(next_neighbor)
       /\ Loaded(next_neighbor + 1)

IndexInv ==
  /\ pc = "wait_next" => next_neighbor \in Neighbors
  /\ asking_next => next_neighbor > 0
  /\ pc \in {"ask_first", "wait_first"} => next_neighbor \in Neighbors

IInv ==
  /\ TypeOK
  /\ IndexInv
  /\ ~orphaned => WireInv /\ PackInv /\ CoverInv

-----------------------------------------------------------------------------
(* Packs and combinations                                                  *)

Sized ==
  /\ pack_size \in Nat
  /\ models \in [Neighbors -> Nat]
  /\ pack_count \in [Neighbors -> Nat]

LEMMA TypeSized == TypeOK => Sized
BY PackSizesAssumption, MaxModelsAssumption DEF TypeOK, Sized

LEMMA MulStep ==
  \A a, b \in Nat : a * b \in Nat /\ (a + 1) * b = a * b + b /\ 0 * b = 0
BY SMT

\* A pack starts where the pack before it ends.
LEMMA Digits ==
  ASSUME Sized, NEW i \in Neighbors
  PROVE  /\ Low(i) \in Nat
         /\ High(i) = Low(i) + pack_size
         /\ pack_count[i] = 0 => Low(i) = 0
<1>1. pack_count[i] \in Nat /\ pack_size \in Nat
  BY DEF Sized
<1> QED BY <1>1, MulStep DEF Low, High

\* What is in a pack.
LEMMA PackMember ==
  ASSUME NEW i, NEW m \in Nat, NEW k1, NEW k2
  PROVE  \A x : x \in Pack(i, m, k1, k2) <=>
           \E k \in 1 .. m : x = <<i, k>> /\ (k2 = 0 \/ (k1 <= k /\ k <= k2))
BY DEF Pack

\* What is a combination.
LEMMA CombinationMember ==
  ASSUME NEW in, NEW c
  PROVE  c \in Combinations(in) <=>
           c = [i \in Neighbors |-> c[i]] /\ \A i \in Neighbors : c[i] \in in[i]
<1> DEFINE U == UNION {in[i] : i \in Neighbors}
<1>1. ASSUME NEW i \in Neighbors PROVE in[i] \subseteq U
  OBVIOUS
<1>2. c \in [Neighbors -> U] <=>
        c = [i \in Neighbors |-> c[i]] /\ \A i \in Neighbors : c[i] \in U
  <2> HIDE DEF U
  <2> QED BY Zenon
<1>3. c \in Combinations(in) <=>
        c \in [Neighbors -> U] /\ \A i \in Neighbors : c[i] \in in[i]
  BY DEF Combinations
<1> HIDE DEF U
<1> QED BY <1>1, <1>2, <1>3, Zenon

\* A combination of all models takes its i-th model from neighbor i.
LEMMA AllMember ==
  ASSUME Sized, NEW c \in AllCombinations, NEW i \in Neighbors
  PROVE  c[i] \in FullPack(i) /\ c[i][2] \in 1 .. models[i]
<1>1. c[i] \in Pack(i, models[i], 0, 0)
  BY CombinationMember DEF AllCombinations
<1>2. models[i] \in Nat
  BY DEF Sized
<1>3. PICK k \in 1 .. models[i] : c[i] = <<i, k>>
  BY <1>1, <1>2, PackMember
<1> QED BY <1>1, <1>3 DEF FullPack

\* The current pack is the part of the full pack that At describes.
LEMMA CurrentMember ==
  ASSUME Sized, NEW c, NEW i \in Neighbors
  PROVE  c[i] \in CurrentPack(i) <=> c[i] \in FullPack(i) /\ At(c, i)
<1>1. models[i] \in Nat /\ pack_size \in Nat
  BY DEF Sized
<1>2. Low(i) \in Nat /\ High(i) \in Nat /\ (High(i) = 0 <=> pack_size = 0)
  <2>1. Low(i) \in Nat /\ High(i) = Low(i) + pack_size
    BY Digits
  <2>2. pack_size = 0 => High(i) = 0
    BY MulStep DEF High, Sized
  <2> QED BY <1>1, <2>1, <2>2
<1>3. c[i] \in CurrentPack(i) <=>
        \E k \in 1 .. models[i] : c[i] = <<i, k>> /\
          (High(i) = 0 \/ (Low(i) + 1 <= k /\ k <= High(i)))
  BY DEF CurrentPack, Pack
<1>4. c[i] \in FullPack(i) <=> \E k \in 1 .. models[i] : c[i] = <<i, k>>
  BY DEF FullPack, Pack
<1>5. \A k \in 1 .. models[i] : c[i] = <<i, k>> =>
        (At(c, i) <=> High(i) = 0 \/ (Low(i) + 1 <= k /\ k <= High(i)))
  BY <1>1, <1>2 DEF At
<1> QED BY <1>3, <1>4, <1>5

\* Before the first carry the current pack is the first one.
LEMMA FirstIsCurrent ==
  ASSUME Sized, NEW i \in Neighbors, pack_count[i] = 0
  PROVE  FirstPack(i) = CurrentPack(i)
<1>1. models[i] \in Nat /\ pack_size \in Nat
  BY DEF Sized
<1>2. Low(i) = 0 /\ High(i) = pack_size
  BY <1>1, Digits
<1>3. \A x : x \in FirstPack(i) <=> x \in CurrentPack(i)
  BY <1>1, <1>2 DEF FirstPack, CurrentPack, Pack
<1> QED BY <1>3

\* A first pack is empty exactly when the neighbor has no model.
LEMMA FirstNonEmpty ==
  ASSUME Sized, NEW i \in Neighbors
  PROVE  FirstPack(i) # {} <=> models[i] > 0
<1>1. models[i] \in Nat /\ pack_size \in Nat
  BY DEF Sized
<1>2. ASSUME models[i] > 0 PROVE <<i, 1>> \in FirstPack(i)
  <2>1. 1 \in 1 .. models[i]
    BY <1>1, <1>2
  <2>2. pack_size = 0 \/ ((IF pack_size > 0 THEN 1 ELSE 0) <= 1 /\ 1 <= pack_size)
    BY <1>1
  <2> QED BY <1>1, <2>1, <2>2, PackMember, Zenon DEF FirstPack
<1>3. ASSUME NEW x \in FirstPack(i) PROVE models[i] > 0
  BY <1>1, PackMember DEF FirstPack
<1> QED BY <1>2, <1>3

\* An inconsistent neighbor leaves nothing to join.
LEMMA InconsistentEmpty ==
  ASSUME Sized, NEW i \in Neighbors, FirstPack(i) = {}
  PROVE  AllCombinations = {}
<1>1. models[i] \in Nat /\ ~(models[i] > 0)
  BY FirstNonEmpty DEF Sized
<1>2. ASSUME NEW c \in AllCombinations PROVE FALSE
  BY <1>1, AllMember
<1> QED BY <1>2

-----------------------------------------------------------------------------
(* The odometer                                                            *)

\* Joining the current packs joins exactly the combinations Reached.
LEMMA JoinCovers ==
  ASSUME Sized, Loaded(0)
  PROVE  Combinations(input_belief_states) = Reached(0)
<1>1. \A i \in Neighbors : i >= 0
  BY NAssumption DEF Neighbors
<1>2. \A i \in Neighbors : input_belief_states[i] = CurrentPack(i)
  BY <1>1 DEF Loaded
<1>3. ASSUME NEW c
      PROVE  c \in Combinations(input_belief_states) <=> c \in Reached(0)
  <2>1. c \in Combinations(input_belief_states) <=>
          c = [i \in Neighbors |-> c[i]] /\
          \A i \in Neighbors : c[i] \in FullPack(i) /\ At(c, i)
    BY <1>2, CombinationMember, CurrentMember
  <2>2. c \in AllCombinations <=>
          c = [i \in Neighbors |-> c[i]] /\ \A i \in Neighbors : c[i] \in FullPack(i)
    BY CombinationMember DEF AllCombinations, FullPack
  <2> QED BY <1>1, <2>1, <2>2 DEF Reached
<1> QED BY <1>3

\* What has been passed is not joined again.
LEMMA JoinFresh ==
  ASSUME Sized
  PROVE  Passed(0) \cap Reached(0) = {}
<1> SUFFICES ASSUME NEW c \in AllCombinations, NEW k \in Neighbors,
                    Before(c, k), At(c, k)
             PROVE  FALSE
  BY NAssumption DEF Passed, Reached, Neighbors
<1>1. c[k][2] \in 1 .. models[k] /\ models[k] \in Nat /\ Low(k) \in Nat
  BY AllMember, Digits DEF Sized
<1>2. CASE pack_size = 0
  <2>1. Low(k) = 0
    BY <1>2, MulStep DEF Low, Sized
  <2> QED BY <1>1, <2>1 DEF Before
<1>3. CASE pack_size # 0
  BY <1>1, <1>3 DEF Before, At
<1> QED BY <1>2, <1>3

\* Counting digit j up passes the packs that were reached.
LEMMA CountUp ==
  ASSUME Sized, NEW j \in Neighbors, pack_size > 0,
         pack_count' = [pack_count EXCEPT ![j] = @ + 1],
         UNCHANGED <<pack_size, models>>
  PROVE  Passed(j)' = Passed(j) \cup Reached(j)
<1>1. AllCombinations' = AllCombinations
  BY DEF AllCombinations, Combinations, Pack
<1>2. \A i \in Neighbors : i # j => Low(i)' = Low(i) /\ High(i)' = High(i)
  BY DEF Low, High, Sized
<1>3. Low(j)' = High(j)
  BY DEF Low, High, Sized
<1>4. \A i \in Neighbors : i \in Int
  BY NAssumption DEF Neighbors
<1>5. ASSUME NEW c \in AllCombinations
      PROVE  Before(c, j)' <=> Before(c, j) \/ At(c, j)
  <2>1. c[j][2] \in 1 .. models[j] /\ models[j] \in Nat /\ Low(j) \in Nat
        /\ High(j) = Low(j) + pack_size /\ pack_size \in Nat
    BY AllMember, Digits DEF Sized
  <2> QED BY <1>3, <2>1 DEF Before, At
<1>6. ASSUME NEW c \in AllCombinations, NEW i \in Neighbors, i > j
      PROVE  (At(c, i)' <=> At(c, i)) /\ (Before(c, i)' <=> Before(c, i))
  BY <1>2, <1>4, <1>6 DEF At, Before
<1>7. ASSUME NEW c \in AllCombinations
      PROVE  c \in Passed(j)' <=> c \in Passed(j) \cup Reached(j)
  <2>1. c \in Passed(j)' <=>
          \E k \in Neighbors :
            k >= j /\ Before(c, k)' /\ \A i \in Neighbors : i > k => At(c, i)'
    BY <1>1 DEF Passed
  <2>2. c \in Passed(j)' <=>
          \/ Before(c, j)' /\ \A i \in Neighbors : i > j => At(c, i)'
          \/ \E k \in Neighbors :
               k > j /\ Before(c, k)' /\ \A i \in Neighbors : i > k => At(c, i)'
    BY <1>4, <2>1
  <2>3. c \in Passed(j) <=>
          \/ Before(c, j) /\ \A i \in Neighbors : i > j => At(c, i)
          \/ \E k \in Neighbors :
               k > j /\ Before(c, k) /\ \A i \in Neighbors : i > k => At(c, i)
    BY <1>4 DEF Passed
  <2>4. c \in Reached(j) <=>
          At(c, j) /\ \A i \in Neighbors : i > j => At(c, i)
    BY <1>4 DEF Reached
  <2>5. \A i, k \in Neighbors : k > j /\ i > k => i > j
    BY <1>4
  <2> QED BY <1>5, <1>6, <2>2, <2>3, <2>4, <2>5
<1> QED BY <1>1, <1>7 DEF Passed, Reached

\* When neighbor j has no further pack the carry moves on to j + 1.
LEMMA CarryOn ==
  ASSUME Sized, NEW j \in Neighbors, pack_size > 0, CurrentPack(j) = {}
  PROVE  Passed(j) = Passed(j + 1) \cup Reached(j + 1)
<1>1. \A i \in Neighbors : i \in Int
  BY NAssumption DEF Neighbors
<1>2. ASSUME NEW c \in AllCombinations PROVE Before(c, j)
  <2>1. c[j][2] \in 1 .. models[j] /\ models[j] \in Nat /\ Low(j) \in Nat
        /\ High(j) = Low(j) + pack_size /\ pack_size \in Nat
    BY AllMember, Digits DEF Sized
  <2>2. ASSUME models[j] > Low(j) PROVE <<j, Low(j) + 1>> \in CurrentPack(j)
    BY <2>1, <2>2, PackMember DEF CurrentPack
  <2> QED BY <2>1, <2>2 DEF Before
<1>3. ASSUME NEW c \in AllCombinations
      PROVE  c \in Passed(j) <=> c \in Passed(j + 1) \cup Reached(j + 1)
  <2>1. c \in Passed(j) <=>
          \/ Before(c, j) /\ \A i \in Neighbors : i > j => At(c, i)
          \/ \E k \in Neighbors :
               k > j /\ Before(c, k) /\ \A i \in Neighbors : i > k => At(c, i)
    BY <1>1 DEF Passed
  <2>2. c \in Passed(j + 1) <=>
          \E k \in Neighbors :
            k > j /\ Before(c, k) /\ \A i \in Neighbors : i > k => At(c, i)
    BY <1>1 DEF Passed
  <2>3. c \in Reached(j + 1) <=> \A i \in Neighbors : i > j => At(c, i)
    BY <1>1 DEF Reached
  <2> QED BY <1>2, <2>1, <2>2, <2>3
<1> QED BY <1>3 DEF Passed, Reached

\* Going back to the first packs below j loses nothing and repeats nothing.
LEMMA Refill ==
  ASSUME Sized, NEW j \in Neighbors,
         pack_count' = [i \in Neighbors |-> IF i < j THEN 0 ELSE pack_count[i]],
         UNCHANGED <<pack_size, models>>
  PROVE  Passed(0)' = Passed(j)
<1>1. AllCombinations' = AllCombinations
  BY DEF AllCombinations, Combinations, Pack
<1>2. \A i \in Neighbors : i \in Int /\ i >= 0
  BY NAssumption DEF Neighbors
<1>3. \A i \in Neighbors : i >= j => Low(i)' = Low(i) /\ High(i)' = High(i)
  BY <1>2 DEF Low, High
<1>4. ASSUME NEW i \in Neighbors, i < j PROVE Low(i)' = 0
  <2>1. pack_count'[i] = 0 /\ pack_size' \in Nat
    BY <1>4 DEF Sized
  <2> QED BY <2>1, MulStep DEF Low
<1>5. ASSUME NEW c \in AllCombinations, NEW i \in Neighbors
      PROVE  /\ i < j => ~Before(c, i)'
             /\ i >= j => (Before(c, i)' <=> Before(c, i)) /\ (At(c, i)' <=> At(c, i))
  <2>1. c[i][2] \in 1 .. models[i] /\ models[i] \in Nat
    BY AllMember DEF Sized
  <2>2. i < j => ~Before(c, i)'
    BY <1>4, <2>1 DEF Before
  <2>3. i >= j => (Before(c, i)' <=> Before(c, i)) /\ (At(c, i)' <=> At(c, i))
    BY <1>3 DEF Before, At
  <2> QED BY <2>2, <2>3
<1>6. ASSUME NEW c \in AllCombinations
      PROVE  c \in Passed(0)' <=> c \in Passed(j)
  <2>1. c \in Passed(0)' <=>
          \E k \in Neighbors :
            k >= 0 /\ Before(c, k)' /\ \A i \in Neighbors : i > k => At(c, i)'
    BY <1>1 DEF Passed
  <2>2. c \in Passed(0)' <=>
          \E k \in Neighbors :
            k >= j /\ Before(c, k)' /\ \A i \in Neighbors : i > k => At(c, i)'
    BY <1>2, <1>5, <2>1
  <2>3. \A i, k \in Neighbors : k >= j /\ i > k => i >= j
    BY <1>2
  <2> QED BY <1>5, <2>2, <2>3 DEF Passed
<1> QED BY <1>1, <1>6 DEF Passed

\* The carry has left the last digit: everything has been joined.
LEMMA Overflow ==
  Passed(N) \cup Reached(N) = AllCombinations
<1>1. \A i \in Neighbors : ~(i >= N)
  BY NAssumption DEF Neighbors
<1> QED BY <1>1 DEF Passed, Reached

\* At 0 nothing has been passed.
LEMMA StartAtZero ==
  ASSUME Sized, pack_count = [i \in Neighbors |-> 0]
  PROVE  Passed(0) = {}
<1> SUFFICES ASSUME NEW c \in AllCombinations, NEW k \in Neighbors, Before(c, k)
             PROVE  FALSE
  BY DEF Passed
<1>1. c[k][2] \in 1 .. models[k] /\ models[k] \in Nat /\ Low(k) = 0
  BY AllMember, Digits DEF Sized
<1> QED BY <1>1 DEF Before

\* With pack_size 0 the first join is the only one.
LEMMA OnePack ==
  ASSUME pack_size = 0
  PROVE  Passed(0) \cup Reached(0) = AllCombinations
BY DEF Passed, Reached, At

-----------------------------------------------------------------------------
(* Type correctness                                                        *)

Request == [qid : Nat, k1 : Nat, k2 : Nat, models : Nat]

LEMMA AnswerType ==
  ASSUME TypeOK, NEW i \in Neighbors, asked[i] # <<>>
  PROVE  /\ Answer(i) \subseteq Neighbors \X Nat
         /\ Head(asked[i]).qid \in Nat
         /\ Tail(asked[i]) \in Seq(Request)
<1>1. asked[i] \in Seq(Request)
  BY DEF TypeOK, Request
<1>2. Head(asked[i]) \in Request /\ Tail(asked[i]) \in Seq(Request)
  BY <1>1
<1>3. Head(asked[i]).models \in Nat /\ Head(asked[i]).qid \in Nat
  BY <1>2 DEF Request
<1>4. Answer(i) \subseteq Neighbors \X Nat
  BY <1>3 DEF Answer, Pack
<1> QED BY <1>2, <1>3, <1>4

LEMMA CombinationType ==
  ASSUME input_belief_states \in [Neighbors -> SUBSET (Neighbors \X Nat)]
  PROVE  Combinations(input_belief_states) \subseteq [Neighbors -> Neighbors \X Nat]
<1>1. UNION {input_belief_states[i] : i \in Neighbors} \subseteq Neighbors \X Nat
  OBVIOUS
<1> DEFINE U == UNION {input_belief_states[i] : i \in Neighbors}
<1>2. Combinations(input_belief_states) \subseteq [Neighbors -> U]
  BY DEF Combinations
<1> HIDE DEF U
<1>3. U \subseteq Neighbors \X Nat
  BY <1>1 DEF U
<1> QED BY <1>2, <1>3

LEMMA AskType ==
  ASSUME TypeOK, NEW S \in SUBSET Neighbors, NEW a \in Nat, NEW b \in Nat,
         ask_neighbor(S, a, b)
  PROVE  /\ input_belief_states' \in [Neighbors -> SUBSET (Neighbors \X Nat)]
         /\ registered' \subseteq Nat \X Neighbors
         /\ asked' \in [Neighbors -> Seq(Request)]
<1> DEFINE r(i) == [qid |-> query_counter, k1 |-> a, k2 |-> b, models |-> models[i]]
<1>1. \A i \in Neighbors : r(i) \in Request
  BY TypeSized DEF TypeOK, Sized, Request
<1>2. asked \in [Neighbors -> Seq(Request)]
  BY DEF TypeOK, Request
<1>3. asked' = [i \in Neighbors |->
        IF i \in S THEN Append(asked[i], r(i)) ELSE asked[i]]
  BY DEF ask_neighbor
<1> HIDE DEF r
<1>4. asked' \in [Neighbors -> Seq(Request)]
  BY <1>1, <1>2, <1>3
<1> QED BY <1>4 DEF ask_neighbor, TypeOK

LEMMA AnsweredType ==
  ASSUME TypeOK, NEW i \in Neighbors, asked[i] # <<>>, Answered(i)
  PROVE  /\ registered' \subseteq Nat \X Neighbors
         /\ asked' \in [Neighbors -> Seq(Request)]
<1>1. asked \in [Neighbors -> Seq(Request)]
  BY DEF TypeOK, Request
<1> QED BY <1>1, AnswerType, Zenon DEF Answered, TypeOK

LEMMA ResetType ==
  ASSUME reset
  PROVE  /\ joined_results' = {}
         /\ input_belief_states' \in [Neighbors -> SUBSET (Neighbors \X Nat)]
         /\ asking_next' = FALSE
         /\ next_neighbor' = 0
         /\ pack_count' \in [Neighbors -> Nat]
BY DEF reset

LEMMA FirstPacksType ==
  ASSUME TypeOK, IndexInv, pc \in {"ask_first", "wait_first"}
  PROVE  FirstPacks \subseteq Neighbors
BY NAssumption DEF FirstPacks, Neighbors, IndexInv, TypeOK

LEMMA NextType ==
  ASSUME TypeOK, IndexInv, [Next]_vars
  PROVE  TypeOK' /\ IndexInv'
<1> USE DEF Request
<1>0. 0 \in Neighbors
  BY NAssumption DEF Neighbors
<1>1. CASE first_join
  BY <1>0, <1>1, ResetType, NAssumption, MaxRequestsAssumption
     DEF first_join, wire, TypeOK, IndexInv
<1>2. CASE ask_first_packs
  <2>1. FirstPacks \subseteq Neighbors
    BY <1>2, FirstPacksType DEF ask_first_packs
  <2>2. pack_size \in Nat
    BY PackSizesAssumption DEF TypeOK
  <2> QED BY <1>2, <2>1, <2>2, AskType
          DEF ask_first_packs, joinState, request, TypeOK, IndexInv
<1>3. ASSUME NEW i \in Neighbors, BailOut(i) PROVE TypeOK' /\ IndexInv'
  <2>1. CASE asking_next
    BY <1>3, <2>1, AnsweredType DEF BailOut, joinState, request, TypeOK, IndexInv
  <2>2. CASE ~asking_next
    <3>1. orphaned' \in BOOLEAN
      BY <1>3, <2>2 DEF BailOut, Outstanding, TypeOK
    <3>2. /\ joined_results' = {}
          /\ input_belief_states' \in [Neighbors -> SUBSET (Neighbors \X Nat)]
          /\ asking_next' = FALSE
          /\ next_neighbor' = 0
          /\ pack_count' \in [Neighbors -> Nat]
      BY <1>3, <2>2, ResetType DEF BailOut
    <3>3. registered' \subseteq Nat \X Neighbors /\ asked' \in [Neighbors -> Seq(Request)]
      BY <1>3, AnsweredType DEF BailOut
    <3>4. pc' = "idle" /\ UNCHANGED <<marking_neighbors, query_counter, request, tried>>
      BY <1>3, <2>2 DEF BailOut, ReturnNull
    <3>5. next_neighbor' \in 0 .. N
      BY <3>2, NAssumption
    <3> QED BY <3>1, <3>2, <3>3, <3>4, <3>5 DEF request, TypeOK, IndexInv
  <2> QED BY <2>1, <2>2
<1>4. ASSUME NEW i \in Neighbors, ReceiveFirst(i) PROVE TypeOK' /\ IndexInv'
  <2>1. input_belief_states' \in [Neighbors -> SUBSET (Neighbors \X Nat)]
    BY <1>4, AnswerType DEF ReceiveFirst, TypeOK
  <2>2. pc' \in {"join", "wait_first"} /\ pack_count' \in [Neighbors -> Nat]
    <3>1. pack_count \in [Neighbors -> Nat]
      BY DEF TypeOK
    <3>2. CASE marking_neighbors' = FirstPacks
      BY <1>4, <3>1, <3>2 DEF ReceiveFirst
    <3>3. CASE marking_neighbors' # FirstPacks
      BY <1>4, <3>1, <3>3 DEF ReceiveFirst
    <3> QED BY <3>2, <3>3
  <2>3. marking_neighbors' \subseteq Neighbors
    BY <1>4 DEF ReceiveFirst, TypeOK
  <2>4. registered' \subseteq Nat \X Neighbors /\ asked' \in [Neighbors -> Seq(Request)]
    BY <1>4, AnsweredType DEF ReceiveFirst
  <2> QED BY <1>4, <2>1, <2>2, <2>3, <2>4
          DEF ReceiveFirst, request, TypeOK, IndexInv
<1>5. ASSUME NEW i \in Neighbors, ReceiveNext(i) PROVE TypeOK' /\ IndexInv'
  <2>1. input_belief_states' \in [Neighbors -> SUBSET (Neighbors \X Nat)]
    BY <1>5, AnswerType DEF ReceiveNext, TypeOK
  <2>2. registered' \subseteq Nat \X Neighbors /\ asked' \in [Neighbors -> Seq(Request)]
    BY <1>5, AnsweredType DEF ReceiveNext
  <2>3. next_neighbor \in Neighbors
    BY <1>5 DEF ReceiveNext, IndexInv
  <2>4. /\ pc' \in {"ask_first", "join", "loop"}
        /\ next_neighbor' \in 0 .. N
        /\ asking_next' \in BOOLEAN
        /\ asking_next' => next_neighbor' > 0
        /\ pc' = "ask_first" => next_neighbor' \in Neighbors
    <3>1. CASE Answer(i) # {}
      BY <1>5, <2>3, <3>1 DEF ReceiveNext, TypeOK, IndexInv
    <3>2. CASE Answer(i) = {}
      <4>1. next_neighbor' = next_neighbor + 1 /\ asking_next' = TRUE /\ pc' = "loop"
        BY <1>5, <3>2 DEF ReceiveNext
      <4> QED BY <2>3, <4>1, NAssumption DEF Neighbors
    <3> QED BY <3>1, <3>2
  <2> QED BY <1>5, <2>1, <2>2, <2>4 DEF ReceiveNext, request, TypeOK, IndexInv
<1>6. CASE do_join
  <2>1. Combinations(input_belief_states) \subseteq [Neighbors -> Neighbors \X Nat]
    BY CombinationType DEF TypeOK
  <2>2. joined_results' \subseteq Combinations(input_belief_states)
    BY <1>6 DEF do_join, TakeResult
  <2>3. pc' \in {"ready", "loop", "idle"}
    BY <1>6 DEF do_join, TakeResult, ReturnNull
  <2>4. next_neighbor' = 0 /\ 0 \in 0 .. N /\ asking_next' = FALSE
    BY <1>6, NAssumption DEF do_join
  <2>5. tried' = tried \cup Combinations(input_belief_states)
    BY <1>6 DEF do_join
  <2>6. UNCHANGED <<pack_count, input_belief_states, marking_neighbors,
                    query_counter, wire, request, orphaned>>
    BY <1>6 DEF do_join
  <2> QED BY <2>1, <2>2, <2>3, <2>4, <2>5, <2>6
          DEF wire, request, TypeOK, IndexInv
<1>7. CASE next_join
  <2>1. joined_results' \subseteq joined_results
    BY <1>7 DEF next_join, TakeResult
  <2>2. pc' \in {"ready", "loop", "idle"}
    BY <1>7 DEF next_join, TakeResult, ReturnNull
  <2>3. query_counter' = query_counter + 1
        /\ UNCHANGED <<joinState, input_belief_states, marking_neighbors, wire,
                       request, tried, orphaned>>
    BY <1>7 DEF next_join
  <2>4. query_counter' \in Nat
    BY <2>3 DEF TypeOK
  <2>5. joined_results' \subseteq [Neighbors -> Neighbors \X Nat]
    BY <2>1, Zenon DEF TypeOK
  <2>6. UNCHANGED <<pack_size, models, requests, next_neighbor, asking_next, pack_count,
                    input_belief_states, marking_neighbors, asked, registered,
                    tried, orphaned>>
    BY <2>3 DEF joinState, wire, request
  <2>7. TypeOK'
    BY <2>2, <2>4, <2>5, <2>6, SMTT(30) DEF TypeOK
  <2> QED BY <2>2, <2>6, <2>7 DEF IndexInv
<1>8. CASE AskNext
  <2>1. next_neighbor \in Neighbors
    BY <1>8, NAssumption DEF AskNext, TypeOK, Neighbors
  <2>2. pack_size \in Nat /\ pack_count[next_neighbor] + 1 \in Nat
        /\ pack_count' \in [Neighbors -> Nat]
    BY <1>8, <2>1, PackSizesAssumption DEF AskNext, TypeOK
  <2>3. /\ (pack_count[next_neighbor] + 1) * pack_size + 1 \in Nat
        /\ (pack_count[next_neighbor] + 1 + 1) * pack_size \in Nat
    BY <2>2, MulStep
  <2>4. ask_neighbor({next_neighbor},
                     (pack_count[next_neighbor] + 1) * pack_size + 1,
                     (pack_count[next_neighbor] + 1 + 1) * pack_size)
    BY <1>8 DEF AskNext
  <2>5. /\ input_belief_states' \in [Neighbors -> SUBSET (Neighbors \X Nat)]
        /\ registered' \subseteq Nat \X Neighbors
        /\ asked' \in [Neighbors -> Seq(Request)]
    BY <2>1, <2>3, <2>4, AskType
  <2> QED BY <1>8, <2>1, <2>2, <2>5 DEF AskNext, request, TypeOK, IndexInv
<1>9. CASE NoMoreModels
  <2>1. /\ joined_results' = {}
        /\ input_belief_states' \in [Neighbors -> SUBSET (Neighbors \X Nat)]
        /\ asking_next' = FALSE
        /\ next_neighbor' = 0
        /\ pack_count' \in [Neighbors -> Nat]
    BY <1>9, ResetType DEF NoMoreModels
  <2>2. pc' = "idle" /\ UNCHANGED <<marking_neighbors, query_counter, wire, request,
                                    tried, orphaned>>
    BY <1>9 DEF NoMoreModels, ReturnNull
  <2>3. next_neighbor' \in 0 .. N
    BY <2>1, NAssumption
  <2> QED BY <2>1, <2>2, <2>3 DEF wire, request, TypeOK, IndexInv
<1>10. CASE UNCHANGED vars
  BY <1>10 DEF vars, TypeOK, IndexInv
<1> QED BY <1>1, <1>2, <1>3, <1>4, <1>5, <1>6, <1>7, <1>8, <1>9, <1>10
        DEF Next, JoinerStep

-----------------------------------------------------------------------------
(* The invariant step by step, as long as no answer is orphaned            *)

SyncInv == WireInv /\ PackInv /\ CoverInv

LEMMA Single ==
  \A x : <<x>> # <<>> /\ Append(<<>>, x) = <<x>> /\ Head(<<x>>) = x
         /\ Tail(<<x>>) = <<>>
OBVIOUS

\* Packs and combinations depend on these variables alone.
LEMMA SamePacks ==
  ASSUME UNCHANGED <<pack_size, models, pack_count>>
  PROVE  /\ AllCombinations' = AllCombinations
         /\ \A i : CurrentPack(i)' = CurrentPack(i)
         /\ \A i : FirstPack(i)' = FirstPack(i)
         /\ \A j : Passed(j)' = Passed(j)
         /\ \A j : Reached(j)' = Reached(j)
         /\ Consistent' = Consistent
<1>1. AllCombinations' = AllCombinations
  BY DEF AllCombinations, Combinations, Pack
<1>2. \A i : Low(i)' = Low(i) /\ High(i)' = High(i)
  BY DEF Low, High
<1>3. \A i : CurrentPack(i)' = CurrentPack(i)
  BY <1>2 DEF CurrentPack, Pack
<1>4. \A i : FirstPack(i)' = FirstPack(i)
  BY DEF FirstPack, Pack
<1>5. \A c, i : (At(c, i)' <=> At(c, i)) /\ (Before(c, i)' <=> Before(c, i))
  BY <1>2 DEF At, Before
<1>6. \A j : Passed(j)' = Passed(j)
  BY <1>1, <1>5 DEF Passed
<1>7. \A j : Reached(j)' = Reached(j)
  BY <1>1, <1>5 DEF Reached
<1> QED BY <1>1, <1>3, <1>4, <1>6, <1>7 DEF Consistent

LEMMA FirstJoinStep ==
  ASSUME IInv, ~orphaned, first_join
  PROVE  SyncInv'
<1>1. pc' = "ask_first" /\ pc \in {"idle", "ready"}
  BY DEF first_join
<1>2. \A i \in Neighbors : asked[i] = <<>>
  BY <1>1 DEF IInv, WireInv
<1>3. registered = {}
  BY <1>2 DEF IInv, WireInv
<1>4. WireInv'
  BY <1>1, <1>2, <1>3 DEF first_join, wire, WireInv
<1>5. PackInv'
  BY <1>1 DEF PackInv
<1>6. CoverInv'
  BY <1>1 DEF first_join, reset, CoverInv
<1> QED BY <1>4, <1>5, <1>6 DEF SyncInv

LEMMA AskFirstStep ==
  ASSUME IInv, ~orphaned, ask_first_packs
  PROVE  SyncInv'
<1>1. pc' = "wait_first" /\ pc = "ask_first" /\ marking_neighbors' = {}
  BY DEF ask_first_packs
<1>2. UNCHANGED <<pack_size, models, pack_count, next_neighbor, asking_next,
                  query_counter, tried, requests>>
  BY DEF ask_first_packs, joinState, request
<1>3. FirstPacks' = FirstPacks
  BY <1>2 DEF FirstPacks
<1>4. 0 \in FirstPacks /\ FirstPacks \subseteq Neighbors
  <2>1. FirstPacks \subseteq Neighbors
    BY <1>1, FirstPacksType DEF IInv
  <2>2. next_neighbor \in Nat /\ (asking_next => next_neighbor > 0)
    BY DEF IInv, IndexInv, TypeOK
  <2> QED BY <2>1, <2>2, NAssumption DEF FirstPacks
<1>5. \A i \in Neighbors : asked[i] = <<>>
  BY <1>1 DEF IInv, WireInv
<1>6. registered = {}
  BY <1>5 DEF IInv, WireInv
<1>7. ASSUME NEW i \in Neighbors
      PROVE  asked'[i] = IF i \in FirstPacks THEN <<FirstRequest(i)>> ELSE <<>>
  <2>1. asked'[i] = IF i \in FirstPacks THEN Append(asked[i], FirstRequest(i))
                                        ELSE asked[i]
    BY Zenon DEF ask_first_packs, ask_neighbor, FirstRequest
  <2> QED BY <1>5, <2>1, Single
<1>8. \A i : FirstRequest(i)' = FirstRequest(i)
  BY <1>2 DEF FirstRequest
<1>9. WireInv'
  <2>1. registered' = {<<query_counter, i>> : i \in FirstPacks}
    BY <1>6 DEF ask_first_packs, ask_neighbor
  <2>2. {j \in Neighbors : asked'[j] # <<>>} = FirstPacks
    BY <1>4, <1>7, Single
  <2> QED BY <1>1, <1>2, <1>3, <1>4, <1>7, <1>8, <2>1, <2>2 DEF WireInv
<1>10. ASSUME NEW i \in Neighbors
       PROVE  input_belief_states'[i] =
                IF i \in FirstPacks THEN {} ELSE input_belief_states[i]
  BY DEF ask_first_packs, ask_neighbor
<1>11. PackInv'
  BY <1>1, <1>3, <1>4, <1>10 DEF PackInv
<1>12. CoverInv'
  <2>1. CASE ~asking_next
    BY <1>1, <1>2, <2>1 DEF IInv, CoverInv
  <2>2. CASE asking_next
    <3>1. /\ next_neighbor \in 1 .. N - 1
          /\ pack_size > 0
          /\ Consistent
          /\ tried = Passed(next_neighbor)
          /\ Loaded(next_neighbor)
      BY <1>1, <2>2 DEF IInv, CoverInv
    <3>2. \A i \in Neighbors : i >= next_neighbor => i \notin FirstPacks
      BY <2>2, <3>1, NAssumption DEF FirstPacks, Neighbors
    <3>3. Loaded(next_neighbor)'
      BY <1>2, <1>10, <3>1, <3>2, SamePacks DEF Loaded
    <3> QED BY <1>1, <1>2, <2>2, <3>1, <3>3, SamePacks DEF CoverInv
  <2> QED BY <2>1, <2>2
<1> QED BY <1>9, <1>11, <1>12 DEF SyncInv

\* In ask_first_packs an answer is the first pack of a neighbor not seen yet.
LEMMA FirstAnswer ==
  ASSUME IInv, ~orphaned, pc = "wait_first", NEW i \in Neighbors, asked[i] # <<>>
  PROVE  /\ i \in FirstPacks \ marking_neighbors
         /\ asked[i] = <<FirstRequest(i)>>
         /\ Answer(i) = FirstPack(i)
         /\ input_belief_states[i] = {}
<1>1. asked[i] = IF i \in FirstPacks \ marking_neighbors THEN <<FirstRequest(i)>>
                                                         ELSE <<>>
  BY DEF IInv, WireInv
<1>2. i \in FirstPacks \ marking_neighbors /\ asked[i] = <<FirstRequest(i)>>
  BY <1>1
<1>3. Head(asked[i]) = FirstRequest(i)
  BY <1>2
<1>4. Answer(i) = FirstPack(i)
  <2> DEFINE r == FirstRequest(i)
  <2>1. /\ r.models = models[i] /\ r.k2 = pack_size
        /\ r.k1 = IF pack_size > 0 THEN 1 ELSE 0
    BY DEF FirstRequest
  <2> HIDE DEF r
  <2>2. Answer(i) = Pack(i, r.models, r.k1, r.k2)
    BY <1>3, Zenon DEF Answer, r
  <2> QED BY <2>1, <2>2, Zenon DEF FirstPack
<1>5. input_belief_states[i] = {}
  BY <1>2 DEF IInv, PackInv
<1> QED BY <1>2, <1>4, <1>5

LEMMA BailOutStep ==
  ASSUME IInv, ~orphaned, NEW i \in Neighbors, BailOut(i), ~orphaned'
  PROVE  SyncInv'
<1>1. pc = "wait_first" /\ asked[i] # <<>> /\ CountIsZero(i)
  BY DEF BailOut
<1>2. i \in FirstPacks \ marking_neighbors /\ asked[i] = <<FirstRequest(i)>>
      /\ Answer(i) = FirstPack(i)
  BY <1>1, FirstAnswer
<1>3. FirstPack(i) = {}
  BY <1>1, <1>2 DEF CountIsZero
<1>4. Sized
  BY TypeSized DEF IInv
<1>5. ~asking_next
  <2>1. ~Consistent
    BY <1>3, <1>4, FirstNonEmpty DEF Consistent
  <2> QED BY <1>1, <2>1 DEF IInv, CoverInv
<1>6. pc' = "idle" /\ \A j \in Neighbors : asked'[j] = <<>>
  BY <1>5 DEF BailOut, ReturnNull, Outstanding
<1>7. UNCHANGED <<pack_size, models, query_counter, tried, requests>>
  BY DEF BailOut, request
<1>8. registered' = {}
  <2>1. \A j \in Neighbors : j # i => asked[j] = <<>>
    BY <1>6 DEF BailOut, Answered, IInv, TypeOK
  <2>2. registered = {<<query_counter, i>>}
    BY <1>1, <2>1 DEF IInv, WireInv
  <2>3. Head(asked[i]).qid = query_counter
    BY <1>2 DEF FirstRequest
  <2> QED BY <2>2, <2>3 DEF BailOut, Answered
<1>9. WireInv'
  BY <1>6, <1>8 DEF WireInv
<1>10. PackInv'
  BY <1>6 DEF PackInv
<1>11. CoverInv'
  <2>1. AllCombinations' = AllCombinations
    BY <1>7 DEF AllCombinations, Combinations, Pack
  <2>2. tried = {}
    BY <1>1, <1>5 DEF IInv, CoverInv
  <2>3. AllCombinations = {}
    BY <1>3, <1>4, InconsistentEmpty
  <2> QED BY <1>6, <1>7, <2>1, <2>2, <2>3 DEF CoverInv
<1> QED BY <1>9, <1>10, <1>11 DEF SyncInv

\* Reading the first pack of neighbor i, whether or not it is the last one.
LEMMA ReceiveFirstWire ==
  ASSUME IInv, ~orphaned, NEW i \in Neighbors, ReceiveFirst(i)
  PROVE  /\ i \in FirstPacks \ marking_neighbors
         /\ FirstPack(i) # {}
         /\ FirstPacks' = FirstPacks
         /\ marking_neighbors' \subseteq FirstPacks
         /\ \A j \in Neighbors : asked'[j] =
              IF j \in FirstPacks \ marking_neighbors' THEN <<FirstRequest(j)>>
                                                       ELSE <<>>
         /\ registered' = {<<query_counter, k>> :
              k \in {j \in Neighbors : asked'[j] # <<>>}}
         /\ \A j \in FirstPacks :
              /\ j \in marking_neighbors' =>
                   input_belief_states'[j] = FirstPack(j) /\ FirstPack(j) # {}
              /\ j \notin marking_neighbors' => input_belief_states'[j] = {}
         /\ \A j \in Neighbors : j \notin FirstPacks =>
              input_belief_states'[j] = input_belief_states[j]
<1>1. pc = "wait_first" /\ asked[i] # <<>> /\ CountIsPositive(i)
  BY DEF ReceiveFirst
<1>2. /\ i \in FirstPacks \ marking_neighbors
      /\ asked[i] = <<FirstRequest(i)>>
      /\ Answer(i) = FirstPack(i)
      /\ input_belief_states[i] = {}
  BY <1>1, FirstAnswer
<1>3. FirstPack(i) # {}
  BY <1>1, <1>2 DEF CountIsPositive
<1>4. FirstPacks' = FirstPacks
  BY DEF ReceiveFirst, FirstPacks
<1>5. marking_neighbors' = marking_neighbors \cup {i}
      /\ marking_neighbors \subseteq FirstPacks
  BY <1>1 DEF ReceiveFirst, IInv, WireInv
<1>6. asked' = [asked EXCEPT ![i] = Tail(@)] /\ asked \in [Neighbors -> Seq(Request)]
  BY DEF ReceiveFirst, Answered, IInv, TypeOK, Request
<1>7. asked'[i] = <<>> /\ \A j \in Neighbors : j # i => asked'[j] = asked[j]
  BY <1>2, <1>6, Single
<1>8. \A j \in Neighbors : asked[j] =
        IF j \in FirstPacks \ marking_neighbors THEN <<FirstRequest(j)>> ELSE <<>>
  BY <1>1 DEF IInv, WireInv
<1>9. \A j \in Neighbors : asked'[j] =
        IF j \in FirstPacks \ marking_neighbors' THEN <<FirstRequest(j)>> ELSE <<>>
  BY <1>5, <1>7, <1>8
<1>10. registered' = {<<query_counter, k>> :
         k \in {j \in Neighbors : asked'[j] # <<>>}}
  <2>1. registered' = registered \ {<<query_counter, i>>}
    <3>1. Head(asked[i]).qid = query_counter
      BY <1>2, Single DEF FirstRequest
    <3> QED BY <3>1 DEF ReceiveFirst, Answered
  <2>2. registered = {<<query_counter, k>> : k \in {j \in Neighbors : asked[j] # <<>>}}
    BY DEF IInv, WireInv
  <2> QED BY <1>7, <2>1, <2>2
<1>11. input_belief_states' = [input_belief_states EXCEPT ![i] = @ \cup FirstPack(i)]
       /\ DOMAIN input_belief_states = Neighbors
  BY <1>2 DEF ReceiveFirst, IInv, TypeOK
<1>12. \A j \in FirstPacks :
         /\ j \in marking_neighbors =>
              input_belief_states[j] = FirstPack(j) /\ FirstPack(j) # {}
         /\ j \notin marking_neighbors => input_belief_states[j] = {}
  BY <1>1 DEF IInv, PackInv
<1>13. FirstPacks \subseteq Neighbors
  BY <1>1, FirstPacksType DEF IInv
<1>14. input_belief_states'[i] = FirstPack(i)
       /\ \A j \in Neighbors : j # i => input_belief_states'[j] = input_belief_states[j]
  BY <1>2, <1>11
<1> QED BY <1>2, <1>3, <1>4, <1>5, <1>9, <1>10, <1>12, <1>13, <1>14

\* More first packs are missing.
LEMMA ReceiveFirstStay ==
  ASSUME IInv, ~orphaned, NEW i \in Neighbors, ReceiveFirst(i),
         marking_neighbors' # FirstPacks
  PROVE  SyncInv'
<1>1. pc = "wait_first" /\ pc' = "wait_first"
      /\ UNCHANGED <<pack_size, models, pack_count, next_neighbor, asking_next,
                     query_counter, tried, requests>>
  BY DEF ReceiveFirst, request
<1>2. \A j : FirstRequest(j)' = FirstRequest(j)
  BY <1>1 DEF FirstRequest
<1>3. WireInv'
  BY <1>1, <1>2, ReceiveFirstWire DEF WireInv
<1>4. PackInv'
  BY <1>1, ReceiveFirstWire, SamePacks DEF PackInv
<1>5. CoverInv'
  <2>1. CASE ~asking_next
    BY <1>1, <2>1 DEF IInv, CoverInv
  <2>2. CASE asking_next
    <3>1. /\ next_neighbor \in 1 .. N - 1
          /\ pack_size > 0
          /\ Consistent
          /\ tried = Passed(next_neighbor)
          /\ Loaded(next_neighbor)
      BY <1>1, <2>2 DEF IInv, CoverInv
    <3>2. \A j \in Neighbors : j >= next_neighbor => j \notin FirstPacks
      BY <2>2, <3>1, NAssumption DEF FirstPacks, Neighbors
    <3>3. Loaded(next_neighbor)'
      BY <1>1, <3>1, <3>2, ReceiveFirstWire, SamePacks DEF Loaded
    <3> QED BY <1>1, <2>2, <3>1, <3>3, SamePacks DEF CoverInv
  <2> QED BY <2>1, <2>2
<1> QED BY <1>3, <1>4, <1>5 DEF SyncInv

LEMMA ZeroPack ==
  ASSUME NEW i, NEW m \in Nat, NEW p \in Nat
  PROVE  Pack(i, m, 0 * p + 1, (0 + 1) * p) = Pack(i, m, IF p > 0 THEN 1 ELSE 0, p)
<1>1. 0 * p + 1 = 1 /\ (0 + 1) * p = p
  BY MulStep
<1>2. \A x : x \in Pack(i, m, 1, p) <=> x \in Pack(i, m, IF p > 0 THEN 1 ELSE 0, p)
  BY DEF Pack
<1> QED BY <1>1, <1>2

\* The last missing first pack: the packs are joined next.
LEMMA ReceiveFirstLast ==
  ASSUME IInv, ~orphaned, NEW i \in Neighbors, ReceiveFirst(i),
         marking_neighbors' = FirstPacks
  PROVE  SyncInv'
<1>1. /\ pc = "wait_first" /\ pc' = "join"
      /\ UNCHANGED <<pack_size, models, next_neighbor, asking_next, query_counter,
                     tried, requests>>
      /\ pack_count' = [j \in Neighbors |->
           IF asking_next /\ j < next_neighbor THEN 0 ELSE pack_count[j]]
  BY DEF ReceiveFirst, request
<1>2. Sized /\ pack_count \in [Neighbors -> Nat]
  BY TypeSized DEF IInv, Sized
<1>3. WireInv'
  <2>1. \A j \in Neighbors : asked'[j] = <<>>
    BY ReceiveFirstWire
  <2> QED BY <1>1, <2>1, ReceiveFirstWire DEF WireInv
<1>4. PackInv'
  BY <1>1 DEF PackInv
<1>5. \A j \in FirstPacks : input_belief_states'[j] = FirstPack(j) /\ FirstPack(j) # {}
  BY ReceiveFirstWire
<1>6. CoverInv'
  <2>1. CASE ~asking_next
    <3>1. tried = {} /\ pack_count = [j \in Neighbors |-> 0]
      BY <1>1, <2>1 DEF IInv, CoverInv
    <3>2. pack_count' = pack_count
      <4>1. pack_count' = [j \in Neighbors |-> pack_count[j]]
        BY <1>1, <2>1
      <4> QED BY <1>2, <4>1, Zenon
    <3>3. FirstPacks = Neighbors
      BY <2>1 DEF FirstPacks, Neighbors
    <3>4. Consistent
      BY <1>2, <1>5, <3>3, FirstNonEmpty DEF Consistent
    <3>5. Loaded(0)'
      BY <1>1, <1>2, <1>5, <3>1, <3>2, <3>3, FirstIsCurrent, SamePacks DEF Loaded
    <3>6. tried' = Passed(0)'
      BY <1>1, <1>2, <3>1, <3>2, StartAtZero, SamePacks
    <3> QED BY <1>1, <3>2, <3>4, <3>5, <3>6, SamePacks DEF CoverInv
  <2>2. CASE asking_next
    <3>1. /\ next_neighbor \in 1 .. N - 1
          /\ Consistent
          /\ tried = Passed(next_neighbor)
          /\ Loaded(next_neighbor)
      BY <1>1, <2>2 DEF IInv, CoverInv
    <3>2. next_neighbor \in Neighbors
      BY <3>1, NAssumption DEF Neighbors
    <3>3. pack_count' = [j \in Neighbors |-> IF j < next_neighbor THEN 0 ELSE pack_count[j]]
      BY <1>1, <2>2
    <3>4. tried' = Passed(0)'
      BY <1>1, <1>2, <3>1, <3>2, <3>3, Refill
    <3>5. \A j \in Neighbors : j < next_neighbor <=> j \in FirstPacks
      BY <2>2, <3>1, NAssumption DEF FirstPacks, Neighbors
    <3>6. ASSUME NEW j \in Neighbors
          PROVE  input_belief_states'[j] = CurrentPack(j)' /\ CurrentPack(j)' # {}
      <4>1. CASE j < next_neighbor
        <5>1. CurrentPack(j)' = Pack(j, models[j], 0 * pack_size + 1, (0 + 1) * pack_size)
          BY <1>1, <3>3, <4>1 DEF CurrentPack, Low, High
        <5>2. CurrentPack(j)' = FirstPack(j)
          BY <1>2, <5>1, ZeroPack DEF FirstPack, Sized
        <5> QED BY <1>5, <3>5, <4>1, <5>2
      <4>2. CASE ~(j < next_neighbor)
        <5>1. CurrentPack(j)' = CurrentPack(j)
          BY <1>1, <3>3, <4>2 DEF CurrentPack, Low, High
        <5>2. j >= next_neighbor
          BY <3>2, <4>2 DEF Neighbors
        <5>3. input_belief_states'[j] = input_belief_states[j]
          BY <3>5, <4>2, ReceiveFirstWire
        <5> QED BY <3>1, <5>1, <5>2, <5>3 DEF Loaded
      <4> QED BY <4>1, <4>2
    <3>7. Consistent'
      BY <1>1, <3>1 DEF Consistent
    <3> QED BY <1>1, <3>4, <3>6, <3>7 DEF CoverInv, Loaded
  <2> QED BY <2>1, <2>2
<1> QED BY <1>3, <1>4, <1>6 DEF SyncInv

LEMMA DoJoinStep ==
  ASSUME IInv, ~orphaned, do_join
  PROVE  SyncInv'
<1>1. /\ pc = "join"
      /\ tried' = tried \cup Combinations(input_belief_states)
      /\ next_neighbor' = 0
      /\ ~asking_next'
      /\ UNCHANGED <<pack_size, models, pack_count, input_belief_states,
                     query_counter, asked, registered, requests>>
  BY DEF do_join, wire, request
<1>2. pc' \in {"ready", "loop", "idle"}
  BY DEF do_join, TakeResult, ReturnNull
<1>3. (pc' = "loop" => pack_size > 0) /\ (pc' = "idle" => ~(pack_size > 0))
  BY DEF do_join, TakeResult, ReturnNull
<1>4. Sized
  BY TypeSized DEF IInv
<1>5. Consistent /\ tried = Passed(0) /\ Loaded(0)
  BY <1>1 DEF IInv, CoverInv
<1>6. tried' = Passed(0)' \cup Reached(0)'
  BY <1>1, <1>4, <1>5, JoinCovers, SamePacks
<1>7. Loaded(0)' /\ Consistent'
  BY <1>1, <1>5, SamePacks DEF Loaded
<1>8. pc' = "idle" => tried' = AllCombinations'
  <2>1. SUFFICES ASSUME pc' = "idle" PROVE tried' = AllCombinations'
    OBVIOUS
  <2>2. pack_size = 0
    BY <1>3, <1>4, <2>1 DEF Sized
  <2> QED BY <1>1, <1>6, <2>2, OnePack, SamePacks
<1>9. WireInv'
  BY <1>1, <1>2 DEF IInv, WireInv
<1>10. PackInv'
  BY <1>2 DEF PackInv
<1>11. CoverInv'
  BY <1>1, <1>2, <1>3, <1>6, <1>7, <1>8 DEF CoverInv
<1> QED BY <1>9, <1>10, <1>11 DEF SyncInv

LEMMA NextJoinStep ==
  ASSUME IInv, ~orphaned, next_join
  PROVE  SyncInv'
<1>1. /\ pc = "ready"
      /\ UNCHANGED <<pack_size, models, pack_count, next_neighbor, asking_next,
                     input_belief_states, asked, registered, requests, tried>>
  BY DEF next_join, joinState, wire, request
<1>2. pc' \in {"ready", "loop", "idle"}
  BY DEF next_join, TakeResult, ReturnNull
<1>3. (pc' = "loop" => pack_size # 0) /\ (pc' = "idle" => pack_size = 0)
  BY DEF next_join, TakeResult, ReturnNull
<1>4. pack_size \in Nat
  BY TypeSized DEF IInv, Sized
<1>5. /\ Consistent
      /\ next_neighbor = 0
      /\ ~asking_next
      /\ tried = Passed(0) \cup Reached(0)
      /\ Loaded(0)
  BY <1>1 DEF IInv, CoverInv
<1>6. Loaded(0)' /\ Consistent' /\ tried' = Passed(0)' \cup Reached(0)'
  BY <1>1, <1>5, SamePacks DEF Loaded
<1>7. pc' = "idle" => tried' = AllCombinations'
  BY <1>1, <1>3, <1>5, OnePack, SamePacks
<1>8. \A i \in Neighbors : asked[i] = <<>>
  BY <1>1 DEF IInv, WireInv
<1>9. registered = {}
  BY <1>8 DEF IInv, WireInv
<1>10. WireInv'
  BY <1>1, <1>2, <1>8, <1>9 DEF WireInv
<1>11. PackInv'
  BY <1>2 DEF PackInv
<1>12. CoverInv'
  BY <1>1, <1>2, <1>3, <1>4, <1>5, <1>6, <1>7 DEF CoverInv
<1> QED BY <1>10, <1>11, <1>12 DEF SyncInv

LEMMA AskNextStep ==
  ASSUME IInv, ~orphaned, AskNext
  PROVE  SyncInv'
<1> DEFINE j == next_neighbor
<1>1. /\ pc = "loop" /\ pc' = "wait_next"
      /\ pack_count' = [pack_count EXCEPT ![j] = @ + 1]
      /\ UNCHANGED <<pack_size, models, next_neighbor, asking_next, query_counter,
                     tried, requests>>
  BY DEF AskNext, request
<1>2. j \in Neighbors /\ j \in Nat
  BY NAssumption DEF AskNext, IInv, TypeOK, Neighbors
<1>3. Sized
  BY TypeSized DEF IInv
<1>4. /\ Consistent
      /\ pack_size > 0
      /\ (asking_next <=> j > 0)
      /\ tried = Passed(j) \cup Reached(j)
      /\ Loaded(j)
  BY <1>1 DEF IInv, CoverInv
<1>5. \A i \in Neighbors : asked[i] = <<>>
  BY <1>1 DEF IInv, WireInv
<1>6. registered = {}
  BY <1>5 DEF IInv, WireInv
<1>7. pack_count'[j] = pack_count[j] + 1
  BY <1>1, <1>2, <1>3 DEF Sized
<1>8. NextRequest(j)' =
        [qid |-> query_counter, k1 |-> (pack_count[j] + 1) * pack_size + 1,
         k2 |-> (pack_count[j] + 1 + 1) * pack_size, models |-> models[j]]
  BY <1>1, <1>7 DEF NextRequest, Low, High
<1>9. ASSUME NEW i \in Neighbors
      PROVE  /\ asked'[i] = IF i = j THEN <<NextRequest(i)'>> ELSE <<>>
             /\ input_belief_states'[i] = IF i = j THEN {} ELSE input_belief_states[i]
  <2>1. asked'[i] = IF i = j THEN Append(asked[i], NextRequest(i)') ELSE asked[i]
    <3>1. CASE i = j
      BY <1>8, <3>1 DEF AskNext, ask_neighbor
    <3>2. CASE i # j
      BY <3>2 DEF AskNext, ask_neighbor
    <3> QED BY <3>1, <3>2
  <2>2. input_belief_states'[i] = IF i = j THEN {} ELSE input_belief_states[i]
    BY DEF AskNext, ask_neighbor
  <2> QED BY <1>5, <2>1, <2>2, Single
<1>10. registered' = {<<query_counter, j>>}
  BY <1>6 DEF AskNext, ask_neighbor
<1>11. WireInv'
  <2>1. {i \in Neighbors : asked'[i] # <<>>} = {j}
    BY <1>2, <1>9, Single
  <2> QED BY <1>1, <1>9, <1>10, <2>1 DEF WireInv
<1>12. PackInv'
  BY <1>1, <1>2, <1>9 DEF PackInv
<1>13. tried' = Passed(j)'
  BY <1>1, <1>2, <1>3, <1>4, CountUp
<1>14. ASSUME NEW i \in Neighbors, i >= j + 1
       PROVE  input_belief_states'[i] = CurrentPack(i)' /\ CurrentPack(i)' # {}
  <2>1. i # j /\ i >= j
    BY <1>2, <1>14 DEF Neighbors
  <2>2. pack_count'[i] = pack_count[i]
    BY <1>1, <1>3, <2>1 DEF Sized
  <2>3. CurrentPack(i)' = CurrentPack(i)
    BY <1>1, <2>2 DEF CurrentPack, Low, High
  <2> QED BY <1>4, <1>9, <2>1, <2>3 DEF Loaded
<1>15. Consistent'
  BY <1>1, <1>4 DEF Consistent
<1>16. CoverInv'
  BY <1>1, <1>4, <1>13, <1>14, <1>15 DEF CoverInv, Loaded
<1> QED BY <1>11, <1>12, <1>16 DEF SyncInv

LEMMA NoMoreStep ==
  ASSUME IInv, ~orphaned, NoMoreModels
  PROVE  SyncInv'
<1>1. /\ pc = "loop" /\ pc' = "idle" /\ next_neighbor = N
      /\ UNCHANGED <<pack_size, models, query_counter, asked, registered, tried,
                     requests>>
  BY DEF NoMoreModels, ReturnNull, wire, request
<1>2. tried = AllCombinations
  BY <1>1, Overflow DEF IInv, CoverInv
<1>3. AllCombinations' = AllCombinations
  BY <1>1 DEF AllCombinations, Combinations, Pack
<1>4. WireInv'
  BY <1>1 DEF IInv, WireInv
<1>5. PackInv'
  BY <1>1 DEF PackInv
<1>6. CoverInv'
  BY <1>1, <1>2, <1>3 DEF CoverInv
<1> QED BY <1>4, <1>5, <1>6 DEF SyncInv

LEMMA ReceiveNextStep ==
  ASSUME IInv, ~orphaned, NEW i \in Neighbors, ReceiveNext(i)
  PROVE  SyncInv'
<1> DEFINE j == next_neighbor
<1>1. /\ pc = "wait_next" /\ asked[i] # <<>> /\ Answered(i)
      /\ UNCHANGED <<pack_size, models, pack_count, query_counter, tried, requests>>
  BY DEF ReceiveNext, request
<1>2. j \in Neighbors /\ j \in Nat
  BY <1>1, NAssumption DEF IInv, IndexInv, Neighbors
<1>3. Sized
  BY TypeSized DEF IInv
<1>4. /\ Consistent
      /\ pack_size > 0
      /\ (asking_next <=> j > 0)
      /\ tried = Passed(j)
      /\ Loaded(j + 1)
  BY <1>1 DEF IInv, CoverInv
<1>5. i = j /\ asked[j] = <<NextRequest(j)>>
      /\ \A k \in Neighbors : k # j => asked[k] = <<>>
  BY <1>1, <1>2 DEF IInv, WireInv
<1>6. Answer(i) = CurrentPack(j)
  <2>1. Head(asked[i]) = NextRequest(j)
    BY <1>5, Single
  <2> DEFINE r == NextRequest(j)
  <2>2. r.models = models[j] /\ r.k1 = Low(j) + 1 /\ r.k2 = High(j)
    BY DEF NextRequest
  <2> HIDE DEF r
  <2>3. Answer(i) = Pack(j, r.models, r.k1, r.k2)
    BY <1>5, <2>1, Zenon DEF Answer, r
  <2> QED BY <2>2, <2>3, Zenon DEF CurrentPack
<1>7. \A k \in Neighbors : asked'[k] = <<>>
  <2>1. asked' = [asked EXCEPT ![i] = Tail(@)] /\ DOMAIN asked = Neighbors
    BY <1>1 DEF Answered, IInv, TypeOK
  <2> QED BY <1>2, <1>5, <2>1, Single
<1>8. registered' = {}
  <2>1. Head(asked[i]).qid = query_counter
    BY <1>5, Single DEF NextRequest
  <2>2. registered = {<<query_counter, j>>}
    <3>1. {k \in Neighbors : asked[k] # <<>>} = {j}
      BY <1>2, <1>5, Single
    <3> QED BY <3>1 DEF IInv, WireInv
  <2> QED BY <1>1, <1>5, <2>1, <2>2 DEF Answered
<1>9. input_belief_states'[j] = CurrentPack(j)
      /\ \A k \in Neighbors : k # j => input_belief_states'[k] = input_belief_states[k]
  <2>1. input_belief_states[j] = {} /\ DOMAIN input_belief_states = Neighbors
    BY <1>1 DEF IInv, PackInv, TypeOK
  <2>2. input_belief_states' = [input_belief_states EXCEPT ![j] = @ \cup CurrentPack(j)]
    BY <1>6 DEF ReceiveNext
  <2> QED BY <1>2, <2>1, <2>2
<1>10. CASE CurrentPack(j) # {}
  <2>1. /\ pc' = IF asking_next THEN "ask_first" ELSE "join"
        /\ UNCHANGED <<next_neighbor, asking_next>>
    BY <1>6, <1>10 DEF ReceiveNext
  <2>2. Loaded(j)'
    <3>1. ASSUME NEW k \in Neighbors, k >= j
          PROVE  input_belief_states'[k] = CurrentPack(k) /\ CurrentPack(k) # {}
      <4>1. CASE k = j
        BY <1>9, <1>10, <4>1
      <4>2. CASE k # j
        <5>1. k >= j + 1
          BY <1>2, <3>1, <4>2 DEF Neighbors
        <5> QED BY <1>4, <1>9, <4>2, <5>1 DEF Loaded
      <4> QED BY <4>1, <4>2
    <3> QED BY <1>1, <2>1, <3>1, SamePacks DEF Loaded
  <2>3. WireInv'
    BY <1>7, <1>8, <2>1 DEF WireInv
  <2>4. PackInv'
    BY <2>1 DEF PackInv
  <2>5. CASE asking_next
    <3>1. j \in 1 .. N - 1
      BY <1>2, <1>4, <2>5, NAssumption DEF Neighbors
    <3>2. pc' = "ask_first" /\ asking_next'
      BY <2>1, <2>5
    <3>3. tried' = Passed(j)' /\ Consistent'
      BY <1>1, <1>4, <2>1, SamePacks
    <3>4. CoverInv'
      BY <1>1, <1>4, <2>1, <2>2, <3>1, <3>2, <3>3 DEF CoverInv
    <3> QED BY <2>3, <2>4, <3>4 DEF SyncInv
  <2>6. CASE ~asking_next
    <3>1. j = 0
      BY <1>2, <1>4, <2>6
    <3>2. CoverInv'
      BY <1>1, <1>4, <2>1, <2>2, <2>6, <3>1, SamePacks DEF CoverInv
    <3> QED BY <2>3, <2>4, <3>2 DEF SyncInv
  <2> QED BY <2>5, <2>6
<1>11. CASE CurrentPack(j) = {}
  <2>1. pc' = "loop" /\ next_neighbor' = j + 1 /\ asking_next'
    BY <1>6, <1>11 DEF ReceiveNext
  <2>2. tried = Passed(j + 1) \cup Reached(j + 1)
    BY <1>2, <1>3, <1>4, <1>11, CarryOn
  <2>3. \A k \in Neighbors : k >= j + 1 =>
          input_belief_states'[k] = CurrentPack(k) /\ CurrentPack(k) # {}
    BY <1>2, <1>4, <1>9 DEF Loaded, Neighbors
  <2>4. asking_next' <=> next_neighbor' > 0
    BY <1>2, <2>1
  <2>5. WireInv'
    BY <1>7, <1>8, <2>1 DEF WireInv
  <2>6. PackInv'
    BY <2>1 DEF PackInv
  <2>7. Loaded(next_neighbor)'
    BY <1>1, <2>1, <2>3, SamePacks DEF Loaded
  <2>8. tried' = Passed(next_neighbor)' \cup Reached(next_neighbor)'
    BY <1>1, <2>1, <2>2, SamePacks
  <2>9. CoverInv'
    BY <1>1, <1>4, <2>1, <2>4, <2>7, <2>8, SamePacks DEF CoverInv
  <2> QED BY <2>5, <2>6, <2>9 DEF SyncInv
<1> QED BY <1>10, <1>11

-----------------------------------------------------------------------------
(* The theorems                                                            *)

LEMMA InitIInv == Init => IInv
<1> SUFFICES ASSUME Init PROVE IInv
  OBVIOUS
<1>1. TypeOK
  <2>1. 0 \in 0 .. MaxModels /\ 0 \in 0 .. N /\ 0 \in 0 .. MaxRequests /\ 0 \in Nat
    BY NAssumption, MaxModelsAssumption, MaxRequestsAssumption
  <2>2. /\ models \in [Neighbors -> 0 .. MaxModels]
        /\ pack_count \in [Neighbors -> Nat]
        /\ input_belief_states \in [Neighbors -> SUBSET (Neighbors \X Nat)]
    BY <2>1 DEF Init
  <2>3. \A S : <<>> \in Seq(S)
    OBVIOUS
  <2>4. asked \in [Neighbors -> Seq([qid : Nat, k1 : Nat, k2 : Nat, models : Nat])]
    BY <2>3, Zenon DEF Init
  <2> QED BY <2>1, <2>2, <2>4 DEF Init, TypeOK
<1>2. IndexInv
  BY DEF Init, IndexInv
<1>3. WireInv
  BY DEF Init, WireInv
<1>4. PackInv
  BY DEF Init, PackInv
<1>5. CoverInv
  BY DEF Init, CoverInv
<1> QED BY <1>1, <1>2, <1>3, <1>4, <1>5 DEF IInv

\* Orphaned answers stay a fact of the past.
LEMMA OrphanedForGood ==
  ASSUME [Next]_vars, ~orphaned'
  PROVE  ~orphaned
BY DEF Next, JoinerStep, vars, first_join, ask_first_packs, BailOut, ReceiveFirst,
       do_join, next_join, AskNext, NoMoreModels, ReceiveNext

LEMMA NextIInv == IInv /\ [Next]_vars => IInv'
<1> SUFFICES ASSUME IInv, [Next]_vars PROVE IInv'
  OBVIOUS
<1>1. TypeOK' /\ IndexInv'
  BY NextType DEF IInv
<1>2. ASSUME ~orphaned' PROVE SyncInv'
  <2>1. ~orphaned
    BY <1>2, OrphanedForGood
  <2>2. CASE UNCHANGED vars
    <3>1. WireInv'
      BY <2>1, <2>2 DEF IInv, WireInv, FirstPacks, FirstRequest, NextRequest, Low, High, vars
    <3>2. UNCHANGED <<pack_size, models, pack_count, pc, input_belief_states, tried,
                      next_neighbor, asking_next, requests, marking_neighbors>>
      BY <2>2 DEF vars
    <3>3. \A j : Loaded(j)' <=> Loaded(j)
      BY <3>2, SamePacks DEF Loaded
    <3>4. FirstPacks' = FirstPacks
      BY <3>2 DEF FirstPacks
    <3>5. PackInv'
      BY <2>1, <3>2, <3>4, SamePacks DEF IInv, PackInv
    <3>6. CoverInv'
      BY <2>1, <3>2, <3>3, SamePacks DEF IInv, CoverInv
    <3> QED BY <3>1, <3>5, <3>6 DEF SyncInv
  <2>3. CASE Next
    BY <1>2, <2>1, <2>3, FirstJoinStep, AskFirstStep, BailOutStep, ReceiveFirstStay,
       ReceiveFirstLast, DoJoinStep, NextJoinStep, AskNextStep, NoMoreStep,
       ReceiveNextStep DEF Next, JoinerStep
  <2> QED BY <2>2, <2>3
<1> QED BY <1>1, <1>2 DEF IInv, SyncInv

LEMMA Invariance == Spec => []IInv
BY InitIInv, NextIInv, PTL DEF Spec

\* Type correctness of the joiner.
THEOREM TypeCorrect == Spec => []TypeOK
<1>1. IInv => TypeOK
  BY DEF IInv
<1> QED BY <1>1, Invariance, PTL

\* The odometer skips no combination: when first_join or next_join returns
\* NULL, all combinations of all models have been joined.
THEOREM AllCombinationsJoined == Spec => []EveryCombinationJoined
<1>1. IInv => EveryCombinationJoined
  BY DEF IInv, CoverInv, EveryCombinationJoined
<1> QED BY <1>1, Invariance, PTL

\* The odometer repeats no combination.
THEOREM NoCombinationTwice == Spec => []NeverJoinedTwice
<1>1. ASSUME IInv PROVE NeverJoinedTwice
  <2> SUFFICES ASSUME ~orphaned, pc = "join"
               PROVE  Combinations(input_belief_states) \cap tried = {}
    BY DEF NeverJoinedTwice
  <2>1. Sized /\ Loaded(0) /\ tried = Passed(0)
    BY <1>1, TypeSized DEF IInv, CoverInv
  <2> QED BY <2>1, JoinCovers, JoinFresh
<1> QED BY <1>1, Invariance, PTL

\* The assertion of next_join that a first pack is never empty the second
\* time, and the one of do_join that it joins no empty pack.
THEOREM NoEmptyFirstPack == Spec => []FirstPacksNeverEmpty
<1>1. ASSUME IInv PROVE FirstPacksNeverEmpty
  <2> SUFFICES ASSUME ~orphaned
               PROVE  /\ pc # "crashed"
                      /\ pc = "join" => \A i \in Neighbors : input_belief_states[i] # {}
    BY DEF FirstPacksNeverEmpty
  <2>1. pc # "crashed"
    BY <1>1 DEF IInv, CoverInv
  <2>2. pc = "join" => Loaded(0)
    BY <1>1 DEF IInv, CoverInv
  <2>3. \A i \in Neighbors : i >= 0
    BY DEF Neighbors
  <2> QED BY <2>1, <2>2, <2>3 DEF Loaded
<1> QED BY <1>1, Invariance, PTL

\* The JoinerDispatcher has registered exactly the outstanding queries.
THEOREM RegistrationsAreExact == Spec => []RegistrationsExact
<1>1. ASSUME IInv PROVE RegistrationsExact
  <2> SUFFICES ASSUME ~orphaned
               PROVE  registered = UNION {{<<asked[i][x].qid, i>> : x \in DOMAIN asked[i]} :
                                            i \in Neighbors}
    BY DEF RegistrationsExact
  <2>1. registered = {<<query_counter, i>> : i \in {j \in Neighbors : asked[j] # <<>>}}
    BY <1>1 DEF IInv, WireInv
  <2>2. ASSUME NEW i \in Neighbors
        PROVE  {<<asked[i][x].qid, i>> : x \in DOMAIN asked[i]} =
                 IF asked[i] # <<>> THEN {<<query_counter, i>>} ELSE {}
    <3>1. asked[i] = <<>> \/ asked[i] = <<FirstRequest(i)>> \/ asked[i] = <<NextRequest(i)>>
      BY <1>1, Zenon DEF IInv, WireInv, CoverInv, TypeOK
    <3>2. FirstRequest(i).qid = query_counter /\ NextRequest(i).qid = query_counter
      BY DEF FirstRequest, NextRequest
    <3>3. ASSUME NEW r, asked[i] = <<r>>, r.qid = query_counter
          PROVE  {<<asked[i][x].qid, i>> : x \in DOMAIN asked[i]} = {<<query_counter, i>>}
      <4>1. DOMAIN asked[i] = {1} /\ asked[i][1] = r
        BY <3>3
      <4> QED BY <3>3, <4>1
    <3>4. CASE asked[i] = <<>>
      BY <3>4
    <3> QED BY <3>1, <3>2, <3>3, <3>4, Single
  <2> QED BY <2>1, <2>2
<1> QED BY <1>1, Invariance, PTL

\* Answers are orphaned only by a neighbor that has no model.
THEOREM OrphansAreInconsistency == Spec => OnlyInconsistencyOrphans
<1>1. ASSUME IInv, [Next]_vars
      PROVE  [~orphaned /\ orphaned' => \E i \in Neighbors : models[i] = 0]_vars
  <2> SUFFICES ASSUME ~orphaned, orphaned'
               PROVE  \E i \in Neighbors : models[i] = 0
    OBVIOUS
  <2>1. PICK i \in Neighbors : BailOut(i)
    BY <1>1 DEF Next, JoinerStep, vars, first_join, ask_first_packs, ReceiveFirst,
                do_join, next_join, AskNext, NoMoreModels, ReceiveNext
  <2>2. pc = "wait_first" /\ asked[i] # <<>> /\ CountIsZero(i)
    BY <2>1 DEF BailOut
  <2>3. FirstPack(i) = {}
    BY <1>1, <2>2, FirstAnswer DEF CountIsZero
  <2>4. Sized
    BY <1>1, TypeSized DEF IInv
  <2>5. models[i] = 0
    BY <2>3, <2>4, FirstNonEmpty DEF Sized
  <2> QED BY <2>5
<1> QED BY <1>1, Invariance, PTL DEF Spec, OnlyInconsistencyOrphans

-----------------------------------------------------------------------------
(* A call cannot go on for ever                                            *)

\* How far first_join or next_join is from the next join of the packs.
Stage ==
  IF pc = "loop" THEN 5 + 2 * (N - next_neighbor)
  ELSE IF pc = "wait_next" THEN 4 + 2 * (N - next_neighbor)
  ELSE IF pc = "ask_first" THEN 3
  ELSE IF pc = "wait_first" THEN 2
  ELSE IF pc = "join" THEN 1
  ELSE 0

\* A step joins new combinations, or comes closer to the next join, or
\* receives the first pack of one more neighbor.
Nearer ==
  \/ tried \subseteq tried' /\ tried' # tried
  \/ tried' = tried /\ Stage' < Stage
  \/ /\ tried' = tried
     /\ Stage' = Stage
     /\ marking_neighbors \subseteq marking_neighbors'
     /\ marking_neighbors' # marking_neighbors

\* What Nearer counts is bounded, and the joiner waits only for an answer it
\* has asked for.
NoWaitInVain ==
  ~orphaned =>
    /\ pc # "idle" => tried \subseteq AllCombinations
    /\ Stage \in Nat
    /\ pc = "wait_first" => marking_neighbors \subseteq FirstPacks
    /\ pc \in {"wait_first", "wait_next"} => Outstanding(asked)

LEMMA WaitNotInVain == IInv => NoWaitInVain
<1> SUFFICES ASSUME IInv, ~orphaned
             PROVE  /\ pc # "idle" => tried \subseteq AllCombinations
                    /\ Stage \in Nat
                    /\ pc = "wait_first" => marking_neighbors \subseteq FirstPacks
                    /\ pc \in {"wait_first", "wait_next"} => Outstanding(asked)
  BY DEF NoWaitInVain
<1>1. \A j : Passed(j) \subseteq AllCombinations /\ Reached(j) \subseteq AllCombinations
  BY DEF Passed, Reached
<1>2. pc # "idle" => tried \subseteq AllCombinations
  <2>1. pc \in {"idle", "ready", "ask_first", "wait_first", "join", "loop",
                "wait_next"}
    BY DEF IInv, TypeOK, CoverInv
  <2>2. pc # "idle" => tried = {} \/ \E j : \/ tried = Passed(j)
                                           \/ tried = Passed(j) \cup Reached(j)
    BY <2>1, Zenon DEF IInv, CoverInv
  <2> QED BY <1>1, <2>2
<1>3. Stage \in Nat
  BY NAssumption DEF IInv, TypeOK, Stage
<1>4. pc = "wait_first" => marking_neighbors \subseteq FirstPacks
  BY DEF IInv, WireInv
<1>5. ASSUME pc = "wait_first" PROVE Outstanding(asked)
  <2>1. PICK i \in FirstPacks : i \notin marking_neighbors
    BY <1>5, Zenon DEF IInv, WireInv
  <2>2. i \in Neighbors
    BY <1>5, <2>1, FirstPacksType DEF IInv
  <2>3. asked[i] = <<FirstRequest(i)>>
    BY <1>5, <2>1, <2>2, Zenon DEF IInv, WireInv
  <2> QED BY <2>2, <2>3, Single DEF Outstanding
<1>6. ASSUME pc = "wait_next" PROVE Outstanding(asked)
  <2>1. next_neighbor \in Neighbors
    BY <1>6 DEF IInv, IndexInv
  <2>2. asked[next_neighbor] = <<NextRequest(next_neighbor)>>
    BY <1>6, <2>1, Zenon DEF IInv, WireInv
  <2> QED BY <2>1, <2>2, Single DEF Outstanding
<1> QED BY <1>2, <1>3, <1>4, <1>5, <1>6

\* A join of packs of which none is empty joins a combination.
LEMMA JoinJoins ==
  ASSUME \A i \in Neighbors : input_belief_states[i] # {}
  PROVE  Combinations(input_belief_states) # {}
<1> DEFINE c == [i \in Neighbors |-> CHOOSE x : x \in input_belief_states[i]]
<1>1. \A i \in Neighbors : c[i] \in input_belief_states[i]
  BY Zenon
<1>2. c = [i \in Neighbors |-> c[i]]
  OBVIOUS
<1> HIDE DEF c
<1> QED BY <1>1, <1>2, CombinationMember

LEMMA StepNearer ==
  ASSUME IInv, ~orphaned, JoinerStep
  PROVE  Nearer
<1>1. next_neighbor \in 0 .. N /\ N \in Nat
  BY NAssumption DEF IInv, TypeOK
<1>2. CASE ask_first_packs
  <2>1. pc = "ask_first" /\ pc' = "wait_first" /\ tried' = tried
    BY <1>2 DEF ask_first_packs
  <2> QED BY <2>1 DEF Nearer, Stage
<1>3. ASSUME NEW i \in Neighbors, BailOut(i) PROVE Nearer
  <2>1. pc = "wait_first" /\ pc' \in {"idle", "crashed"} /\ tried' = tried
    BY <1>3 DEF BailOut, ReturnNull
  <2> QED BY <2>1 DEF Nearer, Stage
<1>4. ASSUME NEW i \in Neighbors, ReceiveFirst(i) PROVE Nearer
  <2>1. /\ pc = "wait_first" /\ asked[i] # <<>> /\ tried' = tried
        /\ marking_neighbors' = marking_neighbors \cup {i}
        /\ pc' = "join" \/ pc' = pc
    BY <1>4 DEF ReceiveFirst
  <2>2. i \notin marking_neighbors
    BY <2>1, Zenon DEF IInv, WireInv
  <2>3. CASE pc' = "join"
    BY <2>1, <2>3 DEF Nearer, Stage
  <2>4. CASE pc' = pc
    <3>1. Stage' = Stage
      BY <2>1, <2>4 DEF Stage
    <3> QED BY <2>1, <2>2, <3>1 DEF Nearer
  <2> QED BY <2>1, <2>3, <2>4
<1>5. ASSUME NEW i \in Neighbors, ReceiveNext(i) PROVE Nearer
  <2>1. /\ pc = "wait_next" /\ tried' = tried
        /\ \/ pc' \in {"ask_first", "join"}
           \/ pc' = "loop" /\ next_neighbor' = next_neighbor + 1
    BY <1>5 DEF ReceiveNext
  <2>2. Stage' < Stage
    BY <1>1, <2>1 DEF Stage
  <2> QED BY <2>1, <2>2 DEF Nearer
<1>6. CASE do_join
  <2>1. pc = "join" /\ tried' = tried \cup Combinations(input_belief_states)
    BY <1>6 DEF do_join
  <2>2. Sized /\ Loaded(0) /\ tried = Passed(0)
    BY <2>1, TypeSized DEF IInv, CoverInv
  <2>3. \A i \in Neighbors : input_belief_states[i] # {}
    BY <2>2, NAssumption DEF Loaded, Neighbors
  <2>4. Combinations(input_belief_states) \cap tried = {}
    BY <2>2, JoinCovers, JoinFresh
  <2>5. Combinations(input_belief_states) # {}
    BY <2>3, JoinJoins
  <2> QED BY <2>1, <2>4, <2>5, Zenon DEF Nearer
<1>7. CASE AskNext
  <2>1. /\ pc = "loop" /\ pc' = "wait_next" /\ tried' = tried
        /\ next_neighbor' = next_neighbor
    BY <1>7 DEF AskNext
  <2>2. Stage' < Stage
    BY <1>1, <2>1 DEF Stage
  <2> QED BY <2>1, <2>2 DEF Nearer
<1>8. CASE NoMoreModels
  <2>1. pc = "loop" /\ pc' = "idle" /\ tried' = tried
    BY <1>8 DEF NoMoreModels, ReturnNull
  <2>2. Stage' < Stage
    BY <1>1, <2>1 DEF Stage
  <2> QED BY <2>1, <2>2 DEF Nearer
<1> QED BY <1>2, <1>3, <1>4, <1>5, <1>6, <1>7, <1>8 DEF JoinerStep

\* Every step of first_join or next_join joins a combination that was not
\* joined before or comes closer to the next join, and the joiner never waits
\* for an answer that nobody owes it: what CallsReturn needs besides neighbors
\* that answer.
THEOREM CallsComeNearer ==
  /\ Spec => []NoWaitInVain
  /\ Spec => [][JoinerStep /\ ~orphaned => Nearer]_vars
<1>1. IInv => NoWaitInVain
  BY WaitNotInVain
<1>2. IInv /\ [Next]_vars => [JoinerStep /\ ~orphaned => Nearer]_vars
  BY StepNearer
<1> QED BY <1>1, <1>2, Invariance, PTL DEF Spec

-------------------------------------------------------------------------------
(* The ids by which the joiner and the dispatchers recognize an answer        *)

\* A number that fits is found in its field again, and in no other one.
LEMMA FieldOfShift ==
  ASSUME NEW beg \in Nat, NEW end \in Nat, end <= WordSize,
         NEW x, x \subseteq 0 .. end - beg - 1
  PROVE  /\ Field(ShiftLeft(x, beg), beg, end) = x
         /\ ShiftLeft(x, beg) \subseteq beg .. end - 1
<1>1. ShiftLeft(x, beg) = {b + beg : b \in x}
  BY DEF ShiftLeft, WordSize
<1>2. {b + beg : b \in x} \subseteq beg .. end - 1
  OBVIOUS
<1>3. Field(ShiftLeft(x, beg), beg, end) = x
  <2>1. ASSUME NEW c \in Field(ShiftLeft(x, beg), beg, end) PROVE c \in x
    BY <1>1 DEF Field
  <2>2. ASSUME NEW c \in x PROVE c \in Field(ShiftLeft(x, beg), beg, end)
    <3>1. c + beg \in ShiftLeft(x, beg) \cap beg .. end - 1
      BY <1>1, <1>2
    <3>2. c = (c + beg) - beg
      OBVIOUS
    <3> QED BY <3>1, <3>2 DEF Field
  <2> QED BY <2>1, <2>2
<1> QED BY <1>1, <1>2, <1>3

\* Reading a field distributes over "or".
LEMMA FieldOfUnion ==
  ASSUME NEW x, NEW y, NEW beg, NEW end
  PROVE  Field(x \cup y, beg, end) = Field(x, beg, end) \cup Field(y, beg, end)
BY DEF Field

LEMMA FieldElsewhere ==
  ASSUME NEW lo \in Nat, NEW hi \in Nat, NEW x, x \subseteq lo .. hi - 1,
         NEW beg \in Nat, NEW end \in Nat, hi <= beg \/ end <= lo
  PROVE  Field(x, beg, end) = {}
BY DEF Field

\* What ask_neighbor writes into an id is what the handler, the dispatchers and the
\* joiner at the other end read from it, as long as every number fits into its
\* field; and stripping the answer's id gives back the id of the query, by which
\* the joiner recognizes it.  The order is a counter of requests and joins that
\* never wraps, so that this needs fewer than 2^24 of them.
THEOREM QueryIdRoundTrip ==
  ASSUME NEW ctx_id, IdFits(ctx_id), NEW query_order, OrderFits(query_order),
         NEW neighbor_id, IdFits(neighbor_id), NEW noff, IdFits(noff),
         NEW joiner_offset, JoinerFits(joiner_offset),
         NEW qid, qid = ask_neighbor_qid(query_id(ctx_id, query_order),
                                         neighbor_id, noff, joiner_offset)
  PROVE  /\ ~is_shutdown(qid)
         /\ qorder_from_qid(qid) = query_order
         /\ joiner_offset_from_qid(qid) = joiner_offset
         /\ invoker_from_qid(qid) = ctx_id
         /\ neighbor_offset_from_qid(qid) = noff
         /\ receiver_from_qid(qid) = neighbor_id
         /\ stripped_qid(qid) = query_id(ctx_id, query_order)
<1> DEFINE t == TYPE_REQUEST
           o == ShiftLeft(query_order, QUERY_ORDER_SHIFT)
           j == ShiftLeft(joiner_offset, JOINER_OFFSET_SHIFT)
           c == ShiftLeft(ctx_id, LOCAL_CONTEXT_SHIFT)
           f == ShiftLeft(noff, NEIGHBOR_OFFSET_SHIFT)
           n == ShiftLeft(neighbor_id, NEIGHBOR_ID_SHIFT)
<1>1. qid = ((((t \cup o) \cup c) \cup n) \cup f) \cup j
  BY Zenon DEF ask_neighbor_qid, query_id
<1>s. /\ 0 \in Nat /\ QUERY_ORDER_SHIFT \in Nat /\ JOINER_OFFSET_SHIFT \in Nat
      /\ LOCAL_CONTEXT_SHIFT \in Nat /\ NEIGHBOR_OFFSET_SHIFT \in Nat
      /\ NEIGHBOR_ID_SHIFT \in Nat /\ WordSize \in Nat
      /\ QUERY_ORDER_SHIFT <= QUERY_ORDER_SHIFT
      /\ QUERY_ORDER_SHIFT <= JOINER_OFFSET_SHIFT
      /\ QUERY_ORDER_SHIFT <= LOCAL_CONTEXT_SHIFT
      /\ QUERY_ORDER_SHIFT <= NEIGHBOR_OFFSET_SHIFT
      /\ QUERY_ORDER_SHIFT <= NEIGHBOR_ID_SHIFT
      /\ QUERY_ORDER_SHIFT <= WordSize
      /\ JOINER_OFFSET_SHIFT <= JOINER_OFFSET_SHIFT
      /\ JOINER_OFFSET_SHIFT <= LOCAL_CONTEXT_SHIFT
      /\ JOINER_OFFSET_SHIFT <= NEIGHBOR_OFFSET_SHIFT
      /\ JOINER_OFFSET_SHIFT <= NEIGHBOR_ID_SHIFT
      /\ JOINER_OFFSET_SHIFT <= WordSize
      /\ LOCAL_CONTEXT_SHIFT <= LOCAL_CONTEXT_SHIFT
      /\ LOCAL_CONTEXT_SHIFT <= NEIGHBOR_OFFSET_SHIFT
      /\ LOCAL_CONTEXT_SHIFT <= NEIGHBOR_ID_SHIFT
      /\ LOCAL_CONTEXT_SHIFT <= WordSize
      /\ NEIGHBOR_OFFSET_SHIFT <= NEIGHBOR_OFFSET_SHIFT
      /\ NEIGHBOR_OFFSET_SHIFT <= NEIGHBOR_ID_SHIFT
      /\ NEIGHBOR_OFFSET_SHIFT <= WordSize
      /\ NEIGHBOR_ID_SHIFT <= NEIGHBOR_ID_SHIFT
      /\ NEIGHBOR_ID_SHIFT <= WordSize
      /\ WordSize <= WordSize
  BY DEF QUERY_ORDER_SHIFT, JOINER_OFFSET_SHIFT, LOCAL_CONTEXT_SHIFT,
         NEIGHBOR_OFFSET_SHIFT, NEIGHBOR_ID_SHIFT, WordSize
<1>t. t \subseteq 0 .. QUERY_ORDER_SHIFT - 1
  BY DEF t, TYPE_REQUEST, QUERY_ORDER_SHIFT
<1>o. /\ Field(o, QUERY_ORDER_SHIFT, JOINER_OFFSET_SHIFT) = query_order
      /\ o \subseteq QUERY_ORDER_SHIFT .. JOINER_OFFSET_SHIFT - 1
  <2>1. query_order \subseteq 0 .. JOINER_OFFSET_SHIFT - QUERY_ORDER_SHIFT - 1
    BY DEF OrderFits, QUERY_ORDER_SHIFT, JOINER_OFFSET_SHIFT
  <2> QED BY <2>1, <1>s, FieldOfShift, Zenon DEF o
<1>j. /\ Field(j, JOINER_OFFSET_SHIFT, LOCAL_CONTEXT_SHIFT) = joiner_offset
      /\ j \subseteq JOINER_OFFSET_SHIFT .. LOCAL_CONTEXT_SHIFT - 1
  <2>1. joiner_offset \subseteq 0 .. LOCAL_CONTEXT_SHIFT - JOINER_OFFSET_SHIFT - 1
    BY DEF JoinerFits, JOINER_OFFSET_SHIFT, LOCAL_CONTEXT_SHIFT
  <2> QED BY <2>1, <1>s, FieldOfShift, Zenon DEF j
<1>c. /\ Field(c, LOCAL_CONTEXT_SHIFT, NEIGHBOR_OFFSET_SHIFT) = ctx_id
      /\ c \subseteq LOCAL_CONTEXT_SHIFT .. NEIGHBOR_OFFSET_SHIFT - 1
  <2>1. ctx_id \subseteq 0 .. NEIGHBOR_OFFSET_SHIFT - LOCAL_CONTEXT_SHIFT - 1
    BY DEF IdFits, LOCAL_CONTEXT_SHIFT, NEIGHBOR_OFFSET_SHIFT
  <2> QED BY <2>1, <1>s, FieldOfShift, Zenon DEF c
<1>f. /\ Field(f, NEIGHBOR_OFFSET_SHIFT, NEIGHBOR_ID_SHIFT) = noff
      /\ f \subseteq NEIGHBOR_OFFSET_SHIFT .. NEIGHBOR_ID_SHIFT - 1
  <2>1. noff \subseteq 0 .. NEIGHBOR_ID_SHIFT - NEIGHBOR_OFFSET_SHIFT - 1
    BY DEF IdFits, NEIGHBOR_OFFSET_SHIFT, NEIGHBOR_ID_SHIFT
  <2> QED BY <2>1, <1>s, FieldOfShift, Zenon DEF f
<1>n. /\ Field(n, NEIGHBOR_ID_SHIFT, WordSize) = neighbor_id
      /\ n \subseteq NEIGHBOR_ID_SHIFT .. WordSize - 1
  <2>1. neighbor_id \subseteq 0 .. WordSize - NEIGHBOR_ID_SHIFT - 1
    BY DEF IdFits, NEIGHBOR_ID_SHIFT, WordSize
  <2> QED BY <2>1, <1>s, FieldOfShift, Zenon DEF n
<1> HIDE DEF t, o, j, c, f, n
<1>2. ASSUME NEW beg, NEW end
      PROVE  Field(qid, beg, end) =
               ((((Field(t, beg, end) \cup Field(o, beg, end))
                  \cup Field(c, beg, end)) \cup Field(n, beg, end))
                \cup Field(f, beg, end)) \cup Field(j, beg, end)
  <2>1. Field(t \cup o, beg, end) = Field(t, beg, end) \cup Field(o, beg, end)
    BY FieldOfUnion
  <2>2. Field((t \cup o) \cup c, beg, end) =
          Field(t \cup o, beg, end) \cup Field(c, beg, end)
    BY FieldOfUnion
  <2>3. Field(((t \cup o) \cup c) \cup n, beg, end) =
          Field((t \cup o) \cup c, beg, end) \cup Field(n, beg, end)
    BY FieldOfUnion
  <2>4. Field((((t \cup o) \cup c) \cup n) \cup f, beg, end) =
          Field(((t \cup o) \cup c) \cup n, beg, end) \cup Field(f, beg, end)
    BY FieldOfUnion
  <2>5. Field(qid, beg, end) =
          Field((((t \cup o) \cup c) \cup n) \cup f, beg, end) \cup Field(j, beg, end)
    BY <1>1, FieldOfUnion
  <2> QED BY <2>1, <2>2, <2>3, <2>4, <2>5, Zenon
<1>3. ~is_shutdown(qid)
  <2>1. 1 \in qid \cap 0 .. 4 - 1
    BY <1>1 DEF t, TYPE_REQUEST
  <2>2. 1 - 0 \in Field(qid, 0, 4)
    BY <2>1 DEF Field
  <2> QED BY <2>2 DEF is_shutdown, TYPE_SHUTDOWN, QUERY_ORDER_SHIFT
<1>4. qorder_from_qid(qid) = query_order
  <2>1. Field(t, QUERY_ORDER_SHIFT, JOINER_OFFSET_SHIFT) = {}
    BY <1>t, <1>s, FieldElsewhere, Zenon
  <2>2. Field(j, QUERY_ORDER_SHIFT, JOINER_OFFSET_SHIFT) = {}
    BY <1>j, <1>s, FieldElsewhere, Zenon
  <2>3. Field(c, QUERY_ORDER_SHIFT, JOINER_OFFSET_SHIFT) = {}
    BY <1>c, <1>s, FieldElsewhere, Zenon
  <2>4. Field(f, QUERY_ORDER_SHIFT, JOINER_OFFSET_SHIFT) = {}
    BY <1>f, <1>s, FieldElsewhere, Zenon
  <2>5. Field(n, QUERY_ORDER_SHIFT, JOINER_OFFSET_SHIFT) = {}
    BY <1>n, <1>s, FieldElsewhere, Zenon
  <2> QED BY <2>1, <2>2, <2>3, <2>4, <2>5, <1>2, <1>o DEF qorder_from_qid
<1>5. joiner_offset_from_qid(qid) = joiner_offset
  <2>1. Field(t, JOINER_OFFSET_SHIFT, LOCAL_CONTEXT_SHIFT) = {}
    BY <1>t, <1>s, FieldElsewhere, Zenon
  <2>2. Field(o, JOINER_OFFSET_SHIFT, LOCAL_CONTEXT_SHIFT) = {}
    BY <1>o, <1>s, FieldElsewhere, Zenon
  <2>3. Field(c, JOINER_OFFSET_SHIFT, LOCAL_CONTEXT_SHIFT) = {}
    BY <1>c, <1>s, FieldElsewhere, Zenon
  <2>4. Field(f, JOINER_OFFSET_SHIFT, LOCAL_CONTEXT_SHIFT) = {}
    BY <1>f, <1>s, FieldElsewhere, Zenon
  <2>5. Field(n, JOINER_OFFSET_SHIFT, LOCAL_CONTEXT_SHIFT) = {}
    BY <1>n, <1>s, FieldElsewhere, Zenon
  <2> QED BY <2>1, <2>2, <2>3, <2>4, <2>5, <1>2, <1>j DEF joiner_offset_from_qid
<1>6. invoker_from_qid(qid) = ctx_id
  <2>1. Field(t, LOCAL_CONTEXT_SHIFT, NEIGHBOR_OFFSET_SHIFT) = {}
    BY <1>t, <1>s, FieldElsewhere, Zenon
  <2>2. Field(o, LOCAL_CONTEXT_SHIFT, NEIGHBOR_OFFSET_SHIFT) = {}
    BY <1>o, <1>s, FieldElsewhere, Zenon
  <2>3. Field(j, LOCAL_CONTEXT_SHIFT, NEIGHBOR_OFFSET_SHIFT) = {}
    BY <1>j, <1>s, FieldElsewhere, Zenon
  <2>4. Field(f, LOCAL_CONTEXT_SHIFT, NEIGHBOR_OFFSET_SHIFT) = {}
    BY <1>f, <1>s, FieldElsewhere, Zenon
  <2>5. Field(n, LOCAL_CONTEXT_SHIFT, NEIGHBOR_OFFSET_SHIFT) = {}
    BY <1>n, <1>s, FieldElsewhere, Zenon
  <2> QED BY <2>1, <2>2, <2>3, <2>4, <2>5, <1>2, <1>c DEF invoker_from_qid
<1>7. neighbor_offset_from_qid(qid) = noff
  <2>1. Field(t, NEIGHBOR_OFFSET_SHIFT, NEIGHBOR_ID_SHIFT) = {}
    BY <1>t, <1>s, FieldElsewhere, Zenon
  <2>2. Field(o, NEIGHBOR_OFFSET_SHIFT, NEIGHBOR_ID_SHIFT) = {}
    BY <1>o, <1>s, FieldElsewhere, Zenon
  <2>3. Field(j, NEIGHBOR_OFFSET_SHIFT, NEIGHBOR_ID_SHIFT) = {}
    BY <1>j, <1>s, FieldElsewhere, Zenon
  <2>4. Field(c, NEIGHBOR_OFFSET_SHIFT, NEIGHBOR_ID_SHIFT) = {}
    BY <1>c, <1>s, FieldElsewhere, Zenon
  <2>5. Field(n, NEIGHBOR_OFFSET_SHIFT, NEIGHBOR_ID_SHIFT) = {}
    BY <1>n, <1>s, FieldElsewhere, Zenon
  <2> QED BY <2>1, <2>2, <2>3, <2>4, <2>5, <1>2, <1>f DEF neighbor_offset_from_qid
<1>8. receiver_from_qid(qid) = neighbor_id
  <2>1. Field(t, NEIGHBOR_ID_SHIFT, WordSize) = {}
    BY <1>t, <1>s, FieldElsewhere, Zenon
  <2>2. Field(o, NEIGHBOR_ID_SHIFT, WordSize) = {}
    BY <1>o, <1>s, FieldElsewhere, Zenon
  <2>3. Field(j, NEIGHBOR_ID_SHIFT, WordSize) = {}
    BY <1>j, <1>s, FieldElsewhere, Zenon
  <2>4. Field(c, NEIGHBOR_ID_SHIFT, WordSize) = {}
    BY <1>c, <1>s, FieldElsewhere, Zenon
  <2>5. Field(f, NEIGHBOR_ID_SHIFT, WordSize) = {}
    BY <1>f, <1>s, FieldElsewhere, Zenon
  <2> QED BY <2>1, <2>2, <2>3, <2>4, <2>5, <1>2, <1>n DEF receiver_from_qid
<1>9. stripped_qid(qid) = query_id(ctx_id, query_order)
  <2>1. query_id(ctx_id, query_order) = (t \cup o) \cup c
    BY Zenon DEF query_id, t, o, c
  <2> DEFINE J == JOINER_OFFSET_SHIFT .. LOCAL_CONTEXT_SHIFT - 1
             F == NEIGHBOR_OFFSET_SHIFT .. NEIGHBOR_ID_SHIFT - 1
             I == NEIGHBOR_ID_SHIFT .. WordSize - 1
             T == 0 .. QUERY_ORDER_SHIFT - 1
             O == QUERY_ORDER_SHIFT .. JOINER_OFFSET_SHIFT - 1
             C == LOCAL_CONTEXT_SHIFT .. NEIGHBOR_OFFSET_SHIFT - 1
  <2>2. stripped_qid(qid) = ((qid \ I) \ F) \ J
    BY Zenon DEF stripped_qid, Clear
  <2>3. /\ T \cap I = {} /\ T \cap F = {} /\ T \cap J = {}
        /\ O \cap I = {} /\ O \cap F = {} /\ O \cap J = {}
        /\ C \cap I = {} /\ C \cap F = {} /\ C \cap J = {}
    BY DEF QUERY_ORDER_SHIFT, JOINER_OFFSET_SHIFT, LOCAL_CONTEXT_SHIFT,
           NEIGHBOR_OFFSET_SHIFT, NEIGHBOR_ID_SHIFT, WordSize
  <2>4. /\ t \subseteq T /\ o \subseteq O /\ c \subseteq C
        /\ j \subseteq J /\ f \subseteq F /\ n \subseteq I
    BY <1>t, <1>o, <1>j, <1>c, <1>f, <1>n, Zenon
  <2> HIDE DEF J, F, I, T, O, C
  <2>5. ((qid \ I) \ F) \ J \subseteq (t \cup o) \cup c
    BY <2>4, <1>1
  <2>6. (t \cup o) \cup c \subseteq ((qid \ I) \ F) \ J
    BY <2>3, <2>4, <1>1
  <2> QED BY <2>1, <2>2, <2>5, <2>6, Zenon
<1> QED BY <1>3, <1>4, <1>5, <1>6, <1>7, <1>8, <1>9

\* A shifted number, read through a field further up.
LEMMA FieldOfSpill ==
  ASSUME NEW x, x \subseteq Nat, NEW shift \in Nat,
         NEW beg \in Nat, NEW end \in Nat, shift <= beg, end <= WordSize
  PROVE  Field(ShiftLeft(x, shift), beg, end) = Field(x, beg - shift, end - shift)
<1>w. WordSize = 64
  BY DEF WordSize
<1>1. ASSUME NEW y \in Field(ShiftLeft(x, shift), beg, end)
      PROVE  y \in Field(x, beg - shift, end - shift)
  <2>1. PICK b \in x : b + shift \in beg .. end - 1 /\ y = (b + shift) - beg
    BY DEF Field, ShiftLeft
  <2>2. b \in (beg - shift) .. (end - shift) - 1 /\ y = b - (beg - shift)
    BY <2>1
  <2> QED BY <2>2 DEF Field
<1>2. ASSUME NEW y \in Field(x, beg - shift, end - shift)
      PROVE  y \in Field(ShiftLeft(x, shift), beg, end)
  <2>1. PICK b \in x : b \in (beg - shift) .. (end - shift) - 1 /\ y = b - (beg - shift)
    BY DEF Field
  <2>2. /\ b + shift \in 0 .. WordSize - 1 /\ b + shift \in beg .. end - 1
        /\ y = (b + shift) - beg
    BY <1>w, <2>1
  <2>3. b + shift \in ShiftLeft(x, shift)
    BY <2>2 DEF ShiftLeft
  <2> QED BY <2>2, <2>3 DEF Field
<1> QED BY <1>1, <1>2

\* query_id does not mask the order: whatever its size, the bits of the order are
\* found, 24 and more places further down, in the fields above it, where nobody set
\* them.  Bits 24 to 29 are read as a joiner offset, 30 to 39 are or-ed to the id
\* of the context, 40 to 49 are a neighbor offset and 50 to 59 a neighbor.  The
\* order itself is read back exactly if it is below 2^24.
THEOREM QueryOrderOverflow ==
  ASSUME NEW ctx_id, IdFits(ctx_id), NEW query_order, query_order \subseteq Nat,
         NEW qid, qid = query_id(ctx_id, query_order)
  PROVE  /\ qorder_from_qid(qid) = Field(query_order, 0, 24)
         /\ joiner_offset_from_qid(qid) = Field(query_order, 24, 30)
         /\ invoker_from_qid(qid) = ctx_id \cup Field(query_order, 30, 40)
         /\ neighbor_offset_from_qid(qid) = Field(query_order, 40, 50)
         /\ receiver_from_qid(qid) = Field(query_order, 50, 60)
         /\ qorder_from_qid(qid) = query_order <=> OrderFits(query_order)
<1> DEFINE t == TYPE_REQUEST
           o == ShiftLeft(query_order, QUERY_ORDER_SHIFT)
           c == ShiftLeft(ctx_id, LOCAL_CONTEXT_SHIFT)
           Q == QUERY_ORDER_SHIFT
           J == JOINER_OFFSET_SHIFT
           C == LOCAL_CONTEXT_SHIFT
           F == NEIGHBOR_OFFSET_SHIFT
           I == NEIGHBOR_ID_SHIFT
           W == WordSize
<1>1. qid = (t \cup o) \cup c
  BY Zenon DEF query_id
<1>n. Q = 4 /\ J = 28 /\ C = 34 /\ F = 44 /\ I = 54 /\ W = 64
  BY DEF QUERY_ORDER_SHIFT, JOINER_OFFSET_SHIFT, LOCAL_CONTEXT_SHIFT,
         NEIGHBOR_OFFSET_SHIFT, NEIGHBOR_ID_SHIFT, WordSize
<1>s. /\ 0 \in Nat /\ Q \in Nat /\ J \in Nat /\ C \in Nat /\ F \in Nat /\ I \in Nat
      /\ W \in Nat /\ J <= C /\ C <= C /\ F <= F /\ F <= I
      /\ Q <= Q /\ Q <= J /\ Q <= C /\ Q <= F /\ Q <= I
      /\ J <= W /\ C <= W /\ F <= W /\ I <= W /\ W <= W
  BY <1>n
<1>t. t \subseteq 0 .. Q - 1
  BY <1>n DEF TYPE_REQUEST
<1>c. Field(c, C, F) = ctx_id /\ c \subseteq C .. F - 1
  <2>1. ctx_id \subseteq 0 .. F - C - 1
    BY <1>n DEF IdFits
  <2> QED BY <1>s, <2>1, FieldOfShift, Zenon
<1>o. ASSUME NEW beg \in Nat, NEW end \in Nat, Q <= beg, end <= W
      PROVE  Field(o, beg, end) = Field(query_order, beg - Q, end - Q)
  <2>1. query_order \subseteq Nat /\ Q \in Nat /\ end <= WordSize
    BY <1>o, <1>s
  <2> HIDE DEF Q
  <2>2. Field(ShiftLeft(query_order, Q), beg, end) = Field(query_order, beg - Q, end - Q)
    BY <1>o, <2>1, FieldOfSpill, Zenon
  <2> QED BY <2>2 DEF Q
<1> HIDE DEF t, o, c, Q, J, C, F, I, W
<1>2. ASSUME NEW beg \in Nat, NEW end \in Nat, Q <= beg, end <= W
      PROVE  Field(qid, beg, end) =
               Field(query_order, beg - Q, end - Q) \cup Field(c, beg, end)
  <2>1. Field(t \cup o, beg, end) = Field(t, beg, end) \cup Field(o, beg, end)
    BY FieldOfUnion
  <2>2. Field(qid, beg, end) = Field(t \cup o, beg, end) \cup Field(c, beg, end)
    BY <1>1, FieldOfUnion
  <2>3. Field(t, beg, end) = {}
    BY <1>2, <1>s, <1>t, FieldElsewhere, Zenon
  <2>4. Field(o, beg, end) = Field(query_order, beg - Q, end - Q)
    BY <1>2, <1>o
  <2> QED BY <2>1, <2>2, <2>3, <2>4
<1>3. /\ Field(c, Q, J) = {} /\ Field(c, J, C) = {}
      /\ Field(c, F, I) = {} /\ Field(c, I, W) = {}
  BY <1>c, <1>s, FieldElsewhere, Zenon
<1>4. /\ Field(qid, Q, J) = Field(query_order, Q - Q, J - Q) \cup Field(c, Q, J)
      /\ Field(qid, J, C) = Field(query_order, J - Q, C - Q) \cup Field(c, J, C)
      /\ Field(qid, C, F) = Field(query_order, C - Q, F - Q) \cup Field(c, C, F)
      /\ Field(qid, F, I) = Field(query_order, F - Q, I - Q) \cup Field(c, F, I)
      /\ Field(qid, I, W) = Field(query_order, I - Q, W - Q) \cup Field(c, I, W)
  BY <1>2, <1>s, Zenon
<1>5. /\ Field(qid, Q, J) = Field(query_order, 0, 24)
      /\ Field(qid, J, C) = Field(query_order, 24, 30)
      /\ Field(qid, C, F) = ctx_id \cup Field(query_order, 30, 40)
      /\ Field(qid, F, I) = Field(query_order, 40, 50)
      /\ Field(qid, I, W) = Field(query_order, 50, 60)
  <2>1. /\ Q - Q = 0 /\ J - Q = 24 /\ C - Q = 30 /\ F - Q = 40 /\ I - Q = 50
        /\ W - Q = 60
    BY <1>n
  <2> QED BY <1>3, <1>4, <1>c, <2>1
<1>6. /\ qorder_from_qid(qid) = Field(qid, Q, J)
      /\ joiner_offset_from_qid(qid) = Field(qid, J, C)
      /\ invoker_from_qid(qid) = Field(qid, C, F)
      /\ neighbor_offset_from_qid(qid) = Field(qid, F, I)
      /\ receiver_from_qid(qid) = Field(qid, I, W)
  BY Zenon DEF Q, J, C, F, I, W, qorder_from_qid, joiner_offset_from_qid,
               invoker_from_qid, neighbor_offset_from_qid, receiver_from_qid
<1>7. Field(query_order, 0, 24) = query_order <=> OrderFits(query_order)
  <2>1. Field(query_order, 0, 24) = query_order \cap 0 .. 23
    BY DEF Field
  <2> QED BY <2>1 DEF OrderFits
<1> QED BY <1>5, <1>6, <1>7
===============================================================================
