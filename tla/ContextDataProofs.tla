--------------------------- MODULE ContextDataProofs ---------------------------
(***************************************************************************)
(* What a context computes for a request, for any number of contexts,      *)
(* beliefs and neighbors, any bridge rules, knowledge bases and packs: the *)
(* guesses, the join, the models, and which inputs have been evaluated.     *)
(***************************************************************************)
EXTENDS ContextData, WellFoundedInduction, TLAPS

\* The provers, in this order, and the time an obligation may take.
USE ZenonT(30), SMTT(20)

(* Numbers and recursive definitions                                         *)

LEMMA Least ==
  ASSUME NEW S, S \subseteq Nat, S # {}
  PROVE  \E n \in S : \A m \in S : n <= m
<1> DEFINE R == {ss \in Nat \X Nat : ss[1] < ss[2]}
<1>1. IsWellFoundedOn(R, Nat)
  BY NatLessThanWellFounded DEF OpToRel
<1>2. PICK x \in S : \A y \in S : ~(<<y, x>> \in R)
  BY <1>1, WFMin
<1>3. ASSUME NEW y \in S PROVE x <= y
  <2>1. x \in Nat /\ y \in Nat
    OBVIOUS
  <2>2. ~(<<y, x>> \in R)
    BY <1>2
  <2> QED BY <2>1, <2>2, SMTT(20)
<1> QED BY <1>3

LEMMA Greatest ==
  ASSUME NEW N \in Nat, NEW S, S \subseteq 0 .. N, S # {}
  PROVE  \E n \in S : \A m \in S : m <= n
<1> DEFINE T == {N - m : m \in S}
<1>1. T \subseteq Nat /\ T # {}
  <2>1. \A m \in S : m \in 0 .. N /\ N - m \in Nat
    BY SMTT(20)
  <2> QED BY <2>1
<1>2. PICK t \in T : \A u \in T : t <= u
  BY <1>1, Least
<1>3. PICK n \in S : t = N - n
  BY <1>2
<1>4. ASSUME NEW m \in S PROVE m <= n
  <2>1. t <= N - m
    BY <1>2
  <2>2. m \in 0 .. N /\ n \in 0 .. N
    OBVIOUS
  <2> QED BY <1>3, <2>1, <2>2, SMTT(20)
<1> QED BY <1>4

\* Induction over an interval, for the set of the numbers that are good.
LEMMA IntervalInduction ==
  ASSUME NEW N \in Nat, NEW S, 0 \in S, \A n \in 1 .. N : n - 1 \in S => n \in S
  PROVE  \A n \in 0 .. N : n \in S
<1> SUFFICES ASSUME (0 .. N) \ S # {} PROVE FALSE
  OBVIOUS
<1>0. (0 .. N) \ S \subseteq Nat
  BY SMTT(20)
<1>1. PICK n \in (0 .. N) \ S : \A m \in (0 .. N) \ S : n <= m
  BY <1>0, Least
<1>2. n \in 1 .. N /\ n - 1 \in 0 .. N
  BY <1>1, SMTT(20)
<1>3. n - 1 \in S
  BY <1>1, <1>2, SMTT(20)
<1> QED BY <1>1, <1>2, <1>3

\* G computes the n-th value in D from the one before it.
IsStep(G, D, N) == G \in [D \X (1 .. N) -> D]

\* f begins with e and goes on by the step G.
IsRecursive(f, D, e, N, G) ==
  f \in [0 .. N -> D] /\ f[0] = e /\ \A n \in 1 .. N : f[n] = G[<<f[n - 1], n>>]

\* A function with a given first value and a given step exists.
LEMMA Recursion ==
  ASSUME NEW D, NEW e \in D, NEW N \in Nat, NEW G, IsStep(G, D, N)
  PROVE  \E f : IsRecursive(f, D, e, N, G)
<1>0. G \in [D \X (1 .. N) -> D]
  BY DEF IsStep
<1> DEFINE Good(f, n) == f[0] = e /\ \A m \in 1 .. n : f[m] = G[<<f[m - 1], m>>]
           S == {n \in 0 .. N : \E f \in [0 .. n -> D] : Good(f, n)}
<1>1. 0 \in S
  <2>1. [m \in 0 .. 0 |-> e] \in [0 .. 0 -> D] /\ Good([m \in 0 .. 0 |-> e], 0)
    BY SMTT(20)
  <2>2. 0 \in 0 .. N
    BY SMTT(20)
  <2> HIDE DEF Good
  <2> QED BY <2>1, <2>2
<1>2. ASSUME NEW n \in 1 .. N, n - 1 \in S PROVE n \in S
  <2>1. PICK f \in [0 .. n - 1 -> D] : Good(f, n - 1)
    BY <1>2
  <2> DEFINE g == [m \in 0 .. n |-> IF m = n THEN G[<<f[n - 1], n>>] ELSE f[m]]
  <2>2. f[n - 1] \in D /\ <<f[n - 1], n>> \in D \X (1 .. N)
    BY <2>1, SMTT(20)
  <2>3. g \in [0 .. n -> D]
    BY <1>0, <2>1, <2>2, SMTT(20)
  <2>4. Good(g, n)
    <3>0. 0 \in 0 .. n /\ 0 # n /\ n \in 0 .. n /\ n - 1 \in 0 .. n /\ n - 1 # n
      BY SMTT(20)
    <3>1. g[0] = e /\ g[n] = G[<<g[n - 1], n>>]
      BY <2>1, <3>0
    <3>2. ASSUME NEW m \in 1 .. n, m # n PROVE g[m] = G[<<g[m - 1], m>>]
      <4>1. m \in 1 .. n - 1 /\ m - 1 \in 0 .. n - 1 /\ m - 1 # n
        BY <3>2, SMTT(20)
      <4> QED BY <2>1, <3>2, <4>1, SMTT(20)
    <3> QED BY <3>1, <3>2
  <2> HIDE DEF g, Good
  <2> QED BY <2>3, <2>4, SMTT(20)
<1>3. N \in S
  <2> HIDE DEF S
  <2> QED BY <1>1, <1>2, IntervalInduction, SMTT(20)
<1> QED BY <1>3 DEF IsRecursive
-------------------------------------------------------------------------------
(* Bits and belief states                                                    *)

LEMMA Offsets ==
  /\ NoBits \in Nat
  /\ \A c \in Contexts : starting_offset(c) \in Nat /\ starting_offset(c) + SizeBs < NoBits
  /\ \A c, d \in Contexts : c < d => starting_offset(c) + SizeBs < starting_offset(d)
<1> DEFINE K == SizeBs + 1
<1>0. NoBlocks \in Nat /\ SizeBs \in Nat /\ K \in Nat /\ SizeBs < K
  BY SizesAssumption, SMTT(20)
<1>1. ASSUME NEW c \in Nat, NEW d \in Nat, c < d PROVE c * K + K <= d * K /\ c * K \in Nat
  <2>1. d - c - 1 \in Nat /\ d = c + 1 + (d - c - 1)
    BY <1>1, SMTT(20)
  <2>2. PICK e \in Nat : d = c + 1 + e
    BY <2>1
  <2> HIDE DEF K
  <2>3. d * K = c * K + K + e * K
    BY <1>0, <2>2, SMTT(20)
  <2>4. e * K \in Nat /\ c * K \in Nat
    BY <1>0, SMTT(20)
  <2> QED BY <1>0, <2>3, <2>4, SMTT(20)
<1>2. \A c \in Contexts : c \in Nat /\ c < NoBlocks
  BY <1>0, SMTT(20) DEF Contexts
<1>3. \A c \in Nat : starting_offset(c) = c * K
  BY DEF starting_offset
<1>4. NoBits = NoBlocks * K /\ NoBits \in Nat
  BY <1>0, SMTT(20) DEF NoBits
<1> HIDE DEF K
<1>5. ASSUME NEW c \in Contexts
      PROVE  starting_offset(c) \in Nat /\ starting_offset(c) + SizeBs < NoBits
  <2>1. c * K + K <= NoBits /\ c * K \in Nat
    BY <1>0, <1>1, <1>2, <1>4
  <2> QED BY <1>0, <1>2, <1>3, <1>4, <2>1, SMTT(20)
<1>6. ASSUME NEW c \in Contexts, NEW d \in Contexts, c < d
      PROVE  starting_offset(c) + SizeBs < starting_offset(d)
  <2>1. c * K + K <= d * K
    BY <1>1, <1>2, <1>6
  <2> QED BY <1>0, <1>2, <1>3, <1>5, <2>1, SMTT(20)
<1> QED BY <1>4, <1>5, <1>6

LEMMA Blocks ==
  /\ \A c \in Contexts :
       /\ starting_offset(c) \in Nat /\ SizeBs \in Nat \ {0}
       /\ Block(c) \subseteq Bits /\ starting_offset(c) \in Block(c)
       /\ Mask(c) \subseteq Block(c) /\ starting_offset(c) \in Mask(c)
       /\ Block(c) = Mask(c) \cup {Bit(c, SizeBs)}
       /\ \A a \in 1 .. SizeBs : Bit(c, a) \in Block(c) /\ Bit(c, a) # starting_offset(c)
       /\ \A b \in Block(c) : b >= starting_offset(c)
                              /\ (b # starting_offset(c) => b > starting_offset(c))
  /\ \A c, d \in Contexts : \A b \in Block(c) : b \in Block(d) => c = d
<1>0. SizeBs \in Nat \ {0} /\ NoBits \in Nat
  BY SizesAssumption, Offsets
<1>1. ASSUME NEW c \in Contexts
      PROVE  /\ starting_offset(c) \in Nat
             /\ Block(c) \subseteq Bits /\ starting_offset(c) \in Block(c)
             /\ Mask(c) \subseteq Block(c) /\ starting_offset(c) \in Mask(c)
             /\ Block(c) = Mask(c) \cup {Bit(c, SizeBs)}
             /\ \A a \in 1 .. SizeBs : Bit(c, a) \in Block(c) /\ Bit(c, a) # starting_offset(c)
             /\ \A b \in Block(c) : b >= starting_offset(c)
                                    /\ (b # starting_offset(c) => b > starting_offset(c))
  <2>1. starting_offset(c) \in Nat /\ starting_offset(c) + SizeBs < NoBits
    BY Offsets
  <2> QED BY <1>0, <2>1, SMTT(20) DEF Block, Bits, Mask, Bit
<1>2. ASSUME NEW c \in Contexts, NEW d \in Contexts, NEW b \in Block(c), b \in Block(d)
      PROVE  c = d
  <2>1. c \in Int /\ d \in Int
    BY SizesAssumption, SMTT(20) DEF Contexts
  <2>2. starting_offset(c) \in Nat /\ starting_offset(d) \in Nat
    BY Offsets
  <2>3. ~(c < d) /\ ~(d < c)
    BY <1>0, <1>2, <2>2, Offsets, SMTT(20) DEF Block
  <2> QED BY <2>1, <2>3, SMTT(20)
<1> QED BY <1>0, <1>1, <1>2

LEMMA NotNull == \A bs \in BeliefStates : bs # NULL
BY SMTT(20) DEF BeliefStates, NULL

\* Two belief states are equal when their bits are.
LEMMA SameBits ==
  ASSUME NEW s \in BeliefStates, NEW t \in BeliefStates,
         s.status = t.status, s.value = t.value
  PROVE  s = t
BY SMTT(20) DEF BeliefStates

\* What is known of a context, and how that looks in the status bits.
LEMMA KnownContext ==
  ASSUME NEW bs, WellFormed(bs), NEW c \in Contexts
  PROVE  /\ isEpsilon(bs, c) => bs.status \cap Block(c) = {} /\ bs.value \cap Block(c) = {}
         /\ ~isEpsilon(bs, c) => starting_offset(c) \in bs.value
<1>1. ASSUME NEW b \in bs.status, b \in Block(c)
      PROVE  starting_offset(c) \in bs.value /\ starting_offset(c) \in bs.status
  <2>1. PICK d \in Contexts : b \in Block(d) /\ starting_offset(d) \in bs.value
    BY DEF WellFormed
  <2>2. d = c
    BY <1>1, <2>1, Blocks
  <2> QED BY <2>1, <2>2 DEF WellFormed
<1>2. starting_offset(c) \in Block(c) /\ bs.value \subseteq bs.status
  BY Blocks DEF WellFormed
<1> QED BY <1>1, <1>2 DEF isEpsilon

LEMMA OrWellFormed ==
  ASSUME NEW s, NEW t, WellFormed(s), WellFormed(t)
  PROVE  WellFormed(Or(s, t))
<1>1. Or(s, t) \in BeliefStates
  BY DEF Or, WellFormed, BeliefStates
<1>2. Or(s, t).status = s.status \cup t.status /\ Or(s, t).value = s.value \cup t.value
  BY DEF Or
<1> QED BY <1>1, <1>2 DEF WellFormed
-------------------------------------------------------------------------------
(* The enumeration of the guesses                                            *)

\* The guess in which exactly the bits in S are true.
Guess(S) == [status |-> EpsilonBits(Guessing) \cup GuessBits,
             value |-> EpsilonBits(Guessing) \cup S]

LEMMA GuessBitsType ==
  /\ GuessBits \subseteq Bits /\ GuessBits \subseteq Nat
  /\ \A b \in GuessBits : b \notin EpsilonBits(Contexts) /\ b \notin EpsilonBits(Guessing)
  /\ \A b \in GuessBits : b \in 0 .. NoBits /\ b + 1 \in 1 .. NoBits
  /\ EpsilonBits(Guessing) \subseteq Bits
<1>1. ASSUME NEW b \in GuessBits
      PROVE  b \in Bits /\ b \notin EpsilonBits(Contexts)
  <2>0. PICK c \in Guessing : b \in {Bit(c, a) : a \in Signature[c]}
    BY DEF GuessBits
  <2>1. PICK a \in Signature[c] : b = Bit(c, a)
    BY <2>0
  <2>2. c \in Contexts /\ a \in 1 .. SizeBs
    BY NeighborsAssumption
  <2>3. b \in Block(c) /\ b # starting_offset(c) /\ b \in Bits
    BY <2>1, <2>2, Blocks
  <2>4. \A d \in Contexts : b # starting_offset(d)
    BY <2>2, <2>3, Blocks, SMTT(20)
  <2> QED BY <2>3, <2>4 DEF EpsilonBits
<1>2. EpsilonBits(Guessing) \subseteq EpsilonBits(Contexts)
  BY NeighborsAssumption DEF EpsilonBits
<1>3. EpsilonBits(Contexts) \subseteq Bits
  BY Blocks, SMTT(20) DEF EpsilonBits
<1>4. \A b \in Bits : b \in Nat /\ b \in 0 .. NoBits /\ b + 1 \in 1 .. NoBits
  BY Offsets, SMTT(20) DEF Bits
<1> QED BY <1>1, <1>2, <1>3, <1>4

LEMMA GuessState ==
  ASSUME NEW S \in SUBSET GuessBits
  PROVE  /\ WellFormed(Guess(S)) /\ Guess(S) \in BeliefStates /\ Guess(S) # NULL
         /\ Guess(S).status = EpsilonBits(Guessing) \cup GuessBits
         /\ Guess(S).value = EpsilonBits(Guessing) \cup S
         /\ \A T \in SUBSET GuessBits : Guess(S) = Guess(T) => S = T
<1>1. /\ Guess(S).status = EpsilonBits(Guessing) \cup GuessBits
      /\ Guess(S).value = EpsilonBits(Guessing) \cup S
  BY DEF Guess
<1>2. Guess(S) \in BeliefStates
  BY GuessBitsType DEF Guess, BeliefStates
<1>3. ASSUME NEW T \in SUBSET GuessBits, Guess(S) = Guess(T)
      PROVE  S = T
  <2>1. EpsilonBits(Guessing) \cup S = EpsilonBits(Guessing) \cup T
    BY <1>3 DEF Guess
  <2> QED BY <2>1, GuessBitsType
<1>4. ASSUME NEW b \in Guess(S).status
      PROVE  \E c \in Contexts : b \in Block(c) /\ starting_offset(c) \in Guess(S).value
  <2>1. CASE b \in EpsilonBits(Guessing)
    <3>1. PICK c \in Guessing : b = starting_offset(c)
      BY <2>1 DEF EpsilonBits
    <3>2. c \in Contexts /\ b \in Block(c)
      BY <3>1, NeighborsAssumption, Blocks
    <3> QED BY <1>1, <2>1, <3>1, <3>2
  <2>2. CASE b \in GuessBits
    <3>0. PICK c \in Guessing : b \in {Bit(c, a) : a \in Signature[c]}
      BY <2>2 DEF GuessBits
    <3>1. PICK a \in Signature[c] : b = Bit(c, a)
      BY <3>0
    <3>2. c \in Contexts /\ a \in 1 .. SizeBs
      BY NeighborsAssumption
    <3>3. b \in Block(c) /\ starting_offset(c) \in EpsilonBits(Guessing)
      BY <3>1, <3>2, Blocks DEF EpsilonBits
    <3> QED BY <1>1, <3>2, <3>3
  <2> QED BY <1>1, <2>1, <2>2
<1>5. WellFormed(Guess(S))
  BY <1>1, <1>2, <1>4 DEF WellFormed
<1> QED BY <1>1, <1>2, <1>3, <1>5, NotNull

LEMMA StartingGuess == starting_guess = Guess({})
BY DEF starting_guess, Guess

\* The bit that next_guess sets after the guess with the bits S.
IsNextBit(S, bit) ==
  /\ bit \in GuessBits \ S
  /\ \A b \in GuessBits : b < bit => b \in S

\* The bits of the guess after it.
NextBits(S, bit) == (S \cup {bit}) \ {b \in GuessBits : b < bit}

LEMMA NextGuess ==
  ASSUME NEW S \in SUBSET GuessBits
  PROVE  /\ S = GuessBits => next_guess(Guess(S)) = NULL
         /\ S # GuessBits => \E bit : /\ IsNextBit(S, bit)
                                      /\ NextBits(S, bit) \in SUBSET GuessBits
                                      /\ next_guess(Guess(S)) = Guess(NextBits(S, bit))
<1> DEFINE g == Guess(S)
           unset == {b \in GuessBits : test(g, b) = "false"}
           bit == CHOOSE b \in unset : \A o \in unset : b <= o
<1>1. unset = GuessBits \ S
  <2>1. ASSUME NEW b \in GuessBits PROVE (test(g, b) = "false") <=> b \notin S
    <3>1. b \in g.status /\ (b \in g.value <=> b \in S)
      BY GuessState, GuessBitsType, SMTT(20)
    <3> QED BY <3>1 DEF test
  <2> QED BY <2>1
<1>2. next_guess(g) = IF unset = {} THEN NULL
                      ELSE [set(g, bit, "true") EXCEPT !.value = @ \ {b \in GuessBits : b < bit}]
  BY DEF next_guess
<1>3. ASSUME S = GuessBits PROVE next_guess(g) = NULL
  <2>1. unset = {}
    BY <1>1, <1>3
  <2> HIDE DEF unset
  <2> QED BY <1>2, <2>1
<1>4. ASSUME S # GuessBits
      PROVE  /\ IsNextBit(S, bit) /\ NextBits(S, bit) \in SUBSET GuessBits
             /\ next_guess(g) = Guess(NextBits(S, bit))
  <2>1. unset # {} /\ unset \subseteq Nat
    BY <1>1, <1>4, GuessBitsType
  <2>2. \E b \in unset : \A o \in unset : b <= o
    <3> HIDE DEF unset
    <3> QED BY <2>1, Least
  <2>3. bit \in unset /\ \A o \in unset : bit <= o
    <3> HIDE DEF unset
    <3> QED BY <2>2
  <2>4. next_guess(g) = [set(g, bit, "true") EXCEPT !.value = @ \ {b \in GuessBits : b < bit}]
    <3> HIDE DEF unset, bit
    <3> QED BY <1>2, <2>1
  <2> HIDE DEF unset, bit
  <2>5. IsNextBit(S, bit)
    <3>1. \A b \in GuessBits : b \in Nat
      BY GuessBitsType
    <3> QED BY <1>1, <2>3, <3>1, SMTT(20) DEF IsNextBit
  <2>6. NextBits(S, bit) \in SUBSET GuessBits
    BY <2>5 DEF NextBits, IsNextBit
  <2> DEFINE low == {b \in GuessBits : b < bit}
             sg == set(g, bit, "true")
  <2>7. sg = [status |-> g.status \cup {bit}, value |-> g.value \cup {bit}]
    BY DEF set
  <2>8. [sg EXCEPT !.value = @ \ low] = [status |-> g.status \cup {bit},
                                          value |-> (g.value \cup {bit}) \ low]
    <3> HIDE DEF low, sg, g
    <3> QED BY <2>7, SMTT(20)
  <2>9. g.status \cup {bit} = EpsilonBits(Guessing) \cup GuessBits
    BY <2>5, GuessState, SMTT(20) DEF IsNextBit
  <2>10. (g.value \cup {bit}) \ low = EpsilonBits(Guessing) \cup NextBits(S, bit)
    <3>1. g.value = EpsilonBits(Guessing) \cup S
      BY GuessState
    <3> HIDE DEF g
    <3> QED BY <3>1, GuessBitsType DEF NextBits
  <2>11. next_guess(g) = [status |-> EpsilonBits(Guessing) \cup GuessBits,
                          value |-> EpsilonBits(Guessing) \cup NextBits(S, bit)]
    <3> HIDE DEF low, sg, g
    <3> QED BY <2>4, <2>8, <2>9, <2>10 DEF low, sg
  <2> HIDE DEF g
  <2> QED BY <2>5, <2>6, <2>11 DEF Guess
<1> HIDE DEF bit, unset
<1> QED BY <1>3, <1>4
LEMMA RemainingRec ==
  ASSUME NEW step \in Nat
  PROVE  /\ Remaining(step) \in [0 .. NoBits -> Nat]
         /\ Remaining(step)[0] = step
         /\ \A b \in 1 .. NoBits :
              Remaining(step)[b] = IF b - 1 \in GuessBits THEN Remaining(step)[b - 1] \div 2
                                   ELSE Remaining(step)[b - 1]
<1> DEFINE Is(r) == r = [b \in 0 .. NoBits |->
                           IF b = 0 THEN step
                           ELSE IF b - 1 \in GuessBits THEN r[b - 1] \div 2 ELSE r[b - 1]]
           G == [x \in Nat \X (1 .. NoBits) |->
                   IF x[2] - 1 \in GuessBits THEN x[1] \div 2 ELSE x[1]]
<1>1. NoBits \in Nat
  BY Offsets
<1>2. G \in [Nat \X (1 .. NoBits) -> Nat]
  BY SMTT(20)
<1>3. \A n \in Nat : \A b \in 1 .. NoBits :
        G[<<n, b>>] = IF b - 1 \in GuessBits THEN n \div 2 ELSE n
  OBVIOUS
<1> HIDE DEF G
<1>4. PICK r : IsRecursive(r, Nat, step, NoBits, G)
  <2>1. IsStep(G, Nat, NoBits)
    BY <1>2 DEF IsStep
  <2> QED BY <1>1, <2>1, Recursion
<1>5. ASSUME NEW b \in 1 .. NoBits
      PROVE  r[b] = IF b - 1 \in GuessBits THEN r[b - 1] \div 2 ELSE r[b - 1]
  <2>1. b - 1 \in 0 .. NoBits
    BY <1>1, SMTT(20)
  <2> QED BY <1>3, <1>4, <2>1 DEF IsRecursive
<1>6. Is(r)
  <2>1. r = [b \in 0 .. NoBits |-> r[b]]
    BY <1>4 DEF IsRecursive
  <2>2. \A b \in 0 .. NoBits : b = 0 \/ b \in 1 .. NoBits
    BY <1>1, SMTT(20)
  <2>3. \A b \in 0 .. NoBits :
          r[b] = IF b = 0 THEN step
                 ELSE IF b - 1 \in GuessBits THEN r[b - 1] \div 2 ELSE r[b - 1]
    BY <1>1, <1>4, <1>5, <2>2 DEF IsRecursive
  <2> QED BY <2>1, <2>3
<1>7. Remaining(step) = CHOOSE q : Is(q)
  BY DEF Remaining
<1>8. Is(Remaining(step))
  <2> HIDE DEF Is
  <2> QED BY <1>6, <1>7
<1>9. \A b \in 0 .. NoBits :
        Remaining(step)[b] = IF b = 0 THEN step
                             ELSE IF b - 1 \in GuessBits THEN Remaining(step)[b - 1] \div 2
                                  ELSE Remaining(step)[b - 1]
  BY <1>8
<1>10. DOMAIN Remaining(step) = 0 .. NoBits
       /\ Remaining(step) = [b \in 0 .. NoBits |-> Remaining(step)[b]]
  BY <1>8
<1> HIDE DEF Is
<1> DEFINE Good == {b \in 0 .. NoBits : Remaining(step)[b] \in Nat}
<1>11. 0 \in Good
  BY <1>1, <1>9, SMTT(20)
<1>12. ASSUME NEW b \in 1 .. NoBits, b - 1 \in Good PROVE b \in Good
  <2>1. b \in 0 .. NoBits /\ b # 0 /\ Remaining(step)[b - 1] \in Nat
    BY <1>12, SMTT(20)
  <2>2. Remaining(step)[b - 1] \div 2 \in Nat
    BY <2>1, SMTT(20)
  <2> QED BY <1>9, <2>1, <2>2
<1>13. \A b \in 0 .. NoBits : b \in Good
  <2> HIDE DEF Good
  <2> QED BY <1>1, <1>11, <1>12, IntervalInduction
<1>14. Remaining(step) \in [0 .. NoBits -> Nat]
  BY <1>10, <1>13
<1> QED BY <1>1, <1>9, <1>14, SMTT(20)

LEMMA JumpGuess ==
  ASSUME NEW step \in Nat, NEW S \in SUBSET GuessBits
  PROVE  jump_guess(step) = Guess(S)
           <=> /\ Remaining(step)[NoBits] = 0
               /\ \A b \in GuessBits : (Remaining(step)[b] % 2 = 1) <=> b \in S
<1> DEFINE odd == {b \in GuessBits : Remaining(step)[b] % 2 = 1}
<1>1. odd \in SUBSET GuessBits
  OBVIOUS
<1>2. jump_guess(step) = IF Remaining(step)[NoBits] # 0 THEN NULL ELSE Guess(odd)
  BY DEF jump_guess, Guess, starting_guess
<1>3. (S = odd) <=> \A b \in GuessBits : (Remaining(step)[b] % 2 = 1) <=> b \in S
  OBVIOUS
<1> HIDE DEF odd
<1> QED BY <1>1, <1>2, <1>3, GuessState

LEMMA JumpZero == jump_guess(0) = Guess({})
<1> DEFINE R == Remaining(0)
           Good == {b \in 0 .. NoBits : R[b] = 0}
<1>0. NoBits \in Nat
  BY Offsets
<1>1. 0 \in Good
  BY <1>0, RemainingRec, SMTT(20)
<1>2. ASSUME NEW b \in 1 .. NoBits, b - 1 \in Good PROVE b \in Good
  <2>1. R[b] = IF b - 1 \in GuessBits THEN R[b - 1] \div 2 ELSE R[b - 1]
    BY RemainingRec
  <2> QED BY <1>2, <2>1, SMTT(20)
<1>3. \A b \in 0 .. NoBits : R[b] = 0
  <2>1. \A b \in 0 .. NoBits : b \in Good
    <3> HIDE DEF Good
    <3> QED BY <1>0, <1>1, <1>2, IntervalInduction
  <2> QED BY <2>1
<1>4. R[NoBits] = 0 /\ \A b \in GuessBits : R[b] = 0
  BY <1>0, <1>3, GuessBitsType, SMTT(20)
<1>5. {} \in SUBSET GuessBits
  OBVIOUS
<1>6. 0 \in Nat /\ 0 % 2 # 1
  BY SMTT(20)
<1> QED BY <1>4, <1>5, <1>6, JumpGuess, SMTT(20)

\* jump_guess to the next step is next_guess of the guess of this step.
LEMMA JumpNext ==
  ASSUME NEW step \in Nat, NEW S \in SUBSET GuessBits, jump_guess(step) = Guess(S),
         NEW bit, IsNextBit(S, bit)
  PROVE  jump_guess(step + 1) = Guess(NextBits(S, bit))
<1> DEFINE R == Remaining(step)
           Q == Remaining(step + 1)
<1>0. NoBits \in Nat /\ step + 1 \in Nat /\ bit \in GuessBits /\ bit \in Nat /\ bit \notin S
      /\ bit + 1 \in 1 .. NoBits
  BY Offsets, GuessBitsType, SMTT(20) DEF IsNextBit
<1>1. /\ R \in [0 .. NoBits -> Nat] /\ R[0] = step
      /\ \A b \in 1 .. NoBits : R[b] = IF b - 1 \in GuessBits THEN R[b - 1] \div 2 ELSE R[b - 1]
  BY RemainingRec
<1>2. /\ Q \in [0 .. NoBits -> Nat] /\ Q[0] = step + 1
      /\ \A b \in 1 .. NoBits : Q[b] = IF b - 1 \in GuessBits THEN Q[b - 1] \div 2 ELSE Q[b - 1]
  BY <1>0, RemainingRec
<1>3. R[NoBits] = 0 /\ \A b \in GuessBits : (R[b] % 2 = 1) <=> b \in S
  BY JumpGuess
<1> HIDE DEF R, Q
<1>4. \A n \in Nat : /\ n % 2 = 1 => (n + 1) \div 2 = (n \div 2) + 1 /\ (n + 1) % 2 # 1
                     /\ n % 2 # 1 => (n + 1) \div 2 = n \div 2 /\ (n + 1) % 2 = 1
  BY SMTT(20)
<1>5. \A b \in 0 .. NoBits : b <= bit => Q[b] = R[b] + 1
  <2> DEFINE Good == {b \in 0 .. NoBits : b <= bit => Q[b] = R[b] + 1}
  <2>1. 0 \in Good
    BY <1>0, <1>1, <1>2, SMTT(20)
  <2>2. ASSUME NEW b \in 1 .. NoBits, b - 1 \in Good PROVE b \in Good
    <3> SUFFICES ASSUME b <= bit PROVE Q[b] = R[b] + 1
      BY SMTT(20)
    <3>1. b - 1 \in 0 .. NoBits /\ b - 1 < bit /\ Q[b - 1] = R[b - 1] + 1 /\ R[b - 1] \in Nat
      BY <1>0, <1>1, <2>2, SMTT(20)
    <3>2. b - 1 \in GuessBits => R[b - 1] % 2 = 1
      BY <1>3, <3>1 DEF IsNextBit
    <3> QED BY <1>1, <1>2, <1>4, <3>1, <3>2, SMTT(20)
  <2>3. \A b \in 0 .. NoBits : b \in Good
    <3> HIDE DEF Good
    <3> QED BY <1>0, <2>1, <2>2, IntervalInduction
  <2> QED BY <2>3
<1>6. Q[bit] = R[bit] + 1 /\ R[bit] \in Nat /\ R[bit] % 2 # 1
  <2>1. bit \in 0 .. NoBits
    BY <1>0, GuessBitsType
  <2> QED BY <1>0, <1>1, <1>3, <1>5, <2>1, SMTT(20)
<1>7. Q[bit + 1] = R[bit + 1]
  <2>1. bit + 1 - 1 = bit
    BY <1>0, SMTT(20)
  <2>2. Q[bit + 1] = Q[bit] \div 2 /\ R[bit + 1] = R[bit] \div 2
    BY <1>0, <1>1, <1>2, <2>1, SMTT(20)
  <2> QED BY <1>4, <1>6, <2>2
<1>8. \A b \in 0 .. NoBits : b > bit => Q[b] = R[b]
  <2> DEFINE Good == {b \in 0 .. NoBits : b > bit => Q[b] = R[b]}
  <2>1. 0 \in Good
    BY <1>0, SMTT(20)
  <2>2. ASSUME NEW b \in 1 .. NoBits, b - 1 \in Good PROVE b \in Good
    <3> SUFFICES ASSUME b > bit PROVE Q[b] = R[b]
      BY SMTT(20)
    <3>1. CASE b = bit + 1
      BY <1>7, <3>1
    <3>2. CASE b # bit + 1
      <4>1. b - 1 \in 0 .. NoBits /\ b - 1 > bit
        BY <1>0, <3>2, SMTT(20)
      <4>2. Q[b - 1] = R[b - 1]
        BY <2>2, <4>1
      <4> QED BY <1>1, <1>2, <4>2
    <3> QED BY <3>1, <3>2
  <2>3. \A b \in 0 .. NoBits : b \in Good
    <3> HIDE DEF Good
    <3> QED BY <1>0, <2>1, <2>2, IntervalInduction
  <2> QED BY <2>3
<1>9. Q[NoBits] = 0
  <2>1. NoBits \in 0 .. NoBits /\ NoBits > bit
    BY <1>0, SMTT(20)
  <2> QED BY <1>3, <1>8, <2>1
<1>10. ASSUME NEW b \in GuessBits PROVE (Q[b] % 2 = 1) <=> b \in NextBits(S, bit)
  <2>1. b \in 0 .. NoBits /\ b \in Nat /\ R[b] \in Nat
    BY <1>1, GuessBitsType
  <2>2. CASE b < bit
    <3>1. b \in S /\ Q[b] = R[b] + 1 /\ R[b] % 2 = 1
      BY <1>0, <1>3, <1>5, <2>1, <2>2, SMTT(20) DEF IsNextBit
    <3> QED BY <1>4, <2>1, <2>2, <3>1 DEF NextBits
  <2>3. CASE b = bit
    <3>1. Q[b] % 2 = 1
      BY <1>4, <1>6, <2>3
    <3> QED BY <1>0, <2>3, <3>1, SMTT(20) DEF NextBits
  <2>4. CASE b > bit
    <3>1. Q[b] = R[b] /\ b # bit /\ ~(b < bit)
      BY <1>0, <1>8, <2>1, <2>4, SMTT(20)
    <3> QED BY <1>3, <3>1 DEF NextBits
  <2> QED BY <1>0, <2>1, <2>2, <2>3, <2>4, SMTT(20)
<1>11. NextBits(S, bit) \in SUBSET GuessBits
  BY <1>0 DEF NextBits
<1> QED BY <1>0, <1>9, <1>10, <1>11, JumpGuess DEF Q
-------------------------------------------------------------------------------
(* The join of belief states                                                 *)

WellFormedStates == {bs \in BeliefStates : WellFormed(bs)}

LEMMA CombineType ==
  ASSUME NEW s, NEW t, WellFormed(s), WellFormed(t), combine(s, t) # NULL
  PROVE  WellFormed(combine(s, t))
<1> DEFINE only_t == {c \in Contexts : isEpsilon(s, c) /\ ~isEpsilon(t, c)}
           M == UNION {Mask(c) : c \in only_t}
           u == combine(s, t)
<1>1. u = Or(s, Or(and_bm(s, Bits \ M), and_bm(t, M)))
  BY DEF combine
<1>2. s \in BeliefStates /\ t \in BeliefStates
  BY DEF WellFormed
<1> HIDE DEF M, u
<1>3. /\ u.status = s.status \cup (s.status \cap (Bits \ M)) \cup (t.status \cap M)
      /\ u.value = s.value \cup (s.value \cap (Bits \ M)) \cup (t.value \cap M)
  BY <1>1 DEF Or, and_bm, And
<1>4. u \in BeliefStates /\ u.value \subseteq u.status
  <2>1. u = [status |-> u.status, value |-> u.value]
    BY <1>1, <1>3 DEF Or
  <2>2. u.status \subseteq Bits /\ u.value \subseteq Bits /\ u.value \subseteq u.status
    BY <1>2, <1>3 DEF BeliefStates, WellFormed
  <2> QED BY <2>1, <2>2 DEF BeliefStates
<1>5. ASSUME NEW b \in u.status
      PROVE  \E c \in Contexts : b \in Block(c) /\ starting_offset(c) \in u.value
  <2>1. CASE b \in s.status
    BY <1>3, <2>1 DEF WellFormed
  <2>2. CASE b \in t.status /\ b \in M
    <3>1. PICK c \in only_t : b \in Mask(c)
      BY <2>2 DEF M
    <3>2. starting_offset(c) \in Mask(c) /\ b \in Block(c) /\ starting_offset(c) \in M
      BY <3>1, Blocks, SMTT(20) DEF M
    <3>3. starting_offset(c) \in t.value
      BY <3>1, KnownContext
    <3> QED BY <1>3, <3>1, <3>2, <3>3
  <2> QED BY <1>3, <2>1, <2>2
<1>6. WellFormed(u)
  BY <1>4, <1>5 DEF WellFormed
<1> QED BY <1>6 DEF u

LEMMA BmBits ==
  ASSUME NEW bs, NEW m
  PROVE  /\ and_bm(bs, m).status = bs.status \cap m /\ and_bm(bs, m).value = bs.value \cap m
         /\ and_bm(bs, m) = [status |-> bs.status \cap m, value |-> bs.value \cap m]
BY DEF and_bm, And

\* The masks leave out the last beliefs, and nothing else.
LEMMA Masked ==
  ASSUME NEW c \in Contexts
  PROVE  /\ Block(c) \ LastBeliefs = Mask(c)
         /\ starting_offset(c) \notin LastBeliefs
<1>1. Block(c) = Mask(c) \cup {Bit(c, SizeBs)} /\ starting_offset(c) \in Mask(c) /\ Mask(c) \subseteq Block(c)
  BY Blocks
<1>2. Bit(c, SizeBs) \in LastBeliefs
  BY DEF LastBeliefs
<1>3. ASSUME NEW b \in Mask(c) PROVE b \notin LastBeliefs
  <2> SUFFICES ASSUME NEW d \in Contexts, b = Bit(d, SizeBs) PROVE FALSE
    BY DEF LastBeliefs
  <2>1. b \in Block(c) /\ b \in Block(d)
    BY <1>1, Blocks
  <2>2. d = c
    BY <2>1, Blocks
  <2>3. Bit(c, SizeBs) \notin Mask(c)
    BY DEF Mask, Bit
  <2> QED BY <2>2, <2>3
<1> QED BY <1>1, <1>2, <1>3

\* A belief state without what it says about last beliefs.
Strip(bs) == and_bm(bs, Bits \ LastBeliefs)

LEMMA PartBits ==
  ASSUME NEW s, NEW t, NEW c \in Contexts
  PROVE  Part(s, c) = Part(t, c) <=> /\ s.status \cap Mask(c) = t.status \cap Mask(c)
                                     /\ s.value \cap Mask(c) = t.value \cap Mask(c)
<1>1. /\ Part(s, c) = [status |-> s.status \cap Mask(c), value |-> s.value \cap Mask(c)]
      /\ Part(t, c) = [status |-> t.status \cap Mask(c), value |-> t.value \cap Mask(c)]
  BY BmBits, Masked DEF Part
<1> QED BY <1>1, SMTT(20)

\* combine is the union of two belief states that agree, without the last beliefs
\* of the second one.
LEMMA CombineExact ==
  ASSUME NEW s, NEW t, WellFormed(s), WellFormed(t)
  PROVE  combine(s, t) = IF Agree(s, t) THEN Or(s, Strip(t)) ELSE NULL
<1> DEFINE both == {c \in Contexts : ~isEpsilon(s, c) /\ ~isEpsilon(t, c)}
           only_t == {c \in Contexts : isEpsilon(s, c) /\ ~isEpsilon(t, c)}
           C == UNION {Mask(c) : c \in both}
           M == UNION {Mask(c) : c \in only_t}
           L == LastBeliefs
<1>1. combine(s, t) = IF and_bm(s, C) # and_bm(t, C) THEN NULL
                      ELSE Or(s, Or(and_bm(s, Bits \ M), and_bm(t, M)))
  BY DEF combine
<1>3. ASSUME and_bm(s, C) = and_bm(t, C) PROVE Agree(s, t)
  <2> SUFFICES ASSUME NEW c \in Contexts, ~isEpsilon(s, c), ~isEpsilon(t, c)
               PROVE  Part(s, c) = Part(t, c)
    BY DEF Agree
  <2>1. Mask(c) \subseteq C
    OBVIOUS
  <2>2. s.status \cap C = t.status \cap C /\ s.value \cap C = t.value \cap C
    <3> HIDE DEF C
    <3> QED BY <1>3, BmBits, SMTT(20)
  <2> HIDE DEF C
  <2>3. s.status \cap Mask(c) = t.status \cap Mask(c) /\ s.value \cap Mask(c) = t.value \cap Mask(c)
    BY <2>1, <2>2
  <2> QED BY <2>3, PartBits
<1>4. ASSUME Agree(s, t)
      PROVE  /\ and_bm(s, C) = and_bm(t, C)
             /\ Or(s, Or(and_bm(s, Bits \ M), and_bm(t, M))) = Or(s, Strip(t))
  <2>1. ASSUME NEW c \in Contexts, ~isEpsilon(s, c), ~isEpsilon(t, c)
        PROVE  s.status \cap Mask(c) = t.status \cap Mask(c) /\ s.value \cap Mask(c) = t.value \cap Mask(c)
    <3>1. Part(s, c) = Part(t, c)
      BY <1>4, <2>1 DEF Agree
    <3> QED BY <3>1, PartBits
  <2>2. s.status \cap C = t.status \cap C /\ s.value \cap C = t.value \cap C
    <3>1. \A b \in C : \E c \in Contexts : b \in Mask(c) /\ ~isEpsilon(s, c) /\ ~isEpsilon(t, c)
      OBVIOUS
    <3> HIDE DEF C
    <3> QED BY <2>1, <3>1, SMTT(20)
  <2>3. and_bm(s, C) = and_bm(t, C)
    <3> HIDE DEF C
    <3>1. /\ and_bm(s, C) = [status |-> s.status \cap C, value |-> s.value \cap C]
          /\ and_bm(t, C) = [status |-> t.status \cap C, value |-> t.value \cap C]
      BY BmBits
    <3> QED BY <2>2, <3>1
  <2>4. ASSUME NEW b \in t.status, b \notin L
        PROVE  b \in M \/ (b \in s.status /\ (b \in s.value <=> b \in t.value))
    <3>1. PICK c \in Contexts : b \in Block(c) /\ starting_offset(c) \in t.value
      BY DEF WellFormed
    <3>2. ~isEpsilon(t, c) /\ b \in Mask(c)
      <4>1. starting_offset(c) \in t.status
        BY <3>1 DEF WellFormed
      <4> QED BY <2>4, <3>1, <4>1, Masked DEF isEpsilon
    <3>3. CASE isEpsilon(s, c)
      BY <3>2, <3>3
    <3>4. CASE ~isEpsilon(s, c)
      BY <2>1, <2>4, <3>2, <3>4
    <3> QED BY <3>3, <3>4
  <2>5. M \cap L = {}
    BY Masked
  <2>6. t.value \subseteq t.status /\ s.status \subseteq Bits /\ s.value \subseteq Bits /\ t.status \subseteq Bits
    BY DEF WellFormed, BeliefStates
  <2> HIDE DEF M, L
  <2>7. /\ s.status \cup ((s.status \cap (Bits \ M)) \cup (t.status \cap M)) = s.status \cup (t.status \cap (Bits \ L))
        /\ s.value \cup ((s.value \cap (Bits \ M)) \cup (t.value \cap M)) = s.value \cup (t.value \cap (Bits \ L))
    BY <2>4, <2>5, <2>6
  <2>8. Or(s, Or(and_bm(s, Bits \ M), and_bm(t, M))) = Or(s, Strip(t))
    <3>1. /\ and_bm(s, Bits \ M) = [status |-> s.status \cap (Bits \ M), value |-> s.value \cap (Bits \ M)]
          /\ and_bm(t, M) = [status |-> t.status \cap M, value |-> t.value \cap M]
          /\ Strip(t) = [status |-> t.status \cap (Bits \ L), value |-> t.value \cap (Bits \ L)]
      BY BmBits DEF Strip, L
    <3>2. Or(and_bm(s, Bits \ M), and_bm(t, M))
            = [status |-> (s.status \cap (Bits \ M)) \cup (t.status \cap M),
               value |-> (s.value \cap (Bits \ M)) \cup (t.value \cap M)]
      BY <3>1 DEF Or
    <3> DEFINE X == Or(and_bm(s, Bits \ M), and_bm(t, M))
               Y == Strip(t)
    <3>3. /\ s.status \cup X.status = s.status \cup Y.status
          /\ s.value \cup X.value = s.value \cup Y.value
      <4>1. /\ X.status = (s.status \cap (Bits \ M)) \cup (t.status \cap M)
            /\ X.value = (s.value \cap (Bits \ M)) \cup (t.value \cap M)
        BY <3>2
      <4>2. Y.status = t.status \cap (Bits \ L) /\ Y.value = t.value \cap (Bits \ L)
        BY <3>1
      <4> HIDE DEF X, Y
      <4>3. /\ \A b : b \in s.status \cup X.status <=> b \in s.status \cup Y.status
            /\ \A b : b \in s.value \cup X.value <=> b \in s.value \cup Y.value
        BY <2>7, <4>1, <4>2
      <4> QED BY <4>3
    <3> HIDE DEF X, Y
    <3>4. Or(s, X) = Or(s, Y)
      BY <3>3 DEF Or
    <3> QED BY <3>4 DEF X, Y
  <2> QED BY <2>3, <2>8
<1> HIDE DEF C, M
<1> QED BY <1>1, <1>3, <1>4
(* The join of a selection: Combined, JoinAt and Selections for given packs.  *)

CombinedOf(p, it) ==
  LET bs[k \in DOMAIN it] ==
        LET next == p[k][it[k]]
            before == bs[k - 1]
        IN IF k = 1 THEN next
           ELSE IF before = NULL THEN NULL ELSE combine(before, next)
  IN bs

JoinOf(p, it) == CombinedOf(p, it)[Len(it)]

SelectionsOf(p) ==
  {f \in [DOMAIN p -> UNION {DOMAIN p[i] : i \in DOMAIN p}] :
     \A i \in DOMAIN p : f[i] \in DOMAIN p[i]}

LEMMA PacksType ==
  ASSUME NEW p \in Packs
  PROVE  /\ Len(Physical) \in Nat \ {0} /\ DOMAIN Physical = 1 .. Len(Physical)
         /\ DOMAIN p = 1 .. Len(Physical)
         /\ \A i \in 1 .. Len(Physical) :
              /\ p[i] \in Seq(BeliefStates) /\ Len(p[i]) \in Nat \ {0}
              /\ DOMAIN p[i] = 1 .. Len(p[i])
              /\ \A k \in DOMAIN p[i] : p[i][k] \in WellFormedStates
<1>1. Len(Physical) \in Nat \ {0} /\ DOMAIN Physical = 1 .. Len(Physical)
  BY NeighborsAssumption, SMTT(20)
<1>2. DOMAIN p = DOMAIN Physical
  BY PacksAssumption
<1>3. ASSUME NEW i \in DOMAIN Physical
      PROVE  /\ p[i] \in Seq(BeliefStates) /\ p[i] # <<>>
             /\ \A k \in DOMAIN p[i] : WellFormed(p[i][k])
  BY PacksAssumption
<1>4. ASSUME NEW i \in DOMAIN Physical
      PROVE  /\ Len(p[i]) \in Nat \ {0} /\ DOMAIN p[i] = 1 .. Len(p[i])
             /\ \A k \in DOMAIN p[i] : p[i][k] \in BeliefStates
  BY <1>3, SMTT(20)
<1> QED BY <1>1, <1>2, <1>3, <1>4 DEF WellFormedStates

LEMMA SelectionType ==
  ASSUME NEW p \in Packs, NEW it \in SelectionsOf(p)
  PROVE  /\ it \in [1 .. Len(Physical) -> Nat]
         /\ DOMAIN it = 1 .. Len(Physical) /\ Len(it) = Len(Physical)
         /\ \A i \in 1 .. Len(Physical) :
              it[i] \in 1 .. Len(p[i]) /\ p[i][it[i]] \in WellFormedStates
<1> DEFINE N == Len(Physical)
<1>1. N \in Nat \ {0} /\ DOMAIN p = 1 .. N
  BY PacksType
<1>2. /\ DOMAIN it = 1 .. N /\ it = [i \in 1 .. N |-> it[i]]
      /\ \A i \in 1 .. N : it[i] \in DOMAIN p[i]
  <2> HIDE DEF N
  <2> QED BY <1>1 DEF SelectionsOf
<1>3. \A i \in 1 .. N : it[i] \in 1 .. Len(p[i]) /\ it[i] \in Nat /\ p[i][it[i]] \in WellFormedStates
  BY <1>2, PacksType, SMTT(20)
<1>4. it \in [1 .. N -> Nat]
  BY <1>2, <1>3
<1>5. Len(it) = N
  <2> HIDE DEF N
  <2> QED BY <1>1, <1>4, SMTT(20)
<1> QED BY <1>2, <1>3, <1>4, <1>5

LEMMA IsSelection ==
  ASSUME NEW p \in Packs, NEW it, it = [i \in 1 .. Len(Physical) |-> it[i]],
         \A i \in 1 .. Len(Physical) : it[i] \in 1 .. Len(p[i])
  PROVE  it \in SelectionsOf(p)
<1>1. DOMAIN p = 1 .. Len(Physical) /\ \A i \in 1 .. Len(Physical) : DOMAIN p[i] = 1 .. Len(p[i])
  BY PacksType
<1>2. \A i \in DOMAIN p : it[i] \in DOMAIN p[i]
  BY <1>1
<1>3. it = [i \in DOMAIN p |-> it[i]]
  BY <1>1
<1>4. it \in [DOMAIN p -> UNION {DOMAIN p[i] : i \in DOMAIN p}]
  BY <1>2, <1>3
<1> QED BY <1>2, <1>4 DEF SelectionsOf

LEMMA CombinedRec ==
  ASSUME NEW p \in Packs, NEW it \in SelectionsOf(p)
  PROVE  /\ CombinedOf(p, it) \in [1 .. Len(Physical) -> WellFormedStates \cup {NULL}]
         /\ CombinedOf(p, it)[1] = p[1][it[1]]
         /\ \A k \in 2 .. Len(Physical) :
              CombinedOf(p, it)[k] = IF CombinedOf(p, it)[k - 1] = NULL THEN NULL
                                     ELSE combine(CombinedOf(p, it)[k - 1], p[k][it[k]])
<1> DEFINE N == Len(Physical)
           D == WellFormedStates \cup {NULL}
           After(x, k) == IF k = 1 THEN p[k][it[k]]
                          ELSE IF x = NULL THEN NULL ELSE combine(x, p[k][it[k]])
           Is(bs) == bs = [k \in DOMAIN it |-> After(bs[k - 1], k)]
           G == [x \in D \X (1 .. N) |-> After(x[1], x[2])]
<1>0. /\ N \in Nat \ {0} /\ DOMAIN it = 1 .. N
      /\ \A i \in 1 .. N : p[i][it[i]] \in WellFormedStates
  BY PacksType, SelectionType
<1> HIDE DEF N
<1>1. ASSUME NEW x \in D, NEW k \in 1 .. N PROVE After(x, k) \in D
  <2>1. p[k][it[k]] \in WellFormedStates
    BY <1>0
  <2>2. CASE k = 1 \/ x = NULL
    BY <2>1, <2>2
  <2>3. CASE k # 1 /\ x # NULL
    <3>1. x \in WellFormedStates /\ After(x, k) = combine(x, p[k][it[k]])
      BY <2>3
    <3>2. WellFormed(x) /\ WellFormed(p[k][it[k]])
      BY <2>1, <3>1 DEF WellFormedStates
    <3>3. combine(x, p[k][it[k]]) = NULL \/ combine(x, p[k][it[k]]) \in WellFormedStates
      BY <3>2, CombineType DEF WellFormedStates, WellFormed
    <3> QED BY <3>1, <3>3
  <2> QED BY <2>2, <2>3
<1>2. CombinedOf(p, it) = CHOOSE bs : Is(bs)
  BY DEF CombinedOf
<1> HIDE DEF After
<1>3. IsStep(G, D, N) /\ \A x \in D : \A k \in 1 .. N : G[<<x, k>>] = After(x, k)
  <2> HIDE DEF D
  <2> QED BY <1>1 DEF IsStep
<1> HIDE DEF G
<1>4. PICK f : IsRecursive(f, D, NULL, N, G)
  <2>1. NULL \in D
    OBVIOUS
  <2> HIDE DEF D
  <2> QED BY <1>0, <1>3, <2>1, Recursion
<1> HIDE DEF D
<1>5. \A k \in 1 .. N : f[k] = After(f[k - 1], k) /\ f[k] \in D /\ k - 1 \in 0 .. N
  <2>1. \A k \in 1 .. N : k - 1 \in 0 .. N /\ k \in 0 .. N
    BY <1>0, SMTT(20)
  <2> QED BY <1>3, <1>4, <2>1 DEF IsRecursive
<1> DEFINE g == [k \in 1 .. N |-> f[k]]
<1>6. Is(g)
  <2>1. ASSUME NEW k \in 1 .. N PROVE f[k] = After(g[k - 1], k)
    <3>1. CASE k = 1
      BY <1>5, <3>1 DEF After
    <3>2. CASE k # 1
      <4>1. k - 1 \in 1 .. N
        BY <1>0, <3>2, SMTT(20)
      <4>2. g[k - 1] = f[k - 1]
        BY <4>1
      <4> QED BY <1>5, <4>2
    <3> QED BY <3>1, <3>2
  <2> QED BY <1>0, <2>1
<1>7. Is(CombinedOf(p, it))
  <2> HIDE DEF Is, g
  <2> QED BY <1>2, <1>6
<1> DEFINE r == CombinedOf(p, it)
<1>8. DOMAIN r = 1 .. N /\ r = [k \in 1 .. N |-> r[k]]
      /\ \A k \in 1 .. N : r[k] = After(r[k - 1], k)
  BY <1>0, <1>7
<1> HIDE DEF r, Is
<1>9. r[1] = p[1][it[1]]
  <2>1. 1 \in 1 .. N
    BY <1>0, SMTT(20)
  <2> QED BY <1>8, <2>1 DEF After
<1>10. \A k \in 2 .. N : k \in 1 .. N /\ k # 1 /\ k - 1 \in 1 .. N
  BY <1>0, SMTT(20)
<1>11. \A k \in 2 .. N : r[k] = IF r[k - 1] = NULL THEN NULL ELSE combine(r[k - 1], p[k][it[k]])
  BY <1>8, <1>10 DEF After
<1>12. \A k \in 1 .. N : r[k] \in D
  <2> DEFINE Good == {k \in 0 .. N : k # 0 => r[k] \in D}
  <2>1. 0 \in Good
    BY <1>0, SMTT(20)
  <2>2. ASSUME NEW k \in 1 .. N, k - 1 \in Good PROVE k \in Good
    <3>1. k \in 0 .. N
      BY <1>0, SMTT(20)
    <3>2. CASE k = 1
      <4>1. p[1][it[1]] \in D
        BY <1>0, <3>2 DEF D
      <4> QED BY <1>9, <3>1, <3>2, <4>1
    <3>3. CASE k # 1
      <4>1. r[k - 1] \in D
        BY <1>0, <2>2, <3>3, SMTT(20)
      <4>2. r[k] \in D
        BY <1>1, <1>8, <4>1
      <4> QED BY <3>1, <4>2
    <3> QED BY <3>2, <3>3
  <2>3. \A k \in 0 .. N : k \in Good
    <3> HIDE DEF Good
    <3> QED BY <1>0, <2>1, <2>2, IntervalInduction
  <2>4. \A k \in 1 .. N : k \in 0 .. N /\ k # 0
    BY <1>0, SMTT(20)
  <2> QED BY <2>3, <2>4
<1>13. r \in [1 .. N -> D]
  BY <1>8, <1>12
<1> QED BY <1>9, <1>11, <1>13 DEF r, N, D
\* The belief states that a selection takes of the first k neighbors: whether
\* they agree, and their union.
PairwiseAgree(p, f, k) == \A i, j \in 1 .. k : Agree(p[i][f[i]], p[j][f[j]])

UnionTo(p, f, k) == [status |-> UNION {Given(i, p[i][f[i]]).status : i \in 1 .. k},
                     value |-> UNION {Given(i, p[i][f[i]]).value : i \in 1 .. k}]

\* What a belief state gives to a join is well formed, and the same but for last
\* beliefs.
LEMMA GivenState ==
  ASSUME NEW bs, WellFormed(bs), NEW i
  PROVE  /\ WellFormed(Given(i, bs))
         /\ \A c \in Contexts :
              /\ isEpsilon(Given(i, bs), c) <=> isEpsilon(bs, c)
              /\ \A b \in Mask(c) : /\ b \in Given(i, bs).status <=> b \in bs.status
                                    /\ b \in Given(i, bs).value <=> b \in bs.value
<1> DEFINE g == and_bm(bs, Bits \ LastBeliefs)
           X == Bits \ LastBeliefs
<1>1. g.status = bs.status \cap X /\ g.value = bs.value \cap X /\ g = [status |-> g.status, value |-> g.value]
  BY BmBits
<1>2. /\ bs.status \subseteq Bits /\ bs.value \subseteq Bits /\ bs.value \subseteq bs.status
      /\ \A b \in bs.status : \E c \in Contexts : b \in Block(c) /\ starting_offset(c) \in bs.value
  BY DEF WellFormed, BeliefStates
<1>3. \A c \in Contexts : starting_offset(c) \in X /\ starting_offset(c) \in Mask(c) /\ Mask(c) \subseteq X
  BY Masked, Blocks
<1> HIDE DEF g, X
<1>4. WellFormed(g)
  <2>1. g.status \subseteq Bits /\ g.value \subseteq Bits /\ g.value \subseteq g.status
    BY <1>1, <1>2
  <2>2. g \in BeliefStates
    BY <1>1, <2>1 DEF BeliefStates
  <2>3. \A b \in g.status : \E c \in Contexts : b \in Block(c) /\ starting_offset(c) \in g.value
    BY <1>1, <1>2, <1>3
  <2> QED BY <2>1, <2>2, <2>3 DEF WellFormed
<1>5. ASSUME NEW c \in Contexts
      PROVE  /\ isEpsilon(g, c) <=> isEpsilon(bs, c)
             /\ \A b \in Mask(c) : (b \in g.status <=> b \in bs.status) /\ (b \in g.value <=> b \in bs.value)
  BY <1>1, <1>3 DEF isEpsilon
<1>6. Given(i, bs) = bs \/ Given(i, bs) = g
  BY DEF Given, g
<1> QED BY <1>4, <1>5, <1>6

LEMMA AgreeSymmetric ==
  ASSUME NEW s, NEW t
  PROVE  Agree(s, s) /\ (Agree(s, t) => Agree(t, s))
BY DEF Agree

LEMMA UnionWellFormed ==
  ASSUME NEW p \in Packs, NEW f \in SelectionsOf(p), NEW k \in 1 .. Len(Physical)
  PROVE  WellFormed(UnionTo(p, f, k))
<1> DEFINE U == UnionTo(p, f, k)
           g(i) == Given(i, p[i][f[i]])
<1>1. \A i \in 1 .. k : WellFormed(g(i))
  <2>1. \A i \in 1 .. k : i \in 1 .. Len(Physical)
    BY PacksType, SMTT(20)
  <2> QED BY <2>1, SelectionType, GivenState DEF WellFormedStates
<1>2. /\ U.status = UNION {g(i).status : i \in 1 .. k}
      /\ U.value = UNION {g(i).value : i \in 1 .. k}
      /\ U = [status |-> U.status, value |-> U.value]
  BY DEF UnionTo
<1> HIDE DEF U, g
<1>3. /\ \A b \in U.status : \E i \in 1 .. k : b \in g(i).status
      /\ \A b \in U.value : \E i \in 1 .. k : b \in g(i).value
      /\ \A i \in 1 .. k : g(i).status \subseteq U.status /\ g(i).value \subseteq U.value
  BY <1>2
<1>4. U.status \subseteq Bits /\ U.value \subseteq Bits /\ U.value \subseteq U.status
  <2>1. \A i \in 1 .. k : /\ g(i).status \subseteq Bits /\ g(i).value \subseteq Bits
                          /\ g(i).value \subseteq g(i).status
    BY <1>1 DEF BeliefStates, WellFormed
  <2> QED BY <1>3, <2>1
<1>5. U \in BeliefStates
  BY <1>2, <1>4 DEF BeliefStates
<1>6. ASSUME NEW b \in U.status
      PROVE  \E c \in Contexts : b \in Block(c) /\ starting_offset(c) \in U.value
  <2>1. PICK i \in 1 .. k : b \in g(i).status
    BY <1>3
  <2>2. PICK c \in Contexts : b \in Block(c) /\ starting_offset(c) \in g(i).value
    BY <1>1, <2>1 DEF WellFormed
  <2> QED BY <1>3, <2>2
<1> QED BY <1>4, <1>5, <1>6 DEF WellFormed, U

LEMMA UnionAgrees ==
  ASSUME NEW p \in Packs, NEW f \in SelectionsOf(p), NEW k \in 1 .. Len(Physical),
         PairwiseAgree(p, f, k), NEW t
  PROVE  Agree(UnionTo(p, f, k), t) <=> \A i \in 1 .. k : Agree(p[i][f[i]], t)
<1> DEFINE st(i) == p[i][f[i]]
           g(i) == Given(i, st(i))
           U == UnionTo(p, f, k)
<1>0. \A i, j \in 1 .. k : Agree(st(i), st(j))
  BY DEF PairwiseAgree
<1>1. \A i \in 1 .. k : WellFormed(st(i))
  <2>1. \A i \in 1 .. k : i \in 1 .. Len(Physical)
    BY PacksType, SMTT(20)
  <2> QED BY <2>1, SelectionType DEF WellFormedStates
<1>2. /\ U.status = UNION {g(i).status : i \in 1 .. k}
      /\ U.value = UNION {g(i).value : i \in 1 .. k}
  BY DEF UnionTo
<1>a. \A i \in 1 .. k : \A c \in Contexts :
        /\ isEpsilon(g(i), c) <=> isEpsilon(st(i), c)
        /\ \A b \in Mask(c) : /\ b \in g(i).status <=> b \in st(i).status
                              /\ b \in g(i).value <=> b \in st(i).value
  <2> HIDE DEF st
  <2> QED BY <1>1, GivenState
<1> HIDE DEF U, st, g
<1>3. /\ \A b \in U.status : \E i \in 1 .. k : b \in g(i).status
      /\ \A b \in U.value : \E i \in 1 .. k : b \in g(i).value
      /\ \A i \in 1 .. k : g(i).status \subseteq U.status /\ g(i).value \subseteq U.value
  BY <1>2
<1>4. ASSUME NEW c \in Contexts
      PROVE  ~isEpsilon(U, c) <=> \E i \in 1 .. k : ~isEpsilon(st(i), c)
  <2>1. \A i \in 1 .. k : isEpsilon(st(i), c) <=> starting_offset(c) \notin g(i).status
    BY <1>a DEF isEpsilon
  <2> QED BY <1>3, <2>1 DEF isEpsilon
<1>5. ASSUME NEW c \in Contexts, NEW i \in 1 .. k, ~isEpsilon(st(i), c)
      PROVE  Part(U, c) = Part(st(i), c)
  <2>1. ASSUME NEW b \in Mask(c), NEW j \in 1 .. k
        PROVE  /\ b \in st(j).status => b \in st(i).status
               /\ b \in st(j).value => b \in st(i).value
    <3>1. CASE isEpsilon(st(j), c)
      <4>1. b \in Block(c)
        BY Blocks
      <4> QED BY <1>1, <3>1, <4>1, KnownContext
    <3>2. CASE ~isEpsilon(st(j), c)
      <4>1. Part(st(i), c) = Part(st(j), c)
        BY <1>0, <1>5, <3>2 DEF Agree
      <4>2. st(i).status \cap Mask(c) = st(j).status \cap Mask(c) /\ st(i).value \cap Mask(c) = st(j).value \cap Mask(c)
        BY <4>1, PartBits
      <4> QED BY <4>2
    <3> QED BY <3>1, <3>2
  <2>2. ASSUME NEW b \in Mask(c)
        PROVE  (b \in U.status <=> b \in st(i).status) /\ (b \in U.value <=> b \in st(i).value)
    BY <1>3, <1>a, <2>1
  <2>3. U.status \cap Mask(c) = st(i).status \cap Mask(c) /\ U.value \cap Mask(c) = st(i).value \cap Mask(c)
    BY <2>2
  <2> QED BY <2>3, PartBits
<1>6. ASSUME Agree(U, t), NEW i \in 1 .. k PROVE Agree(st(i), t)
  <2> SUFFICES ASSUME NEW c \in Contexts, ~isEpsilon(st(i), c), ~isEpsilon(t, c)
               PROVE  Part(st(i), c) = Part(t, c)
    BY DEF Agree
  <2>1. ~isEpsilon(U, c)
    BY <1>4
  <2>2. Part(U, c) = Part(t, c)
    BY <1>6, <2>1 DEF Agree
  <2> QED BY <1>5, <2>2
<1>7. ASSUME \A i \in 1 .. k : Agree(st(i), t) PROVE Agree(U, t)
  <2> SUFFICES ASSUME NEW c \in Contexts, ~isEpsilon(U, c), ~isEpsilon(t, c)
               PROVE  Part(U, c) = Part(t, c)
    BY DEF Agree
  <2>1. PICK i \in 1 .. k : ~isEpsilon(st(i), c)
    BY <1>4
  <2>2. Part(st(i), c) = Part(t, c)
    BY <1>7, <2>1 DEF Agree
  <2> QED BY <1>5, <2>1, <2>2
<1> QED BY <1>6, <1>7 DEF U, st

\* The join of a selection is the union of what its belief states give,
\* if they agree.
LEMMA JoinOfExact ==
  ASSUME NEW p \in Packs, NEW f \in SelectionsOf(p)
  PROVE  JoinOf(p, f) = IF PairwiseAgree(p, f, Len(Physical)) THEN UnionTo(p, f, Len(Physical))
                        ELSE NULL
<1> DEFINE N == Len(Physical)
           st(i) == p[i][f[i]]
           r == CombinedOf(p, f)
           Good == {k \in 0 .. N : k # 0 => r[k] = IF PairwiseAgree(p, f, k) THEN UnionTo(p, f, k)
                                                  ELSE NULL}
<1>0. N \in Nat \ {0} /\ Len(f) = N /\ \A i \in 1 .. N : WellFormed(st(i)) /\ st(i) \in BeliefStates
  BY PacksType, SelectionType DEF WellFormedStates
<1>1. /\ r[1] = st(1)
      /\ \A k \in 2 .. N : r[k] = IF r[k - 1] = NULL THEN NULL ELSE combine(r[k - 1], st(k))
  BY CombinedRec
<1> HIDE DEF r
<1>2. 0 \in Good
  BY <1>0, SMTT(20)
<1>3. ASSUME NEW k \in 1 .. N, k - 1 \in Good PROVE k \in Good
  <2>0. k \in 0 .. N
    BY <1>0, SMTT(20)
  <2>1. CASE k = 1
    <3>1. PairwiseAgree(p, f, 1)
      <4>1. \A i \in 1 .. 1 : i = 1
        BY SMTT(20)
      <4> QED BY <4>1, AgreeSymmetric DEF PairwiseAgree
    <3>2. UnionTo(p, f, 1) = [status |-> st(1).status, value |-> st(1).value]
      <4>1. 1 .. 1 = {1}
        BY SMTT(20)
      <4>0. Given(1, st(1)) = st(1)
        BY DEF Given
      <4>2. /\ {Given(i, p[i][f[i]]).status : i \in {1}} = {st(1).status}
            /\ {Given(i, p[i][f[i]]).value : i \in {1}} = {st(1).value}
        BY <4>0
      <4>3. UNION {st(1).status} = st(1).status /\ UNION {st(1).value} = st(1).value
        OBVIOUS
      <4> HIDE DEF st
      <4> QED BY <4>1, <4>2, <4>3 DEF UnionTo
    <3>3. st(1) = [status |-> st(1).status, value |-> st(1).value]
      <4>1. st(1) \in BeliefStates
        BY <1>0, <2>1
      <4> HIDE DEF st
      <4> QED BY <4>1 DEF BeliefStates
    <3> QED BY <1>1, <2>0, <2>1, <3>1, <3>2, <3>3
  <2>2. CASE k # 1
    <3>0. k \in 2 .. N /\ k - 1 \in 1 .. N /\ k - 1 # 0 /\ k \in Nat /\ 1 .. k = (1 .. k - 1) \cup {k}
      BY <1>0, <2>2, SMTT(20)
    <3>1. r[k - 1] = IF PairwiseAgree(p, f, k - 1) THEN UnionTo(p, f, k - 1) ELSE NULL
      BY <1>3, <3>0
    <3>2. r[k] = IF r[k - 1] = NULL THEN NULL ELSE combine(r[k - 1], st(k))
      BY <1>1, <3>0
    <3>3. CASE ~PairwiseAgree(p, f, k - 1)
      <4>1. ~PairwiseAgree(p, f, k)
        BY <3>0, <3>3 DEF PairwiseAgree
      <4> QED BY <2>0, <3>1, <3>2, <3>3, <4>1
    <3>4. CASE PairwiseAgree(p, f, k - 1)
      <4> DEFINE U == UnionTo(p, f, k - 1)
      <4>1. WellFormed(U) /\ U # NULL
        <5>1. WellFormed(U)
          BY <3>0, UnionWellFormed
        <5> HIDE DEF U
        <5> QED BY <5>1, NotNull DEF WellFormed
      <4>2. Given(k, st(k)) = Strip(st(k))
        BY <2>2 DEF Given, Strip
      <4>3. Agree(U, st(k)) <=> \A i \in 1 .. k - 1 : Agree(st(i), st(k))
        BY <3>0, <3>4, UnionAgrees
      <4>4. PairwiseAgree(p, f, k) <=> \A i \in 1 .. k - 1 : Agree(st(i), st(k))
        BY <3>0, <3>4, AgreeSymmetric DEF PairwiseAgree
      <4>5. UnionTo(p, f, k) = Or(U, Given(k, st(k)))
        <5> DEFINE I == 1 .. k
                   J == 1 .. k - 1
                   g(i) == Given(i, st(i))
                   SI == UNION {g(i).status : i \in I}
                   VI == UNION {g(i).value : i \in I}
                   SJ == UNION {g(i).status : i \in J}
                   VJ == UNION {g(i).value : i \in J}
        <5>1. U.status = SJ /\ U.value = VJ /\ UnionTo(p, f, k) = [status |-> SI, value |-> VI]
          BY DEF UnionTo
        <5>2. I = J \cup {k}
          BY <3>0
        <5> HIDE DEF I, J, g, U
        <5>3. ASSUME NEW b PROVE /\ b \in SI <=> b \in SJ \/ b \in g(k).status
                                 /\ b \in VI <=> b \in VJ \/ b \in g(k).value
          BY <5>2
        <5> HIDE DEF SI, VI, SJ, VJ
        <5>4. SI = SJ \cup g(k).status /\ VI = VJ \cup g(k).value
          BY <5>3
        <5>5. UnionTo(p, f, k) = Or(U, g(k))
          BY <5>1, <5>4 DEF Or
        <5> QED BY <5>5 DEF g
      <4>6. combine(U, st(k)) = IF Agree(U, st(k)) THEN Or(U, Strip(st(k))) ELSE NULL
        <5> HIDE DEF U, st
        <5> QED BY <1>0, <4>1, CombineExact
      <4> HIDE DEF U, st
      <4>7. r[k] = combine(U, st(k))
        BY <3>1, <3>2, <3>4, <4>1 DEF U
      <4> QED BY <2>0, <4>2, <4>3, <4>4, <4>5, <4>6, <4>7
    <3> QED BY <3>3, <3>4
  <2> QED BY <2>1, <2>2
<1>4. N \in Good
  <2>1. \A k \in 0 .. N : k \in Good
    <3> HIDE DEF Good, N
    <3> QED BY <1>0, <1>2, <1>3, IntervalInduction
  <2> QED BY <1>0, <2>1, SMTT(20)
<1>5. JoinOf(p, f) = r[N]
  BY <1>0 DEF JoinOf, r
<1> QED BY <1>0, <1>4, <1>5
-------------------------------------------------------------------------------
(* The models that are sent for an input                                     *)

ProperStates == {bs \in BeliefStates : bs.value \subseteq bs.status}

\* The models of the solver for an input, and what is sent of them: the models
\* that are consistent with the input, added to it and projected.
ModelsOf(table, base, input) == base[{r.head : r \in {q \in table : satisfied(q, input)}}]

Projected(m, input) == And(Or(m, input), interface)

SentOf(table, base, input) ==
  {Projected(m, input) :
     m \in {parseString(ModelsOf(table, base, input)[k]) :
              k \in {j \in DOMAIN ModelsOf(table, base, input) :
                       consistent_with(parseString(ModelsOf(table, base, input)[j]), input, Ctx)}}}

LEMMA ModelsType ==
  ASSUME NEW table \in RuleTables, NEW base \in KnowledgeBases, NEW input
  PROVE  /\ ModelsOf(table, base, input) \in Seq(SUBSET (1 .. SizeBs))
         /\ Len(ModelsOf(table, base, input)) \in Nat
         /\ DOMAIN ModelsOf(table, base, input) = 1 .. Len(ModelsOf(table, base, input))
<1>1. {r.head : r \in {q \in table : satisfied(q, input)}} \in SUBSET {r.head : r \in table}
  OBVIOUS
<1>2. ModelsOf(table, base, input) \in Seq(SUBSET (1 .. SizeBs))
  BY <1>1, KnowledgeBaseAssumption DEF ModelsOf
<1> QED BY <1>2, SMTT(20)

LEMMA ParsedModel ==
  ASSUME NEW model \in SUBSET (1 .. SizeBs)
  PROVE  /\ parseString(model) \in ProperStates
         /\ parseString(model).status = Block(Ctx)
         /\ starting_offset(Ctx) \in parseString(model).value
<1>1. Ctx \in Contexts
  BY SizesAssumption DEF Contexts
<1>2. Block(Ctx) \subseteq Bits /\ starting_offset(Ctx) \in Block(Ctx)
      /\ \A a \in 1 .. SizeBs : Bit(Ctx, a) \in Block(Ctx)
  BY <1>1, Blocks
<1>3. {Bit(Ctx, a) : a \in model} \subseteq Block(Ctx)
  BY <1>2
<1>4. /\ parseString(model).status = Block(Ctx)
      /\ parseString(model).value = {starting_offset(Ctx)} \cup {Bit(Ctx, a) : a \in model}
      /\ parseString(model) = [status |-> parseString(model).status, value |-> parseString(model).value]
  BY DEF parseString
<1>5. parseString(model).value \subseteq Block(Ctx)
  BY <1>2, <1>3, <1>4
<1>6. parseString(model) \in BeliefStates
  BY <1>2, <1>4, <1>5 DEF BeliefStates
<1> QED BY <1>4, <1>5, <1>6 DEF ProperStates

LEMMA ProjectedType ==
  ASSUME NEW m \in ProperStates, NEW input \in ProperStates
  PROVE  Projected(m, input) \in ProperStates
<1> DEFINE u == Projected(m, input)
<1>1. /\ u.status = (m.status \cup input.status) \cap interface.status
      /\ u.value = (m.value \cup input.value) \cap interface.value
      /\ u = [status |-> u.status, value |-> u.value]
  BY DEF Projected, And, Or
<1>2. interface.status = interface.value
  BY DEF interface
<1> HIDE DEF u
<1>3. /\ m.status \subseteq Bits /\ m.value \subseteq Bits /\ m.value \subseteq m.status
      /\ input.status \subseteq Bits /\ input.value \subseteq Bits /\ input.value \subseteq input.status
  BY DEF ProperStates, BeliefStates
<1>4. u.status \subseteq Bits /\ u.value \subseteq Bits /\ u.value \subseteq u.status
  BY <1>1, <1>2, <1>3
<1>5. u \in BeliefStates
  BY <1>1, <1>4 DEF BeliefStates
<1> QED BY <1>4, <1>5 DEF ProperStates, u

LEMMA RangeConcat ==
  ASSUME NEW D, NEW s \in Seq(D), NEW t \in Seq(D)
  PROVE  Range(s \o t) = Range(s) \cup Range(t)
<1>1. /\ DOMAIN s = 1 .. Len(s) /\ DOMAIN t = 1 .. Len(t) /\ Len(s) \in Nat /\ Len(t) \in Nat
      /\ DOMAIN (s \o t) = 1 .. Len(s) + Len(t)
  BY SMTT(20)
<1>2. /\ \A i \in 1 .. Len(s) : i \in 1 .. Len(s) + Len(t) /\ (s \o t)[i] = s[i]
      /\ \A i \in 1 .. Len(t) : Len(s) + i \in 1 .. Len(s) + Len(t) /\ (s \o t)[Len(s) + i] = t[i]
      /\ \A i \in 1 .. Len(s) + Len(t) : \/ i \in 1 .. Len(s)
                                         \/ i - Len(s) \in 1 .. Len(t) /\ (s \o t)[i] = t[i - Len(s)]
  BY <1>1, SMTT(20)
<1> DEFINE q == s \o t
<1>3. /\ Range(q) = {q[i] : i \in 1 .. Len(s) + Len(t)}
      /\ Range(s) = {s[i] : i \in 1 .. Len(s)} /\ Range(t) = {t[i] : i \in 1 .. Len(t)}
  BY <1>1 DEF Range
<1> HIDE DEF q
<1>4. ASSUME NEW x \in Range(q) PROVE x \in Range(s) \/ x \in Range(t)
  <2>1. PICK i \in 1 .. Len(s) + Len(t) : x = q[i]
    BY <1>3
  <2>2. CASE i \in 1 .. Len(s)
    BY <1>2, <1>3, <2>1, <2>2 DEF q
  <2>3. CASE i - Len(s) \in 1 .. Len(t) /\ q[i] = t[i - Len(s)]
    BY <1>3, <2>1, <2>3
  <2> QED BY <1>2, <2>1, <2>2, <2>3 DEF q
<1>5. ASSUME NEW x \in Range(s) PROVE x \in Range(q)
  <2>1. PICK i \in 1 .. Len(s) : x = s[i]
    BY <1>3
  <2>2. i \in 1 .. Len(s) + Len(t) /\ q[i] = s[i]
    BY <1>2 DEF q
  <2> QED BY <1>3, <2>1, <2>2
<1>6. ASSUME NEW x \in Range(t) PROVE x \in Range(q)
  <2>1. PICK i \in 1 .. Len(t) : x = t[i]
    BY <1>3
  <2>2. Len(s) + i \in 1 .. Len(s) + Len(t) /\ q[Len(s) + i] = t[i]
    BY <1>2 DEF q
  <2> QED BY <1>3, <2>1, <2>2
<1> QED BY <1>4, <1>5, <1>6 DEF q

LEMMA TestAndSend ==
  ASSUME NEW m \in ProperStates, NEW input \in ProperStates
  PROVE  /\ test_and_send(m, input) \in Seq(ProperStates)
         /\ Range(test_and_send(m, input)) = IF consistent_with(m, input, Ctx)
                                             THEN {Projected(m, input)} ELSE {}
<1>1. Projected(m, input) \in ProperStates
  BY ProjectedType
<1>2. test_and_send(m, input) = IF consistent_with(m, input, Ctx) THEN <<Projected(m, input)>> ELSE <<>>
  BY DEF test_and_send, Projected
<1>3. \A x \in ProperStates : <<x>> \in Seq(ProperStates) /\ Range(<<x>>) = {x}
  BY SMTT(20) DEF Range
<1>4. <<>> \in Seq(ProperStates) /\ Range(<<>>) = {}
  BY SMTT(20) DEF Range
<1> QED BY <1>1, <1>2, <1>3, <1>4
LEMMA ReadAll ==
  ASSUME rules \in RuleTables, kb \in KnowledgeBases, NEW input \in ProperStates
  PROVE  /\ read_all(input) \in Seq(ProperStates)
         /\ Range(read_all(input)) = SentOf(rules, kb, input)
<1> DEFINE models == ModelsOf(rules, kb, input)
           N == Len(models)
           D == Seq(ProperStates)
           send(k) == test_and_send(parseString(models[k]), input)
           Is(q) == q = [k \in 0 .. N |-> IF k = 0 THEN <<>> ELSE q[k - 1] \o send(k)]
           G == [x \in D \X (1 .. N) |-> x[1] \o send(x[2])]
           r == Sent(input)
           Good(k) == {i \in 1 .. k : consistent_with(parseString(models[i]), input, Ctx)}
           Out(k) == {Projected(parseString(models[i]), input) : i \in Good(k)}
<1>0. N \in Nat /\ DOMAIN models = 1 .. N /\ \A k \in 1 .. N : models[k] \in SUBSET (1 .. SizeBs)
  <2>1. models \in Seq(SUBSET (1 .. SizeBs))
    BY ModelsType
  <2> HIDE DEF models
  <2> QED BY <2>1, SMTT(20)
<1>1. kb[evaluate_bridge_rules(input)] = models
  BY DEF evaluate_bridge_rules, ModelsOf
<1>2. r = CHOOSE q : Is(q)
  <2> HIDE DEF models
  <2> QED BY <1>1 DEF Sent
<1>3. read_all(input) = r[N]
  <2> HIDE DEF models
  <2> QED BY <1>1 DEF read_all
<1> HIDE DEF models, N, r
<1>4. \A k \in 1 .. N :
        /\ parseString(models[k]) \in ProperStates
        /\ send(k) \in D
        /\ Range(send(k)) = IF consistent_with(parseString(models[k]), input, Ctx)
                            THEN {Projected(parseString(models[k]), input)} ELSE {}
  <2>1. \A k \in 1 .. N : parseString(models[k]) \in ProperStates
    BY <1>0, ParsedModel
  <2> QED BY <2>1, TestAndSend
<1> HIDE DEF send
<1>5. IsStep(G, D, N) /\ \A x \in D : \A k \in 1 .. N : G[<<x, k>>] = x \o send(k)
  <2>1. \A x \in D : \A k \in 1 .. N : x \o send(k) \in D
    BY <1>4, SMTT(20)
  <2> HIDE DEF D
  <2> QED BY <2>1 DEF IsStep
<1> HIDE DEF G
<1>6. PICK f : IsRecursive(f, D, <<>>, N, G)
  <2>1. <<>> \in D
    BY SMTT(20)
  <2> HIDE DEF D
  <2> QED BY <1>0, <1>5, <2>1, Recursion
<1>7. Is(f)
  <2> HIDE DEF D
  <2>1. f = [k \in 0 .. N |-> f[k]] /\ f[0] = <<>>
    BY <1>6 DEF IsRecursive
  <2>2. \A k \in 1 .. N : k - 1 \in 0 .. N
    BY <1>0, SMTT(20)
  <2>3. \A k \in 1 .. N : f[k] = f[k - 1] \o send(k)
    BY <1>5, <1>6, <2>2 DEF IsRecursive
  <2>4. \A k \in 0 .. N : k = 0 \/ k \in 1 .. N
    BY <1>0, SMTT(20)
  <2>5. \A k \in 0 .. N : f[k] = IF k = 0 THEN <<>> ELSE f[k - 1] \o send(k)
    BY <2>1, <2>3, <2>4
  <2> QED BY <2>1, <2>5
<1>8. Is(r)
  <2> HIDE DEF Is
  <2> QED BY <1>2, <1>7
<1>9. r[0] = <<>> /\ \A k \in 1 .. N : r[k] = r[k - 1] \o send(k)
  <2>1. \A k \in 0 .. N : r[k] = IF k = 0 THEN <<>> ELSE r[k - 1] \o send(k)
    BY <1>8
  <2>2. 0 \in 0 .. N /\ \A k \in 1 .. N : k \in 0 .. N /\ k # 0
    BY <1>0, SMTT(20)
  <2> HIDE DEF Is
  <2> QED BY <2>1, <2>2
<1> HIDE DEF Is
<1> DEFINE S == {k \in 0 .. N : r[k] \in D /\ Range(r[k]) = Out(k)}
<1>10. 0 \in S
  <2>1. <<>> \in D /\ Range(<<>>) = {} /\ Out(0) = {}
    BY SMTT(20) DEF Range
  <2>2. r[0] \in D /\ Range(r[0]) = Out(0)
    BY <1>9, <2>1
  <2> HIDE DEF D, Out
  <2> QED BY <1>0, <2>2, SMTT(20)
<1>11. ASSUME NEW k \in 1 .. N, k - 1 \in S PROVE k \in S
  <2>1. r[k - 1] \in D /\ Range(r[k - 1]) = Out(k - 1) /\ k \in 0 .. N
    BY <1>0, <1>11, SMTT(20)
  <2>2. r[k] \in D /\ Range(r[k]) = Out(k - 1) \cup Range(send(k))
    <3>1. r[k] = r[k - 1] \o send(k) /\ send(k) \in D
      BY <1>4, <1>9
    <3>2. r[k - 1] \o send(k) \in D
      BY <2>1, <3>1, SMTT(20)
    <3>3. Range(r[k - 1] \o send(k)) = Range(r[k - 1]) \cup Range(send(k))
      <4>1. \A x, y \in D : Range(x \o y) = Range(x) \cup Range(y)
        BY RangeConcat
      <4> HIDE DEF D
      <4> QED BY <2>1, <3>1, <4>1
    <3> HIDE DEF D, Out
    <3> QED BY <2>1, <3>1, <3>2, <3>3
  <2>3. 1 .. k = (1 .. k - 1) \cup {k}
    BY <1>0, SMTT(20)
  <2>4. Out(k) = Out(k - 1) \cup Range(send(k))
    <3>1. Good(k) = Good(k - 1) \cup IF consistent_with(parseString(models[k]), input, Ctx) THEN {k} ELSE {}
      BY <2>3
    <3> DEFINE P(i) == Projected(parseString(models[i]), input)
               Now == IF consistent_with(parseString(models[k]), input, Ctx) THEN {k} ELSE {}
    <3>2. Range(send(k)) = {P(i) : i \in Now}
      <4>1. Range(send(k)) = IF consistent_with(parseString(models[k]), input, Ctx) THEN {P(k)} ELSE {}
        BY <1>4
      <4> HIDE DEF P
      <4> QED BY <4>1
    <3>3. Good(k) = Good(k - 1) \cup Now
      BY <3>1
    <3> HIDE DEF Good, Now, P
    <3>4. {P(i) : i \in Good(k)} = {P(i) : i \in Good(k - 1)} \cup {P(i) : i \in Now}
      BY <3>3
    <3> QED BY <3>2, <3>4 DEF P
  <2> HIDE DEF D, Out
  <2> QED BY <2>1, <2>2, <2>4
<1>12. r[N] \in D /\ Range(r[N]) = Out(N)
  <2>1. \A k \in 0 .. N : k \in S
    <3> HIDE DEF S
    <3> QED BY <1>0, <1>10, <1>11, IntervalInduction
  <2> HIDE DEF D, Out
  <2> QED BY <1>0, <2>1, SMTT(20)
<1>13. Out(N) = SentOf(rules, kb, input)
  <2>1. SentOf(rules, kb, input) = {Projected(m, input) : m \in {parseString(models[k]) : k \in Good(N)}}
    BY <1>0 DEF SentOf, models
  <2> DEFINE M(k) == parseString(models[k])
             P(m) == Projected(m, input)
  <2>2. {P(m) : m \in {M(k) : k \in Good(N)}} = {P(M(k)) : k \in Good(N)}
    <3> HIDE DEF Good, M, P
    <3> QED OBVIOUS
  <2> QED BY <2>1, <2>2
<1> QED BY <1>3, <1>12, <1>13
-------------------------------------------------------------------------------
(* The running iterators of the join                                         *)

More(p, f) == {i \in DOMAIN f : f[i] < Len(p[i])}

IncOf(p, f) == CHOOSE i \in More(p, f) : \A j \in More(p, f) : j <= i

Advanced(p, f) ==
  [i \in DOMAIN f |-> CASE i < IncOf(p, f) -> f[i]
                        [] i = IncOf(p, f) -> f[i] + 1
                        [] i > IncOf(p, f) -> 1]

\* The iterators come to f before they come to g.
Before(f, g) ==
  \E i \in 1 .. Len(Physical) : f[i] < g[i] /\ \A j \in 1 .. Len(Physical) : j < i => f[j] = g[j]

LEMMA AdvancedType ==
  ASSUME NEW p \in Packs, NEW f \in SelectionsOf(p), More(p, f) # {}
  PROVE  /\ IncOf(p, f) \in 1 .. Len(Physical) /\ f[IncOf(p, f)] < Len(p[IncOf(p, f)])
         /\ \A i \in 1 .. Len(Physical) : i > IncOf(p, f) => f[i] = Len(p[i])
         /\ \A i \in 1 .. Len(Physical) :
              /\ i < IncOf(p, f) => Advanced(p, f)[i] = f[i]
              /\ i = IncOf(p, f) => Advanced(p, f)[i] = f[i] + 1
              /\ i > IncOf(p, f) => Advanced(p, f)[i] = 1
         /\ Advanced(p, f) \in SelectionsOf(p)
<1> DEFINE N == Len(Physical)
           inc == IncOf(p, f)
           g == Advanced(p, f)
<1>0. /\ N \in Nat \ {0} /\ DOMAIN f = 1 .. N
      /\ \A i \in 1 .. N : f[i] \in 1 .. Len(p[i]) /\ Len(p[i]) \in Nat \ {0}
  BY PacksType, SelectionType
<1> HIDE DEF N
<1>1. More(p, f) \subseteq 0 .. N /\ More(p, f) \subseteq 1 .. N
      /\ \A i \in 1 .. N : i \in More(p, f) <=> f[i] < Len(p[i])
  BY <1>0, SMTT(20) DEF More
<1>2. \E i \in More(p, f) : \A j \in More(p, f) : j <= i
  BY <1>0, <1>1, Greatest
<1>3. inc \in More(p, f) /\ \A j \in More(p, f) : j <= inc
  BY <1>2 DEF IncOf
<1>4. inc \in 1 .. N /\ f[inc] < Len(p[inc])
  BY <1>1, <1>3
<1>5. g = [i \in 1 .. N |-> CASE i < inc -> f[i] [] i = inc -> f[i] + 1 [] i > inc -> 1]
  BY <1>0 DEF Advanced
<1> HIDE DEF inc, g
<1>6. \A i \in 1 .. N : i > inc => f[i] = Len(p[i])
  BY <1>0, <1>1, <1>3, <1>4, SMTT(20)
<1>7. ASSUME NEW i \in 1 .. N
      PROVE  /\ i < inc => g[i] = f[i]
             /\ i = inc => g[i] = f[i] + 1
             /\ i > inc => g[i] = 1
  <2>1. i \in Int /\ inc \in Int
    BY <1>4, SMTT(20)
  <2>2. g[i] = CASE i < inc -> f[i] [] i = inc -> f[i] + 1 [] i > inc -> 1
    BY <1>5
  <2> QED BY <2>1, <2>2, SMTT(20)
<1>8. \A i \in 1 .. N : g[i] \in 1 .. Len(p[i])
  BY <1>0, <1>4, <1>7, SMTT(20)
<1>9. g = [i \in 1 .. N |-> g[i]]
  <2> DEFINE V(i) == CASE i < inc -> f[i] [] i = inc -> f[i] + 1 [] i > inc -> 1
  <2>1. g = [i \in 1 .. N |-> V(i)]
    BY <1>5
  <2> HIDE DEF V
  <2> QED BY <2>1
<1>10. g \in SelectionsOf(p)
  BY <1>8, <1>9, IsSelection DEF N
<1> QED BY <1>4, <1>6, <1>7, <1>10 DEF N, inc, g

\* The selections before the next one are those before this one, and this one.
LEMMA AdvancedOrder ==
  ASSUME NEW p \in Packs, NEW f \in SelectionsOf(p), More(p, f) # {},
         NEW h \in SelectionsOf(p)
  PROVE  Before(h, Advanced(p, f)) <=> Before(h, f) \/ h = f
<1> DEFINE N == Len(Physical)
           inc == IncOf(p, f)
           g == Advanced(p, f)
<1>0. /\ N \in Nat \ {0} /\ f \in [1 .. N -> Nat] /\ h \in [1 .. N -> Nat]
      /\ \A i \in 1 .. N : h[i] \in 1 .. Len(p[i]) /\ f[i] \in 1 .. Len(p[i]) /\ Len(p[i]) \in Nat
  BY PacksType, SelectionType
<1>1. /\ inc \in 1 .. N /\ f[inc] < Len(p[inc])
      /\ \A i \in 1 .. N : i > inc => f[i] = Len(p[i])
      /\ \A i \in 1 .. N : /\ i < inc => g[i] = f[i]
                           /\ i = inc => g[i] = f[i] + 1
                           /\ i > inc => g[i] = 1
  BY AdvancedType
<1>2. \A x, y : Before(x, y) <=> \E i \in 1 .. N : x[i] < y[i] /\ \A j \in 1 .. N : j < i => x[j] = y[j]
  BY DEF Before
<1> HIDE DEF N, inc, g
<1>3. ASSUME h = f PROVE Before(h, g)
  <2>1. f[inc] < g[inc] /\ \A j \in 1 .. N : j < inc => f[j] = g[j]
    BY <1>0, <1>1, SMTT(20)
  <2> QED BY <1>1, <1>2, <1>3, <2>1
<1>4. ASSUME Before(h, f) PROVE Before(h, g)
  <2>1. PICK i \in 1 .. N : h[i] < f[i] /\ \A j \in 1 .. N : j < i => h[j] = f[j]
    BY <1>2, <1>4
  <2>2. CASE i <= inc
    <3>1. h[i] < g[i] /\ \A j \in 1 .. N : j < i => h[j] = g[j]
      BY <1>0, <1>1, <2>1, <2>2, SMTT(20)
    <3> QED BY <1>2, <3>1
  <2>3. CASE i > inc
    <3>1. h[inc] < g[inc] /\ \A j \in 1 .. N : j < inc => h[j] = g[j]
      BY <1>0, <1>1, <2>1, <2>3, SMTT(20)
    <3> QED BY <1>1, <1>2, <3>1
  <2> QED BY <1>1, <2>2, <2>3, SMTT(20)
<1>5. ASSUME Before(h, g), h # f PROVE Before(h, f)
  <2>1. PICK i \in 1 .. N : h[i] < g[i] /\ \A j \in 1 .. N : j < i => h[j] = g[j]
    BY <1>2, <1>5
  <2>2. i <= inc
    BY <1>0, <1>1, <2>1, SMTT(20)
  <2>a. ASSUME NEW j \in 1 .. N, j < i PROVE h[j] = f[j]
    <3>1. j < inc /\ h[j] = g[j]
      BY <1>0, <1>1, <2>1, <2>2, <2>a, SMTT(20)
    <3> QED BY <1>1, <3>1
  <2>3. CASE i < inc \/ h[i] < f[i]
    <3>1. h[i] < f[i]
      BY <1>1, <2>1, <2>3
    <3> QED BY <1>2, <2>a, <3>1
  <2>4. CASE i = inc /\ ~(h[i] < f[i])
    <3>0. h[inc] = f[inc]
      <4>1. h[inc] < f[inc] + 1 /\ h[inc] \in Nat /\ f[inc] \in Nat
        BY <1>0, <1>1, <2>1, <2>4
      <4> QED BY <2>4, <4>1, SMTT(20)
    <3>1. \A j \in 1 .. N : j <= inc => h[j] = f[j]
      BY <1>0, <1>1, <2>a, <2>4, <3>0, SMTT(20)
    <3> DEFINE D == {j \in 1 .. N : h[j] # f[j]}
    <3>2. D \subseteq Nat /\ D # {}
      <4>1. \E j \in 1 .. N : h[j] # f[j]
        BY <1>0, <1>5, SMTT(20)
      <4>2. D # {}
        BY <4>1
      <4>3. D \subseteq 1 .. N /\ 1 .. N \subseteq Nat
        BY <1>0, SMTT(20)
      <4> QED BY <4>2, <4>3
    <3>3. PICK d \in D : \A j \in D : d <= j
      <4> HIDE DEF D
      <4> QED BY <3>2, Least
    <3>4. d \in 1 .. N /\ h[d] # f[d] /\ d > inc
      BY <1>1, <3>1, <3>3, SMTT(20)
    <3>5. h[d] < f[d]
      <4>1. f[d] = Len(p[d]) /\ h[d] \in 1 .. Len(p[d]) /\ Len(p[d]) \in Nat
        BY <1>0, <1>1, <3>4
      <4> QED BY <3>4, <4>1, SMTT(20)
    <3>6. \A j \in 1 .. N : j < d => h[j] = f[j]
      BY <3>3, <3>4, SMTT(20)
    <3> QED BY <1>2, <3>4, <3>5, <3>6
  <2> QED BY <1>1, <2>2, <2>3, <2>4, SMTT(20)
<1> QED BY <1>3, <1>4, <1>5 DEF g

\* All selections have been visited when no iterator can be advanced.
LEMMA LastSelection ==
  ASSUME NEW p \in Packs, NEW f \in SelectionsOf(p), More(p, f) = {},
         NEW h \in SelectionsOf(p)
  PROVE  Before(h, f) \/ h = f
<1> DEFINE N == Len(Physical)
           D == {j \in 1 .. N : h[j] # f[j]}
<1> SUFFICES ASSUME h # f PROVE Before(h, f)
  OBVIOUS
<1>0. /\ N \in Nat \ {0} /\ f \in [1 .. N -> Nat] /\ h \in [1 .. N -> Nat] /\ DOMAIN f = 1 .. N
      /\ \A i \in 1 .. N : h[i] \in 1 .. Len(p[i]) /\ f[i] \in 1 .. Len(p[i]) /\ Len(p[i]) \in Nat
  BY PacksType, SelectionType
<1>1. \A i \in 1 .. N : ~(f[i] < Len(p[i]))
  BY <1>0 DEF More
<1>2. D \subseteq Nat /\ D # {}
  BY <1>0, SMTT(20)
<1>3. PICK d \in D : \A j \in D : d <= j
  <2> HIDE DEF D
  <2> QED BY <1>2, Least
<1>4. d \in 1 .. N /\ h[d] < f[d]
  BY <1>0, <1>1, <1>3, SMTT(20)
<1>5. \A j \in 1 .. N : j < d => h[j] = f[j]
  BY <1>3, <1>4, SMTT(20)
<1> QED BY <1>4, <1>5 DEF Before

LEMMA FirstSelection ==
  ASSUME NEW p \in Packs, NEW f, f = [i \in DOMAIN Physical |-> 1]
  PROVE  f \in SelectionsOf(p) /\ \A h \in SelectionsOf(p) : ~Before(h, f)
<1> DEFINE N == Len(Physical)
<1>0. N \in Nat \ {0} /\ DOMAIN Physical = 1 .. N /\ \A i \in 1 .. N : Len(p[i]) \in Nat \ {0}
  BY PacksType
<1>1. f = [i \in 1 .. N |-> f[i]] /\ \A i \in 1 .. N : f[i] = 1 /\ f[i] \in 1 .. Len(p[i])
  BY <1>0, SMTT(20)
<1>2. f \in SelectionsOf(p)
  BY <1>1, IsSelection
<1>3. \A h \in SelectionsOf(p) : \A i \in 1 .. N : ~(h[i] < f[i])
  BY <1>0, <1>1, SelectionType, SMTT(20)
<1> QED BY <1>2, <1>3 DEF Before
-------------------------------------------------------------------------------
(* Types and guesses                                                         *)

ProblemInv == rules \in RuleTables /\ kb \in KnowledgeBases /\ packs \in Packs

InputInv ==
  /\ pc \in {"join", "input", "compute", "dedup", "done"}
  /\ run_it \in SelectionsOf(packs)
  /\ joined_results \in Seq(WellFormedStates)
  /\ next_input \in 1 .. Len(joined_results) + 1
  /\ pc = "join" => next_input = 1 /\ heap = <<>>
  /\ pc = "compute" => next_input <= Len(joined_results)
  /\ pc \in {"dedup", "done"} => next_input = Len(joined_results) + 1

\* The current guess is the one of the current step.
GuessInv ==
  /\ current_step \in Nat
  /\ current_guess # NULL =>
       \E S \in SUBSET GuessBits : current_guess = Guess(S) /\ jump_guess(current_step) = Guess(S)
  /\ pc # "compute" => current_guess = NULL

HeapInv ==
  /\ heap \in Seq(ProperStates)
  /\ pc \notin {"dedup", "done"} =>
       output_list = <<>> /\ freed = <<>> /\ first = 1 /\ mid = 1 /\ beg_remove = 2

TypeInv == ProblemInv /\ InputInv /\ GuessInv /\ HeapInv

LEMMA JoinAtOf == \A it : JoinAt(it) = JoinOf(packs, it)
BY DEF JoinAt, Combined, JoinOf, CombinedOf

LEMMA JoinOfType ==
  ASSUME NEW p \in Packs, NEW it \in SelectionsOf(p)
  PROVE  JoinOf(p, it) \in WellFormedStates \cup {NULL}
<1>0. Len(Physical) \in Nat \ {0} /\ Len(it) = Len(Physical)
  BY PacksType, SelectionType
<1>1. Len(Physical) \in 1 .. Len(Physical) /\ Len(it) = Len(Physical)
  BY ONLY <1>0
<1>2. CombinedOf(p, it) \in [1 .. Len(Physical) -> WellFormedStates \cup {NULL}]
  BY CombinedRec
<1> QED BY <1>1, <1>2 DEF JoinOf

LEMMA JoinMove ==
  ASSUME JoinStep
  PROVE  /\ joined_results' = IF JoinOf(packs, run_it) = NULL THEN joined_results
                              ELSE Append(joined_results, JoinOf(packs, run_it))
         /\ More(packs, run_it) = {} => pc' = "input" /\ run_it' = run_it
         /\ More(packs, run_it) # {} => pc' = pc /\ run_it' = Advanced(packs, run_it)
<1>1. JoinAt(run_it) = JoinOf(packs, run_it)
  BY JoinAtOf
<1>2. joined_results' = IF JoinAt(run_it) = NULL THEN joined_results
                        ELSE Append(joined_results, JoinAt(run_it))
  BY DEF JoinStep
<1>3. More(packs, run_it) = {} => pc' = "input" /\ run_it' = run_it
  BY DEF JoinStep, More
<1>4. More(packs, run_it) # {} => pc' = pc
  BY DEF JoinStep, More
<1>5. More(packs, run_it) # {} => run_it' = Advanced(packs, run_it)
  BY DEF JoinStep, More, Advanced, IncOf
<1> QED BY <1>1, <1>2, <1>3, <1>4, <1>5

\* The input of compute: the joined input, with the current guess if there is one.
CombinedInput ==
  IF current_guess = NULL THEN joined_results[next_input]
  ELSE Or(joined_results[next_input], current_guess)

LEMMA CombinedInputType ==
  ASSUME TypeInv, pc = "compute"
  PROVE  /\ next_input \in 1 .. Len(joined_results)
         /\ joined_results[next_input] \in WellFormedStates
         /\ WellFormed(CombinedInput) /\ CombinedInput \in ProperStates
<1>1. next_input \in 1 .. Len(joined_results) /\ joined_results \in Seq(WellFormedStates)
  BY SMTT(20) DEF TypeInv, InputInv
<1>2. joined_results[next_input] \in WellFormedStates
  BY <1>1, SMTT(20)
<1>3. WellFormed(joined_results[next_input])
  BY <1>2 DEF WellFormedStates
<1>4. WellFormed(CombinedInput)
  <2>1. CASE current_guess = NULL
    BY <1>3, <2>1 DEF CombinedInput
  <2>2. CASE current_guess # NULL
    <3>1. PICK S \in SUBSET GuessBits : current_guess = Guess(S)
      BY <2>2 DEF TypeInv, GuessInv
    <3>2. WellFormed(current_guess)
      BY <3>1, GuessState
    <3> QED BY <1>3, <2>2, <3>2, OrWellFormed DEF CombinedInput
  <2> QED BY <2>1, <2>2
<1> QED BY <1>1, <1>2, <1>4 DEF ProperStates, WellFormed

LEMMA InitType == Init => TypeInv
<1> SUFFICES ASSUME Init PROVE TypeInv
  OBVIOUS
<1>1. ProblemInv
  BY DEF Init, ProblemInv
<1>2. run_it \in SelectionsOf(packs)
  BY FirstSelection DEF Init
<1>3. joined_results \in Seq(WellFormedStates) /\ Len(joined_results) = 0 /\ next_input = 1
  BY SMTT(20) DEF Init
<1>4. InputInv
  BY <1>2, <1>3, SMTT(20) DEF Init, InputInv
<1>5. GuessInv
  BY DEF Init, GuessInv
<1>6. HeapInv
  BY SMTT(20) DEF Init, HeapInv
<1> QED BY <1>1, <1>4, <1>5, <1>6 DEF TypeInv

LEMMA TypeStep == TypeInv /\ [Next]_vars => TypeInv'
<1> SUFFICES ASSUME TypeInv, [Next]_vars PROVE TypeInv'
  OBVIOUS
<1>p. ProblemInv' /\ packs' = packs
  BY DEF TypeInv, ProblemInv, Next, vars, problem, JoinStep, process_input, compute,
         write_result, remove_duplication, resize
<1>0. packs \in Packs /\ run_it \in SelectionsOf(packs) /\ joined_results \in Seq(WellFormedStates)
  BY DEF TypeInv, ProblemInv, InputInv
<1>1. CASE JoinStep
  <2>1. JoinOf(packs, run_it) \in WellFormedStates \cup {NULL}
    BY <1>0, JoinOfType
  <2>2. joined_results' \in Seq(WellFormedStates)
    BY <1>0, <1>1, <2>1, JoinMove, SMTT(20)
  <2>3. run_it' \in SelectionsOf(packs) /\ pc' \in {"join", "input"}
    BY <1>0, <1>1, JoinMove, AdvancedType DEF JoinStep
  <2>4. InputInv'
    <3>1. next_input' = 1 /\ heap' = <<>>
      BY <1>1 DEF JoinStep, TypeInv, InputInv
    <3>2. Len(joined_results') \in Nat
      BY <2>2, SMTT(20)
    <3> QED BY <1>p, <2>2, <2>3, <3>1, <3>2, SMTT(20) DEF InputInv
  <2>5. GuessInv'
    BY <1>1, <2>3 DEF JoinStep, TypeInv, GuessInv, guess
  <2>6. HeapInv'
    BY <1>1, <2>3 DEF JoinStep, TypeInv, HeapInv, dedup
  <2> QED BY <1>p, <2>4, <2>5, <2>6 DEF TypeInv
<1>2. CASE process_input
  <2>1. InputInv'
    BY <1>2, <1>p DEF process_input, TypeInv, InputInv
  <2>2. GuessInv'
    <3>1. current_guess' = NULL \/ current_guess' = Guess({})
      BY <1>2, StartingGuess DEF process_input
    <3>2. {} \in SUBSET GuessBits /\ jump_guess(0) = Guess({})
      BY JumpZero
    <3>3. current_step' = 0 /\ pc' = "compute"
      BY <1>2 DEF process_input
    <3>4. current_guess' # NULL =>
            \E S \in SUBSET GuessBits : current_guess' = Guess(S) /\ jump_guess(current_step') = Guess(S)
      BY <3>1, <3>2, <3>3
    <3> QED BY <3>3, <3>4 DEF GuessInv
  <2>3. HeapInv'
    BY <1>2 DEF process_input, TypeInv, HeapInv, dedup
  <2> QED BY <1>p, <2>1, <2>2, <2>3 DEF TypeInv
<1>3. CASE compute
  <2> DEFINE next == IF current_guess = NULL THEN NULL ELSE next_guess(current_guess)
  <2>0. /\ pc = "compute" /\ heap' = heap \o read_all(CombinedInput) /\ current_guess' = next
        /\ next = NULL => pc' = "input" /\ next_input' = next_input + 1 /\ current_step' = 0
        /\ next # NULL => current_step' = current_step + 1 /\ pc' = pc /\ next_input' = next_input
        /\ UNCHANGED <<run_it, joined_results, output_list, dedup>>
    BY <1>3 DEF compute, CombinedInput
  <2>1. InputInv'
    <3>1. next_input \in 1 .. Len(joined_results) /\ Len(joined_results) \in Nat
      BY <1>0, <2>0, CombinedInputType, SMTT(20)
    <3>2. run_it' = run_it /\ joined_results' = joined_results
      BY <2>0
    <3>3. CASE next = NULL
      <4>1. pc' = "input" /\ next_input' = next_input + 1
        BY <2>0, <3>3
      <4> QED BY <1>p, <1>0, <3>1, <3>2, <4>1, SMTT(20) DEF InputInv
    <3>4. CASE next # NULL
      <4>1. pc' = "compute" /\ next_input' = next_input
        BY <2>0, <3>4
      <4> QED BY <1>p, <1>0, <3>1, <3>2, <4>1, SMTT(20) DEF InputInv
    <3> QED BY <3>3, <3>4
  <2>2. GuessInv'
    <3>1. CASE next = NULL
      BY <2>0, <3>1, SMTT(20) DEF GuessInv
    <3>2. CASE next # NULL
      <4>1. current_guess # NULL /\ next = next_guess(current_guess)
        BY <3>2
      <4>2. PICK S \in SUBSET GuessBits : current_guess = Guess(S) /\ jump_guess(current_step) = Guess(S)
        BY <4>1 DEF TypeInv, GuessInv
      <4>3. PICK bit : /\ IsNextBit(S, bit) /\ NextBits(S, bit) \in SUBSET GuessBits
                       /\ next = Guess(NextBits(S, bit))
        BY <3>2, <4>1, <4>2, NextGuess
      <4>4. current_step \in Nat /\ current_step' = current_step + 1 /\ pc' = "compute"
        BY <2>0, <3>2 DEF TypeInv, GuessInv
      <4>5. jump_guess(current_step') = Guess(NextBits(S, bit))
        BY <4>2, <4>3, <4>4, JumpNext
      <4>6. current_guess' = Guess(NextBits(S, bit)) /\ current_step' \in Nat
        BY <2>0, <4>3, <4>4, SMTT(20)
      <4>7. \E T \in SUBSET GuessBits : current_guess' = Guess(T) /\ jump_guess(current_step') = Guess(T)
        BY <4>3, <4>5, <4>6
      <4> QED BY <4>4, <4>6, <4>7 DEF GuessInv
    <3> QED BY <3>1, <3>2
  <2>3. HeapInv'
    <3>1. read_all(CombinedInput) \in Seq(ProperStates)
      BY <2>0, CombinedInputType, ReadAll DEF TypeInv, ProblemInv
    <3>2. heap' \in Seq(ProperStates)
      BY <2>0, <3>1, SMTT(20) DEF TypeInv, HeapInv
    <3>3. output_list' = <<>> /\ freed' = <<>> /\ first' = 1 /\ mid' = 1 /\ beg_remove' = 2
      BY <2>0 DEF TypeInv, HeapInv, dedup
    <3> QED BY <3>2, <3>3 DEF HeapInv
  <2> QED BY <1>p, <2>1, <2>2, <2>3 DEF TypeInv
<1>4. CASE write_result \/ remove_duplication \/ resize
  <2>1. /\ pc' \in {"dedup", "done"} /\ next_input = Len(joined_results) + 1
        /\ UNCHANGED <<run_it, joined_results, next_input, guess, heap>> /\ pc \in {"input", "dedup"}
    <3>1. CASE write_result
      BY <3>1, SMTT(20) DEF write_result, TypeInv, InputInv
    <3>2. CASE remove_duplication
      BY <3>2 DEF remove_duplication, TypeInv, InputInv
    <3>3. CASE resize
      BY <3>3 DEF resize, TypeInv, InputInv
    <3> QED BY <1>4, <3>1, <3>2, <3>3
  <2>2. InputInv'
    BY <1>p, <2>1 DEF TypeInv, InputInv
  <2>3. GuessInv'
    BY <2>1 DEF TypeInv, GuessInv, guess
  <2>4. HeapInv'
    BY <2>1 DEF TypeInv, HeapInv
  <2> QED BY <1>p, <2>2, <2>3, <2>4 DEF TypeInv
<1>5. CASE UNCHANGED vars
  <2>1. InputInv'
    BY <1>5 DEF vars, problem, TypeInv, InputInv
  <2>2. GuessInv'
    BY <1>5 DEF vars, guess, TypeInv, GuessInv
  <2>3. HeapInv'
    BY <1>5 DEF vars, dedup, TypeInv, HeapInv
  <2> QED BY <1>p, <2>1, <2>2, <2>3 DEF TypeInv
<1> QED BY <1>1, <1>2, <1>3, <1>4, <1>5 DEF Next
\* The n-th guess of next_guess is jump_guess(n), for any signature of the
\* guessing neighbors.
THEOREM ContextGuessOfStep == Spec => []GuessOfStep
<1>1. TypeInv => GuessOfStep
  BY DEF TypeInv, GuessInv, GuessOfStep
<1> QED BY <1>1, InitType, TypeStep, PTL DEF Spec
-------------------------------------------------------------------------------
(* The joined inputs                                                         *)

\* The selections that the join has looked at.
Visited == IF pc = "join" THEN {h \in SelectionsOf(packs) : Before(h, run_it)}
           ELSE SelectionsOf(packs)

JoinedInv == Range(joined_results) = {JoinOf(packs, h) : h \in Visited} \ {NULL}

LEMMA RangeAppend ==
  ASSUME NEW D, NEW s \in Seq(D), NEW x \in D
  PROVE  Range(Append(s, x)) = Range(s) \cup {x}
<1> DEFINE q == Append(s, x)
<1>1. /\ Len(s) \in Nat /\ DOMAIN s = 1 .. Len(s) /\ DOMAIN q = 1 .. Len(s) + 1
      /\ q[Len(s) + 1] = x /\ \A i \in 1 .. Len(s) : q[i] = s[i]
  BY SMTT(20)
<1>2. 1 .. Len(s) + 1 = (1 .. Len(s)) \cup {Len(s) + 1}
  BY <1>1, SMTT(20)
<1>3. DOMAIN q = DOMAIN s \cup {Len(s) + 1} /\ \A i \in DOMAIN s : q[i] = s[i]
  BY <1>1, <1>2
<1>4. Range(q) = {q[i] : i \in DOMAIN q} /\ Range(s) = {s[i] : i \in DOMAIN s}
  BY DEF Range
<1> HIDE DEF q
<1>5. \A y : y \in Range(q) <=> y \in Range(s) \/ y = x
  BY <1>1, <1>3, <1>4
<1> QED BY <1>5 DEF q

LEMMA JoinedStep == TypeInv /\ JoinedInv /\ [Next]_vars => JoinedInv'
<1> SUFFICES ASSUME TypeInv, JoinedInv, [Next]_vars PROVE JoinedInv'
  OBVIOUS
<1>0. packs \in Packs /\ run_it \in SelectionsOf(packs) /\ joined_results \in Seq(WellFormedStates)
  BY DEF TypeInv, ProblemInv, InputInv
<1>p. packs' = packs
  BY DEF Next, vars, problem, JoinStep, process_input, compute, write_result,
         remove_duplication, resize
<1>1. CASE JoinStep
  <2> DEFINE x == JoinOf(packs, run_it)
  <2>1. x \in WellFormedStates \cup {NULL}
    BY <1>0, JoinOfType
  <2>2. NULL \notin WellFormedStates
    BY NotNull DEF WellFormedStates
  <2>3. joined_results' = IF x = NULL THEN joined_results ELSE Append(joined_results, x)
    BY <1>1, JoinMove
  <2>4. Visited' = Visited \cup {run_it}
    <3>1. pc = "join"
      BY <1>1 DEF JoinStep
    <3>2. CASE More(packs, run_it) = {}
      <4>1. pc' = "input"
        BY <1>1, <3>2, JoinMove
      <4>2. \A h \in SelectionsOf(packs) : Before(h, run_it) \/ h = run_it
        BY <1>0, <3>2, LastSelection
      <4> QED BY <1>0, <1>p, <3>1, <4>1, <4>2 DEF Visited
    <3>3. CASE More(packs, run_it) # {}
      <4>1. pc' = "join" /\ run_it' = Advanced(packs, run_it)
        BY <1>1, <3>1, <3>3, JoinMove
      <4>2. \A h \in SelectionsOf(packs) : Before(h, run_it') <=> Before(h, run_it) \/ h = run_it
        BY <1>0, <3>3, <4>1, AdvancedOrder
      <4>3. Visited' = {h \in SelectionsOf(packs) : Before(h, run_it')}
        BY <1>p, <4>1 DEF Visited
      <4>4. Visited = {h \in SelectionsOf(packs) : Before(h, run_it)}
        BY <3>1 DEF Visited
      <4> QED BY <1>0, <4>2, <4>3, <4>4
    <3> QED BY <3>2, <3>3
  <2>5. {JoinOf(packs, h) : h \in Visited'} = {JoinOf(packs, h) : h \in Visited} \cup {x}
    BY <2>4
  <2>6. Range(joined_results') = IF x = NULL THEN Range(joined_results)
                                 ELSE Range(joined_results) \cup {x}
    <3>1. x # NULL => Range(Append(joined_results, x)) = Range(joined_results) \cup {x}
      <4> HIDE DEF x
      <4> QED BY <1>0, <2>1, RangeAppend, SMTT(20)
    <3> HIDE DEF x
    <3> QED BY <2>3, <3>1
  <2>7. Range(joined_results') = {JoinOf(packs, h) : h \in Visited'} \ {NULL}
    <3> HIDE DEF x
    <3> QED BY <2>5, <2>6 DEF JoinedInv
  <2> QED BY <1>p, <2>7 DEF JoinedInv
<1>2. CASE ~JoinStep
  <2>1. joined_results' = joined_results /\ run_it' = run_it /\ (pc' = "join" <=> pc = "join")
    BY <1>2 DEF Next, vars, process_input, compute, write_result, remove_duplication, resize
  <2>2. Visited' = Visited
    BY <1>p, <2>1 DEF Visited
  <2> QED BY <1>p, <2>1, <2>2 DEF JoinedInv
<1> QED BY <1>1, <1>2

LEMMA InitJoined == Init => JoinedInv
<1> SUFFICES ASSUME Init PROVE JoinedInv
  OBVIOUS
<1>1. pc = "join" /\ packs \in Packs /\ run_it = [i \in DOMAIN Physical |-> 1] /\ joined_results = <<>>
  BY DEF Init
<1>2. Visited = {}
  BY <1>1, FirstSelection DEF Visited
<1>3. Range(joined_results) = {}
  BY <1>1, SMTT(20) DEF Range
<1> QED BY <1>2, <1>3 DEF JoinedInv

\* The joins of the selections are the joins by definition.
LEMMA JoinsExact ==
  ASSUME packs \in Packs
  PROVE  {JoinOf(packs, h) : h \in SelectionsOf(packs)} \ {NULL} = Joins
<1> DEFINE N == Len(Physical)
           F == {f \in SelectionsOf(packs) : PairwiseAgree(packs, f, N)}
<1>0. N \in Nat \ {0} /\ DOMAIN packs = 1 .. N
  BY PacksType
<1>1. ASSUME NEW f \in SelectionsOf(packs)
      PROVE  JoinOf(packs, f) = IF PairwiseAgree(packs, f, N) THEN UnionTo(packs, f, N) ELSE NULL
  BY JoinOfExact
<1>2. \A f \in SelectionsOf(packs) : UnionTo(packs, f, N) # NULL
  <2>1. \A f \in SelectionsOf(packs) : WellFormed(UnionTo(packs, f, N))
    BY <1>0, UnionWellFormed, SMTT(20)
  <2> QED BY <2>1, NotNull DEF WellFormed
<1>3. Joins = {UnionTo(packs, f, N) : f \in F}
  <2>1. F = {f \in Selections : \A i, j \in DOMAIN packs : Agree(packs[i][f[i]], packs[j][f[j]])}
    <3>1. Selections = SelectionsOf(packs)
      BY DEF Selections, SelectionsOf
    <3>2. 1 .. N = DOMAIN packs
      BY <1>0
    <3> QED BY <3>1, <3>2 DEF PairwiseAgree
  <2>2. \A f \in F : DOMAIN f = 1 .. N
    BY SelectionType
  <2>3. Joins = {[status |-> UNION {Given(i, packs[i][it[i]]).status : i \in DOMAIN it},
                  value |-> UNION {Given(i, packs[i][it[i]]).value : i \in DOMAIN it}] : it \in F}
    BY <2>1 DEF Joins
  <2>4. \A f \in F : UnionTo(packs, f, N)
                       = [status |-> UNION {Given(i, packs[i][f[i]]).status : i \in DOMAIN f},
                          value |-> UNION {Given(i, packs[i][f[i]]).value : i \in DOMAIN f}]
    <3> SUFFICES ASSUME NEW f \in F
                 PROVE  UnionTo(packs, f, N)
                          = [status |-> UNION {Given(i, packs[i][f[i]]).status : i \in DOMAIN f},
                             value |-> UNION {Given(i, packs[i][f[i]]).value : i \in DOMAIN f}]
      OBVIOUS
    <3>1. DOMAIN f = 1 .. N
      BY <2>2
    <3> QED BY <3>1 DEF UnionTo
  <2> HIDE DEF F, N
  <2> QED BY <2>3, <2>4
<1> HIDE DEF N
<1> QED BY <1>1, <1>2, <1>3

LEMMA JoinedExact ==
  ASSUME TypeInv, JoinedInv
  PROVE  JoinExact
BY JoinsExact DEF TypeInv, ProblemInv, JoinedInv, Visited, JoinExact

\* The join enumerates all selections, and what it keeps are the unions of what
\* belief states that agree pairwise give, for any number of neighbors and any
\* packs: nothing is assumed on the beliefs that the neighbors use.
THEOREM ContextJoinExact == Spec => []JoinExact
<1>1. TypeInv /\ JoinedInv => JoinExact
  BY JoinedExact
<1>2. Init => TypeInv /\ JoinedInv
  BY InitType, InitJoined
<1>3. TypeInv /\ JoinedInv /\ [Next]_vars => TypeInv' /\ JoinedInv'
  BY TypeStep, JoinedStep
<1> QED BY <1>1, <1>2, <1>3, PTL DEF Spec
-------------------------------------------------------------------------------
(* The inputs that were evaluated                                            *)

\* The order in which next_guess enumerates: the highest bit in which two guesses
\* differ decides.
GuessLess(S, T) == \E b \in T \ S : \A o \in GuessBits : o > b => (o \in S <=> o \in T)

\* Two guesses differ in a highest bit.
LEMMA HighestBit ==
  ASSUME NEW S \in SUBSET GuessBits, NEW T \in SUBSET GuessBits, S # T
  PROVE  \E b \in (S \ T) \cup (T \ S) :
           \A o \in GuessBits : o > b => (o \in S <=> o \in T)
<1> DEFINE X == (S \ T) \cup (T \ S)
<1>1. X # {} /\ X \subseteq GuessBits
  OBVIOUS
<1>2. NoBits \in Nat /\ GuessBits \subseteq 0 .. NoBits /\ GuessBits \subseteq Nat
  BY Offsets, GuessBitsType
<1>3. PICK b \in X : \A o \in X : o <= b
  <2> HIDE DEF X
  <2> QED BY <1>1, <1>2, Greatest
<1>4. ASSUME NEW o \in GuessBits, o > b PROVE o \notin X
  <2> HIDE DEF X
  <2> QED BY <1>1, <1>2, <1>3, <1>4, SMTT(20)
<1>5. \A o \in GuessBits : o > b => (o \in S <=> o \in T)
  BY <1>4
<1> QED BY <1>3, <1>5

LEMMA GuessFirst == \A S : ~GuessLess(S, {})
BY DEF GuessLess

LEMMA GuessLast ==
  ASSUME NEW S \in SUBSET GuessBits
  PROVE  GuessLess(S, GuessBits) \/ S = GuessBits
<1> SUFFICES ASSUME S # GuessBits PROVE GuessLess(S, GuessBits)
  OBVIOUS
<1>1. PICK b \in (S \ GuessBits) \cup (GuessBits \ S) :
        \A o \in GuessBits : o > b => (o \in S <=> o \in GuessBits)
  BY HighestBit
<1> QED BY <1>1 DEF GuessLess

\* next_guess goes to the guess that follows in this order.
LEMMA GuessNext ==
  ASSUME NEW S \in SUBSET GuessBits, NEW bit, IsNextBit(S, bit), NEW U \in SUBSET GuessBits
  PROVE  GuessLess(U, NextBits(S, bit)) <=> GuessLess(U, S) \/ U = S
<1> DEFINE T == NextBits(S, bit)
<1>0. GuessBits \subseteq Nat /\ bit \in GuessBits /\ bit \notin S
  BY GuessBitsType DEF IsNextBit
<1>1. /\ bit \in T /\ \A o \in GuessBits : o < bit => o \in S /\ o \notin T
      /\ \A o \in GuessBits : o > bit => (o \in S <=> o \in T)
      /\ T \subseteq GuessBits
  <2>1. \A o : o \in T <=> (o \in S \/ o = bit) /\ ~(o \in GuessBits /\ o < bit)
    BY DEF NextBits
  <2>2. bit \in Nat /\ \A o \in GuessBits : o \in Nat
    BY <1>0
  <2>3. \A o \in GuessBits : o < bit => o \in S
    BY DEF IsNextBit
  <2> HIDE DEF T
  <2>4. bit \in T /\ T \subseteq GuessBits
    <3>1. ~(bit < bit)
      BY <2>2, SMTT(20)
    <3> QED BY <1>0, <2>1, <3>1
  <2>5. \A o \in GuessBits : o < bit => o \in S /\ o \notin T
    BY <2>1, <2>3
  <2>6. \A o \in GuessBits : o > bit => (o \in S <=> o \in T)
    BY <2>1, <2>2, SMTT(20)
  <2> QED BY <2>4, <2>5, <2>6
<1> HIDE DEF T
<1>2. ASSUME U = S PROVE GuessLess(U, T)
  BY <1>0, <1>1, <1>2 DEF GuessLess
<1>3. ASSUME GuessLess(U, S) PROVE GuessLess(U, T)
  <2>1. PICK b \in S \ U : \A o \in GuessBits : o > b => (o \in U <=> o \in S)
    BY <1>3 DEF GuessLess
  <2>2. b \in GuessBits /\ b \in Nat /\ bit \in Nat /\ b # bit
    BY <1>0
  <2>3. CASE b > bit
    <3>1. b \in T \ U
      BY <1>1, <2>1, <2>2, <2>3
    <3>2. \A o \in GuessBits : o > b => o > bit
      BY <1>0, <2>2, <2>3, SMTT(20)
    <3> QED BY <1>1, <2>1, <3>1, <3>2 DEF GuessLess
  <2>4. CASE b < bit
    <3>1. bit \in T \ U
      BY <1>0, <1>1, <2>1, <2>4
    <3>2. \A o \in GuessBits : o > bit => o > b
      BY <1>0, <2>2, <2>4, SMTT(20)
    <3> QED BY <1>1, <2>1, <3>1, <3>2 DEF GuessLess
  <2> QED BY <2>2, <2>3, <2>4, SMTT(20)
<1>4. ASSUME GuessLess(U, T), U # S PROVE GuessLess(U, S)
  <2>1. PICK b \in T \ U : \A o \in GuessBits : o > b => (o \in U <=> o \in T)
    BY <1>4 DEF GuessLess
  <2>2. b \in GuessBits /\ b \in Nat /\ bit \in Nat /\ ~(b < bit)
    BY <1>0, <1>1, <2>1
  <2>3. CASE b > bit
    <3>1. b \in S \ U
      BY <1>1, <2>1, <2>2, <2>3
    <3>2. \A o \in GuessBits : o > b => o > bit
      BY <1>0, <2>2, <2>3, SMTT(20)
    <3> QED BY <1>1, <2>1, <3>1, <3>2 DEF GuessLess
  <2>4. CASE b = bit
    <3>1. PICK d \in (U \ S) \cup (S \ U) : \A o \in GuessBits : o > d => (o \in U <=> o \in S)
      BY <1>4, HighestBit
    <3>2. d \in GuessBits /\ d \in Nat
      BY <1>0, <3>1
    <3>3. ~(d > bit) /\ d # bit
      BY <1>0, <1>1, <2>1, <2>4, <3>1, <3>2
    <3>4. d \in S
      BY <1>1, <2>2, <3>2, <3>3, SMTT(20)
    <3> QED BY <3>1, <3>4 DEF GuessLess
  <2> QED BY <2>2, <2>3, <2>4, SMTT(20)
<1> QED BY <1>2, <1>3, <1>4 DEF T

\* The inputs that are evaluated for a joined one, and those for which this was
\* done before the current guess.
Inputs(j) == IF must_guess(j) THEN {Or(j, Guess(S)) : S \in SUBSET GuessBits} ELSE {j}

Tried(j, g) ==
  {Or(j, Guess(S)) : S \in {U \in SUBSET GuessBits :
     \E T \in SUBSET GuessBits : g = Guess(T) /\ GuessLess(U, T)}}

Computed(joined, next, g) ==
  (UNION {Inputs(joined[k]) : k \in 1 .. next - 1})
    \cup (IF g = NULL THEN {} ELSE Tried(joined[next], g))

SentFor(table, base, ins) == UNION {SentOf(table, base, i) : i \in ins}

\* The heap has what was sent for these inputs.
AnswerInv ==
  /\ Range(heap) = SentFor(rules, kb, Computed(joined_results, next_input, current_guess))
  /\ pc = "compute" =>
       (current_guess # NULL <=> must_guess(joined_results[next_input]))

LEMMA TriedFirst == \A j : Tried(j, Guess({})) = {}
<1> SUFFICES ASSUME NEW j, NEW U \in SUBSET GuessBits, NEW T \in SUBSET GuessBits,
                    Guess({}) = Guess(T), GuessLess(U, T)
             PROVE  FALSE
  BY DEF Tried
<1>1. T = {}
  <2>1. {} \in SUBSET GuessBits
    OBVIOUS
  <2> QED BY <2>1, GuessState
<1> QED BY <1>1, GuessFirst

\* What was tried before the guess with the bits T.
LEMMA TriedBefore ==
  ASSUME NEW j, NEW T \in SUBSET GuessBits
  PROVE  Tried(j, Guess(T)) = {Or(j, Guess(S)) : S \in {U \in SUBSET GuessBits : GuessLess(U, T)}}
<1>1. \A U \in SUBSET GuessBits :
        (\E V \in SUBSET GuessBits : Guess(T) = Guess(V) /\ GuessLess(U, V)) <=> GuessLess(U, T)
  <2>1. \A V \in SUBSET GuessBits : Guess(T) = Guess(V) => T = V
    BY GuessState
  <2> TAKE U \in SUBSET GuessBits
  <2>2. GuessLess(U, T) => \E V \in SUBSET GuessBits : Guess(T) = Guess(V) /\ GuessLess(U, V)
    OBVIOUS
  <2>3. ASSUME NEW V \in SUBSET GuessBits, Guess(T) = Guess(V), GuessLess(U, V)
        PROVE  GuessLess(U, T)
    <3>1. T = V
      BY <2>1, <2>3
    <3> QED BY <2>3, <3>1
  <2> QED BY <2>2, <2>3
<1> DEFINE A == {U \in SUBSET GuessBits :
                  \E V \in SUBSET GuessBits : Guess(T) = Guess(V) /\ GuessLess(U, V)}
           B == {U \in SUBSET GuessBits : GuessLess(U, T)}
           g(V) == Or(j, Guess(V))
<1>2. A = B
  BY <1>1
<1>3. Tried(j, Guess(T)) = {g(V) : V \in A}
  BY DEF Tried
<1> HIDE DEF A, g
<1> QED BY <1>2, <1>3 DEF g

LEMMA TriedNext ==
  ASSUME NEW j, NEW S \in SUBSET GuessBits, NEW bit, IsNextBit(S, bit),
         NextBits(S, bit) \in SUBSET GuessBits
  PROVE  Tried(j, Guess(NextBits(S, bit))) = Tried(j, Guess(S)) \cup {Or(j, Guess(S))}
<1> DEFINE T == NextBits(S, bit)
           A(V) == {U \in SUBSET GuessBits : GuessLess(U, V)}
           g(V) == Or(j, Guess(V))
<1>1. A(T) = A(S) \cup {S}
  <2>1. \A U \in SUBSET GuessBits : GuessLess(U, T) <=> GuessLess(U, S) \/ U = S
    BY GuessNext
  <2> HIDE DEF T
  <2> QED BY <2>1
<1>2. Tried(j, Guess(T)) = {g(V) : V \in A(T)} /\ Tried(j, Guess(S)) = {g(V) : V \in A(S)}
  <2>1. \A V \in SUBSET GuessBits : Tried(j, Guess(V)) = {g(U) : U \in A(V)}
    BY TriedBefore
  <2> HIDE DEF A, g
  <2> QED BY <2>1
<1> HIDE DEF A, g, T
<1>3. {g(V) : V \in A(T)} = {g(V) : V \in A(S)} \cup {g(S)}
  BY <1>1
<1> QED BY <1>2, <1>3 DEF g, T

LEMMA TriedAll ==
  ASSUME NEW j, must_guess(j)
  PROVE  Inputs(j) = Tried(j, Guess(GuessBits)) \cup {Or(j, Guess(GuessBits))}
<1> DEFINE A == {U \in SUBSET GuessBits : GuessLess(U, GuessBits)}
           g(V) == Or(j, Guess(V))
<1>1. SUBSET GuessBits = A \cup {GuessBits}
  BY GuessLast
<1>2. /\ Tried(j, Guess(GuessBits)) = {g(V) : V \in A}
      /\ Inputs(j) = {g(V) : V \in SUBSET GuessBits}
  BY TriedBefore DEF Inputs
<1> HIDE DEF A, g
<1>3. {g(V) : V \in SUBSET GuessBits} = {g(V) : V \in A} \cup {g(GuessBits)}
  BY <1>1
<1> QED BY <1>2, <1>3 DEF g

LEMMA ComputedNext ==
  ASSUME NEW joined, NEW next \in Nat \ {0}
  PROVE  Computed(joined, next + 1, NULL) = Computed(joined, next, NULL) \cup Inputs(joined[next])
<1> DEFINE D == 1 .. next - 1
           E == 1 .. (next + 1) - 1
<1>1. E = D \cup {next}
  BY SMTT(20)
<1>2. /\ Computed(joined, next + 1, NULL) = UNION {Inputs(joined[k]) : k \in E}
      /\ Computed(joined, next, NULL) = UNION {Inputs(joined[k]) : k \in D}
  BY DEF Computed
<1> HIDE DEF D, E
<1>3. \A x : /\ x \in UNION {Inputs(joined[k]) : k \in E} <=> \E k \in E : x \in Inputs(joined[k])
             /\ x \in UNION {Inputs(joined[k]) : k \in D} <=> \E k \in D : x \in Inputs(joined[k])
  OBVIOUS
<1>4. \A x : (\E k \in E : x \in Inputs(joined[k]))
               <=> (\E k \in D : x \in Inputs(joined[k])) \/ x \in Inputs(joined[next])
  BY <1>1
<1>5. \A x : x \in Computed(joined, next + 1, NULL)
               <=> x \in Computed(joined, next, NULL) \/ x \in Inputs(joined[next])
  BY <1>2, <1>3, <1>4
<1> QED BY <1>5

LEMMA ComputedGuess ==
  ASSUME NEW joined, NEW next, NEW g, g # NULL
  PROVE  Computed(joined, next, g) = Computed(joined, next, NULL) \cup Tried(joined[next], g)
<1> DEFINE U == UNION {Inputs(joined[k]) : k \in 1 .. next - 1}
<1>1. Computed(joined, next, g) = U \cup Tried(joined[next], g) /\ Computed(joined, next, NULL) = U
  <2>1. \A h : Computed(joined, next, h) = U \cup (IF h = NULL THEN {} ELSE Tried(joined[next], h))
    BY DEF Computed
  <2> HIDE DEF U
  <2> QED BY <2>1
<1> QED BY <1>1

LEMMA SentForOne ==
  ASSUME NEW table, NEW base, NEW ins, NEW i
  PROVE  SentFor(table, base, ins \cup {i}) = SentFor(table, base, ins) \cup SentOf(table, base, i)
<1>1. \A I : \A x : x \in SentFor(table, base, I) <=> \E k \in I : x \in SentOf(table, base, k)
  BY DEF SentFor
<1>2. \A x : (\E k \in ins \cup {i} : x \in SentOf(table, base, k))
               <=> (\E k \in ins : x \in SentOf(table, base, k)) \/ x \in SentOf(table, base, i)
  OBVIOUS
<1>3. \A x : x \in SentFor(table, base, ins \cup {i})
               <=> x \in SentFor(table, base, ins) \/ x \in SentOf(table, base, i)
  BY <1>1, <1>2
<1> QED BY <1>3

LEMMA AnswerCompute == TypeInv /\ AnswerInv /\ compute => AnswerInv'
<1> SUFFICES ASSUME TypeInv, AnswerInv, compute PROVE AnswerInv'
  OBVIOUS
<1> DEFINE j == joined_results[next_input]
           g == current_guess
           next == IF g = NULL THEN NULL ELSE next_guess(g)
           done(x) == Computed(joined_results, next_input, x)
<1>0. /\ pc = "compute" /\ heap' = heap \o read_all(CombinedInput) /\ current_guess' = next
      /\ next = NULL => pc' = "input" /\ next_input' = next_input + 1
      /\ next # NULL => pc' = "compute" /\ next_input' = next_input
      /\ rules' = rules /\ kb' = kb /\ joined_results' = joined_results
  BY DEF compute, CombinedInput, problem
<1>1. next_input \in Nat \ {0} /\ CombinedInput \in ProperStates
  <2>1. next_input \in 1 .. Len(joined_results) /\ CombinedInput \in ProperStates
    BY <1>0, CombinedInputType
  <2> QED BY <2>1, SMTT(20)
<1>2. Range(heap') = SentFor(rules, kb, done(g)) \cup SentOf(rules, kb, CombinedInput)
  <2>1. heap \in Seq(ProperStates) /\ rules \in RuleTables /\ kb \in KnowledgeBases
    BY DEF TypeInv, ProblemInv, HeapInv
  <2>2. /\ read_all(CombinedInput) \in Seq(ProperStates)
        /\ Range(read_all(CombinedInput)) = SentOf(rules, kb, CombinedInput)
    BY <1>1, <2>1, ReadAll
  <2>3. Range(heap') = Range(heap) \cup Range(read_all(CombinedInput))
    BY <1>0, <2>1, <2>2, RangeConcat, SMTT(20)
  <2> QED BY <2>2, <2>3 DEF AnswerInv
<1>3. SentFor(rules, kb, done(g) \cup {CombinedInput}) = Range(heap')
  BY <1>2, SentForOne
<1>4. g # NULL <=> must_guess(j)
  BY <1>0 DEF AnswerInv
<1> HIDE DEF next
<1>5. CASE g = NULL
  <2>1. next = NULL /\ CombinedInput = j /\ Inputs(j) = {j}
    BY <1>4, <1>5 DEF next, CombinedInput, Inputs
  <2>2. Computed(joined_results, next_input + 1, NULL) = done(g) \cup {CombinedInput}
    BY <1>1, <1>5, <2>1, ComputedNext
  <2> QED BY <1>0, <1>3, <2>1, <2>2 DEF AnswerInv
<1>6. CASE g # NULL
  <2>1. PICK S \in SUBSET GuessBits : g = Guess(S)
    BY <1>6 DEF TypeInv, GuessInv
  <2>2. next = next_guess(Guess(S)) /\ CombinedInput = Or(j, Guess(S))
    BY <1>6, <2>1 DEF next, CombinedInput
  <2>3. done(g) = done(NULL) \cup Tried(j, Guess(S))
    BY <1>6, <2>1, ComputedGuess
  <2>4. CASE S = GuessBits
    <3>1. next = NULL
      BY <2>2, <2>4, NextGuess
    <3>2. Inputs(j) = Tried(j, Guess(S)) \cup {CombinedInput}
      BY <1>4, <1>6, <2>2, <2>4, TriedAll
    <3>3. Computed(joined_results, next_input + 1, NULL) = done(NULL) \cup Inputs(j)
      BY <1>1, ComputedNext
    <3>4. Computed(joined_results, next_input + 1, NULL) = done(g) \cup {CombinedInput}
      <4> HIDE DEF done, j, g
      <4> QED BY <2>3, <3>2, <3>3
    <3> QED BY <1>0, <1>3, <3>1, <3>4 DEF AnswerInv
  <2>5. CASE S # GuessBits
    <3>1. PICK bit : /\ IsNextBit(S, bit) /\ NextBits(S, bit) \in SUBSET GuessBits
                     /\ next = Guess(NextBits(S, bit))
      BY <2>2, <2>5, NextGuess
    <3>2. next # NULL
      BY <3>1, GuessState
    <3>3. Tried(j, next) = Tried(j, Guess(S)) \cup {CombinedInput}
      BY <2>2, <3>1, TriedNext
    <3>4. done(next) = done(NULL) \cup Tried(j, next)
      BY <3>2, ComputedGuess
    <3>5. done(next) = done(g) \cup {CombinedInput}
      <4> HIDE DEF done, j, g
      <4> QED BY <2>3, <3>3, <3>4
    <3> QED BY <1>0, <1>3, <1>4, <1>6, <3>2, <3>5 DEF AnswerInv
  <2> QED BY <2>4, <2>5
<1> QED BY <1>5, <1>6

LEMMA ComputedNone == \A joined : Computed(joined, 1, NULL) = {}
<1> SUFFICES ASSUME NEW joined, NEW x \in Computed(joined, 1, NULL) PROVE FALSE
  OBVIOUS
<1>1. 1 .. 1 - 1 = {}
  BY SMTT(20)
<1> QED BY <1>1 DEF Computed

LEMMA AnswerStep == TypeInv /\ AnswerInv /\ [Next]_vars => AnswerInv'
<1> SUFFICES ASSUME TypeInv, AnswerInv, [Next]_vars PROVE AnswerInv'
  OBVIOUS
<1>1. CASE JoinStep
  <2>1. /\ pc = "join" /\ next_input = 1 /\ next_input' = 1 /\ rules' = rules /\ kb' = kb
        /\ heap' = heap /\ current_guess = NULL /\ current_guess' = NULL
    BY <1>1 DEF JoinStep, TypeInv, InputInv, GuessInv, problem, guess
  <2>2. pc' # "compute"
    BY <1>1 DEF JoinStep
  <2>3. /\ Computed(joined_results, next_input, current_guess) = {}
        /\ Computed(joined_results', next_input', current_guess') = {}
    BY <2>1, ComputedNone
  <2> QED BY <2>1, <2>2, <2>3 DEF AnswerInv
<1>2. CASE process_input
  <2> DEFINE j == joined_results[next_input]
  <2>1. /\ pc = "input" /\ pc' = "compute" /\ current_guess' = IF must_guess(j) THEN Guess({}) ELSE NULL
        /\ joined_results' = joined_results /\ next_input' = next_input /\ heap' = heap
        /\ rules' = rules /\ kb' = kb
    BY <1>2, StartingGuess DEF process_input, problem
  <2>2. current_guess = NULL /\ Guess({}) # NULL
    <3>1. {} \in SUBSET GuessBits
      OBVIOUS
    <3> QED BY <2>1, <3>1, GuessState DEF TypeInv, GuessInv
  <2>3. Computed(joined_results, next_input, Guess({})) = Computed(joined_results, next_input, NULL)
    BY <2>2, TriedFirst, ComputedGuess, SMTT(20)
  <2>4. Computed(joined_results, next_input, current_guess')
          = Computed(joined_results, next_input, current_guess)
    BY <2>1, <2>2, <2>3
  <2> QED BY <2>1, <2>2, <2>4 DEF AnswerInv
<1>3. CASE compute
  BY <1>3, AnswerCompute
<1>4. CASE write_result \/ remove_duplication \/ resize
  <2>1. /\ pc' # "compute" /\ rules' = rules /\ kb' = kb /\ heap' = heap
        /\ UNCHANGED <<joined_results, next_input, current_guess>>
    <3>1. CASE write_result
      BY <3>1 DEF write_result, problem, guess
    <3>2. CASE remove_duplication
      BY <3>2 DEF remove_duplication, problem, guess
    <3>3. CASE resize
      BY <3>3 DEF resize, problem, guess
    <3> QED BY <1>4, <3>1, <3>2, <3>3
  <2> QED BY <2>1 DEF AnswerInv
<1>5. CASE UNCHANGED vars
  <2>1. /\ pc' = pc /\ rules' = rules /\ kb' = kb /\ heap' = heap
        /\ UNCHANGED <<joined_results, next_input, current_guess>>
    BY <1>5 DEF vars, problem, guess
  <2> QED BY <2>1 DEF AnswerInv
<1> QED BY <1>1, <1>2, <1>3, <1>4, <1>5 DEF Next

LEMMA InitAnswer == Init => AnswerInv
<1> SUFFICES ASSUME Init PROVE AnswerInv
  OBVIOUS
<1>1. pc = "join" /\ heap = <<>> /\ next_input = 1 /\ current_guess = NULL
  BY DEF Init
<1>2. Computed(joined_results, next_input, current_guess) = {} /\ Range(heap) = {}
  BY <1>1, ComputedNone, SMTT(20) DEF Range
<1> QED BY <1>1, <1>2 DEF AnswerInv, SentFor
===============================================================================
