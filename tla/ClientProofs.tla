------------------------------ MODULE ClientProofs ------------------------------
(***************************************************************************)
(* The rounds of the client for every enumeration and every range: the     *)
(* counters never wrap around, the client only stops at a fixed point or   *)
(* with all that it was asked for, and asks for at most one too many.      *)
(***************************************************************************)
EXTENDS Client, FiniteSetTheorems, FunctionTheorems, TLAPS

\* Cardinalities of sets of models.
LEMMA CardType ==
  ASSUME NEW S \in SUBSET Models
  PROVE  IsFiniteSet(S) /\ Cardinality(S) \in Nat
BY ModelsAssumption, FS_Subset, FS_CardinalityType

LEMMA CardMono ==
  ASSUME NEW T \in SUBSET Models, NEW S \in SUBSET T
  PROVE  /\ Cardinality(S) <= Cardinality(T)
         /\ Cardinality(S) = Cardinality(T) => S = T
<1>1. IsFiniteSet(T)
  BY CardType
<1> QED BY <1>1, FS_Subset

LEMMA CardUnion ==
  ASSUME NEW S \in SUBSET Models, NEW T \in SUBSET Models
  PROVE  Cardinality(S \cup T) <= Cardinality(S) + Cardinality(T)
<1>1. IsFiniteSet(S) /\ IsFiniteSet(T) /\ S \cap T \in SUBSET Models
  BY CardType
<1>2. Cardinality(S) \in Nat /\ Cardinality(T) \in Nat /\ Cardinality(S \cap T) \in Nat
  BY <1>1, CardType
<1>3. Cardinality(S \cup T) =
        Cardinality(S) + Cardinality(T) - Cardinality(S \cap T)
  BY <1>1, FS_Union
<1> QED BY <1>2, <1>3

\* An enumeration is a sequence of models.
LEMMA EnumerationType ==
  ASSUME enumeration \in Enumerations
  PROVE  /\ Len(enumeration) \in Nat
         /\ \A i \in 1 .. Len(enumeration) : enumeration[i] \in Models
<1>1. PICK n \in 0 .. MaxModels : enumeration \in [1 .. n -> Models]
  BY EnumerationsAssumption
<1>2. n \in Nat
  BY ClientBoundsAssumption
<1>3. enumeration \in Seq(Models) /\ Len(enumeration) = n
  BY <1>1, <1>2
<1> QED BY <1>1, <1>2, <1>3

\* A pack holds models, and not more of them than were asked for.
LEMMA PackSize ==
  ASSUME enumeration \in Enumerations, NEW m \in Messages,
         m.size > 0 => m.start > 0
  PROVE  /\ Pack(m) \in SUBSET Models
         /\ m.size > 0 => Cardinality(Pack(m)) <= m.size
<1>1. Len(enumeration) \in Nat /\ m.start \in Nat /\ m.size \in Nat
  BY EnumerationType DEF Messages
<1>2. CASE m.size = 0
  BY <1>1, <1>2, EnumerationType DEF Pack
<1>3. CASE m.size > 0
  <2> DEFINE b == Min2(Len(enumeration), m.start + m.size - 1)
             D == m.start .. b
             P == {enumeration[i] : i \in D}
             g == [i \in D |-> enumeration[i]]
  <2>1. b \in Int /\ b <= Len(enumeration) /\ b <= m.start + m.size - 1
    BY <1>1 DEF Min2
  <2>2. Pack(m) = P
    BY <1>1, <1>3 DEF Pack, D
  <2>3. P \in SUBSET Models
    BY <1>1, <1>3, <2>1, EnumerationType
  <2> HIDE DEF b, D
  <2>4. g \in Surjection(D, P)
    <3>1. g \in [D -> P]
      OBVIOUS
    <3>2. ASSUME NEW t \in P PROVE \E i \in D : g[i] = t
      OBVIOUS
    <3> HIDE DEF g, P
    <3> QED BY <3>1, <3>2 DEF Surjection
  <2>5. IsFiniteSet(D) /\ Cardinality(D) = IF m.start > b THEN 0 ELSE b - m.start + 1
    <3>1. m.start \in Int
      BY <1>1
    <3> QED BY <3>1, <2>1, FS_Interval, Zenon DEF D
  <2>6. Cardinality(D) <= m.size
    BY <1>1, <1>3, <2>1, <2>5
  <2> HIDE DEF P, g
  <2>7. Cardinality(P) <= Cardinality(D)
    BY <2>4, <2>5, FS_Surjection
  <2>8. Cardinality(P) \in Nat /\ Cardinality(D) \in Nat
    BY <2>3, <2>5, CardType, FS_CardinalityType
  <2> QED BY <1>1, <2>2, <2>3, <2>6, <2>7, <2>8
<1> QED BY <1>1, <1>2, <1>3
-------------------------------------------------------------------------------
Options ==
  /\ enumeration \in Enumerations
  /\ range \in (0 .. MaxK) \X (0 .. MaxK)
  /\ loop \in BOOLEAN

\* What diff_count is compared with: as long as rounds follow, it is at most the
\* number of models known when the last round ended.
Counted ==
  /\ known \subseteq final_result
  /\ diff_count <= Cardinality(final_result)
  /\ pc # "broken_off" /\ ~last_round => diff_count <= Cardinality(known)

\* What is still asked for.
Asked ==
  /\ pc = "start" => final_result = {} /\ pack_size = 0 /\ mess.size = 0
  /\ mess.size > 0 => mess.start > 0
  /\ pack_size > 0 /\ pc \in {"connecting", "waiting"} =>
       mess.size > 0 /\ Cardinality(final_result) + mess.size <= pack_size + 1

\* The inductive invariant.
ClientInv ==
  TypeOK /\ Options /\ Counted /\ Asked /\ OneTooManyAtMost /\ StopsAtFixedPoint

\* A message that is set up.
LEMMA MessageType ==
  ASSUME NEW s \in Nat, NEW z \in Nat
  PROVE  /\ Message(s, z) \in Messages /\ Message(s, z).size = z
         /\ s > 0 => Message(s, z).start > 0
<1>1. PastEnd \in Nat /\ PastEnd > 0
  BY ClientBoundsAssumption DEF PastEnd
<1>2. Min2(s, PastEnd) \in 0 .. PastEnd /\ (s > 0 => Min2(s, PastEnd) > 0)
  BY <1>1 DEF Min2
<1> QED BY <1>2 DEF Message, Messages

LEMMA ClientInit == Init => ClientInv
<1> SUFFICES ASSUME Init PROVE ClientInv
  OBVIOUS
<1>1. Cardinality({}) = 0
  BY FS_EmptySet
<1>2. range \in (0 .. MaxK) \X (0 .. MaxK) /\ range[2] \in 0 .. MaxK
  BY DEF Init
<1>3. MaxModels \in Nat /\ MaxK \in Nat /\ MaxEndpoints \in Nat
  BY ClientBoundsAssumption
<1>m. mess \in Messages /\ mess.size = 0
  BY MessageType DEF Init
<1>4. TypeOK
  <2>1. k2 \in 0 .. PastEnd /\ endpoints \in 0 .. MaxEndpoints
    BY <1>2, <1>3 DEF Init, PastEnd
  <2>2. last_round \in BOOLEAN
    BY DEF Init
  <2> QED BY <1>m, <2>1, <2>2 DEF Init, TypeOK
<1>5. Options
  BY DEF Init, Options
<1>6. Counted /\ Asked /\ OneTooManyAtMost /\ StopsAtFixedPoint
  BY <1>1, <1>m DEF Init, Counted, Asked, OneTooManyAtMost, StopsAtFixedPoint
<1> QED BY <1>4, <1>5, <1>6 DEF ClientInv

\* Steps that only change where the client is, to a place it leaves nothing for.
LEMMA ClientMoves ==
  ASSUME ClientInv, pc # "broken_off",
         UNCHANGED <<options, k2, pack_size, mess, final_result, diff_count,
                     last_round, known>>,
         endpoints' \in 0 .. MaxEndpoints,
         pc' \in {"rejected", "failed", "run_over", "interrupted"}
  PROVE  ClientInv'
BY DEF ClientInv, TypeOK, Options, Counted, Asked, OneTooManyAtMost,
       StopsAtFixedPoint, options, PastEnd, Messages
LEMMA ClientBegin == ClientInv /\ Begin => ClientInv'
<1> SUFFICES ASSUME ClientInv, Begin PROVE ClientInv'
  OBVIOUS
<1>1. /\ range[1] \in Nat /\ range[2] \in Nat /\ range[1] <= range[2]
  BY ClientBoundsAssumption DEF ClientInv, Options, Begin, InvalidRange
<1>2. RangeSize \in Nat /\ (RangeSize > 0 => range[1] > 0)
  BY <1>1 DEF RangeSize
<1>3. /\ mess' \in Messages /\ mess'.size = pack_size'
      /\ (mess'.size > 0 => mess'.start > 0) /\ pack_size' \in Nat
  BY <1>1, <1>2, MessageType DEF Begin
<1>4. final_result = {} /\ Cardinality({}) = 0
  BY FS_EmptySet DEF ClientInv, Asked, Begin
<1>5. /\ pc = "start" /\ pc' = "connecting"
      /\ UNCHANGED <<options, k2, endpoints, final_result, diff_count, last_round, known>>
  BY DEF Begin
<1>6. TypeOK' /\ Options' /\ Counted'
  BY <1>3, <1>5 DEF ClientInv, TypeOK, Options, Counted, options, PastEnd, Messages
<1>7. Asked' /\ OneTooManyAtMost' /\ StopsAtFixedPoint'
  BY <1>3, <1>4, <1>5 DEF Asked, OneTooManyAtMost, StopsAtFixedPoint
<1> QED BY <1>6, <1>7 DEF ClientInv

LEMMA ClientConnect == ClientInv /\ Connect => ClientInv'
<1> SUFFICES ASSUME ClientInv, Connect PROVE ClientInv'
  OBVIOUS
<1>1. endpoints' \in 0 .. MaxEndpoints
  BY ClientBoundsAssumption DEF ClientInv, TypeOK, Connect
<1>2. /\ pc = "connecting" /\ pc' \in {"waiting", "failed", "connecting"}
      /\ UNCHANGED <<options, k2, pack_size, mess, final_result, diff_count,
                     last_round, known>>
  BY DEF Connect
<1> QED BY <1>1, <1>2 DEF ClientInv, TypeOK, Options, Counted, Asked, OneTooManyAtMost,
                          StopsAtFixedPoint, options, PastEnd, Messages

\* A pack brings no more than was asked for, and the next one asks for the rest.
LEMMA ClientReadAnswer == ClientInv /\ ReadAnswer => ClientInv'
<1> SUFFICES ASSUME ClientInv, ReadAnswer PROVE ClientInv'
  OBVIOUS
<1> DEFINE r == Pack(mess)
           n == Cardinality(r)
<1>1. /\ mess \in Messages /\ mess.start \in Nat /\ mess.size \in Nat
      /\ mess.size > 0 => mess.start > 0
  BY DEF ClientInv, TypeOK, Asked, Messages
<1>2. r \in SUBSET Models /\ (mess.size > 0 => n <= mess.size)
  BY <1>1, PackSize DEF ClientInv, Options
<1>3. n \in Nat
  BY <1>2, CardType
<1>4. /\ pc = "waiting" /\ final_result' = final_result \cup r
      /\ UNCHANGED <<options, k2, pack_size, endpoints, diff_count, last_round, known>>
      /\ \/ /\ ReadAgain(r) /\ mess' = NextPack(r) /\ pc' = pc
         \/ /\ pc' = "run_over" /\ mess' = mess
  BY DEF ReadAnswer
<1>5. final_result \in SUBSET Models /\ final_result' \in SUBSET Models
  BY <1>2, <1>4 DEF ClientInv, TypeOK
<1>6. /\ Cardinality(final_result) \in Nat /\ Cardinality(final_result') \in Nat
      /\ Cardinality(final_result) <= Cardinality(final_result')
      /\ Cardinality(final_result') <= Cardinality(final_result) + n
  BY <1>2, <1>4, <1>5, CardType, CardMono, CardUnion
<1>7. /\ mess' \in Messages /\ (mess'.size > 0 => mess'.start > 0)
      /\ pc' = "waiting" => mess.size > 0 /\ mess'.size = mess.size - n /\ mess'.size > 0
  <2>1. CASE ReadAgain(r) /\ mess' = NextPack(r) /\ pc' = pc
    <3>1. mess.size > 0 /\ mess.size - n \in Nat /\ mess.size - n > 0
      BY <1>1, <1>2, <1>3, <2>1 DEF ReadAgain
    <3>2. mess.start + mess.size \in Nat /\ mess.start + mess.size > 0
      BY <1>1, <3>1
    <3> HIDE DEF r, n
    <3>3. mess' = Message(mess.start + mess.size, mess.size - n)
      BY <2>1 DEF NextPack, n
    <3> QED BY <3>1, <3>2, <3>3, MessageType
  <2>2. CASE pc' = "run_over" /\ mess' = mess
    BY <1>1, <2>2
  <2> QED BY <1>4, <2>1, <2>2
<1> HIDE DEF r, n
<1>8. pc' \in {"waiting", "run_over"}
  BY <1>4
<1>9. TypeOK' /\ Options' /\ Counted'
  BY <1>4, <1>5, <1>6, <1>7, <1>8
     DEF ClientInv, TypeOK, Options, Counted, options, PastEnd, Messages
<1>10. /\ pack_size \in Nat /\ pack_size' = pack_size
       /\ pack_size > 0 => /\ mess.size > 0
                           /\ Cardinality(final_result) + mess.size <= pack_size + 1
  BY <1>4 DEF ClientInv, TypeOK, Asked
<1>11. pack_size' > 0 => Cardinality(final_result') <= pack_size' + 1
  BY <1>1, <1>2, <1>3, <1>6, <1>10
<1>12. pack_size' > 0 /\ pc' = "waiting" =>
         mess'.size > 0 /\ Cardinality(final_result') + mess'.size <= pack_size' + 1
  BY <1>1, <1>2, <1>3, <1>6, <1>7, <1>10
<1>13. Asked' /\ OneTooManyAtMost' /\ StopsAtFixedPoint'
  BY <1>7, <1>8, <1>11, <1>12 DEF Asked, OneTooManyAtMost, StopsAtFixedPoint
<1> QED BY <1>9, <1>13 DEF ClientInv
\* diff_count never wraps around.
LEMMA DiffCountType ==
  ASSUME ClientInv
  PROVE  /\ Cardinality(final_result) \in Nat /\ Cardinality(known) \in Nat
         /\ DiffCount \in Nat /\ DiffCount <= Cardinality(final_result)
<1>1. Cardinality(final_result) \in Nat /\ Cardinality(known) \in Nat
  BY CardType DEF ClientInv, TypeOK
<1>2. diff_count \in Nat /\ diff_count <= Cardinality(final_result)
  BY DEF ClientInv, TypeOK, Counted
<1> QED BY <1>1, <1>2 DEF DiffCount

LEMMA ClientNotLooping == ClientInv /\ (NotLooping \/ LastRound) => ClientInv'
<1> SUFFICES ASSUME ClientInv, NotLooping \/ LastRound PROVE ClientInv'
  OBVIOUS
<1>1. /\ diff_count' = DiffCount
      /\ pc' = "broken_off" \/ (pc' = "done" /\ last_round)
      /\ UNCHANGED <<options, k2, pack_size, endpoints, mess, final_result,
                     last_round, known>>
  BY DEF NotLooping, LastRound
<1>2. diff_count' \in Nat /\ diff_count' <= Cardinality(final_result')
  BY <1>1, DiffCountType
<1> QED BY <1>1, <1>2
        DEF ClientInv, TypeOK, Options, Counted, Asked, OneTooManyAtMost,
            StopsAtFixedPoint, options, PastEnd, Messages

\* A round that brought nothing new leaves the set as it was: diff_count is at
\* most the number of models known before it.
LEMMA FixedPoint ==
  ASSUME ClientInv, pc # "broken_off", ~last_round, DiffCount = 0
  PROVE  final_result = known
<1>1. /\ known \in SUBSET final_result /\ final_result \in SUBSET Models
      /\ diff_count \in Nat /\ diff_count <= Cardinality(known)
  BY DEF ClientInv, TypeOK, Counted
<1>2. Cardinality(final_result) = diff_count
  BY <1>1, DiffCountType DEF DiffCount
<1>3. Cardinality(known) <= Cardinality(final_result)
  BY <1>1, CardMono
<1>4. Cardinality(known) = Cardinality(final_result)
  BY <1>1, <1>2, <1>3, DiffCountType
<1> QED BY <1>1, <1>4, CardMono

LEMMA ClientNextRound == ClientInv /\ NextRound => ClientInv'
<1> SUFFICES ASSUME ClientInv, NextRound PROVE ClientInv'
  OBVIOUS
<1>1. /\ pc = "run_over" /\ ~last_round /\ diff_count' = DiffCount
      /\ UNCHANGED <<options, pack_size, endpoints, final_result>>
  BY DEF NextRound
<1>2. /\ diff_count' \in Nat /\ diff_count' <= Cardinality(final_result)
      /\ Cardinality(final_result) \in Nat /\ pack_size \in Nat
  BY <1>1, DiffCountType DEF ClientInv, TypeOK
<1>3. CASE RequestMore
  <2>1. /\ mess' = Message(k2 + 1, LeftToRequest + 1)
        /\ k2' = Min2(k2 + 1 + LeftToRequest, PastEnd)
        /\ pc' = "waiting" /\ known' = final_result /\ last_round' = last_round
    BY <1>3 DEF NextRound
  <2>2. k2 \in Nat /\ PastEnd \in Nat
    BY ClientBoundsAssumption DEF ClientInv, TypeOK, PastEnd
  <2>3. /\ LeftToRequest \in Nat /\ LeftToRequest > 0
        /\ LeftToRequest = pack_size - Cardinality(final_result)
    BY <1>2, <1>3 DEF RequestMore, LeftToRequest
  <2>4. k2' \in 0 .. PastEnd
    BY <2>1, <2>2, <2>3 DEF Min2
  <2>5. /\ mess' \in Messages /\ mess'.size = LeftToRequest + 1 /\ mess'.start > 0
    <3>1. k2 + 1 \in Nat /\ k2 + 1 > 0 /\ LeftToRequest + 1 \in Nat
      BY <2>2, <2>3
    <3> QED BY <2>1, <3>1, MessageType
  <2>6. TypeOK' /\ Options' /\ Counted'
    BY <1>1, <1>2, <2>1, <2>4, <2>5
       DEF ClientInv, TypeOK, Options, Counted, options, PastEnd, Messages
  <2>7. Asked' /\ OneTooManyAtMost' /\ StopsAtFixedPoint'
    BY <1>1, <1>2, <2>1, <2>3, <2>5 DEF Asked, OneTooManyAtMost, StopsAtFixedPoint
  <2> QED BY <2>6, <2>7 DEF ClientInv
<1>4. CASE ~RequestMore
  <2>1. /\ pc' = "terminating" /\ last_round' = TRUE
        /\ UNCHANGED <<k2, mess, known>>
    BY <1>4 DEF NextRound
  <2>2. DiffCount = 0 \/ pack_size <= Cardinality(final_result)
    BY <1>1, <1>2, <1>4 DEF RequestMore
  <2>3. final_result = known \/ pack_size <= Cardinality(final_result)
    BY <1>1, <2>2, FixedPoint
  <2>4. last_round' \in BOOLEAN
    BY <2>1
  <2> QED BY <1>1, <1>2, <2>1, <2>3, <2>4
          DEF ClientInv, TypeOK, Options, Counted, Asked, OneTooManyAtMost,
              StopsAtFixedPoint, options, PastEnd, Messages
<1> QED BY <1>3, <1>4

LEMMA ClientStep == ClientInv /\ [Next]_vars => ClientInv'
<1> SUFFICES ASSUME ClientInv, [Next]_vars PROVE ClientInv'
  OBVIOUS
<1>1. CASE Reject \/ Terminate \/ ConnectionLost \/ Interrupt
  <2>1. endpoints' \in 0 .. MaxEndpoints /\ pc # "broken_off"
    BY <1>1 DEF Reject, Terminate, ConnectionLost, Interrupt, ClientInv, TypeOK
  <2> QED BY <1>1, <2>1, ClientMoves
          DEF Reject, Terminate, ConnectionLost, Interrupt
<1>2. CASE Begin
  BY <1>2, ClientBegin
<1>3. CASE Connect
  BY <1>3, ClientConnect
<1>4. CASE ReadAnswer
  BY <1>4, ClientReadAnswer
<1>5. CASE NotLooping \/ LastRound
  BY <1>5, ClientNotLooping
<1>6. CASE NextRound
  BY <1>6, ClientNextRound
<1>7. CASE UNCHANGED vars
  BY <1>7 DEF vars, ClientInv, TypeOK, Options, Counted, Asked, OneTooManyAtMost,
              StopsAtFixedPoint, PastEnd, Messages
<1> QED BY <1>1, <1>2, <1>3, <1>4, <1>5, <1>6, <1>7 DEF Next, Step

THEOREM ClientInvariant == Spec => []ClientInv
BY ClientInit, ClientStep, PTL DEF Spec

\* Whatever the root enumerates, the unsigned diff_count and the pack sizes that
\* the client computes do not wrap around.
THEOREM ClientCountersSafe == Spec => []TypeOK
<1>1. ClientInv => TypeOK
  BY DEF ClientInv
<1> QED BY <1>1, ClientInvariant, PTL

\* The client says good-bye only with all the models it was asked for or after a
\* round that brought nothing new, although diff_count is not the number of
\* models that the last round added.
THEOREM ClientStopsAtFixedPoint == Spec => []StopsAtFixedPoint
<1>1. ClientInv => StopsAtFixedPoint
  BY DEF ClientInv
<1> QED BY <1>1, ClientInvariant, PTL

\* A range of n models never prints more than n + 1.
THEOREM ClientOneTooManyAtMost == Spec => []OneTooManyAtMost
<1>1. ClientInv => OneTooManyAtMost
  BY DEF ClientInv
<1> QED BY <1>1, ClientInvariant, PTL
-------------------------------------------------------------------------------
(* The range that is delivered                                               *)

\* The models that the options ask for.
Wanted ==
  {enumeration[i] : i \in
    {j \in 1 .. Len(enumeration) :
       range # <<0, 0>> => range[1] <= j /\ j <= range[2]}}

\* Nothing has been read, and the message is the first one.
FirstRequest ==
  final_result = {} /\ mess = Message(range[1], RangeSize)

\* All that is wanted has been read, and the message lies behind the enumeration.
Exhausted ==
  final_result = Wanted /\ mess.size > 0 /\ mess.start > Len(enumeration)

\* What has been read of an enumeration without repetitions.
DeliverInv ==
  /\ k2 >= range[2]
  /\ pc \notin {"start", "rejected"} => ~InvalidRange /\ pack_size = RangeSize
  /\ pc = "connecting" => FirstRequest
  /\ pc = "waiting" /\ NoRepetition => FirstRequest \/ Exhausted
  /\ pc \in {"run_over", "terminating", "done"} /\ NoRepetition =>
       final_result = Wanted

\* A valid range is <<0, 0>> or begins at 1 or later.
LEMMA ValidRange ==
  ASSUME ClientInv, ~InvalidRange
  PROVE  /\ range[1] \in Nat /\ range[2] \in Nat /\ range[1] <= range[2]
         /\ range[1] <= MaxK /\ range[2] <= MaxK
         /\ range = <<0, 0>> <=> range[1] = 0
         /\ RangeSize \in Nat
         /\ range[1] > 0 => RangeSize = range[2] - range[1] + 1
         /\ range[1] = 0 => RangeSize = 0
BY ClientBoundsAssumption DEF ClientInv, Options, InvalidRange, RangeSize

\* Without repetitions, a range inside the enumeration has as many models as
\* numbers.
LEMMA FullRange ==
  ASSUME ClientInv, ~InvalidRange, NoRepetition, range[1] > 0,
         range[2] <= Len(enumeration)
  PROVE  Cardinality(Wanted) = RangeSize
<1> DEFINE D == range[1] .. range[2]
           g == [i \in D |-> enumeration[i]]
<1>1. /\ range[1] \in Nat /\ range[2] \in Nat /\ range[1] <= range[2]
      /\ RangeSize = range[2] - range[1] + 1 /\ range # <<0, 0>>
  BY ValidRange
<1>2. Len(enumeration) \in Nat
  BY EnumerationType DEF ClientInv, Options
<1>3. D \subseteq 1 .. Len(enumeration)
  BY <1>1, <1>2
<1>4. Wanted = {enumeration[i] : i \in D}
  <2>1. {j \in 1 .. Len(enumeration) :
           range # <<0, 0>> => range[1] <= j /\ j <= range[2]} = D
    BY <1>1, <1>2
  <2> QED BY <2>1 DEF Wanted
<1>5. \A i, j \in D : enumeration[i] = enumeration[j] => i = j
  BY <1>3 DEF NoRepetition
<1> HIDE DEF D
<1>6. g \in Bijection(D, Wanted)
  <2>1. g \in [D -> Wanted]
    BY <1>4
  <2>2. \A a, b \in D : g[a] = g[b] => a = b
    BY <1>5
  <2>3. \A t \in Wanted : \E i \in D : g[i] = t
    BY <1>4
  <2> HIDE DEF g
  <2> QED BY <2>1, <2>2, <2>3 DEF Bijection, Injection, IsInjective, Surjection
<1>7. IsFiniteSet(D) /\ Cardinality(D) = RangeSize
  <2>1. range[1] \in Int /\ range[2] \in Int
    BY <1>1
  <2>2. /\ IsFiniteSet(D)
        /\ Cardinality(D) = IF range[1] > range[2] THEN 0 ELSE range[2] - range[1] + 1
    BY <2>1, FS_Interval, Zenon DEF D
  <2> QED BY <1>1, <2>2
<1>8. ExistsBijection(D, Wanted)
  BY <1>6 DEF ExistsBijection
<1> QED BY <1>7, <1>8, FS_Bijection

\* The pack that the first message brings is all that is wanted.
LEMMA FirstPack ==
  ASSUME ClientInv, ~InvalidRange
  PROVE  Pack(Message(range[1], RangeSize)) = Wanted
<1>1. Len(enumeration) \in Nat
  BY EnumerationType DEF ClientInv, Options
<1>2. /\ Message(range[1], RangeSize).size = RangeSize
      /\ Message(range[1], RangeSize).start = range[1]
  BY ValidRange, ClientBoundsAssumption DEF Message, Min2, PastEnd
<1>3. CASE range[1] = 0
  BY <1>1, <1>2, <1>3, ValidRange DEF Pack, Wanted
<1>4. CASE range[1] > 0
  <2>1. {j \in 1 .. Len(enumeration) :
           range # <<0, 0>> => range[1] <= j /\ j <= range[2]}
        = range[1] .. Min2(Len(enumeration), range[1] + RangeSize - 1)
    BY <1>1, <1>4, ValidRange DEF Min2
  <2>2. RangeSize # 0
    BY <1>4, ValidRange
  <2>3. Pack(Message(range[1], RangeSize)) =
          {enumeration[i] : i \in range[1] .. Min2(Len(enumeration),
                                                   range[1] + RangeSize - 1)}
    BY <1>2, <2>2, Zenon DEF Pack
  <2> QED BY <2>1, <2>3, Zenon DEF Wanted
<1> QED BY <1>3, <1>4, ValidRange

\* Behind the enumeration there are no models.
LEMMA NoFurtherPack ==
  ASSUME ClientInv, mess.size > 0, mess.start > Len(enumeration)
  PROVE  Pack(mess) = {}
<1>1. Len(enumeration) \in Nat /\ mess.start \in Nat /\ mess.size \in Nat
  BY EnumerationType DEF ClientInv, Options, TypeOK, Messages
<1> QED BY <1>1 DEF Pack, Min2

\* A message for what follows k2, when less was read than was asked for, lies
\* behind the enumeration.
LEMMA BehindEnumeration ==
  ASSUME ClientInv, ~InvalidRange, NoRepetition, range[1] > 0,
         Cardinality(Wanted) # RangeSize,
         NEW s \in Nat, NEW z \in Nat, s > range[2]
  PROVE  Message(s, z).start > Len(enumeration)
<1>1. PICK n \in 0 .. MaxModels : enumeration \in [1 .. n -> Models]
  BY EnumerationsAssumption DEF ClientInv, Options
<1>2. Len(enumeration) \in Nat /\ Len(enumeration) <= MaxModels
  BY <1>1, ClientBoundsAssumption
<1>3. Len(enumeration) < range[2]
  BY <1>2, FullRange, ValidRange
<1> QED BY <1>2, <1>3, ValidRange, ClientBoundsAssumption DEF Message, Min2, PastEnd

LEMMA DeliverInit == Init => DeliverInv
BY ClientBoundsAssumption DEF Init, DeliverInv

LEMMA DeliverReadAnswer ==
  ASSUME ClientInv, DeliverInv, ReadAnswer
  PROVE  DeliverInv'
<1>1. /\ pc = "waiting" /\ final_result' = final_result \cup Pack(mess)
      /\ UNCHANGED <<options, k2, pack_size>>
  BY DEF ReadAnswer
<1>2. /\ ~InvalidRange /\ pack_size = RangeSize
      /\ NoRepetition => FirstRequest \/ Exhausted
  BY <1>1 DEF DeliverInv
<1>3. /\ NoRepetition' = NoRepetition /\ Wanted' = Wanted
      /\ InvalidRange' = InvalidRange /\ RangeSize' = RangeSize
  BY <1>1 DEF options, NoRepetition, Wanted, InvalidRange, RangeSize
<1>4. NoRepetition => final_result' = Wanted
  BY <1>1, <1>2, FirstPack, NoFurtherPack DEF FirstRequest, Exhausted
<1>5. CASE pc' = "run_over"
  BY <1>1, <1>2, <1>3, <1>4, <1>5 DEF DeliverInv, options
<1>6. CASE /\ pc' = "waiting" /\ Pack(mess) # {} /\ ReadAgain(Pack(mess))
           /\ mess' = NextPack(Pack(mess))
  <2>1. ASSUME NoRepetition PROVE Exhausted'
    <3>1. FirstRequest
      BY <1>2, <1>6, <2>1, NoFurtherPack DEF Exhausted
    <3>2. Pack(mess) = Wanted /\ mess.size = RangeSize /\ mess.start = range[1]
      BY <1>2, <3>1, FirstPack, ValidRange, ClientBoundsAssumption
         DEF FirstRequest, Message, Min2, PastEnd
    <3>3. /\ RangeSize > 0 /\ RangeSize - Cardinality(Wanted) # 0
          /\ mess' = Message(mess.start + mess.size, RangeSize - Cardinality(Wanted))
      BY <1>6, <3>2 DEF ReadAgain, NextPack
    <3>4. Wanted \in SUBSET Models /\ Cardinality(Wanted) \in Nat
      <4>1. Pack(mess) \in SUBSET Models
        BY PackSize DEF ClientInv, Options, TypeOK, Asked
      <4> QED BY <3>2, <4>1, CardType
    <3>5. Cardinality(Wanted) <= RangeSize
      BY <3>2, <3>3, PackSize DEF ClientInv, Options, TypeOK, Asked
    <3>6. /\ range[1] > 0 /\ mess.start + mess.size \in Nat
          /\ mess.start + mess.size > range[2]
          /\ RangeSize - Cardinality(Wanted) \in Nat
      BY <1>2, <3>2, <3>3, <3>4, <3>5, ValidRange
    <3>7. mess'.start > Len(enumeration)
      BY <1>2, <2>1, <3>3, <3>4, <3>6, BehindEnumeration, ValidRange
    <3>8. mess'.size > 0
      BY <3>3, <3>4, <3>5, <3>6 DEF Message
    <3> QED BY <1>1, <1>3, <1>4, <2>1, <3>7, <3>8 DEF Exhausted, options
  <2> QED BY <1>1, <1>2, <1>3, <1>6, <2>1 DEF DeliverInv, options
<1> QED BY <1>1, <1>5, <1>6 DEF ReadAnswer

LEMMA DeliverNextRound ==
  ASSUME ClientInv, DeliverInv, NextRound
  PROVE  DeliverInv'
<1>1. pc = "run_over" /\ UNCHANGED <<options, pack_size, final_result>>
  BY DEF NextRound
<1>2. /\ ~InvalidRange /\ pack_size = RangeSize /\ k2 >= range[2]
      /\ NoRepetition => final_result = Wanted
  BY <1>1 DEF DeliverInv
<1>3. /\ NoRepetition' = NoRepetition /\ Wanted' = Wanted
      /\ InvalidRange' = InvalidRange /\ RangeSize' = RangeSize
  BY <1>1 DEF options, NoRepetition, Wanted, InvalidRange, RangeSize
<1>4. CASE RequestMore
  <2>1. /\ mess' = Message(k2 + 1, LeftToRequest + 1)
        /\ k2' = Min2(k2 + 1 + LeftToRequest, PastEnd)
        /\ pc' = "waiting" /\ pack_size > Cardinality(final_result)
    BY <1>4 DEF NextRound, RequestMore
  <2>2. /\ k2 \in Nat /\ PastEnd \in Nat /\ PastEnd > MaxK /\ MaxK \in Nat
        /\ range[2] \in Nat /\ range[2] <= MaxK
    BY <1>2, ClientBoundsAssumption, ValidRange DEF ClientInv, TypeOK, PastEnd
  <2>3. /\ LeftToRequest \in Nat /\ LeftToRequest > 0
        /\ Cardinality(final_result) \in Nat
    BY <2>1, DiffCountType DEF LeftToRequest, ClientInv, TypeOK
  <2>4. k2' >= range[2]
    BY <1>2, <2>1, <2>2, <2>3 DEF Min2
  <2>5. ASSUME NoRepetition PROVE Exhausted'
    <3>1. range[1] > 0 /\ Cardinality(Wanted) # RangeSize /\ range[1] \in Nat
      BY <1>2, <2>1, <2>3, <2>5, ValidRange
    <3>2. k2 + 1 \in Nat /\ k2 + 1 > range[2] /\ LeftToRequest + 1 \in Nat
      BY <1>2, <2>2, <2>3
    <3>3. mess'.start > Len(enumeration)
      BY <1>2, <2>1, <2>5, <3>1, <3>2, BehindEnumeration
    <3>4. mess'.size > 0
      BY <2>1, <2>3 DEF Message
    <3> QED BY <1>1, <1>2, <1>3, <2>5, <3>3, <3>4 DEF Exhausted, options
  <2> QED BY <1>1, <1>2, <1>3, <2>1, <2>4, <2>5 DEF DeliverInv, options
<1>5. CASE ~RequestMore
  BY <1>1, <1>2, <1>3, <1>5 DEF NextRound, DeliverInv, options
<1> QED BY <1>4, <1>5

LEMMA DeliverStep == ClientInv /\ DeliverInv /\ [Next]_vars => DeliverInv'
<1> SUFFICES ASSUME ClientInv, DeliverInv, [Next]_vars PROVE DeliverInv'
  OBVIOUS
<1>1. CASE ReadAnswer
  BY <1>1, DeliverReadAnswer
<1>2. CASE NextRound
  BY <1>2, DeliverNextRound
<1>3. CASE Begin
  <2>1. final_result = {}
    BY <1>3 DEF ClientInv, Asked, Begin
  <2> QED BY <1>3, <2>1 DEF Begin, DeliverInv, FirstRequest, options, InvalidRange,
                            RangeSize, Message, PastEnd
<1>4. CASE Reject \/ Connect \/ NotLooping \/ Terminate \/ LastRound
           \/ ConnectionLost \/ Interrupt \/ UNCHANGED vars
  <2>1. /\ UNCHANGED <<options, k2, pack_size, mess, final_result>>
        /\ \/ pc' \in {"rejected", "failed", "broken_off", "interrupted"}
           \/ pc' = pc
           \/ pc = "connecting" /\ pc' = "waiting"
           \/ pc = "terminating" /\ pc' = "run_over"
           \/ pc = "run_over" /\ pc' = "done"
        /\ pc' \notin {"start", "rejected"} => pc \notin {"start", "rejected"}
    BY <1>4 DEF Reject, Connect, NotLooping, Terminate, LastRound, ConnectionLost,
                Interrupt, vars, options
  <2>2. /\ NoRepetition' = NoRepetition /\ Wanted' = Wanted
        /\ InvalidRange' = InvalidRange /\ RangeSize' = RangeSize
        /\ FirstRequest' = FirstRequest /\ Exhausted' = Exhausted
    BY <2>1 DEF options, NoRepetition, Wanted, InvalidRange, RangeSize, FirstRequest,
                Exhausted, Message, PastEnd
  <2> QED BY <2>1, <2>2 DEF DeliverInv, options
<1> QED BY <1>1, <1>2, <1>3, <1>4 DEF Next, Step

\* If the root enumerates no model twice, the client that says good-bye has
\* exactly the models k1 to k2 of the enumeration, or all of them: neither the
\* two nested loops nor the range that is one too large add or lose a model.
THEOREM ClientRangeDelivered == Spec => []RangeDelivered
<1>1. Init => ClientInv /\ DeliverInv
  BY ClientInit, DeliverInit
<1>2. ClientInv /\ DeliverInv /\ [Next]_vars => (ClientInv /\ DeliverInv)'
  BY ClientStep, DeliverStep
<1>3. DeliverInv => RangeDelivered
  BY DEF DeliverInv, RangeDelivered, Wanted
<1> QED BY <1>1, <1>2, <1>3, PTL DEF Spec

-------------------------------------------------------------------------------
(* The rounds come to an end                                                 *)

\* What diff_count is when the enumeration has no repetitions: nothing before
\* the first round ends, and then all that has been read, which is all there is.
RoundInv ==
  /\ pc \in {"start", "connecting"} => endpoints > 0
  /\ pc \in {"start", "connecting"} => diff_count = 0
  /\ pc \in {"start", "connecting", "waiting"} => ~last_round
  /\ pc = "terminating" => last_round
  /\ NoRepetition /\ ~last_round /\ pc \in {"waiting", "run_over"} =>
       diff_count = 0 \/ diff_count = Cardinality(final_result)
  /\ NoRepetition /\ pc = "waiting" /\ diff_count # 0 => Exhausted

\* How many steps the client is away from its end, at most.
StepsLeft ==
  IF pc = "start" THEN 9 + endpoints
  ELSE IF pc = "connecting" THEN 8 + endpoints
  ELSE IF pc = "waiting" THEN
    IF diff_count # 0 THEN 4 ELSE IF Exhausted THEN 6 ELSE 7
  ELSE IF pc = "run_over" THEN
    IF last_round THEN 1 ELSE IF diff_count # 0 THEN 3 ELSE 5
  ELSE IF pc = "terminating" THEN 2
  ELSE 0

LEMMA RoundInit == Init => RoundInv
BY DEF Init, RoundInv

\* A step after which the client has stopped.
LEMMA StopRound ==
  ASSUME ClientInv, ~Stopped, Stopped'
  PROVE  RoundInv' /\ StepsLeft' < StepsLeft
<1>1. pc' \in {"rejected", "failed", "broken_off", "done", "interrupted"}
  BY DEF Stopped
<1>2. pc \in {"start", "connecting", "waiting", "run_over", "terminating"}
      /\ endpoints \in Nat
  BY ClientBoundsAssumption DEF ClientInv, TypeOK, Stopped
<1>3. StepsLeft' = 0
  BY <1>1 DEF StepsLeft
<1>4. StepsLeft > 0
  BY <1>2 DEF StepsLeft
<1>5. RoundInv'
  BY <1>1 DEF RoundInv
<1> QED BY <1>3, <1>4, <1>5

LEMMA StartRound ==
  ASSUME ClientInv, RoundInv, Begin \/ Connect
  PROVE  RoundInv' /\ StepsLeft' < StepsLeft
<1>1. endpoints \in Nat
  BY ClientBoundsAssumption DEF ClientInv, TypeOK
<1>2. CASE Begin
  <2>1. /\ pc = "start" /\ pc' = "connecting"
        /\ UNCHANGED <<endpoints, diff_count, last_round>>
    BY <1>2 DEF Begin
  <2>2. endpoints > 0
    BY <2>1 DEF RoundInv
  <2> QED BY <1>1, <2>1, <2>2 DEF RoundInv, StepsLeft
<1>3. CASE Connect
  <2>1. /\ pc = "connecting" /\ endpoints > 0 /\ endpoints' = endpoints - 1
        /\ pc' \in {"waiting", "failed"} \/ (pc' = "connecting" /\ endpoints # 1)
        /\ UNCHANGED <<diff_count, last_round>>
        /\ diff_count = 0
    BY <1>3 DEF Connect, RoundInv
  <2>2. CASE pc' = "failed"
    BY <2>1, <2>2, StopRound DEF Stopped
  <2>3. CASE pc' = "connecting" /\ endpoints # 1
    BY <1>1, <2>1, <2>3 DEF RoundInv, StepsLeft
  <2>4. CASE pc' = "waiting"
    <3>1. RoundInv'
      BY <2>1, <2>4 DEF RoundInv
    <3>2. StepsLeft' \in {6, 7}
      BY <2>1, <2>4 DEF StepsLeft
    <3>3. StepsLeft = 8 + endpoints
      BY <2>1 DEF StepsLeft
    <3> QED BY <1>1, <3>1, <3>2, <3>3
  <2> QED BY <2>1, <2>2, <2>3, <2>4
<1> QED BY <1>2, <1>3

\* A client that has read all there is reads no further pack.
LEMMA ReadRound ==
  ASSUME ClientInv, DeliverInv, RoundInv, ReadAnswer, DeliverInv'
  PROVE  RoundInv' /\ (NoRepetition => StepsLeft' < StepsLeft)
<1>1. /\ pc = "waiting" /\ final_result' = final_result \cup Pack(mess)
      /\ UNCHANGED <<enumeration, diff_count, last_round>>
      /\ pc' = "run_over" \/ (pc' = "waiting" /\ Pack(mess) # {})
  BY DEF ReadAnswer, options
<1>2. ~last_round /\ NoRepetition' = NoRepetition
  BY <1>1 DEF RoundInv, NoRepetition
<1>3. ASSUME Exhausted PROVE Pack(mess) = {} /\ pc' = "run_over" /\ final_result' = final_result
  BY <1>1, <1>3, NoFurtherPack DEF Exhausted
<1>4. ASSUME pc' = "waiting", NoRepetition
      PROVE  ~Exhausted /\ diff_count = 0 /\ Exhausted'
  <2>1. ~Exhausted
    BY <1>3, <1>4
  <2>2. diff_count = 0
    BY <1>1, <1>4, <2>1 DEF RoundInv
  <2>3. final_result' # {}
    BY <1>1, <1>4
  <2>4. Exhausted'
    BY <1>2, <1>4, <2>3 DEF DeliverInv, FirstRequest
  <2> QED BY <2>1, <2>2, <2>4
<1>5. ASSUME pc' = "run_over", NoRepetition
      PROVE  diff_count = 0 \/ diff_count = Cardinality(final_result')
  BY <1>1, <1>2, <1>3, <1>5 DEF RoundInv
<1>6. RoundInv'
  BY <1>1, <1>2, <1>4, <1>5 DEF RoundInv
<1>7. ASSUME NoRepetition PROVE StepsLeft' < StepsLeft
  <2>1. CASE pc' = "waiting"
    BY <1>1, <1>4, <1>7, <2>1 DEF StepsLeft
  <2>2. CASE pc' = "run_over"
    BY <1>1, <1>2, <2>2 DEF StepsLeft
  <2> QED BY <1>1, <2>1, <2>2
<1> QED BY <1>6, <1>7

\* At most one round follows the first: then diff_count is 0.
LEMMA NextRoundRound ==
  ASSUME ClientInv, DeliverInv, RoundInv, NextRound, DeliverInv'
  PROVE  RoundInv' /\ (NoRepetition => StepsLeft' < StepsLeft)
<1>1. /\ pc = "run_over" /\ ~last_round /\ diff_count' = DiffCount
      /\ UNCHANGED <<enumeration, final_result>>
      /\ \/ pc' = "waiting" /\ diff_count' > 0 /\ ~last_round'
         \/ pc' = "terminating" /\ last_round'
  BY DEF NextRound, RequestMore, options
<1>2. NoRepetition' = NoRepetition
  BY <1>1 DEF NoRepetition
<1>3. Cardinality(final_result) \in Nat /\ DiffCount \in Nat /\ diff_count \in Nat
  BY DiffCountType DEF ClientInv, TypeOK
<1>4. CASE pc' = "terminating" /\ last_round'
  BY <1>1, <1>4 DEF RoundInv, StepsLeft
<1>5. CASE pc' = "waiting" /\ diff_count' > 0 /\ ~last_round'
  <2>1. diff_count' # 0
    BY <1>5
  <2>2. ASSUME NoRepetition
        PROVE  /\ diff_count = 0 /\ diff_count' = Cardinality(final_result')
               /\ Exhausted'
    <3>1. diff_count = 0 \/ diff_count = Cardinality(final_result)
      BY <1>1, <2>2 DEF RoundInv
    <3>2. diff_count = 0 /\ diff_count' = Cardinality(final_result)
      BY <1>1, <1>3, <1>5, <3>1 DEF DiffCount
    <3>3. final_result' # {}
      BY <1>1, <2>1, <3>2, FS_EmptySet
    <3>4. Exhausted'
      BY <1>2, <1>5, <2>2, <3>3 DEF DeliverInv, FirstRequest
    <3> QED BY <1>1, <3>2, <3>4
  <2>3. RoundInv'
    BY <1>2, <1>5, <2>2 DEF RoundInv
  <2>4. NoRepetition => StepsLeft' < StepsLeft
    BY <1>1, <1>5, <2>1, <2>2 DEF StepsLeft
  <2> QED BY <2>3, <2>4
<1> QED BY <1>1, <1>4, <1>5

LEMMA NextRounds ==
  ASSUME ClientInv, DeliverInv, RoundInv, Next
  PROVE  RoundInv' /\ (NoRepetition => StepsLeft' < StepsLeft)
<1>1. DeliverInv'
  BY DeliverStep
<1>2. CASE Terminate
  <2>1. pc = "terminating" /\ pc' = "run_over" /\ last_round /\ last_round' = last_round
    BY <1>2 DEF Terminate, RoundInv
  <2> QED BY <2>1 DEF RoundInv, StepsLeft
<1>3. CASE Reject \/ NotLooping \/ LastRound \/ ConnectionLost \/ Interrupt
  <2>1. ~Stopped /\ Stopped'
    BY <1>3 DEF Reject, NotLooping, LastRound, ConnectionLost, Interrupt, Stopped
  <2> QED BY <2>1, StopRound
<1> QED BY <1>1, <1>2, <1>3, StartRound, ReadRound, NextRoundRound DEF Next, Step

\* When the root enumerates no model twice, every step of the client, failures
\* and signals included, takes it nearer to its end, which is at most 9 steps
\* and the addresses to try away: main starts no third round, and there is
\* always an address left to connect to.  ClientStops needs no more than that
\* the client goes on.
THEOREM ClientComesToAnEnd ==
  /\ Spec => []RoundInv
  /\ Spec => [][NoRepetition => StepsLeft' < StepsLeft]_vars
<1>1. Init => ClientInv /\ DeliverInv /\ RoundInv
  BY ClientInit, DeliverInit, RoundInit
<1>2. ClientInv /\ DeliverInv /\ RoundInv /\ [Next]_vars =>
        (ClientInv /\ DeliverInv /\ RoundInv)'
  <2>1. RoundInv /\ UNCHANGED vars => RoundInv'
    BY DEF RoundInv, vars, NoRepetition, Exhausted, Wanted
  <2> QED BY <2>1, ClientStep, DeliverStep, NextRounds
<1>3. ClientInv /\ DeliverInv /\ RoundInv /\ [Next]_vars =>
        [NoRepetition => StepsLeft' < StepsLeft]_vars
  BY NextRounds
<1> QED BY <1>1, <1>2, <1>3, PTL DEF Spec
===============================================================================
