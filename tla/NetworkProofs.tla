----------------------------- MODULE NetworkProofs -----------------------------
(***************************************************************************)
(* Proofs about ContextNetwork, for every number of contexts, every        *)
(* topology, every queue size and every number of requests.                *)
(*                                                                         *)
(* A request that is not answered yet is at one place: on the wire, in one *)
(* of three queues, with the context or with its cycle breaker.  Ordered   *)
(* says that for every context and invoker at most one of these places or  *)
(* an answer holds a request of the invoker.  Logic says what is known of  *)
(* the requests wherever they are: the invoker waits for the answer        *)
(* (Issued), every context that the request went through waits for a       *)
(* request on whose behalf this one was sent (Chained), and a context that *)
(* the request did not go through is not needed to reach the invoker       *)
(* (Reached).                                                              *)
(***************************************************************************)
EXTENDS ContextNetwork, FiniteSetTheorems, TLAPS

-----------------------------------------------------------------------------
(* Queues of requests.                                                     *)

Keys(s) == {r.invoker : r \in Range(s)}

Distinct(s) ==
  \A i, j \in 1 .. Len(s) : s[i].invoker = s[j].invoker => i = j

LEMMA RangeOfSeq ==
  ASSUME NEW S, NEW s \in Seq(S)
  PROVE  Range(s) = {s[i] : i \in 1 .. Len(s)} /\ Range(s) \subseteq S
BY DEF Range

LEMMA RangeOfAppend ==
  ASSUME NEW S, NEW s \in Seq(S), NEW e \in S
  PROVE  /\ Append(s, e) \in Seq(S)
         /\ Range(Append(s, e)) = Range(s) \cup {e}
         /\ Distinct(s) /\ e.invoker \notin Keys(s) => Distinct(Append(s, e))
<1> DEFINE t == Append(s, e)
<1>1. /\ t \in Seq(S) /\ Len(t) = Len(s) + 1 /\ t[Len(s) + 1] = e
      /\ \A i \in 1 .. Len(s) : t[i] = s[i]
  OBVIOUS
<1>2. Len(s) \in Nat
  OBVIOUS
<1> HIDE DEF t
<1>3. Range(t) = {t[i] : i \in 1 .. Len(t)} /\ Range(s) = {s[i] : i \in 1 .. Len(s)}
  BY <1>1, RangeOfSeq
<1>4. Range(t) \subseteq Range(s) \cup {e}
  BY <1>1, <1>2, <1>3
<1>5. Range(s) \cup {e} \subseteq Range(t)
  BY <1>1, <1>2, <1>3
<1>6. ASSUME Distinct(s), e.invoker \notin Keys(s) PROVE Distinct(t)
  <2>1. \A i \in 1 .. Len(s) : s[i].invoker # e.invoker
    BY <1>3, <1>6 DEF Keys
  <2> QED BY <1>1, <1>2, <1>6, <2>1 DEF Distinct
<1> QED BY <1>1, <1>4, <1>5, <1>6 DEF t

LEMMA RangeOfTail ==
  ASSUME NEW S, NEW s \in Seq(S), s # <<>>
  PROVE  /\ Head(s) \in Range(s) /\ Head(s) \in S /\ Tail(s) \in Seq(S)
         /\ Range(s) = Range(Tail(s)) \cup {Head(s)}
         /\ Distinct(s) => Distinct(Tail(s)) /\ Head(s).invoker \notin Keys(Tail(s))
<1> DEFINE t == Tail(s)
<1>1. /\ t \in Seq(S) /\ Len(s) \in Nat /\ Len(s) > 0 /\ Len(t) = Len(s) - 1
      /\ Head(s) = s[1] /\ \A i \in 1 .. Len(t) : t[i] = s[i + 1]
  OBVIOUS
<1> HIDE DEF t
<1>2. Range(t) = {t[i] : i \in 1 .. Len(t)} /\ Range(s) = {s[i] : i \in 1 .. Len(s)}
  BY <1>1, RangeOfSeq
<1>3. Range(t) \cup {Head(s)} \subseteq Range(s)
  BY <1>1, <1>2
<1>4. ASSUME NEW x \in Range(s), x # Head(s) PROVE x \in Range(t)
  <2>1. PICK i \in 1 .. Len(s) : x = s[i]
    BY <1>2
  <2>2. i - 1 \in 1 .. Len(t) /\ (i - 1) + 1 = i
    BY <1>1, <1>4, <2>1
  <2>3. x = t[i - 1]
    BY <1>1, <2>1, <2>2
  <2> QED BY <1>2, <2>2, <2>3
<1>5. ASSUME Distinct(s)
      PROVE  Distinct(t) /\ Head(s).invoker \notin Keys(t)
  <2>1. Distinct(t)
    BY <1>1, <1>5 DEF Distinct
  <2>2. ASSUME NEW i \in 1 .. Len(t) PROVE t[i].invoker # s[1].invoker
    <3>1. i + 1 \in 1 .. Len(s) /\ 1 \in 1 .. Len(s) /\ i + 1 # 1 /\ t[i] = s[i + 1]
      BY <1>1
    <3> QED BY <1>5, <3>1 DEF Distinct
  <2> QED BY <1>1, <1>2, <2>1, <2>2 DEF Keys
<1>6. Head(s) \in S
  BY <1>1
<1> QED BY <1>1, <1>3, <1>4, <1>5, <1>6 DEF t
-----------------------------------------------------------------------------
(* The inductive invariant.                                                *)

\* What is known of a request by its place.
LocatedAt(c) ==
  /\ \A r \in Range(dispatcher_mq[c]) : r.receiver = c
  /\ \A r \in Range(request_mq[c]) : r.receiver = c /\ c \notin r.history
  /\ \A r \in Range(breaker_mq[c]) : r.receiver = c /\ c \in r.history
  /\ pc[c] # "idle" => current[c].receiver = c /\ c \notin current[c].history
  /\ breaker_pc[c] # "idle" =>
       breaker_req[c].receiver = c /\ c \in breaker_req[c].history

Located == \A c \in Contexts : LocatedAt(c)

\* The invokers whose requests to context c, or the answers to them, are at a
\* place of kind k.
Kinds == {"wire", "dispatcher", "request", "breaker", "context", "cycle", "answer"}

Place(k, c) ==
  CASE k = "wire" -> {r.invoker : r \in {q \in wire : q.receiver = c}}
    [] k = "dispatcher" -> Keys(dispatcher_mq[c])
    [] k = "request" -> Keys(request_mq[c])
    [] k = "breaker" -> Keys(breaker_mq[c])
    [] k = "context" -> IF pc[c] = "idle" THEN {} ELSE {current[c].invoker}
    [] k = "cycle" -> IF breaker_pc[c] = "idle" THEN {} ELSE {breaker_req[c].invoker}
    [] k = "answer" -> {a.to : a \in {b \in answers : b.from = c}}

Apart ==
  \A c \in Contexts : \A k, l \in Kinds :
    k # l => Place(k, c) \cap Place(l, c) = {}

AllDistinct ==
  \A c \in Contexts : /\ Distinct(dispatcher_mq[c])
                      /\ Distinct(request_mq[c])
                      /\ Distinct(breaker_mq[c])

\* Invoker i waits for an answer of context n.
Waits(i, n) ==
  IF i = Client THEN n = Root /\ client_pc = "waiting"
  ELSE i \in Contexts /\ pc[i] = "joining" /\ n \in asked[i] \ marked[i]

History(i) == IF i = Client THEN {Client} ELSE current[i].history \cup {i}

Issued ==
  /\ \A r \in Live : /\ Waits(r.invoker, r.receiver)
                      /\ r.order = query_counter[r.invoker]
                      /\ r.history = History(r.invoker)
  /\ \A a \in answers : Waits(a.to, a.from) /\ a.order = query_counter[a.to]
  /\ \A a, b \in answers : a.from = b.from /\ a.to = b.to => a = b

\* Request r is q or was sent on behalf of q.
Behalf(q, r) == q = r \/ (q.receiver \in r.history /\ q.receiver \notin q.history)

Chained ==
  \A r \in Live : \A d \in r.history \cap Contexts :
    /\ pc[d] = "joining"
    /\ \E q \in Live : q.invoker = d /\ Behalf(q, r)

\* The invoker of r can be reached from the root without d, unless r went
\* through d.
Reached(r) ==
  /\ r.invoker = Client => r.receiver = Root
  /\ r.invoker \in Contexts =>
       /\ Root \in r.history
       /\ r.receiver \in neighbors[r.invoker]
       /\ \A d \in Contexts \ r.history : \A U \in SUBSET Contexts :
            Root \in U /\ (\A x \in U : neighbors[x] \ {d} \subseteq U)
              => r.invoker \in U

Paths == \A r \in Live : Reached(r)

Logic == Issued /\ Chained

Ordered == Apart /\ AllDistinct

NetworkInv == TypeOK /\ Located /\ Paths /\ (~orphaned => Ordered /\ Logic)

-----------------------------------------------------------------------------
(* Facts about the invariant.                                              *)

LEMMA LiveIff ==
  ASSUME NEW r
  PROVE  /\ r \in Live <=> r \in wire \/ \E c \in Contexts : r \in Held(c)
         /\ r \in Live' <=> r \in wire' \/ \E c \in Contexts : r \in Held(c)'
BY Zenon DEF Live

LEMMA LiveType == TypeOK => Live \subseteq Requests
<1> SUFFICES ASSUME TypeOK PROVE Live \subseteq Requests
  OBVIOUS
<1>1. ASSUME NEW c \in Contexts PROVE Held(c) \subseteq Requests
  <2>1. /\ dispatcher_mq[c] \in Seq(Requests) /\ request_mq[c] \in Seq(Requests)
        /\ breaker_mq[c] \in Seq(Requests)
        /\ current[c] \in Requests /\ breaker_req[c] \in Requests
    BY DEF TypeOK
  <2> QED BY <2>1, RangeOfSeq DEF Held
<1> QED BY <1>1, LiveIff DEF TypeOK

\* Who is at a place of each kind, before and after a step.
LEMMA InWire ==
  ASSUME NEW c, NEW y
  PROVE  /\ y \in Place("wire", c) <=> \E q \in wire : q.receiver = c /\ y = q.invoker
         /\ y \in Place("wire", c)' <=> \E q \in wire' : q.receiver = c /\ y = q.invoker
<1>1. Place("wire", c) = {r.invoker : r \in {q \in wire : q.receiver = c}}
  BY DEF Place
<1>2. Place("wire", c)' = {r.invoker : r \in {q \in wire' : q.receiver = c}}
  BY DEF Place
<1> QED BY ONLY <1>1, <1>2

LEMMA InDispatcher ==
  ASSUME NEW c, NEW y
  PROVE  /\ y \in Place("dispatcher", c) <=> \E q \in Range(dispatcher_mq[c]) : y = q.invoker
         /\ y \in Place("dispatcher", c)' <=> \E q \in Range(dispatcher_mq'[c]) : y = q.invoker
<1>1. Place("dispatcher", c) = Keys(dispatcher_mq[c])
  BY DEF Place
<1>2. Place("dispatcher", c)' = Keys(dispatcher_mq'[c])
  BY DEF Place, Keys
<1> QED BY ONLY <1>1, <1>2 DEF Keys

LEMMA InRequest ==
  ASSUME NEW c, NEW y
  PROVE  /\ y \in Place("request", c) <=> \E q \in Range(request_mq[c]) : y = q.invoker
         /\ y \in Place("request", c)' <=> \E q \in Range(request_mq'[c]) : y = q.invoker
<1>1. Place("request", c) = Keys(request_mq[c])
  BY DEF Place
<1>2. Place("request", c)' = Keys(request_mq'[c])
  BY DEF Place, Keys
<1> QED BY ONLY <1>1, <1>2 DEF Keys

LEMMA InBreaker ==
  ASSUME NEW c, NEW y
  PROVE  /\ y \in Place("breaker", c) <=> \E q \in Range(breaker_mq[c]) : y = q.invoker
         /\ y \in Place("breaker", c)' <=> \E q \in Range(breaker_mq'[c]) : y = q.invoker
<1>1. Place("breaker", c) = Keys(breaker_mq[c])
  BY DEF Place
<1>2. Place("breaker", c)' = Keys(breaker_mq'[c])
  BY DEF Place, Keys
<1> QED BY ONLY <1>1, <1>2 DEF Keys

LEMMA InContext ==
  ASSUME NEW c, NEW y
  PROVE  /\ y \in Place("context", c) <=> pc[c] # "idle" /\ y = current[c].invoker
         /\ y \in Place("context", c)' <=> pc'[c] # "idle" /\ y = current'[c].invoker
<1>1. Place("context", c) = IF pc[c] = "idle" THEN {} ELSE {current[c].invoker}
  BY DEF Place
<1>2. Place("context", c)' = IF pc'[c] = "idle" THEN {} ELSE {current'[c].invoker}
  BY DEF Place
<1> QED BY ONLY <1>1, <1>2

LEMMA InCycleBreaker ==
  ASSUME NEW c, NEW y
  PROVE  /\ y \in Place("cycle", c) <=>
              breaker_pc[c] # "idle" /\ y = breaker_req[c].invoker
         /\ y \in Place("cycle", c)' <=>
              breaker_pc'[c] # "idle" /\ y = breaker_req'[c].invoker
<1>1. Place("cycle", c) = IF breaker_pc[c] = "idle" THEN {} ELSE {breaker_req[c].invoker}
  BY DEF Place
<1>2. Place("cycle", c)' =
        IF breaker_pc'[c] = "idle" THEN {} ELSE {breaker_req'[c].invoker}
  BY DEF Place
<1> QED BY ONLY <1>1, <1>2

LEMMA InAnswer ==
  ASSUME NEW c, NEW y
  PROVE  /\ y \in Place("answer", c) <=> \E a \in answers : a.from = c /\ y = a.to
         /\ y \in Place("answer", c)' <=> \E a \in answers' : a.from = c /\ y = a.to
<1>1. Place("answer", c) = {a.to : a \in {b \in answers : b.from = c}}
  BY DEF Place
<1>2. Place("answer", c)' = {a.to : a \in {b \in answers' : b.from = c}}
  BY DEF Place
<1> QED BY ONLY <1>1, <1>2

\* A place that a step leaves alone.
LEMMA PlaceStays ==
  ASSUME NEW c
  PROVE  /\ wire' = wire => Place("wire", c)' = Place("wire", c)
         /\ dispatcher_mq' = dispatcher_mq => Place("dispatcher", c)' = Place("dispatcher", c)
         /\ request_mq' = request_mq => Place("request", c)' = Place("request", c)
         /\ breaker_mq' = breaker_mq => Place("breaker", c)' = Place("breaker", c)
         /\ pc' = pc /\ current' = current => Place("context", c)' = Place("context", c)
         /\ breaker_pc' = breaker_pc /\ breaker_req' = breaker_req
              => Place("cycle", c)' = Place("cycle", c)
         /\ answers' = answers => Place("answer", c)' = Place("answer", c)
<1>1. ASSUME wire' = wire PROVE Place("wire", c)' = Place("wire", c)
  <2>1. \A y : y \in Place("wire", c)' <=> y \in Place("wire", c)
    BY <1>1, InWire
  <2> QED BY <2>1
<1>2. ASSUME dispatcher_mq' = dispatcher_mq PROVE Place("dispatcher", c)' = Place("dispatcher", c)
  <2>1. \A y : y \in Place("dispatcher", c)' <=> y \in Place("dispatcher", c)
    BY <1>2, InDispatcher
  <2> QED BY <2>1
<1>3. ASSUME request_mq' = request_mq PROVE Place("request", c)' = Place("request", c)
  <2>1. \A y : y \in Place("request", c)' <=> y \in Place("request", c)
    BY <1>3, InRequest
  <2> QED BY <2>1
<1>4. ASSUME breaker_mq' = breaker_mq PROVE Place("breaker", c)' = Place("breaker", c)
  <2>1. \A y : y \in Place("breaker", c)' <=> y \in Place("breaker", c)
    BY <1>4, InBreaker
  <2> QED BY <2>1
<1>5. ASSUME pc' = pc, current' = current PROVE Place("context", c)' = Place("context", c)
  <2>1. \A y : y \in Place("context", c)' <=> y \in Place("context", c)
    BY <1>5, InContext
  <2> QED BY <2>1
<1>6. ASSUME breaker_pc' = breaker_pc, breaker_req' = breaker_req
      PROVE  Place("cycle", c)' = Place("cycle", c)
  <2>1. \A y : y \in Place("cycle", c)' <=> y \in Place("cycle", c)
    BY <1>6, InCycleBreaker
  <2> QED BY <2>1
<1>7. ASSUME answers' = answers PROVE Place("answer", c)' = Place("answer", c)
  <2>1. \A y : y \in Place("answer", c)' <=> y \in Place("answer", c)
    BY <1>7, InAnswer
  <2> QED BY <2>1
<1> QED BY <1>1, <1>2, <1>3, <1>4, <1>5, <1>6, <1>7

\* No request is dropped; new ones may be sent.
LEMMA LiveGrows ==
  ASSUME \A n \in Contexts : Held(n)' = Held(n), NEW F, wire' = wire \cup F
  PROVE  Live' = Live \cup F
<1>1. ASSUME NEW q PROVE q \in Live' <=> q \in Live \cup F
  BY LiveIff
<1> QED BY <1>1

LEMMA LiveStays ==
  ASSUME \A n \in Contexts : Held(n)' = Held(n), wire' = wire
  PROVE  Live' = Live
<1>1. ASSUME NEW q PROVE q \in Live' <=> q \in Live
  BY LiveIff
<1> QED BY <1>1

\* A request is at a place of its receiver, and has not been answered.
LEMMA LivePlace ==
  ASSUME TypeOK, Located, NEW r \in Live
  PROVE  \E k \in Kinds \ {"answer"} : r.invoker \in Place(k, r.receiver)
<1>1. CASE r \in wire
  <2>1. r.invoker \in Place("wire", r.receiver)
    BY <1>1, InWire
  <2> QED BY <2>1 DEF Kinds
<1>2. ASSUME NEW c \in Contexts, r \in Held(c)
      PROVE  \E k \in Kinds \ {"answer"} : r.invoker \in Place(k, r.receiver)
  <2>1. \/ r \in Range(dispatcher_mq[c]) \/ r \in Range(request_mq[c])
        \/ r \in Range(breaker_mq[c]) \/ (pc[c] # "idle" /\ r = current[c])
        \/ (breaker_pc[c] # "idle" /\ r = breaker_req[c])
    BY <1>2 DEF Held
  <2>2. r.receiver = c
    BY <2>1 DEF Located, LocatedAt
  <2>3. CASE r \in Range(dispatcher_mq[c])
    <3>1. r.invoker \in Place("dispatcher", c)
      BY <2>3, InDispatcher
    <3> QED BY <2>2, <3>1 DEF Kinds
  <2>4. CASE r \in Range(request_mq[c])
    <3>1. r.invoker \in Place("request", c)
      BY <2>4, InRequest
    <3> QED BY <2>2, <3>1 DEF Kinds
  <2>5. CASE r \in Range(breaker_mq[c])
    <3>1. r.invoker \in Place("breaker", c)
      BY <2>5, InBreaker
    <3> QED BY <2>2, <3>1 DEF Kinds
  <2>6. CASE pc[c] # "idle" /\ r = current[c]
    <3>1. r.invoker \in Place("context", c)
      BY <2>6, InContext
    <3> QED BY <2>2, <3>1 DEF Kinds
  <2>7. CASE breaker_pc[c] # "idle" /\ r = breaker_req[c]
    <3>1. r.invoker \in Place("cycle", c)
      BY <2>7, InCycleBreaker
    <3> QED BY <2>2, <3>1 DEF Kinds
  <2> QED BY <2>1, <2>3, <2>4, <2>5, <2>6, <2>7
<1> QED BY <1>1, <1>2, LiveIff

\* Whoever is at a place of n waits for n.
LEMMA PlaceWaits ==
  ASSUME Located, Issued, NEW n \in Contexts, NEW k \in Kinds, NEW i \in Place(k, n)
  PROVE  Waits(i, n)
<1>1. \/ \E r \in Live : r.invoker = i /\ r.receiver = n
      \/ \E a \in answers : a.to = i /\ a.from = n
  <2>1. CASE k = "wire"
    BY <2>1, InWire, LiveIff
  <2>2. CASE k = "dispatcher"
    BY <2>2, InDispatcher, LiveIff DEF Held, Located, LocatedAt
  <2>3. CASE k = "request"
    BY <2>3, InRequest, LiveIff DEF Held, Located, LocatedAt
  <2>4. CASE k = "breaker"
    BY <2>4, InBreaker, LiveIff DEF Held, Located, LocatedAt
  <2>5. CASE k = "context"
    BY <2>5, InContext, LiveIff DEF Held, Located, LocatedAt
  <2>6. CASE k = "cycle"
    BY <2>6, InCycleBreaker, LiveIff DEF Held, Located, LocatedAt
  <2>7. CASE k = "answer"
    BY <2>7, InAnswer
  <2> QED BY <2>1, <2>2, <2>3, <2>4, <2>5, <2>6, <2>7 DEF Kinds
<1> QED BY <1>1 DEF Issued

LEMMA AnsweredNotLive ==
  ASSUME TypeOK, Located, Apart, NEW a \in answers, NEW r \in Live
  PROVE  ~(r.invoker = a.to /\ r.receiver = a.from)
<1>1. PICK k \in Kinds \ {"answer"} : r.invoker \in Place(k, r.receiver)
  BY LivePlace
<1>2. r.receiver \in Contexts
  BY LiveType DEF Requests
<1>3. a.to \in Place("answer", a.from)
  BY InAnswer
<1> QED BY <1>1, <1>2, <1>3 DEF Apart, Kinds

\* A request moves from one place to another, new ones are sent by an invoker
\* that is at no place, or both.
LEMMA ApartMove ==
  ASSUME Apart, NEW n \in Contexts, NEW k \in Kinds, NEW l \in Kinds,
         NEW i \in Place(k, n), i \notin Place(k, n)',
         \A m \in Kinds : \A c \in Contexts : \A y \in Place(m, c)' :
           y \in Place(m, c) \/ (m = l /\ c = n /\ y = i)
  PROVE  Apart'
BY DEF Apart

LEMMA ApartNew ==
  ASSUME Apart, NEW x \in Invokers,
         \A m \in Kinds : \A c \in Contexts : x \notin Place(m, c),
         \A m \in Kinds : \A c \in Contexts : \A y \in Place(m, c)' :
           y \in Place(m, c) \/ (m = "wire" /\ y = x)
  PROVE  Apart'
BY DEF Apart

LEMMA ApartMoveAndNew ==
  ASSUME Apart, NEW n \in Contexts, NEW k \in Kinds, NEW l \in Kinds,
         NEW i \in Place(k, n), i \notin Place(k, n)',
         NEW x \in Invokers, \A m \in Kinds : \A c \in Contexts : x \notin Place(m, c),
         \A m \in Kinds : \A c \in Contexts : \A y \in Place(m, c)' :
           \/ y \in Place(m, c)
           \/ m = l /\ c = n /\ y = i
           \/ m = "wire" /\ y = x
  PROVE  Apart'
BY DEF Apart
-----------------------------------------------------------------------------
(* The initial states, and the steps that move a request within a daemon.  *)

LEMMA NetworkInit == Init => NetworkInv
<1> SUFFICES ASSUME Init PROVE NetworkInv
  OBVIOUS
<1>1. NoRequest \in Requests
  BY ContextsAssumption DEF NoRequest, Requests, Invokers
<1>2. <<>> \in Seq(Requests) /\ Range(<<>>) = {} /\ Keys(<<>>) = {} /\ Distinct(<<>>)
  BY DEF Range, Keys, Distinct
<1>3. TypeOK
  <2>1. neighbors \in [Contexts -> SUBSET Contexts]
    BY TopologiesAssumption DEF Init
  <2>2. orphaned \in BOOLEAN
    BY Zenon DEF Init
  <2> QED BY <1>1, <1>2, <2>1, <2>2 DEF Init, TypeOK
<1>4. Located
  BY <1>2 DEF Init, Located, LocatedAt
<1>5. Live = {}
  <2>1. ASSUME NEW c \in Contexts PROVE Held(c) = {}
    BY <1>2 DEF Init, Held
  <2> QED BY <2>1, LiveIff DEF Init
<1>6. Ordered
  <2>1. AllDistinct
    BY <1>2 DEF Init, AllDistinct
  <2>2. ASSUME NEW c \in Contexts, NEW k \in Kinds PROVE Place(k, c) = {}
    BY <1>2, InWire, InDispatcher, InRequest, InBreaker,
       InContext, InCycleBreaker, InAnswer DEF Init, Kinds
  <2> QED BY <2>1, <2>2 DEF Ordered, Apart
<1>7. Paths /\ Logic
  BY <1>5 DEF Init, Paths, Logic, Issued, Chained
<1> QED BY <1>3, <1>4, <1>6, <1>7 DEF NetworkInv

LEMMA LogicMove ==
  ASSUME Paths, Logic, Live' = Live,
         UNCHANGED <<neighbors, pc, current, asked, marked, query_counter,
                     answers, client_pc>>
  PROVE  Paths' /\ Logic'
<1>1. ASSUME NEW r, Reached(r) PROVE Reached(r)'
  BY <1>1 DEF Reached
<1>2. Paths'
  BY <1>1 DEF Paths
<1>3. ASSUME NEW i, NEW n PROVE Waits(i, n)' = Waits(i, n)
  BY DEF Waits
<1>4. ASSUME NEW i PROVE History(i)' = History(i)
  BY DEF History
<1>5. Issued'
  BY <1>3, <1>4 DEF Logic, Issued
<1>6. Chained'
  BY DEF Logic, Chained
<1> QED BY <1>2, <1>5, <1>6 DEF Logic

LEMMA NetworkHandle ==
  ASSUME NetworkInv, ~orphaned, NEW r \in wire, HandleRequest(r)
  PROVE  NetworkInv'
<1> DEFINE c == r.receiver
<1>1. /\ wire' = wire \ {r}
      /\ dispatcher_mq' = [dispatcher_mq EXCEPT ![c] = Append(@, r)]
      /\ UNCHANGED <<neighbors, request_mq, breaker_mq, pc, current, asked, marked,
                     round, asks, query_counter, breaker_pc, breaker_req, answers,
                     client_pc, orphaned>>
  BY DEF HandleRequest, normal, breaker
<1>2. TypeOK /\ Located /\ Paths /\ Apart /\ AllDistinct /\ Logic
  BY DEF NetworkInv, Ordered
<1>3. r \in Requests /\ c \in Contexts /\ r \in Live
  BY <1>2, LiveIff DEF TypeOK, Requests
<1>4. /\ dispatcher_mq \in [Contexts -> Seq(Requests)]
      /\ dispatcher_mq' \in [Contexts -> Seq(Requests)]
      /\ dispatcher_mq'[c] = Append(dispatcher_mq[c], r)
      /\ \A n \in Contexts : n # c => dispatcher_mq'[n] = dispatcher_mq[n]
      /\ Range(dispatcher_mq'[c]) = Range(dispatcher_mq[c]) \cup {r}
  BY <1>1, <1>2, <1>3, RangeOfAppend DEF TypeOK
<1>5. TypeOK'
  <2>1. /\ wire' \subseteq Requests /\ dispatcher_mq' \in [Contexts -> Seq(Requests)]
        /\ UNCHANGED <<neighbors, request_mq, breaker_mq, pc, current, asked, marked,
                       round, asks, query_counter, breaker_pc, breaker_req, answers,
                       client_pc, orphaned>>
    BY <1>1, <1>2, <1>4 DEF TypeOK
  <2> QED BY <1>2, <2>1 DEF TypeOK
<1>c. r.receiver = c
  OBVIOUS
<1> HIDE DEF c
<1>6. Located'
  <2> SUFFICES ASSUME NEW n \in Contexts PROVE LocatedAt(n)'
    BY DEF Located
  <2>1. LocatedAt(n)
    BY <1>2 DEF Located
  <2>2. CASE n = c
    BY <1>1, <1>4, <1>c, <2>1, <2>2 DEF LocatedAt
  <2>3. CASE n # c
    BY <1>1, <1>4, <2>1, <2>3 DEF LocatedAt
  <2> QED BY <2>2, <2>3
<1>7. Live' = Live
  <2>1. Held(c)' = Held(c) \cup {r}
    BY <1>1, <1>4 DEF Held
  <2>2. ASSUME NEW n \in Contexts, n # c PROVE Held(n)' = Held(n)
    BY <1>1, <1>4, <2>2 DEF Held
  <2> QED BY <1>1, <1>3, <2>1, <2>2, LiveIff, Zenon
<1>8. Paths' /\ Logic'
  BY <1>1, <1>2, <1>7, LogicMove
<1>9. r.invoker \in Place("wire", c) /\ r.invoker \notin Place("wire", c)'
  <2>1. ASSUME NEW q \in wire, q.receiver = c, q.invoker = r.invoker PROVE q = r
    <3>1. q \in Live /\ q \in Requests
      BY <1>2, LiveIff DEF TypeOK
    <3>2. q.order = r.order /\ q.history = r.history
      BY <1>2, <1>3, <2>1, <3>1 DEF Logic, Issued
    <3> QED BY <1>3, <2>1, <3>1, <3>2 DEF c, Requests
  <2>2. r.invoker \in Place("wire", c)
    BY InWire DEF c
  <2> QED BY <1>1, <2>1, <2>2, InWire
<1>10. r.invoker \notin Keys(dispatcher_mq[c])
  <2>1. "wire" \in Kinds /\ "dispatcher" \in Kinds
    BY DEF Kinds
  <2>2. r.invoker \notin Place("dispatcher", c)
    BY <1>2, <1>3, <1>9, <2>1 DEF Apart, c
  <2> QED BY <2>2, InDispatcher DEF Keys
<1>11. AllDistinct'
  <2>1. Distinct(dispatcher_mq'[c])
    BY <1>2, <1>3, <1>4, <1>10, RangeOfAppend DEF AllDistinct
  <2> QED BY <1>1, <1>2, <1>4, <2>1 DEF AllDistinct
<1>12. Apart'
  <2>1. ASSUME NEW m \in Kinds, NEW n \in Contexts, NEW y \in Place(m, n)'
        PROVE  y \in Place(m, n) \/ (m = "dispatcher" /\ n = c /\ y = r.invoker)
    <3>1. CASE m = "wire"
      BY <1>1, <3>1, InWire
    <3>2. CASE m = "dispatcher"
      <4>1. PICK q \in Range(dispatcher_mq'[n]) : y = q.invoker
        BY <3>2, InDispatcher
      <4>2. q \in Range(dispatcher_mq[n]) \/ (n = c /\ q = r)
        BY <1>4, <4>1, Zenon
      <4> QED BY <3>2, <4>1, <4>2, InDispatcher
    <3>3. CASE m \in Kinds \ {"wire", "dispatcher"}
      BY <1>1, <3>3, PlaceStays DEF Kinds
    <3> QED BY <3>1, <3>2, <3>3
  <2>2. "wire" \in Kinds /\ "dispatcher" \in Kinds
    BY DEF Kinds
  <2> QED BY <1>2, <1>3, <1>9, <2>1, <2>2, ApartMove DEF c
<1> QED BY <1>1, <1>5, <1>6, <1>8, <1>11, <1>12 DEF NetworkInv, Ordered
LEMMA NetworkDispatch ==
  ASSUME NetworkInv, ~orphaned, NEW c \in Contexts, Dispatch(c)
  PROVE  NetworkInv'
<1> DEFINE r == Head(dispatcher_mq[c])
<1>1. /\ dispatcher_mq[c] # <<>>
      /\ dispatcher_mq' = [dispatcher_mq EXCEPT ![c] = Tail(@)]
      /\ UNCHANGED <<neighbors, wire, pc, current, asked, marked, round, asks,
                     query_counter, breaker_pc, breaker_req, answers, client_pc,
                     orphaned>>
  BY DEF Dispatch, normal, breaker
<1>2. TypeOK /\ Located /\ Paths /\ Apart /\ AllDistinct /\ Logic
  BY DEF NetworkInv, Ordered
<1>d. dispatcher_mq \in [Contexts -> Seq(Requests)] /\ Distinct(dispatcher_mq[c])
  BY <1>2 DEF TypeOK, AllDistinct
<1>3. r \in Requests /\ r \in Range(dispatcher_mq[c])
  BY <1>1, <1>d, RangeOfTail
<1>4. /\ dispatcher_mq' \in [Contexts -> Seq(Requests)]
      /\ dispatcher_mq'[c] = Tail(dispatcher_mq[c])
      /\ \A n \in Contexts : n # c => dispatcher_mq'[n] = dispatcher_mq[n]
      /\ Range(dispatcher_mq[c]) = Range(dispatcher_mq'[c]) \cup {r}
      /\ Distinct(dispatcher_mq'[c])
  BY <1>1, <1>d, RangeOfTail
<1>5. r.invoker \in Place("dispatcher", c) /\ r.invoker \notin Place("dispatcher", c)'
  <2>1. r.invoker \notin Keys(dispatcher_mq'[c])
    BY <1>1, <1>4, <1>d, RangeOfTail
  <2>2. r.invoker \in Place("dispatcher", c)
    BY <1>3, InDispatcher
  <2>3. r.invoker \notin Place("dispatcher", c)'
    BY <2>1, InDispatcher DEF Keys
  <2> QED BY <2>2, <2>3
<1>6. \/ /\ ~InCycle(r) /\ request_mq' = [request_mq EXCEPT ![c] = Append(@, r)]
         /\ breaker_mq' = breaker_mq
      \/ /\ InCycle(r) /\ breaker_mq' = [breaker_mq EXCEPT ![c] = Append(@, r)]
         /\ request_mq' = request_mq
  BY DEF Dispatch
<1> HIDE DEF r
<1>7. CASE /\ ~InCycle(r) /\ request_mq' = [request_mq EXCEPT ![c] = Append(@, r)]
            /\ breaker_mq' = breaker_mq
  <2>0. request_mq \in [Contexts -> Seq(Requests)]
    BY <1>2 DEF TypeOK
  <2>1. /\ request_mq \in [Contexts -> Seq(Requests)]
        /\ request_mq' \in [Contexts -> Seq(Requests)]
        /\ request_mq'[c] = Append(request_mq[c], r)
        /\ \A n \in Contexts : n # c => request_mq'[n] = request_mq[n]
        /\ Range(request_mq'[c]) = Range(request_mq[c]) \cup {r}
    BY <1>3, <1>7, <2>0, RangeOfAppend
  <2>2. TypeOK'
    BY <1>1, <1>2, <1>4, <1>7, <2>1 DEF TypeOK
  <2>3. Located'
    <3>1. r.receiver = c /\ c \notin r.history
      BY <1>2, <1>3, <1>7 DEF Located, LocatedAt, InCycle
    <3> SUFFICES ASSUME NEW n \in Contexts PROVE LocatedAt(n)'
      BY DEF Located
    <3>2. LocatedAt(n)
      BY <1>2 DEF Located
    <3>3. CASE n = c
      BY <1>1, <1>4, <1>7, <2>1, <3>1, <3>2, <3>3 DEF LocatedAt
    <3>4. CASE n # c
      BY <1>1, <1>4, <1>7, <2>1, <3>2, <3>4 DEF LocatedAt
    <3> QED BY <3>3, <3>4
  <2>4. Live' = Live
    <3>1. Held(c)' = Held(c)
      BY <1>1, <1>4, <1>7, <2>1 DEF Held
    <3>2. ASSUME NEW n \in Contexts, n # c PROVE Held(n)' = Held(n)
      BY <1>1, <1>4, <1>7, <2>1, <3>2 DEF Held
    <3> QED BY <1>1, <3>1, <3>2, LiveIff, Zenon
  <2>5. Paths' /\ Logic'
    BY <1>1, <1>2, <2>4, LogicMove
  <2>6. r.invoker \notin Keys(request_mq[c])
    <3>1. "dispatcher" \in Kinds /\ "request" \in Kinds
      BY DEF Kinds
    <3>2. r.invoker \notin Place("request", c)
      BY <1>2, <1>5, <3>1 DEF Apart
    <3> QED BY <3>2, InRequest DEF Keys
  <2>7. AllDistinct'
    <3>0. Distinct(request_mq[c]) /\ request_mq[c] \in Seq(Requests)
      BY <1>2, <2>0 DEF AllDistinct
    <3>1. Distinct(request_mq'[c])
      BY <1>3, <2>1, <2>6, <3>0, RangeOfAppend
    <3> QED BY <1>1, <1>2, <1>4, <1>7, <2>1, <3>1 DEF AllDistinct
  <2>8. Apart'
    <3>1. ASSUME NEW m \in Kinds, NEW n \in Contexts, NEW y \in Place(m, n)'
          PROVE  y \in Place(m, n) \/ (m = "request" /\ n = c /\ y = r.invoker)
      <4>1. CASE m = "dispatcher"
        <5>1. PICK q \in Range(dispatcher_mq'[n]) : y = q.invoker
          BY <4>1, InDispatcher
        <5>2. q \in Range(dispatcher_mq[n])
          BY <1>4, <5>1, Zenon
        <5> QED BY <4>1, <5>1, <5>2, InDispatcher
      <4>2. CASE m = "request"
        <5>1. PICK q \in Range(request_mq'[n]) : y = q.invoker
          BY <4>2, InRequest
        <5>2. q \in Range(request_mq[n]) \/ (n = c /\ q = r)
          BY <2>1, <5>1, Zenon
        <5> QED BY <4>2, <5>1, <5>2, InRequest
      <4>3. CASE m \in Kinds \ {"dispatcher", "request"}
        BY <1>1, <1>7, <4>3, PlaceStays DEF Kinds
      <4> QED BY <4>1, <4>2, <4>3
    <3>2. "dispatcher" \in Kinds /\ "request" \in Kinds
      BY DEF Kinds
    <3> QED BY <1>2, <1>5, <3>1, <3>2, ApartMove
  <2> QED BY <1>1, <2>2, <2>3, <2>5, <2>7, <2>8 DEF NetworkInv, Ordered
<1>8. CASE /\ InCycle(r) /\ breaker_mq' = [breaker_mq EXCEPT ![c] = Append(@, r)]
            /\ request_mq' = request_mq
  <2>0. breaker_mq \in [Contexts -> Seq(Requests)]
    BY <1>2 DEF TypeOK
  <2>1. /\ breaker_mq \in [Contexts -> Seq(Requests)]
        /\ breaker_mq' \in [Contexts -> Seq(Requests)]
        /\ breaker_mq'[c] = Append(breaker_mq[c], r)
        /\ \A n \in Contexts : n # c => breaker_mq'[n] = breaker_mq[n]
        /\ Range(breaker_mq'[c]) = Range(breaker_mq[c]) \cup {r}
    BY <1>3, <1>8, <2>0, RangeOfAppend
  <2>2. TypeOK'
    BY <1>1, <1>2, <1>4, <1>8, <2>1 DEF TypeOK
  <2>3. Located'
    <3>1. r.receiver = c /\ c \in r.history
      BY <1>2, <1>3, <1>8 DEF Located, LocatedAt, InCycle
    <3> SUFFICES ASSUME NEW n \in Contexts PROVE LocatedAt(n)'
      BY DEF Located
    <3>2. LocatedAt(n)
      BY <1>2 DEF Located
    <3>3. CASE n = c
      BY <1>1, <1>4, <1>8, <2>1, <3>1, <3>2, <3>3 DEF LocatedAt
    <3>4. CASE n # c
      BY <1>1, <1>4, <1>8, <2>1, <3>2, <3>4 DEF LocatedAt
    <3> QED BY <3>3, <3>4
  <2>4. Live' = Live
    <3>1. Held(c)' = Held(c)
      BY <1>1, <1>4, <1>8, <2>1 DEF Held
    <3>2. ASSUME NEW n \in Contexts, n # c PROVE Held(n)' = Held(n)
      BY <1>1, <1>4, <1>8, <2>1, <3>2 DEF Held
    <3> QED BY <1>1, <3>1, <3>2, LiveIff, Zenon
  <2>5. Paths' /\ Logic'
    BY <1>1, <1>2, <2>4, LogicMove
  <2>6. r.invoker \notin Keys(breaker_mq[c])
    <3>1. "dispatcher" \in Kinds /\ "breaker" \in Kinds
      BY DEF Kinds
    <3>2. r.invoker \notin Place("breaker", c)
      BY <1>2, <1>5, <3>1 DEF Apart
    <3> QED BY <3>2, InBreaker DEF Keys
  <2>7. AllDistinct'
    <3>0. Distinct(breaker_mq[c]) /\ breaker_mq[c] \in Seq(Requests)
      BY <1>2, <2>0 DEF AllDistinct
    <3>1. Distinct(breaker_mq'[c])
      BY <1>3, <2>1, <2>6, <3>0, RangeOfAppend
    <3> QED BY <1>1, <1>2, <1>4, <1>8, <2>1, <3>1 DEF AllDistinct
  <2>8. Apart'
    <3>1. ASSUME NEW m \in Kinds, NEW n \in Contexts, NEW y \in Place(m, n)'
          PROVE  y \in Place(m, n) \/ (m = "breaker" /\ n = c /\ y = r.invoker)
      <4>1. CASE m = "dispatcher"
        <5>1. PICK q \in Range(dispatcher_mq'[n]) : y = q.invoker
          BY <4>1, InDispatcher
        <5>2. q \in Range(dispatcher_mq[n])
          BY <1>4, <5>1, Zenon
        <5> QED BY <4>1, <5>1, <5>2, InDispatcher
      <4>2. CASE m = "breaker"
        <5>1. PICK q \in Range(breaker_mq'[n]) : y = q.invoker
          BY <4>2, InBreaker
        <5>2. q \in Range(breaker_mq[n]) \/ (n = c /\ q = r)
          BY <2>1, <5>1, Zenon
        <5> QED BY <4>2, <5>1, <5>2, InBreaker
      <4>3. CASE m \in Kinds \ {"dispatcher", "breaker"}
        BY <1>1, <1>8, <4>3, PlaceStays DEF Kinds
      <4> QED BY <4>1, <4>2, <4>3
    <3>2. "dispatcher" \in Kinds /\ "breaker" \in Kinds
      BY DEF Kinds
    <3> QED BY <1>2, <1>5, <3>1, <3>2, ApartMove
  <2> QED BY <1>1, <2>2, <2>3, <2>5, <2>7, <2>8 DEF NetworkInv, Ordered
<1> QED BY <1>6, <1>7, <1>8

LEMMA NetworkBreakCycle ==
  ASSUME NetworkInv, ~orphaned, NEW c \in Contexts, BreakCycle(c)
  PROVE  NetworkInv'
<1> DEFINE r == Head(breaker_mq[c])
<1>1. /\ breaker_pc[c] = "idle" /\ breaker_mq[c] # <<>>
      /\ breaker_req' = [breaker_req EXCEPT ![c] = r]
      /\ breaker_mq' = [breaker_mq EXCEPT ![c] = Tail(@)]
      /\ breaker_pc' = [breaker_pc EXCEPT ![c] = "computing"]
      /\ UNCHANGED <<neighbors, wire, dispatcher_mq, request_mq, pc, current, asked,
                     marked, round, asks, query_counter, answers, client_pc, orphaned>>
  BY DEF BreakCycle, normal
<1>2. TypeOK /\ Located /\ Paths /\ Apart /\ AllDistinct /\ Logic
  BY DEF NetworkInv, Ordered
<1>d. /\ breaker_mq \in [Contexts -> Seq(Requests)] /\ Distinct(breaker_mq[c])
      /\ breaker_req \in [Contexts -> Requests]
      /\ breaker_pc \in [Contexts -> {"idle", "computing"}]
  BY <1>2 DEF TypeOK, AllDistinct
<1>3. r \in Requests /\ r \in Range(breaker_mq[c])
  BY <1>1, <1>d, RangeOfTail
<1>4. /\ breaker_mq' \in [Contexts -> Seq(Requests)]
      /\ breaker_mq'[c] = Tail(breaker_mq[c])
      /\ \A n \in Contexts : n # c => breaker_mq'[n] = breaker_mq[n]
      /\ Range(breaker_mq[c]) = Range(breaker_mq'[c]) \cup {r}
      /\ Distinct(breaker_mq'[c])
  BY <1>1, <1>d, RangeOfTail
<1>5. r.invoker \in Place("breaker", c) /\ r.invoker \notin Place("breaker", c)'
  <2>1. r.invoker \notin Keys(breaker_mq'[c])
    BY <1>1, <1>4, <1>d, RangeOfTail
  <2>2. r.invoker \in Place("breaker", c)
    BY <1>3, InBreaker
  <2>3. r.invoker \notin Place("breaker", c)'
    BY <2>1, InBreaker DEF Keys
  <2> QED BY <2>2, <2>3
<1> HIDE DEF r
<1>6. /\ breaker_req'[c] = r /\ breaker_pc'[c] = "computing"
      /\ \A n \in Contexts : n # c => breaker_req'[n] = breaker_req[n]
                                      /\ breaker_pc'[n] = breaker_pc[n]
  BY <1>1, <1>d
<1>7. TypeOK'
  BY <1>1, <1>2, <1>3, <1>4, <1>d DEF TypeOK
<1>8. Located'
  BY <1>1, <1>2, <1>3, <1>4, <1>6 DEF Located, LocatedAt
<1>9. Live' = Live
  <2>1. Held(c)' = Held(c)
    BY <1>1, <1>4, <1>6 DEF Held
  <2>2. ASSUME NEW n \in Contexts, n # c PROVE Held(n)' = Held(n)
    BY <1>1, <1>4, <1>6, <2>2 DEF Held
  <2> QED BY <1>1, <2>1, <2>2, LiveIff, Zenon
<1>10. Paths' /\ Logic'
  BY <1>1, <1>2, <1>9, LogicMove
<1>11. AllDistinct'
  BY <1>1, <1>2, <1>4 DEF AllDistinct
<1>12. Apart'
  <2>1. ASSUME NEW m \in Kinds, NEW n \in Contexts, NEW y \in Place(m, n)'
        PROVE  y \in Place(m, n) \/ (m = "cycle" /\ n = c /\ y = r.invoker)
    <3>1. CASE m = "breaker"
      <4>1. PICK q \in Range(breaker_mq'[n]) : y = q.invoker
        BY <3>1, InBreaker
      <4>2. q \in Range(breaker_mq[n])
        BY <1>4, <4>1, Zenon
      <4> QED BY <3>1, <4>1, <4>2, InBreaker
    <3>2. CASE m = "cycle"
      BY <1>6, <3>2, InCycleBreaker
    <3>3. CASE m \in Kinds \ {"breaker", "cycle"}
      BY <1>1, <3>3, PlaceStays DEF Kinds
    <3> QED BY <3>1, <3>2, <3>3
  <2>2. "breaker" \in Kinds /\ "cycle" \in Kinds
    BY DEF Kinds
  <2> QED BY <1>2, <1>5, <2>1, <2>2, ApartMove
<1> QED BY <1>1, <1>7, <1>8, <1>10, <1>11, <1>12 DEF NetworkInv, Ordered
-----------------------------------------------------------------------------
(* The steps of a context.                                                 *)

\* A context that does not wait for neighbors has no request and no answer on
\* the way, and no request has gone through it.
LEMMA NotJoining ==
  ASSUME Located, Logic, NEW c \in Contexts, pc[c] # "joining"
  PROVE  /\ \A r \in Live : r.invoker # c /\ c \notin r.history
         /\ \A a \in answers : a.to # c
         /\ \A m \in Kinds : \A n \in Contexts : c \notin Place(m, n)
<1>1. \A n : ~Waits(c, n)
  BY ClientAssumption DEF Waits
<1>2. \A r \in Live : r.invoker # c
  BY <1>1 DEF Logic, Issued
<1>3. \A r \in Live : c \notin r.history
  BY DEF Logic, Chained
<1>4. \A a \in answers : a.to # c
  BY <1>1 DEF Logic, Issued
<1>5. \A m \in Kinds : \A n \in Contexts : c \notin Place(m, n)
  BY <1>1, PlaceWaits DEF Logic
<1> QED BY <1>2, <1>3, <1>4, <1>5

LEMMA LogicStay ==
  ASSUME TypeOK, Located, Paths, Logic, NEW c \in Contexts, Live' = Live,
         pc[c] # "joining", pc'[c] # "joining",
         \A i \in Contexts \ {c} : pc'[i] = pc[i] /\ current'[i] = current[i],
         UNCHANGED <<neighbors, asked, marked, query_counter, answers, client_pc>>
  PROVE  Paths' /\ Logic'
<1>1. ASSUME NEW r, Reached(r) PROVE Reached(r)'
  BY <1>1 DEF Reached
<1>2. Paths'
  BY <1>1 DEF Paths
<1>3. ASSUME NEW i, NEW n, i # c, Waits(i, n) PROVE Waits(i, n)' /\ History(i)' = History(i)
  BY <1>3, Zenon DEF Waits, History
<1>4. Issued'
  BY <1>3, NotJoining DEF Logic, Issued
<1>5. Chained'
  BY NotJoining DEF Logic, Chained
<1> QED BY <1>2, <1>4, <1>5 DEF Logic

LEMMA LogicAsk ==
  ASSUME TypeOK, Located, Paths, Logic, NEW c \in Contexts, NEW r \in Live,
         r.receiver = c, c \notin r.history, pc[c] # "joining",
         NEW S, S \subseteq neighbors[c], NEW order,
         Live' = Live \cup Forwarded(c, r, S, order),
         /\ pc'[c] = "joining" /\ current'[c] = r /\ asked'[c] = S
         /\ marked'[c] = {} /\ query_counter'[c] = order,
         \A i \in Contexts \ {c} :
           /\ pc'[i] = pc[i] /\ current'[i] = current[i] /\ asked'[i] = asked[i]
           /\ marked'[i] = marked[i],
         \A i \in Invokers \ {c} : query_counter'[i] = query_counter[i],
         UNCHANGED <<neighbors, answers, client_pc>>
  PROVE  Paths' /\ Logic'
<1> DEFINE F == Forwarded(c, r, S, order)
<1>1. \A q \in F : /\ q.invoker = c /\ q.receiver \in S /\ q.order = order
                   /\ q.history = r.history \cup {c}
  BY DEF Forwarded
<1>2. r \in Requests /\ r.invoker \in Invokers /\ c # Client
  BY LiveType, ClientAssumption DEF Requests
<1> HIDE DEF F
<1>3. ASSUME NEW q, Reached(q) PROVE Reached(q)'
  BY <1>3 DEF Reached
<1>4. ASSUME NEW q \in F PROVE Reached(q)'
  <2>1. Reached(r) /\ neighbors' = neighbors
    BY DEF Paths
  <2>2. r.invoker \in Contexts \/ c = Root
    BY <1>2, <2>1 DEF Reached, Invokers
  <2>3. Root \in q.history
    BY <1>1, <2>1, <2>2 DEF Reached
  <2>4. ASSUME NEW d \in Contexts \ q.history, NEW U \in SUBSET Contexts, Root \in U,
               \A x \in U : neighbors[x] \ {d} \subseteq U
        PROVE  c \in U
    <3>1. d # c /\ d \in Contexts \ r.history
      BY <1>1
    <3>2. CASE r.invoker \in Contexts
      <4>1. r.invoker \in U /\ c \in neighbors[r.invoker]
        BY <2>1, <2>4, <3>1, <3>2 DEF Reached
      <4> QED BY <2>4, <3>1, <4>1
    <3> QED BY <2>2, <2>4, <3>2
  <2>5. q.invoker = c /\ q.receiver \in neighbors[c]
    BY <1>1
  <2> QED BY <1>2, <2>1, <2>3, <2>4, <2>5 DEF Reached
<1>5. Paths'
  BY <1>3, <1>4 DEF Paths, F
<1>6. ASSUME NEW i, NEW n, i # c, Waits(i, n)
      PROVE  /\ Waits(i, n)' /\ History(i)' = History(i)
             /\ query_counter'[i] = query_counter[i]
  BY <1>6, Zenon DEF Waits, History, Invokers
<1>7. ASSUME NEW q \in F
      PROVE  /\ Waits(q.invoker, q.receiver)' /\ q.order = query_counter'[q.invoker]
             /\ q.history = History(q.invoker)'
  <2>1. Waits(c, q.receiver)'
    BY <1>1, <1>2 DEF Waits
  <2>2. History(c)' = r.history \cup {c}
    BY <1>2 DEF History
  <2> QED BY <1>1, <2>1, <2>2, Zenon
<1>8. Issued'
  <2>1. ASSUME NEW q \in Live
        PROVE  /\ Waits(q.invoker, q.receiver)' /\ q.order = query_counter'[q.invoker]
               /\ q.history = History(q.invoker)'
    <3>1. q.invoker # c
      BY NotJoining
    <3>2. /\ Waits(q.invoker, q.receiver) /\ q.order = query_counter[q.invoker]
          /\ q.history = History(q.invoker)
      BY DEF Logic, Issued
    <3> QED BY <1>6, <3>1, <3>2
  <2>2. ASSUME NEW a \in answers
        PROVE  Waits(a.to, a.from)' /\ a.order = query_counter'[a.to]
    <3>1. a.to # c
      BY NotJoining
    <3>2. Waits(a.to, a.from) /\ a.order = query_counter[a.to]
      BY DEF Logic, Issued
    <3> QED BY <1>6, <3>1, <3>2
  <2> QED BY <1>7, <2>1, <2>2, Zenon DEF Logic, Issued, F
<1>9. Chained'
  <2>1. ASSUME NEW q \in Live, NEW d \in q.history \cap Contexts
        PROVE  /\ pc'[d] = "joining"
               /\ \E p \in Live' : p.invoker = d /\ Behalf(p, q)
    <3>1. d # c
      BY NotJoining
    <3>2. pc[d] = "joining" /\ \E p \in Live : p.invoker = d /\ Behalf(p, q)
      BY DEF Logic, Chained
    <3> QED BY <3>1, <3>2
  <2>2. ASSUME NEW q \in F, NEW d \in q.history \cap Contexts
        PROVE  /\ pc'[d] = "joining"
               /\ \E p \in Live' : p.invoker = d /\ Behalf(p, q)
    <3>1. CASE d = c
      BY <1>1, <3>1, Zenon DEF Behalf, F
    <3>2. CASE d # c
      <4>0. q.history = r.history \cup {c}
        BY <1>1, Zenon
      <4>1. d \in r.history \cap Contexts
        BY <3>2, <4>0
      <4>2. PICK p \in Live : p.invoker = d /\ Behalf(p, r)
        BY <4>1 DEF Logic, Chained
      <4>3. c \in q.history /\ r.history \subseteq q.history
        BY <4>0
      <4>4. p = r \/ (p.receiver \in r.history /\ p.receiver \notin p.history)
        BY <4>2 DEF Behalf
      <4>5. p.receiver \in q.history /\ p.receiver \notin p.history
        BY <4>3, <4>4
      <4>6. Behalf(p, q)
        BY <4>5 DEF Behalf
      <4> QED BY <2>1, <4>1, <4>2, <4>6
    <3> QED BY <3>1, <3>2
  <2> QED BY <2>1, <2>2 DEF Chained, F
<1> QED BY <1>5, <1>8, <1>9 DEF Logic
\* What Ask does.
Sent(c, r, S, order) ==
  /\ wire' = wire \cup Forwarded(c, r, S, order)
  /\ wire' \subseteq Requests
  /\ \A q \in wire' : q \in wire \/ q.invoker = c
  /\ pc' \in [Contexts -> {"idle", "joining", "joined", "computing", "computed",
                           "ended"}]
  /\ asked' \in [Contexts -> SUBSET Contexts]
  /\ marked' \in [Contexts -> SUBSET Contexts]
  /\ round' \in [Contexts -> {"first_join", "next_join", "one"}]
  /\ asks' \in [Contexts -> Nat]
  /\ query_counter' \in [Invokers -> Nat]
  /\ pc'[c] = "joining" /\ asked'[c] = S /\ marked'[c] = {}
  /\ query_counter'[c] = order
  /\ \A i \in Contexts \ {c} :
       pc'[i] = pc[i] /\ asked'[i] = asked[i] /\ marked'[i] = marked[i]
  /\ \A i \in Invokers \ {c} : query_counter'[i] = query_counter[i]

LEMMA AskSends ==
  ASSUME TypeOK, NEW c \in Contexts, NEW r \in Requests, NEW S \in SUBSET Contexts,
         NEW order \in Nat, NEW how \in {"first_join", "next_join", "one"},
         NEW count \in Nat, Ask(c, r, S, order, how, count)
  PROVE  Sent(c, r, S, order)
<1>1. Forwarded(c, r, S, order) \subseteq Requests
  BY DEF Forwarded, Requests, Invokers
<1>2. wire' \subseteq Requests /\ wire' = wire \cup Forwarded(c, r, S, order)
  BY <1>1 DEF Ask, TypeOK
<1>f. \A q \in wire' : q \in wire \/ q.invoker = c
  BY <1>2 DEF Forwarded
<1>3. /\ pc' \in [Contexts -> {"idle", "joining", "joined", "computing",
                               "computed", "ended"}]
      /\ pc'[c] = "joining" /\ \A i \in Contexts \ {c} : pc'[i] = pc[i]
  BY DEF Ask, TypeOK
<1>4. /\ asked' \in [Contexts -> SUBSET Contexts] /\ asked'[c] = S
      /\ marked' \in [Contexts -> SUBSET Contexts] /\ marked'[c] = {}
      /\ \A i \in Contexts \ {c} : asked'[i] = asked[i] /\ marked'[i] = marked[i]
  BY DEF Ask, TypeOK
<1>5. /\ round' \in [Contexts -> {"first_join", "next_join", "one"}]
      /\ asks' \in [Contexts -> Nat]
  BY DEF Ask, TypeOK
<1>6. /\ query_counter' \in [Invokers -> Nat] /\ query_counter'[c] = order
      /\ \A i \in Invokers \ {c} : query_counter'[i] = query_counter[i]
  BY DEF Ask, TypeOK, Invokers
<1> QED BY <1>2, <1>3, <1>4, <1>5, <1>6, <1>f, Zenon DEF Sent

LEMMA NetworkTakeRequest ==
  ASSUME NetworkInv, ~orphaned, NEW c \in Contexts, TakeRequest(c)
  PROVE  NetworkInv'
<1> DEFINE r == Head(request_mq[c])
           N == neighbors[c]
           order == query_counter[c] + 1
<1>1. /\ pc[c] = "idle" /\ request_mq[c] # <<>>
      /\ current' = [current EXCEPT ![c] = r]
      /\ request_mq' = [request_mq EXCEPT ![c] = Tail(@)]
      /\ UNCHANGED <<neighbors, dispatcher_mq, breaker_mq, breaker_pc, breaker_req,
                     answers, client_pc, orphaned>>
  BY DEF TakeRequest, breaker
<1>2. TypeOK /\ Located /\ Paths /\ Apart /\ AllDistinct /\ Logic
  BY DEF NetworkInv, Ordered
<1>d. /\ request_mq \in [Contexts -> Seq(Requests)] /\ Distinct(request_mq[c])
      /\ current \in [Contexts -> Requests] /\ N \in SUBSET Contexts
      /\ order \in Nat /\ c \in Invokers
  BY <1>2 DEF TypeOK, AllDistinct, Invokers
<1>3. r \in Requests /\ r \in Range(request_mq[c])
  BY <1>1, <1>d, RangeOfTail
<1>4. /\ request_mq' \in [Contexts -> Seq(Requests)]
      /\ request_mq'[c] = Tail(request_mq[c])
      /\ \A n \in Contexts : n # c => request_mq'[n] = request_mq[n]
      /\ Range(request_mq[c]) = Range(request_mq'[c]) \cup {r}
      /\ Distinct(request_mq'[c])
  BY <1>1, <1>d, RangeOfTail
<1>5. r.invoker \in Place("request", c) /\ r.invoker \notin Place("request", c)'
  <2>1. r.invoker \notin Keys(request_mq'[c])
    BY <1>1, <1>4, <1>d, RangeOfTail
  <2>2. r.invoker \in Place("request", c)
    BY <1>3, InRequest
  <2>3. r.invoker \notin Place("request", c)'
    BY <2>1, InRequest DEF Keys
  <2> QED BY <2>2, <2>3
<1>b. \/ Ask(c, r, N, order, "first_join", 1)
      \/ /\ pc' = [pc EXCEPT ![c] = "joined"]
         /\ UNCHANGED <<wire, query_counter, asked, marked, round, asks>>
  BY Zenon DEF TakeRequest
<1> HIDE DEF r, N, order
<1>6. /\ current' \in [Contexts -> Requests] /\ current'[c] = r
      /\ \A i \in Contexts \ {c} : current'[i] = current[i]
  BY <1>1, <1>3, <1>d
<1>7. r \in Live /\ r.receiver = c /\ c \notin r.history
  BY <1>2, <1>3, LiveIff DEF Located, LocatedAt, Held
<1>8. AllDistinct'
  BY <1>1, <1>2, <1>4 DEF AllDistinct
<1>9. ASSUME pc'[c] # "idle", \A i \in Contexts \ {c} : pc'[i] = pc[i]
      PROVE  /\ Located'
             /\ \A n \in Contexts : Held(n)' = Held(n)
             /\ \A m \in Kinds \ {"wire"} : \A n \in Contexts : \A y \in Place(m, n)' :
                  y \in Place(m, n) \/ (m = "context" /\ n = c /\ y = r.invoker)
  <2>1. ASSUME NEW n \in Contexts PROVE LocatedAt(n)'
    <3>1. LocatedAt(n)
      BY <1>2 DEF Located
    <3>2. CASE n = c
      BY <1>1, <1>4, <1>6, <1>7, <3>1, <3>2, Zenon DEF LocatedAt
    <3>3. CASE n # c
      BY <1>1, <1>4, <1>6, <1>9, <3>1, <3>3, Zenon DEF LocatedAt
    <3> QED BY <3>2, <3>3
  <2>2. Held(c)' = Held(c)
    BY <1>1, <1>4, <1>6, <1>9, Zenon DEF Held
  <2>3. ASSUME NEW n \in Contexts, n # c PROVE Held(n)' = Held(n)
    BY <1>1, <1>4, <1>6, <1>9, <2>3 DEF Held
  <2>4. ASSUME NEW m \in Kinds \ {"wire"}, NEW n \in Contexts, NEW y \in Place(m, n)'
        PROVE  y \in Place(m, n) \/ (m = "context" /\ n = c /\ y = r.invoker)
    <3>1. CASE m = "request"
      <4>1. PICK q \in Range(request_mq'[n]) : y = q.invoker
        BY <3>1, InRequest
      <4>2. q \in Range(request_mq[n])
        BY <1>4, <4>1, Zenon
      <4> QED BY <3>1, <4>1, <4>2, InRequest
    <3>2. CASE m = "context"
      BY <1>6, <1>9, <3>2, InContext
    <3>3. CASE m \in Kinds \ {"wire", "request", "context"}
      BY <1>1, <3>3, PlaceStays DEF Kinds
    <3> QED BY <3>1, <3>2, <3>3
  <2> QED BY <2>1, <2>2, <2>3, <2>4 DEF Located
<1>k. "request" \in Kinds /\ "context" \in Kinds /\ "wire" \in Kinds
  BY DEF Kinds
<1>10. CASE Ask(c, r, N, order, "first_join", 1)
  <2>1. Sent(c, r, N, order)
    BY <1>2, <1>3, <1>10, <1>d, AskSends, Zenon
  <2>2. TypeOK'
    <3>1. request_mq' \in [Contexts -> Seq(Requests)] /\ current' \in [Contexts -> Requests]
      BY <1>4, <1>6
    <3>2. UNCHANGED <<neighbors, dispatcher_mq, breaker_mq, breaker_pc, breaker_req,
                      answers, client_pc, orphaned>>
      BY <1>1
    <3>3. /\ wire' \subseteq Requests
          /\ pc' \in [Contexts -> {"idle", "joining", "joined", "computing",
                                   "computed", "ended"}]
          /\ asked' \in [Contexts -> SUBSET Contexts]
          /\ marked' \in [Contexts -> SUBSET Contexts]
          /\ round' \in [Contexts -> {"first_join", "next_join", "one"}]
          /\ asks' \in [Contexts -> Nat]
          /\ query_counter' \in [Invokers -> Nat]
      BY <2>1, Zenon DEF Sent
    <3> QED BY <1>2, <3>1, <3>2, <3>3, Zenon DEF TypeOK
  <2>3. Located' /\ Live' = Live \cup Forwarded(c, r, N, order)
    <3>1. Located' /\ \A n \in Contexts : Held(n)' = Held(n)
      BY <1>9, <2>1, Zenon DEF Sent
    <3> QED BY <2>1, <3>1, LiveGrows, Zenon DEF Sent
  <2>4. Paths' /\ Logic'
    <3>1. pc[c] # "joining" /\ N \subseteq neighbors[c]
      BY <1>1 DEF N
    <3>2. \A i \in Contexts \ {c} :
            /\ pc'[i] = pc[i] /\ current'[i] = current[i] /\ asked'[i] = asked[i]
            /\ marked'[i] = marked[i]
      BY <1>6, <2>1 DEF Sent
    <3> QED BY <1>1, <1>2, <1>6, <1>7, <2>1, <2>3, <3>1, <3>2, LogicAsk, Zenon DEF Sent
  <2>5. Apart'
    <3>1. \A m \in Kinds : \A n \in Contexts : c \notin Place(m, n)
      BY <1>1, <1>2, NotJoining
    <3>2. ASSUME NEW n \in Contexts, NEW y \in Place("wire", n)'
          PROVE  y \in Place("wire", n) \/ y = c
      <4>1. PICK q \in wire' : q.receiver = n /\ y = q.invoker
        BY ONLY <3>2, InWire, SMT
      <4>2. q \in wire \/ q.invoker = c
        BY <2>1, <4>1 DEF Sent
      <4> QED BY <4>1, <4>2, InWire
    <3>3. ASSUME NEW m \in Kinds, NEW n \in Contexts, NEW y \in Place(m, n)'
          PROVE  \/ y \in Place(m, n)
                 \/ m = "context" /\ n = c /\ y = r.invoker
                 \/ m = "wire" /\ y = c
      <4>1. pc'[c] # "idle" /\ \A i \in Contexts \ {c} : pc'[i] = pc[i]
        BY <2>1, Zenon DEF Sent
      <4>2. CASE m = "wire"
        BY <3>2, <4>2
      <4>3. CASE m # "wire"
        BY <1>9, <4>1, <4>3
      <4> QED BY <4>2, <4>3
    <3> QED BY <1>2, <1>5, <1>d, <1>k, <3>1, <3>3, ApartMoveAndNew
  <2> QED BY <1>1, <1>8, <2>2, <2>3, <2>4, <2>5 DEF NetworkInv, Ordered
<1>11. CASE /\ pc' = [pc EXCEPT ![c] = "joined"]
            /\ UNCHANGED <<wire, query_counter, asked, marked, round, asks>>
  <2>1. /\ pc' \in [Contexts -> {"idle", "joining", "joined", "computing",
                                 "computed", "ended"}]
        /\ pc'[c] = "joined" /\ \A i \in Contexts \ {c} : pc'[i] = pc[i]
    BY <1>2, <1>11 DEF TypeOK
  <2>2. TypeOK'
    <3>1. request_mq' \in [Contexts -> Seq(Requests)] /\ current' \in [Contexts -> Requests]
      BY <1>4, <1>6
    <3>2. UNCHANGED <<neighbors, dispatcher_mq, breaker_mq, breaker_pc, breaker_req,
                      answers, client_pc, orphaned>>
      BY <1>1
    <3>3. UNCHANGED <<wire, query_counter, asked, marked, round, asks>>
      BY <1>11
    <3> QED BY <1>2, <2>1, <3>1, <3>2, <3>3, Zenon DEF TypeOK
  <2>3. Located' /\ Live' = Live
    <3>1. Located' /\ \A n \in Contexts : Held(n)' = Held(n)
      BY <1>9, <2>1
    <3> QED BY <1>11, <3>1, LiveStays
  <2>4. Paths' /\ Logic'
    <3>1. pc[c] # "joining" /\ pc'[c] # "joining"
      BY <1>1, <2>1
    <3> QED BY <1>1, <1>2, <1>6, <1>11, <2>1, <2>3, <3>1, LogicStay
  <2>5. Apart'
    <3>1. ASSUME NEW m \in Kinds, NEW n \in Contexts, NEW y \in Place(m, n)'
          PROVE  y \in Place(m, n) \/ (m = "context" /\ n = c /\ y = r.invoker)
      <4>1. Place("wire", n)' = Place("wire", n)
        BY <1>11, PlaceStays
      <4> QED BY <1>9, <2>1, <4>1
    <3> QED BY <1>2, <1>5, <1>k, <3>1, ApartMove
  <2> QED BY <1>1, <1>8, <2>2, <2>3, <2>4, <2>5 DEF NetworkInv, Ordered
<1> QED BY <1>b, <1>10, <1>11
LEMMA NetworkAskNext ==
  ASSUME NetworkInv, ~orphaned, NEW c \in Contexts, NEW n \in Contexts, AskNext(c, n)
  PROVE  NetworkInv'
<1> DEFINE r == current[c]
<1>1. /\ pc[c] # "joining" /\ pc[c] # "idle"
      /\ UNCHANGED <<neighbors, dispatcher_mq, request_mq, breaker_mq, current,
                     breaker_pc, breaker_req, answers, client_pc, orphaned>>
  BY DEF AskNext, queues, breaker
<1>2. TypeOK /\ Located /\ Paths /\ Apart /\ AllDistinct /\ Logic
  BY DEF NetworkInv, Ordered
<1>3. /\ r \in Requests /\ c \in Invokers /\ neighbors[c] \in SUBSET Contexts
      /\ query_counter[c] \in Nat /\ asks[c] + 1 \in Nat
  BY <1>2 DEF TypeOK, Invokers
<1>4. \E S \in SUBSET neighbors[c], o \in Nat, how \in {"first_join", "next_join", "one"} :
        Ask(c, r, S, o, how, asks[c] + 1)
  <2> DEFINE o == IF pc[c] = "computed" THEN query_counter[c] + 1 ELSE query_counter[c]
             before == {m \in neighbors[c] : m < n}
  <2>1. o \in Nat /\ {n} \in SUBSET neighbors[c] /\ before \in SUBSET neighbors[c]
    <3>1. o \in Nat
      BY <1>3
    <3>2. {n} \in SUBSET neighbors[c]
      BY DEF AskNext
    <3>3. before \in SUBSET neighbors[c]
      OBVIOUS
    <3> QED BY <3>1, <3>2, <3>3
  <2>2. \/ Ask(c, r, {n}, o, "one", asks[c] + 1)
        \/ Ask(c, r, before, o, "next_join", asks[c] + 1)
    BY DEF AskNext
  <2> HIDE DEF o, before, r
  <2> QED BY <2>1, <2>2
<1>5. PICK S \in SUBSET neighbors[c], order \in Nat,
           how \in {"first_join", "next_join", "one"} :
        Ask(c, r, S, order, how, asks[c] + 1)
  BY <1>4
<1> HIDE DEF r
<1>6. Sent(c, r, S, order)
  <2>1. S \in SUBSET Contexts
    BY <1>3, <1>5
  <2> QED BY <1>2, <1>3, <1>5, <2>1, AskSends, Zenon
<1>7. TypeOK'
  <2>1. /\ wire' \subseteq Requests
        /\ pc' \in [Contexts -> {"idle", "joining", "joined", "computing",
                                 "computed", "ended"}]
        /\ asked' \in [Contexts -> SUBSET Contexts]
        /\ marked' \in [Contexts -> SUBSET Contexts]
        /\ round' \in [Contexts -> {"first_join", "next_join", "one"}]
        /\ asks' \in [Contexts -> Nat]
        /\ query_counter' \in [Invokers -> Nat]
    BY <1>6, Zenon DEF Sent
  <2> QED BY <1>1, <1>2, <2>1, SMTT(30) DEF TypeOK
<1>8. r.receiver = c /\ c \notin r.history /\ r \in Live
  BY <1>1, <1>2, LiveIff, Zenon DEF Located, LocatedAt, Held, r
<1>9. Located'
  <2>1. \A m \in Contexts : pc'[m] = "idle" <=> pc[m] = "idle"
    BY <1>1, <1>6, Zenon DEF Sent
  <2>2. ASSUME NEW m \in Contexts PROVE LocatedAt(m)'
    <3>1. LocatedAt(m)
      BY <1>2 DEF Located
    <3> QED BY <1>1, <2>1, <3>1 DEF LocatedAt
  <2> QED BY <2>2 DEF Located
<1>10. \A m \in Contexts : Held(m)' = Held(m)
  <2>1. \A m \in Contexts : pc'[m] = "idle" <=> pc[m] = "idle"
    BY <1>1, <1>6 DEF Sent
  <2> QED BY <1>1, <2>1 DEF Held
<1>11. Live' = Live \cup Forwarded(c, r, S, order)
  BY <1>6, <1>10, LiveGrows DEF Sent
<1>12. Paths' /\ Logic'
  <2>1. \A i \in Contexts \ {c} :
          /\ pc'[i] = pc[i] /\ current'[i] = current[i] /\ asked'[i] = asked[i]
          /\ marked'[i] = marked[i]
    BY <1>1, <1>6, Zenon DEF Sent
  <2>2. current'[c] = r /\ S \subseteq neighbors[c]
    BY <1>1, <1>5, Zenon DEF r
  <2> QED BY <1>1, <1>2, <1>6, <1>8, <1>11, <2>1, <2>2, LogicAsk, Zenon DEF Sent
<1>13. AllDistinct'
  BY <1>1, <1>2, Zenon DEF AllDistinct
<1>14. Apart'
  <2>1. \A m \in Kinds : \A x \in Contexts : c \notin Place(m, x)
    BY <1>1, <1>2, NotJoining, Zenon
  <2>2. ASSUME NEW m \in Kinds, NEW x \in Contexts, NEW y \in Place(m, x)'
        PROVE  y \in Place(m, x) \/ (m = "wire" /\ y = c)
    <3>1. CASE m = "wire"
      <4>a. y \in Place("wire", x)'
        BY <3>1
      <4>1. PICK q \in wire' : q.receiver = x /\ y = q.invoker
        BY ONLY <4>a, InWire, SMT
      <4>2. q \in wire \/ q.invoker = c
        BY <1>6, <4>1, Zenon DEF Sent
      <4> QED BY <3>1, <4>1, <4>2, InWire, Zenon
    <3>2. CASE m = "context"
      <4>1. pc'[x] = "idle" <=> pc[x] = "idle"
        BY <1>1, <1>6, Zenon DEF Sent
      <4> QED BY <1>1, <3>2, <4>1, InContext, Zenon
    <3>3. CASE m \in Kinds \ {"wire", "context"}
      BY <1>1, <3>3, PlaceStays, Zenon DEF Kinds
    <3> QED BY <3>1, <3>2, <3>3, Zenon
  <2> QED BY <1>2, <1>3, <2>1, <2>2, ApartNew, Zenon
<1> QED BY <1>1, <1>7, <1>9, <1>12, <1>13, <1>14 DEF NetworkInv, Ordered

\* Steps of a context that only change where it is.
LEMMA NetworkCompute ==
  ASSUME NetworkInv, ~orphaned, NEW c \in Contexts, Compute(c) \/ ComputeEnds(c)
  PROVE  NetworkInv'
<1>1. /\ pc[c] # "joining" /\ pc[c] # "idle"
      /\ \/ pc' = [pc EXCEPT ![c] = "computing"]
         \/ pc' = [pc EXCEPT ![c] = "computed"]
      /\ UNCHANGED <<neighbors, wire, dispatcher_mq, request_mq, breaker_mq, current,
                     asked, marked, round, asks, query_counter, breaker_pc,
                     breaker_req, answers, client_pc, orphaned>>
  BY DEF Compute, ComputeEnds, queues, breaker
<1>2. TypeOK /\ Located /\ Paths /\ Apart /\ AllDistinct /\ Logic
  BY DEF NetworkInv, Ordered
<1>3. /\ pc' \in [Contexts -> {"idle", "joining", "joined", "computing",
                               "computed", "ended"}]
      /\ pc'[c] # "joining" /\ pc'[c] # "idle"
      /\ \A i \in Contexts \ {c} : pc'[i] = pc[i]
  BY <1>1, <1>2, Zenon DEF TypeOK
<1>4. \A m \in Contexts : pc'[m] = "idle" <=> pc[m] = "idle"
  BY <1>1, <1>3
<1>5. TypeOK'
  BY <1>1, <1>2, <1>3 DEF TypeOK
<1>6. Located' /\ AllDistinct'
  BY <1>1, <1>2, <1>4, Zenon DEF Located, LocatedAt, AllDistinct
<1>7. \A m \in Contexts : Held(m)' = Held(m)
  BY <1>1, <1>4, Zenon DEF Held
<1>8. Live' = Live
  BY <1>1, <1>7, LiveStays
<1>9. Paths' /\ Logic'
  BY <1>1, <1>2, <1>3, <1>8, LogicStay
<1>10. Apart'
  <2>1. ASSUME NEW m \in Kinds, NEW x \in Contexts, NEW y \in Place(m, x)'
        PROVE  y \in Place(m, x)
    <3>1. CASE m = "context"
      BY <1>1, <1>4, <3>1, InContext
    <3>2. CASE m \in Kinds \ {"context"}
      BY <1>1, <3>2, PlaceStays DEF Kinds
    <3> QED BY <3>1, <3>2
  <2> QED BY <1>2, <2>1 DEF Apart
<1> QED BY <1>1, <1>5, <1>6, <1>9, <1>10 DEF NetworkInv, Ordered
\* Request q is answered: no request that was sent on its behalf is left.
LEMMA LogicAnswer ==
  ASSUME Paths, Logic, NEW q \in Live, NEW empty,
         Live' \subseteq Live, Live \subseteq Live' \cup {q},
         \A r \in Live : ~(q.receiver \in r.history /\ q.receiver \notin q.history),
         \A a \in answers : ~(a.from = q.receiver /\ a.to = q.invoker),
         answers' = answers \cup {Answer(q, empty)},
         \A i \in Contexts : pc[i] = "joining" => pc'[i] = "joining",
         UNCHANGED <<neighbors, current, asked, marked, query_counter, client_pc>>
  PROVE  Paths' /\ Logic'
<1>1. ASSUME NEW r, Reached(r) PROVE Reached(r)'
  BY <1>1, Zenon DEF Reached
<1>2. Paths'
  BY <1>1, Zenon DEF Paths
<1>3. ASSUME NEW i, NEW n, Waits(i, n) PROVE Waits(i, n)'
  BY <1>3, Zenon DEF Waits
<1>4. ASSUME NEW i PROVE History(i)' = History(i)
  BY Zenon DEF History
<1>5. ASSUME NEW a \in answers'
      PROVE  a \in answers \/ (a.to = q.invoker /\ a.from = q.receiver /\ a.order = q.order
                              /\ a = Answer(q, empty))
  <2>1. a \in answers \/ a = Answer(q, empty)
    OBVIOUS
  <2>2. /\ Answer(q, empty).to = q.invoker /\ Answer(q, empty).from = q.receiver
        /\ Answer(q, empty).order = q.order
    BY DEF Answer
  <2> QED BY <2>1, <2>2
<1>6. Issued'
  <2>1. \A r \in Live' : /\ Waits(r.invoker, r.receiver)'
                        /\ r.order = query_counter'[r.invoker]
                        /\ r.history = History(r.invoker)'
    BY <1>3, <1>4, Zenon DEF Logic, Issued
  <2>2. \A a \in answers' : Waits(a.to, a.from)' /\ a.order = query_counter'[a.to]
    BY <1>3, <1>5, Zenon DEF Logic, Issued
  <2>3. ASSUME NEW a \in answers', NEW b \in answers', a.from = b.from, a.to = b.to
        PROVE  a = b
    BY <1>5, <2>3, Zenon DEF Logic, Issued
  <2> QED BY <2>1, <2>2, <2>3, Zenon DEF Issued
<1>7. Chained'
  <2>1. ASSUME NEW r \in Live', NEW d \in r.history \cap Contexts
        PROVE  /\ pc'[d] = "joining"
               /\ \E p \in Live' : p.invoker = d /\ Behalf(p, r)
    <3>1. r \in Live /\ pc[d] = "joining" /\ \E p \in Live : p.invoker = d /\ Behalf(p, r)
      BY DEF Logic, Chained
    <3>2. PICK p \in Live : p.invoker = d /\ Behalf(p, r)
      BY <3>1, Zenon
    <3>3. p = r \/ p # q
      BY <3>1, <3>2 DEF Behalf
    <3>4. p \in Live'
      BY <3>3
    <3> QED BY <3>1, <3>2, <3>4
  <2> QED BY <2>1 DEF Chained
<1> QED BY <1>2, <1>6, <1>7 DEF Logic

\* The types of an answer, and the place where it is kept.
LEMMA AnswerType ==
  ASSUME TypeOK, NEW q \in Requests, NEW empty \in BOOLEAN,
         answers' = answers \cup {Answer(q, empty)}
  PROVE  /\ answers' \subseteq Answers
         /\ \A n \in Contexts : \A y \in Place("answer", n)' :
              y \in Place("answer", n) \/ (n = q.receiver /\ y = q.invoker)
<1>1. /\ Answer(q, empty) \in Answers /\ Answer(q, empty).from = q.receiver
      /\ Answer(q, empty).to = q.invoker
  BY DEF Answer, Answers, Requests
<1>2. ASSUME NEW n \in Contexts, NEW y \in Place("answer", n)'
      PROVE  y \in Place("answer", n) \/ (n = q.receiver /\ y = q.invoker)
  <2>1. PICK a \in answers' : a.from = n /\ y = a.to
    BY InAnswer
  <2> QED BY <1>1, <2>1, InAnswer
<1> QED BY <1>1, <1>2 DEF TypeOK

LEMMA NetworkSendMarker ==
  ASSUME NetworkInv, ~orphaned, NEW c \in Contexts, NEW empty \in BOOLEAN,
         SendMarker(c, empty)
  PROVE  NetworkInv'
<1> DEFINE q == current[c]
<1>1. /\ pc[c] # "joining" /\ pc[c] # "idle"
      /\ pc' = [pc EXCEPT ![c] = "idle"]
      /\ answers' = answers \cup {Answer(q, empty)}
      /\ UNCHANGED <<neighbors, wire, dispatcher_mq, request_mq, breaker_mq, current,
                     asked, marked, round, asks, query_counter, breaker_pc,
                     breaker_req, client_pc, orphaned>>
  BY DEF SendMarker, queues, breaker
<1>2. TypeOK /\ Located /\ Paths /\ Apart /\ AllDistinct /\ Logic
  BY DEF NetworkInv, Ordered
<1>3. /\ pc' \in [Contexts -> {"idle", "joining", "joined", "computing",
                               "computed", "ended"}]
      /\ pc'[c] = "idle" /\ \A i \in Contexts \ {c} : pc'[i] = pc[i]
  BY <1>1, <1>2 DEF TypeOK
<1>4. q \in Requests /\ q \in Live /\ q.receiver = c
  BY <1>1, <1>2, LiveIff, Zenon DEF TypeOK, Located, LocatedAt, Held
<1> HIDE DEF q
<1>5. TypeOK'
  BY <1>1, <1>2, <1>3, <1>4, AnswerType, Zenon DEF TypeOK
<1>6. Located' /\ AllDistinct'
  BY <1>1, <1>2, <1>3, Zenon DEF Located, LocatedAt, AllDistinct
<1>7. Live' \subseteq Live /\ Live \subseteq Live' \cup {q}
  <2>1. Held(c)' \subseteq Held(c) /\ Held(c) \subseteq Held(c)' \cup {q}
    BY <1>1, <1>3, Zenon DEF Held, q
  <2>2. ASSUME NEW n \in Contexts, n # c PROVE Held(n)' = Held(n)
    BY <1>1, <1>3, <2>2, Zenon DEF Held
  <2> QED BY <1>1, <2>1, <2>2, LiveIff
<1>8. q.invoker \in Place("context", c) /\ q.invoker \notin Place("context", c)'
  BY <1>1, <1>3, InContext DEF q
<1>9. "context" \in Kinds /\ "answer" \in Kinds
  BY DEF Kinds
<1>10. \A a \in answers : ~(a.from = c /\ a.to = q.invoker)
  <2>1. q.invoker \notin Place("answer", c)
    BY <1>2, <1>8, <1>9 DEF Apart
  <2> QED BY <2>1, InAnswer
<1>11. Paths' /\ Logic'
  <2>1. \A r \in Live : c \notin r.history
    BY <1>1, <1>2, NotJoining
  <2>2. \A i \in Contexts : pc[i] = "joining" => pc'[i] = "joining"
    BY <1>1, <1>3
  <2>3. UNCHANGED <<neighbors, current, asked, marked, query_counter, client_pc>>
    BY <1>1
  <2> QED BY <1>1, <1>2, <1>4, <1>7, <1>10, <2>1, <2>2, <2>3, LogicAnswer, Zenon
<1>12. Apart'
  <2>1. ASSUME NEW m \in Kinds, NEW n \in Contexts, NEW y \in Place(m, n)'
        PROVE  y \in Place(m, n) \/ (m = "answer" /\ n = c /\ y = q.invoker)
    <3>1. CASE m = "answer"
      BY <1>1, <1>2, <1>4, <3>1, AnswerType
    <3>2. CASE m = "context"
      BY <1>1, <1>3, <3>2, InContext, Zenon
    <3>3. CASE m \in Kinds \ {"answer", "context"}
      BY <1>1, <3>3, PlaceStays DEF Kinds
    <3> QED BY <3>1, <3>2, <3>3
  <2> QED BY <1>2, <1>8, <1>9, <2>1, ApartMove
<1> QED BY <1>1, <1>5, <1>6, <1>11, <1>12 DEF NetworkInv, Ordered

LEMMA NetworkBreakerSendMarker ==
  ASSUME NetworkInv, ~orphaned, NEW c \in Contexts, NEW empty \in BOOLEAN,
         BreakerSendMarker(c, empty)
  PROVE  NetworkInv'
<1> DEFINE q == breaker_req[c]
<1>1. /\ breaker_pc[c] # "idle"
      /\ breaker_pc' = [breaker_pc EXCEPT ![c] = "idle"]
      /\ answers' = answers \cup {Answer(q, empty)}
      /\ UNCHANGED <<neighbors, wire, dispatcher_mq, request_mq, breaker_mq, pc, current,
                     asked, marked, round, asks, query_counter, breaker_req,
                     client_pc, orphaned>>
  BY Zenon DEF BreakerSendMarker, queues, normal
<1>2. TypeOK /\ Located /\ Paths /\ Apart /\ AllDistinct /\ Logic
  BY DEF NetworkInv, Ordered
<1>3. /\ breaker_pc' \in [Contexts -> {"idle", "computing"}]
      /\ breaker_pc'[c] = "idle"
      /\ \A i \in Contexts \ {c} : breaker_pc'[i] = breaker_pc[i]
  BY <1>1, <1>2 DEF TypeOK
<1>4. q \in Requests /\ q \in Live /\ q.receiver = c /\ c \in q.history
  BY <1>1, <1>2, LiveIff, Zenon DEF TypeOK, Located, LocatedAt, Held
<1> HIDE DEF q
<1>5. TypeOK'
  BY <1>1, <1>2, <1>3, <1>4, AnswerType, Zenon DEF TypeOK
<1>6. Located' /\ AllDistinct'
  BY <1>1, <1>2, <1>3, Zenon DEF Located, LocatedAt, AllDistinct
<1>7. Live' \subseteq Live /\ Live \subseteq Live' \cup {q}
  <2>1. Held(c)' \subseteq Held(c) /\ Held(c) \subseteq Held(c)' \cup {q}
    BY <1>1, <1>3, Zenon DEF Held, q
  <2>2. ASSUME NEW n \in Contexts, n # c PROVE Held(n)' = Held(n)
    BY <1>1, <1>3, <2>2, Zenon DEF Held
  <2> QED BY <1>1, <2>1, <2>2, LiveIff
<1>8. q.invoker \in Place("cycle", c) /\ q.invoker \notin Place("cycle", c)'
  BY <1>1, <1>3, InCycleBreaker DEF q
<1>9. "cycle" \in Kinds /\ "answer" \in Kinds
  BY DEF Kinds
<1>10. \A a \in answers : ~(a.from = c /\ a.to = q.invoker)
  <2>1. q.invoker \notin Place("answer", c)
    BY <1>2, <1>8, <1>9 DEF Apart
  <2> QED BY <2>1, InAnswer
<1>11. Paths' /\ Logic'
  <2>1. UNCHANGED <<neighbors, current, asked, marked, query_counter, client_pc>>
    BY <1>1
  <2> QED BY <1>1, <1>2, <1>4, <1>7, <1>10, <2>1, LogicAnswer, Zenon
<1>12. Apart'
  <2>1. ASSUME NEW m \in Kinds, NEW n \in Contexts, NEW y \in Place(m, n)'
        PROVE  y \in Place(m, n) \/ (m = "answer" /\ n = c /\ y = q.invoker)
    <3>1. CASE m = "answer"
      BY <1>1, <1>2, <1>4, <3>1, AnswerType, Zenon
    <3>2. CASE m = "cycle"
      BY <1>1, <1>3, <3>2, InCycleBreaker, Zenon
    <3>3. CASE m \in Kinds \ {"answer", "cycle"}
      BY <1>1, <3>3, PlaceStays, Zenon DEF Kinds
    <3> QED BY <3>1, <3>2, <3>3
  <2> QED BY <1>2, <1>8, <1>9, <2>1, ApartMove
<1> QED BY <1>1, <1>5, <1>6, <1>11, <1>12 DEF NetworkInv, Ordered
\* A context reads the answer of a neighbor.  When its join ends, it has read all
\* the answers it waits for, or the network is orphaned.
LEMMA NetworkReceivePack ==
  ASSUME NetworkInv, ~orphaned, NEW c \in Contexts, NEW a \in answers, ReceivePack(c, a)
  PROVE  NetworkInv'
<1> DEFINE left == asked[c] \ marked'[c]
<1>1. /\ pc[c] = "joining" /\ a.to = c
      /\ answers' = answers \ {a}
      /\ marked' = [marked EXCEPT ![c] = @ \cup {a.from}]
      /\ UNCHANGED <<neighbors, wire, dispatcher_mq, request_mq, breaker_mq, current,
                     asked, round, asks, query_counter, breaker_pc, breaker_req,
                     client_pc>>
  BY Zenon DEF ReceivePack, queues, breaker
<1>2. TypeOK /\ Located /\ Paths /\ Apart /\ AllDistinct /\ Logic
  BY DEF NetworkInv, Ordered
<1>3. a.from \in Contexts
  BY <1>2 DEF TypeOK, Answers
<1>4. /\ marked' \in [Contexts -> SUBSET Contexts]
      /\ marked'[c] = marked[c] \cup {a.from}
      /\ \A i \in Contexts \ {c} : marked'[i] = marked[i]
  <2>1. marked \in [Contexts -> SUBSET Contexts]
    BY <1>2 DEF TypeOK
  <2>2. marked[c] \cup {a.from} \in SUBSET Contexts
    BY <1>3, <2>1
  <2> QED BY <1>1, <2>1, <2>2
<1>5. /\ orphaned' \in BOOLEAN
      /\ \E v \in {"joining", "joined", "ended"} :
           /\ pc' = [pc EXCEPT ![c] = v]
           /\ ~orphaned' /\ v # "joining" => left = {}
  <2>1. CASE /\ pc' = [pc EXCEPT ![c] = "joined"]
             /\ orphaned' = (orphaned \/ left # {})
    BY <2>1, Zenon
  <2>2. CASE /\ pc' = [pc EXCEPT ![c] = IF round[c] = "first_join" THEN "ended" ELSE "joined"]
             /\ orphaned' = (orphaned \/ left # {})
    BY <2>2, Zenon
  <2>3. CASE /\ pc' = [pc EXCEPT ![c] = IF marked'[c] = asked[c] THEN "joined" ELSE @]
             /\ orphaned' = orphaned
    <3>0. orphaned' \in BOOLEAN
      BY <1>2, <2>3, Zenon DEF TypeOK
    <3>1. CASE marked'[c] = asked[c]
      <4>1. pc' = [pc EXCEPT ![c] = "joined"] /\ left = {}
        BY <2>3, <3>1, Zenon
      <4> QED BY <3>0, <4>1, Zenon
    <3>2. CASE marked'[c] # asked[c]
      <4>1. pc' = [pc EXCEPT ![c] = "joining"]
        BY <1>1, <1>2, <2>3, <3>2, Zenon DEF TypeOK
      <4> QED BY <3>0, <4>1, Zenon
    <3> QED BY <3>1, <3>2, Zenon
  <2> QED BY <2>1, <2>2, <2>3, Zenon DEF ReceivePack
<1>6. PICK v \in {"joining", "joined", "ended"} :
        pc' = [pc EXCEPT ![c] = v] /\ (~orphaned' /\ v # "joining" => left = {})
  BY <1>5, Zenon
<1>7. /\ pc' \in [Contexts -> {"idle", "joining", "joined", "computing",
                               "computed", "ended"}]
      /\ pc'[c] = v /\ \A i \in Contexts \ {c} : pc'[i] = pc[i]
  BY <1>2, <1>6, Zenon DEF TypeOK
<1>8. \A m \in Contexts : pc'[m] = "idle" <=> pc[m] = "idle"
  BY <1>1, <1>6, <1>7
<1> HIDE DEF left
<1>9. TypeOK'
  BY <1>1, <1>2, <1>4, <1>5, <1>7, Zenon DEF TypeOK
<1>10. Located' /\ AllDistinct'
  BY <1>1, <1>2, <1>8, Zenon DEF Located, LocatedAt, AllDistinct
<1>11. \A m \in Contexts : Held(m)' = Held(m)
  BY <1>1, <1>8, Zenon DEF Held
<1>12. Live' = Live
  BY <1>1, <1>11, LiveStays
<1>13. Apart'
  <2>1. ASSUME NEW m \in Kinds, NEW x \in Contexts, NEW y \in Place(m, x)'
        PROVE  y \in Place(m, x)
    <3>1. CASE m = "context"
      BY <1>1, <1>8, <3>1, InContext, Zenon
    <3>2. CASE m = "answer"
      BY <1>1, <3>2, InAnswer
    <3>3. CASE m \in Kinds \ {"context", "answer"}
      BY <1>1, <3>3, PlaceStays, Zenon DEF Kinds
    <3> QED BY <3>1, <3>2, <3>3
  <2> QED BY <1>2, <2>1 DEF Apart
<1>14. Paths'
  <2>1. ASSUME NEW r, Reached(r) PROVE Reached(r)'
    BY <1>1, <2>1, Zenon DEF Reached
  <2> QED BY <1>2, <1>12, <2>1 DEF Paths
<1>15. ASSUME ~orphaned' PROVE Logic'
  <2>1. c # Client
    BY ClientAssumption
  <2>2. ASSUME NEW i, NEW n, i # c, Waits(i, n) PROVE Waits(i, n)'
    BY <1>1, <1>4, <1>7, <2>2, Zenon DEF Waits
  <2>3. ASSUME NEW i PROVE History(i)' = History(i)
    BY <1>1, Zenon DEF History
  <2>4. ASSUME NEW n, n # a.from, Waits(c, n) PROVE n \in left
    BY <1>4, <2>1, <2>4, Zenon DEF Waits, left
  <2>5. ASSUME NEW n, n # a.from, Waits(c, n) PROVE Waits(c, n)'
    <3>1. n \in left
      BY <2>4, <2>5
    <3>2. v = "joining"
      BY <1>6, <1>15, <3>1
    <3> QED BY <1>1, <1>7, <2>1, <3>1, <3>2 DEF Waits, left
  <2>6. ASSUME NEW r \in Live, r.invoker = c PROVE r.receiver # a.from
    BY <1>1, <1>2, <2>6, AnsweredNotLive, Zenon
  <2>7. ASSUME NEW b \in answers', b.to = c PROVE b.from # a.from
    BY <1>1, <1>2, <2>7 DEF Logic, Issued
  <2>8. Issued'
    <3>1. \A r \in Live : Waits(r.invoker, r.receiver)'
      BY <1>2, <2>2, <2>5, <2>6, Zenon DEF Logic, Issued
    <3>2. \A b \in answers' : Waits(b.to, b.from)'
      BY <1>1, <1>2, <2>2, <2>5, <2>7, Zenon DEF Logic, Issued
    <3> QED BY <1>1, <1>2, <1>12, <2>3, <3>1, <3>2, Zenon DEF Logic, Issued
  <2>9. ASSUME NEW r \in Live, NEW d \in r.history \cap Contexts PROVE pc'[d] = "joining"
    <3>1. pc[d] = "joining" /\ \E q \in Live : q.invoker = d
      BY <1>2 DEF Logic, Chained
    <3>2. CASE d # c
      BY <1>7, <3>1, <3>2
    <3>3. CASE d = c
      <4>1. PICK q \in Live : q.invoker = c
        BY <3>1, <3>3
      <4>2. Waits(c, q.receiver)'
        BY <1>12, <2>8, <4>1 DEF Issued
      <4> QED BY <2>1, <3>3, <4>2 DEF Waits
    <3> QED BY <3>2, <3>3
  <2>10. Chained'
    BY <1>2, <1>12, <2>9 DEF Logic, Chained
  <2> QED BY <2>8, <2>10 DEF Logic
<1> QED BY <1>9, <1>10, <1>13, <1>14, <1>15 DEF NetworkInv, Ordered

-----------------------------------------------------------------------------
(* The steps of the client.                                                *)

LEMMA NetworkClientAsk ==
  ASSUME NetworkInv, ~orphaned, ClientAsk
  PROVE  NetworkInv'
<1>q. PICK q : q = [invoker |-> Client, receiver |-> Root,
                     order |-> query_counter[Client] + 1, history |-> {Client}]
  BY Zenon
<1>1. /\ client_pc = "idle" /\ client_pc' = "waiting"
      /\ query_counter' = [query_counter EXCEPT ![Client] = @ + 1]
      /\ wire' = wire \cup {q}
      /\ UNCHANGED <<neighbors, dispatcher_mq, request_mq, breaker_mq, pc, current,
                     asked, marked, round, asks, breaker_pc, breaker_req, answers,
                     orphaned>>
  BY <1>q DEF ClientAsk, queues, breaker
<1>2. TypeOK /\ Located /\ Paths /\ Apart /\ AllDistinct /\ Logic
  BY DEF NetworkInv, Ordered
<1>3. /\ query_counter' \in [Invokers -> Nat]
      /\ query_counter'[Client] = query_counter[Client] + 1
      /\ query_counter[Client] \in Nat
      /\ \A i \in Contexts : query_counter'[i] = query_counter[i]
  BY <1>1, <1>2, ClientAssumption DEF TypeOK, Invokers
<1>4. /\ q \in Requests /\ q.invoker = Client /\ q.receiver = Root
      /\ q.order = query_counter'[Client] /\ q.history = {Client}
  BY <1>3, <1>q, ContextsAssumption DEF Requests, Invokers
<1>5. TypeOK'
  BY <1>1, <1>2, <1>3, <1>4, Zenon DEF TypeOK
<1>6. Located' /\ AllDistinct'
  BY <1>1, <1>2, Zenon DEF Located, LocatedAt, AllDistinct
<1>7. \A m \in Contexts : Held(m)' = Held(m)
  BY <1>1, Zenon DEF Held
<1>8. Live' = Live \cup {q}
  BY <1>1, <1>7, LiveGrows, Zenon
<1>9. ASSUME NEW i, NEW n, Waits(i, n)
      PROVE  /\ i # Client /\ Waits(i, n)' /\ History(i)' = History(i)
             /\ query_counter'[i] = query_counter[i]
  BY <1>1, <1>3, <1>9 DEF Waits, History
<1>10. Paths'
  <2>1. ASSUME NEW r, Reached(r) PROVE Reached(r)'
    BY <1>1, <2>1 DEF Reached
  <2>2. Reached(q)'
    BY <1>4, ClientAssumption DEF Reached
  <2> QED BY <1>2, <1>8, <2>1, <2>2 DEF Paths
<1>11. Issued'
  <2>1. Waits(Client, Root)' /\ History(Client)' = {Client}
    BY <1>1 DEF Waits, History
  <2>2. \A r \in Live' : /\ Waits(r.invoker, r.receiver)'
                        /\ r.order = query_counter'[r.invoker]
                        /\ r.history = History(r.invoker)'
    BY <1>2, <1>4, <1>8, <1>9, <2>1, Zenon DEF Logic, Issued
  <2>3. \A b \in answers' : Waits(b.to, b.from)' /\ b.order = query_counter'[b.to]
    BY <1>1, <1>2, <1>9, Zenon DEF Logic, Issued
  <2> QED BY <1>1, <1>2, <2>2, <2>3, Zenon DEF Logic, Issued
<1>12. Chained'
  <2>1. q.history \cap Contexts = {}
    BY <1>4, ClientAssumption
  <2> QED BY <1>1, <1>2, <1>8, <2>1, Zenon DEF Logic, Chained
<1>13. Apart'
  <2>1. Client \in Invokers
    BY DEF Invokers
  <2>c. ASSUME NEW m \in Kinds, NEW x \in Contexts PROVE Client \notin Place(m, x)
    <3>1. ~Waits(Client, x)
      BY <1>1, Zenon DEF Waits
    <3> QED BY <1>2, <3>1, PlaceWaits DEF Logic
  <2>2. ASSUME NEW m \in Kinds, NEW x \in Contexts, NEW y \in Place(m, x)'
        PROVE  y \in Place(m, x) \/ (m = "wire" /\ y = Client)
    <3>1. CASE m = "wire"
      <4>a. y \in Place("wire", x)'
        BY <3>1
      <4>1. PICK p \in wire' : p.receiver = x /\ y = p.invoker
        BY ONLY <4>a, InWire, SMT
      <4>2. p \in wire \/ p = q
        BY <1>1, <4>1
      <4>3. CASE p \in wire
        BY <3>1, <4>1, <4>3, InWire
      <4>4. CASE p = q
        BY <1>4, <3>1, <4>1, <4>4
      <4> QED BY <4>2, <4>3, <4>4
    <3>2. CASE m \in Kinds \ {"wire"}
      BY <1>1, <3>2, PlaceStays DEF Kinds
    <3> QED BY <3>1, <3>2
  <2> QED BY <1>2, <2>1, <2>c, <2>2, ApartNew
<1> QED BY <1>1, <1>5, <1>6, <1>10, <1>11, <1>12, <1>13 DEF NetworkInv, Ordered, Logic

LEMMA NetworkClientReceive ==
  ASSUME NetworkInv, ~orphaned, NEW a \in answers, ClientReceive(a)
  PROVE  NetworkInv'
<1>1. /\ client_pc = "waiting" /\ a.to = Client
      /\ answers' = answers \ {a} /\ client_pc' = "idle"
      /\ UNCHANGED <<neighbors, wire, dispatcher_mq, request_mq, breaker_mq, pc, current,
                     asked, marked, round, asks, query_counter, breaker_pc,
                     breaker_req, orphaned>>
  BY DEF ClientReceive, queues, breaker, normal
<1>2. TypeOK /\ Located /\ Paths /\ Apart /\ AllDistinct /\ Logic
  BY DEF NetworkInv, Ordered
<1>3. TypeOK'
  BY <1>1, <1>2 DEF TypeOK
<1>4. Located' /\ AllDistinct'
  BY <1>1, <1>2, Zenon DEF Located, LocatedAt, AllDistinct
<1>5. \A m \in Contexts : Held(m)' = Held(m)
  BY <1>1, Zenon DEF Held
<1>6. Live' = Live
  BY <1>1, <1>5, LiveStays
<1>7. a.from = Root
  BY <1>1, <1>2, Zenon DEF Logic, Issued, Waits
<1>8. \A r \in Live : r.invoker # Client
  <2>1. \A r \in Live : r.invoker = Client => r.receiver = Root
    BY <1>2, Zenon DEF Logic, Issued, Waits
  <2> QED BY <1>1, <1>2, <1>7, <2>1, AnsweredNotLive, Zenon
<1>9. \A b \in answers' : b.to # Client
  <2>1. \A b \in answers : b.to = Client => b.from = Root
    BY <1>2, Zenon DEF Logic, Issued, Waits
  <2> QED BY <1>1, <1>2, <1>7, <2>1 DEF Logic, Issued
<1>10. ASSUME NEW i, NEW n, i # Client, Waits(i, n) PROVE Waits(i, n)'
  BY <1>1, <1>10 DEF Waits
<1>11. ASSUME NEW i PROVE History(i)' = History(i)
  BY <1>1, Zenon DEF History
<1>12. Paths'
  <2>1. ASSUME NEW r, Reached(r) PROVE Reached(r)'
    BY <1>1, <2>1, Zenon DEF Reached
  <2> QED BY <1>2, <1>6, <2>1 DEF Paths
<1>13. Issued'
  BY <1>1, <1>2, <1>6, <1>8, <1>9, <1>10, <1>11, Zenon DEF Logic, Issued
<1>14. Chained'
  BY <1>1, <1>2, <1>6, Zenon DEF Logic, Chained
<1>15. Apart'
  <2>1. ASSUME NEW m \in Kinds, NEW x \in Contexts, NEW y \in Place(m, x)'
        PROVE  y \in Place(m, x)
    <3>1. CASE m = "answer"
      BY <1>1, <3>1, InAnswer
    <3>2. CASE m \in Kinds \ {"answer"}
      BY <1>1, <3>2, PlaceStays DEF Kinds
    <3> QED BY <3>1, <3>2
  <2> QED BY <1>2, <2>1 DEF Apart
<1> QED BY <1>1, <1>3, <1>4, <1>12, <1>13, <1>14, <1>15 DEF NetworkInv, Ordered, Logic
-----------------------------------------------------------------------------
(* The theorems.                                                           *)

LEMMA NetworkStep == NetworkInv /\ [Next]_vars => NetworkInv'
<1> SUFFICES ASSUME NetworkInv, [Next]_vars PROVE NetworkInv'
  OBVIOUS
<1>1. ASSUME ~orphaned, NEW c \in Contexts, ContextStep(c) PROVE NetworkInv'
  <2>1. CASE Dispatch(c)
    BY <1>1, <2>1, NetworkDispatch
  <2>2. CASE TakeRequest(c)
    BY <1>1, <2>2, NetworkTakeRequest
  <2>3. CASE \E a \in answers : ReceivePack(c, a)
    BY <1>1, <2>3, NetworkReceivePack
  <2>4. CASE Proceed(c)
    <3>1. CASE \E n \in Contexts : AskNext(c, n)
      BY <1>1, <3>1, NetworkAskNext
    <3>2. CASE Compute(c)
      BY <1>1, <3>2, NetworkCompute
    <3>3. CASE \E empty \in BOOLEAN : SendMarker(c, empty)
      BY <1>1, <3>3, NetworkSendMarker
    <3> QED BY <2>4, <3>1, <3>2, <3>3 DEF Proceed
  <2>5. CASE ComputeEnds(c)
    BY <1>1, <2>5, NetworkCompute
  <2>6. CASE BreakCycle(c)
    BY <1>1, <2>6, NetworkBreakCycle
  <2>7. CASE \E empty \in BOOLEAN : BreakerSendMarker(c, empty)
    BY <1>1, <2>7, NetworkBreakerSendMarker
  <2> QED BY <1>1, <2>1, <2>2, <2>3, <2>4, <2>5, <2>6, <2>7 DEF ContextStep
<1>2. CASE Next
  <2>1. CASE ClientAsk
    BY <1>2, <2>1, NetworkClientAsk DEF Next
  <2>2. CASE \E a \in answers : ClientReceive(a)
    BY <1>2, <2>2, NetworkClientReceive DEF Next
  <2>3. CASE \E r \in wire : HandleRequest(r)
    BY <1>2, <2>3, NetworkHandle DEF Next
  <2>4. CASE \E c \in Contexts : ContextStep(c)
    BY <1>1, <1>2, <2>4 DEF Next
  <2> QED BY <1>2, <2>1, <2>2, <2>3, <2>4 DEF Next
<1>3. CASE UNCHANGED vars
  <2>1. /\ UNCHANGED <<neighbors, wire, dispatcher_mq, request_mq, breaker_mq, pc>>
        /\ UNCHANGED <<current, asked, marked, round, asks, query_counter>>
        /\ UNCHANGED <<breaker_pc, breaker_req, answers, client_pc, orphaned>>
    BY <1>3 DEF vars
  <2>2. TypeOK /\ Located /\ Paths /\ (~orphaned => Apart /\ AllDistinct /\ Logic)
    BY DEF NetworkInv, Ordered
  <2>3. TypeOK'
    BY <2>1, <2>2 DEF TypeOK
  <2>4. Located' /\ (AllDistinct => AllDistinct')
    BY <2>1, <2>2, Zenon DEF Located, LocatedAt, AllDistinct
  <2>5. \A m \in Contexts : Held(m)' = Held(m)
    BY <2>1, Zenon DEF Held
  <2>6. Live' = Live
    BY <2>1, <2>5, LiveStays
  <2>7. Paths'
    <3>1. ASSUME NEW r, Reached(r) PROVE Reached(r)'
      BY <2>1, <3>1, Zenon DEF Reached
    <3> QED BY <2>2, <2>6, <3>1 DEF Paths
  <2>8. Logic => Logic'
    BY <2>1, <2>2, <2>6, LogicMove
  <2>9. Apart => Apart'
    <3>1. ASSUME NEW m \in Kinds, NEW x \in Contexts, NEW y \in Place(m, x)'
          PROVE  y \in Place(m, x)
      BY <2>1, PlaceStays DEF Kinds
    <3> QED BY <3>1 DEF Apart
  <2> QED BY <2>1, <2>2, <2>3, <2>4, <2>7, <2>8, <2>9 DEF NetworkInv, Ordered
<1> QED BY <1>2, <1>3

THEOREM NetworkInvariant == Spec => []NetworkInv
BY NetworkInit, NetworkStep, PTL DEF Spec

\* The types, in every network.
THEOREM NetworkTypeOK == Spec => []TypeOK
<1>1. NetworkInv => TypeOK
  BY DEF NetworkInv
<1> QED BY <1>1, NetworkInvariant, PTL

\* A context and its cycle breaker never use their evaluator at the same time, in
\* every network and whatever the order of the messages: a request that comes
\* back to a context holds the context in its joiner.
THEOREM NetworkEvaluatorExclusive == Spec => []EvaluatorExclusive
<1>1. NetworkInv => EvaluatorExclusive
  <2> SUFFICES ASSUME NetworkInv, ~orphaned, NEW c \in Contexts,
                      pc[c] = "computing", breaker_pc[c] = "computing"
               PROVE  FALSE
    BY DEF EvaluatorExclusive
  <2>1. breaker_req[c] \in Live /\ c \in breaker_req[c].history
    BY LiveIff, Zenon DEF NetworkInv, Located, LocatedAt, Held
  <2>2. Located /\ Logic
    BY DEF NetworkInv
  <2> QED BY <2>1, <2>2, NotJoining
<1> QED BY <1>1, NetworkInvariant, PTL

\* An invoker never has two requests open with a context, so that a pack of an
\* output thread never mixes two answers.
THEOREM NetworkOneRequestPerInvoker == Spec => []OneRequestPerInvoker
<1>1. NetworkInv => OneRequestPerInvoker
  <2> SUFFICES ASSUME NetworkInv, ~orphaned, NEW r \in Live, NEW q \in Live,
                      r.invoker = q.invoker, r.receiver = q.receiver
               PROVE  r = q
    BY DEF OneRequestPerInvoker
  <2>1. r.order = q.order /\ r.history = q.history
    BY DEF NetworkInv, Logic, Issued
  <2>2. r \in Requests /\ q \in Requests
    BY LiveType DEF NetworkInv
  <2> QED BY <2>1, <2>2 DEF Requests
<1> QED BY <1>1, NetworkInvariant, PTL

\* What a joiner receives always belongs to the query it waits for.
THEOREM NetworkAnswerToOpenQuery == Spec => []AnswerToOpenQuery
<1>1. NetworkInv => AnswerToOpenQuery
  BY Zenon DEF NetworkInv, Logic, Issued, Waits, AnswerToOpenQuery
<1> QED BY <1>1, NetworkInvariant, PTL
\* A circle goes through every one of its contexts.
LEMMA CircleOnto ==
  ASSUME NEW S, NEW f \in [S -> S], IsCircle(S, f), NEW d \in S
  PROVE  \E c \in S : f[c] = d
<1> DEFINE T == {f[c] : c \in S}
<1>1. T \in SUBSET S /\ T # {} /\ \A c \in T : f[c] \in T
  BY DEF IsCircle
<1>2. T = S
  BY <1>1, Zenon DEF IsCircle
<1> QED BY <1>2

\* A request that a context works on or has in its queue did not go through it.
LEMMA WaitingRequest ==
  ASSUME NetworkInv, NEW n \in Contexts, NEW i \in WaitingFor(n)
  PROVE  \E r \in Live : r.invoker = i /\ r.receiver = n /\ n \notin r.history
<1>1. Located
  BY DEF NetworkInv
<1>2. CASE \E r \in Range(request_mq[n]) : i = r.invoker
  <2>1. PICK r \in Range(request_mq[n]) : i = r.invoker
    BY <1>2
  <2>2. r \in Held(n)
    BY DEF Held
  <2>3. r \in Live
    BY <2>2, LiveIff
  <2>4. r.receiver = n /\ n \notin r.history
    BY <1>1, Zenon DEF Located, LocatedAt
  <2> QED BY <2>1, <2>3, <2>4, Zenon
<1>3. CASE pc[n] # "idle" /\ i = current[n].invoker
  <2>1. current[n] \in Held(n)
    BY <1>3 DEF Held
  <2>2. current[n] \in Live
    BY <2>1, LiveIff
  <2>3. current[n].receiver = n /\ n \notin current[n].history
    BY <1>1, <1>3 DEF Located, LocatedAt
  <2> QED BY <1>3, <2>2, <2>3
<1> QED BY <1>2, <1>3, Zenon DEF WaitingFor

\* In every network all of whose cycles are entered through one of their
\* contexts, contexts never wait for each other in a circle: the request to the
\* context through which the circle is entered would have gone through it.
THEOREM NetworkNoWaitCircle == Spec => []NoWaitCircle
<1>1. NetworkInv => NoWaitCircle
  <2> SUFFICES ASSUME NetworkInv, Reducible(neighbors),
                      NEW S \in SUBSET Contexts, NEW f \in [S -> S], IsCircle(S, f),
                      \A c \in S : c \in WaitingFor(f[c])
               PROVE  FALSE
    BY Zenon DEF NoWaitCircle
  <2>1. ASSUME NEW c \in S
        PROVE  \E r \in Live : /\ r.invoker = c /\ r.receiver = f[c]
                               /\ f[c] \notin r.history /\ Reached(r)
    <3>1. f[c] \in Contexts /\ c \in WaitingFor(f[c])
      OBVIOUS
    <3>2. PICK r \in Live : r.invoker = c /\ r.receiver = f[c] /\ f[c] \notin r.history
      BY <3>1, WaitingRequest
    <3>3. Reached(r)
      BY DEF NetworkInv, Paths
    <3> QED BY <3>2, <3>3, Zenon
  <2>2. ASSUME NEW c \in S PROVE f[c] \in neighbors[c]
    <3>1. PICK r \in Live : r.invoker = c /\ r.receiver = f[c] /\ Reached(r)
      BY <2>1
    <3> QED BY <3>1, Zenon DEF Reached
  <2>3. PICK d \in S : \A c \in S : Dominates(neighbors, d, c)
    BY <2>2 DEF Reducible
  <2>4. PICK c \in S : f[c] = d
    BY CircleOnto
  <2>5. PICK r \in Live : /\ r.invoker = c /\ d \notin r.history /\ Reached(r)
    BY <2>1, <2>4
  <2>6. Root \in r.history
    BY <2>5 DEF Reached
  <2>7. PICK U \in SUBSET Contexts :
          Root \in U /\ c \notin U /\ \A x \in U : neighbors[x] \ {d} \subseteq U
    BY <2>3, <2>5, <2>6, Zenon DEF Dominates
  <2> QED BY <2>5, <2>7, Zenon DEF Reached
<1> QED BY <1>1, NetworkInvariant, PTL
-----------------------------------------------------------------------------
(* When a dispatcher never waits.                                          *)

\* Who may ask context c.
Askers(c) ==
  {i \in Contexts : c \in neighbors[i]} \cup {i \in {Client} : c = Root}

\* The queue to which the dispatcher of c passes its next request on.
Destination(c) ==
  IF InCycle(Head(dispatcher_mq[c])) THEN breaker_mq[c] ELSE request_mq[c]

\* A dispatcher has room for its next request if the queues of the context have
\* a place for each of its invokers.
DispatcherFree ==
  ~orphaned => \A c \in Contexts :
    /\ dispatcher_mq[c] # <<>>
    /\ IsFiniteSet(Askers(c)) /\ Cardinality(Askers(c)) <= QueueSize
    => Len(Destination(c)) < QueueSize

\* A queue of requests of different invokers is no longer than there are invokers.
LEMMA DistinctBounded ==
  ASSUME NEW s \in Seq(Requests), NEW A, IsFiniteSet(A), Distinct(s), Keys(s) \subseteq A
  PROVE  Len(s) <= Cardinality(A)
<1> DEFINE f == [i \in 1 .. Len(s) |-> s[i].invoker]
<1>1. Len(s) \in Nat /\ Range(s) = {s[i] : i \in 1 .. Len(s)}
  BY RangeOfSeq
<1>2. \A i \in 1 .. Len(s) : s[i].invoker \in A
  BY <1>1 DEF Keys
<1>3. f \in Injection(1 .. Len(s), A)
  <2>1. f \in [1 .. Len(s) -> A]
    BY <1>2
  <2>2. \A i, j \in 1 .. Len(s) : f[i] = f[j] => i = j
    BY DEF Distinct
  <2> HIDE DEF f
  <2> QED BY <2>1, <2>2 DEF Injection, IsInjective
<1>4. Cardinality(1 .. Len(s)) <= Cardinality(A)
  <2> HIDE DEF f
  <2> QED BY <1>3, FS_Injection
<1> HIDE DEF f
<1>5. Cardinality(1 .. Len(s)) = Len(s)
  <2>1. 1 \in Int /\ Len(s) \in Int
    BY <1>1
  <2>2. Cardinality(1 .. Len(s)) = IF 1 > Len(s) THEN 0 ELSE Len(s) - 1 + 1
    BY <2>1, FS_Interval
  <2> QED BY <1>1, <2>2
<1> QED BY <1>4, <1>5

\* With a place for every invoker in its queues a context never makes its
\* RequestDispatcher wait (RequestDispatcher.h:77): a request for the cycle
\* breaker is not held up by requests for the context before it.
THEOREM NetworkDispatcherFree == Spec => []DispatcherFree
<1>1. NetworkInv => DispatcherFree
  <2> SUFFICES ASSUME NetworkInv, ~orphaned, NEW c \in Contexts, dispatcher_mq[c] # <<>>,
                      IsFiniteSet(Askers(c)), Cardinality(Askers(c)) <= QueueSize
               PROVE  Len(Destination(c)) < QueueSize
    BY DEF DispatcherFree
  <2> DEFINE r == Head(dispatcher_mq[c])
             q == Destination(c)
             A == Askers(c) \ {r.invoker}
  <2>1. /\ dispatcher_mq[c] \in Seq(Requests) /\ q \in Seq(Requests)
        /\ q = breaker_mq[c] \/ q = request_mq[c]
    BY DEF NetworkInv, TypeOK, Destination
  <2>2. r \in Range(dispatcher_mq[c])
    BY <2>1, RangeOfTail
  <2>3. Range(dispatcher_mq[c]) \subseteq Held(c) /\ Range(q) \subseteq Held(c)
    BY <2>1 DEF Held
  <2>4. ASSUME NEW o \in Held(c), o.receiver = c PROVE o.invoker \in Askers(c)
    <3>1. o \in Live
      BY <2>4, LiveIff
    <3>2. Reached(o) /\ o.invoker \in Invokers
      BY <3>1, LiveType DEF NetworkInv, Paths, Requests
    <3>3. CASE o.invoker = Client
      BY <2>4, <3>2, <3>3, Zenon DEF Reached, Askers
    <3>4. CASE o.invoker \in Contexts
      BY <2>4, <3>2, <3>4, Zenon DEF Reached, Askers
    <3> QED BY <3>2, <3>3, <3>4 DEF Invokers
  <2>5. /\ \A o \in Range(dispatcher_mq[c]) : o.receiver = c
        /\ \A o \in Range(q) : o.receiver = c
    BY <2>1, Zenon DEF NetworkInv, Located, LocatedAt
  <2>6. r.invoker \in Askers(c) /\ Keys(q) \subseteq Askers(c)
    BY <2>2, <2>3, <2>4, <2>5 DEF Keys
  <2>7. Distinct(q)
    BY <2>1 DEF NetworkInv, Ordered, AllDistinct
  <2>8. r.invoker \notin Keys(q)
    <3>1. r.invoker \in Place("dispatcher", c)
      BY <2>2, InDispatcher
    <3>2. \A k \in {"request", "breaker"} : r.invoker \notin Place(k, c)
      BY <3>1, Zenon DEF NetworkInv, Ordered, Apart, Kinds
    <3>3. Place("request", c) = Keys(request_mq[c]) /\ Place("breaker", c) = Keys(breaker_mq[c])
      BY DEF Place
    <3> QED BY <2>1, <3>2, <3>3
  <2>9. IsFiniteSet(A) /\ Cardinality(A) = Cardinality(Askers(c)) - 1
    BY <2>6, FS_RemoveElement
  <2>10. Len(q) <= Cardinality(A)
    BY <2>1, <2>6, <2>7, <2>8, <2>9, DistinctBounded
  <2>11. Cardinality(Askers(c)) \in Nat
    BY FS_CardinalityType
  <2> QED BY <2>1, <2>9, <2>10, <2>11, BoundsAssumption
<1> QED BY <1>1, NetworkInvariant, PTL
===============================================================================
