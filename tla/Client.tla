-------------------------------- MODULE Client --------------------------------
(***************************************************************************)
(* The client: the rounds of main in src/new_dmcsc.cpp around the          *)
(* asynchronous request and answer loop of src/network/NewClient.cpp, and  *)
(* the output thread of the root's daemon that answers it                  *)
(* (src/network/NewOutputThread.cpp).                                      *)
(*                                                                         *)
(* The root enumerates its models in a fixed order and sends the models    *)
(* k1 to k2 of it (the contract that Context establishes).  The            *)
(* enumeration may repeat a model: neighbors answer with projections and   *)
(* remove repetitions only within one pack.                                *)
(*                                                                         *)
(* All the models past the end of the enumeration are alike, so starts of  *)
(* ranges are kept up to PastEnd only; a range is its start and its size.  *)
(***************************************************************************)
EXTENDS Integers, Sequences, FiniteSets

CONSTANTS
  Models,        \* equilibria
  Enumerations,  \* the sequences of models that a root may enumerate
  MaxModels,     \* bound: length of an enumeration
  MaxK,          \* bound: options k1 and k2
  MaxEndpoints   \* bound: addresses that the host name resolves to

ASSUME ModelsAssumption == IsFiniteSet(Models)
ASSUME EnumerationsAssumption ==
  Enumerations \subseteq UNION {[1 .. n -> Models] : n \in 0 .. MaxModels}
ASSUME ClientBoundsAssumption ==
  MaxModels \in Nat /\ MaxK \in Nat /\ MaxEndpoints \in Nat \ {0}

VARIABLES
  enumeration,   \* the root's models in the order it computes them
  range,         \* options k1 and k2; <<0, 0>>: all models
  loop,          \* option
  k2,            \* variables of main
  pack_size,
  endpoints,     \* addresses not tried yet
  pc,
  mess,          \* ForwardMessage of the NewClient: start and pack size
  final_result,
  diff_count,
  last_round,
  known          \* history: the models known when the previous round ended

options == <<enumeration, range, loop>>
vars == <<enumeration, range, loop, k2, pack_size, endpoints, pc, mess,
          final_result, diff_count, last_round, known>>

PastEnd == MaxModels + MaxK + 1

Min2(a, b) == IF a < b THEN a ELSE b

Message(start, size) == [start |-> Min2(start, PastEnd), size |-> size]

Messages == [start : 0 .. PastEnd, size : Nat]

Init ==
  /\ enumeration \in Enumerations
  /\ range \in (0 .. MaxK) \X (0 .. MaxK)
  /\ loop \in BOOLEAN
  /\ k2 = range[2]
  /\ pack_size = 0
  /\ endpoints \in 1 .. MaxEndpoints
  /\ pc = "start"
  /\ mess = Message(0, 0)
  /\ final_result = {}
  /\ diff_count = 0
  /\ last_round = FALSE
  /\ known = {}

InvalidRange == range[1] > range[2] \/ (range[1] = 0 /\ range[2] # 0)

\* Variant: the last model of the range is forgotten.
RangeSizeOffByOne == IF range[1] > 0 THEN range[2] - range[1] ELSE 0

RangeSize == IF range[1] > 0 THEN range[2] - range[1] + 1 ELSE 0

Reject ==
  /\ pc = "start" /\ InvalidRange
  /\ pc' = "rejected"
  /\ UNCHANGED <<options, k2, pack_size, endpoints, mess, final_result,
                 diff_count, last_round, known>>

Begin ==
  /\ pc = "start" /\ ~InvalidRange
  /\ pack_size' = RangeSize
  /\ mess' = Message(range[1], RangeSize)
  /\ pc' = "connecting"
  /\ UNCHANGED <<options, k2, endpoints, final_result, diff_count,
                 last_round, known>>

\* async_connect: send_header is called with its outcome.
Connect ==
  /\ pc = "connecting" /\ endpoints > 0
  /\ \/ pc' = "waiting"
     \/ pc' = IF endpoints = 1 THEN "failed" ELSE "connecting"
  /\ endpoints' = endpoints - 1
  /\ UNCHANGED <<options, k2, pack_size, mess, final_result, diff_count,
                 last_round, known>>

\* The models that the root sends for a message, without repetitions:
\* write_result sorts the pack and removes them.
Pack(m) ==
  IF m.size = 0
  THEN {enumeration[i] : i \in 1 .. Len(enumeration)}
  ELSE {enumeration[i] : i \in m.start .. Min2(Len(enumeration),
                                               m.start + m.size - 1)}

ReadAgain(result) == mess.size > 0 /\ mess.size - Cardinality(result) # 0

NextPack(result) ==
  Message(mess.start + mess.size, mess.size - Cardinality(result))

\* handle_read_header and handle_read_answer: insert the models of the pack,
\* and ask for as many as it lacked behind it.
ReadAnswer ==
  LET result == Pack(mess) IN
  /\ pc = "waiting"
  /\ final_result' = final_result \cup result
  /\ IF result # {} /\ loop /\ ReadAgain(result)
     THEN mess' = NextPack(result) /\ UNCHANGED pc
     ELSE pc' = "run_over" /\ UNCHANGED mess
  /\ UNCHANGED <<options, k2, pack_size, endpoints, diff_count,
                 last_round, known>>

\* Variant: the models of earlier rounds count as new.
DiffCountReset == Cardinality(final_result)

DiffCount == Cardinality(final_result) - diff_count

\* Variant: all that were requested are requested again.
LeftToRequestAll == pack_size

LeftToRequest == pack_size - Cardinality(final_result)

NotLooping ==
  /\ pc = "run_over" /\ ~loop
  /\ diff_count' = DiffCount
  /\ pc' = "broken_off"   \* terminate is called; its writes are never run
  /\ UNCHANGED <<options, k2, pack_size, endpoints, mess, final_result,
                 last_round, known>>

\* Variant: one new model counts for none.
RequestMoreOffByOne ==
  diff_count' > 1 /\ pack_size > Cardinality(final_result)

\* Variant: the number of models is not looked at.
RequestMoreDiff == diff_count' > 0

RequestMore == diff_count' > 0 /\ pack_size > Cardinality(final_result)

\* The part of a round of main that follows io_service->run().
NextRound ==
  /\ pc = "run_over" /\ loop /\ ~last_round
  /\ diff_count' = DiffCount
  /\ IF RequestMore
     THEN /\ mess' = Message(k2 + 1, LeftToRequest + 1)
          /\ k2' = Min2(k2 + 1 + LeftToRequest, PastEnd)
          /\ pc' = "waiting"
          /\ known' = final_result
          /\ UNCHANGED last_round
     ELSE /\ pc' = "terminating"
          /\ last_round' = TRUE
          /\ UNCHANGED <<k2, mess, known>>
  /\ UNCHANGED <<options, pack_size, endpoints, final_result>>

\* terminate, handle_finalize and closing.
Terminate ==
  /\ pc = "terminating"
  /\ pc' = "run_over"
  /\ UNCHANGED <<options, k2, pack_size, endpoints, mess, final_result,
                 diff_count, last_round, known>>

LastRound ==
  /\ pc = "run_over" /\ loop /\ last_round
  /\ diff_count' = DiffCount
  /\ pc' = "done"
  /\ UNCHANGED <<options, k2, pack_size, endpoints, mess, final_result,
                 last_round, known>>

\* A read or a write fails: the exception ends main.
ConnectionLost ==
  /\ pc \in {"waiting", "terminating"}
  /\ pc' = "failed"
  /\ UNCHANGED <<options, k2, pack_size, endpoints, mess, final_result,
                 diff_count, last_round, known>>

\* handle_signal: prints the statistics and exits.
Interrupt ==
  /\ pc \notin {"start", "rejected", "failed", "broken_off", "done",
                "interrupted"}
  /\ pc' = "interrupted"
  /\ UNCHANGED <<options, k2, pack_size, endpoints, mess, final_result,
                 diff_count, last_round, known>>

Step ==
  \/ Reject \/ Begin \/ Connect \/ ReadAnswer \/ NotLooping \/ NextRound
  \/ Terminate \/ LastRound

Next == Step \/ ConnectionLost \/ Interrupt

Spec == Init /\ [][Next]_vars

\* The root answers (network runs: ClientAnswered) and the client goes on.
FairSpec == Spec /\ WF_vars(Step)
-------------------------------------------------------------------------------
Stopped == pc \in {"rejected", "failed", "broken_off", "done", "interrupted"}

\* The enumeration has no model twice.
NoRepetition ==
  \A i, j \in 1 .. Len(enumeration) :
    enumeration[i] = enumeration[j] => i = j

\* Types; diff_count, an unsigned number, never wraps around, and neither does
\* a pack size.
TypeOK ==
  /\ k2 \in 0 .. PastEnd
  /\ pack_size \in Nat /\ endpoints \in 0 .. MaxEndpoints
  /\ pc \in {"start", "rejected", "connecting", "failed", "waiting",
             "run_over", "broken_off", "terminating", "done", "interrupted"}
  /\ mess \in Messages
  /\ final_result \subseteq Models /\ known \subseteq Models
  /\ diff_count \in Nat /\ last_round \in BOOLEAN

\* "either fixed point reached or all equilibria were requested": the client
\* says good-bye only with all that it was asked for, or after a round that
\* brought nothing new.
StopsAtFixedPoint ==
  pc = "terminating" =>
    \/ pack_size <= Cardinality(final_result)
    \/ final_result = known

\* A client that is asked for n models prints no more than n + 1: the range
\* that main asks for next is one too large.
OneTooManyAtMost ==
  pack_size > 0 => Cardinality(final_result) <= pack_size + 1

\* An enumeration without repetitions is delivered as it was asked for: the
\* models k1 to k2 of it, or all of them.
RangeDelivered ==
  pc = "done" /\ NoRepetition =>
    final_result = {enumeration[i] : i \in
      {j \in 1 .. Len(enumeration) :
         range # <<0, 0>> => range[1] <= j /\ j <= range[2]}}

\* The client stops when the enumeration has no repetitions.
ClientStops == NoRepetition ~> Stopped

\* The client stops: the loop ends when a fixed point is reached.
ClientAlwaysStops == <>Stopped
===============================================================================
