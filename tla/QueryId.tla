-------------------------------- MODULE QueryId --------------------------------
(***************************************************************************)
(* Query ids (include/mcs/QueryID.h, src/mcs/QueryID.cpp): six numbers in  *)
(* the fields of a 64-bit word.  A number is the set of its one bits, so   *)
(* that "or" is union, "and" with a mask intersection, and a shift adds to *)
(* every bit and drops what leaves the word.  The constructor of QueryID   *)
(* arrives at the shifts below when std::size_t has 64 bits.               *)
(***************************************************************************)
EXTENDS Integers

QUERY_ORDER_SHIFT == 4
JOINER_OFFSET_SHIFT == 28
LOCAL_CONTEXT_SHIFT == 34
NEIGHBOR_OFFSET_SHIFT == 44
NEIGHBOR_ID_SHIFT == 54
WordSize == 64

\* x << n, and the field of qid between two shifts, shifted back.
ShiftLeft(x, n) == {b + n : b \in x} \cap 0 .. WordSize - 1
Field(qid, beg, end) == {b - beg : b \in qid \cap beg .. end - 1}
Clear(qid, beg, end) == qid \ (beg .. end - 1)

TYPE_SHUTDOWN == {0}
TYPE_REQUEST == {1}

query_id(ctx_id, query_order) ==
  TYPE_REQUEST \cup ShiftLeft(query_order, QUERY_ORDER_SHIFT)
               \cup ShiftLeft(ctx_id, LOCAL_CONTEXT_SHIFT)

is_shutdown(qid) == Field(qid, 0, QUERY_ORDER_SHIFT) = TYPE_SHUTDOWN
qorder_from_qid(qid) == Field(qid, QUERY_ORDER_SHIFT, JOINER_OFFSET_SHIFT)
joiner_offset_from_qid(qid) == Field(qid, JOINER_OFFSET_SHIFT, LOCAL_CONTEXT_SHIFT)
invoker_from_qid(qid) == Field(qid, LOCAL_CONTEXT_SHIFT, NEIGHBOR_OFFSET_SHIFT)
neighbor_offset_from_qid(qid) == Field(qid, NEIGHBOR_OFFSET_SHIFT, NEIGHBOR_ID_SHIFT)
receiver_from_qid(qid) == Field(qid, NEIGHBOR_ID_SHIFT, WordSize)

\* ask_neighbor puts the neighbor and the offsets into the id of the query.
ask_neighbor_qid(qid, neighbor_id, noff, joiner_offset) ==
  qid \cup ShiftLeft(neighbor_id, NEIGHBOR_ID_SHIFT)
      \cup ShiftLeft(noff, NEIGHBOR_OFFSET_SHIFT)
      \cup ShiftLeft(joiner_offset, JOINER_OFFSET_SHIFT)

\* ask_first_packs strips them from the id of an answer.
stripped_qid(qid) ==
  Clear(Clear(Clear(qid, NEIGHBOR_ID_SHIFT, WordSize),
              NEIGHBOR_OFFSET_SHIFT, NEIGHBOR_ID_SHIFT),
        JOINER_OFFSET_SHIFT, LOCAL_CONTEXT_SHIFT)

OrderFits(x) == x \subseteq 0 .. 23
JoinerFits(x) == x \subseteq 0 .. 5
IdFits(x) == x \subseteq 0 .. 9
===============================================================================
