---------------------------- MODULE MCContextData ----------------------------
(* ContextData for TLC: context 4 asks 1 and 2 and guesses for 0 and 3.      *)
EXTENDS ContextData

MCPhysical == <<1, 2>>

MCSignature == [c \in 0 .. 4 |-> IF c \in {0, 3} THEN {1} ELSE {}]

MCInterface == [c \in 0 .. 4 |-> CASE c = 4 -> {1, 2} [] c \in {0, 2} -> {} [] OTHER -> {1}]

\* What a neighbor may know: contexts, and the belief that is true or false.
Known(c, a, val) ==
  [status |-> {starting_offset(c), Bit(c, a)},
   value |-> {starting_offset(c)} \cup (IF val THEN {Bit(c, a)} ELSE {})]

Either(c, a) == {Known(c, a, TRUE), Known(c, a, FALSE)}

Both(s, t) == [status |-> s.status \cup t.status, value |-> s.value \cup t.value]

OrSets(S, T) == {Both(s, t) : s \in S, t \in T}

\* Neighbor 1 may know context 3, too, and in one belief state its last belief.
States1 == OrSets(Either(1, 1), {NoBelief} \cup Either(3, 1))
           \cup {Both(Known(1, 1, TRUE), Known(3, 2, TRUE))}

\* Neighbor 2 may know what was guessed for context 4, and contexts 3 and 0.  In
\* two belief states it uses a last belief, and in one it knows context 4 and no
\* belief of it.
States2 == OrSets(OrSets({Known(2, 1, TRUE)}, {NoBelief} \cup Either(4, 1)),
                  {NoBelief, Known(0, 1, FALSE),
                   Both(Known(3, 1, TRUE), Known(0, 1, TRUE))})
           \cup {Known(2, 1, FALSE), Known(2, 2, TRUE),
                 Both(Known(2, 1, TRUE), Known(3, 2, FALSE)),
                 Both(Known(2, 1, TRUE), [status |-> EpsilonBits({4}), value |-> EpsilonBits({4})])}

PacksOf(S) ==
  {<<s>> : s \in S} \cup
  {p \in S \X S : Less(p[1], p[2])}

MCPacks == PacksOf(States1) \X PacksOf(States2)

Rule(h, pos, naf) == [head |-> h, pos |-> pos, naf |-> naf]

MCRuleTables ==
  {{Rule(1, {Bit(1, 1)}, {Bit(3, 1)})},
   {Rule(1, {Bit(1, 1)}, {}), Rule(2, {Bit(0, 1)}, {Bit(2, 1)})}}

\* One knowledge base has the heads as its only model, the other one may choose
\* belief 1 and is inconsistent with both heads.
MCKnowledgeBases ==
  {[H \in SUBSET {1, 2} |-> <<H>>],
   [H \in SUBSET {1, 2} |-> IF H = {1, 2} THEN <<>> ELSE <<H, H \cup {1}>>]}
===============================================================================
