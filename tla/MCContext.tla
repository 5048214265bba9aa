------------------------------ MODULE MCContext ------------------------------
(* Instances of Context for TLC.                                            *)
EXTENDS Context

CONSTANT MaxK  \* bound: largest k2 of a request

AllRanges ==
  {<<0, 0>>} \cup {r \in (1 .. MaxK) \X (1 .. MaxK) : r[1] <= r[2]}

\* Only requests that have the same history, and so the same models.
SameHistory == requests > 0 => UNCHANGED <<inputs, guessing, upto>>

\* Of two inputs only the first two guesses of each have models.
FewInputs == inputs' = 2 => \A i \in Inputs : upto'[i][2] = upto'[i][G]

=============================================================================
