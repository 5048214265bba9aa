------------------------------- MODULE MCClient -------------------------------
(* Instances of Client for TLC.  The models are numbered in the order in      *)
(* which they first occur: other names for them would show nothing new.       *)
EXTENDS Client

MCEnumerations ==
  UNION {{s \in [1 .. n -> Models] :
            \A i \in 1 .. n :
              s[i] = 1 \/ \E j \in 1 .. i - 1 : s[j] >= s[i] - 1} :
         n \in 0 .. MaxModels}

===============================================================================
