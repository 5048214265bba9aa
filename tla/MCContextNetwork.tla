--------------------------- MODULE MCContextNetwork ---------------------------
(* Instances of ContextNetwork: all the reducible topologies of three         *)
(* contexts and one of five, or all the others of three.                      *)
EXTENDS ContextNetwork

Three == {1, 2, 3}

\* Neighbor relations without loops in which the root reaches every context.
Connected ==
  {nb \in [Three -> SUBSET Three] :
     /\ \A c \in Three : c \notin nb[c]
     /\ \A U \in SUBSET Three :
          Root \in U /\ (\A x \in U : nb[x] \subseteq U) => U = Three}

\* The other contexts, if there are any, are never asked.
Extended(nb) == [c \in Contexts |-> IF c \in Three THEN nb[c] ELSE {}]

SmallTopologies == {Extended(nb) : nb \in Connected}

IrreducibleTopologies == {nb \in SmallTopologies : ~Reducible(nb)}

\* Three contexts ask context 4, which is in a cycle with context 5: while 4
\* works for one of them and the requests of the others wait, the request of 5
\* must still reach its cycle breaker.
Crowded ==
  [c \in Contexts |-> CASE c = 1 -> {2, 3, 4}
                        [] c \in {2, 3, 5} -> {4}
                        [] c = 4 -> {5}]

ReducibleTopologies ==
  {nb \in SmallTopologies : Reducible(nb)} \cup {Crowded}

\* In the larger topology a context asks its neighbors once in a request.
AskOnce == neighbors = Crowded => \A c \in Contexts : asks'[c] <= 1

==============================================================================
