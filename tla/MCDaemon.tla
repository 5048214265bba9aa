------------------------------- MODULE MCDaemon -------------------------------
(* Daemon for TLC.                                                           *)
EXTENDS Daemon

\* Daemon 1 asks daemon 2, and each of two clients asks one of them; one of the
\* clients asks twice.
MCNeighbors == <<{2}, {}>>

MCMaxRequests == [i \in Daemons \cup Clients |-> IF i = 102 THEN 2 ELSE 1]
===============================================================================
