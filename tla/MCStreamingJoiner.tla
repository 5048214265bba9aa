-------------------------- MODULE MCStreamingJoiner --------------------------
(* Instances of StreamingJoiner for TLC.                                    *)
EXTENDS StreamingJoiner

\* The properties say nothing about what follows an orphaned answer, and
\* what follows need not be finite.
Synchronised == ~orphaned

=============================================================================
