--------------------------- MODULE MCMatchingGame ---------------------------
(* Instances of MatchingGame for TLC. *)
EXTENDS MatchingGame

CONSTANTS a, b, five

\* Four requests, the end of the process, and two requests to the next one.
FourAndTwo == <<4, 2>>
=============================================================================
