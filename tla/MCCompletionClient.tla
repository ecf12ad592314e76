------------------------ MODULE MCCompletionClient ------------------------
(* CompletionClient instantiated for TLC.                                  *)
EXTENDS CompletionClient, RetryAfter, TLC

\* With Second = 4 and Durations = 64, a header of 9 seconds overflows to a negative duration.
MCRetryAfters == {parseRetryAfter(secs, retryAfterAbsent) : secs \in {-1, 0, 1, 9}}

Symmetry == Permutations(Callers)

===========================================================================
