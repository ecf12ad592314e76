----------------------------- MODULE RetryAfter -----------------------------
(***************************************************************************)
(* parseRetryAfter of internal/openrouter/client.go on a header that holds *)
(* a number of seconds.  A time.Duration is a signed integer of a fixed    *)
(* width, and the product of the seconds with time.Second wraps around     *)
(* before it is compared with the ceiling.  A date is not modelled: what   *)
(* it leads to is always a value that a number of seconds leads to as well.*)
(***************************************************************************)
EXTENDS Integers

CONSTANTS
  Second,         \* time.Second, in backoff units
  MaxRetryAfter,  \* maxRetryAfter, in backoff units
  Durations       \* the number of values of a time.Duration: 2^64 in the code

\* time.Second is an even number, as 10^9 is, so no product is the sentinel.
ASSUME RetryAfterAssumption ==
  /\ Second \in Nat \ {0} /\ Second % 2 = 0
  /\ MaxRetryAfter \in Nat
  /\ Durations \in Nat \ {0} /\ Durations % 2 = 0

\* Two's complement.
Wrapped(n) ==
  LET m == n % Durations
  IN  IF m >= Durations \div 2 THEN m - Durations ELSE m

\* secs is the number in the header, absent the sentinel.
parseRetryAfter(secs, absent) ==
  LET d == Wrapped(secs * Second)
  IN  IF secs < 0 THEN absent
      ELSE IF d > MaxRetryAfter THEN MaxRetryAfter
      ELSE d

===========================================================================
