---------------------------- MODULE RetryPolicy ----------------------------
(***************************************************************************)
(* The retry policy: how many retries a task has, and how long it waits    *)
(* before each of them.  JitteredQuarticBackoff computes in int64, from    *)
(* seconds to nanoseconds; how many integers there are is a constant, for  *)
(* TLC to reach the numbers that do not fit. The hash of the task's id and *)
(* the retry is any number.                                                *)
(***************************************************************************)
EXTENDS RetryGrid

CONSTANT Modulus               \* how many integers there are: 2 ^ 64

ASSUME ModulusAssumption == Modulus \in Nat \ {0}

-----------------------------------------------------------------------------
(* Integers that wrap round, in two's complement.                          *)

Wrap(i) ==
    LET residue == i % Modulus
    IN  IF residue < Modulus \div 2 THEN residue ELSE residue - Modulus

Times(i, j) == Wrap(i * j)

-----------------------------------------------------------------------------

\* NewRetryPolicy: retries need a delay function.
ValidPolicy(maxRetries, hasDelay) ==
    maxRetries >= 0 /\ (maxRetries > 0 => hasDelay)

\* retryAfter: the delay of the given retry, or none.
RetryAfter(maxRetries, delay, retry) ==
    {d \in {delay} : 1 <= retry /\ retry <= maxRetries /\ d >= 0}

JitterMax(n) == 29 * (n + 1)

\* A faulty variant takes the first retry for the second.
FaultyBackoff(retry, hash) ==
    Times(retry ^ 4 + 15 + (hash % (JitterMax(retry) + 1)), Second)

JitteredQuarticBackoff(retry, hash) ==
    LET n      == retry - 1
        base   == Wrap(Times(Times(Times(n, n), n), n) + 15)
        jitter == hash % (JitterMax(n) + 1)
    IN  Times(Wrap(base + jitter), Second)

=============================================================================
