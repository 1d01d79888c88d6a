------------------------------ MODULE RetryPolicy -----------------------------
(***************************************************************************)
(* The backoff of internal/task/retry.go: how long to wait before a task   *)
(* is tried again.  No handler of the repository calls it, so there is no  *)
(* loop to model, only what it returns for a policy.                       *)
(***************************************************************************)
EXTENDS Integers

CONSTANTS RetryCounts  \* the retry_count of the policies asked
ASSUME RetryAssumption == RetryCounts \subseteq Nat

VARIABLE retryCount  \* field RetryCount of the policy asked

\* No code counts retries.
RetryInit == retryCount \in RetryCounts
RetrySpec == RetryInit /\ [][FALSE]_retryCount

baseBackoffInterval == 2
maxBackoffInterval == 60

\* The smallest int64, in seconds of no consequence: all that matters is its sign.
Negative == -1

\* time.Duration(float64(base) * 2^n).  In nanoseconds the product is 2 * 10^9 * 2^n,
\* which exceeds 2^63 from n = 33 on; what the conversion to int64 then gives is up
\* to the processor, the smallest int64 (amd64) or the largest (arm64).  From n = 28
\* on a product is only compared with the cap, so 2^29 stands for it.
Converted(n) ==
    IF n >= 33 THEN {Negative, 2^29} ELSE {IF n >= 28 THEN 2^29 ELSE baseBackoffInterval * 2^n}

\* Mutant of NextBackoff: the exponent counts from the first retry.
NextBackoffShifted(n) ==
    {IF d > maxBackoffInterval THEN maxBackoffInterval ELSE d : d \in Converted(n + 1)}

\* The waits a policy with retry_count n may give, in seconds.
NextBackoff(n) ==
    {IF d > maxBackoffInterval THEN maxBackoffInterval ELSE d : d \in Converted(n)}

-------------------------------------------------------------------------------
(* Properties *)

\* The backoff starts at the base interval and each retry doubles the wait before it,
\* up to the cap.  Only from retry_count 33 on may it be negative instead, which is no
\* wait at all: the float64 product is converted before it is capped, and nothing
\* limits retry_count.
BackoffDoubles ==
    /\ NextBackoff(0) = {baseBackoffInterval}
    /\ \A w \in NextBackoff(retryCount), v \in NextBackoff(retryCount + 1) :
        \/ retryCount + 1 >= 33 /\ v < 0
        \/ w < 0 /\ v = maxBackoffInterval
        \/ w > 0 /\ v = IF 2 * w > maxBackoffInterval THEN maxBackoffInterval ELSE 2 * w
===============================================================================
