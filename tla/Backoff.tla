------------------------------ MODULE Backoff ------------------------------
(***************************************************************************)
(* How long tcp__reconn waits before the next attempt, in seconds.         *)
(***************************************************************************)
EXTENDS Naturals

CONSTANTS
    Delay,         \* reconn_delay
    DelayMax,      \* reconn_delay_max
    Exponential    \* reconn_exp_backoff

Shorter == IF Delay < DelayMax THEN Delay ELSE DelayMax
Longer == IF Delay < DelayMax THEN DelayMax ELSE Delay

\* What (rand() % timeout) + timeout / 2 can be.
Jittered(timeout) == (timeout \div 2)..(timeout \div 2 + timeout - 1)

\* The shortest wait and the longest.
Shortest == Shorter \div 2
Longest == Longer \div 2 + Longer - 1

\* The code checks none of this: with 0, rand() % timeout divides by zero, and
\* with more, timeout * 1000 leaves the range of an int.
ASSUME BackoffAssumption ==
    /\ Delay \in Nat /\ Delay >= 1
    /\ DelayMax \in Nat /\ DelayMax >= 1
    /\ Longest <= 2147483
    /\ Exponential \in BOOLEAN

Factor == IF DelayMax < Delay THEN 1 ELSE DelayMax \div Delay

\* Mutant: the cap comes one attempt too late.
CappedLate(times) ==
    IF Exponential THEN \E n \in 1..(times - 2) : Factor < 2 ^ n
                   ELSE times > Factor + 1

\* reconn_times has reached max_reconn_incr, which is Factor + 1, or one more
\* than the number of bits of Factor.
Capped(times) ==
    IF Exponential THEN \E n \in 1..(times - 1) : Factor < 2 ^ n
                   ELSE times > Factor

Timeout(times) ==
    IF Capped(times) THEN DelayMax
    ELSE IF Exponential THEN Delay * 2 ^ (times - 1) ELSE Delay * times

=============================================================================
