----------------------------- MODULE RateLimiter -----------------------------
(***************************************************************************)
(* PilotRateLimitMiddleware: how many requests of one address a process    *)
(* lets through to registration, to password resets and to the pilot's AI. *)
(* The clock is the process's own and starts anywhere; its unit is smaller *)
(* than the second Retry-After counts in.  A restart empties the buckets.  *)
(***************************************************************************)
EXTENDS Integers, Sequences, FiniteSets

CONSTANTS
    Clients,      \* keys: a namespace and the address of x-forwarded-for
    Limit,        \* requests allowed per window
    Window,       \* window_seconds, in units of the clock
    Second,       \* a second, in units of the clock
    MaxClock,     \* bounds of a run
    MaxRestarts

ASSUME LimiterAssumption ==
    /\ Limit \in Nat \ {0} /\ Second \in Nat \ {0}
    /\ Window \in Nat /\ Window % Second = 0 /\ Window > 0
    /\ MaxClock \in Nat /\ MaxRestarts \in Nat

VARIABLES
    clock,      \* time.monotonic()
    bucket,     \* of a client: the times of the requests let through
    answer,     \* of a client: what its last request was told, and when
    passed,     \* of a client: every request ever let through (history)
    restarts    \* when the process was restarted (history)

limiterVars == <<clock, bucket, answer, passed, restarts>>

Unasked == [was |-> "none", at |-> 0, retry |-> 0, tries |-> 0]

LimiterInit ==
    /\ clock = 0
    /\ bucket = [c \in Clients |-> <<>>]
    /\ answer = [c \in Clients |-> Unasked]
    /\ passed = [c \in Clients |-> <<>>]
    /\ restarts = <<>>

Pass ==
    /\ clock < MaxClock
    /\ clock' = clock + 1
    /\ UNCHANGED <<bucket, answer, passed, restarts>>

\* How many leave on the left: one at the cutoff still does.
Outdated(times) ==
    CHOOSE n \in 0 .. Len(times) :
        /\ \A i \in 1 .. n : times[i] + Window <= clock
        /\ n = Len(times) \/ times[n + 1] + Window > clock

Recent(times) == SubSeq(times, Outdated(times) + 1, Len(times))

\* Mutant: one request too many.
FullWhenOver(times) == Len(times) > Limit

Full(times) == Len(times) >= Limit

Larger(a, b) == IF a > b THEN a ELSE b

\* The time until the oldest leaves the window, in whole seconds.
Wait(times) == (Window - (clock - times[1])) \div Second

\* max(1, int(...)), in units of the clock.
RetryAfter(times) == Second * Larger(1, Wait(times))

\* A client that asks before it was told to starts over; one that waited and
\* is refused again has tried once more.
Tries(c) ==
    IF answer[c].was = "refused" /\ clock >= answer[c].at + answer[c].retry
    THEN answer[c].tries + 1 ELSE 1

Admit(c) ==
    LET times == Recent(bucket[c])
    IN  /\ ~ Full(times)
        /\ bucket' = [bucket EXCEPT ![c] = Append(times, clock)]
        /\ passed' = [passed EXCEPT ![c] = Append(@, clock)]
        /\ answer' = [answer EXCEPT ![c] = [Unasked EXCEPT !.was = "admitted", !.at = clock]]
        /\ UNCHANGED <<clock, restarts>>

\* 429: the pruned bucket stays.
Refused(c) ==
    LET times == Recent(bucket[c])
    IN  /\ Full(times)
        /\ bucket' = [bucket EXCEPT ![c] = times]
        /\ answer' = [answer EXCEPT ![c] =
              [was |-> "refused", at |-> clock, retry |-> RetryAfter(times),
               tries |-> Tries(c)]]
        /\ UNCHANGED <<clock, passed, restarts>>

\* _buckets is a variable of the process.
Restart ==
    /\ Len(restarts) < MaxRestarts
    /\ restarts' = Append(restarts, clock)
    /\ bucket' = [c \in Clients |-> <<>>]
    /\ UNCHANGED <<clock, answer, passed>>

LimiterNext ==
    \/ Pass \/ Restart
    \/ \E c \in Clients : Admit(c) \/ Refused(c)

LimiterSpec == LimiterInit /\ [][LimiterNext]_limiterVars

------------------------------------------------------------------------------
\* What the limiter promises, to the service and to its clients.

\* Instants are kept in order, and a bucket holds some of the last requests
\* its client was let through with.
LimiterTypes ==
    \A c \in Clients :
        /\ Len(bucket[c]) <= Limit
        /\ Len(bucket[c]) <= Len(passed[c])
        /\ bucket[c] = SubSeq(passed[c], Len(passed[c]) - Len(bucket[c]) + 1,
                              Len(passed[c]))
        /\ \A i, j \in DOMAIN passed[c] : i < j => passed[c][i] <= passed[c][j]

\* How many of these instants lie in the window's length from here on.
Within(times, from) ==
    Cardinality({i \in DOMAIN times : from <= times[i] /\ times[i] < from + Window})

\* In any stretch as long as the window a client gets through at most the
\* limit, and once more as many for every restart in it, wherever the stretch
\* begins: the window slides, so no boundary lets two quotas meet.
AbuseIsBounded ==
    \A c \in Clients : \A from \in 0 .. clock :
        Within(passed[c], from) <= Limit * (1 + Within(restarts, from))

\* A client that waits as long as it is told is refused at most once more: the
\* seconds of Retry-After are rounded down, so the first wait may end within
\* the last second of the window.
WaitingIsRewarded == \A c \in Clients : answer[c].tries <= 2

\* What is refused was too much, and what waited is served: see the two parts.
LimiterKeepsItsWord == AbuseIsBounded /\ WaitingIsRewarded
==============================================================================
