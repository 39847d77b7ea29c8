------------------------------- MODULE Client -------------------------------
(*****************************************************************************)
(* LeetCodeClient and AuthenticatedLeetCodeClient (connectors/leetcode/      *)
(* client.py, authenticated_client.py) of one sync: every call posts one     *)
(* request, posts it again after a transient failure, and makes something of *)
(* what came back.  Delays count in units of backoff_base.                   *)
(*****************************************************************************)
EXTENDS Integers, FiniteSetsExt

CONSTANTS
    Requested,      \* values of max_retries that clients are built with
    MaxAllowed,     \* MAX_ALLOWED_RETRIES
    BackoffMax, RateLimitMaxWait,
    RetryAfter,     \* delays LeetCode asks for when it limits the rate
    MaxCalls        \* bound: calls of one client

ASSUME ClientAssumption ==
    /\ Requested \subseteq Int /\ RetryAfter \subseteq Nat
    /\ {MaxAllowed, BackoffMax, RateLimitMaxWait, MaxCalls} \subseteq Nat

VARIABLES
    maxRetries,     \* self.max_retries
    call,           \* the call under way: its method, its number, the attempt it
                    \* is at, the time it has slept
    lastError,      \* the call that last_error tells of; 0 for None
    result          \* what the last call came to: its method, what LeetCode's
                    \* answer was, what the caller got, and the call that the
                    \* exception tells of

clientVars == <<maxRetries, call, lastError, result>>

\* Calls that answer with something empty, and one that raises.
Empty == {"fetch_user_profile", "fetch_user_submissions", "fetch_problem_details",
          "fetch_problem_list", "fetch_submission_code"}
Methods == Empty \cup {"fetch_submissions_page"}

Answers == {"data", "null", "unusable", "refused", "transient", "broken"}

ClientTypeOK ==
    /\ maxRetries \in 0..MaxAllowed
    /\ call.at \in {"idle", "post"}
    /\ call.method \in Methods /\ call.number \in 0..MaxCalls
    /\ call.attempt \in Nat \ {0} /\ call.slept \in Nat
    /\ lastError \in 0..MaxCalls
    /\ result.method \in Methods /\ result.answer \in Answers
    /\ result.got \in {"data", "nothing", "exception"}
    /\ result.reason \in 0..MaxCalls

AtLeast(n, bound) == IF n < bound THEN bound ELSE n
NoMore(n, bound) == IF n > bound THEN bound ELSE n

\* __init__: any number is brought within bounds.
Clamped(requested) == AtLeast(NoMore(requested, MaxAllowed), 0)

Idle(n) == [at |-> "idle", method |-> "fetch_user_profile", number |-> n,
            attempt |-> 1, slept |-> 0]

ClientInit ==
    /\ maxRetries \in {Clamped(n) : n \in Requested}
    /\ call = Idle(0)
    /\ lastError = 0
    /\ result = [method |-> "fetch_user_profile", answer |-> "data", got |-> "data",
                 reason |-> 0]

Call(method) ==
    /\ call.at = "idle" /\ call.number < MaxCalls
    /\ call' = [Idle(call.number + 1) EXCEPT !.at = "post", !.method = method]
    /\ UNCHANGED <<maxRetries, lastError, result>>

\* The calls that make nothing of an answer without data: a page of submissions
\* raises, and an error of no type of its own only the fetch of a code swallows.
Swallowing(answer) ==
    IF answer = "broken" THEN {"fetch_submission_code"} ELSE Empty

End(answer, reason) ==
    /\ result' = [method |-> call.method, answer |-> answer, reason |-> reason,
                  got |-> IF answer = "data" THEN "data"
                          ELSE IF call.method \in Swallowing(answer) THEN "nothing"
                          ELSE "exception"]
    /\ call' = Idle(call.number)
    /\ UNCHANGED maxRetries

\* A GraphQL object with data in it; with none, where the page names whatever
\* last_error holds; or without the part that is asked for.
Answered ==
    /\ call.at = "post"
    /\ \/ End("data", 0)
       \/ End("null", lastError)
       \/ End("unusable", 0)
    /\ UNCHANGED lastError

\* 4xx, a body that is no GraphQL answer, a rejected query: not posted again.
Refused ==
    /\ call.at = "post"
    /\ End("refused", call.number)
    /\ lastError' = call.number

\* An HTTP error that is neither an OSError nor a LeetCodeError passes through the
\* client.
Broken ==
    /\ call.at = "post"
    /\ End("broken", call.number)
    /\ UNCHANGED lastError

Doubled[n \in Nat] == IF n = 0 THEN 1 ELSE 2 * Doubled[n - 1]

\* Mutant: what LeetCode asks for is not capped.
UncappedDelays(attempt) ==
    RetryAfter
      \cup {NoMore(Doubled[attempt - 1] + jitter, BackoffMax) : jitter \in 0..1}

\* _retry_delay: what LeetCode asks for, or twice as long each time; capped.
RetryDelays(attempt) ==
    {NoMore(asked, RateLimitMaxWait) : asked \in RetryAfter}
      \cup {NoMore(Doubled[attempt - 1] + jitter, BackoffMax) : jitter \in 0..1}

\* No connection, a timeout, 5xx or 429.
Retry ==
    /\ call.at = "post"
    /\ call.attempt <= maxRetries
    /\ \E delay \in RetryDelays(call.attempt) :
           call' = [call EXCEPT !.attempt = @ + 1, !.slept = @ + delay]
    /\ UNCHANGED <<maxRetries, lastError, result>>

GiveUp ==
    /\ call.at = "post"
    /\ call.attempt > maxRetries
    /\ End("transient", call.number)
    /\ lastError' = call.number

ClientNext ==
    \/ \E method \in Methods : Call(method)
    \/ Answered \/ Refused \/ Broken \/ Retry \/ GiveUp

\* client.py:402-446, authenticated_client.py:170-180: whatever max_retries was
\* asked for and whatever LeetCode asks, a call posts at most six times and sleeps
\* no longer than its waits may add up to; no list or object that came of a failure
\* passes for data; and a page that failed names its own failure, unless LeetCode
\* answered with no data at all: then an older error may be named.
CallsBounded ==
    /\ call.attempt <= MaxAllowed + 1
    /\ call.slept <= (call.attempt - 1) * Max({BackoffMax, RateLimitMaxWait})
    /\ result.got = "data" => result.answer = "data"
    /\ result.got = "exception" /\ result.answer \notin {"null", "unusable"} =>
           result.reason = call.number \/ call.at # "idle"

ClientSpec == ClientInit /\ [][ClientNext]_clientVars
=============================================================================
