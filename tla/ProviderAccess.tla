--------------------------- MODULE ProviderAccess ---------------------------
(***************************************************************************)
(* How requests reach one data provider: BaseProvider._get_with_retry      *)
(* (backend/providers/base.py; _post_with_retry is the same code) through  *)
(* the provider's rate limiter (backend/services/rate_limiter.py), its     *)
(* pybreaker circuit breaker and tenacity's retries.  The requests are     *)
(* asyncio tasks of one process: a step runs from one await to the next.   *)
(*                                                                         *)
(* Time is counted in ticks; a tick is the finest time that matters.       *)
(***************************************************************************)
EXTENDS Integers, Sequences, FiniteSets, FiniteSetsExt

CONSTANTS Task,         \* concurrent callers
          None,         \* Python's None
          Window,       \* the sliding windows that the provider's config limits
          Quota,        \* Quota[w]: max_requests_per_...
          Span,         \* Span[w]: its length
          MinDelay,     \* min_delay_seconds
          Cooldown,     \* cooldown_durations
          MaxAttempts,  \* MAX_RETRIES
          Backoff,      \* Backoff[n]: tenacity's wait after attempt n
          FailMax,      \* fail_max
          ResetTimeout, \* reset_timeout
          LastStart,    \* bound of the model: the last tick at which requests begin
          MaxClock      \* bound of the model: the last tick

ASSUME AccessAssumption ==
  /\ IsFiniteSet(Task)
  /\ Quota \in [Window -> Nat \ {0}]
  /\ Span \in [Window -> Nat \ {0}]
  /\ MinDelay \in Nat
  /\ Cooldown \in Seq(Nat \ {0}) /\ Cooldown # <<>>
  /\ MaxAttempts \in Nat \ {0}
  /\ Backoff \in [1..MaxAttempts -> Nat]
  /\ FailMax \in Nat \ {0}
  /\ ResetTimeout \in Nat
  /\ LastStart \in Nat /\ MaxClock \in Nat
  /\ None \notin Nat

VARIABLES clock,      \* the wall clock
          last,       \* last_request_time
          window,     \* window[w]: send times in the deque of window w
          openUntil,  \* _circuit_open_until
          errors429,  \* _consecutive_429_count, as far as Cooldown tells it apart
          breaker,    \* state of the provider's pybreaker circuit
          fails,      \* its fail_counter, which only the closed circuit looks at
          openedAt,   \* its opened_at
          pc,         \* pc[t]: where the request of task t is
          until,      \* until[t]: when its sleep ends
          tries,      \* tries[t]: requests it has sent
          sent        \* history: when requests were sent to the provider

limiter == <<last, window, openUntil, errors429>>
circuit == <<breaker, fails, openedAt>>
vars == <<clock, limiter, circuit, pc, until, tries, sent>>

\* "cooling" and "broken" are idle too: the last request was refused, by the
\* limiter's circuit or by the breaker
Idle == {"idle", "cooling", "broken"}
Pcs == Idle \union {"sleep", "sent", "backoff"}

\* What a request has sent fits where it is
TriesFit ==
  \A t \in Task : /\ pc[t] \in Idle => tries[t] = 0
                  /\ pc[t] \in {"sleep", "backoff"} => tries[t] < MaxAttempts
                  /\ pc[t] = "sent" => tries[t] > 0

TypeOK ==
  /\ clock \in 0..MaxClock
  /\ last \in Nat \union {None}
  /\ window \in [Window -> Seq(Nat)]
  /\ \A w \in Window : Len(window[w]) <= Quota[w]
  /\ openUntil \in Nat \union {None}
  /\ errors429 \in 0..Len(Cooldown)
  /\ breaker \in {"closed", "open"}
  /\ fails \in 0..FailMax
  /\ openedAt \in Nat
  /\ pc \in [Task -> Pcs]
  /\ until \in [Task -> Nat]
  /\ tries \in [Task -> 0..MaxAttempts]
  /\ sent \in Seq(Nat)
  /\ TriesFit

Init ==
  /\ clock = 0
  /\ last = None
  /\ window = [w \in Window |-> <<>>]
  /\ openUntil = None
  /\ errors429 = 0
  /\ breaker = "closed"
  /\ fails = 0
  /\ openedAt = 0
  /\ pc = [t \in Task |-> "idle"]
  /\ until = [t \in Task |-> 0]
  /\ tries = [t \in Task |-> 0]
  /\ sent = <<>>
-----------------------------------------------------------------------------
(* The rate limiter.                                                        *)

CoolingDown == openUntil # None /\ clock < openUntil

\* _cleanup_windows: times never decrease along a deque
Outdated(w) == Cardinality({i \in DOMAIN window[w] : window[w][i] < clock - Span[w]})

Cleaned == [w \in Window |-> SubSeq(window[w], Outdated(w) + 1, Len(window[w]))]

\* The times before which get_delay_until_ready holds a request back
ReadyTimes(q) ==
  {clock}
    \union {last + MinDelay : l \in {last} \ {None}}
    \union {q[w][1] + Span[w] : w \in {v \in Window : Len(q[v]) >= Quota[v]}}

\* Mutant: a full deque takes no more entries
RecordedUnlessFull(q) ==
  [w \in Window |-> IF Len(q[w]) < Quota[w] THEN Append(q[w], clock) ELSE q[w]]

\* Mutant: the deque has no maxlen
RecordedUnbounded(q) == [w \in Window |-> Append(q[w], clock)]

\* record_request, on deques q: one with maxlen lets the oldest entry go
Recorded(q) ==
  [w \in Window |-> IF Len(q[w]) < Quota[w] THEN Append(q[w], clock)
                    ELSE Append(Tail(q[w]), clock)]

\* record_rate_limit_error
RecordRateLimitError ==
  /\ errors429' = IF errors429 < Len(Cooldown) THEN errors429 + 1 ELSE errors429
  /\ openUntil' = clock + Cooldown[errors429']

\* Mutant: the cooldown survives a success
RecordSuccessOnly ==
  /\ errors429' = 0
  /\ UNCHANGED openUntil

\* record_success
RecordSuccess ==
  /\ errors429' = 0
  /\ openUntil' = None
-----------------------------------------------------------------------------
(* The circuit breaker.  call_through_breaker replays the outcome of a call *)
(* into breaker.call: an open circuit swallows it until ResetTimeout is     *)
(* over, and takes it for its trial call from then on.                      *)
RecordOutcome(failed) ==
  \/ /\ breaker = "closed" /\ ~failed
     /\ fails' = 0
     /\ UNCHANGED <<breaker, openedAt>>
  \/ /\ breaker = "closed" /\ failed /\ fails + 1 < FailMax
     /\ fails' = fails + 1
     /\ UNCHANGED <<breaker, openedAt>>
  \/ /\ breaker = "closed" /\ failed /\ fails + 1 >= FailMax
     /\ fails' = FailMax
     /\ breaker' = "open"
     /\ openedAt' = clock
  \/ /\ breaker = "open" /\ clock < openedAt + ResetTimeout
     /\ UNCHANGED circuit
  \/ /\ breaker = "open" /\ clock >= openedAt + ResetTimeout /\ ~failed
     /\ breaker' = "closed"
     /\ fails' = 0
     /\ UNCHANGED openedAt
  \/ /\ breaker = "open" /\ clock >= openedAt + ResetTimeout /\ failed
     /\ openedAt' = clock
     /\ UNCHANGED <<breaker, fails>>
-----------------------------------------------------------------------------
(* A request.                                                               *)

\* Mutant: the request is not recorded
SendUnrecorded(t, q) ==
  /\ window' = q
  /\ sent' = Append(sent, clock)
  /\ tries' = [tries EXCEPT ![t] = @ + 1]
  /\ pc' = [pc EXCEPT ![t] = "sent"]
  /\ UNCHANGED last

\* record_provider_request on deques q, then client.get
Send(t, q) ==
  /\ last' = clock
  /\ window' = Recorded(q)
  /\ sent' = Append(sent, clock)
  /\ tries' = [tries EXCEPT ![t] = @ + 1]
  /\ pc' = [pc EXCEPT ![t] = "sent"]

\* wait_for_provider: the delay is computed once, and slept once
WaitOrSend(t) ==
  \E r \in ReadyTimes(Cleaned) :
    /\ \A s \in ReadyTimes(Cleaned) : s <= r
    /\ \/ /\ r = clock
          /\ Send(t, Cleaned)
          /\ UNCHANGED until
       \/ /\ r > clock
          /\ window' = Cleaned
          /\ pc' = [pc EXCEPT ![t] = "sleep"]
          /\ until' = [until EXCEPT ![t] = r]
          /\ UNCHANGED <<last, tries, sent>>

Begin(t) ==
  /\ pc[t] \in Idle
  /\ clock <= LastStart
  /\ openUntil' = IF CoolingDown THEN openUntil ELSE None
  /\ \/ /\ CoolingDown
        /\ pc' = [pc EXCEPT ![t] = "cooling"]
        /\ UNCHANGED <<last, window, until, tries, sent>>
     \/ /\ ~CoolingDown /\ breaker = "open"
        /\ pc' = [pc EXCEPT ![t] = "broken"]
        /\ UNCHANGED <<last, window, until, tries, sent>>
     \/ /\ ~CoolingDown /\ breaker # "open"
        /\ WaitOrSend(t)
  /\ UNCHANGED <<clock, errors429, circuit>>

WakeUp(t) ==
  /\ pc[t] = "sleep"
  /\ clock >= until[t]
  /\ Send(t, window)
  /\ UNCHANGED <<clock, openUntil, errors429, circuit, until>>

\* tenacity sleeps over: the attempt starts with wait_for_provider again
Retry(t) ==
  /\ pc[t] = "backoff"
  /\ clock >= until[t]
  /\ WaitOrSend(t)
  /\ UNCHANGED <<clock, openUntil, errors429, circuit>>

Finish(t, failed) ==
  /\ RecordOutcome(failed)
  /\ pc' = [pc EXCEPT ![t] = "idle"]
  /\ tries' = [tries EXCEPT ![t] = 0]
  /\ until' = [until EXCEPT ![t] = 0]

RetryOrGiveUp(t) ==
  \/ /\ tries[t] < MaxAttempts
     /\ pc' = [pc EXCEPT ![t] = "backoff"]
     /\ until' = [until EXCEPT ![t] = clock + Backoff[tries[t]]]
     /\ UNCHANGED <<circuit, tries>>
  \/ /\ tries[t] >= MaxAttempts
     /\ Finish(t, TRUE)

Succeed(t) ==
  /\ pc[t] = "sent"
  /\ RecordSuccess
  /\ Finish(t, FALSE)
  /\ UNCHANGED <<clock, last, window, sent>>

\* A 4xx is the request's fault: the breaker excludes it, and pybreaker takes
\* an excluded error for a success
ClientError(t) ==
  /\ pc[t] = "sent"
  /\ Finish(t, FALSE)
  /\ UNCHANGED <<clock, limiter, sent>>

RateLimited(t) ==
  /\ pc[t] = "sent"
  /\ RecordRateLimitError
  /\ RetryOrGiveUp(t)
  /\ UNCHANGED <<clock, last, window, sent>>

\* A 5xx, a timeout or a refused connection
Unavailable(t) ==
  /\ pc[t] = "sent"
  /\ RetryOrGiveUp(t)
  /\ UNCHANGED <<clock, limiter, sent>>

\* An error that is not retried
Broken(t) ==
  /\ pc[t] = "sent"
  /\ Finish(t, TRUE)
  /\ UNCHANGED <<clock, limiter, sent>>

\* The caller is cancelled wherever it waits: `except BaseException` hands the
\* CancelledError to the breaker
Cancel(t) ==
  /\ pc[t] \in {"sleep", "sent", "backoff"}
  /\ Finish(t, TRUE)
  /\ UNCHANGED <<clock, limiter, sent>>

Tick ==
  /\ clock < MaxClock
  /\ clock' = clock + 1
  /\ UNCHANGED <<limiter, circuit, pc, until, tries, sent>>

Proceed(t) ==
  \/ WakeUp(t)
  \/ Retry(t)
  \/ Succeed(t)
  \/ ClientError(t)
  \/ RateLimited(t)
  \/ Unavailable(t)
  \/ Broken(t)
  \/ Cancel(t)

Next == Tick \/ \E t \in Task : Begin(t) \/ Proceed(t)

Spec == Init /\ [][Next]_vars
-----------------------------------------------------------------------------
(* Properties.                                                              *)

SentSince(x) == Cardinality({i \in DOMAIN sent : sent[i] > x})

Spans == {[quota |-> Quota[w], span |-> Span[w]] : w \in Window}
           \union {[quota |-> 1, span |-> MinDelay]}

\* rate_limiter.py:3-4: the limiter is there "enforcing delays between requests
\* to stay within provider limits".  A caller alone stays within every limit, the
\* spacing and the windows; callers that slept through the same wait overrun it
\* together, by at most one request for each further caller.
OverrunBounded ==
  \A l \in Spans : SentSince(clock - l.span) < l.quota + Cardinality(Task)

\* A window's deque holds every request that still counts, up to its quota, even
\* after an overrun has pushed entries out of it.
WindowsRemember ==
  \A w \in Window :
    Cardinality({i \in DOMAIN window[w] : window[w][i] > clock - Span[w]})
      = Min({Quota[w], SentSince(clock - Span[w])})

\* After a success nobody is turned away, and nobody for longer than the 429s
\* since then call for, in whatever order late answers arrive.
CooldownOnLadder ==
  openUntil # None =>
    errors429 > 0 /\ openUntil <= clock + Cooldown[errors429]

\* base.py:33-34: "the circuit opens for 60 seconds", after which calls are let
\* through again.
BreakerResets ==
  [][\A t \in Task : (pc[t] # "broken" /\ pc'[t] = "broken") =>
       clock < openedAt + ResetTimeout]_vars
=============================================================================
