----------------------------- MODULE PoliteFetch -----------------------------
(***************************************************************************)
(* How novel-fetcher asks a site: its one worker fetches a text or an      *)
(* image after the other, tries again after a failure, and before every    *)
(* request takes the next moment the rate limiter of the host reserves.  A *)
(* wait that is given up keeps its reservation.  Timers are taken to fire  *)
(* on time, an answer takes as long as it likes.                           *)
(***************************************************************************)
EXTENDS Naturals, Sequences

CONSTANTS Policies,      \* FetchPolicy of the site
          MaxTime        \* how long the clock runs, and reservations reach

ASSUME PoliteAssumption ==
  /\ MaxTime \in Nat
  /\ Policies \subseteq [Interval : Nat \ {0}, WaitSteps : Nat, StepsWait : Nat,
                         RetryWait : Nat, MaxRetries : Nat]

VARIABLES policy, now,
          host,        \* hostState: counter, last, next; 0 for a zero time
          fetch,       \* the fetch under way: phase, until, attempt
          sent         \* when the latest requests went out

polite == <<policy, now, host, fetch, sent>>

Later(s, t) == IF s > t THEN s ELSE t
stepsWait == Later(policy.StepsWait, policy.Interval)

\* A host that has been left alone for a long time starts anew.
Rested_Interval == host.last # 0 /\ now - host.last > policy.Interval /\ host.next <= now
Rested == host.last # 0 /\ now - host.last > stepsWait /\ host.next <= now

delayAfterRequest(counter) ==
  IF policy.WaitSteps > 0 /\ counter % policy.WaitSteps = 0 THEN stepsWait
  ELSE policy.Interval

NoFetch == [phase |-> "idle", until |-> 0, attempt |-> 0]

\* Reserve the next moment and wait for it.
Reserve(attempt) ==
  LET counter == (IF Rested THEN 0 ELSE host.counter) + 1
      allowedAt == Later(IF Rested THEN 0 ELSE host.next, now)
  IN /\ host' = [counter |-> counter, last |-> allowedAt,
                 next |-> allowedAt + delayAfterRequest(counter)]
     /\ fetch' = [phase |-> "waiting", until |-> allowedAt, attempt |-> attempt]

BeginFetch ==
  /\ fetch.phase = "idle" /\ host.next <= MaxTime /\ Reserve(0)
  /\ UNCHANGED <<policy, now, sent>>

Send ==
  /\ fetch.phase = "waiting" /\ now >= fetch.until
  /\ sent' = LET n == policy.WaitSteps + 1
                 all == Append(sent, now)
             IN IF Len(all) > n THEN Tail(all) ELSE all
  /\ fetch' = [fetch EXCEPT !.phase = "sent"]
  /\ UNCHANGED <<policy, now, host>>

\* The text, a refusal, or a demand to back off (429, 503): no retry.
Settled ==
  /\ fetch.phase = "sent" /\ fetch' = NoFetch
  /\ UNCHANGED <<policy, now, host, sent>>

\* A broken connection or a failure of the server.
RequestFails ==
  /\ fetch.phase = "sent"
  /\ fetch' = IF fetch.attempt = policy.MaxRetries THEN NoFetch
              ELSE [fetch EXCEPT !.phase = "retry", !.until = now + policy.RetryWait]
  /\ UNCHANGED <<policy, now, host, sent>>

Retry ==
  /\ fetch.phase = "retry" /\ now >= fetch.until /\ host.next <= MaxTime /\ Reserve(fetch.attempt + 1)
  /\ UNCHANGED <<policy, now, sent>>

\* The task is paused or canceled while it waits, or the request is cut off.
GiveUpWaiting ==
  /\ fetch.phase \in {"waiting", "retry", "sent"} /\ fetch' = NoFetch
  /\ UNCHANGED <<policy, now, host, sent>>

Tick ==
  /\ now < MaxTime /\ now' = now + 1
  /\ fetch.phase \in {"waiting", "retry"} => now < fetch.until
  /\ UNCHANGED <<policy, host, fetch, sent>>

PoliteInit ==
  /\ policy \in Policies /\ now = 1 /\ sent = <<>> /\ fetch = NoFetch
  /\ host = [counter |-> 0, last |-> 0, next |-> 0]

PoliteAtEnd == now = MaxTime /\ fetch = NoFetch

PoliteNext ==
  \/ Tick \/ BeginFetch \/ Send \/ Settled \/ RequestFails \/ Retry \/ GiveUpWaiting

PoliteSpec == PoliteInit /\ [][PoliteNext]_polite

-----------------------------------------------------------------------------
\* Whatever is retried, given up, or left alone for a while: requests to a
\* host keep the interval, and after as many as WaitSteps there has been one
\* long pause between them (reserve, delayAfterRequest).
GapsAreKept ==
  LET gap(i) == sent[i + 1] - sent[i]
      gaps == 1..Len(sent) - 1
  IN /\ \A i \in gaps : gap(i) >= policy.Interval
     /\ policy.WaitSteps > 0 /\ Len(sent) > policy.WaitSteps =>
          \E i \in gaps : gap(i) >= stepsWait
=============================================================================
