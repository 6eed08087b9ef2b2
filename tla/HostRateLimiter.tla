-------------------------- MODULE HostRateLimiter --------------------------
(***************************************************************************)
(* fetchers/rate_limit.py: a limiter keeps a semaphore for each host.  The *)
(* semaphores are asyncio's, external to the repository: first come, first *)
(* served, and a permit given back goes to the first task that waits for   *)
(* one, which has it from then on although it has yet to run again.        *)
(*                                                                         *)
(* A call is one HttpFetcher.get; the fetchers that EXTEND this module     *)
(* build their actions from its operators.                                 *)
(***************************************************************************)
EXTENDS Integers, FiniteSets, Sequences, SequencesExt

CONSTANTS Calls,         \* the calls, each with a URL of its own
          LimiterOf,     \* the limiter of the fetcher that makes the call
          HostOf,        \* host_for_url of the call's URL
          PerHostLimit   \* per_host_limit

(* The constructor raises ValueError on anything less.                     *)
ASSUME PerHostLimitAssumption == PerHostLimit \in Nat \ {0}
ASSUME CallsAssumption == IsFiniteSet(Calls)

VARIABLES value,     \* the free permits of each semaphore
          waiters,   \* the calls that wait on it, in order
          woken      \* the waiters that have been given a permit

limitervars == <<value, waiters, woken>>

(* Variant, wrong: the semaphores are kept by URL.                         *)
SlotOfUrl(c) == <<LimiterOf[c], c>>

(* self._locks[self.host_for_url(url)]                                     *)
SlotOf(c) == <<LimiterOf[c], HostOf[c]>>

Slots == {SlotOf(c) : c \in Calls}

LimiterInit ==
    /\ value = [s \in Slots |-> PerHostLimit]
    /\ waiters = [s \in Slots |-> <<>>]
    /\ woken = {}

Locked(s) == value[s] = 0 \/ waiters[s] # <<>>

(* acquire, when a permit is free and nobody waits.                        *)
Take(c) ==
    /\ ~Locked(SlotOf(c))
    /\ value' = [value EXCEPT ![SlotOf(c)] = @ - 1]
    /\ UNCHANGED <<waiters, woken>>

(* acquire, otherwise, up to `await fut`.                                  *)
Queue(c) ==
    /\ Locked(SlotOf(c))
    /\ waiters' = [waiters EXCEPT ![SlotOf(c)] = Append(@, c)]
    /\ UNCHANGED <<value, woken>>

(* Whom n permits wake in a queue: the first n that sleep.                 *)
Wakes(q, n) ==
    LET asleep == {i \in DOMAIN q : q[i] \notin woken}
    IN  {q[i] : i \in {i \in asleep : Cardinality({j \in asleep : j < i}) < n}}

(* acquire, from `await fut`: c leaves the queue, with its permit or, when *)
(* it is cancelled, without; permits left over wake those who came later.  *)
Depart(c, returned) ==
    LET s == SlotOf(c)
        others == RemoveAt(waiters[s], CHOOSE i \in DOMAIN waiters[s] : waiters[s][i] = c)
        free == value[s] + returned
        next == Wakes(others, free)
    IN  /\ value' = [value EXCEPT ![s] = free - Cardinality(next)]
        /\ waiters' = [waiters EXCEPT ![s] = others]
        /\ woken' = (woken \ {c}) \cup next

(* semaphore.release(): a permit more, and it wakes one.                   *)
Release(c) ==
    LET s == SlotOf(c)
        next == Wakes(waiters[s], 1)
    IN  /\ value' = [value EXCEPT ![s] = @ + 1 - Cardinality(next)]
        /\ woken' = woken \cup next
        /\ UNCHANGED waiters
=============================================================================
