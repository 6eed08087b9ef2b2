---------------------------- MODULE HttpFetcher ----------------------------
(***************************************************************************)
(* HttpFetcher.get: attempts under the host's limiter, with a pause after  *)
(* each that fails, for several calls on one event loop.  A call holds a   *)
(* permit from the moment it enters the limiter's block until it leaves it *)
(* and never while it pauses.                                              *)
(***************************************************************************)
EXTENDS Integers, FiniteSets, HostRateLimiter

CONSTANTS RetriesOf,   \* max_retries of the fetcher that makes the call
          MayCancel    \* whether tasks are cancelled

ASSUME HttpFetcherAssumption ==
    /\ RetriesOf \in [Calls -> Int]
    /\ MayCancel \in BOOLEAN

VARIABLES pc,       \* where each call is
          attempt   \* the `for` loop's variable, 0 before the loop

vars == <<limitervars, pc, attempt>>

Init ==
    /\ LimiterInit
    /\ pc = [c \in Calls |-> "idle"]
    /\ attempt = [c \in Calls |-> 0]

Goto(c, label) == pc' = [pc EXCEPT ![c] = label]

AttemptsAllowed(c) == RetriesOf[c] + 1

(* `async with self.rate_limiter.limit(url)`, up to its first await.       *)
Enter(c) ==
    \/ Take(c) /\ Goto(c, "request")
    \/ Queue(c) /\ Goto(c, "queued")

(* Variant, wrong: limit() without try and finally.                        *)
ReleasedNot(c) == c \in Calls /\ UNCHANGED limitervars

(* Leaving the block, by whatever way: limit()'s finally.                  *)
Released(c) == Release(c)

Start(c) ==
    /\ pc[c] = "idle"
    /\ AttemptsAllowed(c) >= 1
    /\ attempt' = [attempt EXCEPT ![c] = 1]
    /\ Enter(c)

(* A negative max_retries: FetchError "after 0 attempt(s)".                *)
NoAttempts(c) ==
    /\ pc[c] = "idle"
    /\ AttemptsAllowed(c) < 1
    /\ Goto(c, "failed")
    /\ UNCHANGED <<limitervars, attempt>>

Admitted(c) ==
    /\ pc[c] = "queued"
    /\ c \in woken
    /\ Depart(c, 0)
    /\ Goto(c, "request")
    /\ UNCHANGED attempt

Respond(c) ==
    /\ pc[c] = "request"
    /\ Released(c)
    /\ Goto(c, "returned")
    /\ UNCHANGED attempt

(* Variant, wrong: off by one.                                             *)
GivesUpLate(c) == attempt[c] > AttemptsAllowed(c)

GivesUp(c) == attempt[c] = AttemptsAllowed(c)

(* A timeout, a transport error or a status that raise_for_status refuses. *)
AttemptFails(c) ==
    /\ pc[c] = "request"
    /\ Released(c)
    /\ Goto(c, IF GivesUp(c) THEN "failed" ELSE "sleep")
    /\ UNCHANGED attempt

(* An exception that get does not catch, such as httpx.InvalidURL.         *)
RequestRaises(c) ==
    /\ pc[c] = "request"
    /\ Released(c)
    /\ Goto(c, "raised")
    /\ UNCHANGED attempt

Retry(c) ==
    /\ pc[c] = "sleep"
    /\ attempt' = [attempt EXCEPT ![c] = @ + 1]
    /\ Enter(c)

(* The task is cancelled at the await it is at.                            *)
Cancel(c) ==
    /\ MayCancel
    /\ \/ pc[c] = "queued" /\ Depart(c, IF c \in woken THEN 1 ELSE 0)
       \/ pc[c] = "request" /\ Released(c)
       \/ pc[c] = "sleep" /\ UNCHANGED limitervars
    /\ Goto(c, "cancelled")
    /\ UNCHANGED attempt

Ended == {"returned", "failed", "raised", "cancelled"}

Step(c) ==
    \/ Admitted(c) \/ Respond(c) \/ AttemptFails(c) \/ RequestRaises(c) \/ Retry(c)

Next == \E c \in Calls : Start(c) \/ NoAttempts(c) \/ Step(c) \/ Cancel(c)

(* The event loop runs every task that is ready, sleeps end, and a request *)
(* ends because the client is made with a timeout.                         *)
Fairness == \A c \in Calls : WF_vars(Step(c))

Spec == Init /\ [][Next]_vars /\ Fairness
-----------------------------------------------------------------------------
(* Properties                                                              *)

TypeOK ==
    /\ value \in [Slots -> 0 .. PerHostLimit]
    /\ waiters \in [Slots -> Seq(Calls)]
    /\ woken \subseteq Calls
    /\ pc \in [Calls -> {"idle", "queued", "request", "sleep"} \cup Ended]
    /\ \A c \in Calls : attempt[c] \in 0 .. IF AttemptsAllowed(c) < 1
                                            THEN 0 ELSE AttemptsAllowed(c)

(* No permit is lost or made up: those a semaphore has free, those of the  *)
(* calls in a request and those given to calls that still wait add up to   *)
(* per_host_limit, whatever attempts failed, raised or were cancelled.     *)
PermitsConserved ==
    \A s \in Slots :
        value[s] + Cardinality({c \in Calls : SlotOf(c) = s /\ pc[c] = "request"})
                 + Cardinality({c \in woken : SlotOf(c) = s}) = PerHostLimit

(* No host sees more than per_host_limit requests at a time.               *)
PerHostBound ==
    \A c \in Calls :
        Cardinality({d \in Calls : HostOf[d] = HostOf[c] /\ pc[d] = "request"})
            <= PerHostLimit

(* A call that was started ends: no call waits for ever behind others that *)
(* fail, pause, raise or are cancelled.                                    *)
GetsEnd == \A c \in Calls : pc[c] # "idle" ~> pc[c] \in Ended
=============================================================================
