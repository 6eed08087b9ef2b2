---------------------------- MODULE CrawlLedger ----------------------------
(***************************************************************************)
(* What readers of the database are promised about crawl runs: the tables  *)
(* change one adapter at a time.  A run opens, enters an adapter, and then *)
(* everything that adapter produced (its jobs, its errors, its checkpoint  *)
(* and the end of its state row) becomes visible together, or only the     *)
(* failure does; a run settles its status when none of its adapters is in  *)
(* hand.  A run may stop anywhere, and then the ledger stays as it is.     *)
(***************************************************************************)
EXTENDS Naturals, Sequences

CONSTANTS Runs, Targets, AdapterOf, JobIds, None

VARIABLES runs,         \* the crawl_runs rows, by run
          states,       \* their crawl_run_adapter_states rows, in id order
          checkpoints,  \* source_checkpoints, by target
          jobs,         \* jobs, by <<source_name, source_job_id>>
          closed        \* how many adapters each run is done with

ledger == <<runs, states, checkpoints, jobs, closed>>

Keys == {AdapterOf[t] : t \in Targets} \X JobIds
Statuses == {"success", "partial_success", "failed"}

Init ==
    /\ runs = [r \in Runs |-> None]
    /\ states = [r \in Runs |-> <<>>]
    /\ checkpoints = [t \in Targets |-> None]
    /\ jobs = [k \in Keys |-> None]
    /\ closed = [r \in Runs |-> 0]

Running(r) == runs[r] # None /\ runs[r].status = "running"
InHand(r) == Len(states[r]) = closed[r] + 1
Current(r) == states[r][closed[r] + 1]

Open(r) ==
    /\ runs[r] = None
    /\ runs' = [runs EXCEPT ![r] = [status |-> "running", seen |-> 0, created |-> 0,
                                    updated |-> 0, errors |-> 0]]
    /\ UNCHANGED <<states, checkpoints, jobs, closed>>

Enter(r) ==
    /\ Running(r)
    /\ Len(states[r]) = closed[r]
    /\ Len(states'[r]) = closed[r] + 1
    /\ LET new == states'[r][closed[r] + 1] IN
          /\ new.target \in Targets
          /\ new.after = new.before
          /\ states' = [states EXCEPT ![r] = Append(@, new)]
    /\ UNCHANGED <<runs, checkpoints, jobs, closed>>

(* Rows are only inserted or updated, only for the adapter in hand, and    *)
(* all of them by one fetch; an update leaves a row its place.             *)
OneBatch(r) ==
    /\ DOMAIN jobs' = Keys
    /\ \A k \in Keys :
          jobs'[k] # jobs[k] =>
              /\ jobs'[k] # None
              /\ k[1] = AdapterOf[Current(r).target]
              /\ jobs'[k].born = IF jobs[k] = None THEN r ELSE jobs[k].born
    /\ \A k, l \in Keys :
          jobs'[k] # jobs[k] /\ jobs'[l] # jobs[l] => jobs'[k].hash[1] = jobs'[l].hash[1]

Apply(r) ==
    /\ Running(r)
    /\ InHand(r)
    /\ OneBatch(r)
    /\ \E e \in 0 .. 1 : runs' = [runs EXCEPT ![r].errors = @ + e]
    /\ LET after == states'[r][closed[r] + 1].after IN
          /\ states' = [states EXCEPT ![r][closed[r] + 1].after = after]
          /\ \/ /\ after = Current(r).before
                /\ UNCHANGED checkpoints
             \/ checkpoints' = [checkpoints EXCEPT ![Current(r).target] = after]
    /\ closed' = [closed EXCEPT ![r] = @ + 1]

Fail(r) ==
    /\ Running(r)
    /\ InHand(r)
    /\ runs' = [runs EXCEPT ![r].errors = @ + 1]
    /\ closed' = [closed EXCEPT ![r] = @ + 1]
    /\ UNCHANGED <<states, checkpoints, jobs>>

(* The status agrees with what the run stored and with its error rows.     *)
Settle(r) ==
    /\ Running(r)
    /\ ~InHand(r)
    /\ runs'[r].status \in Statuses
    /\ runs'[r].errors = runs[r].errors
    /\ runs' = [runs EXCEPT ![r] = runs'[r]]
    /\ runs'[r].status = "success" => runs'[r].errors = 0
    /\ runs'[r].status = "partial_success" => runs'[r].errors > 0
    /\ runs'[r].status = "failed" => \A k \in Keys : jobs[k] # None => jobs[k].born # r
    /\ UNCHANGED <<states, checkpoints, jobs, closed>>

Next == \E r \in Runs : Open(r) \/ Enter(r) \/ Apply(r) \/ Fail(r) \/ Settle(r)

Spec == Init /\ [][Next]_ledger
=============================================================================
