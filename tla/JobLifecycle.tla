----------------------------- MODULE JobLifecycle -----------------------------
(***************************************************************************)
(* What async-agent-job-queue promises about a job: the moves of           *)
(* domain/state_machine.py, and a retry count that only grows by one, in   *)
(* the move that ends an attempt, until an administrator takes the job     *)
(* back from the dead letters.  A job that is dead-lettered has used up    *)
(* its retries.                                                            *)
(***************************************************************************)
EXTENDS Naturals

CONSTANTS Jobs, MaxRetries

VARIABLES status, retries

lifeVars == <<status, retries>>

LifeInit ==
    /\ status = [j \in Jobs |-> "ABSENT"]
    /\ retries = [j \in Jobs |-> 0]

\* The edges that leave the retry count alone.
Edges == {<<"ABSENT", "QUEUED">>, <<"QUEUED", "RUNNING">>, <<"QUEUED", "CANCELLED">>,
          <<"RUNNING", "SUCCESS">>, <<"RUNNING", "FAILED">>, <<"RUNNING", "CANCELLED">>,
          <<"RUNNING", "QUEUED">>, <<"RETRYING", "QUEUED">>, <<"RETRYING", "CANCELLED">>}

Set(j, s, n) ==
    /\ status' = [status EXCEPT ![j] = s]
    /\ retries' = [retries EXCEPT ![j] = n]

Move(j) == \E e \in Edges : status[j] = e[1] /\ Set(j, e[2], retries[j])

RetryJob(j) ==
    /\ status[j] = "RUNNING"
    /\ retries[j] + 1 < MaxRetries
    /\ Set(j, "RETRYING", retries[j] + 1)

Exhaust(j) ==
    /\ status[j] = "RUNNING"
    /\ retries[j] + 1 >= MaxRetries
    /\ Set(j, "FAILED", retries[j] + 1)

Bury(j) ==
    /\ status[j] = "FAILED"
    /\ retries[j] >= MaxRetries
    /\ Set(j, "DEAD", retries[j])

Revive(j) == status[j] = "DEAD" /\ Set(j, "QUEUED", 0)

LifeNext == \E j \in Jobs : Move(j) \/ RetryJob(j) \/ Exhaust(j) \/ Bury(j) \/ Revive(j)

LifeSpec == LifeInit /\ [][LifeNext]_lifeVars

=============================================================================
