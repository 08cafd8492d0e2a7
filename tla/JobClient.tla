------------------------------ MODULE JobClient ------------------------------
(***************************************************************************)
(* The requests of the HTTP API: JobService.create and cancel, and         *)
(* DlqManager.requeue.  Every one reads or writes the row, and acts again  *)
(* later on what it read.                                                  *)
(***************************************************************************)
EXTENDS JobStore

CONSTANT Clients   \* requests served at a time

VARIABLES
    cpc,    \* where a request is
    cjob,   \* the job it is about
    asked   \* history: the jobs whose cancel request was answered

clientVars == <<cpc, cjob, asked>>

ClientPcs == {"idle", "create", "publish", "cancelQueued", "cancelFlag", "requeue"}

JobClientTypeOK ==
    /\ cpc \in [Clients -> ClientPcs]
    /\ cjob \in [Clients -> Jobs \cup {NoJob}]
    /\ asked \subseteq Jobs

JobClientInit ==
    /\ cpc = [c \in Clients |-> "idle"]
    /\ cjob = [c \in Clients |-> NoJob]
    /\ asked = {}

Begins(c, j, pc) ==
    /\ cpc[c] = "idle"
    /\ cpc' = [cpc EXCEPT ![c] = pc]
    /\ cjob' = [cjob EXCEPT ![c] = j]

Answers(c) ==
    /\ cpc' = [cpc EXCEPT ![c] = "idle"]
    /\ cjob' = [cjob EXCEPT ![c] = NoJob]

\* A job is known to others when create has returned its id.
Known(j) ==
    /\ Status(j) # "ABSENT"
    /\ \A c \in Clients : cpc[c] = "create" => cjob[c] # j

Create(c, j) ==
    /\ Status(j) = "ABSENT"
    /\ row' = [row EXCEPT ![j] = [NoRow EXCEPT !.status = "QUEUED"]]
    /\ Begins(c, j, "create")
    /\ UNCHANGED <<queue, cp, completed, asked>>

ClientPublishes(c) ==
    /\ cpc[c] \in {"create", "publish"}
    /\ Publish(cjob[c])
    /\ Answers(c)
    /\ UNCHANGED <<row, cp, completed, asked>>

\* cancel reads the row; of a job that has ended it changes nothing.
ReadForCancel(c, j) ==
    /\ Known(j)
    /\ \/ Status(j) = "QUEUED" /\ Begins(c, j, "cancelQueued")
       \/ Status(j) \in {"RUNNING", "RETRYING"} /\ Begins(c, j, "cancelFlag")
    /\ UNCHANGED <<jobStoreVars, asked>>

\* The transition that may come too late leaves no trace.
CancelQueued(c) ==
    /\ cpc[c] = "cancelQueued"
    /\ \E ok \in BOOLEAN :
          Transition(cjob[c], "QUEUED", [row[cjob[c]] EXCEPT !.status = "CANCELLED"], ok)
    /\ asked' = asked \cup {cjob[c]}
    /\ Answers(c)
    /\ UNCHANGED <<queue, cp, completed>>

CancelFlag(c) ==
    /\ cpc[c] = "cancelFlag"
    /\ SetCancelRequested(cjob[c])
    /\ asked' = asked \cup {cjob[c]}
    /\ Answers(c)
    /\ UNCHANGED <<queue, cp, completed>>

ReadForRequeue(c, j) ==
    /\ Known(j)
    /\ Status(j) = "DEAD"
    /\ Begins(c, j, "requeue")
    /\ UNCHANGED <<jobStoreVars, asked>>

\* Mutant of Requeue: the request ends without a message.
RequeueForgets(c) ==
    LET j == cjob[c]
    IN  /\ cpc[c] = "requeue"
        /\ \E ok \in BOOLEAN :
              Transition(j, "DEAD", [Settled(row[j], "QUEUED") EXCEPT !.retries = 0], ok)
        /\ Answers(c)
        /\ UNCHANGED <<queue, cp, completed, asked>>

\* DEAD -> QUEUED with the retry count reset.  The job starts afresh: a cancel
\* request of its earlier life is over.
Requeue(c) ==
    LET j == cjob[c]
    IN  /\ cpc[c] = "requeue"
        /\ \E ok \in BOOLEAN :
              /\ Transition(j, "DEAD", [Settled(row[j], "QUEUED") EXCEPT !.retries = 0], ok)
              /\ IF ok
                   THEN /\ cpc' = [cpc EXCEPT ![c] = "publish"]
                        /\ asked' = asked \ {j}
                        /\ UNCHANGED cjob
                   ELSE Answers(c) /\ UNCHANGED asked
        /\ UNCHANGED <<queue, cp, completed>>

ClientStep(c) ==
    ClientPublishes(c) \/ CancelQueued(c) \/ CancelFlag(c) \/ Requeue(c)

ClientsStop ==
    /\ cpc' = [c \in Clients |-> "idle"]
    /\ cjob' = [c \in Clients |-> NoJob]
    /\ UNCHANGED asked

=============================================================================
