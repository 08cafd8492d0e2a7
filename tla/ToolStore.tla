------------------------------ MODULE ToolStore ------------------------------
(***************************************************************************)
(* What the processes of agent-tool-execution-platform share about ONE     *)
(* idempotency key: its Redis record, the leases of the calls that carry   *)
(* it, the job stream and the delayed set, the approvals, the database     *)
(* rows, and the scheduler's cancel flags.                                 *)
(*                                                                         *)
(* Each operator is one Redis command, one Lua script or one database      *)
(* transaction: the units that no other process can split.                 *)
(***************************************************************************)
EXTENDS Integers, Sequences, FiniteSets

CONSTANTS
    Calls,        \* the call ids that share the key
    NoCall,       \* the call id of an absent record
    Workers,      \* worker names, which are also consumer names
    CrashSafe,    \* idempotency_level.crash_safe_to_retry of the tool
    HighRisk,     \* risk_level = HIGH
    MaxAttempts,  \* max_attempts of the tool's retry policy
    MaxMessages   \* bound: messages ever added to the stream

ASSUME StoreAssumption ==
    /\ NoCall \notin Calls
    /\ CrashSafe \in BOOLEAN
    /\ HighRisk \in BOOLEAN
    /\ MaxAttempts \in Nat
    /\ MaxMessages \in Nat

VARIABLES
    idem,       \* the idempotency record
    lease,      \* lease:{call}: the id of its lease, or NoLease
    leaseIdx,   \* the sorted set of leases by expiry
    db,         \* the tool_execution row of a call
    result,     \* the calls that have a tool_result row
    stream,     \* job messages not delivered yet, oldest first
    pel,        \* delivered and not acknowledged, with their consumer
    delayed,    \* the delayed jobs
    lastId,     \* the last stream id given out
    approval,   \* the approval record of a call
    cancelled,  \* the scheduler's cancelled calls; never shrinks
    wcancel     \* the cancel requests a worker has not consumed

storeVars == <<idem, lease, leaseIdx, db, result, stream, pel, delayed, lastId,
               approval, cancelled, wcancel>>

(***************************************************************************)
(* Data.  A lease id is the id of the message its holder processes: both   *)
(* are fresh for every delivery, and a message is delivered once.          *)
(***************************************************************************)
NoLease == 0

Errors == {"none", "transient", "permanent", "cancelled"}

IdemRecords == [st : {"ABSENT", "PROCESSING", "SUCCESS", "FAILED"},
                call : Calls \cup {NoCall},
                err : Errors]

Absent == [st |-> "ABSENT", call |-> NoCall, err |-> "none"]

RowStates == {"ABSENT", "QUEUED", "PROCESSING", "SUCCESS", "FAILED",
              "WAITING_HUMAN", "CANCELLING", "CANCELLED"}

Rows == [st : RowStates, att : Nat]

NoRow == [st |-> "ABSENT", att |-> 0]

Payloads == [call : Calls, att : Nat]

Messages == [id : Nat, call : Calls, att : Nat]

Message(id, p) == [id |-> id, call |-> p.call, att |-> p.att]

Payload(m) == [call |-> m.call, att |-> m.att]

Deliveries == [msg : Messages, owner : Workers]

ApprovalStates == {"ABSENT", "WAITING", "APPROVED", "REJECTED"}

StoreTypeOK ==
    /\ idem \in IdemRecords
    /\ lease \in [Calls -> Nat]
    /\ leaseIdx \subseteq Calls
    /\ db \in [Calls -> Rows]
    /\ result \subseteq Calls
    /\ stream \in Seq(Messages)
    /\ pel \subseteq Deliveries
    /\ delayed \subseteq Payloads
    /\ lastId \in Nat
    /\ approval \in [Calls -> ApprovalStates]
    /\ cancelled \subseteq Calls
    /\ wcancel \in [Workers -> SUBSET Calls]

StoreInit ==
    /\ idem = Absent
    /\ lease = [c \in Calls |-> NoLease]
    /\ leaseIdx = {}
    /\ db = [c \in Calls |-> NoRow]
    /\ result = {}
    /\ stream = <<>>
    /\ pel = {}
    /\ delayed = {}
    /\ lastId = 0
    /\ approval = [c \in Calls |-> "ABSENT"]
    /\ cancelled = {}
    /\ wcancel = [w \in Workers |-> {}]

(***************************************************************************)
(* The idempotency record.                                                 *)
(***************************************************************************)
\* SET NX: the record is PROCESSING for call c, or somebody else's record stays.
Claim(c) == idem' = IF idem.st = "ABSENT"
                    THEN [st |-> "PROCESSING", call |-> c, err |-> "none"]
                    ELSE idem

\* The compare-and-set script: only a PROCESSING record moves.
Transition(c, st, err) == idem' = IF idem.st = "PROCESSING"
                                  THEN [st |-> st, call |-> c, err |-> err]
                                  ELSE idem

MarkSuccess(c) == Transition(c, "SUCCESS", "none")

MarkFailed(c, err) == Transition(c, "FAILED", err)

\* The release script deletes a PROCESSING record and no other.
ReleaseClaim == idem' = IF idem.st = "PROCESSING" THEN Absent ELSE idem

\* DEL, whatever the record says by now.
DeleteRecord == idem' = Absent

(***************************************************************************)
(* Leases.                                                                 *)
(***************************************************************************)
IsAlive(c) == lease[c] # NoLease

\* SET NX; the index is written by a second command.
LeaseTake(c, id) ==
    /\ ~IsAlive(c)
    /\ lease' = [lease EXCEPT ![c] = id]

\* Mutant of LeaseRelease: DEL without comparing the owner.
LeaseReleaseBlind(c, id) ==
    /\ lease' = [lease EXCEPT ![c] = NoLease]
    /\ leaseIdx' = leaseIdx \ {c}

\* The release script compares the lease id before it deletes.
LeaseRelease(c, id) ==
    /\ lease' = [lease EXCEPT ![c] = IF @ = id THEN NoLease ELSE @]
    /\ leaseIdx' = IF lease[c] \in {NoLease, id} THEN leaseIdx \ {c} ELSE leaseIdx

(***************************************************************************)
(* The job stream and the delayed set.  A member of the delayed set is the *)
(* JSON of its payload: equal payloads are one member.                     *)
(***************************************************************************)
Xadd(p) ==
    /\ lastId < MaxMessages
    /\ lastId' = lastId + 1
    /\ stream' = Append(stream, Message(lastId + 1, p))

Xack(id) == pel' = {e \in pel : e.msg.id # id}

\* retry_later counts one attempt, and so do some of its callers.
RetryLater(c, att) == delayed' = delayed \cup {[call |-> c, att |-> att + 1]}

(***************************************************************************)
(* The database.                                                           *)
(***************************************************************************)
Upsert(c, st, att) == db' = [db EXCEPT ![c] = [st |-> st, att |-> att]]

\* UPDATE ... WHERE call_id: no row, no effect.
SetStatus(c, st) == db' = [db EXCEPT ![c].st = IF @ = "ABSENT" THEN @ ELSE st]

\* Mutant of FinalizeSuccess: the result is stored only for a row that is PROCESSING.
FinalizeIfProcessing(c) ==
    /\ SetStatus(c, "SUCCESS")
    /\ result' = IF db[c].st = "PROCESSING" THEN result \cup {c} ELSE result

\* One transaction: the result row and status SUCCESS.
FinalizeSuccess(c) ==
    /\ SetStatus(c, "SUCCESS")
    /\ result' = result \cup {c}

=============================================================================
