------------------------------ MODULE CancelTask -------------------------------
(***************************************************************************)
(* graceful-agent-cancel: one task, its coroutine, its handle in the       *)
(* registry, the mark in the cancellation store and the events of the bus. *)
(* One event loop: what a coroutine does between two awaits is one step,   *)
(* and an operator from task to task.                                      *)
(***************************************************************************)
EXTENDS Naturals, Sequences

CONSTANTS
    Script,     \* the agent's LLM calls and tools: their awaits and facts, and
                \* whether each chunk of it is an event
    Header,     \* lines of the report besides the facts
    MaxFaults,  \* bound: I/O errors of the workspace
    MaxStops    \* bound: accepted cancel requests

ASSUME CancelTaskAssumption ==
    /\ Script \in Seq([awaits : Nat \ {0}, facts : Nat, streams : BOOLEAN])
    /\ Header \in Nat \ {0} /\ MaxFaults \in Nat /\ MaxStops \in Nat

VARIABLES
    task,      \* record, ledger and workspace of the task, and its coroutine
    log,       \* the events emitted, in order of seq; those a step emits between
               \* two of the other kinds may be one entry
    marked,    \* CancellationStore: the task is marked cancelled
    handle,    \* the registry's handle: "new", "started", "gone"
    asked,     \* asyncio.Task.cancel() was called
    faults, stops

taskVars == <<task, log, marked, handle, asked, faults, stops>>

Kinds == {"created", "event", "action", "stop", "terminal"}
Terminal == {"completed", "cancelled", "failed"}
Rows == Len(Script) + 1      \* staging rows
Lines == Len(Script) + 2     \* appending lines

\* at: 0 before the coroutine starts, an action of the script, Rows or Lines;
\* left: awaits it still has there; over: the coroutine has returned.
TaskTypeOK ==
    /\ task \in [status : {"running"} \cup Terminal, at : 0 .. Lines, left : Nat,
                 over : BOOLEAN, facts : Nat, staged : Nat, committed : Nat,
                 workspace : BOOLEAN, published : BOOLEAN]
    /\ log \in Seq(Kinds)
    /\ marked \in BOOLEAN /\ asked \in BOOLEAN
    /\ handle \in {"new", "started", "gone"}
    /\ faults \in 0 .. MaxFaults /\ stops \in 0 .. MaxStops

\* submit: the record, the event, the coroutine and its handle.
TaskInit ==
    /\ task = [status |-> "running", at |-> 0, left |-> 0, over |-> FALSE, facts |-> 0,
               staged |-> 0, committed |-> 0, workspace |-> FALSE, published |-> FALSE]
    /\ log = <<"created">>
    /\ marked = FALSE /\ handle = "new" /\ asked = FALSE
    /\ faults = 0 /\ stops = 0

(***************************************************************************)
(* The supervisor's endings.  Clean-up emits an event for what it dropped. *)
(***************************************************************************)
\* Mutant of Cleaned: only the ledger is rolled back.
CleanedLedger(t) == [t EXCEPT !.staged = 0]

\* cleanup_snapshot
Cleaned(t) == [t EXCEPT !.staged = 0, !.workspace = FALSE]

CleanupEvents(t) ==
    <<"event", "event">> \o (IF t.staged > 0 THEN <<"event">> ELSE <<>>)
                         \o (IF t.workspace THEN <<"event">> ELSE <<>>)

Ends(t, status) == [t EXCEPT !.status = status, !.over = TRUE]

\* _shutdown: the break, the clean-up, the partial result, the end.
ShutDown(t, events) ==
    /\ task' = Ends(Cleaned(t), "cancelled")
    /\ log' = log \o events \o CleanupEvents(t) \o <<"event", "terminal">>

\* _fail: the same, without a partial result.
Fails(t, events) ==
    /\ task' = Ends(Cleaned(t), "failed")
    /\ log' = log \o events \o Tail(CleanupEvents(t)) \o <<"terminal">>

(***************************************************************************)
(* The agent: what follows once the awaits of one place are over.          *)
(***************************************************************************)
\* Mutant of Boundary: the last action is begun without a look at the mark.
BoundaryBeforeLast(n) == marked /\ n < Len(Script)

\* check_cancel, before every action.
Boundary(n) == marked /\ n <= Len(Script)

AwaitsAt(t, n) ==
    CASE n <= Len(Script) -> Script[n].awaits
      [] n = Rows -> t.facts
      [] n = Lines -> t.facts + Header

\* The place after n: rows are skipped when there is no fact.
After(t, n) == IF n = Len(Script) /\ t.facts = 0 THEN Lines ELSE n + 1

\* The task moves on to place n, where an action starts or the first row is staged.
Enters(t, n, events) ==
    IF Boundary(n)
    THEN ShutDown(t, events)
    ELSE /\ task' = [t EXCEPT !.at = n, !.left = AwaitsAt(t, n),
                              !.staged = IF n = Rows THEN 1 ELSE @]
         /\ log' = log \o events \o (IF n <= Len(Script) THEN <<"action">> ELSE <<"event">>)

\* commit and publish; the copy may fail after the commit.
Publishes(t) ==
    /\ task' = Ends([t EXCEPT !.staged = 0, !.committed = t.staged, !.workspace = FALSE,
                              !.published = TRUE], "completed")
    /\ log' = log \o <<"event", "terminal">>

Resumes == ~task.over /\ ~asked

\* _drive and supervise, up to the first await; the workspace is made first.
Begin ==
    /\ Resumes /\ task.at = 0
    /\ handle' = "started"
    /\ Enters([task EXCEPT !.workspace = TRUE], 1, <<"event">>)
    /\ UNCHANGED <<marked, asked, faults, stops>>

\* One more chunk, row or line.
Continues ==
    /\ Resumes /\ task.left > 1
    /\ task' = [task EXCEPT !.left = @ - 1, !.staged = IF task.at = Rows THEN @ + 1 ELSE @]
    /\ log' = IF task.at \in DOMAIN Script /\ Script[task.at].streams
              THEN Append(log, "event") ELSE log
    /\ UNCHANGED <<marked, handle, asked, faults, stops>>

\* The last await of an action: its facts, its events, the next boundary.
Advances ==
    /\ Resumes /\ task.left = 1 /\ task.at \in 1 .. Rows
    /\ LET facts == IF task.at <= Len(Script) THEN Script[task.at].facts ELSE 0
           t == [task EXCEPT !.facts = @ + facts]
       IN Enters(t, After(t, task.at), <<"event">>)
    /\ UNCHANGED <<marked, handle, asked, faults, stops>>

Finishes ==
    /\ Resumes /\ task.left = 1 /\ task.at = Lines
    /\ Publishes(task)
    /\ UNCHANGED <<marked, handle, asked, faults, stops>>

\* An error of the workspace: when it is made, appended to, or published after
\* the ledger was committed.
Breaks ==
    /\ Resumes /\ faults < MaxFaults
    /\ \/ task.at = 0 /\ handle' = "started" /\ Fails(task, <<"event">>)
       \/ task.at = Lines /\ handle' = handle /\ Fails(task, <<>>)
       \/ task.at = Lines /\ task.left = 1 /\ handle' = handle
          /\ Fails([task EXCEPT !.staged = 0, !.committed = task.staged], <<>>)
    /\ faults' = faults + 1
    /\ UNCHANGED <<marked, asked, stops>>

\* CancelledError at the await the coroutine is suspended in; a coroutine that
\* has not started never runs, service.cancel has ended its task.
IsCancelled ==
    /\ ~task.over /\ asked
    /\ IF task.at = 0
       THEN task' = [task EXCEPT !.over = TRUE] /\ UNCHANGED log
       ELSE ShutDown(task, <<>>)
    /\ UNCHANGED <<marked, handle, asked, faults, stops>>

\* The done callback.
Unregister ==
    /\ task.over /\ handle # "gone"
    /\ handle' = "gone"
    /\ UNCHANGED <<task, log, marked, asked, faults, stops>>

(***************************************************************************)
(* service.cancel: refused at the end of the task; the mark; with force    *)
(* the coroutine's cancellation, and the task's end if it had not started. *)
(***************************************************************************)
\* Mutant of Accepts: the end of the task is not looked at.
AcceptsAlways == stops < MaxStops

Accepts == task.status = "running" /\ stops < MaxStops

StopCooperatively ==
    /\ Accepts
    /\ log' = Append(log, "stop")
    /\ marked' = TRUE
    /\ stops' = stops + 1
    /\ UNCHANGED <<task, handle, asked, faults>>

StopByForce ==
    /\ Accepts
    /\ marked' = TRUE
    /\ asked' = (handle # "gone" /\ ~task.over)
    /\ IF handle = "new"
       THEN /\ task' = [task EXCEPT !.status = "cancelled"]
            /\ log' = log \o <<"stop", "event", "event", "event", "terminal">>
       ELSE /\ log' = Append(log, "stop")
            /\ UNCHANGED task
    /\ stops' = stops + 1
    /\ UNCHANGED <<handle, faults>>

CoroutineStep == Begin \/ Continues \/ Advances \/ Finishes \/ IsCancelled

TaskStep == CoroutineStep \/ Breaks \/ Unregister \/ StopCooperatively \/ StopByForce
===============================================================================
