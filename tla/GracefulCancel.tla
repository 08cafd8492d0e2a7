----------------------------- MODULE GracefulCancel ----------------------------
(***************************************************************************)
(* graceful-agent-cancel: a task that is stopped and the SSE connections   *)
(* that watch it.  A connection takes the history the ring buffer still    *)
(* has, then what its own queue holds; it may break and come back.         *)
(***************************************************************************)
EXTENDS CancelTask

CONSTANTS
    Conns,      \* SSE connections
    Window,     \* events the history keeps
    MaxBreaks   \* bound: broken connections

ASSUME GracefulCancelAssumption == Window \in Nat \ {0} /\ MaxBreaks \in Nat

\* conn[c]: "off", "replay" up to event end, "live", "over"; queue is the first
\* event in its queue (a queue holds every event emitted since), sent the last
\* one sent, first the first one.
VARIABLES conn, breaks

vars == <<taskVars, conn, breaks>>

Off == [st |-> "off", next |-> 0, end |-> 0, queue |-> 0, first |-> 0, sent |-> 0]

TypeOK ==
    /\ TaskTypeOK
    /\ conn \in [Conns -> [st : {"off", "replay", "live", "over"}, next : Nat, end : Nat,
                           queue : Nat, first : Nat, sent : Nat]]
    /\ breaks \in 0 .. MaxBreaks

Init ==
    /\ TaskInit
    /\ conn = [c \in Conns |-> Off]
    /\ breaks = 0

\* The first event the history still has.
Oldest == IF Len(log) > Window THEN Len(log) - Window + 1 ELSE 1

\* The queue is there before the history is read, in the same step.
Subscribes(c) ==
    /\ conn[c].st = "off"
    /\ conn' = [conn EXCEPT ![c] = [st |-> "replay", next |-> Oldest, end |-> Len(log),
                                    queue |-> Len(log) + 1, first |-> Oldest, sent |-> 0]]
    /\ UNCHANGED <<taskVars, breaks>>

Sent(c, n) ==
    [conn[c] EXCEPT !.sent = n, !.st = IF log[n] = "terminal" THEN "over" ELSE @]

\* Mutant of Replays: the connection takes part in the live events from the end
\* of its replay on.
ReplaysThenJoins(c) ==
    /\ conn[c].st = "replay" /\ conn[c].next <= conn[c].end
    /\ conn' = [conn EXCEPT ![c] = [Sent(c, conn[c].next) EXCEPT !.next = @ + 1,
                                                                !.queue = Len(log) + 1]]
    /\ UNCHANGED <<taskVars, breaks>>

Replays(c) ==
    /\ conn[c].st = "replay" /\ conn[c].next <= conn[c].end
    /\ conn' = [conn EXCEPT ![c] = [Sent(c, conn[c].next) EXCEPT !.next = @ + 1]]
    /\ UNCHANGED <<taskVars, breaks>>

GoesLive(c) ==
    /\ conn[c].st = "replay" /\ conn[c].next > conn[c].end
    /\ conn' = [conn EXCEPT ![c].st = "live"]
    /\ UNCHANGED <<taskVars, breaks>>

\* What was replayed is not sent again.
Takes(c) ==
    LET n == conn[c].queue
    IN /\ conn[c].st = "live" /\ n <= Len(log)
       /\ conn' = [conn EXCEPT ![c] = [(IF n <= conn[c].sent THEN conn[c] ELSE Sent(c, n))
                                       EXCEPT !.queue = n + 1]]
       /\ UNCHANGED <<taskVars, breaks>>

\* The client goes away; it may come back and starts from the history.
Disconnects(c) ==
    /\ conn[c].st \in {"replay", "live"} /\ breaks < MaxBreaks
    /\ conn' = [conn EXCEPT ![c] = Off]
    /\ breaks' = breaks + 1
    /\ UNCHANGED taskVars

ConnStep(c) == Replays(c) \/ GoesLive(c) \/ Takes(c)

Coroutine == CoroutineStep /\ UNCHANGED <<conn, breaks>>

Next ==
    \/ TaskStep /\ UNCHANGED <<conn, breaks>>
    \/ \E c \in Conns : Subscribes(c) \/ ConnStep(c) \/ Disconnects(c)

\* The event loop runs what is ready; users promise nothing.
Fairness == WF_vars(Coroutine) /\ \A c \in Conns : WF_vars(ConnStep(c))

Spec == Init /\ [][Next]_vars /\ Fairness

(***************************************************************************)
(* Properties.                                                             *)
(***************************************************************************)
\* Whatever was stopped, in whatever place and by how many requests, leaves no
\* staged row, no workspace, no committed row and no report; a failed task
\* leaves at most the rows of a commit that came before the error.
EndLeavesNothing ==
    /\ task.status # "running" => task.staged = 0 /\ ~task.workspace
    /\ task.status = "cancelled" => task.committed = 0 /\ ~task.published
    /\ task.status = "completed" => task.committed = task.facts /\ task.published

\* The bus emits one terminal event, as its last, when the task gets its final
\* status: a request that comes as the task ends is refused or taken, never half.
TerminalIsLast ==
    \A i \in DOMAIN log :
        log[i] = "terminal" <=> i = Len(log) /\ task.status # "running"

\* A connection sends every event from its first one on, each once, in order,
\* across the change from history to queue, and ends with the terminal event.
NothingMissed ==
    [][\A c \in Conns : conn'[c].sent # conn[c].sent /\ conn'[c].sent # 0 =>
          /\ conn'[c].sent = IF conn[c].sent = 0 THEN conn[c].first ELSE conn[c].sent + 1
          /\ conn'[c].st = "over" <=> log[conn'[c].sent] = "terminal"]_vars

\* Every task ends.  A stop that finds an action still to come ends it as
\* cancelled, unless its workspace could not even be made; a forced stop ends
\* it as cancelled wherever it is: in the last action, between two rows or two
\* lines, or not begun.  Who watches a task until then sees the end.
StopEnds ==
    /\ (task.status = "running") ~> task.over
    /\ (marked /\ task.status = "running" /\ task.at < Len(Script)) ~>
          (task.status = "cancelled" \/ (task.status = "failed" /\ task.at = 0))
    /\ asked ~> (task.status = "cancelled")
    /\ \A c \in Conns : (conn[c].st \in {"replay", "live"}) ~> (conn[c].st \in {"over", "off"})
===============================================================================
