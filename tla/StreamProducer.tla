---------------------------- MODULE StreamProducer ----------------------------
(***************************************************************************)
(* stream-infra: the producer task of one stream, with its replay buffer   *)
(* and its bounded queue.                                                  *)
(*                                                                         *)
(* An event is its sequence number; log tells what it carries.  Events are *)
(* numbered as they are appended, so the replay buffer is the end of log.  *)
(***************************************************************************)
EXTENDS Integers, Sequences, SequencesExt

CONSTANTS
    Tokens,       \* how many tokens the provider has
    QueueSize,
    Window,       \* how many events the replay buffer keeps
    Strategies    \* what may be configured for a full queue

ASSUME StreamProducerAssumption ==
    /\ {Tokens, QueueSize, Window} \subseteq Nat \ {0}
    /\ Strategies \subseteq {"BLOCK", "DROP_OLDEST", "DROP_NEWEST", "DISCONNECT"}

VARIABLES
    strategy,
    status,      \* of the stream
    log,         \* every event that was appended to the replay buffer
    queue,       \* the events on their way to the consumer
    index,       \* where to go on with the provider
    ppc,         \* the producer's next step; "none": no task, or a finished one
    upcoming,    \* the token the provider yields next; -1: the metadata
    tail,        \* the terminal events still to be published
    outcome,     \* how the producer is about to end
    asked,       \* the producer was told to stop, and has not ended yet
    result       \* how the stream was finalised last, or "none"

\* History: an event was kept from the queue, or taken off it, for want of room.
VARIABLE overflowed

streamVars == <<strategy, status, log, queue, index, result, overflowed>>
taskVars == <<ppc, upcoming, tail, outcome, asked>>

Outcomes == {"completed", "failed", "cancelled"}

ProducerInit ==
    /\ strategy \in Strategies
    /\ status = "created"
    /\ log = <<>> /\ queue = <<>> /\ index = 0
    /\ ppc = "none" /\ upcoming = -1 /\ tail = <<>> /\ outcome = "completed"
    /\ asked = FALSE
    /\ result = "none"
    /\ overflowed = FALSE

Seqs == 1 .. Len(log)

\* What an event carries.
Kinds == [type : {"metadata", "token", "error", "done"}, token : Nat]

Appended(type, token) == log' = Append(log, [type |-> type, token |-> token])

IsDone(seq) == log[seq].type = "done"

Full == Len(queue) >= QueueSize

Offered(q, seq) == queue' = Append(q, seq)

(***************************************************************************)
(* The status.  A move that is not allowed is left out.                    *)
(***************************************************************************)
Terminal(st) == st \in {"completed", "failed"}

Allowed(from, to) ==
    CASE from = "created" -> TRUE
      [] from = "running" -> to \in {"completed", "failed", "cancelled"}
      [] from = "cancelled" -> to = "running"
      [] OTHER -> FALSE

Moved(to) == IF Allowed(status, to) THEN to ELSE status

(***************************************************************************)
(* The life of the task.                                                   *)
(***************************************************************************)
EnsureRunningOnce ==
    IF status = "created" /\ ppc = "none" THEN ppc' = "ready" ELSE UNCHANGED ppc

\* A task is made unless one is there that is not done.
EnsureRunning ==
    IF ~Terminal(status) /\ ppc = "none" THEN ppc' = "ready" ELSE UNCHANGED ppc

ProducerStarts ==
    /\ ppc = "ready"
    /\ status' = Moved("running")
    /\ upcoming' = IF index = 0 THEN -1 ELSE index
    /\ ppc' = "next"
    /\ UNCHANGED <<strategy, log, queue, index, result, overflowed, tail, outcome, asked>>

\* cancel of the stream, by a consumer that leaves or asks for it.
AskToStop ==
    IF Terminal(status) THEN UNCHANGED <<status, result, asked>>
    ELSE IF ppc # "none"
       THEN asked' = TRUE /\ UNCHANGED <<status, result>>
       ELSE /\ status' = Moved("cancelled")
            /\ result' = IF result = "none" THEN "cancelled" ELSE result
            /\ UNCHANGED asked

\* The cancellation reaches the task.  Before its first step there is no code
\* to catch it, and in the handlers of errors there is none either.
ProducerIsStopped ==
    /\ asked
    /\ ppc \in {"ready", "next", "put", "publish", "offer"}
    /\ ppc' = "close"
    /\ IF ppc = "ready" \/ (ppc \in {"publish", "offer"} /\ outcome # "completed")
          THEN UNCHANGED <<status, result>>
          ELSE status' = Moved("cancelled") /\ result' = "cancelled"
    /\ UNCHANGED <<strategy, log, queue, index, overflowed, upcoming, tail, outcome, asked>>

\* The provider's generator is closed.  Who waits for the task is awake before
\* another task can start.
Finalised ==
    IF asked /\ ~Terminal(status)
       THEN /\ status' = Moved("cancelled")
            /\ result' = IF result = "none" THEN "cancelled" ELSE result
       ELSE UNCHANGED <<status, result>>

ProducerEnds ==
    /\ ppc = "close"
    /\ ppc' = "none"
    /\ asked' = FALSE
    /\ Finalised
    /\ UNCHANGED <<strategy, log, queue, index, overflowed, upcoming, tail, outcome>>

(***************************************************************************)
(* Content.                                                                *)
(***************************************************************************)
\* The events left to publish, and what the task ends with.
FinishesWith(kinds, end) ==
    /\ ppc' = "publish"
    /\ tail' = kinds
    /\ outcome' = end

\* The consumer is too slow: the stream is cancelled, which can be resumed.
GivesUp ==
    /\ status' = Moved("cancelled")
    /\ FinishesWith(<<"done">>, "cancelled")

\* The provider goes on until its tokens are used up.
ProducerYields ==
    /\ ppc = "next" /\ ~asked
    /\ upcoming < Tokens
    /\ upcoming' = upcoming + 1
    /\ index' = index + 1
    /\ IF upcoming < 0 THEN Appended("metadata", 0) ELSE Appended("token", upcoming)
    /\ overflowed' = (overflowed \/ (Full /\ strategy # "BLOCK"))
    /\ CASE Full /\ strategy = "DROP_OLDEST" ->
              ppc' = "put" /\ queue' = Tail(queue) /\ UNCHANGED <<status, tail, outcome>>
         [] Full /\ strategy = "DROP_NEWEST" ->
              ppc' = "next" /\ UNCHANGED <<status, queue, tail, outcome>>
         [] Full /\ strategy = "DISCONNECT" ->
              GivesUp /\ UNCHANGED queue
         [] OTHER ->
              ppc' = "put" /\ UNCHANGED <<status, queue, tail, outcome>>
    /\ UNCHANGED <<strategy, result, asked>>

ProducerPuts ==
    /\ ppc = "put" /\ ~asked
    /\ ~Full
    /\ Offered(queue, Len(log))
    /\ ppc' = "next"
    /\ UNCHANGED <<strategy, status, log, index, result, overflowed, upcoming, tail, outcome,
                   asked>>

\* max_queue_wait is over: the event stays in the buffer and out of the queue.
PutTimesOut ==
    /\ ppc = "put" /\ ~asked
    /\ Full
    /\ GivesUp
    /\ overflowed' = TRUE
    /\ UNCHANGED <<strategy, log, queue, index, result, upcoming, asked>>

(***************************************************************************)
(* The end: an error, if there was one, and done.                          *)
(***************************************************************************)
ProducerCompletes ==
    /\ ppc = "next" /\ ~asked
    /\ upcoming >= Tokens
    /\ FinishesWith(<<"done">>, "completed")
    /\ UNCHANGED <<streamVars, upcoming, asked>>

\* The provider raises, or is silent for too long.
ProviderFails ==
    /\ ppc = "next" /\ ~asked
    /\ status' = Moved("failed")
    /\ FinishesWith(<<"error", "done">>, "failed")
    /\ UNCHANGED <<strategy, log, queue, index, result, overflowed, upcoming, asked>>

ProducerPublishes ==
    /\ ppc = "publish" /\ ~asked
    /\ Appended(Head(tail), 0)
    /\ ppc' = "offer"
    /\ UNCHANGED <<strategy, status, queue, index, result, overflowed, upcoming, tail, outcome,
                   asked>>

\* The last event out, a completed stream changes its status; all are finalised.
OfferedLast ==
    IF Len(tail) > 1
       THEN /\ ppc' = "publish"
            /\ tail' = Tail(tail)
            /\ UNCHANGED <<status, result>>
       ELSE /\ ppc' = "close"
            /\ tail' = <<>>
            /\ status' = IF outcome = "completed" THEN Moved("completed") ELSE status
            /\ result' = outcome

ProducerOffers ==
    /\ ppc = "offer" /\ ~asked
    /\ ~Full
    /\ Offered(queue, Len(log))
    /\ OfferedLast
    /\ UNCHANGED <<strategy, log, index, overflowed, upcoming, outcome, asked>>

\* After max_queue_wait the oldest event makes room.
OfferTimesOut ==
    /\ ppc = "offer" /\ ~asked
    /\ Full
    /\ Offered(Tail(queue), Len(log))
    /\ OfferedLast
    /\ overflowed' = TRUE
    /\ UNCHANGED <<strategy, log, index, upcoming, outcome, asked>>

\* What the task does by itself; the time-outs and failures are others'.
ProducerStep ==
    \/ ProducerStarts \/ ProducerYields \/ ProducerPuts
    \/ ProducerCompletes \/ ProducerPublishes \/ ProducerOffers
    \/ ProducerIsStopped \/ ProducerEnds

ProducerTypeOK ==
    /\ strategy \in Strategies
    /\ status \in {"created", "running", "completed", "failed", "cancelled"}
    /\ log \in Seq(Kinds)
    /\ queue \in Seq(Seqs) /\ Len(queue) <= QueueSize
    /\ index \in Nat
    /\ ppc \in {"none", "ready", "next", "put", "publish", "offer", "close"}
    /\ upcoming \in Int
    /\ tail \in {<<>>, <<"done">>, <<"error", "done">>}
    /\ outcome \in Outcomes
    /\ asked \in BOOLEAN
    /\ result \in Outcomes \cup {"none"}
    /\ overflowed \in BOOLEAN

===============================================================================
