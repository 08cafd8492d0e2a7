----------------------------- MODULE EventStream ------------------------------
(***************************************************************************)
(* stream-infra: one stream, its producer, and a client that connects,     *)
(* loses its connection and resumes where it was.  There is one consumer   *)
(* at a time; a connection that ends stops the producer.                   *)
(***************************************************************************)
EXTENDS StreamProducer

CONSTANTS
    Conns,         \* the connections that may be open at once
    MaxConnects,   \* bound: connections that were made
    MaxFailures    \* bound: failures of the provider

ASSUME EventStreamAssumption == {MaxConnects, MaxFailures} \subseteq Nat

VARIABLES
    cpc,          \* connection -> what it does
    replaying,    \* connection -> the events it still replays
    delivered,    \* connection -> the last event it delivered
    last,         \* the client's Last-Event-ID
    received,     \* the events the client has got
    connects, failures

\* History: connections made while the producer was being stopped.
VARIABLE orphans

connVars == <<cpc, replaying, delivered>>
clientVars == <<last, received>>
budgetVars == <<connects, failures>>

vars == <<streamVars, taskVars, connVars, clientVars, orphans, budgetVars>>

Init ==
    /\ ProducerInit
    /\ cpc = [c \in Conns |-> "closed"]
    /\ replaying = [c \in Conns |-> <<>>]
    /\ delivered = [c \in Conns |-> 0]
    /\ last = 0 /\ received = {}
    /\ connects = 0 /\ failures = 0
    /\ orphans = {}

(***************************************************************************)
(* The replay buffer.                                                      *)
(***************************************************************************)
Oldest == IF Len(log) <= Window THEN 1 ELSE Len(log) - Window + 1

\* A client that asks for what is gone is refused; a new client is not.
InWindow(seq) == seq = 0 \/ (Oldest <= seq /\ seq <= Len(log))

ReplayLate(seq) ==
    LET from == Max({seq, Oldest - 1}) + 1 IN [i \in 1 .. Len(log) - from |-> from + i]

\* The events after seq that are still there.
Replay(seq) ==
    LET from == Max({seq, Oldest - 1}) IN [i \in 1 .. Len(log) - from |-> from + i]

(***************************************************************************)
(* A connection.                                                           *)
(***************************************************************************)
Closes(c) ==
    /\ cpc' = [cpc EXCEPT ![c] = "closed"]
    /\ replaying' = [replaying EXCEPT ![c] = <<>>]
    /\ delivered' = [delivered EXCEPT ![c] = 0]

\* It gives back its place, and stops the producer nobody listens to.
Leaves(c) ==
    /\ Closes(c)
    /\ orphans' = orphans \ {c}
    /\ AskToStop

\* subscribe: up to its first event nothing else gets a turn.
SlotFree == \A c \in Conns : cpc[c] = "closed"

Subscribes(c) ==
    /\ connects < MaxConnects
    /\ connects' = connects + 1
    /\ cpc[c] = "closed"
    /\ SlotFree
    /\ InWindow(last)
    /\ EnsureRunning
    /\ IF Terminal(status) /\ Replay(last) = <<>>
          THEN UNCHANGED <<connVars, orphans>>
          ELSE /\ cpc' = [cpc EXCEPT ![c] = IF Replay(last) = <<>> THEN "live" ELSE "replay"]
               /\ replaying' = [replaying EXCEPT ![c] = Replay(last)]
               /\ delivered' = [delivered EXCEPT ![c] = IF Replay(last) = <<>> THEN last
                                                                         ELSE Len(log)]
               /\ orphans' = IF asked THEN orphans \cup {c} ELSE orphans
    /\ UNCHANGED <<streamVars, upcoming, tail, outcome, asked, clientVars, failures>>

\* The event comes to the client; done ends the connection.  Or the connection
\* breaks while it is sent.
Sends(c, seq) ==
    \/ /\ last' = seq
       /\ received' = received \cup {seq}
       /\ IF IsDone(seq)
             THEN Leaves(c)
             ELSE UNCHANGED <<cpc, orphans, status, result, asked>>
    \/ /\ UNCHANGED clientVars
       /\ Leaves(c)

Replays(c) ==
    /\ cpc[c] = "replay"
    /\ replaying[c] # <<>>
    /\ Sends(c, Head(replaying[c]))
    /\ IF cpc'[c] = "closed" THEN TRUE
       ELSE /\ replaying' = [replaying EXCEPT ![c] = Tail(@)]
            /\ UNCHANGED delivered
    /\ UNCHANGED <<strategy, log, queue, index, overflowed, ppc, upcoming, tail, outcome,
                   budgetVars>>

\* The replay is over.  A stream that has ended meanwhile is left, done or not.
GoesLive(c) ==
    /\ cpc[c] = "replay"
    /\ replaying[c] = <<>>
    /\ IF Terminal(status)
          THEN Closes(c) /\ orphans' = orphans \ {c}
          ELSE /\ cpc' = [cpc EXCEPT ![c] = "live"]
               /\ UNCHANGED <<replaying, delivered, orphans>>
    /\ UNCHANGED <<streamVars, taskVars, clientVars, budgetVars>>

AlreadySent(c, seq) == ~IsDone(seq) /\ seq <= delivered[c]

Takes(c) ==
    /\ cpc[c] = "live"
    /\ queue # <<>>
    /\ queue' = Tail(queue)
    /\ IF AlreadySent(c, Head(queue))
          THEN UNCHANGED <<connVars, clientVars, orphans, status, result, asked>>
          ELSE /\ Sends(c, Head(queue))
               /\ IF cpc'[c] = "closed" THEN TRUE
                  ELSE /\ delivered' = [delivered EXCEPT ![c] = Head(queue)]
                       /\ UNCHANGED replaying
    /\ UNCHANGED <<strategy, log, index, overflowed, ppc, upcoming, tail, outcome, budgetVars>>

\* The client goes away, and the server finds out.
HangsUp(c) ==
    /\ cpc[c] \in {"replay", "live"}
    /\ Leaves(c)
    /\ UNCHANGED <<strategy, log, queue, index, overflowed, ppc, upcoming, tail, outcome,
                   clientVars, budgetVars>>

\* The cancel message of a WebSocket: the connection ends after the producer.
Cancels(c) ==
    /\ cpc[c] \in {"replay", "live"}
    /\ AskToStop
    /\ cpc' = [cpc EXCEPT ![c] = "cancelling"]
    /\ UNCHANGED <<strategy, log, queue, index, overflowed, ppc, upcoming, tail, outcome,
                   replaying, delivered, orphans, clientVars, budgetVars>>

IsCancelled(c) ==
    /\ cpc[c] = "cancelling"
    /\ ~asked
    /\ Leaves(c)
    /\ UNCHANGED <<strategy, log, queue, index, overflowed, ppc, upcoming, tail, outcome,
                   clientVars, budgetVars>>

ConnStep(c) == Replays(c) \/ GoesLive(c) \/ Takes(c) \/ IsCancelled(c)

TaskMove ==
    /\ ProducerStep
    /\ UNCHANGED <<connVars, clientVars, orphans, budgetVars>>

TimesOut ==
    /\ PutTimesOut \/ OfferTimesOut
    /\ UNCHANGED <<connVars, clientVars, orphans, budgetVars>>

Fails ==
    /\ failures < MaxFailures
    /\ failures' = failures + 1
    /\ ProviderFails
    /\ UNCHANGED <<connVars, clientVars, orphans, connects>>

Next ==
    \/ TaskMove \/ TimesOut \/ Fails
    \/ \E c \in Conns : Subscribes(c) \/ ConnStep(c) \/ HangsUp(c) \/ Cancels(c)

Spec == Init /\ [][Next]_vars

\* The producer goes on, for the provider yields, ends or fails; what is sent
\* on a connection arrives or breaks it.  Nobody has to connect.
Fairness ==
    /\ WF_vars(TaskMove)
    /\ \A c \in Conns : WF_vars(ConnStep(c))

FairSpec == Spec /\ Fairness

(***************************************************************************)
(* Properties.                                                             *)
(***************************************************************************)
\* Every variable of the stream has its type, and the queue its bound.
TypeOK ==
    /\ ProducerTypeOK
    /\ cpc \in [Conns -> {"closed", "replay", "live", "cancelling"}]
    /\ replaying \in [Conns -> Seq(Seqs)]
    /\ delivered \in [Conns -> 0 .. Len(log)]
    /\ last \in 0 .. Len(log)
    /\ received \subseteq Seqs
    /\ orphans \subseteq Conns
    /\ connects \in 0 .. MaxConnects /\ failures \in 0 .. MaxFailures

\* Unless the queue ran over, the client has every event between the first it
\* got and its last one, over broken connections, replays and resumed producers:
\* nothing falls between the replay and the queue, and who comes too late is
\* refused.  A client that has nothing yet may begin with what the buffer kept.
NothingSkipped ==
    ~overflowed => \A seq \in 1 .. last : seq \in received \/ \A r \in received : seq < r

\* A connection that waits for events gets to done or breaks, unless it was
\* made while the producer was being stopped.
ConnectionsEnd ==
    \A c \in Conns : cpc[c] = "live" /\ c \notin orphans ~> cpc[c] # "live"

===============================================================================
