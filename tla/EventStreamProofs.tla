--------------------------- MODULE EventStreamProofs ---------------------------
(***************************************************************************)
(* Proofs about EventStream for every number of tokens and connections,    *)
(* every queue, every replay buffer and every strategy.                    *)
(***************************************************************************)
EXTENDS EventStream, TLAPS, SequenceTheorems

(***************************************************************************)
(* Queues.  Events are numbered as they come, so a queue rises.            *)
(***************************************************************************)
Rising(q) ==
    /\ q \in Seq(Nat)
    /\ \A i, j \in 1 .. Len(q) : i < j => q[i] < q[j]

Holds(q, e) == \E i \in 1 .. Len(q) : q[i] = e

\* A new event goes behind all others.
LEMMA AppendRises ==
    ASSUME NEW q, Rising(q), NEW n \in Nat, \A e \in Nat : Holds(q, e) => e < n
    PROVE  /\ Rising(Append(q, n))
           /\ \A e : Holds(Append(q, n), e) <=> Holds(q, e) \/ e = n
<1>1. /\ Len(q) \in Nat
      /\ \A i \in 1 .. Len(q) : q[i] \in Nat /\ q[i] < n
  BY LenProperties, ElementOfSeq DEF Rising, Holds
<1>2. /\ Append(q, n) \in Seq(Nat) /\ Len(Append(q, n)) = Len(q) + 1
      /\ \A i \in 1 .. Len(q) : Append(q, n)[i] = q[i]
      /\ Append(q, n)[Len(q) + 1] = n
  BY AppendProperties DEF Rising
<1>3. Rising(Append(q, n))
  BY <1>1, <1>2, SMTT(30) DEF Rising
<1>4. ASSUME NEW e
      PROVE  Holds(Append(q, n), e) <=> Holds(q, e) \/ e = n
  <2>1. ASSUME Holds(q, e) \/ e = n PROVE Holds(Append(q, n), e)
    <3>1. CASE e = n
      BY <1>1, <1>2, <3>1 DEF Holds
    <3>2. CASE Holds(q, e)
      BY <1>1, <1>2, <3>2 DEF Holds
    <3> QED
      BY <2>1, <3>1, <3>2
  <2>2. ASSUME Holds(Append(q, n), e) PROVE Holds(q, e) \/ e = n
    BY <1>1, <1>2, <2>2 DEF Holds
  <2> QED
    BY <2>1, <2>2
<1> QED
  BY <1>3, <1>4

\* The head is the oldest event, and what is left is the rest.
LEMMA TailRises ==
    ASSUME NEW q, Rising(q), q # <<>>
    PROVE  /\ Rising(Tail(q))
           /\ Len(Tail(q)) = Len(q) - 1
           /\ Head(q) \in Nat /\ Holds(q, Head(q))
           /\ \A e : Holds(Tail(q), e) <=> Holds(q, e) /\ e # Head(q)
           /\ \A e \in Nat : Holds(q, e) => Head(q) <= e
<1>1. /\ Len(q) \in Nat /\ Len(q) > 0
      /\ \A i \in 1 .. Len(q) : q[i] \in Nat
      /\ Head(q) = q[1]
  BY LenProperties, ElementOfSeq, EmptySeq DEF Rising
<1>2. /\ Tail(q) \in Seq(Nat) /\ Len(Tail(q)) = Len(q) - 1
      /\ \A i \in 1 .. Len(Tail(q)) : Tail(q)[i] = q[i + 1]
  BY HeadTailProperties DEF Rising
<1>3. Rising(Tail(q))
  BY <1>1, <1>2 DEF Rising
<1>4. \A i \in 2 .. Len(q) : q[1] < q[i]
  BY <1>1 DEF Rising
<1>5. ASSUME NEW e
      PROVE  Holds(Tail(q), e) <=> Holds(q, e) /\ e # Head(q)
  <2>1. ASSUME Holds(Tail(q), e) PROVE Holds(q, e) /\ e # Head(q)
    <3>1. PICK i \in 1 .. Len(q) - 1 : q[i + 1] = e
      BY <1>1, <1>2, <2>1 DEF Holds
    <3> QED
      BY <1>1, <1>4, <3>1 DEF Holds
  <2>2. ASSUME Holds(q, e), e # Head(q) PROVE Holds(Tail(q), e)
    <3>1. PICK i \in 2 .. Len(q) : q[i] = e
      BY <1>1, <2>2 DEF Holds
    <3>2. i - 1 \in 1 .. Len(Tail(q)) /\ Tail(q)[i - 1] = e
      BY <1>1, <1>2, <3>1
    <3> QED
      BY <3>2 DEF Holds
  <2> QED
    BY <2>1, <2>2
<1>6. \A e \in Nat : Holds(q, e) => Head(q) <= e
  BY <1>1, <1>4 DEF Holds
<1> QED
  BY <1>1, <1>2, <1>3, <1>5, <1>6 DEF Holds

(***************************************************************************)
(* Types.  Who publishes has a terminal event left to publish, and what    *)
(* waits for room is in the log.                                           *)
(***************************************************************************)
ProducerTyped ==
    /\ ProducerTypeOK
    /\ ppc \in {"publish", "offer"} => tail # <<>>
    /\ ppc \in {"put", "offer"} => Len(log) > 0

ConnTyped ==
    /\ cpc \in [Conns -> {"closed", "replay", "live", "cancelling"}]
    /\ replaying \in [Conns -> Seq(Seqs)]
    /\ delivered \in [Conns -> 0 .. Len(log)]
    /\ last \in 0 .. Len(log)
    /\ received \subseteq Seqs
    /\ orphans \subseteq Conns
    /\ connects \in 0 .. MaxConnects /\ failures \in 0 .. MaxFailures

Typed == ProducerTyped /\ ConnTyped

Producing == ProducerStep \/ PutTimesOut \/ OfferTimesOut \/ ProviderFails

LEMMA TypedInit == Init => Typed
<1>1. \A S : <<>> \in Seq(S) /\ Len(<<>>) = 0
  BY EmptySeq
<1>2. QueueSize \in Nat /\ MaxConnects \in Nat /\ MaxFailures \in Nat
  BY StreamProducerAssumption, EventStreamAssumption
<1>3. Init => ProducerTyped
  <2> SUFFICES ASSUME Init PROVE ProducerTyped
    OBVIOUS
  <2>1. log \in Seq(Kinds) /\ queue \in Seq(Seqs) /\ Len(queue) <= QueueSize
    BY <1>1, <1>2 DEF Init, ProducerInit
  <2>2. tail \in {<<>>, <<"done">>, <<"error", "done">>}
    BY DEF Init, ProducerInit
  <2>3. /\ strategy \in Strategies
        /\ status \in {"created", "running", "completed", "failed", "cancelled"}
        /\ index \in Nat
        /\ ppc \in {"none", "ready", "next", "put", "publish", "offer", "close"}
        /\ outcome \in Outcomes /\ asked \in BOOLEAN
        /\ result \in Outcomes \cup {"none"} /\ overflowed \in BOOLEAN
    BY DEF Init, ProducerInit, Outcomes
  <2>4. ppc \notin {"publish", "offer"} /\ ppc \notin {"put", "offer"}
    BY DEF Init, ProducerInit
  <2>5. upcoming \in Int
    BY DEF Init, ProducerInit
  <2> QED
    BY <2>1, <2>2, <2>3, <2>4, <2>5, Zenon DEF ProducerTyped, ProducerTypeOK
<1>4. Init => ConnTyped
  BY <1>1, <1>2 DEF Init, ProducerInit, ConnTyped
<1> QED
  BY <1>3, <1>4 DEF Typed

\* What is in the log has its type, and the log only grows.
LEMMA LogGrows ==
    ASSUME ProducerTypeOK, NEW type \in {"metadata", "token", "error", "done"}, NEW token \in Nat,
           Appended(type, token)
    PROVE  log' \in Seq(Kinds) /\ Len(log) \in Nat /\ Len(log') = Len(log) + 1
<1>1. [type |-> type, token |-> token] \in Kinds
  BY DEF Kinds
<1> QED
  BY <1>1, AppendProperties, LenProperties DEF ProducerTypeOK, Appended

LEMMA SeqsGrow ==
    ASSUME NEW s \in Seq(Seqs), Len(log) \in Nat, Len(log') \in Nat, Len(log') >= Len(log)
    PROVE  s \in Seq(Seqs')
<1>1. Seqs \subseteq Seqs'
  BY DEF Seqs
<1> QED
  BY <1>1, SeqMonotonic

\* The new event is offered to a queue with room.
LEMMA OfferTyped ==
    ASSUME ProducerTypeOK, log' = log, Len(log) > 0,
           \/ ~Full /\ Offered(queue, Len(log))
           \/ Full /\ Offered(Tail(queue), Len(log))
    PROVE  queue' \in Seq(Seqs)' /\ Len(queue') <= QueueSize
<1>1. /\ Len(log) \in Seqs /\ queue \in Seq(Seqs) /\ Len(queue) \in Nat /\ Len(queue) <= QueueSize
      /\ QueueSize \in Nat /\ QueueSize > 0
  BY LenProperties, StreamProducerAssumption DEF ProducerTypeOK, Seqs
<1>2. CASE ~Full /\ Offered(queue, Len(log))
  BY <1>1, <1>2, AppendProperties DEF Full, Offered, Seqs
<1>3. CASE Full /\ Offered(Tail(queue), Len(log))
  <2>1. queue # <<>>
    BY <1>1, <1>3, EmptySeq DEF Full
  <2>2. Tail(queue) \in Seq(Seqs) /\ Len(Tail(queue)) = Len(queue) - 1
    BY <1>1, <2>1, HeadTailProperties
  <2> QED
    BY <1>1, <1>3, <2>2, AppendProperties DEF Offered, Seqs
<1> QED
  BY <1>2, <1>3

\* While an event waits or is published, there is one.
LEMMA YieldsTyped == Typed /\ ProducerYields => ProducerTyped' /\ Len(log') = Len(log) + 1
<1> SUFFICES ASSUME Typed, ProducerYields
             PROVE  ProducerTyped' /\ Len(log') = Len(log) + 1
  OBVIOUS
<1>1. ProducerTypeOK
  BY DEF Typed, ProducerTyped
<1>2. log' \in Seq(Kinds) /\ Len(log) \in Nat /\ Len(log') = Len(log) + 1
  <2>1. CASE upcoming < 0
    BY <1>1, <2>1, LogGrows DEF ProducerYields
  <2>2. CASE ~(upcoming < 0)
    <3>1. upcoming \in Nat
      BY <1>1, <2>2 DEF ProducerTypeOK
    <3> QED
      BY <1>1, <2>2, <3>1, LogGrows DEF ProducerYields
  <2> QED
    BY <2>1, <2>2
<1>3. queue' \in {queue, Tail(queue)} /\ (queue' = Tail(queue) => queue' = queue \/ Full)
  BY DEF ProducerYields, GivesUp, FinishesWith
<1>4. queue' \in Seq(Seqs) /\ Len(queue') <= QueueSize
  <2>1. queue \in Seq(Seqs) /\ Len(queue) \in Nat /\ Len(queue) <= QueueSize
        /\ QueueSize \in Nat /\ QueueSize > 0
    BY <1>1, LenProperties, StreamProducerAssumption DEF ProducerTypeOK
  <2>2. CASE queue' = queue
    BY <2>1, <2>2
  <2>3. CASE queue' = Tail(queue) /\ Full
    <3>1. queue # <<>>
      BY <2>1, <2>3, EmptySeq DEF Full
    <3> QED
      BY <2>1, <2>3, <3>1, HeadTailProperties
  <2> QED
    BY <1>3, <2>2, <2>3
<1>5. queue' \in Seq(Seqs')
  BY <1>2, <1>4, SeqsGrow
<1>6. /\ status' \in {"created", "running", "completed", "failed", "cancelled"}
      /\ ppc' \in {"put", "next", "publish"}
      /\ tail' \in {<<>>, <<"done">>, <<"error", "done">>}
      /\ (ppc' = "publish" => tail' = <<"done">>)
      /\ outcome' \in Outcomes
  BY <1>1 DEF ProducerYields, GivesUp, FinishesWith, Moved, ProducerTypeOK, Outcomes
<1>7. /\ strategy' \in Strategies
      /\ index' \in Nat /\ upcoming' \in Int /\ overflowed' \in BOOLEAN
      /\ result' \in Outcomes \cup {"none"} /\ asked' \in BOOLEAN
  BY <1>1 DEF ProducerYields, ProducerTypeOK
<1>8. /\ ppc' \in {"none", "ready", "next", "put", "publish", "offer", "close"}
      /\ ppc' \in {"publish", "offer"} => tail' # <<>>
  <2>1. <<"done">> # <<>>
    OBVIOUS
  <2> QED
    BY <1>6, <2>1
<1>9. Len(log') > 0
  BY <1>2
<1> QED
  BY <1>2, <1>4, <1>5, <1>6, <1>7, <1>8, <1>9, Zenon DEF ProducerTyped, ProducerTypeOK

LEMMA PutsTyped ==
    ASSUME Typed, ProducerPuts \/ ProducerOffers \/ OfferTimesOut
    PROVE  ProducerTyped' /\ log' = log
<1>1. ProducerTypeOK /\ Len(log) > 0 /\ log' = log
  BY DEF Typed, ProducerTyped, ProducerPuts, ProducerOffers, OfferTimesOut
<1>2. queue' \in Seq(Seqs)' /\ Len(queue') <= QueueSize
  BY <1>1, OfferTyped DEF ProducerPuts, ProducerOffers, OfferTimesOut
<1>3. /\ strategy' \in Strategies /\ log' \in Seq(Kinds)
      /\ index' \in Nat /\ upcoming' \in Int /\ overflowed' \in BOOLEAN
      /\ outcome' \in Outcomes /\ asked' \in BOOLEAN
  BY <1>1 DEF ProducerPuts, ProducerOffers, OfferTimesOut, ProducerTypeOK
<1>4. /\ status' \in {"created", "running", "completed", "failed", "cancelled"}
      /\ ppc' \in {"next", "publish", "close"}
      /\ result' \in Outcomes \cup {"none"}
  BY <1>1 DEF ProducerPuts, ProducerOffers, OfferTimesOut, OfferedLast, Moved, ProducerTypeOK, Outcomes
<1>5. /\ tail' \in {<<>>, <<"done">>, <<"error", "done">>}
      /\ ppc' = "publish" => tail' # <<>>
  <2>1. tail \in {<<>>, <<"done">>, <<"error", "done">>}
    BY <1>1 DEF ProducerTypeOK
  <2>2. /\ Len(<<"done">>) = 1 /\ Len(<<>>) = 0
        /\ Tail(<<"error", "done">>) = <<"done">> /\ <<"done">> # <<>>
    OBVIOUS
  <2>3. CASE ProducerPuts
    BY <2>1, <2>3 DEF ProducerPuts
  <2>4. CASE OfferedLast
    <3>1. CASE Len(tail) > 1
      <4>1. tail = <<"error", "done">>
        BY <2>1, <2>2, <3>1
      <4> QED
        BY <2>2, <2>4, <3>1, <4>1 DEF OfferedLast
    <3>2. CASE ~(Len(tail) > 1)
      BY <2>4, <3>2 DEF OfferedLast
    <3> QED
      BY <3>1, <3>2
  <2> QED
    BY <2>3, <2>4 DEF ProducerOffers, OfferTimesOut
<1> QED
  BY <1>1, <1>2, <1>3, <1>4, <1>5 DEF ProducerTyped, ProducerTypeOK

LEMMA PublishesTyped == Typed /\ ProducerPublishes => ProducerTyped' /\ Len(log') = Len(log) + 1
<1> SUFFICES ASSUME Typed, ProducerPublishes
             PROVE  ProducerTyped' /\ Len(log') = Len(log) + 1
  OBVIOUS
<1>1. ProducerTypeOK /\ tail # <<>>
  BY DEF Typed, ProducerTyped, ProducerPublishes
<1>2. Head(tail) \in {"done", "error"}
  BY <1>1 DEF ProducerTypeOK
<1>3. log' \in Seq(Kinds) /\ Len(log) \in Nat /\ Len(log') = Len(log) + 1
  BY <1>1, <1>2, LogGrows DEF ProducerPublishes
<1>4. queue' \in Seq(Seqs') /\ Len(queue') <= QueueSize
  BY <1>1, <1>3, SeqsGrow DEF ProducerTypeOK, ProducerPublishes
<1> QED
  BY <1>1, <1>3, <1>4 DEF ProducerPublishes, ProducerTyped, ProducerTypeOK

\* The steps that neither log nor offer an event.
Quiet ==
    \/ ProducerStarts \/ ProducerCompletes \/ ProducerIsStopped \/ ProducerEnds
    \/ PutTimesOut \/ ProviderFails

LEMMA QuietTyped ==
    ASSUME Typed, Quiet
    PROVE  ProducerTyped' /\ UNCHANGED <<log, queue>>
<1>1. ProducerTypeOK /\ UNCHANGED <<log, queue, strategy, index>>
  BY DEF Typed, ProducerTyped, Quiet, ProducerStarts, ProducerCompletes, ProducerIsStopped,
         ProducerEnds, PutTimesOut, ProviderFails, streamVars
<1>2. /\ ppc' \in {"none", "next", "publish", "close"}
      /\ tail' \in {<<>>, <<"done">>, <<"error", "done">>}
      /\ (ppc' = "publish" => tail' # <<>>)
  <2>1. <<"done">> # <<>> /\ <<"error", "done">> # <<>>
    OBVIOUS
  <2> QED
    BY <1>1, <2>1 DEF Quiet, ProducerStarts, ProducerCompletes, ProducerIsStopped,
       ProducerEnds, PutTimesOut, ProviderFails, FinishesWith, GivesUp, ProducerTypeOK
<1>3. /\ status' \in {"created", "running", "completed", "failed", "cancelled"}
      /\ result' \in Outcomes \cup {"none"} /\ outcome' \in Outcomes
  <2>1. /\ status \in {"created", "running", "completed", "failed", "cancelled"}
        /\ result \in Outcomes \cup {"none"} /\ outcome \in Outcomes
    BY <1>1 DEF ProducerTypeOK
  <2>2. /\ status' \in {status, Moved("running"), Moved("cancelled"), Moved("failed")}
        /\ result' \in {result, "cancelled"}
        /\ outcome' \in {outcome, "completed", "cancelled", "failed"}
    BY DEF Quiet, ProducerStarts, ProducerCompletes, ProducerIsStopped, Finalised, streamVars,
       ProducerEnds, PutTimesOut, ProviderFails, FinishesWith, GivesUp
  <2> QED
    BY <2>1, <2>2 DEF Moved, Outcomes
<1>4. upcoming' \in Int /\ asked' \in BOOLEAN /\ overflowed' \in BOOLEAN
  <2>1. index \in Int /\ upcoming \in Int /\ asked \in BOOLEAN /\ overflowed \in BOOLEAN
    BY <1>1 DEF ProducerTypeOK
  <2>2. /\ upcoming' \in {upcoming, -1, index} /\ asked' \in {asked, FALSE}
        /\ overflowed' \in {overflowed, TRUE}
    BY DEF Quiet, ProducerStarts, ProducerCompletes, ProducerIsStopped, ProducerEnds,
       PutTimesOut, ProviderFails, streamVars
  <2>3. upcoming' \in Int
    BY <2>1, <2>2
  <2>4. asked' \in BOOLEAN /\ overflowed' \in BOOLEAN
    BY <2>1, <2>2, Zenon
  <2> QED
    BY <2>3, <2>4
<1> QED
  BY <1>1, <1>2, <1>3, <1>4 DEF ProducerTyped, ProducerTypeOK, Seqs

LEMMA ProducingCases ==
    ASSUME Producing
    PROVE  \/ ProducerYields \/ ProducerPuts \/ ProducerOffers \/ OfferTimesOut
           \/ ProducerPublishes \/ Quiet
BY DEF Producing, ProducerStep, Quiet

LEMMA ProducingTyped ==
    ASSUME Typed, Producing
    PROVE  ProducerTyped' /\ Len(log') >= Len(log) /\ Len(log) \in Nat /\ Len(log') \in Nat
<1>1. Len(log) \in Nat
  BY LenProperties DEF Typed, ProducerTyped, ProducerTypeOK
<1> QED
  BY <1>1, ProducingCases, YieldsTyped, PutsTyped, PublishesTyped, QuietTyped

LEMMA ConnsKeepTypes ==
    ASSUME Typed, Len(log) \in Nat, Len(log') \in Nat, Len(log') >= Len(log),
           UNCHANGED <<connVars, clientVars, orphans, connects>>, failures' \in 0 .. MaxFailures
    PROVE  ConnTyped'
<1>1. \A c \in Conns : replaying[c] \in Seq(Seqs')
  BY SeqsGrow DEF Typed, ConnTyped
<1>2. 0 .. Len(log) \subseteq 0 .. Len(log') /\ Seqs \subseteq Seqs'
  BY DEF Seqs
<1> QED
  BY <1>1, <1>2 DEF Typed, ConnTyped, connVars, clientVars

LEMMA TaskTyped == Typed /\ (TaskMove \/ TimesOut \/ Fails) => Typed'
<1> SUFFICES ASSUME Typed, TaskMove \/ TimesOut \/ Fails PROVE Typed'
  OBVIOUS
<1>1. Producing /\ UNCHANGED <<connVars, clientVars, orphans, connects>>
  BY DEF TaskMove, TimesOut, Fails, Producing, budgetVars
<1>2. failures' \in 0 .. MaxFailures
  BY EventStreamAssumption DEF TaskMove, TimesOut, Fails, budgetVars, Typed, ConnTyped
<1> QED
  BY <1>1, <1>2, ProducingTyped, ConnsKeepTypes DEF Typed

(***************************************************************************)
(* The connections' types.                                                 *)
(***************************************************************************)
\* What a client with Last-Event-ID last gets first: all that came after, or,
\* if it has nothing yet, all that is left.
LEMMA ReplayFollows ==
    ASSUME Typed, InWindow(last)
    PROVE  /\ Replay(last) \in Seq(Seqs)
           /\ Len(Replay(last)) \in 0 .. Len(log)
           /\ \A i \in 1 .. Len(Replay(last)) :
                 Replay(last)[i] = Len(log) - Len(Replay(last)) + i
           /\ \/ Len(log) - Len(Replay(last)) = last
              \/ last = 0 /\ Replay(last) # <<>>
<1>1. /\ Len(log) \in Nat /\ last \in 0 .. Len(log)
      /\ Window \in Nat /\ Window > 0
  BY StreamProducerAssumption, LenProperties
  DEF Typed, ProducerTyped, ProducerTypeOK, ConnTyped
<1>2. Oldest \in Nat /\ Oldest > 0 /\ (Len(log) > 0 => Oldest <= Len(log)) /\ (Len(log) = 0 => Oldest = 1)
  BY <1>1 DEF Oldest
<1>3. PICK from \in Nat : from = Max({last, Oldest - 1}) /\ from >= last /\ from >= Oldest - 1
                          /\ from \in {last, Oldest - 1}
  <2>1. \E m \in {last, Oldest - 1} : \A y \in {last, Oldest - 1} : m >= y
    BY <1>1, <1>2
  <2>2. /\ Max({last, Oldest - 1}) \in {last, Oldest - 1}
        /\ \A y \in {last, Oldest - 1} : Max({last, Oldest - 1}) >= y
    BY <2>1 DEF Max
  <2> QED
    BY <1>1, <1>2, <2>2
<1>4. from <= Len(log) /\ (from = last \/ last = 0) /\ (from = Len(log) => from = last)
  BY <1>1, <1>2, <1>3 DEF InWindow
<1>5. Replay(last) = [i \in 1 .. Len(log) - from |-> from + i]
  BY <1>3 DEF Replay
<1>6. PICK n \in Nat : n = Len(log) - from
  BY <1>1, <1>4
<1>7. Replay(last) = [i \in 1 .. n |-> from + i]
  BY <1>5, <1>6
<1>8. \A i \in 1 .. n : from + i \in Seqs
  BY <1>1, <1>6 DEF Seqs
<1>9. Replay(last) \in Seq(Seqs) /\ Len(Replay(last)) = n
  BY <1>7, <1>8
<1>10. n > 0 => Replay(last) # <<>>
  BY <1>9
<1>11. n \in 0 .. Len(log) /\ Len(log) - n = from
  BY <1>1, <1>4, <1>6
<1>12. \A i \in 1 .. n : Replay(last)[i] = Len(log) - n + i
  BY <1>7, <1>11
<1>13. Len(log) - n = last \/ (last = 0 /\ Replay(last) # <<>>)
  <2>1. CASE from = last
    BY <1>11, <2>1
  <2>2. CASE from # last
    <3>1. last = 0 /\ n > 0
      BY <1>1, <1>4, <1>6, <2>2
    <3> QED
      BY <1>10, <3>1
  <2> QED
    BY <2>1, <2>2
<1> QED
  BY <1>9, <1>11, <1>12, <1>13

LEMMA AskTyped ==
    ASSUME ProducerTyped, AskToStop \/ UNCHANGED <<status, result, asked>>,
           UNCHANGED <<strategy, log, index, overflowed, ppc, upcoming, tail, outcome>>,
           queue' \in Seq(Seqs), Len(queue') <= QueueSize
    PROVE  ProducerTyped'
<1>1. /\ status \in {"created", "running", "completed", "failed", "cancelled"}
      /\ result \in Outcomes \cup {"none"} /\ asked \in BOOLEAN
  BY DEF ProducerTyped, ProducerTypeOK
<1>2. /\ status' \in {status, Moved("cancelled")}
      /\ result' \in {result, "cancelled"}
      /\ asked' \in {asked, TRUE}
  BY DEF AskToStop
<1>3. /\ status' \in {"created", "running", "completed", "failed", "cancelled"}
      /\ result' \in Outcomes \cup {"none"}
  BY <1>1, <1>2 DEF Moved, Outcomes
<1>4. asked' \in BOOLEAN
  BY <1>1, <1>2, Zenon
<1>5. Seqs' = Seqs
  BY DEF Seqs
<1> QED
  BY <1>3, <1>4, <1>5 DEF ProducerTyped, ProducerTypeOK

\* Taking an event leaves a queue.
LEMMA QueueTail ==
    ASSUME ProducerTyped, queue # <<>>
    PROVE  /\ Tail(queue) \in Seq(Seqs) /\ Len(Tail(queue)) <= QueueSize
           /\ Head(queue) \in Seqs
<1>1. queue \in Seq(Seqs) /\ Len(queue) <= QueueSize /\ QueueSize \in Nat
  BY StreamProducerAssumption DEF ProducerTyped, ProducerTypeOK
<1> QED
  BY <1>1, HeadTailProperties, LenProperties

\* The three variables of a connection get new values.
LEMMA ConnTypedIfSet ==
    ASSUME Typed, UNCHANGED log, NEW c \in Conns,
           NEW st \in {"closed", "replay", "live", "cancelling"},
           NEW r \in Seq(Seqs), NEW d \in 0 .. Len(log),
           cpc' = [cpc EXCEPT ![c] = st],
           replaying' = [replaying EXCEPT ![c] = r],
           delivered' = [delivered EXCEPT ![c] = d],
           last' \in 0 .. Len(log), received' \subseteq Seqs, orphans' \subseteq Conns,
           connects' \in 0 .. MaxConnects, failures' = failures
    PROVE  ConnTyped'
<1>1. Seqs' = Seqs
  BY DEF Seqs
<1> QED
  BY <1>1 DEF Typed, ConnTyped

LEMMA ConnTypedIfSame ==
    ASSUME Typed, UNCHANGED <<log, connVars, budgetVars>>,
           last' \in 0 .. Len(log), received' \subseteq Seqs, orphans' \subseteq Conns
    PROVE  ConnTyped'
<1>1. Seqs' = Seqs
  BY DEF Seqs
<1> QED
  BY <1>1 DEF Typed, ConnTyped, connVars, budgetVars

LEMMA SubscribesTyped ==
    ASSUME Typed, NEW c \in Conns, Subscribes(c)
    PROVE  Typed'
<1>1. ProducerTyped'
  <2>1. ppc' \in {ppc, "ready"} /\ UNCHANGED <<streamVars, upcoming, tail, outcome, asked>>
    BY DEF Subscribes, EnsureRunning
  <2>2. ProducerTypeOK'
    <3>1. Seqs' = Seqs
      BY <2>1 DEF Seqs, streamVars
    <3> QED
      BY <2>1, <3>1 DEF streamVars, Typed, ProducerTyped, ProducerTypeOK
  <2> QED
    BY <2>1, <2>2 DEF Typed, ProducerTyped, streamVars
<1>2. /\ Replay(last) \in Seq(Seqs) /\ last \in 0 .. Len(log) /\ Len(log) \in 0 .. Len(log)
      /\ received \subseteq Seqs /\ orphans \subseteq Conns
      /\ connects' \in 0 .. MaxConnects
  BY ReplayFollows, LenProperties, EventStreamAssumption, SMTT(30)
  DEF Subscribes, Typed, ProducerTyped, ProducerTypeOK, ConnTyped
<1>3. CASE Terminal(status) /\ Replay(last) = <<>>
  <2>1. Seqs' = Seqs
    BY DEF Seqs, Subscribes, streamVars
  <2> QED
    BY <1>1, <1>2, <1>3, <2>1 DEF Subscribes, streamVars, clientVars, connVars, Typed, ConnTyped
<1>4. CASE ~(Terminal(status) /\ Replay(last) = <<>>)
  <2>1. PICK st \in {"live", "replay"} : st = IF Replay(last) = <<>> THEN "live" ELSE "replay"
    OBVIOUS
  <2>2. PICK d \in 0 .. Len(log) : d = IF Replay(last) = <<>> THEN last ELSE Len(log)
    BY <1>2
  <2>3. /\ cpc' = [cpc EXCEPT ![c] = st]
        /\ replaying' = [replaying EXCEPT ![c] = Replay(last)]
        /\ delivered' = [delivered EXCEPT ![c] = d]
        /\ UNCHANGED <<log, last, received, failures>>
        /\ orphans' \subseteq Conns
    BY <1>2, <1>4, <2>1, <2>2 DEF Subscribes, streamVars, clientVars
  <2> QED
    BY <1>1, <1>2, <2>3, ConnTypedIfSet DEF Typed
<1> QED
  BY <1>3, <1>4

\* What Sends leaves of the types: either the connection is closed or it stays.
LEMMA SendsTyped ==
    ASSUME Typed, NEW c \in Conns, NEW seq \in Seqs, Sends(c, seq), log' = log
    PROVE  /\ last' \in 0 .. Len(log) /\ received' \subseteq Seqs /\ orphans' \subseteq Conns
           /\ AskToStop \/ UNCHANGED <<status, result, asked>>
           /\ Closes(c) \/ UNCHANGED cpc
<1>1. last \in 0 .. Len(log) /\ received \subseteq Seqs /\ orphans \subseteq Conns
      /\ seq \in 0 .. Len(log)
  BY DEF Typed, ConnTyped, Seqs
<1> QED
  BY <1>1 DEF Sends, Leaves, clientVars

LEMMA ClosesTyped ==
    ASSUME Typed, NEW c \in Conns, Closes(c), UNCHANGED <<log, budgetVars>>,
           last' \in 0 .. Len(log), received' \subseteq Seqs, orphans' \subseteq Conns
    PROVE  ConnTyped'
<1>1. <<>> \in Seq(Seqs) /\ 0 \in 0 .. Len(log) /\ connects' \in 0 .. MaxConnects
  BY EmptySeq, LenProperties DEF Typed, ProducerTyped, ProducerTypeOK, ConnTyped, budgetVars
<1> QED
  BY <1>1, ConnTypedIfSet DEF Closes, budgetVars

\* Which connections are open, for the steps after which c may be closed.
LEMMA ClosedOrSame ==
    ASSUME Typed, NEW c \in Conns, cpc[c] # "closed", Closes(c) \/ UNCHANGED cpc
    PROVE  IF cpc'[c] = "closed" THEN Closes(c) ELSE UNCHANGED cpc
BY DEF Closes, Typed, ConnTyped

LEMMA ReplaysTyped ==
    ASSUME Typed, NEW c \in Conns, Replays(c)
    PROVE  Typed'
<1>1. replaying[c] \in Seq(Seqs) /\ replaying[c] # <<>> /\ cpc[c] # "closed"
      /\ UNCHANGED <<log, queue, budgetVars>>
  BY DEF Replays, Typed, ConnTyped
<1>2. Head(replaying[c]) \in Seqs /\ Tail(replaying[c]) \in Seq(Seqs)
  BY <1>1, HeadTailProperties
<1>3. /\ last' \in 0 .. Len(log) /\ received' \subseteq Seqs /\ orphans' \subseteq Conns
      /\ AskToStop \/ UNCHANGED <<status, result, asked>>
      /\ Closes(c) \/ UNCHANGED cpc
  BY <1>1, <1>2, SendsTyped DEF Replays
<1>4. ProducerTyped'
  BY <1>1, <1>3, AskTyped DEF Replays, Typed, ProducerTyped, ProducerTypeOK
<1>5. CASE cpc'[c] = "closed"
  BY <1>1, <1>3, <1>4, <1>5, ClosedOrSame, ClosesTyped DEF Typed
<1>6. CASE cpc'[c] # "closed"
  <2>1. /\ cpc' = [cpc EXCEPT ![c] = cpc[c]]
        /\ replaying' = [replaying EXCEPT ![c] = Tail(replaying[c])]
        /\ delivered' = [delivered EXCEPT ![c] = delivered[c]]
    BY <1>1, <1>3, <1>6, ClosedOrSame DEF Replays, Typed, ConnTyped
  <2>2. /\ cpc[c] \in {"closed", "replay", "live", "cancelling"}
        /\ delivered[c] \in 0 .. Len(log) /\ connects' \in 0 .. MaxConnects
    BY <1>1 DEF Typed, ConnTyped, budgetVars
  <2> QED
    BY <1>1, <1>2, <1>3, <1>4, <2>1, <2>2, ConnTypedIfSet DEF Typed, budgetVars
<1> QED
  BY <1>5, <1>6

LEMMA TakesTyped ==
    ASSUME Typed, NEW c \in Conns, Takes(c)
    PROVE  Typed'
<1>1. queue # <<>> /\ queue' = Tail(queue) /\ cpc[c] # "closed" /\ UNCHANGED <<log, budgetVars>>
  BY DEF Takes
<1>2. Tail(queue) \in Seq(Seqs) /\ Len(Tail(queue)) <= QueueSize /\ Head(queue) \in Seqs
  BY <1>1, QueueTail DEF Typed
<1>3. CASE AlreadySent(c, Head(queue))
  <2>1. ConnTyped'
    BY <1>1, <1>3, ConnTypedIfSame DEF Takes, clientVars, Typed, ConnTyped
  <2>2. ProducerTyped'
    BY <1>1, <1>2, <1>3, AskTyped DEF Takes, Typed
  <2> QED
    BY <2>1, <2>2 DEF Typed
<1>4. CASE ~AlreadySent(c, Head(queue))
  <2>1. /\ last' \in 0 .. Len(log) /\ received' \subseteq Seqs /\ orphans' \subseteq Conns
        /\ AskToStop \/ UNCHANGED <<status, result, asked>>
        /\ Closes(c) \/ UNCHANGED cpc
    BY <1>1, <1>2, <1>4, SendsTyped DEF Takes
  <2>2. ProducerTyped'
    BY <1>1, <1>2, <2>1, AskTyped DEF Takes, Typed
  <2>3. CASE cpc'[c] = "closed"
    BY <1>1, <2>1, <2>2, <2>3, ClosedOrSame, ClosesTyped DEF Typed
  <2>4. CASE cpc'[c] # "closed"
    <3>1. /\ cpc' = [cpc EXCEPT ![c] = cpc[c]]
          /\ replaying' = [replaying EXCEPT ![c] = replaying[c]]
          /\ delivered' = [delivered EXCEPT ![c] = Head(queue)]
      BY <1>1, <1>4, <2>1, <2>4, ClosedOrSame DEF Takes, Typed, ConnTyped
    <3>2. /\ cpc[c] \in {"closed", "replay", "live", "cancelling"} /\ replaying[c] \in Seq(Seqs)
          /\ Head(queue) \in 0 .. Len(log) /\ connects' \in 0 .. MaxConnects
      BY <1>1, <1>2 DEF Typed, ConnTyped, budgetVars, Seqs
    <3> QED
      BY <1>1, <2>1, <2>2, <3>1, <3>2, ConnTypedIfSet DEF Typed, budgetVars
  <2> QED
    BY <2>3, <2>4
<1> QED
  BY <1>3, <1>4

LEMMA OthersTyped ==
    ASSUME Typed, NEW c \in Conns, GoesLive(c) \/ HangsUp(c) \/ Cancels(c) \/ IsCancelled(c)
    PROVE  Typed'
<1>1. /\ UNCHANGED <<log, queue, budgetVars, clientVars>>
      /\ orphans' \subseteq Conns
      /\ AskToStop \/ UNCHANGED <<status, result, asked>>
      /\ UNCHANGED <<strategy, index, overflowed, ppc, upcoming, tail, outcome>>
  BY DEF GoesLive, HangsUp, Cancels, IsCancelled, Leaves, streamVars, taskVars, Typed, ConnTyped
<1>2. ProducerTyped'
  BY <1>1, AskTyped DEF Typed, ProducerTyped, ProducerTypeOK
<1>3. last' \in 0 .. Len(log) /\ received' \subseteq Seqs /\ connects' \in 0 .. MaxConnects
  BY <1>1 DEF clientVars, budgetVars, Typed, ConnTyped
<1>4. CASE Closes(c)
  BY <1>1, <1>2, <1>3, <1>4, ClosesTyped DEF Typed
<1>5. CASE ~Closes(c)
  <2>1. PICK st \in {"live", "cancelling"} :
           cpc' = [cpc EXCEPT ![c] = st] /\ UNCHANGED <<replaying, delivered>>
    BY <1>5 DEF GoesLive, HangsUp, Cancels, IsCancelled, Leaves
  <2>2. /\ replaying' = [replaying EXCEPT ![c] = replaying[c]]
        /\ delivered' = [delivered EXCEPT ![c] = delivered[c]]
        /\ replaying[c] \in Seq(Seqs) /\ delivered[c] \in 0 .. Len(log)
    BY <2>1 DEF Typed, ConnTyped
  <2> QED
    BY <1>1, <1>2, <1>3, <2>1, <2>2, ConnTypedIfSet DEF Typed, budgetVars
<1> QED
  BY <1>4, <1>5

LEMMA TypedNext == Typed /\ [Next]_vars => Typed'
<1> SUFFICES ASSUME Typed, [Next]_vars PROVE Typed'
  OBVIOUS
<1>1. CASE UNCHANGED vars
  BY <1>1 DEF vars, streamVars, taskVars, connVars, clientVars, budgetVars, Typed, ProducerTyped,
         ProducerTypeOK, ConnTyped, Seqs
<1> QED
  BY <1>1, TaskTyped, SubscribesTyped, ReplaysTyped, TakesTyped, OthersTyped DEF Next, ConnStep

LEMMA AlwaysTyped == Spec => []Typed
BY TypedInit, TypedNext, PTL DEF Spec

\* Every variable of the stream has its type, and the queue never holds more
\* than its size, whichever strategy is chosen.
THEOREM StreamTypeCorrect == Spec => []TypeOK
<1>1. Typed => TypeOK
  BY DEF Typed, ProducerTyped, ConnTyped, TypeOK
<1> QED
  BY <1>1, AlwaysTyped, PTL

(***************************************************************************)
(* NothingSkipped.  One connection is open at a time.  What was delivered  *)
(* to it and what is in the queue leave no event out but the one that      *)
(* waits for room; while the producer is being stopped nothing is added.   *)
(***************************************************************************)
Pending == ppc \in {"put", "offer"}

QueueInOrder ==
    /\ Rising(queue)
    /\ \A e \in Nat : Holds(queue, e) =>
          1 <= e /\ e <= Len(log) /\ (Pending => e < Len(log))

OneOpen == \A c, d \in Conns : cpc[c] # "closed" /\ cpc[d] # "closed" => c = d

\* What comes behind n is in the queue, or waits for room.
Waiting(n) == \A e \in Nat : n < e /\ e <= Len(log) => Holds(queue, e) \/ (Pending /\ e = Len(log))

InStep(c) ==
    /\ asked => delivered[c] = Len(log)
    /\ ~overflowed => Waiting(delivered[c])

Before(c) == delivered[c] - Len(replaying[c])

Resumes(c) ==
    /\ Len(replaying[c]) <= delivered[c]
    /\ \A i \in 1 .. Len(replaying[c]) : replaying[c][i] = Before(c) + i
    /\ Before(c) = last \/ (last = 0 /\ replaying[c] # <<>>)

NoGap == \A seq \in 1 .. last : seq \in received \/ \A r \in received : seq < r

Gapless ==
    /\ QueueInOrder
    /\ OneOpen
    /\ \A c \in Conns :
          /\ cpc[c] \in {"replay", "live"} => InStep(c)
          /\ cpc[c] = "replay" => Resumes(c)
          /\ cpc[c] = "live" => last = delivered[c]
    /\ last = 0 => received = {}
    /\ ~overflowed => NoGap

LEMMA GaplessInit == Init => Gapless
<1>1. Len(<<>>) = 0 /\ <<>> \in Seq(Nat)
  BY EmptySeq
<1>2. Init => QueueInOrder
  BY <1>1 DEF Init, ProducerInit, QueueInOrder, Rising, Holds
<1> QED
  BY <1>2 DEF Init, ProducerInit, Gapless, OneOpen, NoGap

\* An event behind those that were received, or one received again, makes no gap.
LEMMA NextMakesNoGap ==
    ASSUME last \in Nat, received \subseteq Nat, last = 0 => received = {}, NoGap,
           NEW e \in Nat, e > 0, last = 0 \/ e <= last + 1, last' = e, received' = received \cup {e}
    PROVE  NoGap' /\ last' # 0
BY DEF NoGap

\* What a step of the producer adds waits for room or is in the queue, or the
\* queue ran over; a producer that is being stopped adds nothing.
LEMMA ProducingWaits ==
    ASSUME Typed, QueueInOrder, Producing
    PROVE  /\ QueueInOrder'
           /\ asked' => asked /\ Len(log') = Len(log)
           /\ overflowed => overflowed'
           /\ \A n \in Nat : /\ n <= Len(log) /\ (asked => n = Len(log)) /\ Waiting(n)
                             /\ ~overflowed'
                             => Waiting(n)'
<1>1. Len(log) \in Nat
  BY LenProperties DEF Typed, ProducerTyped, ProducerTypeOK
<1>2. CASE ProducerYields
  <2>1. Len(log') = Len(log) + 1 /\ ~asked /\ ~asked' /\ ~Pending /\ (overflowed => overflowed')
    BY <1>2, YieldsTyped DEF ProducerYields, Pending
  <2>2. queue' = queue \/ (queue' = Tail(queue) /\ queue # <<>> /\ overflowed')
    <3>1. Full => queue # <<>>
      BY EmptySeq, StreamProducerAssumption DEF Full
    <3> QED
      BY <1>2, <3>1 DEF ProducerYields, GivesUp, FinishesWith
  <2>3. ~overflowed' => Pending'
    BY <1>2 DEF ProducerYields, Pending
  <2>4. CASE queue' = queue
    <3>1. QueueInOrder'
      BY <1>1, <2>1, <2>4 DEF QueueInOrder, Holds
    <3>2. ASSUME NEW n \in Nat, Waiting(n), ~overflowed' PROVE Waiting(n)'
      BY <1>1, <2>1, <2>3, <2>4, <3>2 DEF Waiting, Holds
    <3> QED
      BY <2>1, <3>1, <3>2
  <2>5. CASE queue' = Tail(queue) /\ queue # <<>> /\ overflowed'
    <3>1. Rising(queue) /\ \A e \in Nat : Holds(queue, e) => 1 <= e /\ e <= Len(log)
      BY DEF QueueInOrder
    <3>2. Rising(queue') /\ \A e \in Nat : Holds(queue', e) => Holds(queue, e)
      BY <2>5, <3>1, TailRises
    <3> QED
      BY <1>1, <2>1, <2>5, <3>1, <3>2 DEF QueueInOrder, Holds
  <2> QED
    BY <2>2, <2>4, <2>5
<1>3. CASE ProducerPuts \/ ProducerOffers
  <2>1. /\ Pending /\ ~Pending' /\ log' = log /\ asked' = asked /\ overflowed' = overflowed
        /\ queue' = Append(queue, Len(log))
    BY <1>3 DEF ProducerPuts, ProducerOffers, OfferedLast, Offered, Pending
  <2>2. Rising(queue) /\ \A e \in Nat : Holds(queue, e) => 1 <= e /\ e < Len(log)
    BY <2>1 DEF QueueInOrder
  <2>3. Rising(queue') /\ \A e : Holds(queue', e) <=> Holds(queue, e) \/ e = Len(log)
    BY <1>1, <2>1, <2>2, AppendRises
  <2>4. Len(log) > 0
    BY <1>3 DEF Typed, ProducerTyped, ProducerPuts, ProducerOffers
  <2>5. QueueInOrder'
    BY <1>1, <2>1, <2>2, <2>3, <2>4 DEF QueueInOrder
  <2>6. ASSUME NEW n \in Nat, Waiting(n) PROVE Waiting(n)'
    BY <2>1, <2>3, <2>6 DEF Waiting
  <2> QED
    BY <2>1, <2>5, <2>6
<1>4. CASE OfferTimesOut
  <2>1. /\ Pending /\ ~Pending' /\ log' = log /\ asked' = asked /\ overflowed'
        /\ queue' = Append(Tail(queue), Len(log)) /\ queue # <<>>
    BY <1>4, EmptySeq, StreamProducerAssumption
    DEF OfferTimesOut, OfferedLast, Offered, Pending, Full
  <2>2. Rising(queue) /\ \A e \in Nat : Holds(queue, e) => 1 <= e /\ e < Len(log)
    BY <2>1 DEF QueueInOrder
  <2>3. Rising(Tail(queue)) /\ \A e \in Nat : Holds(Tail(queue), e) => 1 <= e /\ e < Len(log)
    BY <2>1, <2>2, TailRises
  <2>4. Rising(queue') /\ \A e : Holds(queue', e) <=> Holds(Tail(queue), e) \/ e = Len(log)
    BY <1>1, <2>1, <2>3, AppendRises
  <2>5. Len(log) > 0
    BY <1>4 DEF Typed, ProducerTyped, OfferTimesOut
  <2> QED
    BY <1>1, <2>1, <2>3, <2>4, <2>5 DEF QueueInOrder
<1>5. CASE ProducerPublishes
  <2>1. /\ Len(log') = Len(log) + 1 /\ ~asked /\ ~asked' /\ ~Pending /\ Pending'
        /\ overflowed' = overflowed /\ queue' = queue
    BY <1>5, PublishesTyped DEF ProducerPublishes, Pending
  <2>2. QueueInOrder'
    BY <1>1, <2>1 DEF QueueInOrder, Holds
  <2>3. ASSUME NEW n \in Nat, Waiting(n) PROVE Waiting(n)'
    BY <1>1, <2>1, <2>3 DEF Waiting, Holds
  <2> QED
    BY <2>1, <2>2, <2>3
<1>6. CASE Quiet
  <2>1. /\ UNCHANGED <<log, queue>> /\ ~Pending' /\ (asked' => asked)
        /\ (overflowed => overflowed')
        /\ (Pending /\ ~asked => overflowed')
    BY <1>6 DEF Quiet, ProducerStarts, ProducerCompletes, ProducerIsStopped, ProducerEnds,
       PutTimesOut, ProviderFails, FinishesWith, GivesUp, streamVars, Pending
  <2>2. QueueInOrder'
    BY <2>1 DEF QueueInOrder, Holds
  <2>3. ASSUME NEW n \in Nat, n <= Len(log), asked => n = Len(log), Waiting(n), ~overflowed'
        PROVE  Waiting(n)'
    BY <1>1, <2>1, <2>3 DEF Waiting, Holds
  <2> QED
    BY <2>1, <2>2, <2>3
<1> QED
  BY <1>2, <1>3, <1>4, <1>5, <1>6, ProducingCases

LEMMA TaskGapless ==
    ASSUME Typed, Gapless, TaskMove \/ TimesOut \/ Fails
    PROVE  Gapless'
<1>1. Producing /\ UNCHANGED <<cpc, replaying, delivered, last, received>>
  BY DEF TaskMove, TimesOut, Fails, Producing, connVars, clientVars
<1>2. /\ QueueInOrder'
      /\ asked' => asked /\ Len(log') = Len(log)
      /\ overflowed => overflowed'
      /\ \A n \in Nat : /\ n <= Len(log) /\ (asked => n = Len(log)) /\ Waiting(n)
                        /\ ~overflowed'
                        => Waiting(n)'
  BY <1>1, ProducingWaits DEF Gapless
<1>3. ASSUME NEW c \in Conns, cpc[c] \in {"replay", "live"}
      PROVE  InStep(c)'
  <2>1. InStep(c) /\ delivered[c] \in Nat /\ delivered[c] <= Len(log)
    BY <1>3, LenProperties DEF Gapless, Typed, ConnTyped, ProducerTyped, ProducerTypeOK
  <2>2. PICK n \in Nat : n = delivered[c]
    BY <2>1
  <2>3. (asked => n = Len(log)) /\ (~overflowed => Waiting(n)) /\ n <= Len(log)
    BY <2>1, <2>2 DEF InStep
  <2>4. (asked' => n = Len(log')) /\ (~overflowed' => Waiting(n)')
    BY <1>2, <2>3
  <2>5. delivered'[c] = n
    BY <1>1, <2>2
  <2>6. Waiting(n)' => (Waiting(delivered[c]))'
    BY <2>5 DEF Waiting
  <2> QED
    BY <2>4, <2>5, <2>6 DEF InStep
<1>4. OneOpen' /\ (last' = 0 => received' = {}) /\ (~overflowed' => NoGap')
  BY <1>1, <1>2 DEF Gapless, OneOpen, NoGap
<1>5. ASSUME NEW c \in Conns, cpc[c] = "replay" PROVE Resumes(c)'
  BY <1>1, <1>5 DEF Gapless, Resumes, Before
<1> QED
  BY <1>1, <1>2, <1>3, <1>4, <1>5 DEF Gapless

\* A step of the one open connection.
LEMMA ConnGapless ==
    ASSUME NEW c \in Conns, \A d \in Conns \ {c} : cpc'[d] = "closed",
           QueueInOrder',
           cpc'[c] \in {"replay", "live"} => InStep(c)',
           cpc'[c] = "replay" => Resumes(c)',
           cpc'[c] = "live" => last' = delivered'[c],
           last' = 0 => received' = {},
           ~overflowed' => NoGap'
    PROVE  Gapless'
BY DEF Gapless, OneOpen

LEMMA OthersClosed ==
    ASSUME Typed, Gapless, NEW c \in Conns, cpc[c] # "closed",
           \/ UNCHANGED cpc
           \/ \E st \in {"closed", "live", "cancelling"} : cpc' = [cpc EXCEPT ![c] = st]
    PROVE  \A d \in Conns \ {c} : cpc'[d] = "closed"
BY DEF Gapless, OneOpen, Typed, ConnTyped

LEMMA SubscribesGapless ==
    ASSUME Typed, Gapless, NEW c \in Conns, Subscribes(c)
    PROVE  Gapless'
<1>1. /\ UNCHANGED <<log, queue, overflowed, asked, last, received>>
      /\ (Pending' <=> Pending) /\ InWindow(last) /\ Len(log) \in Nat
      /\ \A d \in Conns : cpc[d] = "closed"
  BY LenProperties DEF Subscribes, EnsureRunning, streamVars, clientVars, Pending, Typed,
     ProducerTyped, ProducerTypeOK, SlotFree
<1>2. QueueInOrder' /\ (last' = 0 => received' = {}) /\ (~overflowed' => NoGap')
  BY <1>1 DEF Gapless, QueueInOrder, Holds, NoGap
<1>3. CASE UNCHANGED connVars
  BY <1>1, <1>2, <1>3, ConnGapless DEF connVars
<1>4. CASE ~UNCHANGED connVars
  <2> PICK r : r = Replay(last)
    OBVIOUS
  <2>1. /\ r \in Seq(Seqs) /\ Len(r) \in 0 .. Len(log)
        /\ \A i \in 1 .. Len(r) : r[i] = Len(log) - Len(r) + i
        /\ (Len(log) - Len(r) = last \/ (last = 0 /\ r # <<>>))
    BY <1>1, ReplayFollows
  <2>2. /\ cpc' = [cpc EXCEPT ![c] = IF r = <<>> THEN "live" ELSE "replay"]
        /\ replaying' = [replaying EXCEPT ![c] = r]
        /\ delivered' = [delivered EXCEPT ![c] = IF r = <<>> THEN last ELSE Len(log)]
    BY <1>4 DEF Subscribes, connVars
  <2>3. r = <<>> => last = Len(log)
    BY <1>1, <2>1, EmptySeq
  <2>4. /\ cpc'[c] = IF r = <<>> THEN "live" ELSE "replay"
        /\ replaying'[c] = r
        /\ delivered'[c] = Len(log)
        /\ \A d \in Conns \ {c} : cpc'[d] = "closed"
    BY <1>1, <2>2, <2>3 DEF Typed, ConnTyped
  <2>5. InStep(c)'
    BY <1>1, <2>4 DEF InStep, Waiting
  <2>6. Resumes(c)'
    BY <1>1, <2>1, <2>4 DEF Resumes, Before
  <2> QED
    BY <1>1, <1>2, <2>3, <2>4, <2>5, <2>6, ConnGapless
<1> QED
  BY <1>3, <1>4

LEMMA OthersGapless ==
    ASSUME Typed, Gapless, NEW c \in Conns, GoesLive(c) \/ HangsUp(c) \/ Cancels(c) \/ IsCancelled(c)
    PROVE  Gapless'
<1>1. /\ UNCHANGED <<log, queue, overflowed, ppc, last, received>> /\ cpc[c] # "closed"
  BY DEF GoesLive, HangsUp, Cancels, IsCancelled, streamVars, taskVars, clientVars
<1>2. QueueInOrder' /\ (last' = 0 => received' = {}) /\ (~overflowed' => NoGap')
  BY <1>1 DEF Gapless, QueueInOrder, Holds, Pending, NoGap
<1>3. PICK st \in {"closed", "live", "cancelling"} : cpc' = [cpc EXCEPT ![c] = st]
  BY DEF GoesLive, HangsUp, Cancels, IsCancelled, Leaves, Closes
<1>4. cpc'[c] = st /\ \A d \in Conns \ {c} : cpc'[d] = "closed"
  BY <1>1, <1>3, OthersClosed DEF Typed, ConnTyped
<1>5. ASSUME st = "live"
      PROVE  InStep(c)' /\ last' = delivered'[c]
  <2>1. GoesLive(c)
    BY <1>4, <1>5 DEF HangsUp, Cancels, IsCancelled, Leaves, Closes, Typed, ConnTyped
  <2>2. InStep(c) /\ Resumes(c) /\ replaying[c] = <<>> /\ delivered' = delivered /\ asked' = asked
    BY <1>4, <1>5, <2>1 DEF GoesLive, Gapless, Closes, taskVars, Typed, ConnTyped
  <2>3. delivered[c] \in Nat /\ Len(<<>>) = 0
    BY LenProperties, EmptySeq DEF Typed, ConnTyped, ProducerTyped, ProducerTypeOK
  <2>4. last = delivered[c]
    BY <2>2, <2>3 DEF Resumes, Before
  <2> QED
    BY <1>1, <2>2, <2>4 DEF InStep, Waiting, Holds, Pending
<1> QED
  BY <1>2, <1>4, <1>5, ConnGapless

\* The event comes to the client, or the connection is closed.
LEMMA SendsNoGap ==
    ASSUME Typed, Gapless, NEW c \in Conns, NEW e \in Seqs, Sends(c, e), cpc[c] # "closed",
           UNCHANGED overflowed, ~overflowed => last = 0 \/ e <= last + 1
    PROVE  /\ last' = 0 => received' = {}
           /\ ~overflowed' => NoGap'
           /\ cpc'[c] # "closed" => last' = e /\ UNCHANGED <<cpc, asked>>
           /\ \A d \in Conns \ {c} : cpc'[d] = "closed"
<1>1. last \in Nat /\ received \subseteq Nat /\ e \in Nat /\ e > 0
  BY LenProperties DEF Typed, ConnTyped, ProducerTyped, ProducerTypeOK, Seqs
<1>2. (last = 0 => received = {}) /\ (~overflowed => NoGap)
  BY DEF Gapless
<1>3. (last' = 0 => received' = {}) /\ (~overflowed' => NoGap')
  <2>1. CASE last' = e /\ received' = received \cup {e}
    BY <1>1, <1>2, <2>1, NextMakesNoGap
  <2>2. CASE UNCHANGED clientVars
    BY <1>2, <2>2 DEF clientVars, NoGap
  <2> QED
    BY <2>1, <2>2 DEF Sends
<1>4. UNCHANGED cpc \/ cpc' = [cpc EXCEPT ![c] = "closed"]
  BY DEF Sends, Leaves, Closes
<1>5. \A d \in Conns \ {c} : cpc'[d] = "closed"
  BY <1>4, OthersClosed
<1>6. cpc'[c] # "closed" => last' = e /\ UNCHANGED <<cpc, asked>>
  BY DEF Sends, Leaves, Closes, Typed, ConnTyped
<1> QED
  BY <1>3, <1>5, <1>6

LEMMA ReplaysGapless ==
    ASSUME Typed, Gapless, NEW c \in Conns, Replays(c)
    PROVE  Gapless'
<1>1. /\ cpc[c] = "replay" /\ Resumes(c) /\ InStep(c) /\ replaying[c] # <<>>
      /\ UNCHANGED <<log, queue, overflowed, ppc>>
  BY DEF Replays, Gapless
<1>2. PICK r \in Seq(Seqs) : r = replaying[c]
  BY DEF Typed, ConnTyped
<1>3. PICK n \in Nat : n = delivered[c]
  BY LenProperties DEF Typed, ConnTyped, ProducerTyped, ProducerTypeOK
<1>4. /\ Len(r) \in Nat /\ Len(r) > 0 /\ Head(r) = r[1] /\ Head(r) \in Seqs
      /\ Len(Tail(r)) = Len(r) - 1
      /\ \A i \in 1 .. Len(r) - 1 : Tail(r)[i] = r[i + 1]
  BY <1>1, <1>2, HeadTailProperties, LenProperties, EmptySeq
<1>5. /\ Len(r) <= n
      /\ \A i \in 1 .. Len(r) : r[i] = n - Len(r) + i
      /\ (n - Len(r) = last \/ last = 0)
  BY <1>1, <1>2, <1>3 DEF Resumes, Before
<1>6. Head(r) = n - Len(r) + 1
  BY <1>4, <1>5
<1>7. last \in Nat
  BY LenProperties DEF Typed, ConnTyped, ProducerTyped, ProducerTypeOK
<1>8. /\ last' = 0 => received' = {}
      /\ ~overflowed' => NoGap'
      /\ cpc'[c] # "closed" => last' = Head(r) /\ UNCHANGED <<cpc, asked>>
      /\ \A d \in Conns \ {c} : cpc'[d] = "closed"
  <2>1. last = 0 \/ Head(r) <= last + 1
    BY <1>3, <1>4, <1>5, <1>6, <1>7
  <2>2. Sends(c, Head(r))
    BY <1>2 DEF Replays
  <2> QED
    BY <1>1, <1>4, <2>1, <2>2, SendsNoGap
<1>9. QueueInOrder'
  BY <1>1 DEF Gapless, QueueInOrder, Holds, Pending
<1>10. ASSUME cpc'[c] # "closed"
       PROVE  cpc'[c] = "replay" /\ InStep(c)' /\ Resumes(c)'
  <2>1. /\ replaying'[c] = Tail(r) /\ delivered'[c] = n /\ UNCHANGED <<cpc, asked>>
        /\ last' = Head(r)
    BY <1>2, <1>3, <1>8, <1>10 DEF Replays, Typed, ConnTyped
  <2>2. Resumes(c)'
    <3>1. Len(Tail(r)) <= n /\ n - Len(Tail(r)) = last'
      BY <1>3, <1>4, <1>5, <1>6, <2>1
    <3>2. ASSUME NEW i \in 1 .. Len(Tail(r)) PROVE Tail(r)[i] = n - Len(Tail(r)) + i
      <4>1. i \in Nat /\ i + 1 \in 1 .. Len(r) /\ Tail(r)[i] = r[i + 1]
        BY <1>4
      <4>2. r[i + 1] = n - Len(r) + (i + 1)
        BY <1>5, <4>1
      <4> QED
        BY <1>3, <1>4, <4>1, <4>2
    <3> QED
      BY <2>1, <3>1, <3>2 DEF Resumes, Before
  <2>3. InStep(c)'
    BY <1>1, <1>3, <2>1 DEF InStep, Waiting, Holds, Pending
  <2> QED
    BY <1>1, <2>1, <2>2, <2>3
<1> QED
  BY <1>8, <1>9, <1>10, ConnGapless

\* The oldest event in the queue was delivered before, or is the next one.
LEMMA TakesGapless ==
    ASSUME Typed, Gapless, NEW c \in Conns, Takes(c)
    PROVE  Gapless'
<1>1. /\ cpc[c] = "live" /\ InStep(c) /\ last = delivered[c] /\ queue # <<>>
      /\ queue' = Tail(queue) /\ UNCHANGED <<log, overflowed, ppc>>
  BY DEF Takes, Gapless
<1>2. last \in Nat /\ last <= Len(log) /\ Len(log) \in Nat
  BY LenProperties DEF Typed, ConnTyped, ProducerTyped, ProducerTypeOK
<1>3. PICK e : e = Head(queue)
  OBVIOUS
<1>4. /\ e \in Nat /\ Holds(queue, e) /\ Rising(Tail(queue))
      /\ \A f : Holds(Tail(queue), f) <=> Holds(queue, f) /\ f # e
      /\ \A f \in Nat : Holds(queue, f) => e <= f
  BY <1>1, <1>3, TailRises DEF Gapless, QueueInOrder
<1>5. 1 <= e /\ e <= Len(log) /\ (Pending => e < Len(log))
  BY <1>4 DEF Gapless, QueueInOrder
<1>6. QueueInOrder'
  BY <1>1, <1>4 DEF Gapless, QueueInOrder, Pending
<1>7. ~overflowed => e <= last + 1
  <2>1. ASSUME ~overflowed, e > last + 1 PROVE FALSE
    <3>1. Holds(queue, last + 1) \/ (Pending /\ last + 1 = Len(log))
      BY <1>1, <1>2, <1>4, <1>5, <2>1 DEF InStep, Waiting
    <3> QED
      BY <1>2, <1>4, <1>5, <2>1, <3>1
  <2> QED
    BY <1>2, <1>4, <2>1
<1>8. CASE AlreadySent(c, e)
  <2>1. e <= last /\ UNCHANGED <<connVars, clientVars, asked>>
    BY <1>1, <1>3, <1>8 DEF Takes, AlreadySent
  <2>2. Waiting(last) => Waiting(last)'
    BY <1>1, <1>2, <1>4, <2>1 DEF Waiting, Pending, clientVars
  <2>3. InStep(c)'
    BY <1>1, <2>1, <2>2 DEF InStep, Waiting, connVars, clientVars
  <2>4. \A d \in Conns \ {c} : cpc'[d] = "closed"
    BY <1>1, <2>1, OthersClosed DEF connVars
  <2>5. (last' = 0 => received' = {}) /\ (~overflowed' => NoGap')
    BY <1>1, <2>1 DEF Gapless, NoGap, clientVars
  <2> QED
    BY <1>1, <1>6, <2>1, <2>3, <2>4, <2>5, ConnGapless DEF connVars, clientVars
<1>9. CASE ~AlreadySent(c, e)
  <2>1. Sends(c, e) /\ e \in Seqs
    BY <1>2, <1>3, <1>4, <1>5, <1>9 DEF Takes, Seqs
  <2>2. /\ last' = 0 => received' = {}
        /\ ~overflowed' => NoGap'
        /\ cpc'[c] # "closed" => last' = e /\ UNCHANGED <<cpc, asked>>
        /\ \A d \in Conns \ {c} : cpc'[d] = "closed"
    BY <1>1, <1>7, <2>1, SendsNoGap
  <2>3. ASSUME cpc'[c] # "closed"
        PROVE  cpc'[c] = "live" /\ InStep(c)' /\ last' = delivered'[c]
    <3>1. delivered'[c] = e /\ last' = e /\ UNCHANGED <<cpc, asked>>
      BY <1>3, <1>9, <2>2, <2>3 DEF Takes, Typed, ConnTyped
    <3>2. ~IsDone(e)
      BY <2>1, <2>3, <1>1 DEF Sends, Leaves, Closes, Typed, ConnTyped
    <3>3. e > last
      BY <1>1, <1>2, <1>4, <1>9, <3>2 DEF AlreadySent
    <3>4. asked => e = Len(log)
      BY <1>1, <1>2, <1>4, <1>5, <3>3 DEF InStep
    <3>5. ~overflowed => Waiting(last)
      BY <1>1 DEF InStep
    <3>6. Waiting(last) => \A f \in Nat : e < f /\ f <= Len(log) =>
                              Holds(queue', f) \/ (Pending' /\ f = Len(log'))
      BY <1>1, <1>2, <1>4, <3>3 DEF Waiting, Pending
    <3>7. InStep(c)'
      BY <1>1, <3>1, <3>4, <3>5, <3>6 DEF InStep, Waiting
    <3> QED
      BY <1>1, <3>1, <3>7
  <2> QED
    BY <1>6, <2>2, <2>3, ConnGapless
<1> QED
  BY <1>8, <1>9

LEMMA GaplessNext == Typed /\ Gapless /\ [Next]_vars => Gapless'
<1> SUFFICES ASSUME Typed, Gapless, [Next]_vars PROVE Gapless'
  OBVIOUS
<1>1. CASE UNCHANGED vars
  BY <1>1 DEF vars, streamVars, taskVars, connVars, clientVars, Gapless, QueueInOrder, Holds, Pending,
         OneOpen, InStep, Waiting, Resumes, Before, NoGap
<1> QED
  BY <1>1, TaskGapless, SubscribesGapless, ReplaysGapless, TakesGapless, OthersGapless
  DEF Next, ConnStep

\* Under every strategy, and however often connections break and resume, no
\* event between two that the client got is left out unless the queue ran over.
THEOREM NothingIsSkipped == Spec => []NothingSkipped
<1>1. Gapless => NothingSkipped
  BY DEF Gapless, NoGap, NothingSkipped
<1> QED
  BY <1>1, GaplessInit, GaplessNext, AlwaysTyped, PTL DEF Spec

===============================================================================
