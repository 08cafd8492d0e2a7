-------------------------- MODULE SingleAgentProofs --------------------------
(***************************************************************************)
(* Proofs about one run of one agent, which this repository has twice: the *)
(* task of GracefulCancel, which may be asked to stop, and the incident of *)
(* Troubleshooting, which is to be diagnosed.  The first holds for every   *)
(* script of an agent, every report, every set of connections, every       *)
(* history and every bound, the second for every budget, every permission  *)
(* and every number of incidents.                                          *)
(***************************************************************************)
EXTENDS GracefulCancel, Troubleshooting, FiniteSetTheorems, SequenceTheorems,
        WellFoundedInduction, TLAPS

(***************************************************************************)
(* The log.  Calm holds every kind of event but the last one.              *)
(***************************************************************************)
Calm == Kinds \ {"terminal"}

\* What is emitted with the end of a task: its terminal event comes last.
EndsWithTerminal(events) ==
    /\ events \in Seq(Kinds) /\ Len(events) > 0
    /\ \A i \in 1 .. Len(events) : events[i] = "terminal" <=> i = Len(events)

LEMMA CalmKinds == \A s \in Seq(Calm) : s \in Seq(Kinds)
BY SeqMonotonic DEF Calm

LEMMA Joined ==
    ASSUME NEW s \in Seq(Calm), NEW t \in Seq(Calm)
    PROVE  s \o t \in Seq(Calm) /\ Len(s \o t) >= Len(s)
BY ConcatProperties, LenProperties

LEMMA JoinedTwice ==
    ASSUME NEW s \in Seq(Calm), NEW t \in Seq(Calm), NEW u \in Seq(Calm)
    PROVE  s \o t \o u \in Seq(Calm) /\ Len(s \o t \o u) >= Len(s)
<1>1. /\ s \o t \in Seq(Calm) /\ Len(s \o t) >= Len(s)
      /\ s \o t \o u \in Seq(Calm) /\ Len(s \o t \o u) >= Len(s \o t)
  BY Joined
<1> QED
  BY <1>1, LenProperties

LEMMA Ended ==
    ASSUME NEW s \in Seq(Calm), NEW e, EndsWithTerminal(e)
    PROVE  EndsWithTerminal(s \o e) /\ Len(s \o e) >= Len(s)
<1>1. s \in Seq(Kinds) /\ e \in Seq(Kinds) /\ Len(s) \in Nat /\ Len(e) \in Nat /\ Len(e) > 0
  BY CalmKinds, LenProperties DEF EndsWithTerminal
<1>2. /\ s \o e \in Seq(Kinds)
      /\ Len(s \o e) = Len(s) + Len(e)
      /\ \A i \in 1 .. Len(s) + Len(e) : (s \o e)[i] = IF i <= Len(s) THEN s[i] ELSE e[i - Len(s)]
  BY <1>1, ConcatProperties
<1>3. ASSUME NEW i \in 1 .. Len(s) + Len(e)
      PROVE  (s \o e)[i] = "terminal" <=> i = Len(s) + Len(e)
  <2>1. CASE i <= Len(s)
    <3>1. s[i] \in Calm
      BY <1>1, <2>1, ElementOfSeq
    <3> QED
      BY <1>1, <1>2, <2>1, <3>1 DEF Calm
  <2>2. CASE i > Len(s)
    <3>1. i - Len(s) \in 1 .. Len(e)
      BY <1>1, <2>2
    <3> QED
      BY <1>1, <1>2, <2>2, <3>1, SMTT(30) DEF EndsWithTerminal
  <2> QED
    BY <1>1, <2>1, <2>2
<1> QED
  BY <1>1, <1>2, <1>3 DEF EndsWithTerminal

\* The tuples of events the steps emit.
LEMMA Tuples ==
    /\ <<"event">> \in Seq(Calm) /\ <<>> \in Seq(Calm) /\ <<"action">> \in Seq(Calm)
    /\ <<"event", "event">> \in Seq(Calm)
    /\ <<"stop">> \in Seq(Calm) /\ <<"created">> \in Seq(Calm)
    /\ EndsWithTerminal(<<"terminal">>)
    /\ EndsWithTerminal(<<"event", "terminal">>)
    /\ EndsWithTerminal(<<"stop", "event", "event", "event", "terminal">>)
BY DEF Calm, Kinds, EndsWithTerminal

LEMMA CleanupCalm ==
    ASSUME NEW t
    PROVE  CleanupEvents(t) \in Seq(Calm) /\ Tail(CleanupEvents(t)) \in Seq(Calm)
<1> DEFINE a == <<"event", "event">>
           b == IF t.staged > 0 THEN <<"event">> ELSE <<>>
           c == IF t.workspace THEN <<"event">> ELSE <<>>
<1>1. a \in Seq(Calm) /\ b \in Seq(Calm) /\ c \in Seq(Calm) /\ Len(a) = 2
  BY Tuples
<1>2. CleanupEvents(t) = a \o b \o c
  BY DEF CleanupEvents
<1> HIDE DEF a, b, c
<1>3. a \o b \in Seq(Calm) /\ Len(a \o b) >= 2
  BY <1>1, Joined
<1>4. a \o b \o c \in Seq(Calm) /\ Len(a \o b \o c) >= 2
  <2>1. Len(a \o b \o c) >= Len(a \o b) /\ Len(a \o b) \in Nat /\ Len(a \o b \o c) \in Nat
    BY <1>1, <1>3, Joined, LenProperties
  <2> QED
    BY <1>1, <1>3, <2>1, Joined
<1>5. CleanupEvents(t) # <<>>
  BY <1>2, <1>4, EmptySeq
<1> QED
  BY <1>2, <1>4, <1>5, HeadTailProperties

LEMMA Appended ==
    ASSUME NEW s \in Seq(Calm), NEW kind \in Calm
    PROVE  Append(s, kind) \in Seq(Calm) /\ Len(Append(s, kind)) >= Len(s)
BY AppendProperties, LenProperties

(***************************************************************************)
(* The task.  While it runs, what is staged follows from its place: nothing *)
(* before the rows, one row for every await there, every fact at the lines. *)
(***************************************************************************)
Records ==
    [status : {"running"} \cup Terminal, at : 0 .. Lines, left : Nat, over : BOOLEAN, facts : Nat,
     staged : Nat, committed : Nat, workspace : BOOLEAN, published : BOOLEAN]

InPlace(t) ==
    /\ t \in Records
    /\ t.status = "running" /\ ~t.over
    /\ t.committed = 0 /\ ~t.published
    /\ t.at = 0 => ~t.workspace
    /\ t.at <= Len(Script) => t.staged = 0
    /\ t.at = Rows => t.staged + t.left = t.facts + 1
    /\ t.at = Lines => t.staged = t.facts

Settled(t) ==
    /\ t \in Records
    /\ t.status \in Terminal
    /\ t.staged = 0 /\ ~t.workspace
    /\ t.status = "cancelled" => t.committed = 0 /\ ~t.published
    /\ t.status = "completed" => t.committed = t.facts /\ t.published

Sound ==
    /\ marked \in BOOLEAN /\ asked \in BOOLEAN /\ handle \in {"new", "started", "gone"}
    /\ faults \in 0 .. MaxFaults /\ stops \in 0 .. MaxStops
    /\ task.status = "running" =>
          /\ InPlace(task) /\ log \in Seq(Calm) /\ Len(log) > 0
          /\ handle = "new" <=> task.at = 0
          /\ handle # "gone" /\ (task.at = 0 => ~asked)
    /\ task.status # "running" =>
          /\ Settled(task) /\ EndsWithTerminal(log)
          /\ ~task.over => task.at = 0 /\ asked

\* What a step of the coroutine makes of a running task and its log.
GoesOn == InPlace(task') /\ log' \in Seq(Calm) /\ Len(log') >= Len(log)

ComesToEnd ==
    /\ Settled(task') /\ task'.over
    /\ EndsWithTerminal(log') /\ Len(log') >= Len(log)

LEMMA ScriptTyped ==
    /\ Len(Script) \in Nat
    /\ \A n \in 1 .. Len(Script) : Script[n].awaits \in Nat /\ Script[n].facts \in Nat
    /\ Rows \in Nat /\ Lines \in Nat /\ Rows = Len(Script) + 1 /\ Lines = Len(Script) + 2
    /\ Header \in Nat
<1> DEFINE Actions == [awaits : Nat \ {0}, facts : Nat, streams : BOOLEAN]
<1>1. Script \in Seq(Actions)
  BY CancelTaskAssumption
<1> HIDE DEF Actions
<1>2. Len(Script) \in Nat /\ \A n \in 1 .. Len(Script) : Script[n] \in Actions
  BY <1>1, LenProperties, ElementOfSeq
<1> QED
  BY <1>2, CancelTaskAssumption DEF Rows, Lines, Actions

LEMMA ShutDownEnds ==
    ASSUME NEW t \in Records, t.committed = 0, ~t.published, log \in Seq(Calm),
           NEW events \in Seq(Calm), ShutDown(t, events)
    PROVE  ComesToEnd
<1>1. Settled(task') /\ task'.over
  BY DEF ShutDown, Ends, Cleaned, Settled, Records, Terminal
<1>2. /\ log \o events \o CleanupEvents(t) \in Seq(Calm)
      /\ Len(log \o events \o CleanupEvents(t)) >= Len(log)
  BY JoinedTwice, CleanupCalm
<1>3. log' = (log \o events \o CleanupEvents(t)) \o <<"event", "terminal">>
  BY DEF ShutDown
<1>4. EndsWithTerminal(log') /\ Len(log') >= Len(log \o events \o CleanupEvents(t))
  BY <1>2, <1>3, Ended, Tuples
<1>5. Len(log') >= Len(log)
  BY <1>2, <1>4, LenProperties DEF EndsWithTerminal
<1> QED
  BY <1>1, <1>4, <1>5 DEF ComesToEnd

LEMMA FailsEnds ==
    ASSUME NEW t \in Records, log \in Seq(Calm), NEW events \in Seq(Calm), Fails(t, events)
    PROVE  ComesToEnd
<1>1. Settled(task') /\ task'.over
  BY DEF Fails, Ends, Cleaned, Settled, Records, Terminal
<1>2. /\ log \o events \o Tail(CleanupEvents(t)) \in Seq(Calm)
      /\ Len(log \o events \o Tail(CleanupEvents(t))) >= Len(log)
  BY JoinedTwice, CleanupCalm
<1>3. log' = (log \o events \o Tail(CleanupEvents(t))) \o <<"terminal">>
  BY DEF Fails
<1>4. EndsWithTerminal(log') /\ Len(log') >= Len(log \o events \o Tail(CleanupEvents(t)))
  BY <1>2, <1>3, Ended, Tuples
<1>5. Len(log') >= Len(log)
  BY <1>2, <1>4, LenProperties DEF EndsWithTerminal
<1> QED
  BY <1>1, <1>4, <1>5 DEF ComesToEnd

\* A task may enter place n with what it has staged.
Ready(t, n) ==
    /\ t \in Records
    /\ t.status = "running" /\ ~t.over
    /\ t.committed = 0 /\ ~t.published
    /\ n \in 1 .. Lines
    /\ n <= Rows => t.staged = 0
    /\ n = Lines => t.staged = t.facts

LEMMA EntersSound ==
    ASSUME NEW t, NEW n, Ready(t, n), log \in Seq(Calm), NEW events \in Seq(Calm),
           Enters(t, n, events)
    PROVE  \/ ComesToEnd
           \/ GoesOn /\ task'.at = n
<1>1. CASE Boundary(n)
  BY <1>1, ShutDownEnds DEF Enters, Ready
<1>2. CASE ~Boundary(n)
  <2>1. AwaitsAt(t, n) \in Nat
    BY ScriptTyped DEF AwaitsAt, Ready, Records
  <2>2. n = Rows => AwaitsAt(t, n) = t.facts
    BY ScriptTyped DEF AwaitsAt
  <2>3. task' = [t EXCEPT !.at = n, !.left = AwaitsAt(t, n),
                          !.staged = IF n = Rows THEN 1 ELSE @]
    BY <1>2 DEF Enters
  <2>4. /\ task'.at = n /\ task'.left = AwaitsAt(t, n)
        /\ task'.staged = IF n = Rows THEN 1 ELSE t.staged
        /\ task'.status = "running" /\ task'.over = FALSE /\ task'.facts = t.facts
        /\ task'.committed = 0 /\ task'.published = FALSE /\ task'.workspace = t.workspace
    BY <2>3 DEF Ready, Records
  <2>5. task' \in Records
    <3> PICK k \in Nat : k = IF n = Rows THEN 1 ELSE t.staged
      BY DEF Ready, Records
    <3> PICK l \in Nat : l = AwaitsAt(t, n)
      BY <2>1
    <3>1. n \in 0 .. Lines /\ t \in Records
      BY ScriptTyped DEF Ready
    <3>2. task' = [t EXCEPT !.at = n, !.left = l, !.staged = k]
      BY <2>3
    <3> QED
      BY <3>1, <3>2 DEF Records
  <2>6. InPlace(task')
    BY <2>1, <2>2, <2>4, <2>5, ScriptTyped DEF InPlace, Ready, Records
  <2>7. log' \in Seq(Calm) /\ Len(log') >= Len(log)
    <3>1. PICK more \in Seq(Calm) : log' = log \o events \o more
      BY <1>2, Tuples DEF Enters
    <3> QED
      BY <3>1, JoinedTwice
  <2> QED
    BY <2>4, <2>6, <2>7 DEF GoesOn
<1> QED
  BY <1>1, <1>2

LEMMA SoundInit == Init => Sound
<1> SUFFICES ASSUME Init PROVE Sound
  OBVIOUS
<1>1. task \in Records
  BY ScriptTyped DEF Init, TaskInit, Records
<1>2. InPlace(task)
  BY <1>1, ScriptTyped DEF Init, TaskInit, InPlace
<1>3. log \in Seq(Calm) /\ Len(log) > 0
  BY Tuples DEF Init, TaskInit
<1>4. 0 \in 0 .. MaxFaults /\ 0 \in 0 .. MaxStops
  BY CancelTaskAssumption
<1> QED
  BY <1>2, <1>3, <1>4 DEF Init, TaskInit, Sound

\* The coroutine's step leaves a task that runs, or one that has come to its
\* end; the handle is started.
LEMMA StepSound ==
    ASSUME Sound, task.status = "running",
           handle' \in {handle, "started"}, UNCHANGED <<marked, stops>>,
           asked' = asked, faults' \in 0 .. MaxFaults,
           \/ ComesToEnd
           \/ GoesOn /\ (handle' = "new" <=> task'.at = 0) /\ (task'.at = 0 => task.at = 0)
    PROVE  Sound' /\ Len(log') >= Len(log)
<1>1. Len(log) \in Nat /\ Len(log) > 0
  BY LenProperties DEF Sound
<1>2. CASE ComesToEnd
  <2>1. task'.status # "running"
    BY <1>2 DEF ComesToEnd, Settled, Terminal
  <2> QED
    BY <1>2, <2>1 DEF ComesToEnd, Sound
<1>3. CASE GoesOn /\ (handle' = "new" <=> task'.at = 0) /\ (task'.at = 0 => task.at = 0)
  <2>1. task'.status = "running" /\ Len(log') \in Nat
    BY <1>3, LenProperties DEF GoesOn, InPlace
  <2>2. Len(log') > 0
    BY <1>1, <1>3, <2>1 DEF GoesOn
  <2> QED
    BY <1>3, <2>1, <2>2 DEF GoesOn, Sound
<1> QED
  BY <1>2, <1>3

LEMMA ResumesRunning ==
    ASSUME Sound, Resumes
    PROVE  /\ task.status = "running" /\ InPlace(task) /\ log \in Seq(Calm)
           /\ handle = "new" <=> task.at = 0
BY DEF Sound, Resumes

LEMMA BeginSound ==
    ASSUME Sound, Begin
    PROVE  Sound' /\ Len(log') >= Len(log)
<1>1. task.status = "running" /\ InPlace(task) /\ log \in Seq(Calm)
  BY ResumesRunning DEF Begin
<1>2. Ready([task EXCEPT !.workspace = TRUE], 1)
  <2> PICK t : t = [task EXCEPT !.workspace = TRUE]
    OBVIOUS
  <2>1. t \in Records /\ task \in Records
    BY <1>1 DEF InPlace, Records
  <2>2. /\ t.status = task.status /\ t.over = task.over /\ t.committed = task.committed
        /\ t.published = task.published /\ t.staged = task.staged
    BY <2>1 DEF Records
  <2>3. task.at = 0 /\ task.staged = 0
    BY <1>1, ScriptTyped DEF Begin, InPlace
  <2> QED
    BY <1>1, <2>1, <2>2, <2>3, ScriptTyped DEF InPlace, Ready
<1>3. ComesToEnd \/ (GoesOn /\ task'.at = 1)
  BY <1>1, <1>2, EntersSound, Tuples DEF Begin
<1> QED
  BY <1>1, <1>3, StepSound DEF Begin, Sound

LEMMA ContinuesSound ==
    ASSUME Sound, Continues
    PROVE  Sound' /\ Len(log') >= Len(log)
<1>1. task.status = "running" /\ InPlace(task) /\ log \in Seq(Calm)
  BY ResumesRunning DEF Continues
<1>2. task.left \in Nat /\ task.left > 1 /\ task.staged \in Nat
  BY <1>1 DEF Continues, InPlace, Records
<1>3. InPlace(task') /\ task'.at = task.at
  <2> PICK k \in Nat : k = IF task.at = Rows THEN task.staged + 1 ELSE task.staged
    BY <1>2
  <2>1. task' = [task EXCEPT !.left = task.left - 1, !.staged = k]
    BY DEF Continues
  <2>2. task' \in Records
    <3> PICK l \in Nat : l = task.left - 1
      BY <1>2
    <3> QED
      BY <1>1, <2>1 DEF InPlace, Records
  <2>3. /\ task'.at = task.at /\ task'.left = task.left - 1 /\ task'.staged = k
        /\ task'.status = "running" /\ task'.over = FALSE /\ task'.facts = task.facts
        /\ task'.committed = 0 /\ task'.published = FALSE /\ task'.workspace = task.workspace
    BY <1>1, <2>1 DEF InPlace, Records
  <2>4. task.facts \in Nat /\ task.at \in 0 .. Lines
    BY <1>1 DEF InPlace, Records
  <2> QED
    <3>1. CASE task.at = Rows
      <4>1. k = task.staged + 1 /\ task.staged + task.left = task.facts + 1 /\ Rows # Lines
        BY <1>1, <3>1, ScriptTyped DEF InPlace
      <4>2. k + (task.left - 1) = task.facts + 1
        BY <1>2, <2>4, <4>1
      <4> QED
        BY <1>1, <2>2, <2>3, <3>1, <4>1, <4>2, ScriptTyped DEF InPlace
    <3>2. CASE task.at # Rows
      BY <1>1, <2>2, <2>3, <3>2 DEF InPlace
    <3> QED
      BY <3>1, <3>2
<1>4. log' \in Seq(Calm) /\ Len(log') >= Len(log)
  <2>1. log' = Append(log, "event") \/ log' = log
    BY DEF Continues
  <2>2. "event" \in Calm
    BY DEF Calm, Kinds
  <2> QED
    BY <1>1, <2>1, <2>2, Appended, LenProperties
<1> QED
  BY <1>1, <1>3, <1>4, StepSound DEF Continues, Sound, GoesOn

LEMMA AdvancesSound ==
    ASSUME Sound, Advances
    PROVE  Sound' /\ Len(log') >= Len(log)
<1>1. task.status = "running" /\ InPlace(task) /\ log \in Seq(Calm)
  BY ResumesRunning DEF Advances
<1>2. task.left = 1 /\ task.at \in 1 .. Rows /\ task.facts \in Nat /\ task.staged \in Nat
  BY <1>1 DEF Advances, InPlace, Records
<1> PICK facts : facts = IF task.at <= Len(Script) THEN Script[task.at].facts ELSE 0
  OBVIOUS
<1>3. facts \in Nat
  BY <1>2, ScriptTyped
<1> PICK t : t = [task EXCEPT !.facts = task.facts + facts]
  OBVIOUS
<1>4. Enters(t, After(t, task.at), <<"event">>)
  BY DEF Advances
<1>5. t \in Records
  BY <1>1, <1>2, <1>3 DEF InPlace, Records
<1>6. /\ t.staged = task.staged /\ t.facts = task.facts + facts
      /\ t.status = "running" /\ ~t.over /\ t.committed = 0 /\ ~t.published
  BY <1>1 DEF InPlace, Records
<1>7. Ready(t, After(t, task.at))
  <2>1. CASE task.at = Rows
    <3>1. After(t, task.at) = Lines
      BY <2>1, ScriptTyped DEF After
    <3>2. t.staged = t.facts
      BY <1>1, <1>2, <1>6, <2>1, ScriptTyped DEF InPlace
    <3> QED
      BY <1>5, <1>6, <3>1, <3>2, ScriptTyped DEF Ready
  <2>2. CASE task.at # Rows
    <3>1. task.at \in 1 .. Len(Script) /\ t.staged = 0
      BY <1>1, <1>2, <1>6, <2>2, ScriptTyped DEF InPlace
    <3>2. CASE task.at = Len(Script) /\ t.facts = 0
      BY <1>5, <1>6, <3>1, <3>2, ScriptTyped DEF After, Ready
    <3>3. CASE ~(task.at = Len(Script) /\ t.facts = 0)
      BY <1>5, <1>6, <3>1, <3>3, ScriptTyped DEF After, Ready
    <3> QED
      BY <3>2, <3>3
  <2> QED
    BY <2>1, <2>2
<1>8. ComesToEnd \/ (GoesOn /\ task'.at = After(t, task.at))
  BY <1>1, <1>4, <1>7, EntersSound, Tuples
<1>9. After(t, task.at) # 0 /\ handle # "new"
  BY <1>2, <1>7, ResumesRunning DEF Ready, Advances
<1> QED
  BY <1>1, <1>8, <1>9, StepSound DEF Advances, Sound

LEMMA FinishesSound ==
    ASSUME Sound, Finishes
    PROVE  Sound' /\ Len(log') >= Len(log)
<1>1. task.status = "running" /\ InPlace(task) /\ log \in Seq(Calm)
  BY ResumesRunning DEF Finishes
<1>2. task' = Ends([task EXCEPT !.staged = 0, !.committed = task.staged, !.workspace = FALSE,
                                !.published = TRUE], "completed")
  BY DEF Finishes, Publishes
<1>3. Settled(task') /\ task'.over
  BY <1>1, <1>2 DEF Finishes, InPlace, Ends, Settled, Records, Terminal
<1>4. EndsWithTerminal(log') /\ Len(log') >= Len(log)
  BY <1>1, Ended, Tuples DEF Finishes, Publishes
<1> QED
  BY <1>1, <1>3, <1>4, StepSound DEF Finishes, Sound, ComesToEnd

LEMMA BreaksSound ==
    ASSUME Sound, Breaks
    PROVE  Sound' /\ Len(log') >= Len(log)
<1>1. task.status = "running" /\ InPlace(task) /\ log \in Seq(Calm)
  BY ResumesRunning DEF Breaks
<1>2. [task EXCEPT !.staged = 0, !.committed = task.staged] \in Records /\ task \in Records
  BY <1>1 DEF InPlace, Records
<1>3. ComesToEnd
  BY <1>1, <1>2, FailsEnds, Tuples DEF Breaks
<1>4. handle' \in {handle, "started"} /\ faults' \in 0 .. MaxFaults
  BY CancelTaskAssumption DEF Breaks, Sound
<1> QED
  BY <1>1, <1>3, <1>4, StepSound DEF Breaks

LEMMA IsCancelledSound ==
    ASSUME Sound, IsCancelled
    PROVE  Sound' /\ Len(log') >= Len(log)
<1>1. CASE task.status = "running" /\ task.at # 0
  <2>1. ComesToEnd
    BY <1>1, ShutDownEnds, Tuples DEF IsCancelled, Sound, InPlace
  <2> QED
    BY <1>1, <2>1, StepSound DEF IsCancelled, Sound
<1>2. CASE task.status # "running" /\ task.at = 0
  <2>1. task' = [task EXCEPT !.over = TRUE] /\ log' = log /\ Settled(task)
    BY <1>2 DEF IsCancelled, Sound
  <2>2. Settled(task') /\ task'.over /\ task'.status = task.status
    BY <2>1 DEF Settled, Records
  <2>3. Len(log') >= Len(log)
    BY <1>2, <2>1 DEF Sound, EndsWithTerminal
  <2> QED
    BY <1>2, <2>1, <2>2, <2>3 DEF IsCancelled, Sound
<1>3. CASE task.status = "running" /\ task.at = 0
  BY <1>3 DEF IsCancelled, Sound
<1>4. task.status # "running" => task.at = 0
  BY DEF IsCancelled, Sound
<1> QED
  BY <1>1, <1>2, <1>3, <1>4

LEMMA UnregisterSound ==
    ASSUME Sound, Unregister
    PROVE  Sound' /\ Len(log') >= Len(log)
<1>1. Len(log) \in Nat
  BY LenProperties DEF Sound, EndsWithTerminal
<1>2. task.status # "running"
  BY DEF Unregister, Sound, InPlace
<1> QED
  BY <1>1, <1>2 DEF Unregister, Sound

LEMMA StopsSound ==
    ASSUME Sound, StopCooperatively \/ StopByForce
    PROVE  Sound' /\ Len(log') >= Len(log)
<1>1. task.status = "running" /\ InPlace(task) /\ log \in Seq(Calm) /\ stops' \in 0 .. MaxStops
  BY CancelTaskAssumption DEF StopCooperatively, StopByForce, Accepts, Sound
<1>2. /\ Append(log, "stop") \in Seq(Calm) /\ Len(Append(log, "stop")) >= Len(log)
      /\ Len(log) \in Nat /\ Len(log) > 0 /\ Len(Append(log, "stop")) \in Nat
  <2>1. "stop" \in Calm
    BY DEF Calm, Kinds
  <2> QED
    BY <1>1, <2>1, Appended, LenProperties DEF Sound
<1>3. CASE StopCooperatively
  BY <1>1, <1>2, <1>3 DEF StopCooperatively, Sound
<1>4. CASE StopByForce /\ handle # "new"
  BY <1>1, <1>2, <1>4 DEF StopByForce, Sound, InPlace
<1>5. CASE StopByForce /\ handle = "new"
  <2>1. task' = [task EXCEPT !.status = "cancelled"] /\ asked' /\ task.at = 0
    BY <1>1, <1>5 DEF StopByForce, Sound, InPlace
  <2>2. Settled(task') /\ task'.at = 0 /\ task'.status = "cancelled"
    BY <1>1, <2>1, ScriptTyped DEF InPlace, Settled, Records, Terminal
  <2>3. EndsWithTerminal(log') /\ Len(log') >= Len(log)
    BY <1>1, <1>5, Ended, Tuples DEF StopByForce
  <2> QED
    BY <1>1, <1>5, <2>1, <2>2, <2>3 DEF StopByForce, Sound
<1> QED
  BY <1>3, <1>4, <1>5

\* A step of the task keeps Sound, and the log only grows.
LEMMA TaskStepSound ==
    ASSUME Sound, TaskStep
    PROVE  Sound' /\ Len(log') >= Len(log)
BY BeginSound, ContinuesSound, AdvancesSound, FinishesSound, IsCancelledSound, BreaksSound,
   UnregisterSound, StopsSound DEF TaskStep, CoroutineStep

LEMMA TaskStaysSound ==
    ASSUME Sound, UNCHANGED taskVars
    PROVE  Sound' /\ log' = log
BY DEF taskVars, Sound, InPlace, Settled, EndsWithTerminal

LEMMA SoundNext == Sound /\ [Next]_vars => Sound'
<1> SUFFICES ASSUME Sound, [Next]_vars PROVE Sound'
  OBVIOUS
<1>1. TaskStep \/ UNCHANGED taskVars
  BY DEF Next, vars, Subscribes, ConnStep, Replays, GoesLive, Takes, Disconnects
<1> QED
  BY <1>1, TaskStepSound, TaskStaysSound

LEMMA AlwaysSound == Spec => []Sound
BY SoundInit, SoundNext, PTL DEF Spec

\* However often and wherever a task is stopped, nothing it staged is left, a
\* cancelled one has committed and published nothing, a completed one everything.
THEOREM NothingIsLeft == Spec => []EndLeavesNothing
<1>1. Sound => EndLeavesNothing
  BY DEF Sound, InPlace, Settled, EndLeavesNothing
<1> QED
  BY <1>1, AlwaysSound, PTL

\* The log of a task has one terminal event, at its end, from the step on that
\* gives the task its final status.
THEOREM OneTerminalEvent == Spec => []TerminalIsLast
<1>1. Sound => TerminalIsLast
  <2> SUFFICES ASSUME Sound, NEW i \in DOMAIN log
               PROVE  log[i] = "terminal" <=> i = Len(log) /\ task.status # "running"
    BY DEF TerminalIsLast
  <2>1. CASE task.status = "running"
    <3>1. log \in Seq(Calm)
      BY <2>1 DEF Sound
    <3>2. log[i] \in Calm
      BY <3>1, LenProperties, ElementOfSeq
    <3> QED
      BY <2>1, <3>2 DEF Calm
  <2>2. CASE task.status # "running"
    <3>1. EndsWithTerminal(log)
      BY <2>2 DEF Sound
    <3>2. DOMAIN log = 1 .. Len(log)
      BY <3>1, LenProperties DEF EndsWithTerminal
    <3> QED
      BY <2>2, <3>1, <3>2 DEF EndsWithTerminal
  <2> QED
    BY <2>1, <2>2
<1> QED
  BY <1>1, AlwaysSound, PTL

(***************************************************************************)
(* The connections.  A queue begins where the history that was read ends,  *)
(* and what is sent is always the event before the one to come.            *)
(***************************************************************************)
Replaying(k) ==
    /\ k.queue = k.end + 1 /\ k.end <= Len(log)
    /\ 1 <= k.first /\ k.first <= k.end
    /\ k.first <= k.next /\ k.next <= k.end + 1
    /\ k.sent = IF k.next = k.first THEN 0 ELSE k.next - 1

Following(k) ==
    /\ 1 <= k.first /\ k.first < k.queue /\ k.queue <= Len(log) + 1
    /\ k.sent = k.queue - 1

ConnRecords ==
    [st : {"off", "replay", "live", "over"}, next : Nat, end : Nat, queue : Nat, first : Nat,
     sent : Nat]

ConnTyped ==
    /\ conn \in [Conns -> ConnRecords]
    /\ breaks \in 0 .. MaxBreaks

Joining ==
    /\ ConnTyped
    /\ \A c \in Conns : /\ conn[c].st = "replay" => Replaying(conn[c])
                        /\ conn[c].st = "live" => Following(conn[c])

LEMMA LogLength ==
    ASSUME Sound
    PROVE  /\ Len(log) \in Nat \ {0}
           /\ Oldest \in 1 .. Len(log)
<1>1. Len(log) \in Nat /\ Len(log) > 0
  BY LenProperties DEF Sound, EndsWithTerminal
<1> QED
  BY <1>1, GracefulCancelAssumption DEF Oldest

LEMMA JoiningInit == Init => Joining
BY GracefulCancelAssumption DEF Init, Off, Joining, ConnTyped, ConnRecords

AfterReplay(k, n, st) == [k EXCEPT !.sent = n, !.st = st, !.next = n + 1]

AfterTake(k, n, st) == [k EXCEPT !.sent = n, !.st = st, !.queue = n + 1]

LEMMA ReplayedRecord ==
    ASSUME NEW k \in ConnRecords, NEW n \in Nat, NEW st \in {"off", "replay", "live", "over"}
    PROVE  /\ AfterReplay(k, n, st) \in ConnRecords
           /\ AfterReplay(k, n, st).st = st /\ AfterReplay(k, n, st).sent = n
           /\ AfterReplay(k, n, st).next = n + 1 /\ AfterReplay(k, n, st).end = k.end
           /\ AfterReplay(k, n, st).queue = k.queue /\ AfterReplay(k, n, st).first = k.first
<1> PICK m \in Nat : m = n + 1
  OBVIOUS
<1>1. AfterReplay(k, n, st) = [k EXCEPT !.sent = n, !.st = st, !.next = m]
  BY DEF AfterReplay
<1> QED
  BY <1>1 DEF ConnRecords

LEMMA TakenRecord ==
    ASSUME NEW k \in ConnRecords, NEW n \in Nat, NEW st \in {"off", "replay", "live", "over"}
    PROVE  /\ AfterTake(k, n, st) \in ConnRecords
           /\ AfterTake(k, n, st).st = st /\ AfterTake(k, n, st).sent = n
           /\ AfterTake(k, n, st).queue = n + 1 /\ AfterTake(k, n, st).first = k.first
<1> PICK m \in Nat : m = n + 1
  OBVIOUS
<1>1. AfterTake(k, n, st) = [k EXCEPT !.sent = n, !.st = st, !.queue = m]
  BY DEF AfterTake
<1> QED
  BY <1>1 DEF ConnRecords

\* One connection moves on, and stays in step with its queue.
LEMMA ConnMoves ==
    ASSUME Joining, log' = log, breaks' = breaks, NEW c \in Conns, NEW x \in ConnRecords,
           conn' = [conn EXCEPT ![c] = x],
           x.st = "replay" => Replaying(x),
           x.st = "live" => Following(x)
    PROVE  Joining' /\ conn'[c] = x /\ \A d \in Conns \ {c} : conn'[d] = conn[d]
BY DEF Joining, ConnTyped, Replaying, Following

\* What NothingMissed says of the step that turns k into x.
InOrder(k, x) ==
    x.sent # k.sent /\ x.sent # 0 =>
       /\ x.sent = IF k.sent = 0 THEN k.first ELSE k.sent + 1
       /\ x.st = "over" <=> log[x.sent] = "terminal"

LEMMA ReplaysJoins ==
    ASSUME Sound, Joining, NEW c \in Conns, Replays(c)
    PROVE  Joining' /\ InOrder(conn[c], conn'[c]) /\ \A d \in Conns \ {c} : conn'[d] = conn[d]
<1>1. PICK k \in ConnRecords : k = conn[c]
  BY DEF Joining, ConnTyped
<1>2. PICK n \in Nat : n = k.next
  BY DEF ConnRecords
<1>3. PICK st \in {"off", "replay", "live", "over"} :
         st = IF log[n] = "terminal" THEN "over" ELSE "replay"
  OBVIOUS
<1>4. PICK x : x = AfterReplay(k, n, st)
  OBVIOUS
<1>5. /\ x \in ConnRecords
      /\ x.st = st /\ x.sent = n
      /\ x.next = n + 1 /\ x.end = k.end
      /\ x.queue = k.queue /\ x.first = k.first
  <2>1. /\ AfterReplay(k, n, st) \in ConnRecords
        /\ AfterReplay(k, n, st).st = st /\ AfterReplay(k, n, st).sent = n
        /\ AfterReplay(k, n, st).next = n + 1 /\ AfterReplay(k, n, st).end = k.end
        /\ AfterReplay(k, n, st).queue = k.queue /\ AfterReplay(k, n, st).first = k.first
    BY ReplayedRecord, ZenonT(60)
  <2> QED
    BY <1>4, <2>1
<1>6. k.st = "replay" /\ Replaying(k) /\ n <= k.end /\ UNCHANGED <<log, breaks>>
  BY <1>1, <1>2 DEF Replays, Joining, taskVars
<1>7. conn' = [conn EXCEPT ![c] = x]
  <2>1. [Sent(c, n) EXCEPT !.next = @ + 1] = x
    BY <1>1, <1>2, <1>3, <1>4, <1>6 DEF Sent, ConnRecords, AfterReplay
  <2> QED
    BY <1>1, <1>2, <2>1 DEF Replays
<1>8. k.first \in Nat /\ k.end \in Nat /\ k.queue \in Nat /\ k.sent \in Nat /\ Len(log) \in Nat
  BY LogLength DEF ConnRecords
<1>9. Replaying(x)
  BY <1>2, <1>5, <1>6, <1>8 DEF Replaying
<1>10. InOrder(k, x)
  <2>1. n = IF k.sent = 0 THEN k.first ELSE k.sent + 1
    <3>1. CASE n = k.first
      BY <1>2, <1>6, <1>8, <3>1 DEF Replaying
    <3>2. CASE n # k.first
      <4>1. k.sent = n - 1 /\ 1 <= k.first /\ k.first <= n
        BY <1>2, <1>6, <1>8, <3>2 DEF Replaying
      <4> QED
        BY <1>8, <3>2, <4>1
    <3> QED
      BY <3>1, <3>2
  <2>2. st = "over" <=> log[n] = "terminal"
    BY <1>3
  <2> QED
    BY <1>5, <2>1, <2>2 DEF InOrder
<1>11. st # "live"
  BY <1>3
<1> QED
  BY <1>1, <1>5, <1>6, <1>7, <1>9, <1>10, <1>11, ConnMoves

LEMMA TakesJoins ==
    ASSUME Sound, Joining, NEW c \in Conns, Takes(c)
    PROVE  Joining' /\ InOrder(conn[c], conn'[c]) /\ \A d \in Conns \ {c} : conn'[d] = conn[d]
<1>1. PICK k \in ConnRecords : k = conn[c]
  BY DEF Joining, ConnTyped
<1>2. PICK n \in Nat : n = k.queue
  BY DEF ConnRecords
<1>3. PICK st \in {"off", "replay", "live", "over"} :
         st = IF log[n] = "terminal" THEN "over" ELSE "live"
  OBVIOUS
<1>4. PICK x : x = AfterTake(k, n, st)
  OBVIOUS
<1>5. x \in ConnRecords /\ x.st = st /\ x.sent = n /\ x.queue = n + 1 /\ x.first = k.first
  BY <1>4, TakenRecord, ZenonT(60)
<1>6. k.st = "live" /\ Following(k) /\ n <= Len(log) /\ UNCHANGED <<log, breaks>>
  BY <1>1, <1>2 DEF Takes, Joining, taskVars
<1>7. k.first \in Nat /\ k.sent \in Nat /\ Len(log) \in Nat
  BY LogLength DEF ConnRecords
<1>8. 1 <= k.first /\ k.first < n /\ k.sent = n - 1
  BY <1>2, <1>6 DEF Following
<1>9. conn' = [conn EXCEPT ![c] = x]
  <2>1. ~(n <= conn[c].sent)
    BY <1>1, <1>7, <1>8
  <2>2. [Sent(c, n) EXCEPT !.queue = n + 1] = x
    BY <1>1, <1>2, <1>3, <1>4, <1>6 DEF Sent, ConnRecords, AfterTake
  <2> QED
    BY <1>1, <1>2, <2>1, <2>2 DEF Takes
<1>10. Following(x)
  BY <1>5, <1>6, <1>7, <1>8 DEF Following
<1>11. InOrder(k, x)
  <2>1. n = k.sent + 1 /\ k.sent # 0
    BY <1>7, <1>8
  <2>2. st = "over" <=> log[n] = "terminal"
    BY <1>3
  <2> QED
    BY <1>5, <2>1, <2>2 DEF InOrder
<1>12. st # "replay"
  BY <1>3
<1> QED
  BY <1>1, <1>5, <1>6, <1>9, <1>10, <1>11, <1>12, ConnMoves

LEMMA GoesLiveJoins ==
    ASSUME Sound, Joining, NEW c \in Conns, GoesLive(c)
    PROVE  Joining' /\ InOrder(conn[c], conn'[c]) /\ \A d \in Conns \ {c} : conn'[d] = conn[d]
<1> PICK k \in ConnRecords : k = conn[c]
  BY DEF Joining, ConnTyped
<1> DEFINE x == [k EXCEPT !.st = "live"]
<1>1. conn' = [conn EXCEPT ![c] = x] /\ Replaying(k) /\ k.next > k.end /\ UNCHANGED <<log, breaks>>
  BY DEF GoesLive, Joining, taskVars
<1>2. x \in ConnRecords /\ x.st = "live"
      /\ x.queue = k.queue /\ x.first = k.first /\ x.sent = k.sent
  BY DEF ConnRecords
<1> HIDE DEF x
<1>3. Following(x)
  BY <1>1, <1>2, LogLength DEF Replaying, Following, ConnRecords
<1> QED
  BY <1>1, <1>2, <1>3, ConnMoves DEF InOrder

\* A connection that begins or breaks has sent nothing.
LEMMA ConnChangesJoin ==
    ASSUME Sound, Joining, NEW c \in Conns, Subscribes(c) \/ Disconnects(c)
    PROVE  /\ Joining'
           /\ conn'[c].sent = 0 /\ \A d \in Conns \ {c} : conn'[d] = conn[d]
<1>1. Len(log) \in Nat /\ Oldest \in 1 .. Len(log) /\ log' = log
  BY LogLength DEF Subscribes, Disconnects, taskVars
<1> DEFINE start == [st |-> "replay", next |-> Oldest, end |-> Len(log), queue |-> Len(log) + 1,
                     first |-> Oldest, sent |-> 0]
<1>2. PICK x \in {start, Off} : conn' = [conn EXCEPT ![c] = x]
  BY DEF Subscribes, Disconnects
<1>3. /\ x \in ConnRecords
      /\ x.sent = 0 /\ x.st \in {"off", "replay"} /\ (x.st = "replay" => Replaying(x))
  BY <1>1 DEF Off, Replaying, ConnRecords
<1>4. breaks' \in 0 .. MaxBreaks
  BY GracefulCancelAssumption DEF Subscribes, Disconnects, Joining, ConnTyped
<1> QED
  BY <1>1, <1>2, <1>3, <1>4 DEF Joining, ConnTyped, Replaying, Following

LEMMA LogGrowsJoining ==
    ASSUME Sound, Joining, Sound', Len(log') >= Len(log), UNCHANGED <<conn, breaks>>
    PROVE  Joining'
<1>1. Len(log) \in Nat /\ Len(log') \in Nat
  BY LenProperties DEF Sound, EndsWithTerminal
<1>2. ASSUME NEW c \in Conns
      PROVE  /\ conn'[c].st = "replay" => Replaying(conn[c])'
             /\ conn'[c].st = "live" => Following(conn[c])'
  BY <1>1 DEF Joining, ConnTyped, ConnRecords, Replaying, Following
<1> QED
  BY <1>2 DEF Joining, ConnTyped

LEMMA JoiningNext == Sound /\ Joining /\ [Next]_vars => Joining'
<1> SUFFICES ASSUME Sound, Joining, [Next]_vars PROVE Joining'
  OBVIOUS
<1>1. CASE TaskStep /\ UNCHANGED <<conn, breaks>>
  BY <1>1, TaskStepSound, LogGrowsJoining
<1>2. CASE UNCHANGED vars
  BY <1>2 DEF vars, taskVars, Joining, ConnTyped, Replaying, Following
<1> QED
  BY <1>1, <1>2, ReplaysJoins, GoesLiveJoins, TakesJoins, ConnChangesJoin DEF Next, ConnStep

LEMMA AlwaysJoining == Spec => []Joining
BY JoiningInit, JoiningNext, AlwaysSound, PTL DEF Spec

\* Every variable of the task and of its connections has its type.
THEOREM CancelTypeCorrect == Spec => []TypeOK
<1>1. Sound => TaskTypeOK
  BY CalmKinds DEF Sound, InPlace, Settled, EndsWithTerminal, TaskTypeOK, Records
<1>2. Sound /\ Joining => TypeOK
  BY <1>1 DEF Joining, ConnTyped, ConnRecords, TypeOK
<1> QED
  BY <1>2, AlwaysSound, AlwaysJoining, PTL

\* Every connection sends every event from its first one on, once and in order,
\* and is over exactly when it has sent the terminal event.
THEOREM NoEventMissed == Spec => NothingMissed
<1>1. Sound /\ Joining /\ [Next]_vars =>
         [\A c \in Conns : conn'[c].sent # conn[c].sent /\ conn'[c].sent # 0 =>
             /\ conn'[c].sent = IF conn[c].sent = 0 THEN conn[c].first ELSE conn[c].sent + 1
             /\ conn'[c].st = "over" <=> log[conn'[c].sent] = "terminal"]_vars
  <2> SUFFICES ASSUME Sound, Joining, Next, NEW c \in Conns,
                      conn'[c].sent # conn[c].sent, conn'[c].sent # 0
               PROVE  /\ conn'[c].sent = IF conn[c].sent = 0 THEN conn[c].first
                                                             ELSE conn[c].sent + 1
                      /\ conn'[c].st = "over" <=> log[conn'[c].sent] = "terminal"
    OBVIOUS
  <2>1. PICK d \in Conns : Subscribes(d) \/ ConnStep(d) \/ Disconnects(d)
    BY DEF Next
  <2>2. CASE d = c
    BY <2>1, <2>2, ReplaysJoins, GoesLiveJoins, TakesJoins, ConnChangesJoin DEF ConnStep, InOrder
  <2>3. CASE d # c
    BY <2>1, <2>3, ReplaysJoins, GoesLiveJoins, TakesJoins, ConnChangesJoin DEF ConnStep
  <2> QED
    BY <2>2, <2>3
<1> QED
  BY <1>1, AlwaysSound, AlwaysJoining, PTL DEF Spec, NothingMissed

(***************************************************************************)
(* The numbers.                                                            *)
(***************************************************************************)

\* What Euclid's division says of a quotient.
LEMMA Quotient ==
  ASSUME NEW a \in Nat, NEW b \in Nat, b > 0
  PROVE  /\ a \div b \in Nat
         /\ b * (a \div b) <= a
         /\ a < b * (a \div b) + b
  BY Z3

\* A share is a number of parts of the whole, and not nothing for a part that
\* is a fifth of the total or more.
LEMMA ShareBounds ==
  ASSUME NEW part \in Nat, NEW total \in Nat, total > 0, part <= total
  PROVE  /\ Share(part, total) \in 0 .. Whole
         /\ total <= 5 * part => Share(part, total) > 0
  <1> DEFINE q == Share(part, total)
  <1>1. /\ 4000 * part + total \in Nat /\ 2 * total \in Nat /\ 2 * total > 0
        /\ q = (4000 * part + total) \div (2 * total)
    BY DEF Share, Whole
  <1>0. q = Share(part, total)
    OBVIOUS
  <1> HIDE DEF q
  <1>2. q \in Nat /\ (2 * total) * q <= 4000 * part + total
        /\ 4000 * part + total < (2 * total) * q + 2 * total
    BY <1>1, Quotient
  <1>3. q <= 2000
    <2> SUFFICES ASSUME q > 2000 PROVE FALSE
      BY <1>2
    <2>1. PICK r \in Nat : q = 2001 + r
      <3>1. q - 2001 \in Nat /\ q = 2001 + (q - 2001)
        BY <1>2
      <3> QED
        BY <3>1
    <2>2. (2 * total) * q = 4002 * total + 2 * (total * r) /\ total * r \in Nat
      BY <2>1
    <2> QED
      BY <2>2, <1>2
  <1>4. ASSUME total <= 5 * part PROVE q > 0
    <2> SUFFICES ASSUME q = 0 PROVE FALSE
      BY <1>2
    <2>1. (2 * total) * q = 0
      OBVIOUS
    <2> QED
      BY <2>1, <1>2, <1>4
  <1> QED
    BY <1>0, <1>2, <1>3, <1>4 DEF Whole

LEMMA TotalBounds ==
  ASSUME NEW weight \in [Hypotheses -> Nat], NEW h \in Hypotheses, weight[h] > 0
  PROVE  /\ Total(weight) \in Nat /\ Total(weight) > 0
         /\ \A g \in Hypotheses : weight[g] <= Total(weight)
         /\ \E g \in Hypotheses : Total(weight) <= 5 * weight[g]
  <1>1. /\ weight["H_CONFIG"] \in Nat /\ weight["H_ENV"] \in Nat /\ weight["H_SOFTWARE"] \in Nat
        /\ weight["H_CASE"] \in Nat /\ weight["H_TOOL"] \in Nat
    BY DEF Hypotheses
  <1>2. Total(weight) \in Nat /\ \A g \in Hypotheses : weight[g] <= Total(weight)
    BY <1>1 DEF Total, Hypotheses
  <1>3. Total(weight) > 0
    BY <1>2, weight[h] \in Nat
  <1>4. \E g \in Hypotheses : Total(weight) <= 5 * weight[g]
    <2> SUFFICES ASSUME \A g \in Hypotheses : ~ (Total(weight) <= 5 * weight[g]) PROVE FALSE
      OBVIOUS
    <2> DEFINE a == weight["H_CONFIG"] b == weight["H_ENV"] c == weight["H_SOFTWARE"]
               d == weight["H_CASE"] e == weight["H_TOOL"]
    <2>1. Total(weight) = a + b + c + d + e
      BY DEF Total
    <2>2. /\ ~ (Total(weight) <= 5 * a) /\ ~ (Total(weight) <= 5 * b) /\ ~ (Total(weight) <= 5 * c)
          /\ ~ (Total(weight) <= 5 * d) /\ ~ (Total(weight) <= 5 * e)
      BY DEF Hypotheses
    <2>3. a \in Nat /\ b \in Nat /\ c \in Nat /\ d \in Nat /\ e \in Nat
      BY <1>1
    <2> HIDE DEF a, b, c, d, e
    <2> QED
      BY <2>1, <2>2, <2>3
  <1> QED
    BY <1>2, <1>3, <1>4

\* Beliefs that a normalisation may leave: numbers of parts of the whole, not
\* all of them nothing.
IsBelief(belief) ==
  /\ belief \in [Hypotheses -> 0 .. Whole]
  /\ \E h \in Hypotheses : belief[h] > 0

LEMMA NormalizedBelief ==
  ASSUME NEW weight \in [Hypotheses -> Nat], NEW h \in Hypotheses, weight[h] > 0
  PROVE  IsBelief(Normalized(weight))
  <1> DEFINE total == Total(weight)
  <1>1. total \in Nat /\ total > 0 /\ \A g \in Hypotheses : weight[g] <= total
    BY TotalBounds
  <1>2. PICK k \in Hypotheses : total <= 5 * weight[k]
    BY TotalBounds
  <1> HIDE DEF total
  <1>3. \A g \in Hypotheses : Share(weight[g], total) \in 0 .. Whole
    BY <1>1, ShareBounds
  <1>4. Share(weight[k], total) > 0
    BY <1>1, <1>2, ShareBounds
  <1>5. Normalized(weight) = [g \in Hypotheses |-> Share(weight[g], total)]
    BY DEF Normalized, total
  <1> QED
    BY <1>3, <1>4, <1>5 DEF IsBelief
(***************************************************************************)
(* What a mind may be.                                                     *)
(***************************************************************************)

LEMMA LikelihoodBounds ==
  ASSUME NEW check \in Checks, NEW outcome, NEW h \in Hypotheses
  PROVE  Likelihood(check, outcome, h) \in 1 .. 99
  <1>1. AnomalyLikelihood[check][h] \in 1 .. 99
    BY DEF Checks, Hypotheses, AnomalyLikelihood
  <1> QED
    BY <1>1 DEF Likelihood

LEMMA PriorBounds ==
  ASSUME NEW c \in Categories, NEW h \in Hypotheses
  PROVE  Priors[c][h] \in 1 .. 95
  BY DEF Categories, Hypotheses, Priors

LEMMA BeliefsAreNumbers ==
  ASSUME NEW belief \in [Hypotheses -> 0 .. Whole]
  PROVE  belief \in [Hypotheses -> Nat] /\ \A h \in Hypotheses : belief[h] \in Nat
  <1>1. 0 .. Whole \subseteq Nat
    BY DEF Whole
  <1>2. \A h \in Hypotheses : belief[h] \in 0 .. Whole
    OBVIOUS
  <1> QED
    BY <1>1, <1>2

\* The leader is one of the hypotheses, and no belief is higher.
LEMMA LeaderLeads ==
  ASSUME NEW m, m.belief \in [Hypotheses -> 0 .. Whole]
  PROVE  /\ Leader(m) \in Hypotheses
         /\ \A g \in Hypotheses : m.belief[Leader(m)] >= m.belief[g]
  <1>1. \E h \in Hypotheses : \A g \in Hypotheses : m.belief[h] >= m.belief[g]
    <2> DEFINE a == m.belief["H_CONFIG"] b == m.belief["H_ENV"] c == m.belief["H_SOFTWARE"]
               d == m.belief["H_CASE"] e == m.belief["H_TOOL"]
    <2>0. \A g \in Hypotheses : m.belief[g] \in Nat
      BY BeliefsAreNumbers
    <2>1. a \in Nat /\ b \in Nat /\ c \in Nat /\ d \in Nat /\ e \in Nat
      BY <2>0 DEF Hypotheses
    <2>2. /\ (a >= b /\ a >= c /\ a >= d /\ a >= e) => \A g \in Hypotheses : a >= m.belief[g]
          /\ (b >= a /\ b >= c /\ b >= d /\ b >= e) => \A g \in Hypotheses : b >= m.belief[g]
          /\ (c >= a /\ c >= b /\ c >= d /\ c >= e) => \A g \in Hypotheses : c >= m.belief[g]
          /\ (d >= a /\ d >= b /\ d >= c /\ d >= e) => \A g \in Hypotheses : d >= m.belief[g]
          /\ (e >= a /\ e >= b /\ e >= c /\ e >= d) => \A g \in Hypotheses : e >= m.belief[g]
      BY <2>1 DEF Hypotheses
    <2>3. \/ \A g \in Hypotheses : a >= m.belief[g]
          \/ \A g \in Hypotheses : b >= m.belief[g]
          \/ \A g \in Hypotheses : c >= m.belief[g]
          \/ \A g \in Hypotheses : d >= m.belief[g]
          \/ \A g \in Hypotheses : e >= m.belief[g]
      <3> HIDE DEF a, b, c, d, e
      <3> QED
        BY <2>1, <2>2
    <2> QED
      BY <2>3 DEF Hypotheses
  <1> QED
    BY <1>1 DEF Leader

LEMMA CappedBounds ==
  ASSUME NEW p \in 0 .. 95, NEW boost \in Nat
  PROVE  /\ Capped(p, boost) \in 0 .. 95 /\ Capped(p, boost) >= p
         /\ boost <= 95 => Capped(p, boost) >= boost
  BY DEF Capped

\* A mind as the hypothesis manager may hold it.
IsMind(m) == m \in Minds /\ IsBelief(m.belief)

LEMMA SeededMind ==
  ASSUME NEW c \in Categories, NEW known
  PROVE  /\ IsMind(Seeded(c, known))
         /\ Seeded(c, known).moved = {}
         /\ Seeded(c, known).support = [h \in Hypotheses |-> {}]
  <1> DEFINE prior == [h \in Hypotheses |-> IF h \in known THEN Capped(Priors[c][h], 35)
                                                          ELSE Priors[c][h]]
  <1>1. prior \in [Hypotheses -> 1 .. 95]
    BY PriorBounds DEF Capped
  <1>2. "H_ENV" \in Hypotheses
    BY DEF Hypotheses
  <1>3. Seeded(c, known) =
          [prior |-> prior, belief |-> Normalized(prior), support |-> [h \in Hypotheses |-> {}],
           contra |-> {}, moved |-> {}, decisive |-> {}]
    BY DEF Seeded
  <1> HIDE DEF prior
  <1>4. prior \in [Hypotheses -> Nat] /\ prior["H_ENV"] > 0 /\ prior \in [Hypotheses -> 0 .. 95]
    BY <1>1, <1>2
  <1>5. IsBelief(Normalized(prior))
    BY <1>2, <1>4, NormalizedBelief
  <1> QED
    BY <1>3, <1>4, <1>5 DEF IsMind, Minds, IsBelief

LEMMA HintedMind ==
  ASSUME NEW m, IsMind(m), NEW h \in Hypotheses
  PROVE  /\ IsMind(Hinted(m, h))
         /\ Hinted(m, h).moved = m.moved
         /\ Hinted(m, h).support = m.support
  <1> DEFINE raised == Capped(m.prior[h], 25)
             weight == [m.belief EXCEPT ![h] = Percent(raised)]
  <1>1. m.prior \in [Hypotheses -> 0 .. 95] /\ m.belief \in [Hypotheses -> 0 .. Whole]
    BY DEF IsMind, Minds
  <1>2. raised \in 0 .. 95 /\ raised >= 25
    <2>1. m.prior[h] \in 0 .. 95
      BY <1>1
    <2> QED
      BY <2>1, CappedBounds, 25 \in Nat, 25 <= 95
  <1>3. Percent(raised) \in Nat /\ Percent(raised) > 0
    BY <1>2 DEF Percent, Whole
  <1>4. Hinted(m, h) = [m EXCEPT !.prior[h] = raised, !.belief = Normalized(weight)]
    BY DEF Hinted
  <1>5. m \in Minds
    BY DEF IsMind
  <1> HIDE DEF raised
  <1>6. weight \in [Hypotheses -> Nat] /\ weight[h] > 0
    <2>1. m.belief \in [Hypotheses -> Nat]
      BY <1>1, BeliefsAreNumbers
    <2> QED
      BY <2>1, <1>3
  <1> HIDE DEF weight
  <1>7. IsBelief(Normalized(weight))
    BY <1>6, NormalizedBelief
  <1> DEFINE n == Hinted(m, h)
  <1>8. /\ n.prior = [m.prior EXCEPT ![h] = raised] /\ n.belief = Normalized(weight)
        /\ n.moved = m.moved /\ n.support = m.support /\ n.contra = m.contra
        /\ n.decisive = m.decisive
    BY <1>4, <1>5 DEF Minds
  <1>9. n \in Minds
    <2>1. n = [prior |-> n.prior, belief |-> n.belief, support |-> m.support,
               contra |-> m.contra, moved |-> m.moved, decisive |-> m.decisive]
      BY <1>4, <1>5 DEF Minds
    <2>2. n.prior \in [Hypotheses -> 0 .. 95]
      BY <1>1, <1>2, <1>8
    <2>3. n.belief \in [Hypotheses -> 0 .. Whole]
      BY <1>7, <1>8 DEF IsBelief
    <2> HIDE DEF n
    <2> QED
      BY <2>1, <2>2, <2>3, <1>5 DEF Minds
  <1> QED
    BY <1>7, <1>8, <1>9 DEF IsMind

\* Bayes' rule on a mind and a report: the beliefs remain beliefs, only the
\* result reported is added to what supports a hypothesis, and only when it
\* had something to say and was not a bare one.
LEMMA UpdatedMind ==
  ASSUME NEW m, IsMind(m), NEW check \in Checks, NEW outcome, NEW origin \in Origins
  PROVE  /\ IsMind(Updated(m, check, outcome, origin))
         /\ \A h \in Hypotheses :
              \/ Updated(m, check, outcome, origin).support[h] = m.support[h]
              \/ /\ Updated(m, check, outcome, origin).support[h] = m.support[h] \cup {<<check, origin>>}
                 /\ origin # "bare" /\ outcome \in {"ANOMALY", "NORMAL"}
  <1> DEFINE weight == [h \in Hypotheses |-> m.belief[h] * Likelihood(check, outcome, h)]
             after == Posterior(m, check, outcome)
  <1>0. m \in Minds /\ m.belief \in [Hypotheses -> 0 .. Whole]
    BY DEF IsMind, Minds
  <1>1. PICK k \in Hypotheses : m.belief[k] > 0
    BY DEF IsMind, IsBelief
  <1>2. \A h \in Hypotheses : m.belief[h] \in Nat /\ Likelihood(check, outcome, h) \in 1 .. 99
    BY <1>0, LikelihoodBounds, BeliefsAreNumbers
  <1>3. weight \in [Hypotheses -> Nat]
    BY <1>2
  <1>4. weight[k] > 0
    <2>1. \A x, y \in Nat : x > 0 /\ y > 0 => x * y > 0
      BY Z3
    <2> QED
      BY <1>1, <1>2, <2>1
  <1>5. after = Normalized(weight)
    BY DEF Posterior
  <1> HIDE DEF weight
  <1>6. IsBelief(after)
    BY <1>3, <1>4, <1>5, NormalizedBelief
  <1>7. CASE outcome \notin {"ANOMALY", "NORMAL"}
    BY <1>7 DEF Updated
  <1>8. CASE outcome \in {"ANOMALY", "NORMAL"}
    <2> DEFINE u == Updated(m, check, outcome, origin)
    <2>1. PICK contra \in SUBSET Hypotheses, moved \in SUBSET Hypotheses,
               decisive \in SUBSET Hypotheses :
            u = [m EXCEPT !.belief = after,
                   !.support = [h \in Hypotheses |->
                      IF after[h] - m.belief[h] >= AttachEpsilon /\ origin # "bare"
                      THEN m.support[h] \cup {<<check, origin>>} ELSE m.support[h]],
                   !.contra = contra, !.moved = moved, !.decisive = decisive]
      BY <1>0, <1>8 DEF Updated, Minds
    <2> HIDE DEF u, after
    <2>6. m.support \in [Hypotheses -> SUBSET (Checks \X Origins)]
      BY <1>0 DEF Minds
    <2>7. [h \in Hypotheses |-> IF after[h] - m.belief[h] >= AttachEpsilon /\ origin # "bare"
                              THEN m.support[h] \cup {<<check, origin>>} ELSE m.support[h]]
            \in [Hypotheses -> SUBSET (Checks \X Origins)]
      BY <2>6
    <2>2. u.belief = after /\ u \in Minds
      <3> DEFINE support == [h \in Hypotheses |->
                               IF after[h] - m.belief[h] >= AttachEpsilon /\ origin # "bare"
                               THEN m.support[h] \cup {<<check, origin>>} ELSE m.support[h]]
      <3>1. /\ support \in [Hypotheses -> SUBSET (Checks \X Origins)]
            /\ u = [m EXCEPT !.belief = after, !.support = support, !.contra = contra,
                             !.moved = moved, !.decisive = decisive]
        BY <2>1, <2>7
      <3> HIDE DEF support
      <3> QED
        BY <1>0, <1>6, <3>1 DEF Minds, IsBelief
    <2>3. u.support = [h \in Hypotheses |->
                      IF after[h] - m.belief[h] >= AttachEpsilon /\ origin # "bare"
                      THEN m.support[h] \cup {<<check, origin>>} ELSE m.support[h]]
      BY <1>0, <2>1 DEF Minds
    <2>4. IsMind(u)
      BY <1>6, <2>2 DEF IsMind
    <2>5. \A h \in Hypotheses : \/ u.support[h] = m.support[h]
                                \/ u.support[h] = m.support[h] \cup {<<check, origin>>} /\ origin # "bare"
      BY <2>3
    <2> QED
      BY <1>8, <2>4, <2>5 DEF u
  <1> QED
    BY <1>7, <1>8
(***************************************************************************)
(* What a plan may be.                                                     *)
(***************************************************************************)

\* A plan before anyone has validated it: any skill may be named in it.
Skills == Checks \cup RecoveryActions \cup {"shell_exec"}

PlanNodes == [id : Nat, skill : Skills, deps : SUBSET Nat, from : Nat, origin : Origins,
              layer : Nat]

IsPlan(plan) == plan \subseteq PlanNodes /\ IsFiniteSet(plan)

\* The image of a finite plan.
LEMMA PlanImage ==
  ASSUME NEW S, IsFiniteSet(S), NEW f \in [S -> PlanNodes]
  PROVE  /\ IsFiniteSet({f[x] : x \in S})
         /\ Cardinality({f[x] : x \in S}) \in Nat /\ Cardinality(S) \in Nat
         /\ Cardinality({f[x] : x \in S}) <= Cardinality(S)
  <1> DEFINE T == {f[x] : x \in S}
  <1>1. f \in Surjection(S, T)
    BY DEF Surjection
  <1> QED
    BY <1>1, FS_Surjection, FS_CardinalityType

LEMMA FewAreFinite ==
  \A a, b, c, d : /\ IsFiniteSet({a}) /\ IsFiniteSet({a, b})
                  /\ IsFiniteSet({a, b, c}) /\ IsFiniteSet({a, b, c, d})
  <1> TAKE a, b, c, d
  <1>1. IsFiniteSet({a})
    BY FS_Singleton
  <1>2. IsFiniteSet({a} \cup {b})
    BY <1>1, FS_AddElement
  <1>3. IsFiniteSet(({a} \cup {b}) \cup {c})
    BY <1>2, FS_AddElement
  <1>4. IsFiniteSet((({a} \cup {b}) \cup {c}) \cup {d})
    BY <1>3, FS_AddElement
  <1>5. /\ {a, b} = {a} \cup {b} /\ {a, b, c} = ({a} \cup {b}) \cup {c}
        /\ {a, b, c, d} = (({a} \cup {b}) \cup {c}) \cup {d}
    OBVIOUS
  <1> QED
    BY <1>1, <1>2, <1>3, <1>4, <1>5

LEMMA NodeIsPlanned ==
  /\ \A id \in Nat, skill \in Skills :
       /\ Node(id, skill, {}) \in PlanNodes
       /\ \A a \in Nat : Node(id, skill, {a}) \in PlanNodes
  /\ \A id \in Nat, skill \in Skills, from \in Nat :
       /\ [Node(id, skill, {}) EXCEPT !.from = from] \in PlanNodes
       /\ \A a, b \in Nat : [Node(id, skill, {a, b}) EXCEPT !.from = from] \in PlanNodes
  BY DEF Node, PlanNodes, Origins

LEMMA KnownSkills ==
  {"check_environment_state", "analyze_logs", "inspect_tool_records", "inspect_config",
   "validate_case_definition", "retrieve_raw_log", "restart_device", "shell_exec",
   "refresh_environment_state", "reallocate_environment"} \subseteq Skills
  BY DEF Skills, Checks, AnomalyLikelihood, RecoveryActions, Recoveries

LEMMA TemplatePlan ==
  ASSUME NEW c
  PROVE  IsPlan(Template(c))
  <1>1. /\ Node(1, "check_environment_state", {}) \in PlanNodes
        /\ Node(2, "analyze_logs", {}) \in PlanNodes
        /\ Node(3, "inspect_tool_records", {2}) \in PlanNodes
        /\ Node(4, "inspect_config", {}) \in PlanNodes
        /\ Node(1, "inspect_config", {}) \in PlanNodes
        /\ Node(2, "validate_case_definition", {}) \in PlanNodes
        /\ Node(3, "check_environment_state", {1}) \in PlanNodes
    BY NodeIsPlanned, KnownSkills
  <1> QED
    BY <1>1, FewAreFinite, FS_EmptySet DEF Template, IsPlan

\* A plan all of whose nodes are run.
IsFresh(plan) == \A n \in plan : n.origin = "run"

LEMMA TemplateIsFresh ==
  ASSUME NEW c
  PROVE  IsFresh(Template(c))
  BY DEF IsFresh, Template, Node

\* A trimmed plan reuses what the memory holds of its checks.
LEMMA TrimmedPlan ==
  ASSUME NEW plan, IsPlan(plan), IsFresh(plan), NEW memory \in Memories
  PROVE  /\ IsPlan(Trimmed(plan, memory))
         /\ \A n \in Trimmed(plan, memory) :
              n.origin # "run" => n.skill \in Cacheable /\ memory[n.skill] = n.origin
  <1> DEFINE Origin(n) == IF n.skill \in Cacheable THEN memory[n.skill] ELSE "run"
             f == [n \in plan |-> [n EXCEPT !.origin = Origin(n)]]
  <1>1. Trimmed(plan, memory) = {f[n] : n \in plan}
    BY DEF Trimmed
  <1>2. \A n \in plan : /\ f[n] \in PlanNodes /\ f[n].skill = n.skill
                        /\ f[n].origin = Origin(n)
    <2> TAKE n \in plan
    <2>1. n \in PlanNodes /\ f[n] = [n EXCEPT !.origin = Origin(n)]
      BY DEF IsPlan
    <2>2. Origin(n) \in Origins
      BY DEF Memories, Origins
    <2> HIDE DEF f, Origin
    <2> QED
      BY <2>1, <2>2 DEF PlanNodes
  <1>3. f \in [plan -> PlanNodes]
    BY <1>2
  <1> HIDE DEF f
  <1>4. IsFiniteSet({f[n] : n \in plan})
    BY <1>3, PlanImage DEF IsPlan
  <1> QED
    BY <1>1, <1>2, <1>4 DEF IsPlan

LEMMA ProposedPlan ==
  ASSUME NEW style \in DOMAIN Proposals
  PROVE  IsPlan(Proposals[style])
  <1>1. /\ IsPlan({Node(1, "check_environment_state", {}), Node(2, "inspect_config", {}),
                  [Node(3, "retrieve_raw_log", {1, 2}) EXCEPT !.from = 1]})
        /\ IsPlan({Node(1, "analyze_logs", {2}), Node(2, "check_environment_state", {1})})
        /\ IsPlan({Node(1, "check_environment_state", {}), Node(2, "restart_device", {1})})
        /\ IsPlan({Node(1, "shell_exec", {})})
        /\ IsPlan({Node(1, "check_environment_state", {}),
                   [Node(2, "inspect_tool_records", {}) EXCEPT !.from = 1]})
        /\ IsPlan({Node(1, "refresh_environment_state", {}),
                   Node(2, "reallocate_environment", {})})
    <2>1. /\ Node(1, "check_environment_state", {}) \in PlanNodes
          /\ Node(2, "inspect_config", {}) \in PlanNodes
          /\ [Node(3, "retrieve_raw_log", {1, 2}) EXCEPT !.from = 1] \in PlanNodes
          /\ Node(1, "analyze_logs", {2}) \in PlanNodes
          /\ Node(2, "check_environment_state", {1}) \in PlanNodes
          /\ Node(2, "restart_device", {1}) \in PlanNodes
          /\ Node(1, "shell_exec", {}) \in PlanNodes
          /\ [Node(2, "inspect_tool_records", {}) EXCEPT !.from = 1] \in PlanNodes
          /\ Node(1, "refresh_environment_state", {}) \in PlanNodes
          /\ Node(2, "reallocate_environment", {}) \in PlanNodes
      BY NodeIsPlanned, KnownSkills
    <2> QED
      BY <2>1, FewAreFinite DEF IsPlan
  <1>2. IsPlan({Node(i, "analyze_logs", {}) : i \in 1 .. 9})
    <2> DEFINE f == [i \in 1 .. 9 |-> Node(i, "analyze_logs", {})]
    <2>0. "analyze_logs" \in Skills /\ \A i \in 1 .. 9 : i \in Nat
      BY KnownSkills
    <2>1. \A i \in 1 .. 9 : f[i] \in PlanNodes
      BY <2>0, NodeIsPlanned
    <2>2. IsFiniteSet(1 .. 9)
      BY FS_Interval, 1 \in Int, 9 \in Int
    <2>4. {f[i] : i \in 1 .. 9} = {Node(i, "analyze_logs", {}) : i \in 1 .. 9}
      OBVIOUS
    <2>5. f \in [1 .. 9 -> PlanNodes]
      BY <2>1
    <2> HIDE DEF f
    <2>3. IsFiniteSet({f[i] : i \in 1 .. 9})
      BY <2>2, <2>5, PlanImage
    <2> QED
      BY <2>1, <2>3, <2>4 DEF IsPlan
  <1> QED
    <2>1. style \in {"valid", "cyclic", "unauthorized", "unknown_skill", "schema_mismatch",
                    "resource_conflict", "budget"}
      BY DEF Proposals
    <2>2. CASE style = "budget"
      BY <1>2, <2>2 DEF Proposals
    <2>3. CASE style = "valid"
      BY <1>1, <2>3 DEF Proposals
    <2>4. CASE style = "cyclic"
      BY <1>1, <2>4 DEF Proposals
    <2>5. CASE style = "unauthorized"
      BY <1>1, <2>5 DEF Proposals
    <2>6. CASE style = "unknown_skill"
      BY <1>1, <2>6 DEF Proposals
    <2>7. CASE style = "schema_mismatch"
      BY <1>1, <2>7 DEF Proposals
    <2>8. CASE style = "resource_conflict"
      BY <1>1, <2>8 DEF Proposals
    <2> QED
      BY <2>1, <2>2, <2>3, <2>4, <2>5, <2>6, <2>7, <2>8

LEMMA ProposedIsFresh ==
  ASSUME NEW style \in DOMAIN Proposals
  PROVE  IsFresh(Proposals[style])
  <1>1. style \in {"valid", "cyclic", "unauthorized", "unknown_skill", "schema_mismatch",
                  "resource_conflict", "budget"}
    BY DEF Proposals
  <1> QED
    BY <1>1 DEF Proposals, IsFresh, Node

LEMMA SinglePlan ==
  ASSUME NEW check \in Checks
  PROVE  IsPlan(Single(check)) /\ Cardinality(Single(check)) = 1 /\ IsFresh(Single(check))
  <1>1. Node(1, check, {}) \in PlanNodes
    BY NodeIsPlanned DEF Skills
  <1>2. IsFresh(Single(check))
    BY DEF Single, IsFresh, Node
  <1> QED
    BY <1>1, <1>2, FewAreFinite, FS_Singleton DEF Single, IsPlan

\* What the validator accepts names checks only, and can be paid for.
LEMMA ValidPlan ==
  ASSUME NEW plan, IsPlan(plan), NEW allowed, NEW used, IsValid(plan, allowed, used)
  PROVE  /\ \A n \in plan : n.skill \in Checks
         /\ ~ (used + Cardinality(plan) > MaxToolCalls)
  BY DEF IsValid, BadNodes, IsOverBudget

\* So does what its cuts leave.
LEMMA SanitizedPlan ==
  ASSUME NEW plan, IsPlan(plan), NEW allowed, NEW used \in Nat,
         Sanitized(plan, allowed, used) # {}
  PROVE  /\ IsPlan(Sanitized(plan, allowed, used)) /\ Sanitized(plan, allowed, used) \subseteq plan
         /\ \A n \in Sanitized(plan, allowed, used) : n.skill \in Checks
         /\ used + Cardinality(Sanitized(plan, allowed, used)) <= MaxToolCalls
  <1> DEFINE rest == Sanitized(plan, allowed, used)
  <1>1. rest \subseteq plan /\ ~ IsOverBudget(plan, used)
    BY DEF Sanitized
  <1>2. \A n \in rest : n.id \notin BadNodes(plan, allowed)
    BY DEF Sanitized
  <1>3. \A n \in rest : n.skill \in Checks
    BY <1>1, <1>2 DEF BadNodes
  <1> HIDE DEF rest
  <1>4. /\ IsFiniteSet(rest) /\ Cardinality(rest) <= Cardinality(plan)
        /\ Cardinality(rest) \in Nat /\ Cardinality(plan) \in Nat
    BY <1>1, FS_Subset, FS_CardinalityType DEF IsPlan
  <1>5. used + Cardinality(rest) <= MaxToolCalls
    BY <1>1, <1>4, PlanLimits DEF IsOverBudget
  <1> QED
    BY <1>1, <1>3, <1>4, <1>5 DEF IsPlan, rest

\* A first number of a kind, when there is one.
LEMMA FirstNumber ==
  ASSUME NEW S \in SUBSET Nat, NEW n \in S
  PROVE  \E k \in S : \A j \in S : k <= j
  <1>1. IsWellFoundedOn(OpToRel(<, Nat), Nat)
    BY NatLessThanWellFounded
  <1>2. PICK k \in S : \A j \in S : ~ (<<j, k>> \in OpToRel(<, Nat))
    BY <1>1, WFMin
  <1>3. \A j \in S : ~ (j < k)
    BY <1>2 DEF OpToRel
  <1> QED
    BY <1>3

\* The executor runs at most the nodes of the plan, each with the skill and the
\* origin it has there.
LEMMA ScheduledPlan ==
  ASSUME NEW plan, IsPlan(plan)
  PROVE  /\ IsPlan(Scheduled(plan))
         /\ Cardinality(Scheduled(plan)) \in Nat /\ Cardinality(plan) \in Nat
         /\ Cardinality(Scheduled(plan)) <= Cardinality(plan)
         /\ \A n \in Scheduled(plan) :
              \E p \in plan : n.skill = p.skill /\ n.origin = p.origin
  <1> DEFINE last == Cardinality(plan)
             ByNow(n, k) == n.id \in RunBy(plan, k)
             Layer(n) == CHOOSE k \in 0 .. last : ByNow(n, k) /\ \A j \in 0 .. k - 1 : ~ ByNow(n, j)
             kept == {n \in plan : ByNow(n, last)}
             f == [n \in kept |-> [n EXCEPT !.layer = Layer(n)]]
  <1>1. last \in Nat
    BY FS_CardinalityType DEF IsPlan
  <1>2. Scheduled(plan) = {f[n] : n \in kept}
    BY DEF Scheduled
  <1>3. /\ IsFiniteSet(kept) /\ Cardinality(kept) <= last /\ Cardinality(kept) \in Nat
    <2>1. kept \in SUBSET plan
      OBVIOUS
    <2> QED
      BY <2>1, FS_Subset, FS_CardinalityType DEF IsPlan
  <1>5. \A n \in kept : Layer(n) \in Nat
    <2> TAKE n \in kept
    <2> DEFINE S == {k \in 0 .. last : ByNow(n, k)}
    <2>1. S \in SUBSET Nat /\ last \in S
      BY <1>1
    <2>2. PICK k \in S : \A j \in S : k <= j
      BY <2>1, FirstNumber
    <2>3. k \in 0 .. last /\ ByNow(n, k)
      BY <2>2
    <2>4. \A j \in 0 .. k - 1 : ~ ByNow(n, j)
      <3> SUFFICES ASSUME NEW j \in 0 .. k - 1, ByNow(n, j) PROVE FALSE
        OBVIOUS
      <3>1. j \in 0 .. last /\ j < k
        BY <1>1, <2>3
      <3>2. j \in S
        BY <3>1
      <3> QED
        BY <2>2, <2>3, <3>1, <3>2
    <2>5. Layer(n) \in 0 .. last
      BY <2>3, <2>4
    <2> HIDE DEF Layer
    <2> QED
      BY <1>1, <2>5
  <1>6. \A n \in kept : f[n] \in PlanNodes /\ f[n].skill = n.skill /\ f[n].origin = n.origin
    <2> TAKE n \in kept
    <2>1. n \in PlanNodes
      BY DEF IsPlan
    <2>2. f[n] = [n EXCEPT !.layer = Layer(n)] /\ Layer(n) \in Nat
      BY <1>5
    <2> HIDE DEF f, Layer
    <2> QED
      BY <2>1, <2>2 DEF PlanNodes
  <1>7. \A n \in kept : n \in plan
    OBVIOUS
  <1>9. f \in [kept -> PlanNodes]
    BY <1>6
  <1> HIDE DEF kept, f
  <1>4. /\ IsFiniteSet({f[n] : n \in kept}) /\ Cardinality({f[n] : n \in kept}) \in Nat
        /\ Cardinality({f[n] : n \in kept}) <= Cardinality(kept)
    BY <1>3, <1>9, PlanImage
  <1> HIDE DEF last
  <1>8. last = Cardinality(plan)
    BY DEF last
  <1> QED
    BY <1>1, <1>2, <1>3, <1>4, <1>6, <1>7, <1>8 DEF IsPlan
(***************************************************************************)
(* The inductive invariant of an incident.                                 *)
(***************************************************************************)

\* What supports a hypothesis is evidence of this incident.
Thinks == IsMind(mind) /\ \A h \in Hypotheses : mind.support[h] \subseteq Evidence

\* A result that is not of a check run now is the one the cache holds.
Recalled(check, origin) == origin # "run" => check \in Cacheable /\ cache[check] = origin

\* What is still to be reused, and what was reused in this round, is from the
\* cache of the incident, and remains there.
Remembers ==
  /\ \A n \in todo : Recalled(n.skill, n.origin)
  /\ \A i \in 1 .. Len(seen) : Recalled(seen[i][1], seen[i][3])

\* Priors, experience and hints move nothing: before the first round is over
\* no belief counts as moved.
Unmoved == phase \in {"idle", "trace", "round"} /\ steps = 0 => mind.moved = {}

Closed == terminal # "NONE" <=> phase = "final"

Planned == IsFiniteSet(todo) /\ (phase # "checks" => todo = {} /\ seen = <<>>)

\* What is still to be run is paid for; a recovery pays as it goes.
Paid ==
  /\ phase \in {"idle", "trace", "round", "checks"} =>
       tries = 0 /\ calls + Cardinality(todo) <= MaxToolCalls
  /\ phase = "rerun" => tries <= MaxTries
  /\ tries <= MaxTries + 1
  /\ calls <= MaxToolCalls + tries

\* A sequence of actions that climbs the leader's ladder from its foot.
IsClimb(s) == Len(s) <= Len(Ladder) /\ \A i \in 1 .. Len(s) : s[i] = Ladder[i]

\* What its tier asks of an action.
Permitted(action) ==
  CASE Recoveries[action].tier = "R1" -> TRUE
    [] Recoveries[action].tier = "R2" -> Recoveries[action].permission \in permissions
    [] Recoveries[action].tier = "R3" -> action \in approved
    [] OTHER -> FALSE

Climbed ==
  /\ IsClimb(acted)
  /\ phase \in {"idle", "trace", "round", "checks"} => acted = <<>> /\ tried = <<>>
  /\ phase \in {"recovery", "rerun"} => acted = tried
  /\ acted # <<>> => mind.support[Leader(mind)] # {}
  /\ \A i \in 1 .. Len(acted) : Permitted(acted[i])

Well == phase = "rerun" \/ terminal = "RESOLVED" => world = "READY"

IncidentInv ==
  /\ IncidentTypeOK /\ Thinks /\ Remembers /\ Unmoved /\ Closed /\ Planned /\ Paid
  /\ ConclusionIsWarranted /\ Climbed /\ Well
LEMMA FreshMind ==
  /\ IsMind(Fresh) /\ Fresh.moved = {} /\ Fresh.support = [h \in Hypotheses |-> {}]
  /\ Leader(Fresh) \in Hypotheses
  <1>1. "UNKNOWN" \in Categories
    BY DEF Categories, Priors
  <1>2. /\ IsMind(Fresh) /\ Fresh.moved = {} /\ Fresh.support = [h \in Hypotheses |-> {}]
    BY <1>1, SeededMind DEF Fresh
  <1>3. Leader(Fresh) \in Hypotheses
    BY <1>2, LeaderLeads DEF IsMind, IsBelief
  <1> QED
    BY <1>2, <1>3

LEMMA LadderTyped ==
  ASSUME NEW h \in Hypotheses
  PROVE  /\ RecoveryLadder[h] \in Seq(RecoveryActions)
         /\ \A i, j \in 1 .. Len(RecoveryLadder[h]) :
              RecoveryLadder[h][i] = RecoveryLadder[h][j] => i = j
  <1>1. /\ {"refresh_environment_state", "reallocate_environment", "restart_device",
            "create_defect_report"} \subseteq RecoveryActions
    BY DEF RecoveryActions, Recoveries
  <1>2. CASE h = "H_ENV"
    BY <1>1, <1>2 DEF RecoveryLadder
  <1>3. CASE h = "H_TOOL"
    BY <1>1, <1>3 DEF RecoveryLadder
  <1>4. CASE h = "H_CONFIG" \/ h = "H_CASE"
    <2>1. RecoveryLadder[h] = <<>>
      BY <1>4 DEF RecoveryLadder
    <2> QED
      BY <2>1
  <1>5. CASE h = "H_SOFTWARE"
    BY <1>1, <1>5 DEF RecoveryLadder
  <1> QED
    BY <1>2, <1>3, <1>4, <1>5 DEF Hypotheses

\* A round that ends without a plan, and the gate that opens.
LEMMA UnplannedKeeps ==
  ASSUME IncidentInv, phase = "round", Unplanned,
         \/ Identifies /\ Arguable(mind)
         \/ Closes("UNRESOLVED")
  PROVE  IncidentInv'
  <1> USE DEF IncidentInv
  <1>1. /\ mind' = mind /\ steps' = steps /\ calls' = calls /\ tries' = tries /\ misses' = misses
        /\ executed' = executed /\ todo' = todo /\ seen' = seen /\ world' = world
        /\ tried' = tried /\ acted' = acted /\ permissions' = permissions
        /\ approved' = approved /\ cases' = cases /\ incidents' = incidents
        /\ hints' = hints /\ category' = category /\ cache' = cache
    BY DEF Unplanned, platform, context, usage
  <1>2. \/ phase' = "recovery" /\ terminal' = "NONE" /\ Arguable(mind)
        \/ phase' = "final" /\ terminal' = "UNRESOLVED"
    BY DEF Identifies, Closes, Closed
  <1>3. IncidentTypeOK'
    BY <1>1, <1>2 DEF IncidentTypeOK, Phases, Terminals
  <1>4. Thinks' /\ Remembers' /\ Unmoved' /\ Closed' /\ Planned' /\ Well'
    BY <1>1, <1>2 DEF Thinks, Evidence, Remembers, Recalled, Unmoved, Closed, Planned, Well
  <1>5. Paid'
    BY <1>1, <1>2 DEF Paid
  <1>6. ConclusionIsWarranted'
    <2>1. CASE phase' = "final"
      BY <1>2, <2>1 DEF ConclusionIsWarranted, Named
    <2>2. CASE Arguable(mind)
      <3>1. steps > 0
        BY <2>2 DEF Unmoved, Arguable, IncidentTypeOK
      <3> QED
        BY <1>1, <2>2, <3>1 DEF ConclusionIsWarranted, Arguable
    <2> QED
      BY <1>2, <2>1, <2>2
  <1>7. Climbed'
    BY <1>1, <1>2 DEF Climbed, IsClimb, Ladder, Permitted
  <1> QED
    BY <1>3, <1>4, <1>5, <1>6, <1>7

\* A plan of checks that can be paid for is begun.
LEMMA RunKeeps ==
  ASSUME IncidentInv, phase = "round", NEW plan, IsPlan(plan), \A n \in plan : n.skill \in Checks,
         \A n \in plan : Recalled(n.skill, n.origin),
         calls + Cardinality(plan) <= MaxToolCalls, Run(plan)
  PROVE  IncidentInv'
  <1> USE DEF IncidentInv
  <1>1. /\ mind' = mind /\ steps' = steps /\ calls' = calls /\ tries' = tries /\ misses' = misses
        /\ executed' = executed /\ world' = world
        /\ tried' = tried /\ acted' = acted /\ permissions' = permissions
        /\ approved' = approved /\ cases' = cases /\ incidents' = incidents
        /\ hints' = hints /\ category' = category /\ cache' = cache /\ terminal' = terminal
        /\ seen' = <<>> /\ phase' = "checks" /\ todo' = Scheduled(plan)
    BY DEF Run, platform, context, usage
  <1>2. /\ IsPlan(todo') /\ \A n \in todo' : n.skill \in Checks
        /\ Cardinality(todo') \in Nat /\ Cardinality(plan) \in Nat
        /\ Cardinality(todo') <= Cardinality(plan)
    BY <1>1, ScheduledPlan
  <1>3. todo' \subseteq Nodes
    BY <1>2 DEF IsPlan, PlanNodes, Nodes
  <1>4. IncidentTypeOK'
    BY <1>1, <1>3 DEF IncidentTypeOK, Phases
  <1>5. Thinks' /\ Unmoved' /\ Closed' /\ Planned' /\ Well'
    BY <1>1, <1>2 DEF Thinks, Evidence, Unmoved, Closed, Planned, Well, IsPlan
  <1>9. Remembers'
    <2>1. \A n \in todo' : Recalled(n.skill, n.origin)
      BY <1>1, ScheduledPlan
    <2> QED
      BY <1>1, <2>1 DEF Remembers, Recalled
  <1>6. Paid'
    <2>1. calls \in Nat /\ MaxToolCalls \in Nat
      BY PlanLimits DEF IncidentTypeOK
    <2>2. calls + Cardinality(todo') <= MaxToolCalls
      BY <1>2, <2>1
    <2> QED
      BY <1>1, <2>2 DEF Paid
  <1>7. ConclusionIsWarranted'
    BY <1>1 DEF ConclusionIsWarranted, Named, Closed
  <1>8. Climbed'
    BY <1>1 DEF Climbed, IsClimb, Ladder, Permitted
  <1> QED
    BY <1>4, <1>5, <1>6, <1>7, <1>8, <1>9

\* The planner's own check, when there is nothing else to run.
LEMMA FallsBackKeeps ==
  ASSUME IncidentInv, Plans, FallsBack
  PROVE  IncidentInv'
  <1>1. ASSUME NEW check \in Unexecuted, Run(Single(check)) PROVE IncidentInv'
    <2>1. check \in Checks
      BY <1>1 DEF Unexecuted, Relevant
    <2>2. /\ IsPlan(Single(check)) /\ Cardinality(Single(check)) = 1
          /\ \A n \in Single(check) : Recalled(n.skill, n.origin)
      BY <2>1, SinglePlan DEF IsFresh, Recalled
    <2>3. \A n \in Single(check) : n.skill \in Checks
      BY <2>1 DEF Single, Node
    <2>4. calls + 1 <= MaxToolCalls
      BY PlanLimits DEF Plans, Exhausted, IncidentInv, IncidentTypeOK
    <2> QED
      BY <1>1, <2>2, <2>3, <2>4, RunKeeps DEF Plans
  <1> QED
    BY <1>1, UnplannedKeeps DEF FallsBack, Plans

LEMMA AdoptKeeps ==
  ASSUME IncidentInv, Plans, NEW plan, IsPlan(plan), Adopt(plan),
         \A n \in plan : Recalled(n.skill, n.origin)
  PROVE  IncidentInv'
  <1>0. calls \in Nat /\ MaxToolCalls \in Nat /\ phase = "round"
    BY PlanLimits DEF IncidentInv, IncidentTypeOK, Plans
  <1>1. CASE IsValid(plan, permissions, calls) /\ Run(plan)
    <2>1. (\A n \in plan : n.skill \in Checks) /\ ~ (calls + Cardinality(plan) > MaxToolCalls)
      BY <1>1, ValidPlan
    <2>2. Cardinality(plan) \in Nat
      BY FS_CardinalityType DEF IsPlan
    <2> QED
      BY <1>0, <1>1, <2>1, <2>2, RunKeeps
  <1>2. CASE Sanitized(plan, permissions, calls) # {} /\ Run(Sanitized(plan, permissions, calls))
    BY <1>0, <1>2, SanitizedPlan, RunKeeps
  <1>3. CASE FallsBack
    BY <1>3, FallsBackKeeps
  <1> QED
    BY <1>1, <1>2, <1>3 DEF Adopt

LEMMA PlanningKeeps ==
  ASSUME IncidentInv,
         \/ Concludes \/ RunsOut \/ PlansByTemplate \/ PlansByModel \/ PlansDynamically \/ HasNoPlan
  PROVE  IncidentInv'
  <1>1. CASE Concludes
    BY <1>1, UnplannedKeeps DEF Concludes, ConclusionReady
  <1>2. CASE RunsOut
    BY <1>2, UnplannedKeeps DEF RunsOut
  <1>3. CASE PlansByTemplate
    <2>1. Adopt(Trimmed(Template(category), cache)) /\ Plans
      BY <1>3 DEF PlansByTemplate
    <2>2. /\ IsPlan(Trimmed(Template(category), cache))
          /\ \A n \in Trimmed(Template(category), cache) : Recalled(n.skill, n.origin)
      BY TemplatePlan, TemplateIsFresh, TrimmedPlan DEF IncidentInv, IncidentTypeOK, Recalled
    <2> QED
      BY <2>1, <2>2, AdoptKeeps
  <1>4. CASE PlansByModel
    <2>1. PICK style \in DOMAIN Proposals : Adopt(Proposals[style])
      BY <1>4 DEF PlansByModel
    <2>2. \A n \in Proposals[style] : Recalled(n.skill, n.origin)
      BY ProposedIsFresh DEF IsFresh, Recalled
    <2> QED
      BY <1>4, <2>1, <2>2, ProposedPlan, AdoptKeeps DEF PlansByModel
  <1>5. CASE PlansDynamically
    <2>1. PICK check \in Unexecuted : Adopt(Single(check))
      BY <1>5 DEF PlansDynamically
    <2>2. IsPlan(Single(check)) /\ \A n \in Single(check) : Recalled(n.skill, n.origin)
      BY SinglePlan DEF Unexecuted, Relevant, IsFresh, Recalled
    <2> QED
      BY <1>5, <2>1, <2>2, AdoptKeeps DEF PlansDynamically
  <1>6. CASE HasNoPlan
    BY <1>6, UnplannedKeeps DEF HasNoPlan, Plans
  <1> QED
    BY <1>1, <1>2, <1>3, <1>4, <1>5, <1>6
LEMMA StartKeeps ==
  ASSUME IncidentInv, Start
  PROVE  IncidentInv'
  <1> USE DEF IncidentInv
  <1>1. /\ phase = "idle" /\ incidents' = incidents + 1
        /\ world' \in {"READY", "NOT_READY", "INCONCLUSIVE"}
        /\ steps' = steps /\ calls' = calls /\ tries' = tries /\ misses' = misses
        /\ executed' = executed /\ todo' = todo /\ seen' = seen
        /\ tried' = tried /\ acted' = acted /\ permissions' = permissions
        /\ approved' = approved /\ cases' = cases
    BY DEF Start, usage
  <1>2. CASE /\ \E symptom \in Symptoms, known \in {{}, Verified} :
                  /\ category' = symptom[1]
                  /\ hints' = symptom[2]
                  /\ cache' = symptom[3]
                  /\ mind' = Seeded(symptom[1], known)
             /\ phase' = "trace" /\ UNCHANGED terminal
    <2>1. PICK c \in Categories, s \in Seq(Hypotheses), m \in Memories, known \in {{}, Verified} :
            category' = c /\ hints' = s /\ cache' = m /\ mind' = Seeded(c, known)
      BY <1>2, AgentLimits
    <2>2. /\ IsMind(mind') /\ mind'.moved = {} /\ mind'.support = [h \in Hypotheses |-> {}]
      BY <2>1, SeededMind
    <2>3. IncidentTypeOK'
      BY <1>1, <1>2, <2>1, <2>2 DEF IncidentTypeOK, Phases, IsMind
    <2>4. Thinks' /\ Remembers' /\ Unmoved' /\ Closed' /\ Planned' /\ Well'
      BY <1>1, <1>2, <2>2 DEF Thinks, Evidence, Remembers, Recalled, Unmoved, Closed, Planned, Well
    <2>5. Paid'
      BY <1>1, <1>2 DEF Paid
    <2>6. ConclusionIsWarranted'
      BY <1>1, <1>2 DEF ConclusionIsWarranted, Named, Closed
    <2>7. Climbed'
      <3>1. Leader(mind') \in Hypotheses
        BY <2>2, LeaderLeads DEF IsMind, IsBelief
      <3>2. RecoveryLadder[Leader(mind')] \in Seq(RecoveryActions)
        BY <3>1, LadderTyped
      <3>3. acted' = <<>> /\ tried' = <<>> /\ Len(acted') = 0
        BY <1>1 DEF Climbed
      <3> QED
        BY <1>2, <3>2, <3>3 DEF Climbed, IsClimb, Ladder, Permitted
    <2> QED
      BY <2>3, <2>4, <2>5, <2>6, <2>7
  <1>3. CASE Closes("INVALID_INPUT") /\ UNCHANGED <<hints, context, mind>>
    <2>1. IncidentTypeOK'
      BY <1>1, <1>3 DEF IncidentTypeOK, Phases, Terminals, Closes, context
    <2>2. Thinks' /\ Remembers' /\ Unmoved' /\ Closed' /\ Planned' /\ Well'
      BY <1>1, <1>3 DEF Thinks, Evidence, Remembers, Recalled, Unmoved, Closed, Planned, Well, Closes,
             context
    <2>3. Paid'
      BY <1>1, <1>3 DEF Paid, Closes
    <2>4. ConclusionIsWarranted'
      BY <1>1, <1>3 DEF ConclusionIsWarranted, Named, Closes
    <2>5. Climbed'
      BY <1>1, <1>3 DEF Climbed, IsClimb, Ladder, Permitted, Closes
    <2> QED
      BY <2>1, <2>2, <2>3, <2>4, <2>5
  <1> QED
    BY <1>2, <1>3 DEF Start

LEMMA TakesHintKeeps ==
  ASSUME IncidentInv, TakesHint
  PROVE  IncidentInv'
  <1> USE DEF IncidentInv
  <1>1. /\ phase = "trace" /\ phase' \in {"trace", "round"} /\ incidents' = incidents
        /\ steps' = steps /\ calls' = calls /\ tries' = tries /\ misses' = misses
        /\ executed' = executed /\ todo' = todo /\ seen' = seen /\ world' = world
        /\ tried' = tried /\ acted' = acted /\ permissions' = permissions
        /\ approved' = approved /\ cases' = cases /\ category' = category /\ cache' = cache
        /\ terminal' = terminal
    BY DEF TakesHint, platform, context, usage
  <1>2. /\ IsMind(mind') /\ mind'.moved = mind.moved /\ mind'.support = mind.support
        /\ hints' \in Seq(Hypotheses)
    <2>1. CASE hints # <<>>
      <3>1. Head(hints) \in Hypotheses /\ Tail(hints) \in Seq(Hypotheses)
        BY <2>1 DEF IncidentTypeOK
      <3>2. mind' = Hinted(mind, Head(hints)) /\ hints' = Tail(hints)
        BY <2>1 DEF TakesHint
      <3> QED
        BY <3>1, <3>2, HintedMind DEF Thinks
    <2>2. CASE hints = <<>>
      BY <2>2 DEF TakesHint, Thinks, IncidentTypeOK
    <2> QED
      BY <2>1, <2>2
  <1>3. IncidentTypeOK'
    BY <1>1, <1>2 DEF IncidentTypeOK, Phases, IsMind
  <1>4. Thinks' /\ Remembers' /\ Unmoved' /\ Closed' /\ Planned' /\ Well'
    BY <1>1, <1>2 DEF Thinks, Evidence, Remembers, Recalled, Unmoved, Closed, Planned, Well
  <1>5. Paid'
    BY <1>1 DEF Paid
  <1>6. ConclusionIsWarranted'
    BY <1>1 DEF ConclusionIsWarranted, Named, Closed
  <1>7. Climbed'
    <2>1. Leader(mind') \in Hypotheses
      BY <1>2, LeaderLeads DEF IsMind, IsBelief
    <2>2. RecoveryLadder[Leader(mind')] \in Seq(RecoveryActions)
      BY <2>1, LadderTyped
    <2>3. acted' = <<>> /\ tried' = <<>> /\ Len(acted') = 0
      BY <1>1 DEF Climbed
    <2> QED
      BY <1>1, <2>2, <2>3 DEF Climbed, IsClimb, Ladder, Permitted
  <1> QED
    BY <1>3, <1>4, <1>5, <1>6, <1>7

LEMMA RunNodeKeeps ==
  ASSUME IncidentInv, RunNode
  PROVE  IncidentInv'
  <1> USE DEF IncidentInv
  <1>1. /\ phase = "checks" /\ phase' = phase /\ mind' = mind /\ incidents' = incidents
        /\ steps' = steps /\ tries' = tries /\ hints' = hints
        /\ executed' = executed /\ world' = world
        /\ tried' = tried /\ acted' = acted /\ permissions' = permissions
        /\ approved' = approved /\ cases' = cases /\ category' = category /\ cache' = cache
        /\ terminal' = terminal
    BY DEF RunNode, platform, context
  <1>2. PICK node \in todo :
          /\ todo' = todo \ {node}
          /\ \E outcome \in Outcomes :
               /\ seen' = Append(seen, <<node.skill, outcome, node.origin>>)
               /\ calls' \in {calls, calls + 1}
               /\ misses' \in {misses, misses + 1}
    BY DEF RunNode, Reports, Outcomes
  <1>3. /\ IsFiniteSet(todo') /\ Cardinality(todo') = Cardinality(todo) - 1
        /\ Cardinality(todo) \in Nat
    BY <1>2, FS_RemoveElement, FS_CardinalityType DEF Planned
  <1>4. node.skill \in Checks /\ node.origin \in Origins /\ todo' \subseteq Nodes
    BY <1>2 DEF IncidentTypeOK, Nodes
  <1>5. seen' \in Seq(Checks \X Outcomes \X Origins) /\ calls' \in Nat /\ misses' \in Nat
    <2>1. PICK outcome \in Outcomes :
            seen' = Append(seen, <<node.skill, outcome, node.origin>>)
      BY <1>2
    <2>2. <<node.skill, outcome, node.origin>> \in Checks \X Outcomes \X Origins
      BY <1>4
    <2>3. seen \in Seq(Checks \X Outcomes \X Origins) /\ calls \in Nat /\ misses \in Nat
      BY DEF IncidentTypeOK
    <2> QED
      BY <1>2, <2>1, <2>2, <2>3
  <1>6. IncidentTypeOK'
    BY <1>1, <1>4, <1>5 DEF IncidentTypeOK
  <1>7. Thinks' /\ Unmoved' /\ Closed' /\ Planned' /\ Well'
    BY <1>1, <1>3 DEF Thinks, Evidence, Unmoved, Closed, Planned, Well
  <1>11. Remembers'
    <2>1. PICK outcome : seen' = Append(seen, <<node.skill, outcome, node.origin>>)
      BY <1>2
    <2>2. \A i \in 1 .. Len(seen') : Recalled(seen'[i][1], seen'[i][3])
      <3> TAKE i \in 1 .. Len(seen')
      <3>1. seen \in Seq(Checks \X Outcomes \X Origins) /\ Len(seen') = Len(seen) + 1
        BY <2>1 DEF IncidentTypeOK
      <3>2. CASE i \in 1 .. Len(seen)
        BY <2>1, <3>1, <3>2 DEF Remembers
      <3>3. CASE i = Len(seen) + 1
        <4>1. seen'[i] = <<node.skill, outcome, node.origin>>
          BY <2>1, <3>1, <3>3
        <4> QED
          BY <4>1 DEF Remembers
      <3> QED
        BY <3>1, <3>2, <3>3
    <2>3. \A n \in todo' : Recalled(n.skill, n.origin)
      BY <1>2 DEF Remembers
    <2> QED
      BY <1>1, <2>2, <2>3 DEF Remembers, Recalled
  <1>8. Paid'
    <2>1. calls \in Nat /\ calls' \in {calls, calls + 1} /\ MaxToolCalls \in Nat
      BY <1>2, PlanLimits DEF IncidentTypeOK
    <2>2. calls' + Cardinality(todo') <= MaxToolCalls /\ tries = 0
      BY <1>1, <1>3, <2>1 DEF Paid
    <2>3. Cardinality(todo') \in Nat /\ calls' \in Nat /\ MaxTries \in Nat
      BY <1>3, <1>5, FS_CardinalityType, AgentLimits
    <2>4. calls' <= MaxToolCalls + tries'
      BY <1>1, <2>1, <2>2, <2>3
    <2> QED
      BY <1>1, <2>2, <2>3, <2>4 DEF Paid
  <1>9. ConclusionIsWarranted'
    BY <1>1 DEF ConclusionIsWarranted, Named, Closed
  <1>10. Climbed'
    BY <1>1 DEF Climbed, IsClimb, Ladder, Permitted
  <1> QED
    BY <1>6, <1>7, <1>8, <1>9, <1>10, <1>11

LEMMA LearnKeeps ==
  ASSUME IncidentInv, Learn
  PROVE  IncidentInv'
  <1> USE DEF IncidentInv
  <1>1. /\ phase = "checks" /\ phase' = phase /\ incidents' = incidents
        /\ steps' = steps /\ tries' = tries /\ hints' = hints
        /\ calls' = calls /\ misses' = misses /\ todo' = todo /\ world' = world
        /\ tried' = tried /\ acted' = acted /\ permissions' = permissions
        /\ approved' = approved /\ cases' = cases /\ category' = category /\ cache' = cache
        /\ terminal' = terminal
    BY DEF Learn, platform, context, usage
  <1>2. PICK check \in Checks, outcome \in Outcomes, origin \in Origins :
          /\ mind' = Updated(mind, check, outcome, origin)
          /\ executed' = IF origin # "run" \/ outcome \in {"FAILED", "TIMED_OUT"}
                         THEN executed ELSE executed \cup {check}
          /\ seen' \in Seq(Checks \X Outcomes \X Origins)
          /\ Recalled(check, origin)
          /\ \A i \in 1 .. Len(seen') : Recalled(seen'[i][1], seen'[i][3])
    <2>1. seen \in Seq(Checks \X Outcomes \X Origins) /\ seen # <<>> /\ seen' = Tail(seen)
      BY DEF IncidentTypeOK, Learn
    <2>2. /\ Head(seen) \in Checks \X Outcomes \X Origins
          /\ Tail(seen) \in Seq(Checks \X Outcomes \X Origins)
      BY <2>1
    <2>3. Recalled(Head(seen)[1], Head(seen)[3])
      BY <2>1 DEF Remembers
    <2>4. \A i \in 1 .. Len(seen') : Recalled(seen'[i][1], seen'[i][3])
      <3> TAKE i \in 1 .. Len(seen')
      <3>1. i + 1 \in 1 .. Len(seen) /\ seen'[i] = seen[i + 1]
        BY <2>1
      <3> QED
        BY <3>1 DEF Remembers
    <2> QED
      BY <2>1, <2>2, <2>3, <2>4 DEF Learn
  <1>3. /\ IsMind(mind')
        /\ \A h \in Hypotheses :
             \/ mind'.support[h] = mind.support[h]
             \/ /\ mind'.support[h] = mind.support[h] \cup {<<check, origin>>}
                /\ origin # "bare" /\ outcome \in {"ANOMALY", "NORMAL"}
    BY <1>2, UpdatedMind DEF Thinks
  <1>4. executed \subseteq executed' /\ executed' \subseteq Checks
    BY <1>2 DEF IncidentTypeOK
  <1>5. Thinks'
    <2> SUFFICES ASSUME NEW h \in Hypotheses PROVE mind'.support[h] \subseteq Evidence'
      BY <1>3 DEF Thinks
    <2>1. mind.support[h] \subseteq Evidence'
      BY <1>1, <1>4 DEF Thinks, Evidence
    <2>2. CASE mind'.support[h] = mind.support[h] \cup {<<check, origin>>} /\ origin # "bare"
                 /\ outcome \in {"ANOMALY", "NORMAL"}
      <3>1. origin = "run" => check \in executed'
        BY <1>2, <2>2
      <3>2. <<check, origin>> \in Evidence'
        BY <1>1, <1>2, <2>2, <3>1 DEF Evidence, Recalled
      <3> QED
        BY <2>1, <2>2, <3>2
    <2> QED
      BY <1>3, <2>1, <2>2
  <1>11. Remembers'
    BY <1>1, <1>2 DEF Remembers, Recalled
  <1>6. IncidentTypeOK'
    BY <1>1, <1>2, <1>3, <1>4 DEF IncidentTypeOK, IsMind
  <1>7. Unmoved' /\ Closed' /\ Planned' /\ Well'
    BY <1>1 DEF Unmoved, Closed, Planned, Well
  <1>8. Paid'
    BY <1>1 DEF Paid
  <1>9. ConclusionIsWarranted'
    BY <1>1 DEF ConclusionIsWarranted, Named, Closed
  <1>10. Climbed'
    <2>1. Leader(mind') \in Hypotheses
      BY <1>3, LeaderLeads DEF IsMind, IsBelief
    <2>2. RecoveryLadder[Leader(mind')] \in Seq(RecoveryActions)
      BY <2>1, LadderTyped
    <2>3. acted' = <<>> /\ tried' = <<>> /\ Len(acted') = 0
      BY <1>1 DEF Climbed
    <2> QED
      BY <1>1, <2>2, <2>3 DEF Climbed, IsClimb, Ladder, Permitted
  <1> QED
    BY <1>5, <1>6, <1>7, <1>8, <1>9, <1>10, <1>11

LEMMA EndRoundKeeps ==
  ASSUME IncidentInv, EndRound
  PROVE  IncidentInv'
  <1> USE DEF IncidentInv
  <1>1. /\ phase = "checks" /\ incidents' = incidents /\ mind' = mind /\ steps' = steps + 1
        /\ tries' = tries /\ hints' = hints /\ executed' = executed
        /\ calls' = calls /\ misses' = misses /\ todo' = {} /\ seen' = <<>> /\ world' = world
        /\ todo = {} /\ tried' = tried /\ acted' = acted /\ permissions' = permissions
        /\ approved' = approved /\ cases' = cases /\ category' = category /\ cache' = cache
    BY DEF EndRound, platform, context
  <1>2. \/ phase' = "round" /\ terminal' = terminal
        \/ phase' = "final" /\ terminal' = "UNRESOLVED"
    BY DEF EndRound
  <1>3. steps \in Nat
    BY DEF IncidentTypeOK
  <1>4. IncidentTypeOK'
    BY <1>1, <1>2, <1>3 DEF IncidentTypeOK, Phases, Terminals
  <1>5. Thinks' /\ Remembers' /\ Unmoved' /\ Closed' /\ Planned' /\ Well'
    BY <1>1, <1>2, <1>3 DEF Thinks, Evidence, Remembers, Recalled, Unmoved, Closed, Planned, Well
  <1>6. Paid'
    BY <1>1, <1>2 DEF Paid
  <1>7. ConclusionIsWarranted'
    BY <1>1, <1>2 DEF ConclusionIsWarranted, Named, Closed
  <1>8. Climbed'
    BY <1>1, <1>2 DEF Climbed, IsClimb, Ladder, Permitted
  <1> QED
    BY <1>4, <1>5, <1>6, <1>7, <1>8
(***************************************************************************)
(* The recovery: from what all its actions share, one conjunct at a time.  *)
(***************************************************************************)

\* What no step of the recovery touches.
LEMMA RecoveryFrame ==
  ASSUME Recover
  PROVE  /\ mind' = mind /\ steps' = steps /\ misses' = misses /\ hints' = hints
         /\ executed' = executed /\ todo' = todo /\ seen' = seen
         /\ permissions' = permissions /\ cases' = cases /\ incidents' = incidents
         /\ category' = category /\ cache' = cache
  BY DEF Recover, Declines, AsksApproval, IsDenied, Recovers, RecoveryToolFails, ReportsDefect,
         Reruns, Stays, context

\* The next action is the one above those that were tried.
LEMMA ProposedIsNext ==
  ASSUME IncidentInv, NEW action, Proposed(action)
  PROVE  /\ action \in RecoveryActions
         /\ IsClimb(Append(acted, action))
         /\ Append(acted, action) \in Seq(RecoveryActions)
         /\ Len(Append(acted, action)) = Len(acted) + 1
         /\ acted = tried
         /\ mind.support[Leader(mind)] # {}
  <1> USE DEF IncidentInv
  <1>1. /\ phase = "recovery" /\ acted = tried /\ IsClimb(acted) /\ acted \in Seq(RecoveryActions)
    BY DEF Proposed, Climbed, IncidentTypeOK
  <1>2. Ladder \in Seq(RecoveryActions) /\ \A i, j \in 1 .. Len(Ladder) : Ladder[i] = Ladder[j] => i = j
    <2>1. Leader(mind) \in Hypotheses
      BY LeaderLeads DEF Thinks, IsMind, IsBelief
    <2> QED
      BY <2>1, LadderTyped DEF Ladder
  <1>3. PICK i \in 1 .. Len(Ladder) :
          /\ action = Ladder[i] /\ action \notin ToSet(tried)
          /\ \A j \in 1 .. i - 1 : Ladder[j] \in ToSet(tried)
    BY <1>2 DEF Proposed
  <1>4. Len(acted) \in Nat /\ Len(acted) <= Len(Ladder) /\ Len(Ladder) \in Nat
        /\ \A j \in 1 .. Len(acted) : acted[j] = Ladder[j]
    BY <1>1, <1>2 DEF IsClimb
  <1>5. i > Len(acted)
    <2> SUFFICES ASSUME i <= Len(acted) PROVE FALSE
      BY <1>3, <1>4
    <2>1. i \in 1 .. Len(acted) /\ acted[i] = action
      BY <1>3, <1>4
    <2> QED
      BY <1>1, <1>3, <2>1 DEF ToSet
  <1>6. i <= Len(acted) + 1
    <2> SUFFICES ASSUME i > Len(acted) + 1 PROVE FALSE
      BY <1>3, <1>4
    <2> DEFINE k == Len(acted) + 1
    <2>1. k \in 1 .. i - 1 /\ k \in 1 .. Len(Ladder)
      BY <1>3, <1>4
    <2>2. PICK j \in 1 .. Len(acted) : acted[j] = Ladder[k]
      BY <1>1, <1>3, <2>1, SMTT(30) DEF ToSet
    <2>3. Ladder[j] = Ladder[k] /\ j \in 1 .. Len(Ladder) /\ j # k
      BY <1>4, <2>2
    <2> QED
      BY <1>2, <2>1, <2>3
  <1>7. i = Len(acted) + 1
    BY <1>3, <1>4, <1>5, <1>6
  <1>8. action \in RecoveryActions
    BY <1>2, <1>3
  <1>9. /\ Append(acted, action) \in Seq(RecoveryActions)
        /\ Len(Append(acted, action)) = Len(acted) + 1
        /\ Append(acted, action)[Len(acted) + 1] = action
        /\ \A j \in 1 .. Len(acted) : Append(acted, action)[j] = acted[j]
    BY <1>1, <1>8
  <1>10. IsClimb(Append(acted, action))
    <2>1. Len(acted) + 1 <= Len(Ladder)
      BY <1>3, <1>7
    <2>2. \A j \in 1 .. Len(acted) + 1 : Append(acted, action)[j] = Ladder[j]
      <3> TAKE j \in 1 .. Len(acted) + 1
      <3>1. CASE j = Len(acted) + 1
        BY <1>3, <1>7, <1>9, <3>1
      <3>2. CASE j \in 1 .. Len(acted)
        BY <1>4, <1>9, <3>2
      <3> QED
        BY <1>4, <3>1, <3>2
    <2> QED
      BY <1>9, <2>1, <2>2 DEF IsClimb
  <1> QED
    BY <1>1, <1>8, <1>9, <1>10 DEF Proposed

\* What becomes of the invariant when an action of the ladder is carried out.
LEMMA ClimbedFurther ==
  ASSUME IncidentInv, NEW action, Proposed(action), Allowed(action),
         acted' = Append(acted, action), mind' = mind, permissions' = permissions,
         approved' = approved,
         \/ phase' \in {"recovery", "rerun"} /\ tried' = Append(tried, action)
         \/ phase' = "crashed"
  PROVE  Climbed' /\ acted' \in Seq(RecoveryActions)
  <1>1. /\ IsClimb(Append(acted, action)) /\ acted' \in Seq(RecoveryActions)
        /\ Len(acted') = Len(acted) + 1 /\ acted = tried
        /\ mind.support[Leader(mind)] # {} /\ acted \in Seq(RecoveryActions)
    BY ProposedIsNext DEF IncidentInv, IncidentTypeOK
  <1>2. Permitted(action)
    BY DEF Allowed, Permitted
  <1>3. \A i \in 1 .. Len(acted') : Permitted(acted'[i])
    <2> TAKE i \in 1 .. Len(acted')
    <2>1. CASE i \in 1 .. Len(acted)
      <3>1. acted'[i] = acted[i]
        BY <1>1, <2>1
      <3> QED
        BY <2>1, <3>1 DEF IncidentInv, Climbed
    <2>2. CASE i = Len(acted) + 1
      <3>1. acted'[i] = action
        BY <1>1, <2>2
      <3> QED
        BY <1>2, <3>1
    <2> QED
      BY <1>1, <2>1, <2>2
  <1>4. (\A i \in 1 .. Len(acted) : Permitted(acted[i]))'
    BY <1>3 DEF Permitted
  <1>5. IsClimb(acted)'
    BY <1>1 DEF IsClimb, Ladder
  <1> QED
    BY <1>1, <1>4, <1>5 DEF Climbed
LEMMA RecoveryTypes ==
  ASSUME IncidentInv, Recover
  PROVE  IncidentTypeOK'
  <1> USE DEF IncidentInv
  <1>1. UNCHANGED <<mind, steps, misses, hints, executed, todo, seen, cases, incidents, category, cache>>
    BY RecoveryFrame
  <1>2. /\ phase' \in Phases /\ terminal' \in Terminals /\ calls' \in Nat /\ tries' \in Nat
        /\ approved' \subseteq Grantable /\ tried' \in Seq(RecoveryActions)
        /\ acted' \in Seq(RecoveryActions) /\ world' \in {"READY", "NOT_READY", "INCONCLUSIVE"}
    <2> USE DEF IncidentTypeOK
    <2>1. CASE Declines
      BY <2>1 DEF Declines, Closes, Phases, Terminals
    <2>2. CASE AsksApproval
      BY <2>2 DEF AsksApproval, Closes, Phases, Terminals
    <2>3. CASE IsDenied
      BY <2>3 DEF IsDenied, Closes, Phases, Terminals
    <2>4. CASE Recovers
      BY <2>4, SMTT(30) DEF Recovers, EnvironmentAfter, Phases
    <2>5. CASE RecoveryToolFails
      BY <2>5 DEF RecoveryToolFails
    <2>6. CASE ReportsDefect
      <3>1. "create_defect_report" \in RecoveryActions
        BY DEF RecoveryActions, Recoveries
      <3> QED
        BY <2>6, <3>1 DEF ReportsDefect, Phases
    <2>7. CASE Reruns
      BY <2>7 DEF Reruns, Phases, Terminals
    <2> QED
      BY <2>1, <2>2, <2>3, <2>4, <2>5, <2>6, <2>7 DEF Recover
  <1> QED
    BY <1>1, <1>2 DEF IncidentTypeOK

\* A recovery leaves the diagnosis as it found it, and ends only as a terminal
\* state of its own.
LEMMA RecoveryKeepsDiagnosis ==
  ASSUME IncidentInv, Recover
  PROVE  Thinks' /\ Remembers' /\ Unmoved' /\ Closed' /\ Planned' /\ ConclusionIsWarranted' /\ Well'
  <1> USE DEF IncidentInv
  <1>1. UNCHANGED <<mind, steps, misses, hints, executed, todo, seen, cases, incidents, category, cache>>
    BY RecoveryFrame
  <1>2. /\ phase \in {"recovery", "rerun"}
        /\ \/ phase' \in {"recovery", "rerun", "crashed"} /\ terminal' = terminal
           \/ /\ phase' = "final"
              /\ terminal' \in {"RESOLVED", "ROOT_CAUSE_IDENTIFIED", "NEEDS_HUMAN"}
        /\ (phase' = "rerun" \/ terminal' = "RESOLVED" => world' = "READY")
    <2>0. terminal # "NONE" <=> phase = "final"
      BY DEF Closed
    <2>1. CASE Declines
      BY <2>0, <2>1 DEF Declines, Closes
    <2>2. CASE AsksApproval
      BY <2>0, <2>2 DEF AsksApproval, Closes, Proposed
    <2>3. CASE IsDenied
      BY <2>0, <2>3 DEF IsDenied, Closes, Proposed
    <2>4. CASE Recovers
      BY <2>0, <2>4 DEF Recovers, Proposed
    <2>5. CASE RecoveryToolFails
      BY <2>0, <2>5 DEF RecoveryToolFails, Proposed
    <2>6. CASE ReportsDefect
      BY <2>0, <2>6 DEF ReportsDefect, Proposed
    <2>7. CASE Reruns
      BY <2>0, <2>7 DEF Reruns, Well
    <2> QED
      BY <2>1, <2>2, <2>3, <2>4, <2>5, <2>6, <2>7 DEF Recover
  <1>3. Named
    BY <1>2 DEF Named
  <1>4. ConclusionIsWarranted'
    BY <1>1, <1>3 DEF ConclusionIsWarranted
  <1>5. Thinks' /\ Remembers' /\ Unmoved' /\ Closed' /\ Planned' /\ Well'
    BY <1>1, <1>2 DEF Thinks, Evidence, Remembers, Recalled, Unmoved, Closed, Planned, Well
  <1> QED
    BY <1>4, <1>5

\* A rerun may be paid for with one try more than there are.
LEMMA RecoveryIsPaid ==
  ASSUME IncidentInv, Recover
  PROVE  Paid'
  <1> USE DEF IncidentInv
  <1>0. calls \in Nat /\ tries \in Nat /\ MaxTries \in Nat /\ MaxToolCalls \in Nat
    BY AgentLimits, PlanLimits DEF IncidentTypeOK
  <1>1. tries <= MaxTries + 1 /\ calls <= MaxToolCalls + tries
    BY DEF Paid
  <1>2. CASE Declines \/ AsksApproval \/ IsDenied \/ RecoveryToolFails
    <2>1. calls' = calls /\ tries' = tries
      BY <1>2 DEF Declines, AsksApproval, IsDenied, RecoveryToolFails
    <2>2. phase' \in {"recovery", "final"}
      BY <1>2 DEF Declines, AsksApproval, IsDenied, RecoveryToolFails, Closes, Proposed
    <2> QED
      BY <1>1, <2>1, <2>2 DEF Paid
  <1>3. CASE Recovers \/ ReportsDefect
    <2>1. calls' = calls + 1 /\ tries' = tries + 1 /\ tries < MaxTries
      BY <1>3 DEF Recovers, ReportsDefect, Allowed, Affordable
    <2>2. phase' \in {"recovery", "rerun", "crashed"}
      BY <1>3 DEF Recovers, ReportsDefect, Proposed
    <2> QED
      BY <1>0, <1>1, <2>1, <2>2 DEF Paid
  <1>4. CASE Reruns
    <2>1. calls' = calls + 1 /\ tries' = tries + 1 /\ tries <= MaxTries
      BY <1>4 DEF Reruns, Paid
    <2>2. phase' \in {"recovery", "final"}
      BY <1>4 DEF Reruns
    <2> QED
      BY <1>0, <1>1, <2>1, <2>2 DEF Paid
  <1> QED
    BY <1>2, <1>3, <1>4 DEF Recover

LEMMA RecoveryClimbs ==
  ASSUME IncidentInv, Recover
  PROVE  Climbed'
  <1> USE DEF IncidentInv
  <1>1. mind' = mind /\ permissions' = permissions
    BY RecoveryFrame
  <1>2. ASSUME acted' = acted, approved \subseteq approved',
               phase' \in {"recovery", "rerun"} => tried' = tried /\ acted = tried,
               phase' \notin {"idle", "trace", "round", "checks"}
        PROVE  Climbed'
    <2>1. \A i \in 1 .. Len(acted') : Permitted(acted'[i])
      BY <1>2 DEF Climbed
    <2>2. (\A i \in 1 .. Len(acted) : Permitted(acted[i]))'
      BY <1>1, <1>2, <2>1 DEF Permitted
    <2>3. IsClimb(acted)' /\ (acted # <<>> => mind.support[Leader(mind)] # {})'
      BY <1>1, <1>2 DEF IsClimb, Ladder, Climbed
    <2> QED
      BY <1>2, <2>2, <2>3 DEF Climbed
  <1>3. CASE Declines
    BY <1>2, <1>3 DEF Declines, Closes
  <1>4. CASE AsksApproval
    <2>1. acted = tried
      BY <1>4 DEF AsksApproval, Proposed, Climbed
    <2> QED
      BY <1>2, <1>4, <2>1 DEF AsksApproval, Closes, Proposed
  <1>5. CASE IsDenied
    BY <1>2, <1>5 DEF IsDenied, Closes
  <1>6. CASE Recovers
    <2>1. PICK action \in RecoveryActions : /\ Proposed(action) /\ Allowed(action)
                                            /\ acted' = Append(acted, action)
                                            /\ tried' = Append(tried, action)
                                            /\ phase' \in {"recovery", "rerun"}
                                            /\ approved' = approved
      BY <1>6 DEF Recovers, Proposed
    <2> QED
      BY <1>1, <2>1, ClimbedFurther
  <1>7. CASE RecoveryToolFails
    <2>1. PICK action \in RecoveryActions : /\ Proposed(action) /\ Allowed(action)
                                            /\ acted' = Append(acted, action)
                                            /\ tried' = Append(tried, action)
                                            /\ phase' \in {"recovery", "rerun"}
                                            /\ approved' = approved
      BY <1>7 DEF RecoveryToolFails, Proposed
    <2> QED
      BY <1>1, <2>1, ClimbedFurther
  <1>8. CASE ReportsDefect
    <2>1. /\ Proposed("create_defect_report") /\ Allowed("create_defect_report")
          /\ acted' = Append(acted, "create_defect_report") /\ phase' = "crashed"
          /\ approved' = approved
      BY <1>8 DEF ReportsDefect
    <2> QED
      BY <1>1, <2>1, ClimbedFurther
  <1>9. CASE Reruns
    <2>1. acted = tried
      BY <1>9 DEF Reruns, Climbed
    <2> QED
      BY <1>2, <1>9, <2>1 DEF Reruns
  <1> QED
    BY <1>3, <1>4, <1>5, <1>6, <1>7, <1>8, <1>9 DEF Recover

LEMMA RecoveryKeeps ==
  ASSUME IncidentInv, Recover
  PROVE  IncidentInv'
  BY RecoveryTypes, RecoveryKeepsDiagnosis, RecoveryIsPaid, RecoveryClimbs DEF IncidentInv
\* When troubleshoot() is over nothing of the incident is left.
LEMMA ReturnsKeeps ==
  ASSUME IncidentInv, Returns, permissions' = permissions, approved' = approved,
         incidents' = incidents, cases' \in [Hypotheses -> Statuses]
  PROVE  IncidentInv'
  <1> USE DEF IncidentInv
  <1>1. /\ phase' = "idle" /\ hints' = <<>> /\ category' = "UNKNOWN" /\ cache' = Blank /\ mind' = Fresh
        /\ steps' = 0 /\ calls' = 0 /\ tries' = 0 /\ misses' = 0
        /\ executed' = {} /\ todo' = {} /\ seen' = <<>>
        /\ world' = "READY" /\ tried' = <<>> /\ acted' = <<>> /\ terminal' = "NONE"
    BY DEF Returns
  <1>2. /\ IsMind(mind') /\ mind'.moved = {} /\ mind'.support = [h \in Hypotheses |-> {}]
        /\ Leader(mind') \in Hypotheses
    BY <1>1, FreshMind
  <1>3. "UNKNOWN" \in Categories /\ Blank \in Memories
    BY DEF Categories, Priors, Blank, Memories, Origins
  <1>4. IncidentTypeOK'
    BY <1>1, <1>2, <1>3 DEF IncidentTypeOK, Phases, Terminals, IsMind
  <1>5. IsFiniteSet(todo') /\ Cardinality(todo') = 0
    BY <1>1, FS_EmptySet
  <1>6. Thinks' /\ Remembers' /\ Unmoved' /\ Closed' /\ Planned' /\ Well'
    BY <1>1, <1>2, <1>5 DEF Thinks, Evidence, Remembers, Recalled, Unmoved, Closed, Planned, Well
  <1>7. Paid'
    BY <1>1, <1>5, PlanLimits, AgentLimits DEF Paid
  <1>8. ConclusionIsWarranted'
    BY <1>1 DEF ConclusionIsWarranted, Named
  <1>9. Climbed'
    <2>1. RecoveryLadder[Leader(mind')] \in Seq(RecoveryActions)
      BY <1>2, LadderTyped
    <2> QED
      BY <1>1, <2>1 DEF Climbed, IsClimb, Ladder, Permitted
  <1> QED
    BY <1>4, <1>6, <1>7, <1>8, <1>9

LEMMA ExtractedCases ==
  ASSUME IncidentInv
  PROVE  Extracted \in [Hypotheses -> Statuses]
  BY DEF IncidentInv, IncidentTypeOK, Extracted, Statuses

LEMMA IncidentStart ==
  IncidentInit => IncidentInv
  <1> SUFFICES ASSUME IncidentInit PROVE IncidentInv
    OBVIOUS
  <1> USE DEF IncidentInit
  <1>1. /\ IsMind(Fresh) /\ Fresh.moved = {} /\ Fresh.support = [h \in Hypotheses |-> {}]
        /\ Leader(Fresh) \in Hypotheses
    BY FreshMind
  <1>2. "UNKNOWN" \in Categories /\ Blank \in Memories
    BY DEF Categories, Priors, Blank, Memories, Origins
  <1>3. IncidentTypeOK
    BY <1>1, <1>2 DEF IncidentTypeOK, Phases, Terminals, Statuses, IsMind
  <1>4. IsFiniteSet(todo) /\ Cardinality(todo) = 0
    BY FS_EmptySet
  <1>5. Thinks /\ Remembers /\ Unmoved /\ Closed /\ Planned /\ Well
    BY <1>1, <1>4 DEF Thinks, Evidence, Remembers, Recalled, Unmoved, Closed, Planned, Well
  <1>6. Paid
    BY <1>4, PlanLimits, AgentLimits DEF Paid
  <1>7. ConclusionIsWarranted
    BY DEF ConclusionIsWarranted, Named
  <1>8. Climbed
    <2>1. RecoveryLadder[Leader(mind)] \in Seq(RecoveryActions)
      BY <1>1, LadderTyped
    <2> QED
      BY <2>1 DEF Climbed, IsClimb, Ladder, Permitted
  <1> QED
    BY <1>3, <1>5, <1>6, <1>7, <1>8 DEF IncidentInv

LEMMA IncidentStep ==
  IncidentInv /\ [IncidentNext]_incidentVars => IncidentInv'
  <1> SUFFICES ASSUME IncidentInv, [IncidentNext]_incidentVars PROVE IncidentInv'
    OBVIOUS
  <1>1. CASE Start
    BY <1>1, StartKeeps
  <1>2. CASE Diagnose
    BY <1>2, TakesHintKeeps, PlanningKeeps, RunNodeKeeps, LearnKeeps, EndRoundKeeps DEF Diagnose
  <1>3. CASE Recover
    BY <1>3, RecoveryKeeps
  <1>4. CASE Finalize
    <2>1. cases' \in [Hypotheses -> Statuses]
      BY <1>4, ExtractedCases DEF Finalize, IncidentInv, IncidentTypeOK
    <2> QED
      BY <1>4, <2>1, ReturnsKeeps DEF Finalize
  <1>5. CASE Abandon
    BY <1>5, ReturnsKeeps DEF Abandon, platform, IncidentInv, IncidentTypeOK
  <1>6. CASE UNCHANGED incidentVars
    <2>1. UNCHANGED <<permissions, approved, cases, incidents, phase, hints, category, cache, mind, steps,
                      calls, tries, misses, executed, todo, seen, world, tried, acted, terminal>>
      BY <1>6 DEF incidentVars, platform, context, usage
    <2>2. IncidentTypeOK'
      BY <2>1 DEF IncidentInv, IncidentTypeOK
    <2>3. Thinks' /\ Remembers' /\ Unmoved' /\ Closed' /\ Planned' /\ Paid' /\ Well'
      BY <2>1 DEF IncidentInv, Thinks, Evidence, Remembers, Recalled, Unmoved, Closed, Planned, Paid, Well
    <2>4. ConclusionIsWarranted' /\ Climbed'
      BY <2>1 DEF IncidentInv, ConclusionIsWarranted, Named, Climbed, IsClimb, Ladder, Permitted
    <2> QED
      BY <2>2, <2>3, <2>4 DEF IncidentInv
  <1> QED
    BY <1>1, <1>2, <1>3, <1>4, <1>5, <1>6 DEF IncidentNext

\* What every reachable state of an agent and its incidents is like.
THEOREM IncidentInvariance == IncidentSpec => []IncidentInv
  BY IncidentStart, IncidentStep, PTL DEF IncidentSpec

\* Typing: the beliefs stay within the whole through every rounding, and a
\* plan that is run is made of checks.
THEOREM IncidentTyping == IncidentSpec => []IncidentTypeOK
  <1>1. IncidentInv => IncidentTypeOK
    BY DEF IncidentInv
  <1> QED
    BY <1>1, IncidentInvariance, PTL

\* No cause is named on priors, experience and hints alone.
THEOREM ConclusionsAreWarranted == IncidentSpec => []ConclusionIsWarranted
  <1>1. IncidentInv => ConclusionIsWarranted
    BY DEF IncidentInv
  <1> QED
    BY <1>1, IncidentInvariance, PTL

\* The environment is touched only for a cause that evidence of the incident
\* speaks for, of a check run or of a cached result that came with it, and only
\* as the ladder and the tiers allow.
THEOREM RecoveriesAreEarned == IncidentSpec => []RecoveryIsEarned
  <1>1. IncidentInv => RecoveryIsEarned
    <2> SUFFICES ASSUME IncidentInv, acted # <<>> PROVE RecoveryIsEarned
      BY DEF RecoveryIsEarned
    <2> DEFINE h == Leader(mind)
    <2>1. h \in Hypotheses
      BY LeaderLeads DEF IncidentInv, Thinks, IsMind, IsBelief
    <2>2. mind.support[h] # {} /\ mind.support[h] \subseteq Evidence
      BY <2>1 DEF IncidentInv, Thinks, Climbed
    <2>3. /\ acted \in Seq(RecoveryActions) /\ RecoveryLadder[h] \in Seq(RecoveryActions)
          /\ Len(acted) <= Len(RecoveryLadder[h])
          /\ \A i \in 1 .. Len(acted) : acted[i] = RecoveryLadder[h][i]
          /\ \A i \in 1 .. Len(acted) : Permitted(acted[i])
      BY <2>1, LadderTyped DEF IncidentInv, IncidentTypeOK, Climbed, IsClimb, Ladder
    <2> HIDE DEF h
    <2>4. IsPrefix(acted, RecoveryLadder[h])
      <3>1. SubSeq(acted, 1, Len(acted)) = SubSeq(RecoveryLadder[h], 1, Len(acted))
        BY <2>3
      <3> QED
        BY <2>3, <3>1 DEF IsPrefix
    <2>5. \A a \in ToSet(acted) : Permitted(a)
      BY <2>3 DEF ToSet
    <2> QED
      BY <2>2, <2>4, <2>5 DEF RecoveryIsEarned, Permitted, h
  <1> QED
    BY <1>1, IncidentInvariance, PTL

\* Plans are begun only when they can be paid for, and a recovery overdraws
\* by one rerun at most.
THEOREM BudgetsHold == IncidentSpec => []BudgetHolds
  <1>1. IncidentInv => BudgetHolds
    <2> SUFFICES ASSUME IncidentInv PROVE BudgetHolds
      OBVIOUS
    <2> USE DEF IncidentInv
    <2> DEFINE open == {n \in todo : n.origin = "run"}
    <2>1. /\ Cardinality(open) <= Cardinality(todo)
          /\ Cardinality(open) \in Nat /\ Cardinality(todo) \in Nat
      <3>1. open \in SUBSET todo
        OBVIOUS
      <3> QED
        BY <3>1, FS_Subset, FS_CardinalityType DEF Planned
    <2>2. calls \in Nat /\ MaxToolCalls \in Nat
      BY PlanLimits DEF IncidentTypeOK
    <2> HIDE DEF open
    <2>3. phase \in {"round", "checks"} => calls + Cardinality(open) <= MaxToolCalls
      BY <2>1, <2>2 DEF Paid
    <2> QED
      BY <2>3 DEF Paid, BudgetHolds, open
  <1> QED
    BY <1>1, IncidentInvariance, PTL

\* A case is verified only by the incident that has proved it, for the cause
\* that incident named, and is never taken back.
THEOREM ExperienceStaysVerified == IncidentSpec => ExperienceIsVerified
  <1>1. ASSUME IncidentInv, [IncidentNext]_incidentVars
        PROVE  [\A h \in Hypotheses :
                  cases'[h] # cases[h] =>
                    /\ cases[h] # "VERIFIED"
                    /\ h = Leader(mind)
                    /\ cases'[h] = "VERIFIED" => terminal = "RESOLVED" /\ world = "READY"
                    /\ h \in mind.moved]_incidentVars
    <2> SUFFICES ASSUME IncidentNext, NEW h \in Hypotheses, cases'[h] # cases[h]
                 PROVE  /\ cases[h] # "VERIFIED"
                        /\ h = Leader(mind)
                        /\ cases'[h] = "VERIFIED" => terminal = "RESOLVED" /\ world = "READY"
                        /\ h \in mind.moved
      BY <1>1
    <2> USE <1>1
    <2>1. Finalize
      <3>1. CASE Start
        BY <3>1 DEF Start
      <3>2. CASE Diagnose
        BY <3>2 DEF Diagnose, TakesHint, Concludes, RunsOut, PlansByTemplate, PlansByModel,
               PlansDynamically, HasNoPlan, RunNode, Learn, EndRound, Adopt, FallsBack, Run,
               Unplanned, platform
      <3>3. CASE Recover
        BY <3>3, RecoveryFrame
      <3>4. CASE Abandon
        BY <3>4 DEF Abandon, platform
      <3> QED
        BY <3>1, <3>2, <3>3, <3>4 DEF IncidentNext
    <2>2. /\ cases' = Extracted /\ cases \in [Hypotheses -> Statuses]
          /\ phase = "final" /\ terminal # "NONE" /\ terminal \in Terminals
      BY <2>1 DEF Finalize, IncidentInv, IncidentTypeOK, Closed
    <2>3. Leader(mind) \in Hypotheses
      BY LeaderLeads DEF IncidentInv, Thinks, IsMind, IsBelief
    <2>4. /\ terminal \notin {"INVALID_INPUT", "UNRESOLVED"} /\ h = Leader(mind)
          /\ cases[h] # "VERIFIED"
          /\ cases'[h] = "VERIFIED" => terminal = "RESOLVED"
      BY <2>2, <2>3 DEF Extracted
    <2>5. Named
      BY <2>2, <2>4 DEF Named, Terminals
    <2>6. h \in mind.moved
      BY <2>4, <2>5 DEF IncidentInv, ConclusionIsWarranted
    <2> QED
      BY <2>4, <2>6 DEF IncidentInv, Well
  <1> QED
    BY <1>1, IncidentInvariance, PTL DEF IncidentSpec, ExperienceIsVerified

(***************************************************************************)
(* An incident comes to its end: every step of it descends in an order in  *)
(* which there is no way down for ever, and no incident is stuck.          *)
(***************************************************************************)

\* The hints, the rounds, the checks of a round and what they have seen; then
\* the actions left on the ladder and the approvals not given yet.
Rank ==
  CASE phase = "idle" -> <<0, 0, 0, 0>>
    [] phase = "trace" -> <<4, Len(hints), 0, 0>>
    [] phase = "round" -> <<3, 2 * (MaxSteps - steps) + 1, 0, 0>>
    [] phase = "checks" -> <<3, 2 * (MaxSteps - steps), Cardinality(todo), Len(seen)>>
    [] phase = "recovery" -> <<2, Len(Ladder) - Len(tried), Cardinality(Grantable \ approved), 0>>
    [] phase = "rerun" -> <<2, Len(Ladder) - Len(tried), Cardinality(Grantable \ approved), 1>>
    [] OTHER -> <<1, 0, 0, 0>>

Ranks == [1 .. 4 -> Nat]

Descent == LexProductOrdering(OpToRel(<, Nat), Nat, 4)

\* There is no way down for ever.
LEMMA DescentEnds == IsWellFoundedOn(Descent, Ranks)
  BY NatLessThanWellFounded, WFLexProductOrdering DEF Descent, Ranks

\* The first difference decides.
LEMMA Falls ==
  ASSUME NEW p \in Ranks, NEW q \in Ranks,
         \/ p[1] < q[1]
         \/ p[1] = q[1] /\ p[2] < q[2]
         \/ p[1] = q[1] /\ p[2] = q[2] /\ p[3] < q[3]
         \/ p[1] = q[1] /\ p[2] = q[2] /\ p[3] = q[3] /\ p[4] < q[4]
  PROVE  <<p, q>> \in Descent
  <1> DEFINE Lower(i) == p[i] < q[i] /\ \A j \in 1 .. i - 1 : p[j] = q[j]
  <1>2. ASSUME NEW i \in 1 .. 4, Lower(i) PROVE <<p, q>> \in Descent
    BY <1>2 DEF Descent, LexProductOrdering, OpToRel, Ranks
  <1>3. \E i \in 1 .. 4 : Lower(i)
    <2>1. CASE p[1] < q[1]
      <3>1. Lower(1)
        BY <2>1
      <3> HIDE DEF Lower
      <3>2. 1 \in 1 .. 4
        OBVIOUS
      <3> QED
        BY <3>1, <3>2
    <2>2. CASE p[1] = q[1] /\ p[2] < q[2]
      <3>1. Lower(2)
        BY <2>2
      <3> HIDE DEF Lower
      <3>2. 2 \in 1 .. 4
        OBVIOUS
      <3> QED
        BY <3>1, <3>2
    <2>3. CASE p[1] = q[1] /\ p[2] = q[2] /\ p[3] < q[3]
      <3>1. Lower(3)
        BY <2>3
      <3> HIDE DEF Lower
      <3>2. 3 \in 1 .. 4
        OBVIOUS
      <3> QED
        BY <3>1, <3>2
    <2>4. CASE p[1] = q[1] /\ p[2] = q[2] /\ p[3] = q[3] /\ p[4] < q[4]
      <3>1. Lower(4)
        BY <2>4
      <3> HIDE DEF Lower
      <3>2. 4 \in 1 .. 4
        OBVIOUS
      <3> QED
        BY <3>1, <3>2
    <2> QED
      BY <2>1, <2>2, <2>3, <2>4
  <1> HIDE DEF Lower
  <1> QED
    BY <1>2, <1>3

\* The rounds are within the budget of steps.
Rounded ==
  /\ phase \in {"idle", "trace"} => steps = 0
  /\ phase \in {"round", "checks"} => steps < MaxSteps

\* It stays so: EndRound closes the incident at the bound.
LEMMA RoundedNext == IncidentInv /\ Rounded /\ [IncidentNext]_incidentVars => Rounded'
  <1> SUFFICES ASSUME IncidentInv, Rounded, [IncidentNext]_incidentVars PROVE Rounded'
    OBVIOUS
  <1>0. steps \in Nat /\ MaxSteps \in Nat /\ MaxSteps > 0
    BY AgentLimits DEF IncidentInv, IncidentTypeOK
  <1>1. CASE Start
    BY <1>1 DEF Start, Closes, usage, Rounded
  <1>2. CASE TakesHint
    BY <1>0, <1>2 DEF TakesHint, usage, Rounded
  <1>3. CASE \/ Concludes \/ RunsOut \/ PlansByTemplate \/ PlansByModel \/ PlansDynamically \/ HasNoPlan
    <2>1. phase = "round" /\ steps' = steps
      BY <1>3 DEF Concludes, RunsOut, PlansByTemplate, PlansByModel, PlansDynamically, HasNoPlan, Plans,
            Adopt, FallsBack, Run, Unplanned, usage
    <2>2. phase' \in {"checks", "recovery", "final"}
      BY <1>3 DEF Concludes, RunsOut, PlansByTemplate, PlansByModel, PlansDynamically, HasNoPlan,
            Adopt, FallsBack, Run, Identifies, Closes
    <2> QED
      BY <2>1, <2>2 DEF Rounded
  <1>4. CASE RunNode \/ Learn
    BY <1>4 DEF RunNode, Learn, usage, Rounded
  <1>5. CASE EndRound
    BY <1>0, <1>5 DEF EndRound, Rounded
  <1>6. CASE Recover
    BY <1>6 DEF Recover, Declines, AsksApproval, IsDenied, Recovers, RecoveryToolFails, ReportsDefect,
          Reruns, Closes, Proposed, Rounded
  <1>7. CASE Finalize \/ Abandon
    BY <1>7 DEF Finalize, Abandon, Returns, Rounded
  <1>8. CASE UNCHANGED incidentVars
    BY <1>8 DEF incidentVars, usage, Rounded
  <1> QED
    BY <1>1, <1>2, <1>3, <1>4, <1>5, <1>6, <1>7, <1>8 DEF IncidentNext, Diagnose

LEMMA AlwaysRounded == IncidentSpec => []Rounded
  <1>1. IncidentInit => Rounded
    BY DEF IncidentInit, Rounded
  <1> QED
    BY <1>1, RoundedNext, IncidentInvariance, PTL DEF IncidentSpec

\* What a rank says in each phase.
LEMMA Ranked ==
  /\ phase = "idle" => Rank = <<0, 0, 0, 0>>
  /\ phase = "trace" => Rank = <<4, Len(hints), 0, 0>>
  /\ phase = "round" => Rank = <<3, 2 * (MaxSteps - steps) + 1, 0, 0>>
  /\ phase = "checks" => Rank = <<3, 2 * (MaxSteps - steps), Cardinality(todo), Len(seen)>>
  /\ phase = "recovery" =>
       Rank = <<2, Len(Ladder) - Len(tried), Cardinality(Grantable \ approved), 0>>
  /\ phase = "rerun" =>
       Rank = <<2, Len(Ladder) - Len(tried), Cardinality(Grantable \ approved), 1>>
  /\ phase \in {"final", "crashed"} => Rank = <<1, 0, 0, 0>>
  BY DEF Rank

\* What a rank is made of.
RankParts ==
  /\ Len(hints) \in Nat /\ Len(seen) \in Nat /\ Cardinality(todo) \in Nat
  /\ phase \in {"round", "checks"} => MaxSteps - steps \in Nat
  /\ phase \in {"recovery", "rerun"} => Len(Ladder) - Len(tried) \in Nat
  /\ Cardinality(Grantable \ approved) \in Nat
  /\ Rank \in Ranks

LEMMA RankIsRank == IncidentInv /\ Rounded => RankParts
  <1> SUFFICES ASSUME IncidentInv, Rounded PROVE RankParts
    OBVIOUS
  <1> USE DEF IncidentInv
  <1>1. Len(hints) \in Nat /\ Len(seen) \in Nat /\ Cardinality(todo) \in Nat
    BY LenProperties, FS_CardinalityType DEF IncidentTypeOK, Planned
  <1>2. phase \in {"round", "checks"} => MaxSteps - steps \in Nat
    BY AgentLimits DEF IncidentTypeOK, Rounded
  <1>3. phase \in {"recovery", "rerun"} => Len(Ladder) - Len(tried) \in Nat
    <2>1. Leader(mind) \in Hypotheses
      BY LeaderLeads DEF Thinks, IsMind, IsBelief
    <2>2. Len(Ladder) \in Nat /\ Len(tried) \in Nat
      BY <2>1, LadderTyped, LenProperties DEF Ladder, IncidentTypeOK
    <2> QED
      BY <2>2 DEF Climbed, IsClimb
  <1>4. IsFiniteSet(Grantable \ approved)
    <2>1. IsFiniteSet(Grantable)
      BY FS_Singleton DEF Grantable
    <2> QED
      BY <2>1, FS_Difference
  <1>5. Cardinality(Grantable \ approved) \in Nat
    BY <1>4, FS_CardinalityType
  <1>6. /\ phase \in {"round", "checks"} =>
             2 * (MaxSteps - steps) \in Nat /\ 2 * (MaxSteps - steps) + 1 \in Nat
        /\ phase \in Phases
    BY <1>2 DEF IncidentTypeOK
  <1>7. \A a, b, c, d \in Nat : <<a, b, c, d>> \in Ranks
    BY DEF Ranks
  <1>8. Rank \in Ranks
    BY <1>1, <1>3, <1>5, <1>6, <1>7, Ranked DEF Phases
  <1> QED
    BY <1>1, <1>2, <1>3, <1>5, <1>8 DEF RankParts

LEMMA RankIsRankAfter == IncidentInv' /\ Rounded' => RankParts'
  BY RankIsRank, PTL

LEMMA DiagnosisDescends ==
  ASSUME IncidentInv, Rounded, IncidentInv', Rounded', Diagnose
  PROVE  <<Rank', Rank>> \in Descent
  <1>1. /\ Len(hints) \in Nat /\ Len(seen) \in Nat /\ Cardinality(todo) \in Nat
        /\ phase \in {"round", "checks"} => MaxSteps - steps \in Nat
    BY RankIsRank DEF RankParts
  <1>0. Rank \in Ranks /\ Rank' \in Ranks
    BY RankIsRank, RankIsRankAfter DEF RankParts
  <1>2. /\ Len(hints') \in Nat /\ Len(seen') \in Nat /\ Cardinality(todo') \in Nat
        /\ phase' \in {"round", "checks"} => MaxSteps - steps' \in Nat
        /\ phase' = "recovery" => Len(Ladder') - Len(tried') \in Nat
        /\ Cardinality(Grantable \ approved') \in Nat
    BY RankIsRankAfter DEF RankParts
  <1>3. steps \in Nat /\ MaxSteps \in Nat /\ hints \in Seq(Hypotheses)
        /\ seen \in Seq(Checks \X Outcomes \X Origins) /\ IsFiniteSet(todo)
    BY AgentLimits DEF IncidentInv, IncidentTypeOK, Planned
  <1>4. CASE TakesHint
    <2>1. phase = "trace" /\ Rank = <<4, Len(hints), 0, 0>>
      BY <1>4, Ranked DEF TakesHint
    <2>2. CASE hints # <<>>
      <3>1. phase' = "trace" /\ hints' = Tail(hints)
        BY <1>4, <2>2 DEF TakesHint
      <3>2. Rank' = <<4, Len(hints'), 0, 0>>
        BY <3>1 DEF Rank
      <3>3. Len(hints') < Len(hints)
        BY <1>3, <2>2, <3>1
      <3> QED
        BY <1>1, <1>2, <2>1, <3>2, <3>3, <1>0, Falls
    <2>3. CASE hints = <<>>
      <3>1. phase' = "round"
        BY <1>4, <2>3 DEF TakesHint
      <3>2. Rank' = <<3, 2 * (MaxSteps - steps') + 1, 0, 0>>
        BY <3>1 DEF Rank
      <3>3. 2 * (MaxSteps - steps') + 1 \in Nat
        BY <1>2, <3>1
      <3> QED
        BY <1>1, <2>1, <3>2, <3>3, <1>0, Falls
    <2> QED
      BY <2>2, <2>3
  <1>5. CASE Concludes \/ RunsOut \/ PlansByTemplate \/ PlansByModel \/ PlansDynamically \/ HasNoPlan
    <2>1. /\ phase = "round" /\ steps' = steps
          /\ phase' \in {"checks", "recovery", "final"}
      <3>1. phase = "round" /\ steps' = steps
        BY <1>5 DEF Concludes, RunsOut, PlansByTemplate, PlansByModel, PlansDynamically, HasNoPlan,
              Plans, Adopt, FallsBack, Run, Unplanned, usage
      <3>2. phase' \in {"checks", "recovery", "final"}
        BY <1>5 DEF Concludes, RunsOut, PlansByTemplate, PlansByModel, PlansDynamically, HasNoPlan,
              Adopt, FallsBack, Run, Identifies, Closes
      <3> QED
        BY <3>1, <3>2
    <2>2. Rank = <<3, 2 * (MaxSteps - steps) + 1, 0, 0>> /\ 2 * (MaxSteps - steps) + 1 \in Nat
      BY <1>1, <2>1, Ranked
    <2>3. CASE phase' = "checks"
      <3>1. Rank' = <<3, 2 * (MaxSteps - steps), Cardinality(todo'), Len(seen')>>
        BY <2>1, <2>3 DEF Rank
      <3>2. 2 * (MaxSteps - steps) \in Nat /\ 2 * (MaxSteps - steps) < 2 * (MaxSteps - steps) + 1
        BY <1>1, <2>1
      <3> QED
        BY <1>2, <2>2, <3>1, <3>2, <1>0, Falls
    <2>4. CASE phase' = "recovery"
      <3>1. Rank' = <<2, Len(Ladder') - Len(tried'), Cardinality(Grantable \ approved'), 0>>
        BY <2>4 DEF Rank, Grantable
      <3>2. Rank'[1] < Rank[1]
        BY <2>2, <3>1
      <3> QED
        BY <1>0, <3>2, Falls
    <2>5. CASE phase' = "final"
      <3>1. Rank' = <<1, 0, 0, 0>>
        BY <2>5 DEF Rank
      <3> QED
        BY <2>2, <3>1, <1>0, Falls
    <2> QED
      BY <2>1, <2>3, <2>4, <2>5
  <1>6. CASE RunNode
    <2>1. phase = "checks" /\ phase' = "checks" /\ steps' = steps
      BY <1>6 DEF RunNode, usage
    <2>2. PICK node \in todo : todo' = todo \ {node}
      BY <1>6 DEF RunNode
    <2>3. Cardinality(todo') < Cardinality(todo)
      <3>1. Cardinality(todo \ {node}) = Cardinality(todo) - 1
        BY <1>3, <2>2, FS_RemoveElement
      <3> QED
        BY <1>1, <2>2, <3>1
    <2>4. /\ Rank = <<3, 2 * (MaxSteps - steps), Cardinality(todo), Len(seen)>>
          /\ Rank' = <<3, 2 * (MaxSteps - steps), Cardinality(todo'), Len(seen')>>
      BY <2>1 DEF Rank
    <2>5. 2 * (MaxSteps - steps) \in Nat
      BY <1>1, <2>1
    <2> QED
      BY <1>1, <1>2, <2>3, <2>4, <2>5, <1>0, Falls
  <1>7. CASE Learn
    <2>1. phase = "checks" /\ phase' = "checks" /\ steps' = steps /\ todo' = todo
      BY <1>7 DEF Learn, usage
    <2>2. seen # <<>> /\ seen' = Tail(seen)
      BY <1>7 DEF Learn
    <2>3. Len(seen') < Len(seen)
      BY <1>3, <2>2
    <2>4. /\ Rank = <<3, 2 * (MaxSteps - steps), Cardinality(todo), Len(seen)>>
          /\ Rank' = <<3, 2 * (MaxSteps - steps), Cardinality(todo), Len(seen')>>
      BY <2>1 DEF Rank
    <2>5. 2 * (MaxSteps - steps) \in Nat
      BY <1>1, <2>1
    <2> QED
      BY <1>1, <1>2, <2>3, <2>4, <2>5, <1>0, Falls
  <1>8. CASE EndRound
    <2>1. phase = "checks" /\ steps' = steps + 1 /\ phase' \in {"round", "final"}
      BY <1>8 DEF EndRound
    <2>2. /\ Rank = <<3, 2 * (MaxSteps - steps), Cardinality(todo), Len(seen)>>
          /\ 2 * (MaxSteps - steps) \in Nat
      BY <1>1, <2>1, Ranked
    <2>3. CASE phase' = "round"
      <3>1. Rank' = <<3, 2 * (MaxSteps - steps') + 1, 0, 0>>
        BY <2>3 DEF Rank
      <3>2. /\ 2 * (MaxSteps - steps') + 1 \in Nat
            /\ 2 * (MaxSteps - steps') + 1 < 2 * (MaxSteps - steps)
        BY <1>2, <1>3, <2>1, <2>3
      <3> QED
        BY <1>1, <2>2, <3>1, <3>2, <1>0, Falls
    <2>4. CASE phase' = "final"
      <3>1. Rank' = <<1, 0, 0, 0>>
        BY <2>4 DEF Rank
      <3>2. Rank'[1] < Rank[1]
        BY <2>2, <3>1
      <3> QED
        BY <1>0, <3>2, Falls
    <2> QED
      BY <2>1, <2>3, <2>4
  <1> QED
    BY <1>4, <1>5, <1>6, <1>7, <1>8 DEF Diagnose

LEMMA RecoveryDescends ==
  ASSUME IncidentInv, Rounded, IncidentInv', Rounded', Recover
  PROVE  <<Rank', Rank>> \in Descent
  <1>1. /\ phase \in {"recovery", "rerun"} => Len(Ladder) - Len(tried) \in Nat
        /\ Cardinality(Grantable \ approved) \in Nat
    BY RankIsRank DEF RankParts
  <1>0. Rank \in Ranks /\ Rank' \in Ranks
    BY RankIsRank, RankIsRankAfter DEF RankParts
  <1>2. /\ phase' \in {"recovery", "rerun"} => Len(Ladder') - Len(tried') \in Nat
        /\ Cardinality(Grantable \ approved') \in Nat
    BY RankIsRankAfter DEF RankParts
  <1>3. Ladder' = Ladder
    BY RecoveryFrame DEF Ladder, Leader
  <1>4. Len(tried) \in Nat /\ Len(Ladder) \in Int
    <2>1. Leader(mind) \in Hypotheses
      BY LeaderLeads DEF IncidentInv, Thinks, IsMind, IsBelief
    <2> QED
      BY <2>1, LadderTyped, LenProperties DEF Ladder, IncidentInv, IncidentTypeOK
  <1>5. CASE phase' \in {"final", "crashed"}
    <2>1. Rank' = <<1, 0, 0, 0>>
      BY <1>5 DEF Rank
    <2>2. phase = "recovery" \/ phase = "rerun"
      BY DEF Recover, Declines, AsksApproval, IsDenied, Recovers, RecoveryToolFails, ReportsDefect,
            Reruns, Proposed
    <2>3. Rank[1] = 2
      BY <2>2, Ranked
    <2>4. Rank'[1] < Rank[1]
      BY <2>1, <2>3
    <2> QED
      BY <1>0, <2>4, Falls
  <1>6. CASE AsksApproval /\ phase' \notin {"final", "crashed"}
    <2>1. PICK action \in Grantable :
            /\ phase = "recovery" /\ phase' = "recovery" /\ tried' = tried
            /\ action \notin approved /\ approved' = approved \cup {action}
      BY <1>6 DEF AsksApproval, Proposed, NeedsApproval, Closes
    <2>2. Grantable \ approved' = (Grantable \ approved) \ {action} /\ action \in Grantable \ approved
      BY <2>1
    <2>3. Cardinality(Grantable \ approved') < Cardinality(Grantable \ approved)
      <3>1. IsFiniteSet(Grantable \ approved)
        BY FS_Singleton, FS_Difference DEF Grantable
      <3>2. Cardinality((Grantable \ approved) \ {action}) = Cardinality(Grantable \ approved) - 1
        BY <2>2, <3>1, FS_RemoveElement
      <3>3. Cardinality(Grantable \ approved') = Cardinality(Grantable \ approved) - 1
        BY <2>2, <3>2
      <3> QED
        BY <1>1, <3>3
    <2>4. /\ Rank = <<2, Len(Ladder) - Len(tried), Cardinality(Grantable \ approved), 0>>
          /\ Rank' = <<2, Len(Ladder) - Len(tried), Cardinality(Grantable \ approved'), 0>>
      BY <1>3, <2>1 DEF Rank, Grantable
    <2> QED
      BY <1>1, <1>2, <2>1, <2>3, <2>4, <1>0, Falls
  <1>7. CASE (Recovers \/ RecoveryToolFails) /\ phase' \notin {"final", "crashed"}
    <2>1. PICK action \in RecoveryActions :
            /\ phase = "recovery" /\ phase' \in {"recovery", "rerun"}
            /\ approved' = approved /\ tried' = Append(tried, action)
      BY <1>7 DEF Recovers, RecoveryToolFails, Proposed
    <2>2. Len(tried') = Len(tried) + 1
      BY <2>1 DEF IncidentInv, IncidentTypeOK
    <2>3. Rank = <<2, Len(Ladder) - Len(tried), Cardinality(Grantable \ approved), 0>>
      BY <2>1, Ranked
    <2>4. \E d \in Nat :
            Rank' = <<2, Len(Ladder) - Len(tried'), Cardinality(Grantable \ approved), d>>
      BY <1>3, <2>1 DEF Rank, Grantable
    <2>5. Len(Ladder) - Len(tried') \in Nat /\ Len(Ladder) - Len(tried') < Len(Ladder) - Len(tried)
      BY <1>2, <1>3, <1>4, <2>1, <2>2
    <2> QED
      BY <1>1, <2>1, <2>3, <2>4, <2>5, <1>0, Falls
  <1>8. CASE Reruns /\ phase' \notin {"final", "crashed"}
    <2>1. phase = "rerun" /\ phase' = "recovery" /\ tried' = tried /\ approved' = approved
      BY <1>8 DEF Reruns
    <2>2. /\ Rank = <<2, Len(Ladder) - Len(tried), Cardinality(Grantable \ approved), 1>>
          /\ Rank' = <<2, Len(Ladder) - Len(tried), Cardinality(Grantable \ approved), 0>>
      BY <1>3, <2>1 DEF Rank, Grantable
    <2>3. Rank'[1] = Rank[1] /\ Rank'[2] = Rank[2] /\ Rank'[3] = Rank[3] /\ Rank'[4] < Rank[4]
      BY <2>2
    <2> QED
      BY <1>0, <2>3, Falls
  <1>9. Declines \/ IsDenied \/ ReportsDefect => phase' \in {"final", "crashed"}
    BY DEF Declines, IsDenied, ReportsDefect, Closes
  <1> QED
    BY <1>5, <1>6, <1>7, <1>8, <1>9 DEF Recover

LEMMA EndDescends ==
  ASSUME IncidentInv, Rounded, IncidentInv', Rounded', Finalize \/ Abandon
  PROVE  <<Rank', Rank>> \in Descent
  <1>0. Rank \in Ranks /\ Rank' \in Ranks
    BY RankIsRank, RankIsRankAfter DEF RankParts
  <1>1. phase \in {"final", "crashed"} /\ phase' = "idle"
    BY DEF Finalize, Abandon, Returns
  <1>2. Rank = <<1, 0, 0, 0>> /\ Rank' = <<0, 0, 0, 0>>
    BY <1>1 DEF Rank
  <1> QED
    BY <1>2, <1>0, Falls

\* Every step of an incident that is open lowers its rank, and by DescentEnds
\* no rank can be lowered for ever: hints, rounds, checks, observations, actions
\* and approvals all run out, so no incident of troubleshoot() has infinitely
\* many steps, whatever the environment, the planner and the reviewer do.
THEOREM IncidentsDescend ==
  IncidentSpec => [][phase # "idle" => <<Rank', Rank>> \in Descent]_incidentVars
  <1>1. /\ IncidentInv /\ Rounded /\ IncidentInv' /\ Rounded'
        /\ [IncidentNext]_incidentVars
        => [phase # "idle" => <<Rank', Rank>> \in Descent]_incidentVars
    <2> SUFFICES ASSUME IncidentInv, Rounded, IncidentInv', Rounded', IncidentNext, phase # "idle"
                 PROVE  <<Rank', Rank>> \in Descent
      OBVIOUS
    <2>1. Diagnose \/ Recover \/ Finalize \/ Abandon
      BY DEF IncidentNext, Start
    <2> QED
      BY <2>1, DiagnosisDescends, RecoveryDescends, EndDescends
  <1> QED
    BY <1>1, IncidentInvariance, AlwaysRounded, PTL DEF IncidentSpec

\* Where the way on is not plain to see, there is one: some node of the plan
\* is next and can report something; the recovery declines, or an action is
\* proposed that is within reach of a reviewer if it needs one.
WayOn ==
  /\ phase = "checks" /\ todo # {} => \E node \in todo : IsNext(node, todo) /\ Reports(node) # {}
  /\ phase = "recovery" =>
       \/ mind.support[Leader(mind)] = {} \/ ToSet(Ladder) \subseteq ToSet(tried)
       \/ \E action \in RecoveryActions :
            Proposed(action) /\ (Affordable /\ NeedsApproval(action) => action \in Grantable)

LEMMA SomeNodeIsNext ==
  ASSUME IncidentInv, todo # {}
  PROVE  \E node \in todo : IsNext(node, todo)
  <1>1. \A n \in todo : n.layer \in Nat /\ n.id \in Nat
    BY DEF IncidentInv, IncidentTypeOK, Nodes
  <1> DEFINE layers == {n.layer : n \in todo}
  <1>2. PICK layer \in layers : \A l \in layers : layer <= l
    <2>1. PICK l \in layers : TRUE
      OBVIOUS
    <2>2. layers \in SUBSET Nat
      BY <1>1
    <2> HIDE DEF layers
    <2> QED
      BY <2>1, <2>2, FirstNumber
  <1> DEFINE ids == {n.id : n \in {m \in todo : m.layer = layer}}
  <1>3. PICK id \in ids : \A i \in ids : id <= i
    <2>1. PICK i \in ids : TRUE
      OBVIOUS
    <2>2. ids \in SUBSET Nat
      BY <1>1
    <2> HIDE DEF ids
    <2> QED
      BY <2>1, <2>2, FirstNumber
  <1>4. PICK node \in todo : node.layer = layer /\ node.id = id
    BY <1>3
  <1>5. IsNext(node, todo)
    <2> SUFFICES ASSUME NEW other \in todo
                 PROVE  \/ node.layer < other.layer
                        \/ node.layer = other.layer /\ node.id <= other.id
      BY DEF IsNext
    <2>1. layer <= other.layer /\ layer \in Nat /\ other.layer \in Nat
      BY <1>1, <1>2, <1>4
    <2>2. other.layer = layer => id <= other.id
      BY <1>3
    <2> QED
      BY <1>4, <2>1, <2>2
  <1> QED
    BY <1>5

LEMMA SomeActionIsNext ==
  ASSUME IncidentInv, phase = "recovery", mind.support[Leader(mind)] # {},
         ~ (ToSet(Ladder) \subseteq ToSet(tried))
  PROVE  \E action \in RecoveryActions : Proposed(action)
  <1>1. Ladder \in Seq(RecoveryActions)
    <2>1. Leader(mind) \in Hypotheses
      BY LeaderLeads DEF IncidentInv, Thinks, IsMind, IsBelief
    <2> QED
      BY <2>1, LadderTyped DEF Ladder
  <1> DEFINE left == {i \in 1 .. Len(Ladder) : Ladder[i] \notin ToSet(tried)}
  <1>2. PICK i \in left : \A j \in left : i <= j
    <2>1. PICK i \in left : TRUE
      BY <1>1 DEF ToSet
    <2>2. left \in SUBSET Nat
      OBVIOUS
    <2> HIDE DEF left
    <2> QED
      BY <2>1, <2>2, FirstNumber
  <1>3. \A j \in 1 .. i - 1 : Ladder[j] \in ToSet(tried)
    BY <1>1, <1>2
  <1>4. Ladder[i] \in RecoveryActions /\ i \in DOMAIN Ladder
    BY <1>1
  <1> QED
    BY <1>2, <1>3, <1>4 DEF Proposed

\* No incident is stuck: with IncidentsDescend, every incident that is
\* carried on comes to its end.
THEOREM IncidentsGoOn == IncidentSpec => []WayOn
  <1>1. ASSUME IncidentInv, phase = "checks", todo # {}
        PROVE  \E node \in todo : IsNext(node, todo) /\ Reports(node) # {}
    <2>1. PICK node \in todo : IsNext(node, todo)
      BY <1>1, SomeNodeIsNext
    <2>2. Reports(node) # {}
      BY DEF Reports
    <2> QED
      BY <2>1, <2>2
  <1>2. \A action \in RecoveryActions : NeedsApproval(action) => action \in Grantable
    BY DEF RecoveryActions, Recoveries, NeedsApproval, Grantable
  <1>3. IncidentInv => WayOn
    BY <1>1, <1>2, SomeActionIsNext DEF WayOn
  <1> QED
    BY <1>3, IncidentInvariance, PTL

==============================================================================
