------------------------- MODULE ConfigRegistryProofs -------------------------
(***************************************************************************)
(* Proofs about ConfigRegistry for every set of versions, requests,        *)
(* resolvers and caches, every split of the traffic and every bound.       *)
(***************************************************************************)
EXTENDS ConfigRegistry, TLAPS, SequenceTheorems, FiniteSetTheorems

(***************************************************************************)
(* The tables that the requests make.                                      *)
(***************************************************************************)
LEMMA SingleTable ==
    ASSUME NEW v \in Versions, NEW w \in 0 .. Whole
    PROVE  Single(v, w) \in Tables /\ Len(Single(v, w)) = 1
BY DEF Single, Tables, Rules

LEMMA TwoRules ==
    ASSUME NEW v \in Versions, NEW w \in 0 .. Whole, NEW u \in Versions, NEW x \in 0 .. Whole
    PROVE  LET table == Single(v, w) \o Single(u, x)
           IN  /\ table \in Tables /\ Len(table) = 2
               /\ table[1] = [version |-> v, weight |-> w]
               /\ table[2] = [version |-> u, weight |-> x]
<1> DEFINE a == [version |-> v, weight |-> w]
           b == [version |-> u, weight |-> x]
           table == Single(v, w) \o Single(u, x)
<1>1. a \in Rules /\ b \in Rules
  BY DEF Rules
<1>2. <<a>> \in Seq(Rules) /\ <<b>> \in Seq(Rules) /\ Len(<<a>>) = 1 /\ Len(<<b>>) = 1
  BY <1>1
<1>3. table = <<a>> \o <<b>>
  BY DEF Single
<1> HIDE DEF a, b, table
<1>4. /\ table \in Seq(Rules) /\ Len(table) = 2
      /\ table[1] = <<a>>[1] /\ table[2] = <<b>>[1]
  BY <1>2, <1>3, ConcatProperties
<1>5. table \in [1 .. 2 -> Rules]
  BY <1>4, LenProperties
<1> QED
  BY <1>4, <1>5 DEF a, b, table, Tables

LEMMA TableLength ==
    ASSUME NEW table \in Tables
    PROVE  /\ Len(table) \in {1, 2}
           /\ table[1] \in Rules
           /\ Len(table) = 2 => table[2] \in Rules
<1>1. ASSUME NEW n \in {1, 2}, table \in [1 .. n -> Rules]
      PROVE  Len(table) = n
  BY <1>1, LenProperties
<1> QED
  BY <1>1 DEF Tables

LEMMA PrimaryVersion ==
    ASSUME NEW table \in Tables
    PROVE  Primary(table) \in Versions
BY TableLength DEF Primary, IsSingle, Rules

LEMMA SplitTable ==
    ASSUME NEW table \in Tables, NEW v \in Versions, NEW percent \in 0 .. Whole
    PROVE  Split(table, v, percent) \in Tables
<1>1. Whole - percent \in 0 .. Whole
  BY ConfigRoutingAssumption
<1> QED
  BY <1>1, SingleTable, TwoRules, PrimaryVersion DEF Split

LEMMA PublishedDeployment ==
    ASSUME NEW d \in Deployments \cup {None}, NEW v \in Versions, NEW percent \in 0 .. Whole
    PROVE  Published(d, v, percent) \in Deployments
<1>1. Whole \in 0 .. Whole
  BY ConfigRoutingAssumption
<1>2. CASE d = None
  BY <1>1, <1>2, SingleTable DEF Published, Deployments
<1>3. CASE d # None
  BY <1>3, SplitTable DEF Published, Deployments, NextStatus
<1> QED
  BY <1>2, <1>3

LEMMA RolledOutDeployment ==
    ASSUME NEW d \in Deployments, NEW v \in Versions, NEW percent \in 0 .. Whole
    PROVE  /\ RolledOut(d, v, percent) \in Deployments
           /\ RolledOut(d, v, percent).previous = d.previous
           /\ RolledOut(d, v, percent).rules = Split(d.rules, v, percent)
BY SplitTable DEF RolledOut, Deployments, NextStatus

LEMMA RolledBackDeployment ==
    ASSUME NEW table \in Tables
    PROVE  RolledBack(table) \in Deployments
BY DEF RolledBack, Deployments

(***************************************************************************)
(* Types.  Between the read of the row and the delete of the cached table  *)
(* a request works on a change that was decided from the row it read.      *)
(***************************************************************************)
Creations == [act : {"create"}, version : Versions]

Changes ==
    [act : {"deploy", "rollout", "rollback"}, version : Versions \cup {None},
     percent : 0 .. Whole, site : Sites, before : Deployments \cup {None}, after : Deployments]

Decided(j) ==
    \/ /\ j.act = "deploy"
       /\ j.after = Published(j.before, j.version, j.percent)
    \/ /\ j.act = "rollout"
       /\ j.before \in Deployments /\ j.before # None /\ j.version \in Versions
       /\ j.after = RolledOut(j.before, j.version, j.percent)
    \/ /\ j.act = "rollback"
       /\ \E table \in Tables : j.after = RolledBack(table)

JobTyped ==
    \A q \in Requests :
       /\ pc[q] = "insert" => job[q] \in Creations
       /\ pc[q] \in {"upsert", "delete"} => job[q] \in Changes /\ Decided(job[q])
       /\ pc[q] = "audit" => job[q] \in Jobs

Typed == TypeOK /\ JobTyped

LEMMA JobKinds == Jobs = Creations \cup Changes
BY DEF Jobs, Creations, Changes

LEMMA TypedInit == Init => Typed
<1> SUFFICES ASSUME Init PROVE Typed
  OBVIOUS
<1>1. 0 \in 0 .. MaxChanges /\ 0 \in 0 .. MaxFailures
  BY ConfigRegistryAssumption
<1>2. configs \in [Versions -> Requests \cup {"stored", None}]
  BY DEF Init
<1>3. cache \in [Sites -> Deployments \cup {None}] /\ copy \in [Tasks -> Deployments \cup {None}]
  BY DEF Init
<1>4. JobTyped /\ pc \in [Requests -> {"idle", "insert", "upsert", "delete", "audit"}]
               /\ job \in [Requests -> Jobs \cup {None}]
  BY DEF Init, JobTyped
<1> QED
  BY <1>1, <1>2, <1>3, <1>4 DEF Init, Typed, TypeOK

LEMMA BeginsTyped ==
    ASSUME Typed, NEW q \in Requests, Begins(q)
    PROVE  /\ changes' \in 0 .. MaxChanges
           /\ UNCHANGED <<configs, row, cache, rpc, copy, excused, undo, lost, failures>>
BY ConfigRegistryAssumption
   DEF Begins, Typed, TypeOK, tableVars, resolverVars, historyVars

LEMMA GoesTyped ==
    ASSUME Typed, NEW q \in Requests, NEW step \in {"idle", "insert", "upsert", "delete", "audit"},
           NEW work \in Jobs \cup {None}, Goes(q, step, work),
           step = "insert" => work \in Creations,
           step \in {"upsert", "delete"} => work \in Changes /\ Decided(work),
           step = "audit" => work \in Jobs
    PROVE  /\ pc' \in [Requests -> {"idle", "insert", "upsert", "delete", "audit"}]
           /\ job' \in [Requests -> Jobs \cup {None}]
           /\ JobTyped'
<1>1. pc'[q] = step /\ job'[q] = work
  BY DEF Goes, Typed, TypeOK
<1>2. \A r \in Requests \ {q} : pc'[r] = pc[r] /\ job'[r] = job[r]
  BY DEF Goes, Typed, TypeOK
<1>3. JobTyped'
  BY <1>1, <1>2 DEF Typed, JobTyped
<1> QED
  BY <1>3 DEF Goes, Typed, TypeOK

LEMMA CreatesTyped ==
    ASSUME Typed, NEW q \in Requests, Creates(q)
    PROVE  Typed'
<1>1. [act |-> "create", version |-> NextVersion] \in Creations
  BY DEF Creates, Creations
<1> QED
  BY <1>1, BeginsTyped, GoesTyped, JobKinds DEF Creates, Typed, TypeOK

\* What a request has decided from the row it read.
LEMMA DecidesTyped ==
    ASSUME Typed, NEW q \in Requests, Begins(q),
           NEW act \in {"deploy", "rollout", "rollback"}, NEW v \in Versions \cup {None},
           NEW percent \in 0 .. Whole, NEW after \in Deployments,
           Decides(q, act, v, percent, after),
           \/ act = "deploy" /\ after = Published(row, v, percent)
           \/ act = "rollout" /\ row # None /\ v \in Versions /\ after = RolledOut(row, v, percent)
           \/ act = "rollback" /\ \E table \in Tables : after = RolledBack(table)
    PROVE  Typed'
<1> PICK s \in Sites : Goes(q, "upsert", [act |-> act, version |-> v, percent |-> percent,
                                         site |-> s, before |-> row, after |-> after])
  BY DEF Decides
<1> DEFINE j == [act |-> act, version |-> v, percent |-> percent, site |-> s, before |-> row,
                 after |-> after]
<1>1. row \in Deployments \cup {None}
  BY DEF Typed, TypeOK
<1>2. j \in Changes /\ Decided(j)
  BY <1>1 DEF Changes, Decided
<1> QED
  BY <1>2, BeginsTyped, GoesTyped, JobKinds DEF Typed, TypeOK

LEMMA PercentsTyped == Percents \subseteq 0 .. Whole /\ Whole \in 0 .. Whole
BY ConfigRoutingAssumption

LEMMA PublishesTyped ==
    ASSUME Typed, NEW q \in Requests, Publishes(q)
    PROVE  Typed'
<1> PICK v \in Versions, percent \in Percents :
       Decides(q, "deploy", v, percent, Published(row, v, percent))
  BY DEF Publishes
<1>1. Published(row, v, percent) \in Deployments
  BY PublishedDeployment, PercentsTyped DEF Typed, TypeOK
<1> QED
  BY <1>1, DecidesTyped, PercentsTyped DEF Publishes

LEMMA RollsOutTyped ==
    ASSUME Typed, NEW q \in Requests, RollsOut(q)
    PROVE  Typed'
<1> PICK v \in Versions, percent \in Percents :
       Decides(q, "rollout", v, percent, RolledOut(row, v, percent))
  BY DEF RollsOut
<1>1. row # None /\ RolledOut(row, v, percent) \in Deployments
  BY RolledOutDeployment, PercentsTyped DEF RollsOut, Typed, TypeOK
<1> QED
  BY <1>1, DecidesTyped, PercentsTyped DEF RollsOut

LEMMA RollsBackTyped ==
    ASSUME Typed, NEW q \in Requests, RollsBack(q)
    PROVE  Typed'
<1>1. ASSUME NEW v \in Versions \cup {None}, NEW table \in Tables,
             Decides(q, "rollback", v, Whole, RolledBack(table))
      PROVE  Typed'
  BY <1>1, RolledBackDeployment, DecidesTyped, PercentsTyped DEF RollsBack
<1>2. row.previous # None => row.previous \in Tables
  BY DEF RollsBack, Typed, TypeOK, Deployments
<1> QED
  BY <1>1, <1>2, SingleTable, PercentsTyped DEF RollsBack

LEMMA RequestStepTyped ==
    ASSUME Typed, NEW q \in Requests, RequestStep(q) \/ CutShort(q)
    PROVE  Typed'
<1> USE DEF Typed, TypeOK, JobTyped
<1>1. CASE Inserts(q)
  <2>1. job[q] \in Creations
    BY <1>1 DEF Inserts
  <2>2. job[q].version \in Versions
    BY <2>1 DEF Creations
  <2>3. configs' \in [Versions -> Requests \cup {"stored", None}]
    BY <1>1, <2>2 DEF Inserts, Insert
  <2>4. Goes(q, "audit", job[q]) \/ Goes(q, "idle", None)
    BY <1>1 DEF Inserts, Insert
  <2>5. UNCHANGED <<row, cache, rpc, copy, excused, undo, lost, changes, failures>>
    BY <1>1 DEF Inserts, resolverVars, historyVars, budgetVars
  <2> QED
    BY <2>1, <2>3, <2>4, <2>5, GoesTyped, JobKinds
<1>2. CASE Upserts(q)
  <2>1. job[q] \in Changes /\ Decided(job[q]) /\ Goes(q, "delete", job[q])
    BY <1>2 DEF Upserts
  <2>2. row' \in Deployments /\ excused' \subseteq Sites
    BY <1>2, <2>1 DEF Upserts, Changes, LeftStale, Tasks
  <2>3. undo' \in Tables \cup {None} /\ lost' \in BOOLEAN
    BY <1>2 DEF Upserts, Deployments
  <2>4. UNCHANGED <<configs, cache, rpc, copy, changes, failures>>
    BY <1>2 DEF Upserts, resolverVars, budgetVars
  <2> QED
    BY <2>1, <2>2, <2>3, <2>4, GoesTyped, JobKinds
<1>3. CASE Deletes(q)
  <2>1. job[q] \in Changes /\ Goes(q, "audit", job[q])
    BY <1>3 DEF Deletes
  <2>2. cache' \in [Sites -> Deployments \cup {None}]
    BY <1>3 DEF Deletes, Invalidate, Cached
  <2>3. UNCHANGED <<configs, row, rpc, copy, excused, undo, lost, changes, failures>>
    BY <1>3 DEF Deletes, resolverVars, historyVars, budgetVars
  <2> QED
    BY <2>1, <2>2, <2>3, GoesTyped, JobKinds
<1>4. CASE Audits(q) \/ CutShort(q)
  <2>1. Goes(q, "idle", None) /\ UNCHANGED <<configs, row, cache, rpc, copy, undo, lost, changes>>
    BY <1>4 DEF Audits, CutShort, tableVars, resolverVars, historyVars, budgetVars
  <2>2. excused' \subseteq Sites /\ failures' \in 0 .. MaxFailures
    BY <1>4, ConfigRegistryAssumption DEF Audits, CutShort, historyVars, budgetVars
  <2> QED
    BY <2>1, <2>2, GoesTyped
<1> QED
  BY <1>1, <1>2, <1>3, <1>4 DEF RequestStep

LEMMA TypedNext == Typed /\ [Next]_vars => Typed'
<1> SUFFICES ASSUME Typed, [Next]_vars PROVE Typed'
  OBVIOUS
<1>1. ASSUME NEW t \in Tasks, Misses(t) \/ ResolverStep(t)
      PROVE  Typed'
  <2> USE DEF Typed, TypeOK
  <2>1. JobTyped' /\ UNCHANGED <<configs, row, pc, job, excused, undo, lost, changes, failures>>
    BY <1>1 DEF Misses, ResolverStep, Reads, Fills, JobTyped, tableVars, requestVars, historyVars,
                budgetVars
  <2>2. cache' \in [Sites -> Deployments \cup {None}]
    BY <1>1 DEF Misses, ResolverStep, Reads, Fills, Cached, tableVars, Tasks
  <2>3. rpc' \in [Tasks -> {"idle", "read", "set"}] /\ copy' \in [Tasks -> Deployments \cup {None}]
    BY <1>1 DEF Misses, ResolverStep, Reads, Fills
  <2> QED
    BY <2>1, <2>2, <2>3
<1>2. ASSUME NEW s \in Sites, Expires(s)
      PROVE  Typed'
  BY <1>2 DEF Expires, Cached, Typed, TypeOK, JobTyped, requestVars, resolverVars, historyVars,
              budgetVars
<1>3. CASE UNCHANGED vars
  BY <1>3 DEF vars, tableVars, requestVars, resolverVars, historyVars, budgetVars, Typed, TypeOK,
              JobTyped
<1> QED
  BY <1>1, <1>2, <1>3, CreatesTyped, PublishesTyped, RollsOutTyped, RollsBackTyped,
     RequestStepTyped DEF Next

LEMMA AlwaysTyped == Spec => []Typed
BY TypedInit, TypedNext, PTL DEF Spec

\* Every variable of the registry has its type, whatever the requests ask for.
THEOREM RegistryTypeCorrect == Spec => []TypeOK
<1>1. Typed => TypeOK
  BY DEF Typed
<1> QED
  BY <1>1, AlwaysTyped, PTL

(***************************************************************************)
(* Stale caches.  A resolver that holds a row which is no longer the row   *)
(* is a cause the properties know: its site was excused with the change.   *)
(***************************************************************************)
CopiesKnown == \A t \in Tasks : rpc[t] = "set" => copy[t] = row \/ t[2] \in excused

Fresh == StaleOnlyByRace /\ CopiesKnown

LEMMA FreshInit == Init => Fresh
BY DEF Init, Fresh, StaleOnlyByRace, CopiesKnown

LEMMA UpsertsFresh ==
    ASSUME Typed, Fresh, NEW q \in Requests, Upserts(q)
    PROVE  Fresh'
<1> USE DEF Typed, TypeOK, JobTyped, Upserts
<1>1. /\ pc' = [pc EXCEPT ![q] = "delete"] /\ job' = [job EXCEPT ![q] = job[q]]
      /\ UNCHANGED <<cache, rpc, copy>>
  BY DEF Goes, resolverVars
<1>2. job[q].site \in Sites
  BY DEF Changes
<1>3. \A s \in Sites : s # job[q].site => s \in excused'
  BY DEF LeftStale
<1>4. \A t \in Tasks : rpc[t] = "set" => t[2] \in excused'
  BY DEF LeftStale
<1>5. pc'[q] = "delete" /\ job'[q].site = job[q].site
  BY <1>1
<1> QED
  BY <1>1, <1>2, <1>3, <1>4, <1>5 DEF Fresh, StaleOnlyByRace, CopiesKnown

LEMMA DeletesFresh ==
    ASSUME Typed, Fresh, NEW q \in Requests, Deletes(q)
    PROVE  Fresh'
<1> USE DEF Typed, TypeOK
<1>1. /\ pc' = [pc EXCEPT ![q] = "audit"] /\ job' = [job EXCEPT ![q] = job[q]]
      /\ UNCHANGED <<row, rpc, copy, excused>>
      /\ cache' = [cache EXCEPT ![job[q].site] = None]
  BY DEF Deletes, Goes, Invalidate, Cached, resolverVars, historyVars
<1>2. ASSUME NEW s \in Sites
      PROVE  \/ cache'[s] \in {None, row'}
             \/ s \in excused'
             \/ \E r \in Requests : pc'[r] = "delete" /\ job'[r].site = s
  <2>1. CASE s = job[q].site
    BY <1>1, <2>1
  <2>2. CASE s # job[q].site
    <3>1. cache'[s] = cache[s]
      BY <1>1, <2>2
    <3>2. \A r \in Requests : pc[r] = "delete" /\ job[r].site = s => r # q
      BY <2>2
    <3>3. \A r \in Requests : r # q => pc'[r] = pc[r] /\ job'[r] = job[r]
      BY <1>1
    <3> QED
      BY <1>1, <3>1, <3>2, <3>3 DEF Fresh, StaleOnlyByRace
  <2> QED
    BY <2>1, <2>2
<1> QED
  BY <1>1, <1>2 DEF Fresh, StaleOnlyByRace, CopiesKnown

LEMMA CutShortFresh ==
    ASSUME Typed, Fresh, NEW q \in Requests, CutShort(q)
    PROVE  Fresh'
<1> USE DEF Typed, TypeOK, CutShort, Fresh, StaleOnlyByRace, CopiesKnown
<1>1. UNCHANGED <<row, cache, rpc, copy>> /\ excused \subseteq excused'
  BY DEF tableVars, resolverVars
<1>2. CASE pc[q] = "delete"
  BY <1>1, <1>2 DEF Tasks
<1>3. CASE pc[q] # "delete"
  <2>1. \A r \in Requests : pc[r] = "delete" => pc'[r] = "delete" /\ job'[r] = job[r]
    BY <1>3 DEF Goes
  <2> QED
    BY <1>1, <2>1
<1> QED
  BY <1>2, <1>3

\* A request that neither writes the row nor deletes the cached table.
LEMMA OtherRequestsFresh ==
    ASSUME Typed, Fresh, NEW q \in Requests,
           Creates(q) \/ Publishes(q) \/ RollsOut(q) \/ RollsBack(q) \/ Inserts(q) \/ Audits(q)
    PROVE  Fresh'
<1> USE DEF Typed, TypeOK
<1>1. UNCHANGED <<row, cache, rpc, copy, excused>>
  BY DEF Creates, Publishes, RollsOut, RollsBack, Inserts, Audits, Begins, tableVars, resolverVars,
         historyVars
<1>2. pc[q] # "delete"
  BY DEF Creates, Publishes, RollsOut, RollsBack, Inserts, Audits, Begins
<1>3. \E step, work : Goes(q, step, work)
  BY DEF Creates, Publishes, RollsOut, RollsBack, Inserts, Insert, Audits, Decides
<1>4. \A r \in Requests : pc[r] = "delete" => pc'[r] = "delete" /\ job'[r] = job[r]
  BY <1>2, <1>3 DEF Goes
<1> QED
  BY <1>1, <1>4 DEF Fresh, StaleOnlyByRace, CopiesKnown

LEMMA ResolversFresh ==
    ASSUME Typed, Fresh, NEW t \in Tasks, Misses(t) \/ Reads(t) \/ Fills(t)
    PROVE  Fresh'
<1> USE DEF Typed, TypeOK, Fresh, StaleOnlyByRace, CopiesKnown
<1>1. CASE Misses(t)
  BY <1>1 DEF Misses, tableVars, requestVars, historyVars
<1>2. CASE Reads(t)
  BY <1>2 DEF Reads, tableVars, requestVars, historyVars
<1>3. CASE Fills(t)
  <2>1. t[2] \in Sites /\ (copy[t] = row \/ t[2] \in excused)
    BY <1>3 DEF Fills, Tasks
  <2> QED
    BY <1>3, <2>1 DEF Fills, Cached, requestVars, historyVars
<1> QED
  BY <1>1, <1>2, <1>3

LEMMA FreshNext == Typed /\ Fresh /\ [Next]_vars => Fresh'
<1> SUFFICES ASSUME Typed, Fresh, [Next]_vars PROVE Fresh'
  OBVIOUS
<1>1. ASSUME NEW s \in Sites, Expires(s)
      PROVE  Fresh'
  BY <1>1 DEF Expires, Cached, Typed, TypeOK, Fresh, StaleOnlyByRace, CopiesKnown, requestVars,
              resolverVars, historyVars
<1>2. CASE UNCHANGED vars
  BY <1>2 DEF vars, tableVars, requestVars, resolverVars, historyVars, Fresh, StaleOnlyByRace,
              CopiesKnown
<1> QED
  BY <1>1, <1>2, UpsertsFresh, DeletesFresh, CutShortFresh, OtherRequestsFresh, ResolversFresh
     DEF Next, RequestStep, ResolverStep

\* Whenever a cached table is not the row, one of the four known causes is at
\* work.
THEOREM StalenessHasCause == Spec => []StaleOnlyByRace
<1>1. Fresh => StaleOnlyByRace
  BY DEF Fresh
<1> QED
  BY <1>1, FreshInit, FreshNext, AlwaysTyped, PTL DEF Spec

(***************************************************************************)
(* Rollback.                                                               *)
(***************************************************************************)
LEMMA UpsertsUndo ==
    ASSUME Typed, RollbackUndoes, NEW q \in Requests, Upserts(q)
    PROVE  RollbackUndoes'
<1> SUFFICES ASSUME row' # None, ~lost'
             PROVE  row'.previous = undo'
  BY DEF RollbackUndoes
<1>1. job[q] \in Changes /\ Decided(job[q])
  BY DEF Upserts, Typed, JobTyped
<1>2. row = job[q].before /\ ~lost /\ row' = job[q].after
  BY DEF Upserts
<1>3. undo' = CASE job[q].act = "rollout" -> undo
                [] job[q].act = "deploy" -> IF row = None THEN None ELSE row.rules
                [] OTHER -> None
  BY DEF Upserts
<1>4. CASE job[q].act = "deploy"
  <2>1. row' = Published(row, job[q].version, job[q].percent)
    BY <1>1, <1>2, <1>4 DEF Decided
  <2> QED
    BY <1>3, <1>4, <2>1 DEF Published
<1>5. CASE job[q].act = "rollout"
  <2>1. /\ job[q].before \in Deployments /\ job[q].before # None /\ job[q].version \in Versions
        /\ job[q].after = RolledOut(job[q].before, job[q].version, job[q].percent)
    BY <1>1, <1>5 DEF Decided
  <2>2. job[q].percent \in 0 .. Whole
    BY <1>1 DEF Changes
  <2>3. row'.previous = row.previous
    BY <1>2, <2>1, <2>2, RolledOutDeployment
  <2> QED
    BY <1>2, <1>3, <1>5, <2>1, <2>3 DEF RollbackUndoes
<1>6. CASE job[q].act = "rollback"
  <2>1. PICK table \in Tables : row' = RolledBack(table)
    BY <1>1, <1>2, <1>6 DEF Decided
  <2> QED
    BY <1>3, <1>6, <2>1 DEF RolledBack
<1> QED
  BY <1>1, <1>4, <1>5, <1>6 DEF Decided

LEMMA UndoNext == Typed /\ RollbackUndoes /\ [Next]_vars => RollbackUndoes'
<1> SUFFICES ASSUME Typed, RollbackUndoes, [Next]_vars PROVE RollbackUndoes'
  OBVIOUS
<1>1. CASE UNCHANGED <<row, undo, lost>>
  BY <1>1 DEF RollbackUndoes
<1>2. (\E q \in Requests : Upserts(q)) \/ UNCHANGED <<row, undo, lost>>
  BY DEF Next, RequestStep, ResolverStep, Creates, Publishes, RollsOut, RollsBack, Begins, Inserts,
         Deletes, Audits, CutShort, Misses, Reads, Fills, Expires, vars, tableVars, historyVars
<1> QED
  BY <1>1, <1>2, UpsertsUndo

\* Unless a request overwrote a change it had not read, a rollback restores
\* the table that was live before the last publish.
THEOREM RollbackRestores == Spec => []RollbackUndoes
<1>1. Init => RollbackUndoes
  BY DEF Init, RollbackUndoes
<1> QED
  BY <1>1, UndoNext, AlwaysTyped, PTL DEF Spec

(***************************************************************************)
(* The canary.  Below half of the traffic a candidate has the upper        *)
(* buckets, in the old table and in the new: of two such sets the smaller  *)
(* is part of the larger.                                                  *)
(***************************************************************************)
Upper(w) == {bucket \in Buckets : w <= bucket}

LEMMA BucketsFinite ==
    ASSUME NEW S \in SUBSET Buckets
    PROVE  IsFiniteSet(S) /\ Cardinality(S) \in Nat
<1>1. IsFiniteSet(Buckets)
  BY ConfigRoutingAssumption, FS_Interval DEF Buckets
<1> QED
  BY <1>1, FS_Subset, FS_CardinalityType

LEMMA UpperChain ==
    ASSUME NEW w \in Nat, NEW x \in Nat, Cardinality(Upper(w)) <= Cardinality(Upper(x))
    PROVE  Upper(w) \subseteq Upper(x)
<1>1. Upper(w) \subseteq Buckets /\ Upper(x) \subseteq Buckets
  BY DEF Upper
<1>2. CASE x <= w
  BY <1>2, ConfigRoutingAssumption DEF Upper, Buckets
<1>3. CASE w <= x
  <2>1. Upper(x) \subseteq Upper(w)
    BY <1>3, ConfigRoutingAssumption DEF Upper, Buckets
  <2>2. /\ IsFiniteSet(Upper(w)) /\ Cardinality(Upper(x)) <= Cardinality(Upper(w))
        /\ Cardinality(Upper(w)) \in Nat /\ Cardinality(Upper(x)) \in Nat
    BY <1>1, <2>1, BucketsFinite, FS_Subset
  <2>3. Upper(w) = Upper(x)
    BY <2>1, <2>2, FS_Subset
  <2> QED
    BY <2>3
<1> QED
  BY <1>2, <1>3

\* What is not the primary version has no users, or the upper buckets.
LEMMA CandidateUsers ==
    ASSUME NEW table \in Tables, NEW v \in Versions, v # Primary(table)
    PROVE  Users(table, v) = {} \/ \E w \in Nat : Users(table, v) = Upper(w)
<1>1. /\ Len(table) \in {1, 2} /\ table[1] \in Rules
      /\ Len(table) = 2 => table[2] \in Rules
  BY TableLength
<1>2. CASE IsSingle(table)
  <2>1. \A bucket \in Buckets : Route(table, bucket) = table[1].version
    BY <1>2 DEF Route, Ordered
  <2> QED
    BY <1>2, <2>1 DEF Users, Primary
<1>3. CASE ~IsSingle(table)
  <2> DEFINE first == Ordered(table)[1]
             second == Ordered(table)[2]
  <2>1. table[2] \in Rules /\ table[1].weight \in 0 .. Whole /\ table[2].weight \in 0 .. Whole
    BY <1>1, <1>3 DEF IsSingle, Rules
  <2>2. first \in Rules /\ first.version = Primary(table)
    <3>1. CASE table[2].weight > table[1].weight
      <4>1. Ordered(table) = <<table[2], table[1]>> /\ Primary(table) = table[2].version
        BY <1>3, <2>1, <3>1, ConfigRoutingAssumption DEF Ordered, Primary
      <4> QED
        BY <2>1, <4>1
    <3>2. CASE ~(table[2].weight > table[1].weight)
      <4>1. Ordered(table) = table /\ Primary(table) = table[1].version
        BY <1>3, <2>1, <3>2, ConfigRoutingAssumption DEF Ordered, Primary
      <4> QED
        BY <1>1, <4>1
    <3> QED
      BY <3>1, <3>2
  <2>3. first.weight \in Nat
    BY <2>2, ConfigRoutingAssumption DEF Rules
  <2>4. \A bucket \in Buckets : Route(table, bucket) = IF bucket < first.weight
                                                        THEN first.version ELSE second.version
    BY <1>3 DEF Route
  <2> HIDE DEF first, second
  <2>5. CASE second.version = v
    <3>1. Users(table, v) = {bucket \in Buckets : ~(bucket < first.weight)}
      BY <2>2, <2>4, <2>5 DEF Users
    <3>2. Users(table, v) = Upper(first.weight)
      BY <2>3, <3>1, ConfigRoutingAssumption DEF Upper, Buckets
    <3> QED
      BY <2>3, <3>2
  <2>6. CASE second.version # v
    BY <2>2, <2>4, <2>6 DEF Users
  <2> QED
    BY <2>5, <2>6
<1> QED
  BY <1>2, <1>3

\* A split below half leaves the primary version first.
LEMMA SplitKeepsPrimary ==
    ASSUME NEW table \in Tables, NEW v \in Versions, NEW percent \in 0 .. Whole,
           v # Primary(table), 2 * percent <= Whole, percent # Whole
    PROVE  Primary(Split(table, v, percent)) = Primary(table)
<1> DEFINE u == Primary(table)
           split == Split(table, v, percent)
<1>1. u \in Versions /\ Whole - percent \in 0 .. Whole /\ Whole - percent >= percent
  BY PrimaryVersion, ConfigRoutingAssumption
<1>2. split = Single(u, Whole - percent) \o Single(v, percent)
  BY DEF Split
<1>3. /\ Len(split) = 2
      /\ split[1] = [version |-> u, weight |-> Whole - percent]
      /\ split[2] = [version |-> v, weight |-> percent]
  BY <1>1, <1>2, TwoRules
<1> HIDE DEF split, u
<1>4. Primary(split) = u
  BY <1>1, <1>3 DEF Primary, IsSingle
<1> QED
  BY <1>4 DEF split, u

LEMMA SingleUsers ==
    ASSUME NEW v \in Versions, NEW w \in 0 .. Whole
    PROVE  Users(Single(v, w), v) = Buckets
<1>1. IsSingle(Single(v, w)) /\ Single(v, w)[1].version = v
  BY DEF IsSingle, Single
<1> QED
  BY <1>1 DEF Users, Route, Ordered

LEMMA RolloutSticks ==
    ASSUME NEW table \in Tables, NEW v \in Versions, NEW percent \in 0 .. Whole,
           2 * percent <= Whole \/ percent = Whole,
           Cardinality(Users(table, v)) <= Cardinality(Users(Split(table, v, percent), v))
    PROVE  Users(table, v) \subseteq Users(Split(table, v, percent), v)
<1> DEFINE before == Users(table, v)
           after == Users(Split(table, v, percent), v)
<1>1. before \subseteq Buckets
  BY DEF Users
<1>2. CASE percent = Whole \/ v = Primary(table)
  BY <1>1, <1>2, SingleUsers DEF Split
<1>3. CASE percent # Whole /\ v # Primary(table)
  <2>1. Split(table, v, percent) \in Tables /\ v # Primary(Split(table, v, percent))
    BY <1>3, SplitTable, SplitKeepsPrimary
  <2>2. \/ before = {}
        \/ \E w \in Nat : before = Upper(w)
    BY <1>3, CandidateUsers
  <2>3. \/ after = {}
        \/ \E x \in Nat : after = Upper(x)
    BY <2>1, CandidateUsers
  <2>4. CASE after = {}
    <3>1. Cardinality(after) = 0 /\ IsFiniteSet(before) /\ Cardinality(before) \in Nat
      BY <1>1, <2>4, BucketsFinite, FS_EmptySet
    <3>2. Cardinality(before) = 0
      BY <3>1
    <3> QED
      BY <3>1, <3>2, FS_EmptySet
  <2> QED
    BY <2>2, <2>3, <2>4, UpperChain
<1> QED
  BY <1>2, <1>3

\* A rollout to at most half, or to all of the traffic, takes the candidate
\* from nobody unless it leaves the candidate with fewer users.
THEOREM CanarySticks == Spec => []CanaryIsSticky
<1>1. Typed => CanaryIsSticky
  <2> SUFFICES ASSUME Typed, NEW q \in Requests, pc[q] \in {"upsert", "delete"},
                      job[q].act = "rollout",
                      2 * job[q].percent <= Whole \/ job[q].percent = Whole,
                      Cardinality(Users(job[q].before.rules, job[q].version))
                         <= Cardinality(Users(job[q].after.rules, job[q].version))
               PROVE  Users(job[q].before.rules, job[q].version)
                         \subseteq Users(job[q].after.rules, job[q].version)
    BY DEF CanaryIsSticky
  <2>1. /\ job[q].before \in Deployments /\ job[q].version \in Versions
        /\ job[q].after = RolledOut(job[q].before, job[q].version, job[q].percent)
        /\ job[q].percent \in 0 .. Whole
    BY DEF Typed, JobTyped, Decided, Changes
  <2>2. /\ job[q].before.rules \in Tables
        /\ job[q].after.rules = Split(job[q].before.rules, job[q].version, job[q].percent)
    BY <2>1, RolledOutDeployment DEF Deployments
  <2> QED
    BY <2>1, <2>2, RolloutSticks
<1> QED
  BY <1>1, AlwaysTyped, PTL

=============================================================================
