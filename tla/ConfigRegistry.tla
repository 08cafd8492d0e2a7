---------------------------- MODULE ConfigRegistry ----------------------------
(***************************************************************************)
(* prompt-config-registry: one agent in one environment.  Requests append  *)
(* config versions, publish, roll out and roll back; resolvers read the    *)
(* routing table through a cache.  Every await of a request is a step.     *)
(***************************************************************************)
EXTENDS ConfigRouting, FiniteSets, FiniteSetsExt

CONSTANTS
    Requests,      \* the requests that may be under way at once
    Resolvers,     \* the resolutions that may be under way at once at a site
    Sites,         \* the caches: one for Redis, one per process in memory
    Stored,        \* the versions the table of configs holds at the start
    MaxChanges,    \* bound: requests that were begun
    MaxFailures    \* bound: commits that were cut short

ASSUME ConfigRegistryAssumption ==
    /\ Stored \subseteq Versions
    /\ {MaxChanges, MaxFailures} \subseteq Nat

VARIABLES
    configs,    \* config version -> the request that wrote it, or None
    row,        \* the row of the table of deployments, or None
    cache,      \* site -> the deployment cached there, or None
    pc, job,    \* request -> its next step, and what it works on
    rpc, copy,  \* resolution -> its next step, and the row it read
    changes, failures

\* History: what the properties compare with.
VARIABLES
    excused,    \* the sites whose cache a change may have left stale
    undo,       \* the table before the last publish
    lost        \* a request overwrote a change it had not read

tableVars == <<configs, row, cache>>
requestVars == <<pc, job>>
resolverVars == <<rpc, copy>>
historyVars == <<excused, undo, lost>>
budgetVars == <<changes, failures>>

vars == <<tableVars, requestVars, resolverVars, historyVars, budgetVars>>

Jobs == [act : {"create"}, version : Versions]
          \cup [act : {"deploy", "rollout", "rollback"}, version : Versions \cup {None},
                percent : 0 .. Whole, site : Sites,
                before : Deployments \cup {None}, after : Deployments]

\* A resolution goes through the cache of its site.
Tasks == Resolvers \X Sites

Exists(v) == v \in Versions /\ configs[v] # None

Init ==
    /\ configs = [v \in Versions |-> IF v \in Stored THEN "stored" ELSE None]
    /\ row = None
    /\ cache = [s \in Sites |-> None]
    /\ pc = [q \in Requests |-> "idle"] /\ job = [q \in Requests |-> None]
    /\ rpc = [t \in Tasks |-> "idle"] /\ copy = [t \in Tasks |-> None]
    /\ excused = {} /\ undo = None /\ lost = FALSE
    /\ changes = 0 /\ failures = 0

Goes(q, step, work) ==
    /\ pc' = [pc EXCEPT ![q] = step]
    /\ job' = [job EXCEPT ![q] = work]

Begins(q) ==
    /\ pc[q] = "idle"
    /\ changes < MaxChanges
    /\ changes' = changes + 1
    /\ UNCHANGED <<tableVars, resolverVars, historyVars, failures>>

(***************************************************************************)
(* create_config: the next number is read, and then inserted.              *)
(***************************************************************************)
NextVersion == 1 + Max({0} \cup {v \in Versions : configs[v] # None})

Creates(q) ==
    /\ Begins(q)
    /\ NextVersion \in Versions
    /\ Goes(q, "insert", [act |-> "create", version |-> NextVersion])

Insert(q, v) ==
    IF configs[v] = None
       THEN configs' = [configs EXCEPT ![v] = q] /\ Goes(q, "audit", job[q])
       ELSE UNCHANGED configs /\ Goes(q, "idle", None)

Inserts(q) ==
    /\ pc[q] = "insert"
    /\ Insert(q, job[q].version)
    /\ UNCHANGED <<row, cache, resolverVars, historyVars, budgetVars>>

(***************************************************************************)
(* publish, rollout and rollback: each reads the row, decides, and commits *)
(* what it decided by writing the row, deleting the cached table and       *)
(* recording the change.                                                   *)
(***************************************************************************)
Decides(q, act, v, percent, after) ==
    \E s \in Sites :
       Goes(q, "upsert", [act |-> act, version |-> v, percent |-> percent, site |-> s,
                          before |-> row, after |-> after])

MayDeploy(v) == Exists(v)

Publishes(q) ==
    /\ Begins(q)
    /\ \E v \in Versions, percent \in Percents :
          /\ MayDeploy(v)
          /\ Decides(q, "deploy", v, percent, Published(row, v, percent))

RollsOut(q) ==
    /\ Begins(q)
    /\ row # None
    /\ \E v \in Versions, percent \in Percents :
          /\ MayDeploy(v)
          /\ CanRollOut(row, percent)
          /\ Decides(q, "rollout", v, percent, RolledOut(row, v, percent))

RollsBack(q) ==
    /\ Begins(q)
    /\ row # None
    /\ \/ /\ row.previous # None
          /\ Decides(q, "rollback", None, Whole, RolledBack(row.previous))
       \/ \E v \in Versions :
             /\ MayDeploy(v)
             /\ Decides(q, "rollback", v, Whole, RolledBack(Single(v, Whole)))

\* Whoever read the row before, and the caches the request does not delete,
\* may keep the old table alive.
LeftStale(s) == (Sites \ {s}) \cup {t[2] : t \in {u \in Tasks : rpc[u] = "set"}}

Upserts(q) ==
    /\ pc[q] = "upsert"
    /\ row' = job[q].after
    /\ Goes(q, "delete", job[q])
    /\ lost' = (lost \/ row # job[q].before)
    /\ undo' = CASE job[q].act = "rollout" -> undo
                 [] job[q].act = "deploy" -> IF row = None THEN None ELSE row.rules
                 [] OTHER -> None
    /\ excused' = excused \cup LeftStale(job[q].site)
    /\ UNCHANGED <<configs, cache, resolverVars, budgetVars>>

Cached(s, value) == cache' = [cache EXCEPT ![s] = value]

InvalidateSnapshot(s) == UNCHANGED cache

Invalidate(s) == Cached(s, None)

Deletes(q) ==
    /\ pc[q] = "delete"
    /\ Invalidate(job[q].site)
    /\ Goes(q, "audit", job[q])
    /\ UNCHANGED <<configs, row, resolverVars, historyVars, budgetVars>>

\* The audit log is written and not read by what is modelled here.
Audits(q) ==
    /\ pc[q] = "audit"
    /\ Goes(q, "idle", None)
    /\ UNCHANGED <<tableVars, resolverVars, historyVars, budgetVars>>

\* The database or Redis fails, or the process ends, between two awaits.
CutShort(q) ==
    /\ pc[q] # "idle"
    /\ failures < MaxFailures
    /\ failures' = failures + 1
    /\ Goes(q, "idle", None)
    /\ excused' = IF pc[q] = "delete" THEN Sites ELSE excused
    /\ UNCHANGED <<tableVars, resolverVars, undo, lost, changes>>

(***************************************************************************)
(* resolve: a cached table is routed by at once; otherwise the row is read *)
(* and then cached.                                                        *)
(***************************************************************************)
Misses(t) ==
    /\ rpc[t] = "idle"
    /\ cache[t[2]] = None
    /\ rpc' = [rpc EXCEPT ![t] = "read"]
    /\ UNCHANGED <<tableVars, requestVars, copy, historyVars, budgetVars>>

\* No row: resolve fails, and nothing is cached.
Reads(t) ==
    /\ rpc[t] = "read"
    /\ rpc' = [rpc EXCEPT ![t] = IF row = None THEN "idle" ELSE "set"]
    /\ copy' = [copy EXCEPT ![t] = row]
    /\ UNCHANGED <<tableVars, requestVars, historyVars, budgetVars>>

Fills(t) ==
    /\ rpc[t] = "set"
    /\ Cached(t[2], copy[t])
    /\ rpc' = [rpc EXCEPT ![t] = "idle"]
    /\ copy' = [copy EXCEPT ![t] = None]
    /\ UNCHANGED <<configs, row, requestVars, historyVars, budgetVars>>

\* The time to live of the cached table is over.
ExpiresNever(s) == FALSE

Expires(s) ==
    /\ cache[s] # None
    /\ Cached(s, None)
    /\ UNCHANGED <<configs, row, requestVars, resolverVars, historyVars, budgetVars>>

RequestStep(q) == Inserts(q) \/ Upserts(q) \/ Deletes(q) \/ Audits(q)

ResolverStep(t) == Reads(t) \/ Fills(t)

Next ==
    \/ \E q \in Requests :
          \/ Creates(q) \/ Publishes(q) \/ RollsOut(q) \/ RollsBack(q)
          \/ RequestStep(q) \/ CutShort(q)
    \/ \E t \in Tasks : Misses(t) \/ ResolverStep(t)
    \/ \E s \in Sites : Expires(s)

Spec == Init /\ [][Next]_vars

\* A request or a resolution under way goes on, and a time to live ends.
\* Nobody has to ask for anything.
Fairness ==
    /\ \A q \in Requests : WF_vars(RequestStep(q))
    /\ \A t \in Tasks : WF_vars(ResolverStep(t))
    /\ \A s \in Sites : WF_vars(Expires(s))

FairSpec == Spec /\ Fairness

(***************************************************************************)
(* Properties.                                                             *)
(***************************************************************************)
\* Every variable of the registry has its type.
TypeOK ==
    /\ configs \in [Versions -> Requests \cup {"stored", None}]
    /\ row \in Deployments \cup {None}
    /\ cache \in [Sites -> Deployments \cup {None}]
    /\ pc \in [Requests -> {"idle", "insert", "upsert", "delete", "audit"}]
    /\ job \in [Requests -> Jobs \cup {None}]
    /\ rpc \in [Tasks -> {"idle", "read", "set"}]
    /\ copy \in [Tasks -> Deployments \cup {None}]
    /\ excused \subseteq Sites
    /\ undo \in Tables \cup {None}
    /\ lost \in BOOLEAN
    /\ changes \in 0 .. MaxChanges /\ failures \in 0 .. MaxFailures

\* A cached table is the row, unless a request is about to delete it, the
\* cache is another process's, a resolver held the old row during a change, or
\* a commit was cut short before its delete.
StaleOnlyByRace ==
    \A s \in Sites :
       \/ cache[s] \in {None, row}
       \/ s \in excused
       \/ \E q \in Requests : pc[q] = "delete" /\ job[q].site = s

\* What a rollback would restore is the table that was live before the last
\* publish, over any rollouts since, unless a request overwrote a change it had
\* not read.
RollbackUndoes == row # None /\ ~lost => row.previous = undo

\* Up to half of the traffic, and at all of it, a user who was given the
\* candidate keeps it while its traffic is raised: a rollout keeps the
\* experiment, hence every user's bucket, and the candidate's buckets are the
\* upper ones.  Between half and all of it the candidate is the heavier rule and
\* takes the lower buckets: the users it had go back to the incumbent.
CanaryIsSticky ==
    \A q \in Requests :
       /\ pc[q] \in {"upsert", "delete"}
       /\ job[q].act = "rollout"
       /\ 2 * job[q].percent <= Whole \/ job[q].percent = Whole
       => LET before == Users(job[q].before.rules, job[q].version)
              after == Users(job[q].after.rules, job[q].version)
          IN  Cardinality(before) <= Cardinality(after) => before \subseteq after

\* When the changes have stopped, the caches come to hold the last one, or
\* nothing, for good: a stale table lives no longer than its time to live.
CachesConverge == <>[](\A s \in Sites : cache[s] \in {None, row})

===============================================================================
