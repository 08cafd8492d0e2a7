--------------------------- MODULE DiagnosticPlan ----------------------------
(***************************************************************************)
(* The plans of the troubleshooting agent: sets of nodes, each with the    *)
(* check it runs, the nodes it depends on, the node whose output it reads  *)
(* (0: none), where its result comes from, and the layer it is run         *)
(* in (0: not yet known).  A node's id is its place in the plan.  Where    *)
(* plans come from (templates, the model, the planner), what the validator *)
(* objects to, what is left once the bad nodes are cut, and the order in   *)
(* which the executor runs the rest.                                       *)
(***************************************************************************)
EXTENDS DiagnosticKnowledge

CONSTANTS MaxToolCalls,  \* Budget.max_tool_calls
          MaxNodes       \* Budget.max_nodes_per_plan

ASSUME PlanLimits == MaxToolCalls \in Nat \ {0} /\ MaxNodes \in Nat \ {0}

Node(id, skill, deps) ==
  [id |-> id, skill |-> skill, deps |-> deps, from |-> 0, origin |-> "run", layer |-> 0]

-----------------------------------------------------------------------------
(* Where plans come from *)

\* The checks of a template whose results the incident's cache may hold.
Cacheable == {"check_environment_state", "inspect_config"}

\* The nodes of the template for a category; none for a software fault.
Template(category) ==
  CASE category \in {"ENVIRONMENT", "TOOL_EXECUTION", "UNKNOWN"} ->
         {Node(1, "check_environment_state", {}), Node(2, "analyze_logs", {}),
          Node(3, "inspect_tool_records", {2}), Node(4, "inspect_config", {})}
    [] category \in {"CONFIG", "TEST_CASE"} ->
         {Node(1, "inspect_config", {}), Node(2, "validate_case_definition", {}),
          Node(3, "check_environment_state", {1})}
    [] OTHER -> {}

\* What a cache may hold of each of them; "run": nothing that may be reused.
Memories == [Cacheable -> Origins]

Blank == [check \in Cacheable |-> "run"]

\* A template whose nodes with a valid cache entry reuse it.
Trimmed(plan, memory) ==
  {[n EXCEPT !.origin = IF n.skill \in Cacheable THEN memory[n.skill] ELSE "run"] : n \in plan}

\* The plans a model may propose: one that is right, and one for each way it
\* is known to go wrong.
Proposals ==
  [valid |-> {Node(1, "check_environment_state", {}), Node(2, "inspect_config", {}),
              [Node(3, "retrieve_raw_log", {1, 2}) EXCEPT !.from = 1]},
   cyclic |-> {Node(1, "analyze_logs", {2}), Node(2, "check_environment_state", {1})},
   unauthorized |-> {Node(1, "check_environment_state", {}), Node(2, "restart_device", {1})},
   unknown_skill |-> {Node(1, "shell_exec", {})},
   schema_mismatch |-> {Node(1, "check_environment_state", {}),
                        [Node(2, "inspect_tool_records", {}) EXCEPT !.from = 1]},
   resource_conflict |-> {Node(1, "refresh_environment_state", {}),
                          Node(2, "reallocate_environment", {})},
   budget |-> {Node(i, "analyze_logs", {}) : i \in 1 .. 9}]

\* The plan of the planner's own choice: one check.
Single(check) == {Node(1, check, {})}

-----------------------------------------------------------------------------
(* Validation *)

Ids(plan) == {n.id : n \in plan}

NodeOf(plan, id) == CHOOSE n \in plan : n.id = id

DepsOf(plan, ids) == UNION {NodeOf(plan, id).deps : id \in ids \cap Ids(plan)}

\* The nodes a node waits for, directly or through others.
Upstream(plan, id) ==
  LET within[k \in Nat] ==
        IF k = 0 THEN DepsOf(plan, {id})
        ELSE LET nearer == within[k - 1] IN nearer \cup DepsOf(plan, nearer)
  IN  within[Cardinality(plan)]

\* The nodes the validator objects to: ids used twice, skills it does not
\* know, recoveries, a missing permission to read, missing dependencies, inputs that
\* are not dependencies, the node where a cycle was found, and the first of
\* two nodes that both need the environment and do not wait for each other.
BadNodes(plan, permissions) ==
  {n.id : n \in {n \in plan :
     \/ \E other \in plan \ {n} : other.id = n.id
     \/ n.skill \notin Checks
     \/ "diagnose:read" \notin permissions
     \/ ~ (n.deps \subseteq Ids(plan))
     \/ n.from # 0 /\ n.from \notin n.deps
     \/ /\ n.id \in Upstream(plan, n.id)
        /\ \A id \in Upstream(plan, n.id) : n.id <= id
     \/ /\ n.skill \in NeedsEnvironment
        /\ \E other \in plan : /\ n.id < other.id
                                /\ other.skill \in NeedsEnvironment
                                /\ other.id \notin Upstream(plan, n.id)
                                /\ n.id \notin Upstream(plan, other.id)}}

\* As if only the calls already made counted.
IsOverBudgetAlready(plan, calls) == Cardinality(plan) > MaxNodes \/ calls > MaxToolCalls

\* The whole plan is too large.
IsOverBudget(plan, calls) ==
  Cardinality(plan) > MaxNodes \/ calls + Cardinality(plan) > MaxToolCalls

IsValid(plan, permissions, calls) ==
  plan # {} /\ ~ IsOverBudget(plan, calls) /\ BadNodes(plan, permissions) = {}

\* The plan without the bad nodes and the nodes that directly depend on one.
Sanitized(plan, permissions, calls) ==
  IF IsOverBudget(plan, calls) THEN {}
  ELSE LET kept == Ids(plan) \ BadNodes(plan, permissions)
       IN  {n \in plan : n.id \in kept /\ n.deps \subseteq kept}

-----------------------------------------------------------------------------
(* Execution *)

\* The ids of the nodes that are run in the first k layers: a layer is what
\* waits for nothing but nodes of the layers before it.
RunBy(plan, k) ==
  LET within[j \in Nat] ==
        IF j = 0 THEN {}
        ELSE LET done == within[j - 1]
             IN  {n.id : n \in {n \in plan : n.deps \subseteq done}}
  IN  within[k]

\* The nodes to run, each with its layer; nodes that wait for one that is not
\* in the plan, or for each other, are never reached.
Scheduled(plan) ==
  LET last == Cardinality(plan)
      Layer(n) == CHOOSE k \in 0 .. last :
                    n.id \in RunBy(plan, k) /\ \A j \in 0 .. k - 1 : n.id \notin RunBy(plan, j)
  IN  {[n EXCEPT !.layer = Layer(n)] : n \in {n \in plan : n.id \in RunBy(plan, last)}}

\* Layer by layer, each by id.
IsNext(node, todo) ==
  \A other \in todo : \/ node.layer < other.layer
                      \/ node.layer = other.layer /\ node.id <= other.id

=============================================================================
