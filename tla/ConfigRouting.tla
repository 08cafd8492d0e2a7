---------------------------- MODULE ConfigRouting -----------------------------
(***************************************************************************)
(* prompt-config-registry: the routing table of a deployment, the tables   *)
(* publish, rollout and rollback make of it, and the router that picks the *)
(* version of a user.  A rule is a version and its weight; a table is one  *)
(* rule, or the incumbent's rule followed by the candidate's.              *)
(***************************************************************************)
EXTENDS Naturals, Sequences

CONSTANTS
    None,
    Versions,   \* the config versions of one agent
    Percents,   \* the traffic a request may ask for
    Whole       \* all of the traffic: 100 in the code

ASSUME ConfigRoutingAssumption ==
    /\ Versions \subseteq Nat \ {0}
    /\ Whole \in Nat \ {0}
    /\ Percents \subseteq 0 .. Whole

Rules == [version : Versions, weight : 0 .. Whole]

Tables == [1 .. 1 -> Rules] \cup [1 .. 2 -> Rules]

Deployments == [rules : Tables, status : {"CANARY", "RELEASED"}, previous : Tables \cup {None}]

Single(v, w) == <<[version |-> v, weight |-> w]>>

IsSingle(table) == Len(table) = 1

\* The version of the largest weight, the first of them on a tie.
Primary(table) ==
    IF IsSingle(table) \/ table[1].weight >= table[2].weight
       THEN table[1].version ELSE table[2].version

NextStatus(percent) == IF percent < Whole THEN "CANARY" ELSE "RELEASED"

\* Route percent of the traffic to v, and the rest to the incumbent.
Split(table, v, percent) ==
    IF percent = Whole \/ v = Primary(table)
       THEN Single(v, percent)
       ELSE Single(Primary(table), Whole - percent) \o Single(v, percent)

(***************************************************************************)
(* The requests, on the deployment d they read.                            *)
(***************************************************************************)
Published(d, v, percent) ==
    IF d = None
       THEN [rules |-> Single(v, Whole), status |-> "RELEASED", previous |-> None]
       ELSE [rules |-> Split(d.rules, v, percent), status |-> NextStatus(percent),
             previous |-> d.rules]

CanRollOut(d, percent) ==
    percent = Whole \/ (d.status # "RELEASED" /\ ~IsSingle(d.rules))

RolledOutKeepingOld(d, v, percent) ==
    [rules |-> Split(d.rules, v, percent), status |-> NextStatus(percent), previous |-> d.rules]

RolledOut(d, v, percent) ==
    [d EXCEPT !.rules = Split(d.rules, v, percent), !.status = NextStatus(percent)]

\* Back to the table before the last publish, or wholly to a given version.
RolledBack(table) == [rules |-> table, status |-> "RELEASED", previous |-> None]

(***************************************************************************)
(* The router: the heavier rule takes the lower buckets, a stable order    *)
(* keeps the incumbent first on a tie, and the last rule takes what the    *)
(* weights leave over.                                                     *)
(***************************************************************************)
Buckets == 0 .. Whole - 1

OrderedUnstably(table) ==
    IF ~IsSingle(table) /\ table[2].weight >= table[1].weight
       THEN <<table[2], table[1]>> ELSE table

Ordered(table) ==
    IF ~IsSingle(table) /\ table[2].weight > table[1].weight
       THEN <<table[2], table[1]>> ELSE table

Route(table, bucket) ==
    LET ordered == Ordered(table)
    IN  IF IsSingle(table) \/ bucket < ordered[1].weight
           THEN ordered[1].version ELSE ordered[2].version

\* The users of v.
Users(table, v) == {bucket \in Buckets : Route(table, bucket) = v}

===============================================================================
