--------------------------- MODULE ExecutionGraph ---------------------------
(***************************************************************************)
(* The execution graph that a run is compared with (scripts/runtime/graph):*)
(* cycles, the deterministic order, the serial scheduler with the states   *)
(* of its nodes, the plan of a replay and the overlay of a linear run.     *)
(*                                                                         *)
(* A graph is a record [nodes, hard, cond, repeat] of nodes and three sets *)
(* of edges <<from, to>>.  Nodes are numbers, in the order in which the    *)
(* code sorts their names.  Nothing here is a state: MCAlgorithms applies  *)
(* the operators to every small graph.                                     *)
(***************************************************************************)
EXTENDS Naturals, Sequences, FiniteSets, SequencesExt, FiniteSetsExt

(* A set of nodes in the order of their names.                             *)
RECURSIVE InOrder(_)
InOrder(S) == IF S = {} THEN <<>> ELSE <<Min(S)>> \o InOrder(S \ {Min(S)})

-----------------------------------------------------------------------------
(* Structure.                                                              *)

SchedulingEdges(g) == g.hard \cup g.cond

Known(g, edges) == {e \in edges : e[1] \in g.nodes /\ e[2] \in g.nodes}

Parents(g, n) == {m \in g.nodes : <<m, n>> \in Known(g, SchedulingEdges(g))}
Sons(g, n) == {m \in g.nodes : <<n, m>> \in Known(g, SchedulingEdges(g))}

(* The depth-first search of hasCycle: a node is grey while the search is  *)
(* below it; a grey node met again closes a cycle.                         *)
RECURSIVE Visit(_, _, _)
Visit(edges, dfs, u) ==
  LET Meet(d, v) ==
        CASE d.cycle \/ d.mark[v] = "black" -> d
          [] d.mark[v] = "grey" -> [d EXCEPT !.cycle = TRUE]
          [] OTHER -> Visit(edges, d, v)
      below == FoldLeft(Meet, [dfs EXCEPT !.mark[u] = "grey"],
                        InOrder({e[2] : e \in {x \in edges : x[1] = u}}))
  IN  IF below.cycle THEN below ELSE [below EXCEPT !.mark[u] = "black"]

HasCycle(g, edges) ==
  LET Root(d, n) ==
        IF d.cycle \/ d.mark[n] # "white" THEN d ELSE Visit(Known(g, edges), d, n)
  IN  FoldLeft(Root, [cycle |-> FALSE, mark |-> [n \in g.nodes |-> "white"]],
               InOrder(g.nodes)).cycle

(* What the scheduler asks of a graph.                                     *)
WellFormed(g) ==
  /\ \A e \in g.hard \cup g.cond \cup g.repeat : e[1] \in g.nodes /\ e[2] \in g.nodes
  /\ ~HasCycle(g, g.hard)
  /\ ~HasCycle(g, SchedulingEdges(g))

\* Mutated form: the largest ready node first.
RECURSIVE KahnFrom_Last(_, _)
KahnFrom_Last(g, out) ==
  LET ready == {n \in g.nodes \ ToSet(out) : Parents(g, n) \subseteq ToSet(out)}
  IN  IF ready = {} THEN out ELSE KahnFrom_Last(g, Append(out, Max(ready)))

(* Kahn's algorithm, the smallest ready node first.                        *)
RECURSIVE KahnFrom(_, _)
KahnFrom(g, out) ==
  LET done == ToSet(out)
      ready == {n \in g.nodes \ done : Parents(g, n) \subseteq done}
  IN  IF ready = {} THEN out ELSE KahnFrom(g, Append(out, Min(ready)))

Order(g) == KahnFrom(g, <<>>)

(* The nodes that no path from the roots leads to.                         *)
RECURSIVE ReachFrom(_, _, _)
ReachFrom(edges, seen, queue) ==
  IF queue = <<>> THEN seen
  ELSE LET new == {e[2] : e \in {x \in edges : x[1] = Head(queue)}} \ seen
       IN  ReachFrom(edges, seen \cup new, Tail(queue) \o InOrder(new))

Unreachable(g, roots, edges) ==
  g.nodes \ ReachFrom(Known(g, edges), roots \cap g.nodes, InOrder(roots \cap g.nodes))

-----------------------------------------------------------------------------
(* The states of the nodes.  A document has the graph it was made for, the *)
(* status and the attempts of each node and the numbers of its transitions;*)
(* the counter belongs to the process.                                     *)

Allowed ==
  [pending   |-> {"ready", "blocked", "skipped"},
   ready     |-> {"running", "blocked", "skipped"},
   running   |-> {"completed", "failed", "blocked"},
   completed |-> {}, failed |-> {}, skipped |-> {}, blocked |-> {}]

Snapshot(g) ==
  [graph |-> g, status |-> [n \in g.nodes |-> "pending"],
   attempts |-> [n \in g.nodes |-> 0], log |-> <<>>]

Increasing(s) == \A i \in 1..(Len(s) - 1) : s[i] < s[i + 1]

(* The transition is in the document even when its number is refused.      *)
Transition(p, n, to) ==
  IF n \notin DOMAIN p.doc.status \/ to \notin Allowed[p.doc.status[n]]
  THEN [p EXCEPT !.ok = FALSE]
  ELSE LET log == Append(p.doc.log, p.counter + 1)
       IN  [ok |-> Increasing(log), counter |-> p.counter + 1,
            doc |-> [p.doc EXCEPT !.status[n] = to, !.log = log,
                                  !.attempts[n] = IF to = "running" THEN @ + 1 ELSE @]]

Aligned(g, doc) == DOMAIN doc.status = g.nodes /\ doc.graph = g

(* The pending nodes whose parents have all completed.                     *)
ReadyNodes(g, doc) ==
  {n \in DOMAIN doc.status : doc.status[n] = "pending"
                          /\ \A m \in Parents(g, n) : doc.status[m] = "completed"}

First(order, S) == order[Min({i \in DOMAIN order : order[i] \in S})]

RECURSIVE Serial(_, _, _)
Serial(g, p, executed) ==
  LET ready == ReadyNodes(g, p.doc)
      n == First(Order(g), ready)
      Step(q, to) == IF q.ok THEN Transition(q, n, to) ELSE q
      next == FoldLeft(Step, p, <<"ready", "running", "completed">>)
      left == {m \in g.nodes : p.doc.status[m] = "pending"}
  IN  IF ready = {}
      THEN [ok |-> left = {}, executed |-> executed, left |-> left, doc |-> p.doc]
      ELSE IF ~next.ok
           THEN [ok |-> FALSE, executed |-> executed, left |-> left, doc |-> next.doc]
           ELSE Serial(g, next, Append(executed, n))

(* runSerialAdvisoryScheduler starts the counter of the process again.     *)
RunSerial(g, doc) ==
  IF Aligned(g, doc) /\ WellFormed(g)
  THEN Serial(g, [ok |-> TRUE, counter |-> 0, doc |-> doc], <<>>)
  ELSE [ok |-> FALSE, executed |-> <<>>, left |-> {}, doc |-> doc]

(* The chain of nodes that a blocked node waits for.                       *)
RECURSIVE Upstream(_, _, _, _)
Upstream(g, status, chain, depth) ==
  LET waiting == {p \in Parents(g, Head(chain)) : status[p] \in {"blocked", "pending"}}
  IN  IF waiting = {} \/ depth = 0 \/ Min(waiting) \in ToSet(chain) THEN chain
      ELSE Upstream(g, status, <<Min(waiting)>> \o chain, depth - 1)

BlockedChain(g, status, n) == Upstream(g, status, <<n>>, 20)

-----------------------------------------------------------------------------
(* The plan of a replay of some nodes.  A boundary is replayed, and what   *)
(* lies below it is not.                                                   *)

\* Mutated form: a boundary is entered when it is a target itself.
Descend_IntoTargets(g, targets, stops, n) ==
  IF n \in stops \ targets THEN {} ELSE Sons(g, n)

Descend(g, targets, stops, n) == IF n \in stops THEN {} ELSE Sons(g, n)

RECURSIVE Walk(_, _, _, _, _)
Walk(g, targets, stops, walk, n) ==
  LET Enter(w, m) == Walk(g, targets, stops, w, m)
      below == FoldLeft(Enter, [walk EXCEPT !.stack = @ \cup {n}, !.subtree = @ \cup {n}],
                        InOrder(Descend(g, targets, stops, n)))
  IN  CASE n \in walk.stack -> [walk EXCEPT !.cycle = TRUE]
        [] n \in walk.closed -> walk
        [] OTHER -> [below EXCEPT !.stack = @ \ {n}, !.closed = @ \cup {n}]

Downstream(g, targets, stops) ==
  LET Enter(w, t) == Walk(g, targets, stops, w, t)
  IN  FoldLeft(Enter, [subtree |-> {}, stack |-> {}, closed |-> {}, cycle |-> FALSE],
               InOrder(targets))

(* The distance of each node of the subtree from the targets, by a queue.  *)
RECURSIVE Spread(_, _, _, _)
Spread(g, subtree, dist, queue) ==
  IF queue = <<>> THEN dist
  ELSE LET u == Head(queue)
           Nearer(v) == v \notin DOMAIN dist \/ dist[u] + 1 < dist[v]
           new == {v \in Sons(g, u) \cap subtree : Nearer(v)}
       IN  Spread(g, subtree, [v \in new |-> dist[u] + 1] @@ dist, Tail(queue) \o InOrder(new))

Generations(g, targets, subtree) ==
  LET start == targets \cap subtree
  IN  Spread(g, subtree, [t \in start |-> 0], InOrder(start))

ReplayStatus(n, d, targets, stops, safe) ==
  CASE n \notin d.subtree -> "optional"
    [] n \in d.subtree \ safe -> "blocked"
    [] n \in (d.subtree \cap safe) \cap targets -> "required"
    [] n \in (d.subtree \cap safe \cap stops) \ targets -> "boundary"
    [] OTHER -> "safe"

(* planGraphReplay; the order of a graph with a cycle throws before it.    *)
PlanReplay(g, doc, targets, stops, safe) ==
  LET valid == targets \cap g.nodes
      d == Downstream(g, valid, stops)
      invalidated == d.subtree \ targets
      Within(n) == n \in d.subtree
  IN  [ok |-> targets # {} /\ targets \subseteq g.nodes /\ ~d.cycle /\ Aligned(g, doc),
       subtree |-> d.subtree,
       order |-> SelectSeq(Order(g), Within),
       invalidatedBy |-> [n \in invalidated |-> Parents(g, n) \cap d.subtree],
       generation |-> Generations(g, valid, d.subtree),
       status |-> [n \in g.nodes |-> ReplayStatus(n, d, targets, stops, safe)]]

-----------------------------------------------------------------------------
(* The graph of the pipeline, and the overlay that compares a run with it. *)

Architect == 1
Correction == 2
Plan == 3
Executor == 4
Knowledge == 5
Review == 6
Scan == 7
ValidationPlan == 8
Validator == 9

Canonical ==
  LET line == <<Scan, Architect, Plan, Executor, ValidationPlan, Validator, Review>>
  IN  [nodes |-> 1..9, hard |-> {<<line[i], line[i + 1]>> : i \in 1..6},
       cond |-> {<<Review, Knowledge>>, <<Review, Correction>>},
       repeat |-> {<<Correction, Executor>>}]

NodesOf(phase) ==
  CASE phase = "architect" -> <<Scan, Architect, Plan>>
    [] phase = "executor" -> <<Executor>>
    [] phase = "review" -> <<ValidationPlan, Validator, Review>>
    [] phase = "correction" -> <<Correction>>
    [] OTHER -> <<>>

(* The checkpoints of a run, as far as the artefacts of the nodes exist.   *)
Linear(checkpoints, present) ==
  LET Exists(n) == n \in present
      Add(line, phase) == line \o SelectSeq(NodesOf(phase), Exists)
  IN  FoldLeft(Add, <<>>, checkpoints)
        \o (IF Knowledge \in present THEN <<Knowledge>> ELSE <<>>)

Duplicates(s) == {n \in ToSet(s) : Cardinality({i \in DOMAIN s : s[i] = n}) > 1}

Monotone(line, order) ==
  \A i, k \in DOMAIN line :
    i < k /\ line[i] \in ToSet(order) /\ line[k] \in ToSet(order)
      => SelectInSeq(order, LAMBDA n : n = line[i]) <= SelectInSeq(order, LAMBDA n : n = line[k])

\* Mutated form: only corrections count as a loop.
LoopHints_Corrections(line) == Duplicates(line) \cap {Correction}

LoopHints(line) == Duplicates(line) \cap {Executor, Correction, Review}

OverlayStatus(g, line, scheduled, fingerprintOK, transitions) ==
  LET order == Order(g)
      divergent == ~fingerprintOK \/ Duplicates(scheduled) # {} \/ ~ToSet(line) \subseteq g.nodes
      back == ~Monotone(line, order)
  IN  CASE divergent -> "divergent"
        [] ~divergent /\ scheduled # order -> "warning"
        [] ~divergent /\ scheduled = order /\ back ->
             IF LoopHints(line) = {} THEN "divergent" ELSE "warning"
        [] OTHER -> IF transitions = <<>> /\ scheduled # <<>> THEN "warning" ELSE "consistent"

-----------------------------------------------------------------------------
(* What the algorithms promise.                                            *)

(* The nodes that edges lead to from S, by definition: those in every set  *)
(* that has S in it and is closed under the edges.                         *)
Reach(g, edges, S) ==
  LET Closed(T) == S \subseteq T /\ \A e \in edges : e[1] \in T => e[2] \in T
  IN  {n \in g.nodes : \A T \in SUBSET g.nodes : Closed(T) => n \in T}

Cyclic(g, edges) == \E n \in g.nodes : n \in Reach(g, edges, {e[2] : e \in {x \in edges : x[1] = n}})

Before(s, a, b) == \E i, k \in DOMAIN s : i < k /\ s[i] = a /\ s[k] = b

(* The search finds a cycle exactly if a node leads back to itself.  A     *)
(* graph without one is scheduled whole: each node once, after its         *)
(* parents, in the order that puts the smaller name first wherever the     *)
(* edges leave a choice; no other graph is scheduled at all.               *)
ScheduleSound(g) ==
  LET run == RunSerial(g, Snapshot(g))
      order == Order(g)
      edges == SchedulingEdges(g)
  IN  /\ HasCycle(g, edges) = Cyclic(g, edges)
      /\ \A r \in g.nodes : Unreachable(g, {r}, edges) = g.nodes \ Reach(g, edges, {r})
      /\ HasCycle(g, edges) => ~run.ok /\ run.executed = <<>>
      /\ ~HasCycle(g, edges) =>
           /\ run.ok /\ run.executed = order
           /\ ToSet(order) = g.nodes /\ Len(order) = Cardinality(g.nodes)
           /\ \A e \in edges : Before(order, e[1], e[2])
           /\ \A a, b \in g.nodes :
                a < b /\ Before(order, b, a) => \E m \in Parents(g, a) : m = b \/ Before(order, b, m)
           /\ run.doc.attempts = [n \in g.nodes |-> 1]
           /\ run.doc.status = [n \in g.nodes |-> "completed"]

(* A node whose work has begun or ended is not started again, and the      *)
(* chain shown for a blocked node leads along edges, over nodes that wait, *)
(* from one that waits for nobody.                                         *)
WorkedSound(g, doc) ==
  LET run == RunSerial(g, doc)
  IN  ~HasCycle(g, SchedulingEdges(g)) =>
        /\ \A n \in ToSet(run.executed) : doc.status[n] = "pending"
        /\ \A n \in g.nodes : run.doc.attempts[n] <= 1
        /\ \A n \in g.nodes :
             LET chain == BlockedChain(g, doc.status, n)
                 Waits(m) == doc.status[m] \in {"blocked", "pending"}
             IN  /\ \A i \in 1..(Len(chain) - 1) :
                      Waits(chain[i]) /\ <<chain[i], chain[i + 1]>> \in SchedulingEdges(g)
                 /\ ~\E m \in Parents(g, Head(chain)) : Waits(m)

(* A replay touches what its targets lead to without crossing a boundary,  *)
(* and nothing else; a node comes after the replayed nodes it depends on,  *)
(* its generation is one above that of its nearest parent, and each        *)
(* invalidated node has a parent to blame.                                 *)
ReplaySound(g, targets, stops, safe) ==
  LET plan == PlanReplay(g, Snapshot(g), targets, stops, safe)
      edges == SchedulingEdges(g)
      open == {e \in edges : e[1] \notin stops}
      inner(n) == Parents(g, n) \cap plan.subtree
  IN  ~HasCycle(g, edges) =>
        /\ plan.ok <=> targets # {} /\ targets \subseteq g.nodes
        /\ plan.subtree = Reach(g, open, targets \cap g.nodes)
        /\ ToSet(plan.order) = plan.subtree
        /\ \A e \in edges :
             e[1] \in plan.subtree /\ e[2] \in plan.subtree => Before(plan.order, e[1], e[2])
        /\ DOMAIN plan.generation = plan.subtree
        /\ \A n \in plan.subtree :
             IF n \in targets THEN plan.generation[n] = 0
             ELSE plan.generation[n] = 1 + Min({plan.generation[m] : m \in inner(n)})
        /\ \A n \in DOMAIN plan.invalidatedBy : plan.invalidatedBy[n] # {}
        /\ \A n \in g.nodes : plan.status[n] \in {"required", "boundary", "safe"} => n \in safe

(* The architect works once in a run; the other phases come first in this  *)
(* order, and may come again.                                              *)
PipelinePhases == <<"architect", "executor", "review", "correction">>

IsPipelineRun(checkpoints) ==
  \A k \in DOMAIN checkpoints :
    /\ checkpoints[k] = "architect" => k = 1
    /\ \A p \in 2..4 : checkpoints[k] = PipelinePhases[p]
         => \E i \in 1..(k - 1) : checkpoints[i] = PipelinePhases[p - 1]

(* Whatever corrections, resumes and replays a run went through, its order *)
(* is not reported as a divergence from the graph.                         *)
OverlaySound(checkpoints, present) ==
  IsPipelineRun(checkpoints) =>
    OverlayStatus(Canonical, Linear(checkpoints, present), Order(Canonical), TRUE, <<>>) = "warning"
=============================================================================
