----------------------------- MODULE Propagation -----------------------------
(***************************************************************************)
(* What a change may reach, computed twice in shadow mode: over the graph  *)
(* of the validation targets, and over the graph of imports that is read   *)
(* from the project; and what validation, risk, review and correction make *)
(* of it.  Files are numbers, in the order of their names.  What a file    *)
(* is guessed to test and what its imports were resolved to are inputs.    *)
(***************************************************************************)
EXTENDS Integers, Sequences, FiniteSets, FiniteSetsExt, SequencesExt, Bags, BagsExt

CONSTANT Null

-----------------------------------------------------------------------------
(* The graph of the targets.  A project says which files exist, which look *)
(* like tests, and what file a test is guessed to be of; a target has the  *)
(* files that it imports, as far as they were found.                       *)
TypeOf(project, f) == IF f \in project.tests THEN "test" ELSE "file"

Node(project, f) == <<TypeOf(project, f), f>>

Edge(from, relation, to) == [from |-> from, relation |-> relation, to |-> to]

BuildDependencyGraphDoc(project, targets, planned) ==
  LET files == DOMAIN targets \cup planned
      guessed == {f \in files \cap project.tests : project.guess[f] \in project.exists}
      resolved == {i \in (DOMAIN targets) \X project.exists : i[2] \in targets[i[1]] \ {i[1]}}
  IN  {Edge(<<"test", f>>, "tests", <<"file", project.guess[f]>>) : f \in guessed}
      \cup {Edge(Node(project, i[1]), "imports", Node(project, i[2])) : i \in resolved}

NodesOf(graph) == {e.from : e \in graph} \cup {e.to : e \in graph}
Importers(graph, n) == {e.from : e \in {d \in graph : d.relation = "imports" /\ d.to = n}}
Imported(graph, n) == {e.to : e \in {d \in graph : d.relation = "imports" /\ d.from = n}}
LinkedTestsForFiles(graph, f) ==
  {e.from[2] : e \in {d \in graph : d.relation = "tests" /\ d.to = <<"file", f>>}}

(* Nodes are compared by their ids: "file:..." before "test:...".          *)
Sorted(nodes) ==
  SetToSortSeq(nodes, LAMBDA a, b : IF a[1] = b[1] THEN a[2] < b[2] ELSE a[1] = "file")

(* One level after the other, in the order of the ids, until the depth or  *)
(* the number of nodes, the seed among them, is used up.                   *)
RECURSIVE Expand(_, _, _, _, _)
Expand(next, visited, frontier, depth, maxNodes) ==
  LET Take(seen, n) == IF Cardinality(seen) >= maxNodes THEN seen ELSE seen \cup {n}
      Visit(seen, n) == FoldLeft(Take, seen, Sorted(next[n]))
      after == FoldLeft(Visit, visited, Sorted(frontier))
  IN  IF frontier = {} \/ depth = 0 \/ Cardinality(visited) >= maxNodes THEN visited
      ELSE Expand(next, after, after \ visited, depth - 1, maxNodes)

Expansion(visited, seed, maxNodes) ==
  [files |-> {n[2] : n \in visited \ {seed}}, truncated |-> Cardinality(visited) >= maxNodes]

ExpandImpactReverseImports(graph, seed, limits) ==
  LET next == [n \in NodesOf(graph) \cup {seed} |-> Importers(graph, n)]
  IN  Expansion(Expand(next, {seed}, {seed}, limits.reverseDepth, limits.reverseNodes), seed,
                limits.reverseNodes)

\* Mutated form: it is as deep as the other way.
ExpandForwardImports_Deep(graph, seed, limits) ==
  LET next == [n \in NodesOf(graph) \cup {seed} |-> Imported(graph, n)]
  IN  Expansion(Expand(next, {seed}, {seed}, limits.reverseDepth, limits.forwardNodes), seed,
                limits.forwardNodes)

ExpandForwardImports(graph, seed, limits) ==
  LET next == [n \in NodesOf(graph) \cup {seed} |-> Imported(graph, n)]
  IN  Expansion(Expand(next, {seed}, {seed}, limits.forwardDepth, limits.forwardNodes), seed,
                limits.forwardNodes)

EnrichValidationTargetsWithGraphImpact(project, graph, f, limits) ==
  LET seed == Node(project, f)
      back == ExpandImpactReverseImports(graph, seed, limits)
      ahead == ExpandForwardImports(graph, seed, limits)
  IN  [direct |-> {n[2] : n \in Importers(graph, seed)} \ {f},
       importers |-> back.files \ {f}, backTruncated |-> back.truncated,
       dependencies |-> ahead.files \ {f}, aheadTruncated |-> ahead.truncated,
       tests |-> LinkedTestsForFiles(graph, f) \ {f}]

(* What the plan is told about it; dependencies are called direct at any   *)
(* distance.  The hints are those about the graph.                         *)
CandidatesOf(f, impact) ==
  {<<"reverse_import", f, c, IF c \in impact.direct THEN "direct" ELSE "transitive">> :
     c \in impact.importers}
  \cup {<<"forward_import", f, c, "direct">> : c \in impact.dependencies}
  \cup {<<"linked_test", f, c, "direct">> : c \in impact.tests}

Kinds == <<"forward_import", "linked_test", "reverse_import">>

CandidateBefore(a, b) ==
  LET Place(kind) == CHOOSE i \in DOMAIN Kinds : Kinds[i] = kind
  IN  \/ Place(a[1]) < Place(b[1])
      \/ a[1] = b[1] /\ (a[2] < b[2] \/ (a[2] = b[2] /\ a[3] < b[3]))

EnrichValidationPlanWithGraphImpact(impacts, max) ==
  LET all == UNION {CandidatesOf(f, impacts[f]) : f \in DOMAIN impacts}
      kept == {c \in all : Cardinality({d \in all : CandidateBefore(d, c)}) < max}
  IN  [candidates |-> kept,
       hints |-> {h \in {"reverse_truncation", "forward_truncation", "cap_hit", "transitive"} :
                    CASE h = "reverse_truncation" -> \E f \in DOMAIN impacts : impacts[f].backTruncated
                      [] h = "forward_truncation" -> \E f \in DOMAIN impacts : impacts[f].aheadTruncated
                      [] h = "cap_hit" -> Cardinality(all) > max
                      [] h = "transitive" -> \E c \in kept : c[4] = "transitive"}]

-----------------------------------------------------------------------------
(* The graph that is read from the project: from the entries along the     *)
(* imports, the first file by name first.  A file is put on the list, a    *)
(* bag, by each import of it, and is read again at another depth.          *)
(* source[f] is the sequence of the imports of a file that can be read,    *)
(* Null where one is not found, which gives it a node of its own.  The     *)
(* limits are those on depth (none if negative), on nodes, on the edges of *)
(* a node, and the turns of the loop, 128 * max_files + 16384 in the code. *)
Stub(f, i) == <<f, i>>

TargetOf(source, f, i) == IF source[f][i] = Null THEN Stub(f, i) ELSE <<source[f][i], 0>>

EnsureNode(s, n, limits) ==
  IF n \in s.nodes \/ Cardinality(s.nodes) < limits.files
  THEN [s EXCEPT !.nodes = @ \cup {n}]
  ELSE [s EXCEPT !.filesHit = TRUE]

MayEnqueue(depth, limits) == limits.depth < 0 \/ depth <= limits.depth

ReadImport(s, source, next, limits, i) ==
  LET target == TargetOf(source, next.file, i)
      with == EnsureNode(s, target, limits)
  IN  CASE s.emitted >= limits.edges -> [s EXCEPT !.cut = TRUE]
        [] s.emitted < limits.edges /\ target \notin with.nodes -> with
        [] s.emitted < limits.edges /\ target \in with.nodes ->
             [with EXCEPT !.edges = @ \cup {<<next.file, target>>}, !.emitted = @ + 1,
                          !.work = IF target[2] = 0 /\ MayEnqueue(next.depth + 1, limits)
                                   THEN BagAdd(@, [file |-> target[1], depth |-> next.depth + 1])
                                   ELSE @]

FirstOf(work) ==
  CHOOSE w \in BagToSet(work) : \A v \in BagToSet(work) :
    w.file < v.file \/ (w.file = v.file /\ w.depth <= v.depth)

\* Mutated form: a file is read once, at whatever depth it comes up first.
AlreadyRead_AnyDepth(s, next) == \E d \in s.done : d.file = next.file

AlreadyRead(s, next) == next \in s.done

ReadFile(s, source, limits) ==
  LET next == FirstOf(s.work)
      left == [s EXCEPT !.work = BagRemove(@, next), !.turns = @ + 1,
                        !.emitted = 0, !.done = @ \cup {next}]
      with == EnsureNode(left, <<next.file, 0>>, limits)
      Read(r, i) == ReadImport(r, source, next, limits, i)
  IN  IF AlreadyRead(s, next) \/ next.file \notin DOMAIN source THEN left
      ELSE IF <<next.file, 0>> \notin with.nodes THEN with
      ELSE FoldLeft(Read, with, [i \in DOMAIN source[next.file] |-> i])

RECURSIVE ReadAll(_, _, _)
ReadAll(s, source, limits) ==
  IF s.work = EmptyBag \/ s.turns >= limits.turns THEN s
  ELSE ReadAll(ReadFile(s, source, limits), source, limits)

BuildJsTsImportDependencyGraphDocument(source, entries, limits) ==
  LET Enter(s, f) == EnsureNode(s, <<f, 0>>, limits)
      empty == [nodes |-> {}, edges |-> {}, done |-> {}, emitted |-> 0, cut |-> FALSE,
                filesHit |-> FALSE, turns |-> 0,
                work |-> SetToBag({[file |-> f, depth |-> 0] : f \in entries})]
  IN  ReadAll(FoldLeft(Enter, empty, SetToSortSeq(entries, LAMBDA a, b : a < b)), source, limits)

-----------------------------------------------------------------------------
(* The overlay of a change: what the changed files, the roots, import and  *)
(* what imports them, by distance and then by the name of the root.  best  *)
(* has the distance and the root of every node that was reached.           *)
Better(best, n, d, root) ==
  \/ n \notin DOMAIN best
  \/ d < best[n].distance
  \/ d = best[n].distance /\ root < best[n].root

TryImproveReach(best, n, d, root) ==
  IF Better(best, n, d, root)
  THEN [m \in DOMAIN best \cup {n} |-> IF m = n THEN [distance |-> d, root |-> root] ELSE best[m]]
  ELSE best

Follow(s, cur, limits, n) ==
  LET d == cur.distance + 1
      reached == cur.distance < limits.hops /\ Better(s.best, n, d, cur.root)
  IN  CASE s.edgesHit \/ Cardinality(s.edges) >= limits.edges ->
             [s EXCEPT !.edgesHit = TRUE, !.queue = {}]
        [] ~s.edgesHit /\ Cardinality(s.edges) < limits.edges
             /\ n \notin DOMAIN s.best /\ Cardinality(DOMAIN s.best) >= limits.nodes ->
             [s EXCEPT !.nodesHit = TRUE]
        [] OTHER ->
             [s EXCEPT !.edges = @ \cup {<<cur.node, n>>},
                       !.best = IF reached THEN TryImproveReach(@, n, d, cur.root) ELSE @,
                       !.queue = IF reached THEN @ \cup {[node |-> n, distance |-> d, root |-> cur.root]}
                                 ELSE @]

Earlier(a, b) ==
  \/ a.distance < b.distance
  \/ a.distance = b.distance /\ (a.root < b.root \/ (a.root = b.root /\ a.node <= b.node))

RECURSIVE Propagate(_, _, _)
Propagate(s, neighbors, limits) ==
  LET cur == CHOOSE a \in s.queue : \A b \in s.queue : Earlier(a, b)
      rest == [s EXCEPT !.queue = @ \ {cur}]
      stale == s.best[cur.node] # [distance |-> cur.distance, root |-> cur.root]
      Along(r, n) == Follow(r, cur, limits, n)
  IN  IF s.queue = {} THEN s
      ELSE IF stale THEN Propagate(rest, neighbors, limits)
      ELSE Propagate(FoldLeft(Along, rest, SetToSortSeq(neighbors[cur.node], LAMBDA a, b : a < b)),
                     neighbors, limits)

PropagateDirectedStable(neighbors, seeds, limits) ==
  Propagate([best |-> [n \in seeds |-> [distance |-> 0, root |-> n]],
             queue |-> {[node |-> n, distance |-> 0, root |-> n] : n \in seeds},
             edges |-> {}, edgesHit |-> FALSE, nodesHit |-> FALSE],
            neighbors, limits)

(* roots[f] is the set of reasons for which f is a root; a root may be     *)
(* missing from the graph, the function imports.                           *)
Backward(imports) == [n \in DOMAIN imports |-> {m \in DOMAIN imports : n \in imports[m]}]

ReasonsOf(roots, f) == IF f \in DOMAIN roots THEN roots[f] ELSE {}

BuildSemanticMutationOverlayDocument(imports, roots, limits) ==
  LET seeds == DOMAIN roots \cap DOMAIN imports
      ahead == PropagateDirectedStable(imports, seeds, limits)
      back == PropagateDirectedStable(Backward(imports), seeds, limits)
      nodes == DOMAIN ahead.best \cup DOMAIN back.best
      Tuples(n) == {b[n] : b \in {c \in {ahead.best, back.best} : n \in DOMAIN c}}
      Chosen(n) == CHOOSE t \in Tuples(n) : \A u \in Tuples(n) :
                     t.distance < u.distance \/ (t.distance = u.distance /\ t.root <= u.root)
      Reached(b, n) == n \in DOMAIN b /\ b[n].distance > 0
  IN  [nodes |-> [n \in nodes |->
                    [distance |-> Chosen(n).distance, root |-> Chosen(n).root,
                     reasons |-> ReasonsOf(roots, n)
                       \cup (IF Reached(ahead.best, n) THEN {"import_reach"} ELSE {})
                       \cup (IF Reached(back.best, n) THEN {"reverse_import_reach"} ELSE {})]],
       edges |-> ahead.edges \cup back.edges, roots |-> DOMAIN roots, seeds |-> seeds,
       complete |-> ~ahead.edgesHit /\ ~back.edgesHit /\ ~ahead.nodesHit /\ ~back.nodesHit]

(* The projection: the paths and the directories, without the reasons.     *)
BuildPropagationProjectionManifest(overlay, dir) ==
  [paths |-> DOMAIN overlay.nodes,
   modules |-> {dir[f] : f \in DOMAIN overlay.nodes} \ {<<>>}, roots |-> overlay.roots]

-----------------------------------------------------------------------------
(* Validation: which other files and directories it would look at.  A      *)
(* directory is a sequence of names, the root is empty.                    *)
Classes == <<"reconciliation_related", "reverse_semantic_dependency",
             "transitive_semantic_dependency", "direct_semantic_dependency">>

Rank(class) == CHOOSE i \in DOMAIN Classes : Classes[i] = class

ClassifyImpactedSemanticNode(graph, f) ==
  IF graph = Null THEN "transitive_semantic_dependency"
  ELSE IF f \notin DOMAIN graph.nodes THEN "transitive_semantic_dependency"
  ELSE LET reasons == graph.nodes[f].reasons
       IN  CASE reasons \cap {"unexpected", "unmatched"} # {} -> "reconciliation_related"
             [] reasons \cap {"unexpected", "unmatched"} = {} /\ "reverse_import_reach" \in reasons ->
                  "reverse_semantic_dependency"
             [] reasons \cap {"unexpected", "unmatched", "reverse_import_reach"} = {}
                  /\ (graph.nodes[f].distance = 0 \/ "import_reach" \notin reasons)
                  /\ reasons \cap {"direct_change", "explicit_root"} # {} -> "direct_semantic_dependency"
             [] OTHER -> "transitive_semantic_dependency"

Stronger(a, b) == IF Rank(b) < Rank(a) THEN b ELSE a

(* The files first, in their order, then the directories of which no file  *)
(* was taken.  A directory is at least a transitive dependency.            *)
\* Mutated form: the limit falls before what is validated already is left out.
FileCandidates_CapFirst(projection, original, cap) ==
  {f \in projection.paths \ original : Cardinality({g \in projection.paths : g < f}) < cap}

FileCandidates(projection, original, cap) ==
  {f \in projection.paths \ original :
     Cardinality({g \in projection.paths \ original : g < f}) < cap}

ModuleClass(graph, projection, dir, d) ==
  LET within == {f \in projection.paths : IsPrefix(d, dir[f])}
  IN  FoldSet(LAMBDA f, c : Stronger(c, ClassifyImpactedSemanticNode(graph, f)),
              "transitive_semantic_dependency", within)

ModuleCandidates(projection, files, dir, order, cap) ==
  LET open == {d \in projection.modules : \A f \in files : dir[f] # d}
  IN  {d \in open : Cardinality({e \in open : order[e] < order[d]}) < cap - Cardinality(files)}

BuildValidationPropagationManifest(projection, graph, original, dir, order, cap) ==
  LET files == FileCandidates(projection, original, cap)
      modules == ModuleCandidates(projection, files, dir, order, cap)
      covered == {d \in projection.modules : \E f \in files : dir[f] = d}
  IN  [files |-> [f \in files |-> ClassifyImpactedSemanticNode(graph, f)],
       modules |-> [d \in modules |->
                      [class |-> ModuleClass(graph, projection, dir, d),
                       surrogate |-> Min({f \in projection.paths : IsPrefix(d, dir[f])})]],
       already |-> projection.paths \cap original,
       filesOverCap |-> projection.paths \ (original \cup files),
       modulesOverCap |-> projection.modules \ (covered \cup modules)]

-----------------------------------------------------------------------------
(* Risk, review and correction read the overlay, the projection if there   *)
(* is no overlay, or nothing.                                              *)
ClassifySemanticRiskReach(m) ==
  CASE m.depth <= 1 /\ m.nodes <= 8 /\ m.frontier <= 4 -> "local"
    [] (m.depth > 1 \/ m.nodes > 8 \/ m.frontier > 4)
         /\ (m.depth >= 4 \/ m.nodes >= 120 \/ m.frontier >= 40) -> "wide_propagation"
    [] OTHER -> "propagated"

(* levels[d + 1] is the number of the nodes at distance d; seeds and roots *)
(* are the roots in the graph and all of them.                             *)
SummarizePropagationFromGraph(levels, seeds, roots) ==
  LET depth == IF levels = <<>> THEN 0 ELSE Len(levels) - 1
  IN  [nodes |-> FoldLeft(LAMBDA a, b : a + b, 0, levels), depth |-> depth,
       frontier |-> CASE levels = <<>> -> 0
                      [] levels # <<>> /\ depth > 0 -> levels[Len(levels)]
                      [] levels # <<>> /\ depth = 0 -> IF seeds > 0 THEN seeds ELSE roots]

\* Mutated form: there is no frontier.
SummarizePropagationFromProjectionOnly_NoFrontier(levels, seeds, roots) ==
  LET nodes == FoldLeft(LAMBDA a, b : a + b, 0, levels)
  IN  [nodes |-> nodes, depth |-> IF nodes > 1 THEN 1 ELSE 0, frontier |-> 0]

SummarizePropagationFromProjectionOnly(levels, seeds, roots) ==
  LET nodes == FoldLeft(LAMBDA a, b : a + b, 0, levels)
  IN  [nodes |-> nodes, depth |-> IF nodes > 1 THEN 1 ELSE 0, frontier |-> nodes]

(* The advice of review and of correction, by the kinds of their hints.    *)
BuildHintsFromGraph(overlay, class) ==
  LET nodes == overlay.nodes
      near == {n \in DOMAIN nodes : nodes[n].distance = 0 \/ "direct_change" \in nodes[n].reasons}
      ahead == {n \in DOMAIN nodes : nodes[n].distance > 0 /\
                  nodes[n].reasons \cap {"import_reach", "direct_change"} # {}}
  IN  {h \in {"direct", "propagated", "reverse", "wide"} :
         CASE h = "direct" -> near # {}
           [] h = "propagated" -> \/ ahead # {}
                                  \/ /\ \E n \in DOMAIN nodes : nodes[n].distance > 0
                                     /\ Cardinality(DOMAIN nodes) > Cardinality(near)
           [] h = "reverse" -> \E n \in DOMAIN nodes : "reverse_import_reach" \in nodes[n].reasons
           [] h = "wide" -> class = "wide_propagation"}

BuildHintsProjectionOnly(nodes, roots, class) ==
  {h \in {"direct", "propagated", "wide"} :
     CASE h = "direct" -> nodes > 0
       [] h = "propagated" -> nodes > 1 \/ (roots > 0 /\ nodes > roots)
       [] h = "wide" -> class = "wide_propagation"}

(* Only the risk run time finds the summary of a projection: the module of *)
(* the risk run time does not export it, and the other two call undefined. *)
SemanticBlock(reader, mode, hasGraph, hasProjection) ==
  CASE mode = "off" -> "off"
    [] mode = "shadow" /\ hasGraph -> "graph"
    [] mode = "shadow" /\ ~hasGraph /\ hasProjection ->
         IF reader = "risk" THEN "projection" ELSE "throws"
    [] mode = "shadow" /\ ~hasGraph /\ ~hasProjection -> "skipped"

(* Not so: where the overlay is lost and the projection is there, review   *)
(* and correction fail, though their advice is only to be reported.        *)
AdviceIsHarmless(reader, mode, hasGraph, hasProjection) ==
  SemanticBlock(reader, mode, hasGraph, hasProjection) # "throws"

-----------------------------------------------------------------------------
(* What all this promises.                                                 *)
RECURSIVE Within(_, _, _)
Within(next, S, k) ==
  IF k = 0 THEN S ELSE Within(next, S \cup UNION {next[n] : n \in S}, k - 1)

(* The first of a spreading search that was cut short: nothing farther     *)
(* while something nearer is missing.                                      *)
NearestFirst(next, S, found, depth) ==
  /\ found \subseteq Within(next, S, depth)
  /\ \A k \in 0..depth : Within(next, S, k) \subseteq found \/ found \subseteq Within(next, S, k)

(* The impact of a target is what the graph has within the depth, nearest  *)
(* first where it is cut; only targets are ever found to import something. *)
(* A plan without a hint of a cut lists all of it, and its limit falls on  *)
(* the importers first.                                                    *)
ImpactSound(project, targets, planned, limits, max) ==
  LET graph == BuildDependencyGraphDoc(project, targets, planned)
      files == project.exists \cup DOMAIN targets \cup planned
      back == [f \in files |-> {n[2] : n \in Importers(graph, Node(project, f))}]
      ahead == [f \in files |-> {n[2] : n \in Imported(graph, Node(project, f))}]
      Impact(f) == EnrichValidationTargetsWithGraphImpact(project, graph, f, limits)
  IN  \A impacts \in {[f \in DOMAIN targets |-> Impact(f)]} :
      \A plan \in {EnrichValidationPlanWithGraphImpact(impacts, max)} :
      /\ \A f \in DOMAIN targets :
           /\ impacts[f].importers \subseteq DOMAIN targets \ {f}
           /\ NearestFirst(back, {f}, impacts[f].importers \cup {f}, limits.reverseDepth)
           /\ NearestFirst(ahead, {f}, impacts[f].dependencies \cup {f}, limits.forwardDepth)
           /\ ~impacts[f].backTruncated =>
                impacts[f].importers = Within(back, {f}, limits.reverseDepth) \ {f}
           /\ ~impacts[f].aheadTruncated =>
                impacts[f].dependencies = Within(ahead, {f}, limits.forwardDepth) \ {f}
           /\ \A t \in (DOMAIN targets \cup planned) \cap project.tests :
                project.guess[t] = f /\ f \in project.exists \ {t} => t \in impacts[f].tests
      /\ plan.hints \cap {"reverse_truncation", "forward_truncation", "cap_hit"} = {} =>
           \A f \in DOMAIN targets : \A g \in files \ {f} :
             /\ g \in Within(back, {f}, limits.reverseDepth) =>
                  \E c \in plan.candidates : c[1] = "reverse_import" /\ c[2] = f /\ c[3] = g
             /\ g \in Within(ahead, {f}, limits.forwardDepth) =>
                  <<"forward_import", f, g, "direct">> \in plan.candidates
      /\ "cap_hit" \in plan.hints /\ (\E c \in plan.candidates : c[1] = "reverse_import") =>
           \A f \in DOMAIN targets : \A g \in impacts[f].dependencies :
             <<"forward_import", f, g, "direct">> \in plan.candidates

(* Unless a limit is reported, or the turns ran out with files left on the *)
(* list, what is read is what can be reached within the depth, whatever    *)
(* the order of the names.  The turns last if there are as many as entries *)
(* and, for every depth, imports.  Whatever stops it, the edges join nodes,*)
(* there is a way to every node, and no file was read in part.             *)
TurnsLast(source, entries, limits) ==
  LET Emitted(f) == Min({Len(source[f]), limits.edges})
  IN  limits.depth >= 0
        /\ Cardinality(entries) + limits.depth * MapThenSumSet(Emitted, DOMAIN source) <= limits.turns

EdgesOf(source, F) ==
  UNION {{<<f, TargetOf(source, f, i)>> : i \in DOMAIN source[f]} : f \in F \cap DOMAIN source}

EdgesWithin(source, entries, depth) ==
  LET Next(f) == IF f \in DOMAIN source THEN ToSet(source[f]) \ {Null} ELSE {}
      next == [f \in entries \cup UNION {Next(h) : h \in DOMAIN source} |-> Next(f)]
  IN  EdgesOf(source, Within(next, entries, IF depth < 0 THEN Cardinality(DOMAIN next) ELSE depth))

ReadingSound(source, entries, limits) ==
  \A g \in {BuildJsTsImportDependencyGraphDocument(source, entries, limits)} :
  LET edges == EdgesWithin(source, entries, limits.depth)
      entered == {<<f, 0>> : f \in entries}
  IN  /\ Cardinality(g.nodes) <= limits.files
      /\ \A e \in g.edges : <<e[1], 0>> \in g.nodes
      /\ {e[2] : e \in g.edges} \subseteq g.nodes /\ g.nodes \subseteq entered \cup {e[2] : e \in g.edges}
      /\ g.edges \subseteq edges
      /\ ~g.filesHit /\ ~g.cut => EdgesOf(source, {d.file : d \in g.done}) \subseteq g.edges
      /\ ~g.filesHit /\ ~g.cut /\ g.work = EmptyBag =>
           g.edges = edges /\ g.nodes = entered \cup {e[2] : e \in edges}
      /\ TurnsLast(source, entries, limits) => g.work = EmptyBag

(* Not so: a reading that stops because its turns ran out has no mark of   *)
(* it, and nobody can tell it from one that is complete.                   *)
CutsAreReported(source, entries, limits) ==
  \A g \in {BuildJsTsImportDependencyGraphDocument(source, entries, limits)} :
    g.edges # EdgesWithin(source, entries, limits.depth) => g.filesHit \/ g.cut

(* The overlay tells the nearest root and how far it is, and whatever is   *)
(* not a root was reached over one of its edges from something nearer.  A  *)
(* file that imports itself has no such edge.                              *)
OverlaySound(imports, roots, limits, overlay) ==
  LET nodes == overlay.nodes
      ahead(k) == Within(imports, overlay.seeds, k)
      back(k) == Within(Backward(imports), overlay.seeds, k)
      Both(k) == ahead(k) \cup back(k)
  IN  /\ \A n \in DOMAIN nodes :
           /\ n \in Both(nodes[n].distance)
           /\ nodes[n].distance > 0 =>
                \E m \in DOMAIN nodes : /\ <<m, n>> \in overlay.edges
                                        /\ nodes[m].distance < nodes[n].distance
           /\ n \in overlay.seeds <=> nodes[n].distance = 0
      /\ overlay.complete =>
           /\ DOMAIN nodes = Both(limits.hops)
           /\ \A n \in DOMAIN nodes :
                /\ nodes[n].distance = Min({k \in 0..limits.hops : n \in Both(k)})
                /\ nodes[n].root = Min({r \in overlay.seeds :
                      \E next \in {imports, Backward(imports)} :
                        n \in Within(next, {r}, nodes[n].distance)})
                /\ "import_reach" \in nodes[n].reasons <=> n \in ahead(limits.hops) \ overlay.seeds
                /\ "reverse_import_reach" \in nodes[n].reasons <=>
                     n \in back(limits.hops) \ overlay.seeds

(* Every path of the projection is validated already, a candidate, or too  *)
(* many, and the same holds of its directories; none loses to a weaker     *)
(* class, with or without the overlay there are the same candidates.       *)
ManifestSound(overlay, original, dir, order, cap) ==
  LET projection == BuildPropagationProjectionManifest(overlay, dir)
      Of(graph) == BuildValidationPropagationManifest(projection, graph, original, dir, order, cap)
  IN  \A m \in {Of(overlay)}, blind \in {Of(Null)} :
      /\ DOMAIN blind.files = DOMAIN m.files /\ DOMAIN blind.modules = DOMAIN m.modules
      /\ Cardinality(DOMAIN m.files) + Cardinality(DOMAIN m.modules) <= cap
      /\ m.filesOverCap # {} => Cardinality(DOMAIN m.files) = cap
      /\ m.modulesOverCap # {} =>
           Cardinality(DOMAIN m.files) + Cardinality(DOMAIN m.modules) = cap
      /\ \A d \in projection.modules :
           \/ d \in DOMAIN m.modules /\ dir[m.modules[d].surrogate] # <<>>
           \/ d \in m.modulesOverCap
           \/ \E f \in DOMAIN m.files : dir[f] = d
      /\ \A d \in DOMAIN m.modules : \A f \in projection.paths :
           IsPrefix(d, dir[f]) => Rank(m.modules[d].class) <= Rank(ClassifyImpactedSemanticNode(overlay, f))
      /\ \A f \in DOMAIN m.files :
           /\ "reverse_import_reach" \in overlay.nodes[f].reasons => Rank(m.files[f]) <= 2
           /\ m.files[f] = "direct_semantic_dependency" =>
                f \in overlay.seeds /\ overlay.nodes[f].distance = 0

(* The projection alone says no less than the overlay, as far as it can:   *)
(* a wide reach is never taken for a local one, nor a local for a wide.    *)
HintsSound(overlay, class) ==
  LET nodes == DOMAIN overlay.nodes
      graph == BuildHintsFromGraph(overlay, class)
      blind == BuildHintsProjectionOnly(Cardinality(nodes), Cardinality(overlay.roots), class)
  IN  /\ graph \ {"reverse"} \subseteq blind
      /\ "propagated" \in graph <=> nodes \ overlay.seeds # {}
      /\ "direct" \in graph <=> overlay.seeds # {}

ReachSound(levels, seeds, roots) ==
  LET graph == ClassifySemanticRiskReach(SummarizePropagationFromGraph(levels, seeds, roots))
      blind == ClassifySemanticRiskReach(SummarizePropagationFromProjectionOnly(levels, seeds, roots))
  IN  ~({graph, blind} = {"wide_propagation", "local"})

MutationSound(imports, roots, limits, original, dir, order, cap) ==
  \A overlay \in {BuildSemanticMutationOverlayDocument(imports, roots, limits)} :
    /\ OverlaySound(imports, roots, limits, overlay)
    /\ ManifestSound(overlay, original, dir, order, cap)
    /\ \A class \in {"local", "wide_propagation"} : HintsSound(overlay, class)
==============================================================================
